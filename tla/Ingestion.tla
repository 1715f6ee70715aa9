----------------------------- MODULE Ingestion -----------------------------
(***************************************************************************)
(* The ingestion pipeline of one agent: the sources on disk and on the web,*)
(* the document store (chunks, the hash each source was ingested with, the *)
(* embedding model, the manifest of managed sources) and the jobs that     *)
(* work on it: `run`, which resolves every source and purges the others;   *)
(* `managed`, the dashboard's uploads and URLs; `delete`, the dashboard's. *)
(*                                                                         *)
(* A step is one commit of the store or one read that later steps rely on. *)
(* The lock of a store is a process's own: it keeps two ingests of the     *)
(* dashboard apart, not those of two processes, and a delete takes none.   *)
(* Models have one dimension: the store itself refuses any other.          *)
(***************************************************************************)
EXTENDS Integers, FiniteSets

CONSTANTS
  File, Url,  \* the sources
  Configured, \* those the role names; the dashboard adds files and pages
  Text,       \* contents that give chunks
  Blank,      \* a content that gives none: an empty file, a page out of reach
  Model,      \* embedding models of one dimension
  Actor,      \* threads that ingest or delete
  Process,    \* processes they live in
  MaxJob,     \* bound: ingests and deletes begun
  MaxUpset,   \* bound: sources that change and jobs cut short by an error or a death
  None        \* no content, no hash, no model, no source

Source == File \cup Url
Content == Text \cup {Blank}

ASSUME IngestionAssumption ==
  /\ File \cap Url = {} /\ Configured \subseteq Source
  /\ MaxJob \in Nat /\ MaxUpset \in Nat
  /\ None \notin Content \cup Model \cup Source /\ Blank \notin Text

Chunk == [text : Text, model : Model]
Store == [dimensions : BOOLEAN, identity : Model \cup {None},
          hash : [Source -> Content \cup {None}],
          chunks : [Source -> SUBSET Chunk], managed : SUBSET Source]

ASSUME StoreAssumption == None \notin Store

(* A store just created, with the dimensions of the model or without any.  *)
Fresh(dimensions) ==
  [dimensions |-> dimensions, identity |-> None, hash |-> [s \in Source |-> None],
   chunks |-> [s \in Source |-> {}], managed |-> {}]

Kind == {"run", "managed", "delete"}
At == {"idle", "resolved", "checking", "wiping", "classifying", "extracting", "hashing",
       "storing", "dropped", "added", "purging", "emptied", "fetching", "recording",
       "manifest", "rewriting", "unlinking"}

VARIABLES
  disk,   \* what each source holds; None: it is not there
  store,  \* the document store; None: no directory
  home,   \* the process of each actor
  job,    \* what each actor is doing
  edits, jobs, faults,
  kept,   \* history: managed sources registered and not deleted since
  raced,  \* history: sources stored from a file that changed while it was read
  torn,   \* history: sources a job left between the commits of replace_source,
          \* and all of a store whose removal was cut short
  crossed,   \* history: sources two jobs were writing at the same time
  late,      \* history: sources registered or uploaded while a run that had not seen them went on
  contended, \* history: sources whose entry a wipe or a stale copy of the manifest overwrote
  together   \* history: two ingests ran at the same time

writing == <<raced, torn, crossed>>
registering == <<kept, late, contended>>
history == <<writing, registering, together>>
world == <<disk, home, edits, jobs, faults>>
ingestionVars == <<disk, store, home, job, edits, jobs, faults, history>>

Idle == [at |-> "idle", kind |-> "run", force |-> FALSE, model |-> None, sources |-> {},
         todo |-> {}, text |-> [s \in Source |-> None], hash |-> [s \in Source |-> None],
         open |-> FALSE, barren |-> FALSE, fetched |-> FALSE, purge |-> FALSE, current |-> None, saved |-> {}, done |-> {},
         changed |-> {}]

Job == [at : At, kind : Kind, force : BOOLEAN, model : Model \cup {None},
        sources : SUBSET Source, todo : SUBSET Source,
        text : [Source -> Content \cup {None}], hash : [Source -> Content \cup {None}],
        open : BOOLEAN, barren : BOOLEAN, fetched : BOOLEAN, purge : BOOLEAN, current : Source \cup {None},
        saved : SUBSET Source, done : SUBSET Source, changed : SUBSET Source]

IngestionTypeOK ==
  /\ disk \in [Source -> Content \cup {None}]
  /\ store \in Store \cup {None}
  /\ home \in [Actor -> Process]
  /\ job \in [Actor -> Job]
  /\ edits \in Nat /\ faults \in Nat /\ jobs \in 0 .. MaxJob
  /\ kept \subseteq Source /\ raced \subseteq Source
  /\ torn \subseteq Source /\ crossed \subseteq Source
  /\ late \subseteq Source /\ contended \subseteq Source /\ together \in BOOLEAN

Exists == store # None
Opens == Exists /\ store.dimensions

(* Mutant: a store that is not there knows every source as empty. *)
KnownAsEmpty(s) == IF Exists THEN store.hash[s] ELSE "empty"

Known(s) == IF Exists THEN store.hash[s] ELSE None
Present(s) == disk[s] # None

IngestionInit ==
  /\ \E t \in Text : disk = [s \in Source |-> IF s \in File \ Configured THEN None ELSE t]
  /\ store = None
  /\ home \in [Actor -> Process]
  /\ job = [a \in Actor |-> Idle]
  /\ edits = 0 /\ jobs = 0 /\ faults = 0
  /\ raced = {} /\ torn = {} /\ crossed = {}
  /\ kept = {} /\ late = {} /\ contended = {} /\ together = FALSE

(* A configured file or a page changes, or a file is deleted.              *)
Edit(s) ==
  /\ edits + faults < MaxUpset
  /\ s \in Configured \cup Url
  /\ \E c \in Content \cup (IF s \in File THEN {None} ELSE {}) :
       c # disk[s] /\ disk' = [disk EXCEPT ![s] = c]
  /\ edits' = edits + 1
  /\ job' = [a \in Actor |-> IF job[a].at = "hashing" /\ s \in job[a].todo
                             THEN [job[a] EXCEPT !.changed = @ \cup {s}] ELSE job[a]]
  /\ UNCHANGED <<store, home, jobs, faults, history>>

Becomes(a, work) == job' = [job EXCEPT ![a] = work]
Moves(a, at) == Becomes(a, [job[a] EXCEPT !.at = at])
Stops(a) == Becomes(a, Idle)

(* Mutant: the managed sources are not merged. *)
ResolvedByRole == {s \in Configured : s \in Url \/ Present(s)}

(* The sources of a run, read outside the lock.  A store that does not     *)
(* open has no managed sources, and no complaint is made.                  *)
Resolved ==
  LET managed == IF Opens THEN store.managed ELSE {}
  IN  {s \in Configured \cup managed : s \in Url \/ Present(s)}

Begins(a) == job[a] = Idle /\ jobs < MaxJob /\ jobs' = jobs + 1

(* A run that is going on has not resolved all of these.                   *)
Unseen(sources) == \E b \in Actor :
  job[b].kind = "run" /\ job[b].at # "idle" /\ ~(sources \subseteq job[b].sources)

StartRun(a) ==
  /\ Begins(a)
  /\ \E force \in BOOLEAN, model \in Model :
       Becomes(a, [Idle EXCEPT !.at = "resolved", !.force = force, !.model = model,
                               !.sources = Resolved])
  /\ UNCHANGED <<disk, home, edits, faults, store, history>>

(* The dashboard saves the upload, or is given a URL, and ingests it.      *)
StartManaged(a) ==
  /\ Begins(a)
  /\ \E s \in (File \ Configured) \cup Url, model \in Model :
       /\ IF s \in Url THEN UNCHANGED <<disk, edits>>
          ELSE /\ \E c \in Text : disk' = [disk EXCEPT ![s] = c]
               /\ Present(s) => edits + faults < MaxUpset
               /\ edits' = IF Present(s) THEN edits + 1 ELSE edits
       /\ job' = [b \in Actor |->
            IF b = a THEN [Idle EXCEPT !.at = "resolved", !.kind = "managed",
                                       !.model = model, !.sources = {s}]
            ELSE IF s \in File /\ job[b].at = "hashing" /\ s \in job[b].todo
                 THEN [job[b] EXCEPT !.changed = @ \cup {s}] ELSE job[b]]
       /\ late' = IF ~Present(s) /\ Unseen({s}) THEN late \cup {s} ELSE late
  /\ UNCHANGED <<store, home, faults, writing, kept, contended, together>>

Ingesting(a) ==
  job[a].kind # "delete" /\
  job[a].at \notin {"idle", "resolved", "manifest", "rewriting"}

(* Mutant: the lock is not asked. *)
NeverLocked(a) == FALSE

Locked(a) == \E b \in Actor \ {a} : home[b] = home[a] /\ Ingesting(b)

Acquire(a) ==
  /\ job[a].at = "resolved"
  /\ IF Locked(a) THEN Stops(a) /\ UNCHANGED together
     ELSE /\ Moves(a, "checking")
          /\ together' = (together \/ \E b \in Actor \ {a} : Ingesting(b) /\ home[b] # home[a])
  /\ UNCHANGED <<world, store, writing, registering>>

Unlabelled == store.identity = None
Identified(model) == [store EXCEPT !.identity = model]

(* The model the store was filled with: recorded when unknown, an error or *)
(* a wipe when it is another.                                              *)
CheckModel(a) ==
  /\ job[a].at = "checking"
  /\ LET j == job[a]
     IN  \/ ~Exists /\ Moves(a, "classifying") /\ UNCHANGED store
         \/ Exists /\ ~Opens /\ Stops(a) /\ UNCHANGED store
         \/ Opens /\ Unlabelled /\ Moves(a, "classifying")
            /\ store' = Identified(j.model)
         \/ Opens /\ ~Unlabelled /\ store.identity = j.model /\ Moves(a, "classifying")
            /\ UNCHANGED store
         \/ Opens /\ ~Unlabelled /\ store.identity # j.model /\ UNCHANGED store
            /\ IF j.force
               THEN Becomes(a, [j EXCEPT !.at = "wiping", !.saved = store.managed])
               ELSE Stops(a)
  /\ UNCHANGED <<world, history>>

(* Another job has begun on s and not ended.                               *)
Busy(a, s) == \E b \in Actor \ {a} :
  job[b].current = s /\ job[b].at \in {"dropped", "added", "emptied"}

(* The directory is removed by rmtree; a manifest that was read is to be   *)
(* written back, but a store without dimensions is created and does not    *)
(* open.                                                                   *)
Wipe(a) ==
  /\ job[a].at = "wiping"
  /\ IF job[a].saved = {}
     THEN store' = None /\ Moves(a, "classifying")
     ELSE store' = Fresh(FALSE) /\ Stops(a)
  /\ contended' = contended \cup (IF Exists THEN store.managed ELSE {})
  /\ crossed' = crossed \cup {s \in Source : Busy(a, s)}
  /\ UNCHANGED <<world, raced, torn, kept, late, together>>

(* What is left of the directory: each of its tables, or nothing.          *)
Leftover(meta, hashes, chunks) ==
  LET none == Fresh(FALSE)
  IN  [dimensions |-> meta /\ store.dimensions,
       identity |-> IF meta THEN store.identity ELSE None,
       managed |-> IF meta THEN store.managed ELSE {},
       hash |-> IF hashes THEN store.hash ELSE none.hash,
       chunks |-> IF chunks THEN store.chunks ELSE none.chunks]

Remains == {None} \cup {Leftover(meta, hashes, chunks) : meta, hashes, chunks \in BOOLEAN}

(* The removal is cut short by an error, or by a death that takes all the  *)
(* jobs of the process.                                                    *)
WipeCut(a) ==
  /\ job[a].at = "wiping" /\ Exists
  /\ edits + faults < MaxUpset /\ faults' = faults + 1
  /\ store' \in Remains
  /\ \E stopped \in {{a}, {b \in Actor : home[b] = home[a]}} :
       job' = [b \in Actor |-> IF b \in stopped THEN Idle ELSE job[b]]
  /\ torn' = Source
  /\ contended' = contended \cup store.managed
  /\ crossed' = crossed \cup {s \in Source : Busy(a, s)}
  /\ UNCHANGED <<disk, home, edits, jobs, raced, kept, late, together>>

(* Files are hashed and compared with the store before any is read; an     *)
(* unchanged one is skipped, one that is gone is an error.                 *)
Unchanged(a, s, known) == ~job[a].force /\ disk[s] = known

(* Mutant: with nothing to read there is nothing to purge. *)
PurgesNever(a, files, todo) == FALSE

PurgesUnread(a, files, todo) == job[a].kind = "run" /\ todo = {} /\ files # {}

Classify(a) ==
  /\ job[a].at = "classifying"
  /\ LET j == job[a]
         files == j.sources \cap File
         skipped == {s \in files : Present(s) /\ Unchanged(a, s, Known(s))}
         todo == {s \in files \ skipped : Present(s) \/ j.force}
     IN  IF Exists /\ ~Opens THEN Stops(a)
         ELSE Becomes(a, [j EXCEPT
                !.at = IF todo = {} THEN "storing" ELSE "extracting",
                !.todo = todo, !.done = skipped, !.barren = todo # {},
                !.purge = PurgesUnread(a, files, todo),
                !.hash = [s \in Source |-> IF s \in Url THEN Known(s) ELSE None]])
  /\ UNCHANGED <<world, store, history>>

Extract(a) ==
  /\ job[a].at = "extracting"
  /\ LET j == job[a]
         todo == {s \in j.todo : disk[s] \in Text}
     IN  Becomes(a, [j EXCEPT
           !.at = IF todo = {} THEN "storing" ELSE "hashing",
           !.todo = todo,
           !.text = [s \in Source |-> IF s \in todo THEN disk[s] ELSE None]])
  /\ UNCHANGED <<world, store, history>>

(* The hash that is stored is taken again, after the text was.             *)
Hash(a) ==
  /\ job[a].at = "hashing"
  /\ LET j == job[a]
         todo == {s \in j.todo : Present(s)}
     IN  Becomes(a, [j EXCEPT
           !.at = "storing", !.todo = todo, !.barren = todo = {},
           !.purge = j.kind = "run" /\ todo # {},
           !.hash = [s \in Source |-> IF s \in todo THEN disk[s] ELSE j.hash[s]]])
  /\ UNCHANGED <<world, store, history>>

Writes(a, s) == crossed' = IF Busy(a, s) THEN crossed \cup {s} ELSE crossed

(* The commits of the store's tables. *)
Cleared(s) == [store EXCEPT !.chunks[s] = {}]
Added(s, chunk) == [store EXCEPT !.chunks[s] = @ \cup {chunk}]
Hashed(s, hash) == [store EXCEPT !.hash[s] = hash]
Listed(managed) == [store EXCEPT !.managed = managed]

(* Mutant: the chunks of the last version stay. *)
Appended(s) == IF Exists THEN [store EXCEPT !.dimensions = TRUE] ELSE Fresh(TRUE)

Replaced(s) == IF Exists THEN [Cleared(s) EXCEPT !.dimensions = TRUE] ELSE Fresh(TRUE)

(* replace_source, which has opened the store before, creates it, or gives *)
(* one without dimensions those of the model: the chunks are removed, then *)
(* added, then the hash is written.                                        *)
Drop(a) ==
  /\ job[a].at = "storing"
  /\ job[a].open => Opens
  /\ \E s \in job[a].todo :
       /\ Becomes(a, [job[a] EXCEPT !.at = "dropped", !.current = s, !.open = TRUE])
       /\ store' = Replaced(s)
       /\ torn' = torn \ {s} /\ raced' = raced \ {s}
       /\ crossed' = IF Busy(a, s) THEN crossed \cup {s} ELSE crossed \ {s}
  /\ UNCHANGED <<world, registering, together>>

Add(a) ==
  /\ job[a].at = "dropped" /\ Opens
  /\ LET s == job[a].current
     IN  /\ store' = Added(s, [text |-> job[a].text[s], model |-> job[a].model])
         /\ Writes(a, s)
  /\ Moves(a, "added")
  /\ UNCHANGED <<world, raced, torn, registering, together>>

Label(a) ==
  /\ job[a].at = "added" /\ Opens
  /\ LET s == job[a].current
     IN  /\ store' = Hashed(s, job[a].hash[s])
         /\ Becomes(a, [job[a] EXCEPT !.at = "storing", !.current = None,
                                      !.todo = @ \ {s}, !.done = @ \cup {s}])
         /\ raced' = IF s \in job[a].changed THEN raced \cup {s} ELSE raced
         /\ Writes(a, s)
  /\ UNCHANGED <<world, torn, registering, together>>

(* The file sources that were not resolved.                                *)
Unresolved(a) == {s \in File : Known(s) # None} \ job[a].sources

(* All is stored: the purge of a run, the pages after the files, the end.  *)
Proceed(a) ==
  /\ job[a].at = "storing" /\ job[a].todo = {}
  /\ LET j == job[a]
     IN  IF j.purge
         THEN IF Exists /\ ~Opens THEN Stops(a)
              ELSE Becomes(a, [j EXCEPT !.at = "purging", !.todo = Unresolved(a)])
         ELSE Moves(a, IF j.fetched THEN "recording" ELSE "fetching")
  /\ UNCHANGED <<world, store, history>>

(* A run without files purges after the pages.                             *)
Fetch(a) ==
  /\ job[a].at = "fetching"
  /\ LET j == job[a]
         urls == {s \in j.sources \cap Url : disk[s] \in Text}
         skipped == {s \in urls : Unchanged(a, s, j.hash[s])}
         page == [s \in Source |-> IF s \in urls THEN disk[s] ELSE None]
     IN  Becomes(a, [j EXCEPT
           !.at = "storing", !.fetched = TRUE,
           !.todo = urls \ skipped, !.done = @ \cup skipped,
           !.text = page, !.hash = page,
           !.purge = j.kind = "run" /\ j.sources \cap File = {}])
  /\ UNCHANGED <<world, store, history>>

(* The dashboard deletes a source it lists.                                *)
StartDelete(a) ==
  /\ Begins(a) /\ Opens
  /\ \E s \in {s \in Source : Known(s) # None} :
       Becomes(a, [Idle EXCEPT !.at = "purging", !.kind = "delete",
                               !.sources = {s}, !.todo = {s}])
  /\ UNCHANGED <<disk, home, edits, faults, store, history>>

Empty(a) ==
  /\ job[a].at = "purging" /\ Opens
  /\ \E s \in job[a].todo :
       /\ Becomes(a, [job[a] EXCEPT !.at = "emptied", !.current = s])
       /\ store' = Cleared(s)
       /\ Writes(a, s)
  /\ UNCHANGED <<world, raced, torn, registering, together>>

Forget(a) ==
  /\ job[a].at = "emptied" /\ Opens
  /\ LET s == job[a].current
     IN  /\ store' = Hashed(s, None)
         /\ Becomes(a, [job[a] EXCEPT !.at = "purging", !.current = None, !.todo = @ \ {s}])
         /\ Writes(a, s)
  /\ UNCHANGED <<world, raced, torn, registering, together>>

PurgeDone(a) ==
  /\ job[a].at = "purging" /\ job[a].todo = {}
  /\ LET j == job[a]
     IN  Becomes(a, [j EXCEPT
           !.purge = FALSE,
           !.at = IF j.kind = "delete" THEN "manifest"
                     ELSE IF j.fetched THEN "recording" ELSE "fetching"])
  /\ UNCHANGED <<world, store, history>>

(* A result names its source by a Path, and the Path of a page is not its  *)
(* URL (https:/...): the comparison finds no page, and none is registered. *)
Registrable(a) == job[a].done \cap File

(* The model is recorded when something was stored, and the lock released. *)
RecordModel(a) ==
  /\ job[a].at = "recording"
  /\ store' = IF Opens /\ (job[a].open \/ job[a].force)
              THEN Identified(job[a].model) ELSE store
  /\ IF job[a].kind = "managed" /\ Registrable(a) # {} THEN Moves(a, "manifest") ELSE Stops(a)
  /\ UNCHANGED <<world, history>>

Merged(a) == job[a].saved \cup Registrable(a)

(* The manifest is read, changed and written back by two commits, without  *)
(* a lock: a managed job adds its files, a delete removes its own source.  *)
ReadManifest(a) ==
  /\ job[a].at = "manifest" /\ Opens
  /\ Becomes(a, [job[a] EXCEPT !.at = "rewriting", !.saved = store.managed])
  /\ UNCHANGED <<world, store, history>>

WriteManifest(a) ==
  /\ job[a].at = "rewriting" /\ Opens
  /\ LET j == job[a]
         adds == j.kind = "managed"
         managed == IF adds THEN Merged(a) ELSE j.saved \ j.sources
         writes == adds \/ managed # j.saved
     IN  /\ store' = IF writes THEN Listed(managed) ELSE store
         /\ kept' = IF adds THEN kept \cup Registrable(a) ELSE kept \ j.sources
         /\ late' = IF adds /\ Unseen(Registrable(a)) THEN late \cup Registrable(a) ELSE late
         /\ contended' = contended \cup
              (IF writes THEN (store.managed \ j.saved) \cup (j.saved \ store.managed)
               ELSE store.managed \cap j.sources)
         /\ IF adds THEN Stops(a) ELSE Moves(a, "unlinking")
  /\ UNCHANGED <<world, writing, together>>

(* An upload goes with its source.                                         *)
Unlink(a) ==
  /\ job[a].at = "unlinking"
  /\ disk' = [s \in Source |->
       IF s \in (job[a].sources \cap File) \ Configured THEN None ELSE disk[s]]
  /\ Stops(a)
  /\ UNCHANGED <<store, home, edits, jobs, faults, history>>

(* Another process has removed the tables a job works on.                  *)
Gone(a) ==
  /\ ~Opens
  /\ \/ job[a].at \in {"dropped", "added", "emptied", "manifest", "rewriting"}
     \/ job[a].at = "purging" /\ job[a].todo # {}
     \/ job[a].at = "storing" /\ job[a].open /\ job[a].todo # {}
  /\ Stops(a)
  /\ UNCHANGED <<world, store, history>>

Half(stopped) == {job[a].current : a \in {b \in stopped : job[b].at \in {"dropped", "added", "emptied"}}}

StopAll(stopped) ==
  /\ edits + faults < MaxUpset /\ faults' = faults + 1
  /\ job' = [a \in Actor |-> IF a \in stopped THEN Idle ELSE job[a]]
  /\ torn' = torn \cup Half(stopped)
  /\ UNCHANGED <<disk, store, home, edits, jobs, raced, crossed, registering, together>>

(* The embedding service or the store raises, or the process dies.         *)
Fails(a) == job[a].at # "idle" /\ StopAll({a})
Dies(p) == (\E a \in Actor : home[a] = p /\ job[a].at # "idle") /\ StopAll({a \in Actor : home[a] = p})

Ingest(a) ==
  \/ StartRun(a) \/ StartManaged(a) \/ Acquire(a) \/ CheckModel(a) \/ Wipe(a) \/ WipeCut(a)
  \/ Classify(a) \/ Extract(a) \/ Hash(a) \/ Drop(a) \/ Add(a) \/ Label(a)
  \/ Proceed(a) \/ Fetch(a) \/ RecordModel(a)

Delete(a) == StartDelete(a) \/ Empty(a) \/ Forget(a) \/ PurgeDone(a) \/ Unlink(a)
Register(a) == ReadManifest(a) \/ WriteManifest(a)

IngestionNext ==
  \/ \E s \in Source : Edit(s)
  \/ \E a \in Actor : Ingest(a) \/ Delete(a) \/ Register(a) \/ Gone(a) \/ Fails(a)
  \/ \E p \in Process : Dies(p)

IngestionSpec == IngestionInit /\ [][IngestionNext]_ingestionVars

----------------------------------------------------------------------------
(* The hash of a source tells what its chunks are: the next ingest skips   *)
(* it by that hash (_check_cached_hash), so a lie is never corrected.  It  *)
(* lies only where the file changed between its reading and its hashing,   *)
(* a job ended within replace_source, the removal of the store was cut     *)
(* short (and the source not stored since), or two processes were in it at *)
(* once.                                                                   *)
HashTellsContent ==
  Exists => \A s \in Source \ (raced \cup torn \cup crossed) :
    store.hash[s] # None /\ (\A a \in Actor : job[a].current # s) =>
      {c.text : c \in store.chunks[s]} = {store.hash[s]}

(* Embeddings of two models are never mixed while each ingest runs to its  *)
(* end and alone; the store says which model (EmbeddingModelChangedError). *)
OneModel ==
  Exists /\ faults = 0 /\ ~together =>
    \A s \in Source, c \in UNION {store.chunks[t] : t \in Source} :
      store.identity # None => c.model = store.identity

(* A run never purges a source of the manifest, but one registered, or     *)
(* uploaded again, after the run had resolved its sources, outside the     *)
(* lock, and one whose file is gone.                                       *)
ManagedIsSpared ==
  Opens => \A a \in Actor :
    job[a].kind = "run" /\ job[a].at \in {"purging", "emptied"} =>
      job[a].todo \cap store.managed \subseteq late \cup contended \cup {s \in Source : ~Present(s)}

(* The manifest is the files registered and not deleted, but where one job *)
(* wrote back a copy another had changed, or the store was wiped.          *)
ManifestIsKept == Opens => \A s \in Source \ contended : s \in store.managed <=> s \in kept

(* docs/interfaces/dashboard.md:129 has a page of the dashboard registered *)
(* as a managed source: none ever is.                                      *)
PagesAreNot == Exists => store.managed \subseteq File

(* An uploaded file is registered until it is deleted, and its chunks stay *)
(* as long; a page is not registered, and no run refreshes it.             *)
ManagedKept == ManagedIsSpared /\ ManifestIsKept /\ PagesAreNot

(* A run that ends has purged the files it did not resolve, unless every   *)
(* file it had to read gave nothing: then it leaves them.                  *)
RunPurges ==
  ~together => \A a \in Actor :
    job[a].kind = "run" /\ job[a].at = "recording" /\ ~job[a].barren =>
      Unresolved(a) = {}

(* docs/core/ingestion.md:469: the manifest survives a forced wipe.        *)
ManifestSurvivesWipe ==
  Exists /\ (\A a \in Actor : job[a] = Idle) => kept \subseteq store.managed
=============================================================================
