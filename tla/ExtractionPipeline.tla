------------------------- MODULE ExtractionPipeline -------------------------
(***************************************************************************)
(* Raw extraction (packages/marx_engels/ingestion/pipeline.py): the chunks *)
(* of a run are uploaded to a paid provider, polled, downloaded and        *)
(* unpacked by at most two worker threads, and the operator extracts and   *)
(* resumes until everything is stored.                                     *)
(*                                                                         *)
(* All that survives a crash is the state file, replaced as a whole under  *)
(* the pipeline's lock at each update (runs, active, fingerprints), and    *)
(* the archives and unpacked results.  While the process lives, the run in *)
(* its memory is the one it last saved.  It may die between any two steps, *)
(* in particular between a call of the provider and the save of what the   *)
(* call returned.  One process works on the state file at a time.          *)
(***************************************************************************)
EXTENDS Naturals, FiniteSets

CONSTANTS
  Chunks,       (* chunks of PDF pages; one name, one fingerprint          *)
  ChunksOf,     (* the chunks an ALL and a PILOT run consists of           *)
  RunIds,       (* names for runs; bounds how many are created             *)
  Concurrency,  (* size of the worker pool                                 *)
  MaxUploads,   (* bound of the model on the uploads of one chunk          *)
  None

RunModes == {"all", "pilot"}
ChunkStatuses ==
  {"materialized", "uploading", "polling", "downloading", "completed", "failed", "skipped"}
RunStatuses == {"created", "running", "paused", "completed", "failed", "cancelled"}
Done == {"completed", "skipped"}

ASSUME ChunksAssumption == ChunksOf \in [RunModes -> (SUBSET Chunks) \ {{}}]
ASSUME RunIdsAssumption == None \notin RunIds
ASSUME PoolAssumption == Concurrency \in {1, 2}
ASSUME UploadsAssumption == MaxUploads \in Nat /\ None \notin 1 .. MaxUploads

VARIABLES
  runs,         (* state file: the runs, None where there is none yet      *)
  active,       (* state file: active_run_id                               *)
  fingerprints, (* state file: the run that stored each fingerprint        *)
  archives,     (* the <<run, chunk>> whose archive is on disk             *)
  results,      (* the <<run, chunk>> whose archive is unpacked            *)
  current,      (* the run extract() is working on, or None                *)
  worker,       (* what the pool does for each chunk, and how it ended     *)
  token,        (* the cancellation token is set                           *)
  verdict,      (* the exception extract() is about to raise, or None      *)
  uploads,      (* provider: number of the latest batch of each chunk      *)
  refused       (* history: the <<chunk, batch>> saved as FAILED           *)

disk == <<runs, active, fingerprints>>
files == <<archives, results>>
main == <<current, token, verdict>>
provider == <<uploads, refused>>
vars == <<runs, active, fingerprints, archives, results, current, worker, token, verdict,
          uploads, refused>>

-----------------------------------------------------------------------------
Working == {"fresh", "uploading", "submitted", "polling", "downloading", "unpacking",
            "remembering", "completing"}
Outcomes == {"ok", "provider", "cancelled", "auth", "quota", "timeout", "other"}
Fatal == Outcomes \ {"ok", "provider"}

Batches == 1 .. MaxUploads
ChunkRecord == [status : ChunkStatuses, batch : Batches \cup {None}]
Run == UNION {[mode : {m}, status : RunStatuses, chunk : [ChunksOf[m] -> ChunkRecord]] :
                m \in RunModes}

ASSUME RunsAssumption == None \notin Run

Members(run) == DOMAIN run.chunk
AllIn(run, statuses) == \A c \in Members(run) : run.chunk[c].status \in statuses
SomeFailed(run) == \E c \in Members(run) : run.chunk[c].status = "failed"

(* mark_chunk: one chunk changes, and with it perhaps the whole run.       *)
mark_chunk(run, c, status, batch) ==
  LET marked == [run EXCEPT !.chunk[c] = [status |-> status, batch |-> batch]]
  IN  [marked EXCEPT !.status =
         IF AllIn(marked, {"completed"}) THEN "completed"
         ELSE IF SomeFailed(marked) /\ AllIn(marked, Done \cup {"failed"}) THEN "failed"
         ELSE @]

(* upsert_run and the atomic replacement of the state file.                *)
save(r, run) ==
  /\ runs' = [runs EXCEPT ![r] = run]
  /\ active' = r
  /\ UNCHANGED fingerprints

BatchOf(c) == runs[current].chunk[c].batch
StatusOf(c) == runs[current].chunk[c].status

_update_chunk(c, status, batch) == save(current, mark_chunk(runs[current], c, status, batch))

(* Fault: only the run itself is searched for the fingerprint.             *)
storedByThisRun(c) == fingerprints[c] = current /\ <<current, c>> \in archives

_fingerprint_completed(c) ==
  fingerprints[c] # None /\ <<fingerprints[c], c>> \in archives

-----------------------------------------------------------------------------
(* extract: choose or create the run, save it as RUNNING and hand its      *)
(* unfinished chunks to the pool.                                          *)
begin(r, run) ==
  /\ current = None
  /\ save(r, [run EXCEPT !.status = "running"])
  /\ current' = r
  /\ worker' = [c \in Chunks |-> IF c \in Members(run) /\ run.chunk[c].status \notin Done
                                 THEN "queued" ELSE "none"]
  /\ UNCHANGED <<files, token, verdict, provider>>

NewRun(mode) ==
  [mode |-> mode, status |-> "created",
   chunk |-> [c \in ChunksOf[mode] |-> [status |-> "materialized", batch |-> None]]]

(* _prepare_run: an unfinished active ALL run is taken up again.  That its *)
(* chunks are within SPLIT_MAX_PAGES, which the code asks as well, holds   *)
(* here because ChunksOf is fixed; SourceSplit has the sizes.              *)
Reusable ==
  /\ active # None
  /\ runs[active].mode = "all"
  /\ runs[active].status \in {"running", "paused", "created", "failed"}

extract(mode) ==
  \/ mode = "all" /\ Reusable /\ begin(active, runs[active])
  \/ /\ ~(mode = "all" /\ Reusable)
     /\ \E r \in RunIds : runs[r] = None /\ begin(r, NewRun(mode))

resume(r) == runs[r] # None /\ begin(r, runs[r])

-----------------------------------------------------------------------------
(* A worker thread raises: a provider error is first saved as FAILED, the  *)
(* errors that stop the run and those nobody expects are not saved.        *)
Raises(c, outcomes) ==
  /\ \E o \in outcomes :
       /\ o = "cancelled" => token
       /\ worker' = [worker EXCEPT ![c] = o]
       /\ IF o = "provider"
          THEN /\ _update_chunk(c, "failed", BatchOf(c))
               /\ refused' = refused \cup (IF worker[c] = "polling" THEN {<<c, BatchOf(c)>>} ELSE {})
          ELSE UNCHANGED <<disk, refused>>
  /\ UNCHANGED <<files, main, uploads>>

GoesTo(c, step) == worker' = [worker EXCEPT ![c] = step]

(* What a thread does first.  The status it looks at is the one the run    *)
(* had when the pool was filled, which nobody else changes.                *)
IsDuplicate(c) == _fingerprint_completed(c) /\ StatusOf(c) # "polling"

Skip(c) ==
  /\ IsDuplicate(c)
  /\ _update_chunk(c, "skipped", BatchOf(c))
  /\ GoesTo(c, "ok")

(* Fault: the batch of a failed chunk is waited for again.                 *)
RetryOldBatch(c) ==
  /\ ~IsDuplicate(c) /\ StatusOf(c) = "failed"
  /\ _update_chunk(c, "polling", BatchOf(c))
  /\ GoesTo(c, "polling")

Retry(c) ==
  /\ ~IsDuplicate(c) /\ StatusOf(c) = "failed"
  /\ _update_chunk(c, "materialized", None)
  /\ GoesTo(c, "fresh")

StartAnew(c) ==
  /\ ~IsDuplicate(c) /\ StatusOf(c) # "failed" /\ BatchOf(c) = None
  /\ UNCHANGED disk
  /\ GoesTo(c, "fresh")

Continue(c) ==
  /\ ~IsDuplicate(c) /\ StatusOf(c) # "failed" /\ BatchOf(c) # None
  /\ _update_chunk(c, "polling", BatchOf(c))
  /\ GoesTo(c, "polling")

(* A thread of the pool takes a chunk up, unless the token is set or the   *)
(* deadline of the whole run has passed.                                   *)
Start(c) ==
  /\ worker[c] = "queued"
  /\ Cardinality({d \in Chunks : worker[d] \in Working}) < Concurrency
  /\ \/ Raises(c, IF token THEN {"cancelled"} ELSE {"timeout"})
     \/ /\ ~token
        /\ Skip(c) \/ Retry(c) \/ StartAnew(c) \/ Continue(c)
        /\ UNCHANGED <<files, main, provider>>

Announce(c) ==
  /\ worker[c] = "fresh"
  /\ _update_chunk(c, "uploading", None)
  /\ GoesTo(c, "uploading")
  /\ UNCHANGED <<files, main, provider>>

(* submit_file: the provider has a new batch, of which only the thread     *)
(* knows.                                                                  *)
Upload(c) ==
  /\ worker[c] = "uploading"
  /\ uploads[c] < MaxUploads
  /\ uploads' = [uploads EXCEPT ![c] = @ + 1]
  /\ GoesTo(c, "submitted")
  /\ UNCHANGED <<disk, files, main, refused>>

UploadFails(c) ==
  worker[c] = "uploading" /\ Raises(c, {"cancelled", "auth", "quota", "provider", "other"})

SaveBatch(c) ==
  /\ worker[c] = "submitted"
  /\ _update_chunk(c, "polling", uploads[c])
  /\ GoesTo(c, "polling")
  /\ UNCHANGED <<files, main, provider>>

Poll(c) ==
  /\ worker[c] = "polling"
  /\ \/ /\ _update_chunk(c, "downloading", BatchOf(c))
        /\ GoesTo(c, "downloading")
        /\ UNCHANGED <<files, main, provider>>
     \/ Raises(c, {"cancelled", "auth", "quota", "timeout", "provider"})

Download(c) ==
  /\ worker[c] = "downloading"
  /\ \/ /\ archives' = archives \cup {<<current, c>>}
        /\ GoesTo(c, "unpacking")
        /\ UNCHANGED <<disk, results, main, provider>>
     \/ Raises(c, {"cancelled", "provider", "other"})

(* Fault: an archive that does not unpack is stored all the same.          *)
UnpackAnything(c) ==
  /\ worker[c] = "unpacking"
  /\ results' \in {results, results \cup {<<current, c>>}}
  /\ GoesTo(c, "remembering")
  /\ UNCHANGED <<disk, archives, main, provider>>

Unpack(c) ==
  /\ worker[c] = "unpacking"
  /\ \/ /\ results' = results \cup {<<current, c>>}
        /\ GoesTo(c, "remembering")
        /\ UNCHANGED <<disk, archives, main, provider>>
     \/ Raises(c, {"other"})

_remember_fingerprint(c) ==
  /\ worker[c] = "remembering"
  /\ fingerprints' = [fingerprints EXCEPT ![c] = current]
  /\ GoesTo(c, "completing")
  /\ UNCHANGED <<runs, active, files, main, provider>>

Complete(c) ==
  /\ worker[c] = "completing"
  /\ _update_chunk(c, "completed", BatchOf(c))
  /\ GoesTo(c, "ok")
  /\ UNCHANGED <<files, main, provider>>

_process_chunk(c) ==
  \/ Start(c) \/ Announce(c) \/ Upload(c) \/ UploadFails(c) \/ SaveBatch(c)
  \/ Poll(c) \/ Download(c) \/ Unpack(c) \/ _remember_fingerprint(c) \/ Complete(c)

-----------------------------------------------------------------------------
(* Fault: a chunk's provider error stops the run.                          *)
CollectEveryError(c) ==
  /\ current # None /\ verdict = None
  /\ worker[c] \in Outcomes
  /\ worker' = [worker EXCEPT ![c] = "none"]
  /\ verdict' = IF worker[c] # "ok" THEN worker[c] ELSE None
  /\ token' = (token \/ worker[c] # "ok")
  /\ UNCHANGED <<disk, files, current, provider>>

(* _run_chunks: the main thread looks at the futures in the order in which *)
(* they end.  The first fatal one ends the loop; all but an unexpected     *)
(* error also set the token.                                               *)
Collect(c) ==
  /\ current # None /\ verdict = None
  /\ worker[c] \in Outcomes
  /\ worker' = [worker EXCEPT ![c] = "none"]
  /\ verdict' = IF worker[c] \in Fatal THEN worker[c] ELSE None
  /\ token' = (token \/ worker[c] \in Fatal \ {"other"})
  /\ UNCHANGED <<disk, files, current, provider>>

(* Leaving the loop early still waits for every chunk in the pool.         *)
Drained == \A c \in Chunks : worker[c] \notin Working \cup {"queued"}

FinalStatus(run) ==
  IF verdict = "cancelled" THEN "cancelled"
  ELSE IF verdict \in {"quota", "timeout"} THEN "paused"
  ELSE IF verdict = "auth" THEN "failed"
  ELSE IF run.status \in {"completed", "failed", "cancelled"} THEN run.status
  ELSE IF AllIn(run, Done) THEN "completed"
  ELSE IF SomeFailed(run) THEN "failed"
  ELSE "paused"

(* The process and its memory are no more.                                 *)
Gone ==
  /\ current' = None
  /\ worker' = [c \in Chunks |-> "none"]
  /\ token' = FALSE
  /\ verdict' = None

(* Fault: the end waits for futures the loop no longer looks at.           *)
FinishCollected ==
  /\ current # None
  /\ \A c \in Chunks : worker[c] = "none"
  /\ IF verdict = "other" THEN UNCHANGED disk
     ELSE save(current, [runs[current] EXCEPT !.status = FinalStatus(runs[current])])
  /\ Gone
  /\ UNCHANGED <<files, provider>>

(* extract returns or raises; an unexpected error saves nothing.           *)
Finish ==
  /\ current # None
  /\ Drained
  /\ verdict = None => \A c \in Chunks : worker[c] = "none"
  /\ IF verdict = "other" THEN UNCHANGED disk
     ELSE save(current, [runs[current] EXCEPT !.status = FinalStatus(runs[current])])
  /\ Gone
  /\ UNCHANGED <<files, provider>>

-----------------------------------------------------------------------------
(* The caller of extract() sets the token it handed over.                  *)
cancel ==
  /\ current # None /\ ~token
  /\ token' = TRUE
  /\ UNCHANGED <<disk, files, current, worker, verdict, provider>>

(* Ctrl-C: an exception in the main thread, of which no worker hears.      *)
Interrupt ==
  /\ current # None /\ verdict = None
  /\ verdict' = "other"
  /\ UNCHANGED <<disk, files, current, worker, token, provider>>

(* The process dies; whatever it did not save is lost.                     *)
Crash ==
  /\ current # None
  /\ Gone
  /\ UNCHANGED <<disk, files, provider>>

-----------------------------------------------------------------------------
Init ==
  /\ runs = [r \in RunIds |-> None]
  /\ active = None
  /\ fingerprints = [c \in Chunks |-> None]
  /\ archives = {} /\ results = {}
  /\ current = None
  /\ worker = [c \in Chunks |-> "none"]
  /\ token = FALSE
  /\ verdict = None
  /\ uploads = [c \in Chunks |-> 0]
  /\ refused = {}

OperatorStep ==
  \/ \E mode \in RunModes : extract(mode)
  \/ \E r \in RunIds : resume(r)
  \/ cancel \/ Interrupt \/ Crash

ProcessStep == (\E c \in Chunks : _process_chunk(c) \/ Collect(c)) \/ Finish

Next == OperatorStep \/ ProcessStep

(* The operating system schedules the threads and every call of the        *)
(* provider returns: requests have timeouts, retries are counted and       *)
(* polling has a deadline.  The operator owes nothing.                     *)
Fairness == WF_vars(ProcessStep)

Spec == Init /\ [][Next]_vars /\ Fairness

-----------------------------------------------------------------------------
(***************************************************************************)
(* Correctness.                                                            *)
(***************************************************************************)

(* The state file, the files and the process have the right shapes; what   *)
(* is not running has no threads, and the run at work is the active one.   *)
TypeOK ==
  /\ runs \in [RunIds -> Run \cup {None}]
  /\ active \in RunIds \cup {None}
  /\ fingerprints \in [Chunks -> RunIds \cup {None}]
  /\ archives \subseteq RunIds \X Chunks
  /\ results \subseteq RunIds \X Chunks
  /\ current \in RunIds \cup {None}
  /\ worker \in [Chunks -> {"none", "queued"} \cup Working \cup Outcomes]
  /\ token \in BOOLEAN
  /\ verdict \in Fatal \cup {None}
  /\ uploads \in [Chunks -> 0 .. MaxUploads]
  /\ refused \subseteq Chunks \X Batches

Runs == {r \in RunIds : runs[r] # None}
Has(r, c, status) == c \in Members(runs[r]) /\ runs[r].chunk[c].status = status

(* What is called done is stored, whatever died on the way: the results of *)
(* a completed chunk are unpacked in its run and its fingerprint is        *)
(* remembered; the results a skipped chunk relies on are unpacked in the   *)
(* run its fingerprint names.                                              *)
CompletedIsStored ==
  /\ \A r \in Runs, c \in Chunks :
       /\ Has(r, c, "completed") => <<r, c>> \in results /\ fingerprints[c] # None
       /\ Has(r, c, "skipped") => fingerprints[c] # None
  /\ \A c \in Chunks : fingerprints[c] # None => <<fingerprints[c], c>> \in results

(* Doc cli.py:97: a chunk that is stored is never uploaded, hence paid,    *)
(* again, in whichever run and after however many crashes.                 *)
StoredIsNotUploaded ==
  [][\A c \in Chunks : uploads'[c] # uploads[c] => fingerprints[c] = None]_vars

(* Test test_pipeline_resume.py:65: once a batch was saved as failed no    *)
(* later run or retry of its chunk waits for that batch again.             *)
RefusedIsNotPolled ==
  \A c \in Chunks : worker[c] = "polling" => <<c, BatchOf(c)>> \notin refused

(* A run is called complete when all its chunks are, at any moment.        *)
CompletedRunIsDone ==
  \A r \in Runs : runs[r].status = "completed" => AllIn(runs[r], Done)

(* No step, and no save of a run taken from memory, undoes a finished      *)
(* chunk or forgets a fingerprint.                                         *)
DoneStaysDone ==
  [][/\ \A r \in Runs : \A c \in Members(runs[r]) :
          runs[r].chunk[c].status \in Done => runs'[r].chunk[c] = runs[r].chunk[c]
     /\ \A c \in Chunks : fingerprints[c] # None => fingerprints'[c] # None]_vars

(* Every extract() comes to an end, also when a chunk fails, the token is  *)
(* set or the main thread is interrupted while others still work.          *)
ExtractEnds == current # None ~> current = None

(* page_merge.select_all_extraction_run takes a run apart again.           *)
Selectable(r) ==
  runs[r].mode = "all" /\ runs[r].status = "completed" /\ AllIn(runs[r], {"completed"})

(* Doc cli.py:109: merge-pages rebuilds the pages from a completed ALL     *)
(* run; when there is one it does not answer that there is none.           *)
CompletedRunIsMergeable ==
  (\E r \in Runs : runs[r].mode = "all" /\ runs[r].status = "completed")
    => \E r \in Runs : Selectable(r)
=============================================================================
