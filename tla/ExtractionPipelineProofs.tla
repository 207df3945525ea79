---------------------- MODULE ExtractionPipelineProofs ----------------------
(***************************************************************************)
(* What holds of the extraction pipeline for every division into chunks,   *)
(* every number of runs and uploads, and a crash after any step.           *)
(*                                                                         *)
(* The properties speak of the state file; the inductive invariant adds    *)
(* what each thread knows between two saves: that its chunk is a chunk of  *)
(* the run at work and not finished there, that it has a batch to poll,    *)
(* that what it has downloaded and unpacked is on disk, and that nobody    *)
(* has stored the fingerprint it is about to pay for.  For the batches it  *)
(* adds how the provider's numbers and the runs hang together: no run has  *)
(* a batch the provider has not given out, no two runs share one, and the  *)
(* batch a thread has not yet saved is in no run.                          *)
(***************************************************************************)
EXTENDS ExtractionPipeline, TLAPS

Placed ==
  /\ current # None => runs[current] # None
  /\ active # None => runs[active] # None
  /\ \A c \in Chunks : worker[c] # "none" =>
       current # None /\ c \in Members(runs[current])

Unfinished ==
  \A c \in Chunks : worker[c] \in Working \cup {"queued"} => StatusOf(c) \notin Done

Batched ==
  /\ \A c \in Chunks : worker[c] = "submitted" => uploads[c] # 0
  /\ \A c \in Chunks : worker[c] = "polling" => BatchOf(c) # None

PolledHasBatch ==
  \A r \in Runs : \A c \in Members(runs[r]) :
    runs[r].chunk[c].status = "polling" => runs[r].chunk[c].batch # None

OnDisk ==
  /\ \A c \in Chunks :
       /\ worker[c] \in {"unpacking", "remembering", "completing"} => <<current, c>> \in archives
       /\ worker[c] \in {"remembering", "completing"} => <<current, c>> \in results
       /\ worker[c] = "completing" => fingerprints[c] # None
  /\ \A c \in Chunks : fingerprints[c] # None => <<fingerprints[c], c>> \in archives

Owed == \A c \in Chunks : worker[c] \in {"fresh", "uploading"} => fingerprints[c] = None

BatchesKnown ==
  /\ \A r \in Runs : \A c \in Members(runs[r]) :
       runs[r].chunk[c].batch # None => runs[r].chunk[c].batch <= uploads[c]
  /\ \A c \in Chunks, b \in Batches : <<c, b>> \in refused => b <= uploads[c]

BatchesApart ==
  \A r, s \in Runs : \A c \in Members(runs[r]) \cap Members(runs[s]) :
    r # s /\ runs[r].chunk[c].batch # None
      => runs[r].chunk[c].batch # runs[s].chunk[c].batch

SubmittedIsNew ==
  \A c \in Chunks : worker[c] = "submitted" =>
    /\ <<c, uploads[c]>> \notin refused
    /\ \A r \in Runs : c \in Members(runs[r]) => runs[r].chunk[c].batch # uploads[c]

RefusedIsOver ==
  \A r \in Runs : \A c \in Members(runs[r]) :
    <<c, runs[r].chunk[c].batch>> \in refused
      => runs[r].chunk[c].status \in {"failed", "skipped"}

Fetching == {"downloading", "unpacking", "remembering", "completing"}

WorkIsSaved ==
  \A c \in Chunks :
    /\ worker[c] = "polling" => StatusOf(c) = "polling"
    /\ worker[c] \in Fetching => StatusOf(c) = "downloading"

Refusals == BatchesKnown /\ BatchesApart /\ SubmittedIsNew /\ RefusedIsOver /\ WorkIsSaved

IInv ==
  /\ TypeOK /\ Placed /\ Unfinished /\ Batched /\ PolledHasBatch /\ OnDisk /\ Owed
  /\ CompletedIsStored /\ CompletedRunIsDone /\ Refusals

-----------------------------------------------------------------------------
(* The parts of a run.                                                     *)
LEMMA RunFacts ==
  ASSUME NEW run \in Run
  PROVE  /\ run.mode \in RunModes /\ run.status \in RunStatuses
         /\ run.chunk \in [ChunksOf[run.mode] -> ChunkRecord]
         /\ Members(run) = ChunksOf[run.mode] /\ Members(run) \subseteq Chunks
         /\ run = [mode |-> run.mode, status |-> run.status, chunk |-> run.chunk]
         /\ run # None
<1>1. PICK m \in RunModes :
        run \in [mode : {m}, status : RunStatuses, chunk : [ChunksOf[m] -> ChunkRecord]]
  BY DEF Run
<1>2. ChunksOf[m] \subseteq Chunks
  BY ChunksAssumption
<1> QED
  BY <1>1, <1>2, RunsAssumption DEF Members

LEMMA IsRun ==
  ASSUME NEW m \in RunModes, NEW status \in RunStatuses,
         NEW chunk \in [ChunksOf[m] -> ChunkRecord]
  PROVE  [mode |-> m, status |-> status, chunk |-> chunk] \in Run
  BY DEF Run

(* A run whose status alone changes.                                       *)
LEMMA WithStatus ==
  ASSUME NEW run \in Run, NEW status \in RunStatuses
  PROVE  LET new == [run EXCEPT !.status = status]
         IN  new \in Run /\ new.status = status /\ new.chunk = run.chunk /\ new.mode = run.mode
<1> DEFINE new == [run EXCEPT !.status = status]
<1>1. run = [mode |-> run.mode, status |-> run.status, chunk |-> run.chunk]
  BY RunFacts
<1>2. new = [mode |-> run.mode, status |-> status, chunk |-> run.chunk]
  BY <1>1
<1>3. new \in Run
  BY <1>2, RunFacts, IsRun
<1> QED
  BY <1>2, <1>3

(* mark_chunk changes one chunk, and calls the run completed only when     *)
(* every chunk is.                                                         *)
LEMMA Marked ==
  ASSUME NEW run \in Run, NEW c \in Members(run), NEW status \in ChunkStatuses,
         NEW batch \in Batches \cup {None}
  PROVE  LET new == mark_chunk(run, c, status, batch)
         IN  /\ new \in Run /\ Members(new) = Members(run)
             /\ new.chunk[c] = [status |-> status, batch |-> batch]
             /\ \A d \in Members(run) : d # c => new.chunk[d] = run.chunk[d]
             /\ \/ new.status = run.status \/ new.status = "failed"
                \/ AllIn(new, {"completed"})
<1> DEFINE chunk == [run.chunk EXCEPT ![c] = [status |-> status, batch |-> batch]]
           marked == [run EXCEPT !.chunk[c] = [status |-> status, batch |-> batch]]
           new == mark_chunk(run, c, status, batch)
<1>1. /\ run = [mode |-> run.mode, status |-> run.status, chunk |-> run.chunk]
      /\ run.mode \in RunModes /\ run.status \in RunStatuses
      /\ run.chunk \in [ChunksOf[run.mode] -> ChunkRecord]
      /\ Members(run) = ChunksOf[run.mode]
  BY RunFacts
<1>2. chunk \in [ChunksOf[run.mode] -> ChunkRecord]
  BY <1>1 DEF ChunkRecord
<1>3. marked = [mode |-> run.mode, status |-> run.status, chunk |-> chunk]
  BY <1>1
<1>4. \/ new = [mode |-> run.mode, status |-> run.status, chunk |-> chunk]
      \/ new = [mode |-> run.mode, status |-> "failed", chunk |-> chunk]
      \/ /\ new = [mode |-> run.mode, status |-> "completed", chunk |-> chunk]
         /\ AllIn(marked, {"completed"})
  <2> DEFINE verdictOf == IF AllIn(marked, {"completed"}) THEN "completed"
                          ELSE IF SomeFailed(marked) /\ AllIn(marked, Done \cup {"failed"})
                          THEN "failed" ELSE marked.status
  <2>1. new = [marked EXCEPT !.status = verdictOf]
    BY DEF mark_chunk
  <2>2. \/ verdictOf = run.status \/ verdictOf = "failed"
        \/ verdictOf = "completed" /\ AllIn(marked, {"completed"})
    BY <1>3
  <2> HIDE DEF verdictOf
  <2>3. new = [mode |-> run.mode, status |-> verdictOf, chunk |-> chunk]
    BY <1>3, <2>1
  <2> QED
    BY <2>2, <2>3
<1>5. new \in Run /\ new.chunk = chunk
  BY <1>1, <1>2, <1>4, IsRun DEF RunStatuses
<1>6. Members(new) = Members(run)
  BY <1>1, <1>2, <1>5 DEF Members
<1>7. AllIn(marked, {"completed"}) => AllIn(new, {"completed"})
  BY <1>3, <1>5 DEF AllIn, Members
<1> QED
  BY <1>1, <1>2, <1>4, <1>5, <1>6, <1>7

-----------------------------------------------------------------------------
LEMMA InitIInv == Init => IInv
<1> SUFFICES ASSUME Init PROVE IInv
  OBVIOUS
<1>1. TypeOK
  <2>1. uploads \in [Chunks -> 0 .. MaxUploads]
    BY UploadsAssumption DEF Init
  <2>2. /\ runs \in [RunIds -> Run \cup {None}]
        /\ fingerprints \in [Chunks -> RunIds \cup {None}]
        /\ worker \in [Chunks -> {"none", "queued"} \cup Working \cup Outcomes]
    BY DEF Init
  <2> QED
    BY <2>1, <2>2 DEF Init, TypeOK
<1> QED
  BY <1>1, RunIdsAssumption
  DEF Init, IInv, Placed, Unfinished, Batched, PolledHasBatch, OnDisk, Owed,
      CompletedIsStored, CompletedRunIsDone, Runs, Has, Working, Refusals, BatchesKnown,
      BatchesApart, SubmittedIsNew, RefusedIsOver, WorkIsSaved, Fetching

(* A run that is saved is the active one, and the only one that changes.   *)
LEMMA Saved ==
  ASSUME TypeOK, NEW r \in RunIds, NEW run \in Run, save(r, run)
  PROVE  /\ runs' \in [RunIds -> Run \cup {None}] /\ active' = r
         /\ fingerprints' = fingerprints
         /\ runs'[r] = run /\ run # None
         /\ \A q \in RunIds : q # r => runs'[q] = runs[q]
         /\ Runs' = Runs \cup {r}
<1>1. runs' = [runs EXCEPT ![r] = run] /\ run # None
  BY RunsAssumption DEF save
<1> QED
  BY <1>1 DEF save, TypeOK, Runs

(* What a save of the chunk a thread works on leaves true of the disk.     *)
LEMMA UpdateKeeps ==
  ASSUME IInv, NEW c \in Chunks, worker[c] \in Working \cup {"queued"}, current' = current,
         NEW status \in ChunkStatuses, NEW batch \in Batches \cup {None},
         _update_chunk(c, status, batch),
         archives \subseteq archives', results \subseteq results',
         status = "polling" => batch # None,
         status = "completed" => <<current, c>> \in results /\ fingerprints[c] # None,
         status = "skipped" => fingerprints[c] # None
  PROVE  /\ runs' \in [RunIds -> Run \cup {None}] /\ active' = current
         /\ fingerprints' = fingerprints /\ runs'[current] # None
         /\ Members(runs'[current]) = Members(runs[current])
         /\ (StatusOf(c))' = status /\ (BatchOf(c))' = batch
         /\ \A d \in Members(runs[current]) : d # c =>
              (StatusOf(d))' = StatusOf(d) /\ (BatchOf(d))' = BatchOf(d)
         /\ \A q \in RunIds : q # current => runs'[q] = runs[q]
         /\ PolledHasBatch' /\ CompletedIsStored' /\ CompletedRunIsDone'
<1> DEFINE old == runs[current]
           new == mark_chunk(old, c, status, batch)
<1>1. current \in RunIds /\ old # None /\ c \in Members(old) /\ old \in Run
  BY DEF IInv, TypeOK, Placed, Working
<1>2. /\ new \in Run /\ Members(new) = Members(old)
      /\ new.chunk[c] = [status |-> status, batch |-> batch]
      /\ \A d \in Members(old) : d # c => new.chunk[d] = old.chunk[d]
      /\ new.status = old.status \/ new.status = "failed" \/ AllIn(new, {"completed"})
  BY <1>1, Marked
<1>3. save(current, new)
  BY DEF _update_chunk
<1> HIDE DEF new
<1>4. /\ runs' \in [RunIds -> Run \cup {None}] /\ active' = current
      /\ fingerprints' = fingerprints /\ runs'[current] = new /\ new # None
      /\ \A q \in RunIds : q # current => runs'[q] = runs[q]
      /\ Runs' = Runs \cup {current}
  BY <1>1, <1>2, <1>3, Saved DEF IInv
<1>5. /\ (StatusOf(c))' = status /\ (BatchOf(c))' = batch
      /\ \A d \in Members(old) : d # c =>
           (StatusOf(d))' = StatusOf(d) /\ (BatchOf(d))' = BatchOf(d)
  BY <1>2, <1>4 DEF StatusOf, BatchOf
<1>6. PolledHasBatch'
  BY <1>1, <1>2, <1>4 DEF PolledHasBatch, IInv, Runs
<1>7. CompletedIsStored'
  BY <1>1, <1>2, <1>4 DEF CompletedIsStored, Has, IInv, Runs
<1>8. CompletedRunIsDone'
  <2>1. StatusOf(c) \notin Done
    BY DEF IInv, Unfinished
  <2>2. old.status # "completed"
    BY <1>1, <2>1 DEF IInv, CompletedRunIsDone, AllIn, Runs, StatusOf
  <2>3. new.status = "completed" => AllIn(new, Done)
    BY <1>2, <2>2 DEF AllIn, Done
  <2> QED
    BY <1>1, <1>4, <2>3 DEF CompletedRunIsDone, IInv, Runs
<1> QED
  BY <1>2, <1>4, <1>5, <1>6, <1>7, <1>8

-----------------------------------------------------------------------------
(* The chunk a thread works on has a well-formed record in the run, and    *)
(* when its batch was refused it has failed.                               *)
LEMMA AtWork ==
  ASSUME IInv, NEW c \in Chunks, worker[c] \in Working \cup {"queued"}
  PROVE  /\ current \in RunIds /\ runs[current] \in Run /\ c \in Members(runs[current])
         /\ StatusOf(c) \in ChunkStatuses /\ StatusOf(c) \notin Done
         /\ BatchOf(c) \in Batches \cup {None}
         /\ StatusOf(c) = "polling" => BatchOf(c) # None
         /\ <<c, BatchOf(c)>> \in refused => StatusOf(c) = "failed"
         /\ <<c, None>> \notin refused
         /\ worker[c] = "polling" => StatusOf(c) = "polling"
         /\ worker[c] \in Fetching => StatusOf(c) = "downloading"
<1>1. current \in RunIds /\ runs[current] \in Run /\ c \in Members(runs[current])
      /\ current \in Runs
  BY DEF IInv, TypeOK, Placed, Working, Runs
<1>2. runs[current].chunk[c] \in ChunkRecord
  BY <1>1, RunFacts
<1>3. <<c, BatchOf(c)>> \in refused => StatusOf(c) \in {"failed", "skipped"}
  BY <1>1 DEF IInv, Refusals, RefusedIsOver, StatusOf, BatchOf
<1>4. StatusOf(c) \notin Done
  BY DEF IInv, Unfinished
<1>5. <<c, None>> \notin refused
  BY UploadsAssumption DEF IInv, TypeOK, Batches
<1> QED
  BY <1>1, <1>2, <1>3, <1>4, <1>5
  DEF ChunkRecord, StatusOf, BatchOf, IInv, PolledHasBatch, Done, Refusals, WorkIsSaved

(* What a step does with the batches.                                      *)
Rebatches(c, step, status, batch) ==
  /\ \/ batch \in {BatchOf(c), None}
     \/ worker[c] = "submitted" /\ batch = uploads[c]
  /\ \/ uploads' = uploads /\ step # "submitted"
     \/ uploads' = [uploads EXCEPT ![c] = @ + 1] /\ batch = BatchOf(c)
  /\ \/ refused' = refused
     \/ /\ refused' = refused \cup {<<c, batch>>}
        /\ batch = BatchOf(c) /\ batch # None
        /\ step # "submitted"
  /\ <<c, batch>> \in refused' => status \in {"failed", "skipped"}
  /\ step = "polling" => status = "polling"
  /\ step \in Fetching => status = "downloading"

(* A thread goes on to its next step, with or without a save of its chunk: *)
(* what it owes the invariant.                                             *)
Advances(c, step, status, batch) ==
  /\ worker[c] \in Working \cup {"queued"}
  /\ step \in Working \cup Outcomes /\ GoesTo(c, step)
  /\ status \in ChunkStatuses /\ batch \in Batches \cup {None}
  /\ \/ _update_chunk(c, status, batch)
     \/ UNCHANGED disk /\ status = StatusOf(c) /\ batch = BatchOf(c)
  /\ UNCHANGED <<current, token, verdict>>
  /\ archives \subseteq archives' /\ archives' \subseteq RunIds \X Chunks
  /\ results \subseteq results' /\ results' \subseteq RunIds \X Chunks
  /\ uploads' \in [Chunks -> 0 .. MaxUploads] /\ refused' \subseteq Chunks \X Batches
  /\ \A d \in Chunks : uploads[d] # 0 => uploads'[d] # 0
  /\ status = "polling" => batch # None
  /\ status = "completed" => <<current, c>> \in results /\ fingerprints[c] # None
  /\ status = "skipped" => fingerprints[c] # None
  /\ step \in Working => status \notin Done
  /\ step = "polling" => batch # None
  /\ step = "submitted" => uploads'[c] # 0
  /\ step \in {"fresh", "uploading"} => fingerprints[c] = None
  /\ step \in {"unpacking", "remembering"} => <<current, c>> \in archives'
  /\ step = "remembering" => <<current, c>> \in results'
  /\ step # "completing"
  /\ Rebatches(c, step, status, batch)

(* The batches a step touches keep to one run, and a refused one to a chunk *)
(* that is over: the part of the invariant about the batches.              *)
LEMMA ThreadRefusals ==
  ASSUME IInv, NEW c \in Chunks, NEW step, NEW status, NEW batch,
         worker[c] \in Working \cup {"queued"}, current' = current, GoesTo(c, step),
         Rebatches(c, step, status, batch),
         batch \in Batches \cup {None},
         uploads' \in [Chunks -> 0 .. MaxUploads], refused' \subseteq Chunks \X Batches,
         runs' \in [RunIds -> Run \cup {None}], runs'[current] # None,
         \A q \in RunIds : q # current => runs'[q] = runs[q],
         Members(runs'[current]) = Members(runs[current]),
         (StatusOf(c))' = status, (BatchOf(c))' = batch,
         \A d \in Members(runs[current]) : d # c =>
           (StatusOf(d))' = StatusOf(d) /\ (BatchOf(d))' = BatchOf(d)
  PROVE  Refusals'
<1>1. /\ current \in RunIds /\ c \in Members(runs[current]) /\ current \in Runs
      /\ Members(runs[current]) \subseteq Chunks
  BY AtWork, RunFacts DEF Runs
<1>2. Runs' = Runs
  BY <1>1 DEF IInv, TypeOK, Runs
<1>3. /\ worker' = [worker EXCEPT ![c] = step] /\ worker'[c] = step
      /\ \A d \in Chunks : d # c => worker'[d] = worker[d]
  BY DEF GoesTo, IInv, TypeOK
<1>4. \A r \in Runs : runs[r] \in Run /\ Members(runs[r]) \subseteq Chunks
  BY RunFacts DEF Runs, IInv, TypeOK
<1>5. \A r \in Runs : \A d \in Members(runs[r]) :
        \/ r = current /\ d = c
        \/ runs'[r].chunk[d].batch = runs[r].chunk[d].batch
             /\ runs'[r].chunk[d].status = runs[r].chunk[d].status
  BY DEF StatusOf, BatchOf, Runs
<1>6. \A r \in Runs : Members(runs'[r]) = Members(runs[r])
  BY DEF Runs
<1>7. runs'[current].chunk[c].batch = batch /\ runs'[current].chunk[c].status = status
  BY DEF StatusOf, BatchOf
<1>8. \A d \in Chunks : uploads[d] \in Nat /\ uploads'[d] \in Nat /\ uploads[d] <= uploads'[d]
                         /\ (d # c => uploads'[d] = uploads[d])
  BY UploadsAssumption DEF Rebatches, IInv, TypeOK
<1>9. \A r \in Runs : \A d \in Members(runs[r]) :
        /\ runs[r].chunk[d].batch \in Batches \cup {None}
        /\ runs[r].chunk[d].batch # None => runs[r].chunk[d].batch <= uploads[d]
  <2>1. \A r \in Runs : \A d \in Members(runs[r]) : runs[r].chunk[d] \in ChunkRecord
    BY <1>4, RunFacts
  <2> QED
    BY <2>1 DEF ChunkRecord, IInv, Refusals, BatchesKnown
<1>10. batch # None => batch <= uploads[c]
  <2>1. batch = BatchOf(c) /\ batch # None => batch <= uploads[c]
    BY <1>1, <1>9 DEF BatchOf
  <2> QED
    BY <1>1, <1>8, <2>1 DEF Rebatches
<1>11. BatchesKnown'
  <2>1. ASSUME NEW r \in Runs, NEW d \in Members(runs[r]), runs'[r].chunk[d].batch # None
        PROVE  runs'[r].chunk[d].batch <= uploads'[d]
    <3>1. d \in Chunks /\ uploads[d] \in Nat /\ uploads'[d] \in Nat /\ uploads[d] <= uploads'[d]
      BY <1>4, <1>8
    <3>2. runs'[r].chunk[d].batch \in Batches /\ runs'[r].chunk[d].batch <= uploads[d]
      BY <1>5, <1>7, <1>9, <1>10, <2>1
    <3> QED
      BY <3>1, <3>2 DEF Batches
  <2>2. ASSUME NEW d \in Chunks, NEW b \in Batches, <<d, b>> \in refused'
        PROVE  b <= uploads'[d]
    <3>1. uploads[d] \in Nat /\ uploads'[d] \in Nat /\ uploads[d] <= uploads'[d]
      BY <1>8
    <3>2. <<d, b>> \in refused \/ (d = c /\ b = batch /\ batch # None)
      BY <2>2 DEF Rebatches
    <3>3. b <= uploads[d]
      BY <1>10, <3>2 DEF IInv, Refusals, BatchesKnown
    <3> QED
      BY <3>1, <3>3 DEF Batches
  <2> QED
    BY <1>2, <1>6, <2>1, <2>2 DEF BatchesKnown
<1>12. BatchesApart'
  <2>1. ASSUME NEW r \in Runs, r # current, c \in Members(runs[r]), batch # None
        PROVE  runs[r].chunk[c].batch # batch
    <3>1. batch = BatchOf(c) \/ (worker[c] = "submitted" /\ batch = uploads[c])
      BY <2>1 DEF Rebatches
    <3>2. CASE batch = BatchOf(c)
      BY <1>1, <2>1, <3>2 DEF IInv, Refusals, BatchesApart, BatchOf
    <3>3. CASE worker[c] = "submitted" /\ batch = uploads[c]
      BY <1>1, <2>1, <3>3 DEF IInv, Refusals, SubmittedIsNew
    <3> QED
      BY <3>1, <3>2, <3>3
  <2>2. ASSUME NEW r \in Runs, NEW s \in Runs, NEW d \in Members(runs[r]) \cap Members(runs[s]),
               r # s, runs'[r].chunk[d].batch # None
        PROVE  runs'[r].chunk[d].batch # runs'[s].chunk[d].batch
    <3>1. CASE d = c /\ r = current
      BY <1>5, <1>7, <2>1, <2>2, <3>1
    <3>2. CASE d = c /\ s = current
      BY <1>5, <1>7, <2>1, <2>2, <3>2
    <3>3. CASE d # c \/ (r # current /\ s # current)
      BY <1>5, <2>2, <3>3 DEF IInv, Refusals, BatchesApart
    <3> QED
      BY <3>1, <3>2, <3>3
  <2> QED
    BY <1>2, <1>6, <2>2 DEF BatchesApart
<1>13. SubmittedIsNew'
  <2>1. ASSUME NEW d \in Chunks, worker'[d] = "submitted", d # c
        PROVE  /\ <<d, uploads'[d]>> \notin refused'
               /\ \A r \in Runs : d \in Members(runs[r]) => runs'[r].chunk[d].batch # uploads'[d]
    <3>1. worker[d] = "submitted" /\ uploads'[d] = uploads[d]
      BY <1>3, <1>8, <2>1
    <3>2. <<d, uploads[d]>> \notin refused'
      BY <2>1, <3>1 DEF Rebatches, IInv, Refusals, SubmittedIsNew
    <3> QED
      BY <1>5, <2>1, <3>1, <3>2 DEF IInv, Refusals, SubmittedIsNew
  <2>2. ASSUME step = "submitted"
        PROVE  /\ <<c, uploads'[c]>> \notin refused'
               /\ \A r \in Runs : c \in Members(runs[r]) => runs'[r].chunk[c].batch # uploads'[c]
    <3>1. uploads'[c] = uploads[c] + 1 /\ refused' = refused
      BY <2>2 DEF Rebatches, IInv, TypeOK
    <3>2. \A b \in Batches : <<c, b>> \in refused => b <= uploads[c]
      BY DEF IInv, Refusals, BatchesKnown
    <3>3. <<c, uploads'[c]>> \notin refused'
      <4>1. \A b \in Batches : <<c, b>> \in refused => b # uploads'[c]
        BY <1>8, <3>1, <3>2 DEF Batches
      <4> QED
        BY <3>1, <4>1
    <3>4. ASSUME NEW r \in Runs, c \in Members(runs[r])
          PROVE  runs'[r].chunk[c].batch # uploads'[c]
      <4>1. runs'[r].chunk[c].batch = None \/
              (runs'[r].chunk[c].batch \in Batches /\ runs'[r].chunk[c].batch <= uploads[c])
        BY <1>5, <1>7, <1>9, <1>10, <3>4
      <4>2. uploads'[c] \in Batches
        BY <1>8, <3>1 DEF Batches
      <4>3. uploads'[c] # None
        BY <4>2, UploadsAssumption DEF Batches
      <4> QED
        BY <1>8, <3>1, <4>1, <4>3 DEF Batches
    <3> QED
      BY <3>3, <3>4
  <2> QED
    BY <1>2, <1>3, <1>6, <2>1, <2>2 DEF SubmittedIsNew
<1>14. RefusedIsOver'
  <2>1. ASSUME NEW r \in Runs, NEW d \in Members(runs[r]), r # current \/ d # c,
               <<d, runs[r].chunk[d].batch>> \in refused'
        PROVE  <<d, runs[r].chunk[d].batch>> \in refused
    <3>1. SUFFICES ASSUME d = c, runs[r].chunk[c].batch = BatchOf(c), BatchOf(c) # None, r # current
                   PROVE  FALSE
      BY <2>1 DEF Rebatches
    <3> QED
      BY <1>1, <2>1, <3>1 DEF IInv, Refusals, BatchesApart, BatchOf
  <2>2. ASSUME NEW r \in Runs, NEW d \in Members(runs[r]),
               <<d, runs'[r].chunk[d].batch>> \in refused'
        PROVE  runs'[r].chunk[d].status \in {"failed", "skipped"}
    <3>1. CASE r = current /\ d = c
      BY <1>7, <2>2, <3>1 DEF Rebatches
    <3>2. CASE r # current \/ d # c
      BY <1>5, <2>1, <2>2, <3>2 DEF IInv, Refusals, RefusedIsOver
    <3> QED
      BY <3>1, <3>2
  <2> QED
    BY <1>2, <1>6, <2>2 DEF RefusedIsOver
<1>15. WorkIsSaved'
  <2>1. \A d \in Chunks : d # c /\ worker[d] # "none" => (StatusOf(d))' = StatusOf(d)
    BY <1>1 DEF IInv, Placed
  <2>2. ASSUME NEW d \in Chunks
        PROVE  /\ worker'[d] = "polling" => (StatusOf(d))' = "polling"
               /\ worker'[d] \in Fetching => (StatusOf(d))' = "downloading"
    <3>1. CASE d = c
      BY <1>3, <3>1 DEF Rebatches
    <3>2. CASE d # c
      BY <1>3, <2>1, <3>2 DEF IInv, Refusals, WorkIsSaved, Fetching
    <3> QED
      BY <3>1, <3>2
  <2> QED
    BY <2>2 DEF WorkIsSaved
<1> QED
  BY <1>11, <1>12, <1>13, <1>14, <1>15 DEF Refusals

LEMMA ThreadStep ==
  ASSUME IInv, NEW c \in Chunks, NEW step, NEW status, NEW batch,
         Advances(c, step, status, batch)
  PROVE  IInv'
<1> USE DEF Advances
<1>1. current \in RunIds /\ runs[current] # None /\ c \in Members(runs[current])
  BY DEF IInv, TypeOK, Placed, Working
<1>2. /\ runs' \in [RunIds -> Run \cup {None}]
      /\ active' \in RunIds \cup {None} /\ (active' # None => runs'[active'] # None)
      /\ fingerprints' = fingerprints /\ runs'[current] # None
      /\ Members(runs'[current]) = Members(runs[current])
      /\ (StatusOf(c))' = status /\ (BatchOf(c))' = batch
      /\ \A d \in Members(runs[current]) : d # c =>
           (StatusOf(d))' = StatusOf(d) /\ (BatchOf(d))' = BatchOf(d)
      /\ \A q \in RunIds : q # current => runs'[q] = runs[q]
      /\ PolledHasBatch' /\ CompletedIsStored' /\ CompletedRunIsDone'
  <2>1. CASE _update_chunk(c, status, batch)
    BY <1>1, <2>1, UpdateKeeps
  <2>2. CASE UNCHANGED disk /\ status = StatusOf(c) /\ batch = BatchOf(c)
    BY <1>1, <2>2
    DEF disk, IInv, TypeOK, Placed, StatusOf, BatchOf, PolledHasBatch, CompletedIsStored,
        CompletedRunIsDone, Runs, Has
  <2> QED
    BY <2>1, <2>2
<1>3. /\ worker' = [worker EXCEPT ![c] = step] /\ worker'[c] = step
      /\ \A d \in Chunks : d # c => worker'[d] = worker[d]
      /\ current' = current /\ current # None
  BY <1>1 DEF GoesTo, IInv, TypeOK, Placed, Working
<1>4. TypeOK'
  BY <1>2, <1>3 DEF IInv, TypeOK
<1>5. Placed'
  BY <1>1, <1>2, <1>3 DEF IInv, Placed
<1>6. Unfinished'
  BY <1>2, <1>3 DEF IInv, Unfinished, Placed, Working, Outcomes
<1>7. Batched'
  BY <1>2, <1>3 DEF IInv, Batched, Placed
<1>8. OnDisk'
  BY <1>2, <1>3 DEF IInv, OnDisk
<1>9. Owed'
  BY <1>2, <1>3 DEF IInv, Owed
<1>10. Refusals'
  BY <1>2, ThreadRefusals
<1> QED
  BY <1>2, <1>4, <1>5, <1>6, <1>7, <1>8, <1>9, <1>10 DEF IInv

LEMMA RaisesIInv ==
  ASSUME IInv, NEW c \in Chunks, worker[c] \in Working \cup {"queued"},
         NEW outcomes \in SUBSET (Outcomes \ {"ok"}), Raises(c, outcomes)
  PROVE  IInv'
<1>1. PICK o \in outcomes :
        /\ worker' = [worker EXCEPT ![c] = o]
        /\ IF o = "provider"
           THEN /\ _update_chunk(c, "failed", BatchOf(c))
                /\ refused' = refused \cup
                     (IF worker[c] = "polling" THEN {<<c, BatchOf(c)>>} ELSE {})
           ELSE UNCHANGED <<disk, refused>>
  BY DEF Raises
<1>2. UNCHANGED <<archives, results, current, token, verdict, uploads>>
  BY DEF Raises, files, main
<1>3. o \in Outcomes /\ o \notin Working /\ o # "none" /\ o # "queued" /\ GoesTo(c, o)
  BY <1>1 DEF Outcomes, Working, GoesTo
<1>4. refused' \subseteq Chunks \X Batches
  <2>1. worker[c] = "polling" => BatchOf(c) \in Batches
    BY AtWork DEF IInv, Batched
  <2> QED
    BY <1>1, <2>1 DEF IInv, TypeOK
<1>5. CASE o = "provider"
  <2>1. _update_chunk(c, "failed", BatchOf(c))
    BY <1>1, <1>5
  <2>2. Rebatches(c, o, "failed", BatchOf(c))
    BY <1>1, <1>2, <1>3, <1>5, AtWork DEF Rebatches, Fetching, Working
  <2>3. Advances(c, o, "failed", BatchOf(c))
    BY <1>2, <1>3, <1>4, <2>1, <2>2, AtWork DEF Advances, IInv, TypeOK, ChunkStatuses, Working
  <2> QED
    BY <2>3, ThreadStep
<1>6. CASE o # "provider"
  <2>1. UNCHANGED disk /\ refused' = refused
    BY <1>1, <1>6
  <2>2. Rebatches(c, o, StatusOf(c), BatchOf(c))
    BY <1>2, <1>3, <2>1, AtWork DEF Rebatches, Fetching, Working
  <2>3. Advances(c, o, StatusOf(c), BatchOf(c))
    BY <1>2, <1>3, <1>4, <2>1, <2>2, AtWork DEF Advances, IInv, TypeOK, Working, Done
  <2> QED
    BY <2>3, ThreadStep
<1> QED
  BY <1>5, <1>6

(* A thread starts: the four ways to go on.                                *)
LEMMA StartIInv ==
  ASSUME IInv, NEW c \in Chunks, Start(c)
  PROVE  IInv'
<1>1. worker[c] = "queued"
  BY DEF Start
<1>2. CASE Raises(c, IF token THEN {"cancelled"} ELSE {"timeout"})
  BY <1>1, <1>2, RaisesIInv DEF Outcomes
<1>3. CASE UNCHANGED <<files, main, provider>> /\ (Skip(c) \/ Retry(c) \/ StartAnew(c) \/ Continue(c))
  <2>1. UNCHANGED <<archives, results, current, token, verdict, uploads, refused>>
    BY <1>3 DEF files, main, provider
  <2>2. ~IsDuplicate(c) /\ StatusOf(c) # "polling" => fingerprints[c] = None
    BY DEF IsDuplicate, _fingerprint_completed, IInv, OnDisk
  <2>3. CASE Skip(c)
    <3>1. Advances(c, "ok", "skipped", BatchOf(c))
      BY <1>1, <2>1, <2>3, AtWork
      DEF Advances, Rebatches, Fetching, Skip, IsDuplicate, _fingerprint_completed,
          IInv, TypeOK, ChunkStatuses,
          Outcomes, Working
    <3> QED
      BY <3>1, ThreadStep
  <2>4. CASE Retry(c)
    <3>1. Advances(c, "fresh", "materialized", None)
      BY <1>1, <2>1, <2>2, <2>4, AtWork
      DEF Advances, Rebatches, Fetching, Retry, IInv, TypeOK, ChunkStatuses, Working, Done
    <3> QED
      BY <3>1, ThreadStep
  <2>5. CASE StartAnew(c)
    <3>1. Advances(c, "fresh", StatusOf(c), BatchOf(c))
      BY <1>1, <2>1, <2>2, <2>5, AtWork
      DEF Advances, Rebatches, Fetching, StartAnew, IInv, TypeOK, Working, Done
    <3> QED
      BY <3>1, ThreadStep
  <2>6. CASE Continue(c)
    <3>1. Advances(c, "polling", "polling", BatchOf(c))
      BY <1>1, <2>1, <2>6, AtWork
      DEF Advances, Rebatches, Fetching, Continue, IInv, TypeOK, ChunkStatuses, Working, Done
    <3> QED
      BY <3>1, ThreadStep
  <2> QED
    BY <1>3, <2>3, <2>4, <2>5, <2>6
<1> QED
  BY <1>2, <1>3 DEF Start

LEMMA UploadingIInv ==
  ASSUME IInv, NEW c \in Chunks,
         Announce(c) \/ Upload(c) \/ UploadFails(c) \/ SaveBatch(c)
  PROVE  IInv'
<1>1. CASE Announce(c)
  <2>1. fingerprints[c] = None
    BY <1>1 DEF Announce, IInv, Owed
  <2>2. Advances(c, "uploading", "uploading", None)
    BY <1>1, <2>1, AtWork
    DEF Advances, Rebatches, Fetching, Announce, IInv, TypeOK, ChunkStatuses, Working,
        Done, files, main, provider
  <2> QED
    BY <2>2, ThreadStep
<1>2. CASE Upload(c)
  <2>1. /\ worker[c] = "uploading" /\ uploads[c] \in 0 .. MaxUploads /\ uploads[c] < MaxUploads
        /\ uploads' = [uploads EXCEPT ![c] = @ + 1]
    BY <1>2 DEF Upload, IInv, TypeOK
  <2>2. uploads' \in [Chunks -> 0 .. MaxUploads] /\ uploads'[c] # 0
        /\ \A d \in Chunks : uploads[d] # 0 => uploads'[d] # 0
    BY <2>1, UploadsAssumption DEF IInv, TypeOK
  <2>3. /\ UNCHANGED disk /\ GoesTo(c, "submitted")
        /\ UNCHANGED <<archives, results, current, token, verdict, refused>>
    BY <1>2 DEF Upload, files, main
  <2>4. Advances(c, "submitted", StatusOf(c), BatchOf(c))
    BY <2>1, <2>2, <2>3, AtWork DEF Advances, Rebatches, Fetching, IInv, TypeOK, Working, Done
  <2> QED
    BY <2>4, ThreadStep
<1>3. CASE UploadFails(c)
  BY <1>3, RaisesIInv DEF UploadFails, Outcomes, Working
<1>4. CASE SaveBatch(c)
  <2>1. uploads[c] \in Batches /\ uploads[c] # None
    BY <1>4, UploadsAssumption DEF SaveBatch, IInv, TypeOK, Batched, Batches
  <2>2. <<c, uploads[c]>> \notin refused
    BY <1>4 DEF SaveBatch, IInv, Refusals, SubmittedIsNew
  <2>3. Rebatches(c, "polling", "polling", uploads[c])
    BY <1>4, <2>2 DEF SaveBatch, Rebatches, Fetching, provider
  <2>4. Advances(c, "polling", "polling", uploads[c])
    BY <1>4, <2>1, <2>3, AtWork
    DEF Advances, SaveBatch, IInv, TypeOK, ChunkStatuses, Working, Done, files, main, provider
  <2> QED
    BY <2>4, ThreadStep
<1> QED
  BY <1>1, <1>2, <1>3, <1>4

LEMMA FetchingIInv ==
  ASSUME IInv, NEW c \in Chunks, Poll(c) \/ Download(c) \/ Unpack(c)
  PROVE  IInv'
<1>1. CASE Poll(c)
  <2>1. CASE Raises(c, {"cancelled", "auth", "quota", "timeout", "provider"})
    BY <1>1, <2>1, RaisesIInv DEF Poll, Outcomes, Working
  <2>2. CASE _update_chunk(c, "downloading", BatchOf(c)) /\ GoesTo(c, "downloading")
             /\ UNCHANGED <<files, main, provider>>
    <3>1. Advances(c, "downloading", "downloading", BatchOf(c))
      BY <1>1, <2>2, AtWork
      DEF Advances, Rebatches, Fetching, Poll, IInv, TypeOK, ChunkStatuses, Working,
          Done, files, main, provider
    <3> QED
      BY <3>1, ThreadStep
  <2> QED
    BY <1>1, <2>1, <2>2 DEF Poll
<1>2. CASE Download(c)
  <2>1. CASE Raises(c, {"cancelled", "provider", "other"})
    BY <1>2, <2>1, RaisesIInv DEF Download, Outcomes, Working
  <2>2. CASE archives' = archives \cup {<<current, c>>} /\ GoesTo(c, "unpacking")
             /\ UNCHANGED <<disk, results, main, provider>>
    <3>1. Rebatches(c, "unpacking", StatusOf(c), BatchOf(c))
      BY <1>2, <2>2, AtWork DEF Rebatches, Fetching, Download, Working, provider
    <3>2. worker[c] = "downloading"
      BY <1>2 DEF Download
    <3>3. current \in RunIds /\ archives \subseteq RunIds \X Chunks
      BY <3>2, AtWork DEF IInv, TypeOK, Working
    <3>4. /\ archives \subseteq archives' /\ <<current, c>> \in archives'
          /\ archives' \subseteq RunIds \X Chunks
      BY <2>2, <3>3
    <3>5. Advances(c, "unpacking", StatusOf(c), BatchOf(c))
      BY <2>2, <3>1, <3>2, <3>4, AtWork DEF Advances, IInv, TypeOK, Working, Done, main, provider
    <3> QED
      BY <3>5, ThreadStep
  <2> QED
    BY <1>2, <2>1, <2>2 DEF Download
<1>3. CASE Unpack(c)
  <2>1. CASE Raises(c, {"other"})
    BY <1>3, <2>1, RaisesIInv DEF Unpack, Outcomes, Working
  <2>2. CASE results' = results \cup {<<current, c>>} /\ GoesTo(c, "remembering")
             /\ UNCHANGED <<disk, archives, main, provider>>
    <3>1. <<current, c>> \in archives
      BY <1>3 DEF Unpack, IInv, OnDisk
    <3>2. Advances(c, "remembering", StatusOf(c), BatchOf(c))
      BY <1>3, <2>2, <3>1, AtWork
      DEF Advances, Rebatches, Fetching, Unpack, IInv, TypeOK, Working, Done, main, provider
    <3> QED
      BY <3>2, ThreadStep
  <2> QED
    BY <1>3, <2>1, <2>2 DEF Unpack
<1> QED
  BY <1>1, <1>2, <1>3

(* Without a save the batches stay as they are.                            *)
Waiting == {"submitted", "polling"} \cup Fetching

LEMMA RefusalsKept ==
  ASSUME IInv, UNCHANGED <<runs, current, uploads, refused>>,
         \A c \in Chunks : worker'[c] \in Waiting =>
           worker'[c] = worker[c] \/ (worker'[c] \in Fetching /\ worker[c] \in Fetching)
  PROVE  Refusals'
<1>1. BatchesKnown' /\ BatchesApart' /\ RefusedIsOver'
  BY DEF IInv, Refusals, BatchesKnown, BatchesApart, RefusedIsOver, Runs
<1>2. SubmittedIsNew' /\ WorkIsSaved'
  BY DEF IInv, Refusals, SubmittedIsNew, WorkIsSaved, Runs, StatusOf, Waiting, Fetching
<1> QED
  BY <1>1, <1>2 DEF Refusals

(* A save while no thread runs, of a run as it was or of a new one.        *)
LEMMA RefusalsSaved ==
  ASSUME IInv, NEW r \in RunIds, NEW run \in Run, save(r, run), UNCHANGED <<uploads, refused>>,
         \A c \in Chunks : worker'[c] \notin Waiting,
         \A c \in Members(run) :
           \/ runs[r] # None /\ c \in Members(runs[r]) /\ run.chunk[c] = runs[r].chunk[c]
           \/ run.chunk[c].batch = None
  PROVE  Refusals'
<1>1. /\ runs'[r] = run /\ run # None /\ Members(run) \subseteq Chunks
      /\ \A q \in RunIds : q # r => runs'[q] = runs[q]
      /\ Runs' = Runs \cup {r}
  BY Saved, RunFacts DEF IInv
<1>2. \A q \in Runs' : \A c \in Members(runs'[q]) :
        \/ runs'[q].chunk[c].batch = None
        \/ q \in Runs /\ c \in Members(runs[q]) /\ runs'[q].chunk[c] = runs[q].chunk[c]
  BY <1>1 DEF Runs
<1>3. BatchesKnown'
  BY <1>2 DEF IInv, Refusals, BatchesKnown
<1>4. BatchesApart'
  BY <1>2 DEF IInv, Refusals, BatchesApart
<1>5. RefusedIsOver'
  <2>1. \A q \in Runs' : \A c \in Members(runs'[q]) : c \in Chunks
    BY <1>1, RunFacts DEF Runs, IInv, TypeOK
  <2>2. \A c \in Chunks : <<c, None>> \notin refused
    BY UploadsAssumption DEF IInv, TypeOK, Batches
  <2> QED
    BY <1>2, <2>1, <2>2 DEF IInv, Refusals, RefusedIsOver
<1>6. SubmittedIsNew' /\ WorkIsSaved'
  BY DEF SubmittedIsNew, WorkIsSaved, Waiting
<1> QED
  BY <1>3, <1>4, <1>5, <1>6 DEF Refusals

(* A thread remembers the fingerprint, and then calls the chunk completed. *)
LEMMA RememberIInv ==
  ASSUME IInv, NEW c \in Chunks, _remember_fingerprint(c)
  PROVE  IInv'
<1>1. /\ worker[c] = "remembering" /\ worker' = [worker EXCEPT ![c] = "completing"]
      /\ fingerprints' = [fingerprints EXCEPT ![c] = current]
      /\ UNCHANGED <<runs, active, archives, results, current, token, verdict, uploads, refused>>
  BY DEF _remember_fingerprint, GoesTo, files, main, provider
<1>2. current \in RunIds /\ current # None
      /\ <<current, c>> \in archives /\ <<current, c>> \in results
  BY <1>1, AtWork, RunIdsAssumption DEF Working, IInv, OnDisk
<1>3. TypeOK'
  BY <1>1, <1>2 DEF IInv, TypeOK, Working
<1>4. fingerprints'[c] = current /\ \A d \in Chunks : d # c => fingerprints'[d] = fingerprints[d]
  BY <1>1 DEF IInv, TypeOK
<1>5. worker'[c] = "completing" /\ \A d \in Chunks : d # c => worker'[d] = worker[d]
  BY <1>1 DEF IInv, TypeOK
<1>6. Placed' /\ Unfinished' /\ Batched' /\ PolledHasBatch' /\ Owed' /\ CompletedRunIsDone'
  BY <1>1, <1>4, <1>5
  DEF IInv, Placed, Unfinished, Batched, PolledHasBatch, Owed, CompletedRunIsDone, Runs,
      StatusOf, BatchOf, Working
<1>7. OnDisk'
  BY <1>1, <1>2, <1>4, <1>5 DEF IInv, OnDisk
<1>8. CompletedIsStored'
  BY <1>1, <1>2, <1>4 DEF IInv, CompletedIsStored, Runs, Has
<1>9. Refusals'
  BY <1>1, <1>5, RefusalsKept DEF Fetching
<1> QED
  BY <1>3, <1>6, <1>7, <1>8, <1>9 DEF IInv

LEMMA CompleteIInv ==
  ASSUME IInv, NEW c \in Chunks, Complete(c)
  PROVE  IInv'
<1>1. worker[c] = "completing" /\ <<current, c>> \in results /\ fingerprints[c] # None
  BY DEF Complete, IInv, OnDisk
<1>2. Advances(c, "ok", "completed", BatchOf(c))
  BY <1>1, AtWork
  DEF Advances, Rebatches, Fetching, Complete, IInv, TypeOK, ChunkStatuses, Outcomes,
      Working, files, main, provider
<1> QED
  BY <1>2, ThreadStep

(* The main thread takes an outcome from the pool.                         *)
LEMMA CollectIInv ==
  ASSUME IInv, NEW c \in Chunks, Collect(c)
  PROVE  IInv'
<1>1. /\ worker' = [worker EXCEPT ![c] = "none"] /\ current # None
      /\ verdict' \in Fatal \cup {None} /\ token' \in BOOLEAN
      /\ UNCHANGED <<runs, active, fingerprints, archives, results, current, uploads, refused>>
  BY DEF Collect, disk, files, provider, IInv, TypeOK
<1>2. worker'[c] = "none" /\ \A d \in Chunks : d # c => worker'[d] = worker[d]
  BY <1>1 DEF IInv, TypeOK
<1>3. TypeOK'
  BY <1>1 DEF IInv, TypeOK
<1>4. Refusals'
  BY <1>1, <1>2, RefusalsKept DEF Waiting, Fetching
<1> QED
  BY <1>1, <1>2, <1>3, <1>4
  DEF IInv, Placed, Unfinished, Batched, PolledHasBatch, OnDisk, Owed, CompletedIsStored,
      CompletedRunIsDone, Runs, Has, StatusOf, BatchOf, Working

-----------------------------------------------------------------------------
(* A save of a run that keeps the record of every chunk it had, or that is *)
(* new and has nothing stored: used where the process begins and ends.     *)
LEMMA SaveKeeps ==
  ASSUME IInv, NEW r \in RunIds, NEW run \in Run, save(r, run),
         UNCHANGED <<archives, results>>,
         \A c \in Members(run) :
           \/ runs[r] # None /\ c \in Members(runs[r]) /\ run.chunk[c] = runs[r].chunk[c]
           \/ run.chunk[c].status = "materialized",
         run.status = "completed" => AllIn(run, Done)
  PROVE  PolledHasBatch' /\ CompletedIsStored' /\ CompletedRunIsDone'
<1>1. /\ fingerprints' = fingerprints /\ runs'[r] = run /\ run # None
      /\ \A q \in RunIds : q # r => runs'[q] = runs[q]
      /\ Runs' = Runs \cup {r}
  BY Saved DEF IInv
<1>2. PolledHasBatch'
  BY <1>1 DEF IInv, PolledHasBatch, Runs
<1>3. CompletedIsStored'
  BY <1>1 DEF IInv, CompletedIsStored, Has, Runs
<1>4. CompletedRunIsDone'
  BY <1>1 DEF IInv, CompletedRunIsDone, Runs
<1> QED
  BY <1>2, <1>3, <1>4

LEMMA BeginIInv ==
  ASSUME IInv, NEW r \in RunIds, NEW run \in Run, begin(r, run),
         \A c \in Members(run) :
           \/ runs[r] # None /\ c \in Members(runs[r]) /\ run.chunk[c] = runs[r].chunk[c]
           \/ run.chunk[c].status = "materialized" /\ run.chunk[c].batch = None
  PROVE  IInv'
<1> DEFINE new == [run EXCEPT !.status = "running"]
<1>1. new \in Run /\ new.status = "running" /\ new.chunk = run.chunk /\ Members(new) = Members(run)
  BY WithStatus DEF RunStatuses, Members
<1>2. /\ save(r, new) /\ current' = r
      /\ worker' = [c \in Chunks |-> IF c \in Members(run) /\ run.chunk[c].status \notin Done
                                     THEN "queued" ELSE "none"]
      /\ UNCHANGED <<archives, results, token, verdict, uploads, refused>>
  BY DEF begin, files, provider
<1> HIDE DEF new
<1>3. /\ runs' \in [RunIds -> Run \cup {None}] /\ active' = r
      /\ fingerprints' = fingerprints /\ runs'[r] = new /\ new # None
  BY <1>1, <1>2, Saved DEF IInv
<1>4. PolledHasBatch' /\ CompletedIsStored' /\ CompletedRunIsDone'
  BY <1>1, <1>2, SaveKeeps
<1>5. TypeOK'
  BY <1>2, <1>3 DEF IInv, TypeOK
<1>6. Placed'
  BY <1>1, <1>2, <1>3, RunIdsAssumption DEF Placed
<1>7. Unfinished'
  BY <1>1, <1>2, <1>3 DEF Unfinished, StatusOf, Working
<1>8. Batched' /\ OnDisk' /\ Owed'
  BY <1>2, <1>3 DEF IInv, Batched, OnDisk, Owed
<1>9. Refusals'
  BY <1>1, <1>2, RefusalsSaved DEF Waiting, Fetching
<1> QED
  BY <1>4, <1>5, <1>6, <1>7, <1>8, <1>9 DEF IInv

(* extract takes up a run of the state file or creates one.                *)
LEMMA ExtractIInv ==
  ASSUME IInv, NEW mode \in RunModes, extract(mode)
  PROVE  IInv'
<1>1. CASE Reusable /\ begin(active, runs[active])
  <2>1. active \in RunIds /\ runs[active] \in Run /\ runs[active] # None
    BY <1>1 DEF Reusable, IInv, TypeOK, Placed
  <2> QED
    BY <1>1, <2>1, BeginIInv
<1>2. CASE \E r \in RunIds : runs[r] = None /\ begin(r, NewRun(mode))
  <2>1. PICK r \in RunIds : begin(r, NewRun(mode))
    BY <1>2
  <2>2. [c \in ChunksOf[mode] |-> [status |-> "materialized", batch |-> None]]
          \in [ChunksOf[mode] -> ChunkRecord]
    BY DEF ChunkRecord, ChunkStatuses
  <2>3. NewRun(mode) \in Run
    BY <2>2, IsRun DEF NewRun, RunStatuses
  <2>4. \A c \in Members(NewRun(mode)) : /\ NewRun(mode).chunk[c].status = "materialized"
                                          /\ NewRun(mode).chunk[c].batch = None
    BY DEF NewRun, Members
  <2> QED
    BY <2>1, <2>3, <2>4, BeginIInv
<1> QED
  BY <1>1, <1>2 DEF extract

LEMMA ResumeIInv ==
  ASSUME IInv, NEW r \in RunIds, resume(r)
  PROVE  IInv'
<1>1. runs[r] \in Run /\ runs[r] # None /\ begin(r, runs[r])
  BY DEF resume, IInv, TypeOK
<1> QED
  BY <1>1, BeginIInv

(* Without the process and without a save the batches stay as they are.    *)
LEMMA GoneRefusals ==
  ASSUME IInv, Gone, UNCHANGED <<runs, uploads, refused>>
  PROVE  Refusals'
<1>1. BatchesKnown' /\ BatchesApart' /\ RefusedIsOver'
  BY DEF IInv, Refusals, BatchesKnown, BatchesApart, RefusedIsOver, Runs
<1>2. SubmittedIsNew' /\ WorkIsSaved'
  BY DEF Gone, SubmittedIsNew, WorkIsSaved, Fetching
<1> QED
  BY <1>1, <1>2 DEF Refusals

(* The process is gone: no thread has anything to say.                     *)
LEMMA GoneIInv ==
  ASSUME IInv, Gone, UNCHANGED <<archives, results, uploads, refused, fingerprints>>,
         runs' \in [RunIds -> Run \cup {None}],
         active' \in RunIds \cup {None}, active' # None => runs'[active'] # None,
         PolledHasBatch', CompletedIsStored', CompletedRunIsDone', Refusals'
  PROVE  IInv'
<1>1. current' = None /\ worker' = [c \in Chunks |-> "none"] /\ token' = FALSE /\ verdict' = None
  BY DEF Gone
<1>2. TypeOK'
  BY <1>1 DEF IInv, TypeOK
<1> QED
  BY <1>1, <1>2 DEF IInv, Placed, Unfinished, Batched, OnDisk, Owed, Working

LEMMA FinishIInv ==
  ASSUME IInv, Finish
  PROVE  IInv'
<1> DEFINE old == runs[current]
<1>1. /\ current \in RunIds /\ old # None /\ old \in Run /\ current \in Runs
      /\ Gone /\ UNCHANGED <<archives, results, uploads, refused>>
  BY DEF Finish, files, provider, IInv, TypeOK, Placed, Runs
<1>2. CASE verdict = "other"
  <2>1. Refusals'
    BY <1>1, <1>2, GoneRefusals DEF Finish, disk
  <2> QED
    BY <1>1, <1>2, <2>1, GoneIInv
    DEF Finish, disk, IInv, TypeOK, Placed, PolledHasBatch, CompletedIsStored,
      CompletedRunIsDone, Runs, Has
<1>3. CASE verdict # "other"
  <2> DEFINE new == [old EXCEPT !.status = FinalStatus(old)]
  <2>1. /\ FinalStatus(old) \in RunStatuses
        /\ FinalStatus(old) = "completed" => AllIn(old, Done)
    BY <1>1, RunFacts DEF FinalStatus, RunStatuses, IInv, CompletedRunIsDone
  <2>2. /\ new \in Run /\ new.status = FinalStatus(old) /\ new.chunk = old.chunk
        /\ Members(new) = Members(old)
    BY <1>1, <2>1, WithStatus DEF Members
  <2>3. save(current, new)
    BY <1>3 DEF Finish
  <2> HIDE DEF new
  <2>4. PolledHasBatch' /\ CompletedIsStored' /\ CompletedRunIsDone'
    <3>1. new.status = "completed" => AllIn(new, Done)
      BY <2>1, <2>2 DEF AllIn
    <3> QED
      BY <1>1, <2>2, <2>3, <3>1, SaveKeeps
  <2>5. /\ runs' \in [RunIds -> Run \cup {None}] /\ active' = current
        /\ fingerprints' = fingerprints /\ runs'[current] # None
    BY <1>1, <2>2, <2>3, Saved DEF IInv
  <2>6. Refusals'
    <3>1. \A c \in Chunks : worker'[c] \notin Waiting
      BY <1>1 DEF Gone, Waiting, Fetching
    <3> QED
      BY <1>1, <2>2, <2>3, <3>1, RefusalsSaved
  <2> QED
    BY <1>1, <2>4, <2>5, <2>6, GoneIInv
<1> QED
  BY <1>2, <1>3

(* The operator's other doings and the crash touch no file.                *)
LEMMA OperatorIInv ==
  ASSUME IInv, cancel \/ Interrupt \/ Crash
  PROVE  IInv'
<1>1. CASE Crash
  <2>1. Refusals'
    BY <1>1, GoneRefusals DEF Crash, disk, provider
  <2> QED
    BY <1>1, <2>1, GoneIInv
    DEF Crash, disk, files, provider, IInv, TypeOK, Placed, PolledHasBatch, CompletedIsStored,
        CompletedRunIsDone, Runs, Has
<1>2. CASE cancel \/ Interrupt
  <2>1. /\ token' \in BOOLEAN /\ verdict' \in Fatal \cup {None}
        /\ UNCHANGED <<runs, active, fingerprints, archives, results, current, worker,
                       uploads, refused>>
    BY <1>2 DEF cancel, Interrupt, disk, files, provider, IInv, TypeOK, Fatal, Outcomes
  <2>2. TypeOK'
    BY <2>1 DEF IInv, TypeOK
  <2>3. Refusals'
    BY <2>1, RefusalsKept
  <2> QED
    BY <2>1, <2>2, <2>3
    DEF IInv, Placed, Unfinished, Batched, PolledHasBatch, OnDisk, Owed, CompletedIsStored,
        CompletedRunIsDone, Runs, Has, StatusOf, BatchOf
<1> QED
  BY <1>1, <1>2

LEMMA StutterIInv == IInv /\ UNCHANGED vars => IInv'
<1>1. IInv /\ UNCHANGED vars => Refusals'
  BY RefusalsKept DEF vars
<1> QED
  BY <1>1 DEF vars, IInv, TypeOK, Placed, Unfinished, Batched, PolledHasBatch, OnDisk, Owed,
         CompletedIsStored, CompletedRunIsDone, Runs, Has, StatusOf, BatchOf

LEMMA NextIInv == IInv /\ [Next]_vars => IInv'
<1> SUFFICES ASSUME IInv, [Next]_vars PROVE IInv'
  OBVIOUS
<1>1. CASE OperatorStep
  BY <1>1, ExtractIInv, ResumeIInv, OperatorIInv DEF OperatorStep
<1>2. ASSUME NEW c \in Chunks, _process_chunk(c) \/ Collect(c)
      PROVE  IInv'
  BY <1>2, StartIInv, UploadingIInv, FetchingIInv, RememberIInv, CompleteIInv, CollectIInv
  DEF _process_chunk
<1>3. CASE Finish
  BY <1>3, FinishIInv
<1>4. CASE UNCHANGED vars
  BY <1>4, StutterIInv
<1> QED
  BY <1>1, <1>2, <1>3, <1>4 DEF Next, ProcessStep

-----------------------------------------------------------------------------
(* Only submit_file changes the number of uploads.                         *)
LEMMA UploadStep ==
  ASSUME IInv, [Next]_vars, NEW c \in Chunks, uploads'[c] # uploads[c]
  PROVE  fingerprints[c] = None
<1>1. PICK d \in Chunks : Upload(d)
  <2>1. uploads' # uploads
    OBVIOUS
  <2>2. ~OperatorStep /\ ~Finish /\ ~UNCHANGED vars
    BY <2>1
    DEF OperatorStep, extract, resume, begin, cancel, Interrupt, Crash, Finish, vars,
        provider
  <2>3. PICK d \in Chunks : _process_chunk(d) \/ Collect(d)
    BY <2>2 DEF Next, ProcessStep
  <2>4. Upload(d)
    BY <2>1, <2>3
    DEF _process_chunk, Collect, Start, Announce, UploadFails, SaveBatch, Poll, Download,
        Unpack, _remember_fingerprint, Complete, Raises, provider
  <2> QED
    BY <2>4
<1>2. d = c /\ worker[d] = "uploading"
  BY <1>1 DEF Upload, IInv, TypeOK
<1> QED
  BY <1>2 DEF IInv, Owed

KeepsDone ==
  \A r \in Runs : \A c \in Members(runs[r]) :
    runs[r].chunk[c].status \in Done => runs'[r].chunk[c] = runs[r].chunk[c]

(* A thread saves only its own chunk, which is not finished.               *)
LEMMA UpdateKeepsDone ==
  ASSUME IInv, NEW c \in Chunks, worker[c] \in Working \cup {"queued"},
         NEW status \in ChunkStatuses, NEW batch \in Batches \cup {None},
         _update_chunk(c, status, batch)
  PROVE  KeepsDone /\ fingerprints' = fingerprints
<1> DEFINE old == runs[current]
           new == mark_chunk(old, c, status, batch)
<1>1. /\ current \in RunIds /\ old \in Run /\ c \in Members(old)
      /\ old.chunk[c].status \notin Done
  BY AtWork DEF StatusOf
<1>2. /\ new \in Run /\ Members(new) = Members(old)
      /\ new.chunk[c] = [status |-> status, batch |-> batch]
      /\ \A d \in Members(old) : d # c => new.chunk[d] = old.chunk[d]
      /\ new.status = old.status \/ new.status = "failed" \/ AllIn(new, {"completed"})
  BY <1>1, Marked
<1>3. save(current, new)
  BY DEF _update_chunk
<1> HIDE DEF new
<1>4. /\ runs'[current] = new /\ \A q \in RunIds : q # current => runs'[q] = runs[q]
      /\ fingerprints' = fingerprints
  BY <1>1, <1>2, <1>3, Saved DEF IInv
<1> QED
  BY <1>1, <1>2, <1>4 DEF KeepsDone, Runs

LEMMA ThreadKeepsDone ==
  ASSUME IInv, NEW c \in Chunks, _process_chunk(c)
  PROVE  KeepsDone /\ (fingerprints' = fingerprints \/ _remember_fingerprint(c))
<1>1. CASE runs' = runs
  BY <1>1
  DEF KeepsDone, _process_chunk, Start, Skip, Retry, StartAnew, Continue, Announce, Upload,
      UploadFails, SaveBatch, Poll, Download, Unpack, Complete, Raises, _update_chunk, save, disk
<1>2. ASSUME NEW outcomes, Raises(c, outcomes), worker[c] \in Working \cup {"queued"}
      PROVE  KeepsDone /\ fingerprints' = fingerprints
  <2>1. UNCHANGED disk \/ _update_chunk(c, "failed", BatchOf(c))
    BY <1>2 DEF Raises
  <2>2. BatchOf(c) \in Batches \cup {None}
    BY <1>2, AtWork
  <2>3. "failed" \in ChunkStatuses
    BY DEF ChunkStatuses
  <2> QED
    BY <1>2, <2>1, <2>2, <2>3, UpdateKeepsDone DEF disk, KeepsDone
<1>3. ASSUME NEW status \in ChunkStatuses, NEW batch \in Batches \cup {None},
             _update_chunk(c, status, batch), worker[c] \in Working \cup {"queued"}
      PROVE  KeepsDone /\ fingerprints' = fingerprints
  BY <1>3, UpdateKeepsDone
<1>4. worker[c] \in Working \cup {"queued"} => BatchOf(c) \in Batches \cup {None}
  BY AtWork
<1>5. CASE Start(c)
  <2>1. worker[c] \in Working \cup {"queued"}
    BY <1>5 DEF Start
  <2>2. CASE Skip(c) \/ Continue(c) \/ Retry(c)
    BY <1>3, <1>4, <2>1, <2>2 DEF Skip, Continue, Retry, ChunkStatuses
  <2>3. CASE StartAnew(c)
    BY <1>1, <2>3 DEF StartAnew, disk
  <2> QED
    BY <1>2, <1>5, <2>1, <2>2, <2>3 DEF Start
<1>6. CASE Announce(c) \/ Complete(c)
  BY <1>3, <1>4, <1>6 DEF Announce, Complete, ChunkStatuses, Working
<1>7. CASE SaveBatch(c)
  <2>1. uploads[c] \in Batches
    BY <1>7, UploadsAssumption DEF SaveBatch, IInv, TypeOK, Batched, Batches
  <2> QED
    BY <1>3, <1>7, <2>1 DEF SaveBatch, ChunkStatuses, Working
<1>8. CASE Poll(c)
  BY <1>2, <1>3, <1>4, <1>8 DEF Poll, ChunkStatuses, Working
<1>9. CASE Upload(c) \/ UploadFails(c) \/ Download(c) \/ Unpack(c)
  BY <1>1, <1>2, <1>9 DEF Upload, UploadFails, Download, Unpack, disk, Working
<1>10. CASE _remember_fingerprint(c)
  BY <1>1, <1>10 DEF _remember_fingerprint
<1> QED
  BY <1>5, <1>6, <1>7, <1>8, <1>9, <1>10 DEF _process_chunk

LEMMA BeginKeepsDone ==
  ASSUME IInv, NEW r \in RunIds, NEW run \in Run, begin(r, run),
         runs[r] = None \/ run = runs[r]
  PROVE  KeepsDone /\ fingerprints' = fingerprints
<1> DEFINE new == [run EXCEPT !.status = "running"]
<1>1. new \in Run /\ new.chunk = run.chunk
  BY WithStatus DEF RunStatuses
<1>2. save(r, new)
  BY DEF begin
<1> HIDE DEF new
<1>3. /\ runs'[r] = new /\ \A q \in RunIds : q # r => runs'[q] = runs[q]
      /\ fingerprints' = fingerprints
  BY <1>1, <1>2, Saved DEF IInv
<1> QED
  BY <1>1, <1>3 DEF KeepsDone, Runs

LEMMA FinishKeepsDone ==
  ASSUME IInv, Finish
  PROVE  KeepsDone /\ fingerprints' = fingerprints
<1> DEFINE old == runs[current]
           new == [old EXCEPT !.status = FinalStatus(old)]
<1>1. CASE UNCHANGED disk
  BY <1>1 DEF disk, KeepsDone
<1>2. CASE save(current, new)
  <2>1. current \in RunIds /\ old \in Run
    BY DEF Finish, IInv, TypeOK, Placed
  <2>2. FinalStatus(old) \in RunStatuses
    BY <2>1, RunFacts DEF FinalStatus, RunStatuses
  <2>3. new \in Run /\ new.chunk = old.chunk
    BY <2>1, <2>2, WithStatus
  <2> HIDE DEF new
  <2>4. /\ runs'[current] = new /\ \A q \in RunIds : q # current => runs'[q] = runs[q]
        /\ fingerprints' = fingerprints
    BY <1>2, <2>1, <2>3, Saved DEF IInv
  <2> QED
    BY <2>3, <2>4 DEF KeepsDone, Runs
<1> QED
  BY <1>1, <1>2 DEF Finish

LEMMA DoneStep ==
  ASSUME IInv, [Next]_vars
  PROVE  KeepsDone /\ \A c \in Chunks : fingerprints[c] # None => fingerprints'[c] # None
<1>1. CASE UNCHANGED <<runs, fingerprints>>
  BY <1>1 DEF KeepsDone
<1>2. ASSUME NEW mode \in RunModes, extract(mode)
      PROVE  KeepsDone /\ fingerprints' = fingerprints
  <2>1. CASE Reusable /\ begin(active, runs[active])
    BY <2>1, BeginKeepsDone DEF Reusable, IInv, TypeOK, Placed
  <2>2. CASE \E r \in RunIds : runs[r] = None /\ begin(r, NewRun(mode))
    <3>1. PICK r \in RunIds : runs[r] = None /\ begin(r, NewRun(mode))
      BY <2>2
    <3>2. [c \in ChunksOf[mode] |-> [status |-> "materialized", batch |-> None]]
            \in [ChunksOf[mode] -> ChunkRecord]
      BY DEF ChunkRecord, ChunkStatuses
    <3>3. NewRun(mode) \in Run
      BY <3>2, IsRun DEF NewRun, RunStatuses
    <3> QED
      BY <3>1, <3>3, BeginKeepsDone
  <2> QED
    BY <1>2, <2>1, <2>2 DEF extract
<1>3. ASSUME NEW r \in RunIds, resume(r)
      PROVE  KeepsDone /\ fingerprints' = fingerprints
  BY <1>3, BeginKeepsDone DEF resume, IInv, TypeOK
<1>4. CASE OperatorStep
  <2>1. CASE cancel \/ Interrupt \/ Crash
    BY <1>1, <2>1 DEF cancel, Interrupt, Crash, disk
  <2> QED
    BY <1>2, <1>3, <1>4, <2>1 DEF OperatorStep
<1>5. ASSUME NEW c \in Chunks, _process_chunk(c) \/ Collect(c)
      PROVE  KeepsDone /\ \A d \in Chunks : fingerprints[d] # None => fingerprints'[d] # None
  <2>1. CASE Collect(c)
    BY <1>1, <2>1 DEF Collect, disk
  <2>2. CASE _process_chunk(c)
    <3>1. KeepsDone /\ (fingerprints' = fingerprints \/ _remember_fingerprint(c))
      BY <2>2, ThreadKeepsDone
    <3>2. ASSUME _remember_fingerprint(c)
          PROVE  \A d \in Chunks : fingerprints[d] # None => fingerprints'[d] # None
      BY <3>2, AtWork, RunIdsAssumption DEF _remember_fingerprint, Working, IInv, TypeOK
    <3> QED
      BY <3>1, <3>2
  <2> QED
    BY <1>5, <2>1, <2>2
<1>6. CASE Finish
  BY <1>6, FinishKeepsDone
<1> QED
  BY <1>1, <1>4, <1>5, <1>6 DEF Next, ProcessStep, vars

-----------------------------------------------------------------------------
(* The inductive invariant holds of every reachable state.                 *)
THEOREM Invariance == Spec => []IInv
<1>1. Init => IInv
  BY InitIInv
<1>2. IInv /\ [Next]_vars => IInv'
  BY NextIInv
<1> QED
  BY <1>1, <1>2, PTL DEF Spec

(* The state file, the files on disk and the threads are always well       *)
(* formed: no interleaving of threads, error or crash leaves a record the  *)
(* next extract could not load.                                            *)
THEOREM TypeCorrect == Spec => []TypeOK
<1>1. IInv => TypeOK
  BY DEF IInv
<1> QED
  BY <1>1, Invariance, PTL

(* What _process_chunk calls completed or skipped is stored, whenever the  *)
(* process dies.                                                           *)
THEOREM DoneIsStored == Spec => []CompletedIsStored
<1>1. IInv => CompletedIsStored
  BY DEF IInv
<1> QED
  BY <1>1, Invariance, PTL

(* mark_chunk and extract call a run completed only when its chunks are.   *)
THEOREM CompletedMeansDone == Spec => []CompletedRunIsDone
<1>1. IInv => CompletedRunIsDone
  BY DEF IInv
<1> QED
  BY <1>1, Invariance, PTL

(* A batch saved as FAILED is never waited for again, by no retry and no   *)
(* other run.                                                              *)
THEOREM RefusedStayRefused == Spec => []RefusedIsNotPolled
<1>1. IInv => RefusedIsNotPolled
  BY AtWork DEF RefusedIsNotPolled, Working
<1> QED
  BY <1>1, Invariance, PTL

(* submit_file is never called for a chunk whose fingerprint is            *)
(* remembered.                                                             *)
THEOREM NothingIsPaidTwice == Spec => StoredIsNotUploaded
<1>1. IInv /\ [Next]_vars =>
        [\A c \in Chunks : uploads'[c] # uploads[c] => fingerprints[c] = None]_vars
  BY UploadStep
<1> QED
  BY <1>1, Invariance, PTL DEF Spec, StoredIsNotUploaded

(* No save of the state file takes back what an earlier one recorded.      *)
THEOREM NothingIsUndone == Spec => DoneStaysDone
<1>1. IInv /\ [Next]_vars =>
        [/\ \A r \in Runs : \A c \in Members(runs[r]) :
              runs[r].chunk[c].status \in Done => runs'[r].chunk[c] = runs[r].chunk[c]
         /\ \A c \in Chunks : fingerprints[c] # None => fingerprints'[c] # None]_vars
  BY DoneStep DEF KeepsDone
<1> QED
  BY <1>1, Invariance, PTL DEF Spec, DoneStaysDone
=============================================================================
