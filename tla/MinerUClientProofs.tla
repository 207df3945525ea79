------------------------- MODULE MinerUClientProofs -------------------------
(***************************************************************************)
(* Proofs about the client of the extraction service, for any number of    *)
(* attempts and any batches.                                               *)
(***************************************************************************)
EXTENDS MinerUClient, TLAPS

(* What the client knows at each stage, and why: before a batch is in hand *)
(* all that was created is lost; a batch that is polled has its file; one  *)
(* that is downloaded was extracted.                                       *)
InHand ==
  /\ stage = "submit" => batch = None /\ created = lost
  /\ stage \in {"put", "poll", "download"} =>
       /\ batch \in Batches /\ batch \notin lost
       /\ created = lost \cup {batch}
  /\ stage \in {"poll", "download"} => batch \in uploaded
  /\ stage = "download" => batch \in done

NoResultYet == stage # "end" => outcome = None

IInv == TypeOK /\ InHand /\ NoResultYet

LEMMA InitHolds == Init => IInv
<1> SUFFICES ASSUME Init PROVE IInv
  OBVIOUS
<1>1. TypeOK
  <2>1. attempt \in 1 .. MaxRetries
    BY ClientAssumption DEF Init
  <2>2. cancelled \in BOOLEAN /\ overdue \in BOOLEAN
    BY Zenon DEF Init
  <2> QED
    BY <2>1, <2>2 DEF Init, TypeOK
<1>2. InHand /\ NoResultYet
  BY DEF Init, InHand, NoResultYet
<1> QED
  BY <1>1, <1>2 DEF IInv

LEMMA StepKeeps == IInv /\ [Next]_vars => IInv'
<1> SUFFICES ASSUME IInv, [Next]_vars PROVE IInv'
  OBVIOUS
<1> USE ClientAssumption DEF IInv, TypeOK, InHand, NoResultYet, Results, clock, service
<1>1. CASE RaiseCancelled
  BY <1>1 DEF RaiseCancelled, End
<1>2. CASE CreateBatch
  <2>1. CASE (Transient \/ Refusal) /\ UNCHANGED <<service, clock>>
    BY <1>2, <2>1 DEF CreateBatch, Transient, Refusal, End
  <2>2. ASSUME NEW b \in Batches \ created, created' = created \cup {b},
               UNCHANGED <<uploaded, done, failed, clock>>,
               GoTo("put", b) /\ UNCHANGED lost
        PROVE  IInv'
    BY <1>2, <2>2 DEF CreateBatch, GoTo
  <2>3. ASSUME NEW b \in Batches \ created, created' = created \cup {b},
               UNCHANGED <<uploaded, done, failed, clock>>,
               (Transient \/ End("provider")) /\ lost' = lost \cup {b}
        PROVE  IInv'
    BY <1>2, <2>3 DEF CreateBatch, Transient, End
  <2> QED
    BY <1>2, <2>1, <2>2, <2>3 DEF CreateBatch
<1>3. CASE _put_file
  BY <1>3 DEF _put_file, GoTo, End
<1>4. CASE PollTimesOut
  BY <1>4 DEF PollTimesOut, End
<1>5. CASE poll_batch
  BY <1>5 DEF poll_batch, Transient, Refusal, GoTo, End
<1>6. CASE download_archive
  BY <1>6 DEF download_archive, End
<1>7. CASE ServiceEnds
  BY <1>7 DEF ServiceEnds
<1>8. CASE DeadlinePasses
  BY <1>8 DEF DeadlinePasses
<1>9. CASE Cancel
  BY <1>9 DEF Cancel
<1>10. CASE UNCHANGED vars
  BY <1>10 DEF vars
<1> QED
  BY <1>1, <1>2, <1>3, <1>4, <1>5, <1>6, <1>7, <1>8, <1>9, <1>10 DEF Next, Client

LEMMA Invariance == Spec => []IInv
<1>1. QED
  BY InitHolds, StepKeeps, PTL DEF Spec

(* TypeOK: no request is attempted more often than max_retries allows, and *)
(* the service has no file, and no result, of a batch it did not create.   *)
THEOREM TypeCorrect == Spec => []TypeOK
<1>1. IInv => TypeOK
  BY DEF IInv
<1> QED
  BY <1>1, Invariance, PTL

(* PaidTwiceOnlyUnknowing: whatever is lost, retried or cancelled, a second*)
(* batch is paid for only when the client cannot know of the first.        *)
THEOREM PaysKnowingly == Spec => []PaidTwiceOnlyUnknowing
<1>1. IInv => PaidTwiceOnlyUnknowing
  BY DEF IInv, InHand, PaidTwiceOnlyUnknowing
<1> QED
  BY <1>1, Invariance, PTL

-----------------------------------------------------------------------------
LEMMA InitImplements == Init => Call!Init
BY DEF Init, Call!Init, Phase

(* An error, at any stage, is an error of the call.                        *)
LEMMA EndRaises ==
  ASSUME IInv, NEW error \in Call!Errors, End(error), stage # "end",
         uploaded \subseteq uploaded', stage \notin {"submit", "put"} => uploaded' = uploaded,
         done' = done
  PROVE  Call!Raise(error)
BY DEF IInv, TypeOK, InHand, End, Call!Raise, Phase

LEMMA StepImplements == IInv /\ [Next]_vars => [Call!Next]_(Call!vars)
<1> SUFFICES ASSUME IInv, [Next]_vars PROVE [Call!Next]_(Call!vars)
  OBVIOUS
<1> USE DEF clock, service
<1>0. \A error \in Call!Errors : Call!Raise(error) => Call!Next
  BY DEF Call!Next
<1>1. CASE RaiseCancelled
  BY <1>0, <1>1, EndRaises DEF RaiseCancelled, Call!Errors
<1>2. CASE CreateBatch
  <2>1. stage = "submit" /\ UNCHANGED <<uploaded, done>>
    BY <1>2 DEF CreateBatch
  <2>2. CASE \E error \in Call!Errors : End(error)
    BY <1>0, <2>1, <2>2, EndRaises
  <2>3. CASE attempt' = attempt + 1 /\ UNCHANGED <<stage, batch, outcome>>
    BY <2>1, <2>3 DEF Call!vars
  <2>4. CASE \E b \in Batches : GoTo("put", b)
    BY <2>1, <2>4 DEF GoTo, Call!vars, Phase, IInv, InHand
  <2> QED
    BY <1>2, <2>2, <2>3, <2>4 DEF CreateBatch, Transient, Refusal, Call!Errors
<1>3. CASE _put_file
  <2>1. stage = "put" /\ done' = done
    BY <1>3 DEF _put_file
  <2>2. CASE GoTo("poll", batch) /\ uploaded' = uploaded \cup {batch}
    <3>1. batch \in Batches
      BY <2>1 DEF IInv, InHand
    <3>2. Call!Submitted(batch)
      BY <2>1, <2>2, <3>1 DEF GoTo, Call!Submitted, Phase
    <3> QED
      BY <3>1, <3>2 DEF Call!Next
  <2>3. CASE \E error \in {"provider", "other"} : End(error) /\ uploaded \subseteq uploaded'
    BY <1>0, <2>1, <2>3, EndRaises DEF Call!Errors
  <2> QED
    BY <1>3, <2>2, <2>3 DEF _put_file
<1>4. CASE PollTimesOut
  BY <1>0, <1>4, EndRaises DEF PollTimesOut, Call!Errors
<1>5. CASE poll_batch
  <2>1. stage = "poll" /\ UNCHANGED <<uploaded, done>>
    BY <1>5 DEF poll_batch
  <2>2. CASE \E error \in Call!Errors : End(error)
    BY <1>0, <2>1, <2>2, EndRaises
  <2>3. CASE attempt' = attempt + 1 /\ UNCHANGED <<stage, batch, outcome>>
    BY <2>1, <2>3 DEF Call!vars
  <2>4. CASE GoTo("poll", batch)
    BY <2>1, <2>4 DEF GoTo, Call!vars
  <2>5. CASE batch \in done /\ GoTo("download", batch)
    <3>1. Call!Polled
      BY <2>1, <2>5 DEF GoTo, Call!Polled, Phase
    <3> QED
      BY <3>1 DEF Call!Next
  <2> QED
    BY <1>5, <2>2, <2>3, <2>4, <2>5 DEF poll_batch, Transient, Refusal, Call!Errors
<1>6. CASE download_archive
  <2>1. stage = "download" /\ UNCHANGED <<uploaded, done>>
    BY <1>6 DEF download_archive
  <2>2. CASE End("ok")
    BY <2>1, <2>2 DEF End, Call!Downloaded, Call!Next, Phase
  <2>3. CASE \E error \in Call!Errors : End(error)
    BY <1>0, <2>1, <2>3, EndRaises
  <2> QED
    BY <1>6, <2>2, <2>3 DEF download_archive, Call!Errors
<1>7. CASE ServiceEnds
  <2>1. UNCHANGED <<stage, batch, outcome, uploaded>>
    BY <1>7 DEF ServiceEnds
  <2>2. CASE done' = done
    BY <2>1, <2>2 DEF Call!vars
  <2>3. CASE \E b \in uploaded : done' = done \cup {b}
    <3>1. PICK b \in uploaded : done' = done \cup {b}
      BY <2>3
    <3>2. b \in Batches
      BY <3>1 DEF IInv, TypeOK
    <3>3. Call!Extract(b)
      BY <2>1, <3>1 DEF Call!Extract
    <3> QED
      BY <3>2, <3>3 DEF Call!Next
  <2> QED
    BY <1>7, <2>2, <2>3 DEF ServiceEnds
<1>8. CASE DeadlinePasses
  BY <1>8 DEF DeadlinePasses, Call!vars
<1>9. CASE Cancel
  BY <1>9 DEF Cancel, Call!vars
<1>10. CASE UNCHANGED vars
  BY <1>10 DEF vars, Call!vars
<1> QED
  BY <1>1, <1>2, <1>3, <1>4, <1>5, <1>6, <1>7, <1>8, <1>9, <1>10 DEF Next, Client

(* ImplementsCall: seen by its caller, the client takes only the steps of  *)
(* ProviderCall: a batch is handed out with its file, a download follows an*)
(* extraction that ended well.                                             *)
THEOREM CallImplemented == Spec => ImplementsCall
<1>1. QED
  BY InitImplements, StepImplements, Invariance, PTL DEF Spec, ImplementsCall, Call!Spec
=============================================================================
