---------------------------- MODULE MinerUClient ----------------------------
(***************************************************************************)
(* The client of the extraction service (ingestion/providers/mineru.py)    *)
(* while one chunk is submitted, polled and downloaded, as                 *)
(* ExtractionPipeline's worker does.                                       *)
(*                                                                         *)
(* A request is one step: it reaches the service or not, and its answer    *)
(* arrives or not.  Between requests the service extracts, the deadline    *)
(* passes and the caller cancels.  Waiting times are left out; bodies are  *)
(* what the client makes of them.                                          *)
(***************************************************************************)
EXTENDS Naturals

CONSTANTS
  MaxRetries,   (* max_retries: attempts of one request                    *)
  Batches,      (* names the service gives to batches                      *)
  None

ASSUME ClientAssumption == MaxRetries \in Nat \ {0} /\ None \notin Batches

VARIABLES
  stage,        (* submit, put, poll, download or end                      *)
  attempt,      (* of the request to the API                               *)
  batch, outcome,
  cancelled, overdue,
  created, uploaded, done, failed,   (* the service's batches              *)
  lost          (* history: created, and the answer never understood       *)

service == <<created, uploaded, done, failed, lost>>
clock == <<cancelled, overdue>>
vars == <<stage, attempt, batch, outcome, clock, service>>

Init ==
  /\ stage = "submit" /\ attempt = 1 /\ batch = None /\ outcome = None
  /\ cancelled = FALSE /\ overdue = FALSE
  /\ created = {} /\ uploaded = {} /\ done = {} /\ failed = {} /\ lost = {}

(* An error of submit_file leaves the caller without a batch.              *)
End(result) ==
  /\ stage' = "end" /\ outcome' = result /\ attempt' = 1
  /\ batch' = IF stage \in {"submit", "put"} THEN None ELSE batch

GoTo(next, b) == stage' = next /\ attempt' = 1 /\ batch' = b /\ UNCHANGED outcome

(* _api_json: network errors, 429, 5xx and transient codes are retried.    *)
Transient ==
  IF attempt = MaxRetries THEN End("provider")
  ELSE attempt' = attempt + 1 /\ UNCHANGED <<stage, batch, outcome>>

(* Invalid tokens, quotas and other refusals are not; nor is a body that   *)
(* is not JSON, which is raised from within the loop.                      *)
Refusal == \E error \in {"auth", "quota", "provider"} : End(error)

(* raise_if_cancelled, before every request                                *)
RaiseCancelled ==
  /\ stage # "end" /\ cancelled
  /\ End("cancelled")
  /\ UNCHANGED <<clock, service>>

(* The first request of submit_file: a batch may be created without the    *)
(* client understanding the answer.                                        *)
CreateBatch ==
  /\ stage = "submit" /\ ~cancelled
  /\ \/ (Transient \/ Refusal) /\ UNCHANGED service
     \/ \E b \in Batches \ created :
          /\ created' = created \cup {b}
          /\ \/ GoTo("put", b) /\ UNCHANGED lost
             \/ (Transient \/ End("provider")) /\ lost' = lost \cup {b}
          /\ UNCHANGED <<uploaded, done, failed>>
  /\ UNCHANGED clock

(* Fault: an upload that fails is tried again with a new batch.            *)
putOrCreateAgain ==
  /\ stage = "put" /\ ~cancelled
  /\ \/ GoTo("poll", batch) /\ uploaded' = uploaded \cup {batch}
     \/ GoTo("submit", None) /\ UNCHANGED uploaded
     \/ End("other") /\ UNCHANGED uploaded
  /\ UNCHANGED <<created, done, failed, lost, clock>>

(* Fault: the answer of the upload is not looked at.                       *)
putUnchecked ==
  /\ stage = "put" /\ ~cancelled
  /\ GoTo("poll", batch) /\ uploaded' \in {uploaded, uploaded \cup {batch}}
  /\ UNCHANGED <<created, done, failed, lost, clock>>

(* _put_file: not retried; the file may have arrived and the answer not.   *)
_put_file ==
  /\ stage = "put" /\ ~cancelled
  /\ \/ GoTo("poll", batch) /\ uploaded' = uploaded \cup {batch}
     \/ End("provider") /\ uploaded' \in {uploaded, uploaded \cup {batch}}
     \/ End("other") /\ UNCHANGED uploaded
  /\ UNCHANGED <<created, done, failed, lost, clock>>

(* Fault: the deadline is not looked at.                                   *)
noDeadline == FALSE

(* The deadline is looked at before a poll, not between its attempts.      *)
DeadlineReached == overdue /\ attempt = 1

PollTimesOut ==
  /\ stage = "poll" /\ ~cancelled /\ DeadlineReached
  /\ End("timeout")
  /\ UNCHANGED <<clock, service>>

poll_batch ==
  /\ stage = "poll" /\ ~cancelled /\ ~DeadlineReached
  /\ \/ Transient
     \/ Refusal
     \/ batch \notin done \cup failed /\ GoTo("poll", batch)
     \/ batch \in failed /\ End("provider")
     \/ batch \in done /\ (GoTo("download", batch) \/ End("provider"))
  /\ UNCHANGED <<clock, service>>

download_archive ==
  /\ stage = "download" /\ ~cancelled
  /\ \E result \in {"ok", "provider", "other"} : End(result)
  /\ UNCHANGED <<clock, service>>

-----------------------------------------------------------------------------
(* The service extracts what was uploaded; it need not come to an end.     *)
ServiceEnds ==
  /\ \E b \in uploaded \ (done \cup failed) :
       \/ done' = done \cup {b} /\ UNCHANGED failed
       \/ failed' = failed \cup {b} /\ UNCHANGED done
  /\ UNCHANGED <<stage, attempt, batch, outcome, clock, created, uploaded, lost>>

DeadlinePasses ==
  /\ ~overdue /\ overdue' = TRUE
  /\ UNCHANGED <<stage, attempt, batch, outcome, cancelled, service>>

Cancel ==
  /\ stage # "end" /\ ~cancelled /\ cancelled' = TRUE
  /\ UNCHANGED <<stage, attempt, batch, outcome, overdue, service>>

Client == RaiseCancelled \/ CreateBatch \/ _put_file \/ PollTimesOut \/ poll_batch \/ download_archive

Next == Client \/ ServiceEnds \/ DeadlinePasses \/ Cancel

(* Requests have a timeout and time passes; nothing makes the service work.*)
Spec == Init /\ [][Next]_vars /\ WF_vars(Client) /\ WF_vars(DeadlinePasses)

-----------------------------------------------------------------------------
Results == {"ok", "cancelled", "auth", "quota", "timeout", "provider", "other"}

(* No request is attempted more than MaxRetries times.                     *)
TypeOK ==
  /\ stage \in {"submit", "put", "poll", "download", "end"}
  /\ attempt \in 1 .. MaxRetries
  /\ batch \in Batches \cup {None}
  /\ outcome \in Results \cup {None}
  /\ cancelled \in BOOLEAN /\ overdue \in BOOLEAN
  /\ created \subseteq Batches /\ uploaded \subseteq created /\ lost \subseteq created
  /\ done \subseteq uploaded /\ failed \subseteq uploaded

(* While a batch is in hand, every other batch that was created is one     *)
(* whose answer the client never understood: submitting pays for a second  *)
(* batch only when it cannot know of the first.                            *)
PaidTwiceOnlyUnknowing ==
  stage \in {"put", "poll", "download"} => created = lost \cup {batch} /\ batch \notin lost

(* Every call comes to its end, also when the service never finishes a     *)
(* batch or fails each request.                                            *)
CallEnds == <>(stage = "end")

Phase == [submit |-> "submitting", put |-> "submitting", poll |-> "polling",
          download |-> "downloading", end |-> "ended"]

Call == INSTANCE ProviderCall WITH
  phase <- Phase[stage],
  batch <- IF stage = "put" THEN None ELSE batch,
  ready <- uploaded,
  finished <- done

(* Through lost answers, retries and cancellation the client does what its *)
(* caller relies on: a batch is handed out only with its file, a download  *)
(* follows only an extraction that ended well.                             *)
ImplementsCall == Call!Spec
=============================================================================
