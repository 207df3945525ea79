---------------------------- MODULE ProviderCall ----------------------------
(***************************************************************************)
(* What the extraction of one chunk may rely on when it submits a file to  *)
(* the provider, polls its batch and downloads the archive, whatever       *)
(* happens to single requests (ingestion/ports.py).                        *)
(***************************************************************************)
CONSTANTS Batches, None

VARIABLES
  phase,     (* submitting, polling, downloading or ended                  *)
  batch,     (* the batch the caller knows                                 *)
  outcome,   (* None, ok or the kind of the error that was raised          *)
  ready,     (* the batches that have their file                           *)
  finished   (* the batches the provider has extracted                     *)

vars == <<phase, batch, outcome, ready, finished>>

Errors == {"cancelled", "auth", "quota", "timeout", "provider", "other"}

Init ==
  /\ phase = "submitting" /\ batch = None /\ outcome = None
  /\ ready = {} /\ finished = {}

(* A file may arrive without the caller hearing of it.                     *)
FileArrives(b) ==
  /\ phase = "submitting"
  /\ ready' = ready \cup {b}
  /\ UNCHANGED <<phase, batch, outcome, finished>>

Extract(b) ==
  /\ b \in ready
  /\ finished' = finished \cup {b}
  /\ UNCHANGED <<phase, batch, outcome, ready>>

(* The caller is given a batch only once its file is there.                *)
Submitted(b) ==
  /\ phase = "submitting"
  /\ phase' = "polling" /\ batch' = b
  /\ ready' = ready \cup {b}
  /\ UNCHANGED <<outcome, finished>>

Polled ==
  /\ phase = "polling" /\ batch \in finished
  /\ phase' = "downloading"
  /\ UNCHANGED <<batch, outcome, ready, finished>>

Downloaded ==
  /\ phase = "downloading"
  /\ phase' = "ended" /\ outcome' = "ok"
  /\ UNCHANGED <<batch, ready, finished>>

Raise(error) ==
  /\ phase # "ended"
  /\ phase' = "ended" /\ outcome' = error
  /\ batch' = batch
  /\ ready \subseteq ready' /\ (phase # "submitting" => ready' = ready)
  /\ UNCHANGED finished

Next ==
  \/ \E b \in Batches : FileArrives(b) \/ Extract(b) \/ Submitted(b)
  \/ Polled \/ Downloaded
  \/ \E error \in Errors : Raise(error)

Spec == Init /\ [][Next]_vars
=============================================================================
