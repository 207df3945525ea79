---------------------------- MODULE LocalPublish ----------------------------
(***************************************************************************)
(* Publication of the local corpus (packages/marx_engels/storage/          *)
(* local_publish.py): the read-only seed is copied over the runtime        *)
(* database, the copy is marked published in one transaction, checked, and *)
(* a sidecar file records that the initialization is complete.             *)
(*                                                                         *)
(* The database file is overwritten where it lies, and SQLite keeps        *)
(* committed pages in a write-ahead log beside it until the last           *)
(* connection closes.  A crash leaves both; whoever opens the file next    *)
(* sees the log's pages on top of whatever the file holds by then.         *)
(*                                                                         *)
(* One initialization runs at a time.  Readers open and close connections  *)
(* beside it; what they find is Content.                                   *)
(***************************************************************************)
CONSTANTS
  Versions,  (* data versions: a seed, its digest and its asset manifest   *)
  None

ASSUME VersionsAssumption == None \notin Versions

VARIABLES
  seed,      (* version of the seed file; None if missing or not intact    *)
  manifest,  (* version that manifest and digest file are tracked at       *)
  file,      (* the runtime database file                                  *)
  wal,       (* version whose publication the log holds, or None           *)
  sidecar,   (* data_version and seed digest of local_release.json         *)
  pc,        (* where init_local_corpus is                                 *)
  spec,      (* the manifest it has read                                   *)
  report     (* what the last initialization returned or raised            *)

store == <<file, wal, sidecar>>
asset == <<seed, manifest>>
vars == <<seed, manifest, file, wal, sidecar, pc, spec, report>>

-----------------------------------------------------------------------------
OptionalVersion == Versions \cup {None}
Missing == [version |-> None, status |-> "missing"]
Torn == [version |-> None, status |-> "torn"]     (* copied in part        *)
Mixed(v) == [version |-> v, status |-> "mixed"]   (* v's log over another  *)
Draft(v) == [version |-> v, status |-> "draft"]
Published(v) == [version |-> v, status |-> "published"]
Databases == {Missing, Torn} \cup {Draft(v) : v \in Versions}
               \cup {Published(v) : v \in Versions} \cup {Mixed(v) : v \in Versions}

(* duplicate_event is the IntegrityError of a second publication event;    *)
(* unreadable is any other error of SQLite, io_error one of the copy.      *)
Outcomes == {"none", "initialized", "already_initialized", "refused", "unreadable",
             "io_error", "duplicate_event"}
Reports == [outcome : Outcomes, version : OptionalVersion]
Steps == {"idle", "copying", "copied", "committed", "closed", "checked"}

(* What a connection sees: the log's pages replace those of the file, also *)
(* when the file is no longer the one the log was written for.             *)
Content ==
  IF wal = None \/ file = Missing THEN file
  ELSE IF file \in {Draft(wal), Published(wal)} THEN Published(wal)
  ELSE Mixed(wal)

(* Fault: the connection is never closed, its log stays.                   *)
leaked == UNCHANGED <<file, wal>>

(* The last connection to close writes the log into the file.  A file that *)
(* is still empty has its log deleted instead.                             *)
lastClosed ==
  /\ wal' = None
  /\ file' = Content \/ (file = Torn /\ UNCHANGED file)

(* The publisher closes its connection; a reader may still have one.       *)
closed == lastClosed \/ UNCHANGED <<file, wal>>

(* _assert_connection_matches_spec: integrity, counts, identifiers and     *)
(* hashes are those of one whole database of this version.                 *)
MatchesSpec(database, v) == database \in {Draft(v), Published(v)}

Ends(outcome, v) ==
  /\ pc' = "idle" /\ spec' = None
  /\ report' = [outcome |-> outcome, version |-> v]

Fails(outcomes) == \E o \in outcomes : Ends(o, None)

-----------------------------------------------------------------------------
(* verify_seed_file refuses, before anything is touched.                   *)
RefuseSeed ==
  /\ pc = "idle" /\ seed # manifest
  /\ Fails({"refused"})
  /\ UNCHANGED <<asset, store>>

(* Fault: any sidecar will do.                                             *)
anySidecar == sidecar # None

SidecarFits == sidecar = manifest

(* Fault: a database without a fitting sidecar is cleared away.            *)
discardIncomplete ==
  /\ pc = "idle" /\ seed = manifest /\ file # Missing
  /\ IF ~SidecarFits
     THEN Fails({"refused"}) /\ file' = Missing /\ UNCHANGED wal
     ELSE /\ closed
          /\ IF Content = Published(manifest) THEN Ends("already_initialized", manifest)
             ELSE Fails({"refused", "unreadable"})
  /\ UNCHANGED <<asset, sidecar>>

(* Without --replace a database that is there is checked and kept.         *)
_require_complete_sidecar ==
  /\ pc = "idle" /\ seed = manifest /\ file # Missing
  /\ IF ~SidecarFits
     THEN Fails({"refused"}) /\ UNCHANGED <<file, wal>>
     ELSE /\ closed
          /\ IF Content = Published(manifest) THEN Ends("already_initialized", manifest)
             ELSE IF Content = Draft(manifest) THEN Fails({"refused"})
             ELSE Fails({"refused", "unreadable"})
  /\ UNCHANGED <<asset, sidecar>>

(* Opening the target for the copy truncates it; the log and the sidecar   *)
(* of the database before stay where they are.                             *)
StartCopy(replace) ==
  /\ pc = "idle" /\ seed = manifest
  /\ replace \/ file = Missing
  /\ file' = Torn
  /\ pc' = "copying"
  /\ spec' = manifest
  /\ report' = [outcome |-> "none", version |-> None]
  /\ UNCHANGED <<asset, wal, sidecar>>

init_local_corpus(replace) ==
  \/ RefuseSeed
  \/ ~replace /\ _require_complete_sidecar
  \/ StartCopy(replace)

(* The copy has the seed's digest, and so has the seed.                    *)
CopyEnds ==
  /\ pc = "copying"
  /\ file' = Draft(spec)
  /\ IF seed = spec
     THEN pc' = "copied" /\ UNCHANGED <<spec, report>>
     ELSE Fails({"refused"})
  /\ UNCHANGED <<asset, wal, sidecar>>

(* The seed, or the target, was written to during the copy.                *)
CopyDrifts ==
  /\ pc = "copying"
  /\ seed # spec \/ file # Torn
  /\ file' = Missing
  /\ Fails({"refused"})
  /\ UNCHANGED <<asset, wal, sidecar>>

CopyFails ==
  /\ pc = "copying"
  /\ Fails({"io_error"})
  /\ UNCHANGED <<asset, store>>

(* The event has a fixed key, so what was published cannot be again.       *)
_publish_runtime ==
  /\ pc = "copied"
  /\ IF ~MatchesSpec(Content, spec)
     THEN closed /\ Fails({"refused", "unreadable"})
     ELSE IF Content = Published(spec)
     THEN closed /\ Fails({"duplicate_event"})
     ELSE wal' = spec /\ pc' = "committed" /\ UNCHANGED <<file, spec, report>>
  /\ UNCHANGED <<asset, sidecar>>

CloseRuntime ==
  /\ pc = "committed"
  /\ closed
  /\ pc' = "closed"
  /\ UNCHANGED <<asset, sidecar, spec, report>>

(* assert_sqlite_matches_spec, and a last look at the seed.                *)
CheckPublished ==
  /\ pc = "closed"
  /\ closed
  /\ IF Content = Published(spec) /\ seed = spec
     THEN pc' = "checked" /\ UNCHANGED <<spec, report>>
     ELSE Fails({"refused"})
  /\ UNCHANGED <<asset, sidecar>>

WriteSidecar ==
  /\ pc = "checked"
  /\ sidecar' = spec
  /\ Ends("initialized", spec)
  /\ UNCHANGED <<asset, file, wal>>

-----------------------------------------------------------------------------
(* The operator obtains a seed or checks out another manifest.             *)
ChangeAsset ==
  /\ seed' \in OptionalVersion
  /\ manifest' \in Versions
  /\ UNCHANGED <<store, pc, spec, report>>

(* The process dies; the files stay as they are.                           *)
Crash ==
  /\ pc # "idle"
  /\ Fails({"none"})
  /\ UNCHANGED <<asset, store>>

(* A reader closes the database, and nobody else has it open.              *)
ReaderCloses ==
  /\ wal # None /\ file # Missing /\ pc # "committed"
  /\ lastClosed
  /\ UNCHANGED <<asset, sidecar, pc, spec, report>>

Init ==
  /\ seed = None
  /\ manifest \in Versions
  /\ file = Missing /\ wal = None /\ sidecar = None
  /\ pc = "idle" /\ spec = None
  /\ report = [outcome |-> "none", version |-> None]

PublisherStep ==
  \/ CopyEnds \/ CopyDrifts \/ CopyFails \/ _publish_runtime
  \/ CloseRuntime \/ CheckPublished \/ WriteSidecar

Next ==
  \/ \E replace \in BOOLEAN : init_local_corpus(replace)
  \/ PublisherStep
  \/ ChangeAsset \/ Crash \/ ReaderCloses

(* The process goes on until it ends, and readers do not have the database *)
(* open at every moment for ever.  A torn file may keep its log: closing   *)
(* fails there.  The operator owes nothing.                                *)
Fairness == WF_vars(PublisherStep) /\ SF_vars(ReaderCloses /\ file # Torn)

Spec == Init /\ [][Next]_vars /\ Fairness

-----------------------------------------------------------------------------
TypeOK ==
  /\ seed \in OptionalVersion /\ manifest \in Versions
  /\ file \in Databases /\ wal \in OptionalVersion /\ sidecar \in OptionalVersion
  /\ pc \in Steps /\ spec \in OptionalVersion
  /\ report \in Reports
  /\ pc = "idle" <=> spec = None

(* What the command reports is so: after "initialized" and "already        *)
(* initialized" the database is the whole published corpus of the version  *)
(* reported and the sidecar names it, whatever was left by earlier crashes *)
(* or was exchanged during the command.                                    *)
ReportIsTrue ==
  report.outcome \in {"initialized", "already_initialized"} =>
    Content = Published(report.version) /\ sidecar = report.version

(* A database that another initialization had finished stays servable      *)
(* until someone replaces it: no refused command, no crash of a command    *)
(* that has not begun to copy and no change of the seed takes it away.     *)
OnlyReplaceUnpublishes ==
  [][\A v \in Versions :
       Content = Published(v) /\ Content' # Published(v) => pc' = "copying"]_vars

(* An operator who goes on replacing from an intact seed, as the error     *)
(* messages advise, ends with an initialized corpus, whatever earlier      *)
(* crashes left behind.                                                    *)
Mishap == Crash \/ CopyFails \/ ChangeAsset
RetryHeals ==
  (<>[][~Mishap]_vars /\ []<><<StartCopy(TRUE)>>_vars) => <>(report.outcome = "initialized")

(* Doc local_publish.py:158: "Re-run init-local-corpus with --replace".    *)
(* The advice is followed and does not end in an exception of its own.     *)
ReplaceIsRemedy == report.outcome # "duplicate_event"
=============================================================================
