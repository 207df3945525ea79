-------------------------- MODULE ExactSearchProofs --------------------------
(***************************************************************************)
(* What LocalPublish.cfg checks for two data versions, and ExactSearch.cfg *)
(* for one request and two versions, proved for any of them, for any       *)
(* passages and page size.                                                 *)
(*                                                                         *)
(* Publication: what a connection sees is Content, a function of the file  *)
(* and the log; the argument is that closing a connection does not change  *)
(* it where it is a published corpus, that a publication begins from a     *)
(* draft without a log, and that while the copy runs nothing published is  *)
(* there to lose.                                                          *)
(*                                                                         *)
(* Requests: the publication runs beside them as it runs alone, so that    *)
(* its invariant holds here too; a request that nothing disturbed has seen *)
(* one version, or the log of one, from its release check to its end.      *)
(***************************************************************************)
EXTENDS ExactSearch, FiniteSetTheorems, TLAPS

(* While the command runs it has not reported yet; while it copies the     *)
(* file is no database; once it has committed, a connection sees what it   *)
(* published.                                                              *)
RunningIsSilent == pc # "idle" => report.outcome = "none"
Unusable == {Torn} \cup {Mixed(v) : v \in Versions}
CopyIsNoDatabase == pc = "copying" => file \in Unusable
CommittedIsSeen == pc \in {"committed", "closed", "checked"} => Content = Published(spec)

IInv == TypeOK /\ ReportIsTrue /\ RunningIsSilent /\ CopyIsNoDatabase /\ CommittedIsSeen

-----------------------------------------------------------------------------
(* The states of a database are told apart by their status.                *)
LEMMA DatabasesDiffer ==
  ASSUME NEW u, NEW v
  PROVE  /\ Published(u) \notin {Missing, Torn, Mixed(v), Draft(v)}
         /\ Draft(u) \notin {Missing, Torn, Mixed(v)}
         /\ Mixed(u) \notin {Missing, Torn} /\ Torn # Missing
         /\ Published(u) = Published(v) <=> u = v
         /\ Draft(u) = Draft(v) <=> u = v
<1>1. /\ Published(u).status = "published" /\ Published(v).status = "published"
      /\ Published(u).version = u /\ Published(v).version = v
      /\ Draft(u).status = "draft" /\ Draft(v).status = "draft"
      /\ Draft(u).version = u /\ Draft(v).version = v
      /\ Mixed(u).status = "mixed" /\ Mixed(v).status = "mixed"
      /\ Missing.status = "missing" /\ Torn.status = "torn"
  BY DEF Published, Draft, Missing, Torn, Mixed
<1> QED BY <1>1

(* What a connection sees is a database state again.                       *)
LEMMA ContentIsDatabase == TypeOK => Content \in Databases
BY DEF TypeOK, Content, Databases, OptionalVersion

(* A torn or a mixed file is nothing published, whatever the log holds.    *)
LEMMA NoDatabaseNoContent ==
  ASSUME TypeOK, file \in Unusable
  PROVE  /\ Content \in Unusable
         /\ \A v : Content # Published(v)
<1>1. Content \in Unusable
  BY DatabasesDiffer DEF Content, Unusable, TypeOK, OptionalVersion
<1> QED BY <1>1, DatabasesDiffer DEF Unusable

(* Whoever closes, a published corpus is seen as before.                   *)
LEMMA CloseKeepsPublished ==
  ASSUME TypeOK, NEW v, Content = Published(v), closed
  PROVE  Content' = Published(v)
<1>1. CASE UNCHANGED <<file, wal>>
  BY <1>1 DEF Content
<1>2. CASE lastClosed
  <2>1. file # Torn
    BY NoDatabaseNoContent DEF Unusable
  <2>2. file' = Content /\ wal' = None
    BY <1>2, <2>1 DEF lastClosed
  <2> QED BY <2>2 DEF Content
<1> QED BY <1>1, <1>2 DEF closed

(* A draft is seen only where there is no log.                             *)
LEMMA DraftHasNoLog ==
  ASSUME TypeOK, NEW v, Content = Draft(v)
  PROVE  wal = None /\ file = Draft(v)
BY DatabasesDiffer DEF Content

-----------------------------------------------------------------------------
(* Every step leaves the variables in their types.                         *)
LEMMA CloseKeepsType ==
  ASSUME TypeOK, closed
  PROVE  file' \in Databases /\ wal' \in OptionalVersion
BY ContentIsDatabase DEF TypeOK, closed, lastClosed, OptionalVersion

LEMMA FailsIsIdle ==
  ASSUME NEW O \in SUBSET Outcomes, Fails(O)
  PROVE  /\ pc' = "idle" /\ spec' = None
         /\ \E o \in O : report' = [outcome |-> o, version |-> None]
         /\ report' \in Reports
BY DEF Fails, Ends, Reports, OptionalVersion

THEOREM TypeInit == Init => TypeOK
BY DEF Init, TypeOK, OptionalVersion, Databases, Steps, Reports, Outcomes

LEMMA TypeStep == TypeOK /\ [Next]_vars => TypeOK'
<1> SUFFICES ASSUME TypeOK, [Next]_vars PROVE TypeOK'
  OBVIOUS
<1>1. ASSUME pc' = "idle", spec' = None, report' \in Reports,
             UNCHANGED asset, file' \in Databases, wal' \in OptionalVersion,
             sidecar' \in OptionalVersion
      PROVE  TypeOK'
  BY <1>1 DEF TypeOK, asset, Steps, OptionalVersion
<1>2. CASE RefuseSeed
  <2>1. Fails({"refused"}) /\ UNCHANGED <<asset, store>>
    BY <1>2 DEF RefuseSeed
  <2> QED BY <2>1, <1>1, FailsIsIdle DEF TypeOK, store, Outcomes
<1>3. CASE _require_complete_sidecar
  <2>1. file' \in Databases /\ wal' \in OptionalVersion
    BY <1>3, CloseKeepsType DEF _require_complete_sidecar, TypeOK
  <2>2. UNCHANGED <<asset, sidecar>>
    BY <1>3 DEF _require_complete_sidecar
  <2>3. pc' = "idle" /\ spec' = None /\ report' \in Reports
    <3>1. CASE Fails({"refused"}) \/ Fails({"refused", "unreadable"})
      BY <3>1, FailsIsIdle DEF Outcomes
    <3>2. CASE Ends("already_initialized", manifest)
      BY <3>2 DEF Ends, Reports, Outcomes, OptionalVersion, TypeOK
    <3> QED BY <1>3, <3>1, <3>2 DEF _require_complete_sidecar
  <2> QED BY <2>1, <2>2, <2>3, <1>1 DEF TypeOK
<1>4. ASSUME NEW replace \in BOOLEAN, StartCopy(replace) PROVE TypeOK'
  BY <1>4, VersionsAssumption
  DEF StartCopy, TypeOK, asset, Databases, Steps, Reports, Outcomes, OptionalVersion
<1>5. CASE CopyEnds
  <2>1. file' \in Databases
    BY <1>5 DEF CopyEnds, TypeOK, Databases, OptionalVersion
  <2>2. UNCHANGED <<asset, wal, sidecar>>
    BY <1>5 DEF CopyEnds
  <2>3. CASE Fails({"refused"})
    BY <2>1, <2>2, <2>3, <1>1, FailsIsIdle DEF TypeOK, Outcomes
  <2>4. CASE pc' = "copied" /\ UNCHANGED <<spec, report>>
    BY <1>5, <2>1, <2>2, <2>4 DEF CopyEnds, TypeOK, asset, Steps
  <2> QED BY <1>5, <2>3, <2>4 DEF CopyEnds
<1>6. CASE CopyDrifts
  <2>1. /\ Fails({"refused"}) /\ UNCHANGED <<asset, wal, sidecar>>
        /\ file' \in Databases
    BY <1>6 DEF CopyDrifts, Databases
  <2> QED BY <2>1, <1>1, FailsIsIdle DEF TypeOK, Outcomes
<1>7. CASE CopyFails
  <2>1. Fails({"io_error"}) /\ UNCHANGED <<asset, store>>
    BY <1>7 DEF CopyFails
  <2> QED BY <2>1, <1>1, FailsIsIdle DEF TypeOK, store, Outcomes
<1>8. CASE _publish_runtime
  <2>1. UNCHANGED <<asset, sidecar>>
    BY <1>8 DEF _publish_runtime
  <2>2. ASSUME closed, Fails({"refused", "unreadable"}) \/ Fails({"duplicate_event"})
        PROVE  TypeOK'
    BY <2>1, <2>2, <1>1, FailsIsIdle, CloseKeepsType DEF TypeOK, Outcomes
  <2>3. CASE wal' = spec /\ pc' = "committed" /\ UNCHANGED <<file, spec, report>>
    BY <1>8, <2>1, <2>3 DEF _publish_runtime, TypeOK, asset, Steps
  <2> QED BY <1>8, <2>2, <2>3 DEF _publish_runtime
<1>9. CASE CloseRuntime
  <2>1. file' \in Databases /\ wal' \in OptionalVersion
    BY <1>9, CloseKeepsType DEF CloseRuntime
  <2> QED BY <1>9, <2>1 DEF CloseRuntime, TypeOK, asset, Steps
<1>10. CASE CheckPublished
  <2>1. file' \in Databases /\ wal' \in OptionalVersion
    BY <1>10, CloseKeepsType DEF CheckPublished
  <2>2. UNCHANGED <<asset, sidecar>>
    BY <1>10 DEF CheckPublished
  <2>3. CASE Fails({"refused"})
    BY <2>1, <2>2, <2>3, <1>1, FailsIsIdle DEF TypeOK, Outcomes
  <2>4. CASE pc' = "checked" /\ UNCHANGED <<spec, report>>
    BY <1>10, <2>1, <2>2, <2>4 DEF CheckPublished, TypeOK, asset, Steps
  <2> QED BY <1>10, <2>3, <2>4 DEF CheckPublished
<1>11. CASE WriteSidecar
  <2>1. sidecar' = spec /\ Ends("initialized", spec) /\ UNCHANGED <<asset, file, wal>>
    BY <1>11 DEF WriteSidecar
  <2>2. report' \in Reports
    BY <2>1 DEF Ends, Reports, Outcomes, TypeOK
  <2> QED BY <2>1, <2>2, <1>1 DEF Ends, TypeOK
<1>12. CASE ChangeAsset
  BY <1>12 DEF ChangeAsset, TypeOK, store
<1>13. CASE Crash
  <2>1. Fails({"none"}) /\ UNCHANGED <<asset, store>>
    BY <1>13 DEF Crash
  <2> QED BY <2>1, <1>1, FailsIsIdle DEF TypeOK, store, Outcomes
<1>14. CASE ReaderCloses
  <2>1. closed
    BY <1>14 DEF ReaderCloses, closed
  <2> QED BY <1>14, <2>1, CloseKeepsType DEF ReaderCloses, TypeOK, asset
<1>15. CASE UNCHANGED vars
  BY <1>15 DEF TypeOK, vars
<1> QED BY <1>2, <1>3, <1>4, <1>5, <1>6, <1>7, <1>8, <1>9, <1>10, <1>11,
           <1>12, <1>13, <1>14, <1>15 DEF Next, init_local_corpus, PublisherStep

(* File, log, sidecar and report are well formed whatever the order of     *)
(* commands, crashes, readers and changes of the seed.                     *)
THEOREM TypeCorrect == Spec => []TypeOK
BY TypeInit, TypeStep, PTL DEF Spec

-----------------------------------------------------------------------------
(* A step that ends without success leaves nothing to be shown.            *)
LEMMA FailureIsTrue ==
  ASSUME NEW O \in SUBSET (Outcomes \ {"initialized", "already_initialized"}), Fails(O)
  PROVE  ReportIsTrue' /\ RunningIsSilent' /\ CopyIsNoDatabase' /\ CommittedIsSeen'
<1>1. PICK o \in O : pc' = "idle" /\ report' = [outcome |-> o, version |-> None]
  BY DEF Fails, Ends
<1> QED BY <1>1 DEF ReportIsTrue, RunningIsSilent, CopyIsNoDatabase, CommittedIsSeen

(* What was published is seen after a step that touches neither file nor   *)
(* log.                                                                    *)
LEMMA SameStoreSameContent ==
  ASSUME UNCHANGED <<file, wal>>
  PROVE  Content' = Content
BY DEF Content

(* The publication adds the log to a draft that has none.                  *)
LEMMA PublishingIsSeen ==
  ASSUME TypeOK, pc # "idle", MatchesSpec(Content, spec), Content # Published(spec),
         wal' = spec, UNCHANGED <<file, spec>>
  PROVE  Content' = Published(spec')
<1>1. file = Draft(spec)
  BY DraftHasNoLog DEF MatchesSpec, TypeOK, OptionalVersion
<1>2. spec # None
  BY DEF TypeOK
<1> QED BY <1>1, <1>2, DatabasesDiffer DEF Content

-----------------------------------------------------------------------------
THEOREM InvInit == Init => IInv
<1> SUFFICES ASSUME Init PROVE IInv
  OBVIOUS
<1>1. TypeOK
  BY TypeInit
<1> QED BY <1>1 DEF Init, IInv, ReportIsTrue, RunningIsSilent, CopyIsNoDatabase, CommittedIsSeen

THEOREM InvStep == IInv /\ [Next]_vars => IInv'
<1> SUFFICES ASSUME IInv, [Next]_vars PROVE IInv'
  OBVIOUS
<1> USE DEF IInv
<1>0. TypeOK'
  BY TypeStep
<1>1. CASE RefuseSeed
  BY <1>0, <1>1, FailureIsTrue DEF RefuseSeed, Outcomes
<1>2. CASE _require_complete_sidecar
  <2>1. CASE Fails({"refused"}) \/ Fails({"refused", "unreadable"})
    BY <1>0, <2>1, FailureIsTrue DEF Outcomes
  <2>2. CASE /\ SidecarFits /\ closed /\ Content = Published(manifest)
             /\ Ends("already_initialized", manifest) /\ UNCHANGED sidecar
    <3>1. Content' = Published(manifest)
      BY <2>2, CloseKeepsPublished
    <3>2. pc' = "idle" /\ report'.version = manifest /\ sidecar' = manifest
      BY <2>2 DEF Ends, SidecarFits
    <3> QED BY <1>0, <3>1, <3>2
            DEF ReportIsTrue, RunningIsSilent, CopyIsNoDatabase, CommittedIsSeen
  <2> QED BY <1>2, <2>1, <2>2 DEF _require_complete_sidecar
<1>3. ASSUME NEW replace \in BOOLEAN, StartCopy(replace) PROVE IInv'
  BY <1>0, <1>3
  DEF StartCopy, Unusable, ReportIsTrue, RunningIsSilent, CopyIsNoDatabase, CommittedIsSeen
<1>4. CASE CopyEnds
  <2>1. CASE Fails({"refused"})
    BY <1>0, <2>1, FailureIsTrue DEF Outcomes
  <2>2. CASE pc = "copying" /\ pc' = "copied" /\ UNCHANGED <<spec, report>>
    BY <1>0, <2>2 DEF ReportIsTrue, RunningIsSilent, CopyIsNoDatabase, CommittedIsSeen
  <2> QED BY <1>4, <2>1, <2>2 DEF CopyEnds
<1>5. CASE CopyDrifts
  BY <1>0, <1>5, FailureIsTrue DEF CopyDrifts, Outcomes
<1>6. CASE CopyFails
  BY <1>0, <1>6, FailureIsTrue DEF CopyFails, Outcomes
<1>7. CASE _publish_runtime
  <2>1. CASE Fails({"refused", "unreadable"}) \/ Fails({"duplicate_event"})
    BY <1>0, <2>1, FailureIsTrue DEF Outcomes
  <2>2. CASE /\ pc = "copied" /\ MatchesSpec(Content, spec) /\ Content # Published(spec)
             /\ wal' = spec /\ pc' = "committed" /\ UNCHANGED <<file, spec, report>>
    <3>1. Content' = Published(spec')
      BY <2>2, PublishingIsSeen
    <3> QED BY <1>0, <2>2, <3>1
            DEF ReportIsTrue, RunningIsSilent, CopyIsNoDatabase, CommittedIsSeen
  <2> QED BY <1>7, <2>1, <2>2 DEF _publish_runtime
<1>8. CASE CloseRuntime
  <2>1. Content' = Published(spec')
    BY <1>8, CloseKeepsPublished DEF CloseRuntime, CommittedIsSeen
  <2> QED BY <1>0, <1>8, <2>1
          DEF CloseRuntime, ReportIsTrue, RunningIsSilent, CopyIsNoDatabase, CommittedIsSeen
<1>9. CASE CheckPublished
  <2>1. CASE Fails({"refused"})
    BY <1>0, <2>1, FailureIsTrue DEF Outcomes
  <2>2. CASE pc' = "checked" /\ UNCHANGED <<spec, report>>
    <3>1. Content' = Published(spec')
      BY <1>9, <2>2, CloseKeepsPublished DEF CheckPublished, CommittedIsSeen
    <3> QED BY <1>0, <1>9, <2>2, <3>1
            DEF CheckPublished, ReportIsTrue, RunningIsSilent, CopyIsNoDatabase, CommittedIsSeen
  <2> QED BY <1>9, <2>1, <2>2 DEF CheckPublished
<1>10. CASE WriteSidecar
  <2>1. Content' = Published(spec)
    BY <1>10, SameStoreSameContent DEF WriteSidecar, CommittedIsSeen
  <2>2. pc' = "idle" /\ report'.version = spec /\ sidecar' = spec
    BY <1>10 DEF WriteSidecar, Ends
  <2> QED BY <1>0, <2>1, <2>2
          DEF ReportIsTrue, RunningIsSilent, CopyIsNoDatabase, CommittedIsSeen
<1>11. CASE ChangeAsset
  BY <1>0, <1>11, SameStoreSameContent
  DEF ChangeAsset, store, ReportIsTrue, RunningIsSilent, CopyIsNoDatabase, CommittedIsSeen
<1>12. CASE Crash
  BY <1>0, <1>12, FailureIsTrue DEF Crash, Outcomes
<1>13. CASE ReaderCloses
  <2>1. closed /\ UNCHANGED <<sidecar, pc, spec, report>>
    BY <1>13 DEF ReaderCloses, closed
  <2>2. ReportIsTrue' /\ CommittedIsSeen' /\ RunningIsSilent'
    BY <2>1, CloseKeepsPublished DEF ReportIsTrue, CommittedIsSeen, RunningIsSilent
  <2>3. CopyIsNoDatabase'
    BY <1>13, NoDatabaseNoContent DEF ReaderCloses, lastClosed, CopyIsNoDatabase, Unusable
  <2> QED BY <1>0, <2>2, <2>3
<1>14. CASE UNCHANGED vars
  BY <1>0, <1>14, SameStoreSameContent
  DEF vars, ReportIsTrue, RunningIsSilent, CopyIsNoDatabase, CommittedIsSeen
<1> QED BY <1>1, <1>2, <1>3, <1>4, <1>5, <1>6, <1>7, <1>8, <1>9, <1>10, <1>11,
           <1>12, <1>13, <1>14 DEF Next, init_local_corpus, PublisherStep

THEOREM InvAlways == Spec => []IInv
BY InvInit, InvStep, PTL DEF Spec

(* Whatever earlier crashes left and whatever was exchanged during the     *)
(* command, "initialized" and "already initialized" are reported only of   *)
(* a whole published corpus whose version the sidecar names.               *)
THEOREM ReportsAreTrue == Spec => []ReportIsTrue
<1>1. IInv => ReportIsTrue
  BY DEF IInv
<1> QED BY <1>1, InvAlways, PTL

-----------------------------------------------------------------------------
LEMMA KeptUnlessReplaced ==
  ASSUME IInv, [Next]_vars, NEW v, Content = Published(v)
  PROVE  Content' = Published(v) \/ pc' = "copying"
<1>0. TypeOK
  BY DEF IInv
<1>1. ASSUME UNCHANGED <<file, wal>> PROVE Content' = Published(v)
  BY <1>1, SameStoreSameContent
<1>2. CASE RefuseSeed \/ CopyFails \/ Crash \/ ChangeAsset \/ WriteSidecar \/ UNCHANGED vars
  BY <1>1, <1>2 DEF RefuseSeed, CopyFails, Crash, ChangeAsset, WriteSidecar, vars, store
<1>3. CASE _require_complete_sidecar
  BY <1>1, <1>3, <1>0, CloseKeepsPublished DEF _require_complete_sidecar
<1>4. ASSUME NEW replace \in BOOLEAN, StartCopy(replace) PROVE pc' = "copying"
  BY <1>4 DEF StartCopy
<1>5. CASE CopyEnds \/ CopyDrifts
  <2>1. file \in Unusable
    BY <1>5 DEF CopyEnds, CopyDrifts, IInv, CopyIsNoDatabase
  <2> QED BY <2>1, NoDatabaseNoContent DEF IInv
<1>6. CASE _publish_runtime
  <2>1. CASE closed
    BY <2>1, <1>0, CloseKeepsPublished
  <2>2. CASE /\ pc = "copied" /\ MatchesSpec(Content, spec) /\ Content # Published(spec)
    BY <2>2, DatabasesDiffer DEF MatchesSpec
  <2> QED BY <1>6, <2>1, <2>2 DEF _publish_runtime
<1>7. CASE CloseRuntime \/ CheckPublished
  BY <1>7, <1>0, CloseKeepsPublished DEF CloseRuntime, CheckPublished
<1>8. CASE ReaderCloses
  BY <1>8, <1>0, CloseKeepsPublished DEF ReaderCloses, closed
<1> QED BY <1>2, <1>3, <1>4, <1>5, <1>6, <1>7, <1>8
        DEF Next, init_local_corpus, PublisherStep

(* Only a copy over it takes a published corpus away: no refused command,  *)
(* no crash, no reader and no change of the seed.                          *)
THEOREM PublishedStays == Spec => OnlyReplaceUnpublishes
<1>1. IInv /\ [Next]_vars =>
        [\A v \in Versions :
           Content = Published(v) /\ Content' # Published(v) => pc' = "copying"]_vars
  BY KeptUnlessReplaced
<1> QED BY <1>1, InvAlways, PTL DEF Spec, OnlyReplaceUnpublishes

-----------------------------------------------------------------------------
(* Every step of the requests is one of the publication's readers, or none *)
(* of its concern.                                                         *)
LEMMA ReadersAreReaders ==
  ASSUME Connects
  PROVE  [Next]_vars /\ pc' = pc
BY DEF Connects, Next, ReaderCloses, vars

LEMMA RequestRefines ==
  ASSUME NEW r, RequestStep(r)
  PROVE  [Next]_vars /\ pc' = pc
<1>1. CASE ResolveScope(r)
  BY <1>1, ReadersAreReaders DEF ResolveScope
<1>2. CASE ChooseVersion(r)
  BY <1>2 DEF ChooseVersion, vars
<1>3. CASE _load_exact_release(r)
  BY <1>3, ReadersAreReaders DEF _load_exact_release
<1>4. CASE search_exact(r)
  BY <1>4, ReadersAreReaders DEF search_exact
<1>5. CASE hydrate(r)
  <2>1. UNCHANGED vars \/ Connects
    BY <1>5 DEF hydrate
  <2> QED BY <2>1, ReadersAreReaders DEF vars
<1> QED BY <1>1, <1>2, <1>3, <1>4, <1>5 DEF RequestStep

LEMMA StepRefines == [SearchNext]_searchVars => [Next]_vars
<1> SUFFICES ASSUME [SearchNext]_searchVars PROVE [Next]_vars
  OBVIOUS
<1>1. CASE \E r \in Requests : RequestStep(r)
  BY <1>1, RequestRefines
<1>2. CASE Next
  BY <1>2
<1>3. CASE UNCHANGED searchVars
  BY <1>3 DEF searchVars
<1> QED BY <1>1, <1>2, <1>3 DEF SearchNext

(* Requests disturb no publication: initial states and steps are those of  *)
(* LocalPublish (its fairness is left to the model checker).               *)
THEOREM PublicationImplemented == SearchSpec => Init /\ [][Next]_vars
<1>1. SearchInit => Init
  BY DEF SearchInit
<1> QED BY <1>1, StepRefines, PTL DEF SearchSpec

THEOREM PublicationInvariant == SearchSpec => []IInv
BY PublicationImplemented, InvInit, InvStep, PTL

-----------------------------------------------------------------------------
(* The requests' own variables keep their types.                           *)
RequestsOK ==
  /\ phase \in [Requests -> Phases]
  /\ release \in [Requests -> OptionalVersion]
  /\ found \in [Requests -> SUBSET Ids]
  /\ response \in [Requests -> [status : {"none", "error", "found"}, evidence : SUBSET Quotations]]
  /\ disturbed \in [Requests -> BOOLEAN]

LEMMA AnswerType ==
  ASSUME RequestsOK, NEW r \in Requests,
         NEW S \in SUBSET Quotations, Answered(r, Error) \/ Answered(r, Found(S))
  PROVE  /\ phase' \in [Requests -> Phases]
         /\ response' \in [Requests -> [status : {"none", "error", "found"},
                                        evidence : SUBSET Quotations]]
BY DEF RequestsOK, Answered, Error, Found, Phases

LEMMA GoesOnType ==
  ASSUME RequestsOK, NEW r \in Requests, NEW next \in Phases, GoesOn(r, next)
  PROVE  /\ phase' \in [Requests -> Phases]
         /\ response' \in [Requests -> [status : {"none", "error", "found"},
                                        evidence : SUBSET Quotations]]
BY DEF RequestsOK, GoesOn

LEMMA MatchingIds ==
  ASSUME NEW seen
  PROVE  UNION {Matches[v] : v \in PublishedIn(seen)} \subseteq Ids
BY SearchAssumption DEF PublishedIn

LEMMA RequestTypeStep ==
  ASSUME TypeOK, RequestsOK, NEW r \in Requests, RequestStep(r)
  PROVE  RequestsOK'
<1>1. CASE ResolveScope(r)
  <2>1. Answered(r, Error) \/ GoesOn(r, "version")
    BY <1>1 DEF ResolveScope
  <2>2. /\ phase' \in [Requests -> Phases]
        /\ response' \in [Requests -> [status : {"none", "error", "found"},
                                       evidence : SUBSET Quotations]]
    BY <2>1, AnswerType, GoesOnType DEF Phases
  <2> QED BY <1>1, <2>2 DEF ResolveScope, RequestsOK
<1>2. CASE ChooseVersion(r)
  <2>1. Answered(r, Error) \/ GoesOn(r, "release")
    BY <1>2 DEF ChooseVersion
  <2>2. /\ phase' \in [Requests -> Phases]
        /\ response' \in [Requests -> [status : {"none", "error", "found"},
                                       evidence : SUBSET Quotations]]
    BY <2>1, AnswerType, GoesOnType DEF Phases
  <2>3. release' \in [Requests -> OptionalVersion]
    BY <1>2, SearchAssumption DEF ChooseVersion, ActiveVersion, RequestsOK, TypeOK
  <2> QED BY <1>2, <2>2, <2>3 DEF ChooseVersion, RequestsOK
<1>3. CASE _load_exact_release(r)
  <2>1. Answered(r, Error) \/ GoesOn(r, "search")
    BY <1>3 DEF _load_exact_release
  <2>2. /\ phase' \in [Requests -> Phases]
        /\ response' \in [Requests -> [status : {"none", "error", "found"},
                                       evidence : SUBSET Quotations]]
    BY <2>1, AnswerType, GoesOnType DEF Phases
  <2> QED BY <1>3, <2>2 DEF _load_exact_release, RequestsOK
<1>4. CASE search_exact(r)
  <2>1. Answered(r, Error) \/ GoesOn(r, "hydrate")
    BY <1>4 DEF search_exact
  <2>2. /\ phase' \in [Requests -> Phases]
        /\ response' \in [Requests -> [status : {"none", "error", "found"},
                                       evidence : SUBSET Quotations]]
    BY <2>1, AnswerType, GoesOnType DEF Phases
  <2>3. PICK seen \in Seen :
          \/ UNCHANGED found
          \/ \E page \in SUBSET UNION {Matches[v] : v \in PublishedIn(seen)} :
               found' = [found EXCEPT ![r] = page]
    BY <1>4 DEF search_exact
  <2>4. found' \in [Requests -> SUBSET Ids]
    BY <2>3, MatchingIds DEF RequestsOK
  <2> QED BY <1>4, <2>2, <2>4 DEF search_exact, RequestsOK
<1>5. CASE hydrate(r)
  <2>1. found[r] \subseteq Ids
    BY DEF RequestsOK
  <2>2. \A seen : PublishedIn(seen) \subseteq Versions
    BY DEF PublishedIn
  <2>3. \A seen : {q \in [id : found[r], version : PublishedIn(seen)] : PassesGate(q.id, q.version)}
                    \subseteq Quotations
    BY <2>1, <2>2 DEF Quotations
  <2>4. \E S \in SUBSET Quotations : Answered(r, Error) \/ Answered(r, Found(S))
    BY <1>5, <2>3 DEF hydrate
  <2>5. /\ phase' \in [Requests -> Phases]
        /\ response' \in [Requests -> [status : {"none", "error", "found"},
                                       evidence : SUBSET Quotations]]
    BY <2>4, AnswerType
  <2> QED BY <1>5, <2>5 DEF hydrate, RequestsOK
<1> QED BY <1>1, <1>2, <1>3, <1>4, <1>5 DEF RequestStep

LEMMA SearchTypeInit == SearchInit => SearchTypeOK
BY TypeInit DEF SearchInit, SearchTypeOK, OptionalVersion, Phases, NoResponse

LEMMA SearchTypeStep == SearchTypeOK /\ [SearchNext]_searchVars => SearchTypeOK'
<1> SUFFICES ASSUME SearchTypeOK, [SearchNext]_searchVars PROVE SearchTypeOK'
  OBVIOUS
<1>1. TypeOK /\ RequestsOK
  BY DEF SearchTypeOK, RequestsOK
<1>2. TypeOK'
  BY <1>1, StepRefines, TypeStep
<1>3. RequestsOK'
  <2>1. CASE \E r \in Requests : RequestStep(r)
    BY <1>1, <2>1, RequestTypeStep
  <2>2. CASE Noted
    BY <1>1, <2>2 DEF Noted, RequestsOK
  <2>3. CASE UNCHANGED searchVars
    BY <1>1, <2>3 DEF searchVars, requestVars, RequestsOK
  <2> QED BY <2>1, <2>2, <2>3 DEF SearchNext
<1> QED BY <1>2, <1>3 DEF SearchTypeOK, RequestsOK

(* Requests and answers are well formed beside any publication.            *)
THEOREM SearchTypeCorrect == SearchSpec => []SearchTypeOK
BY SearchTypeInit, SearchTypeStep, PTL DEF SearchSpec

-----------------------------------------------------------------------------
(* What a request answers, it answers in hydrate; an error has no evidence.*)
LEMMA NewEvidencePasses ==
  ASSUME RequestsOK, NEW r \in Requests, RequestStep(r), NEW s \in Requests,
         NEW q \in response'[s].evidence
  PROVE  q \in response[s].evidence \/ PassesGate(q.id, q.version)
<1>1. CASE UNCHANGED response \/ Answered(r, Error) \/ Answered(r, Found({}))
  BY <1>1 DEF Answered, Error, Found, RequestsOK
<1>2. CASE \E seen : Answered(r, Found({p \in [id : found[r], version : PublishedIn(seen)] :
                                          PassesGate(p.id, p.version)}))
  BY <1>2 DEF Answered, Found, RequestsOK
<1> QED BY <1>1, <1>2
        DEF RequestStep, ResolveScope, ChooseVersion, _load_exact_release, search_exact,
            hydrate, GoesOn

LEMMA QuotationsStep ==
  SearchTypeOK /\ QuotationsMatch /\ [SearchNext]_searchVars => QuotationsMatch'
<1> SUFFICES ASSUME SearchTypeOK, QuotationsMatch, [SearchNext]_searchVars
             PROVE  QuotationsMatch'
  OBVIOUS
<1>1. RequestsOK
  BY DEF SearchTypeOK, RequestsOK
<1>2. CASE \E r \in Requests : RequestStep(r)
  BY <1>1, <1>2, NewEvidencePasses DEF QuotationsMatch, PassesGate
<1>3. CASE UNCHANGED response
  BY <1>3 DEF QuotationsMatch
<1> QED BY <1>2, <1>3 DEF SearchNext, Noted, searchVars, requestVars

(* Every quotation is of a passage that contains the query, whatever       *)
(* replaced the database between the search and the reading.               *)
THEOREM QuotationsAlwaysMatch == SearchSpec => []QuotationsMatch
<1>1. SearchInit => QuotationsMatch
  BY DEF SearchInit, QuotationsMatch, NoResponse
<1> QED BY <1>1, QuotationsStep, SearchTypeCorrect, PTL DEF SearchSpec

-----------------------------------------------------------------------------
(* While no initialization runs, a connection that does not fail goes on   *)
(* seeing the version it saw: the file has it or its log has, and what is  *)
(* torn stays torn.                                                        *)
Shows(v) == Content \in {Published(v), Mixed(v), Torn}

LEMMA CloseKeepsShown ==
  ASSUME TypeOK, NEW v, Shows(v), closed
  PROVE  Shows(v)'
<1>1. CASE UNCHANGED <<file, wal>>
  BY <1>1 DEF Shows, Content
<1>2. CASE wal' = None /\ file' = Content
  BY <1>2 DEF Shows, Content
<1>3. CASE wal' = None /\ file = Torn /\ file' = Torn
  BY <1>3 DEF Shows, Content
<1> QED BY <1>1, <1>2, <1>3 DEF closed, lastClosed

LEMMA IdleKeepsShown ==
  ASSUME TypeOK, [Next]_vars, pc = "idle", pc' = "idle", NEW v, Shows(v)
  PROVE  Shows(v)'
<1>1. ASSUME UNCHANGED <<file, wal>> PROVE Shows(v)'
  BY <1>1 DEF Shows, Content
<1>2. CASE RefuseSeed \/ ChangeAsset \/ UNCHANGED vars
  BY <1>1, <1>2 DEF RefuseSeed, ChangeAsset, vars, store
<1>3. CASE _require_complete_sidecar
  BY <1>1, <1>3, CloseKeepsShown DEF _require_complete_sidecar
<1>4. CASE ReaderCloses
  BY <1>4, CloseKeepsShown DEF ReaderCloses, closed
<1>5. ~PublisherStep /\ ~Crash /\ \A replace \in BOOLEAN : ~StartCopy(replace)
  BY DEF PublisherStep, Crash, StartCopy, CopyEnds, CopyDrifts, CopyFails, _publish_runtime,
         CloseRuntime, CheckPublished, WriteSidecar
<1> QED BY <1>2, <1>3, <1>4, <1>5 DEF Next, init_local_corpus

(* A connection that finds version v published shows v.                    *)
LEMMA SeenIsShown ==
  ASSUME NEW v \in Versions, NEW seen \in Seen, v \in PublishedIn(seen)
  PROVE  Shows(v)
BY DatabasesDiffer DEF Seen, PublishedIn, Shows

(* What shows v and can be used is v, published.                           *)
LEMMA ShownIsUsed ==
  ASSUME NEW v \in Versions, Shows(v), NEW seen \in Seen, Usable(seen)
  PROVE  PublishedIn(seen) = {v}
<1>1. seen = Published(v)
  <2>1. PICK u \in Versions : seen \in {Draft(u), Published(u)}
    BY DEF Usable
  <2>2. CASE seen = Content
    BY <2>1, <2>2, DatabasesDiffer DEF Shows
  <2>3. CASE \E w \in Versions : Content = Mixed(w) /\ seen = Published(w)
    <3>1. PICK w \in Versions : Content = Mixed(w) /\ seen = Published(w)
      BY <2>3
    <3>2. w = v
      <4>1. Content = Mixed(v)
        BY <3>1, DatabasesDiffer DEF Shows
      <4>2. Mixed(v).version = v /\ Mixed(w).version = w
        BY DEF Mixed
      <4> QED BY <3>1, <4>1, <4>2
    <3> QED BY <3>1, <3>2
  <2> QED BY <2>2, <2>3 DEF Seen
<1> QED BY <1>1, DatabasesDiffer DEF PublishedIn

(* Quoting one version, there are as many quotations as candidates.        *)
LEMMA OneQuotationEach ==
  ASSUME NEW v \in Versions, NEW S \in SUBSET Matches[v]
  PROVE  LET E == {q \in [id : S, version : {v}] : PassesGate(q.id, q.version)} IN
         Cardinality(E) = Cardinality(S)
<1> DEFINE E == {q \in [id : S, version : {v}] : PassesGate(q.id, q.version)}
           quote == [id \in S |-> [id |-> id, version |-> v]]
<1>1. S \subseteq Ids /\ IsFiniteSet(S)
  BY SearchAssumption, FS_Subset
<1>2. \A id \in S : PassesGate(id, v)
  BY SearchAssumption DEF PassesGate
<1>3. quote \in Bijection(S, E)
  <2>1. \A id \in S : quote[id] \in E
    BY <1>2
  <2>2. \A i, j \in S : quote[i] = quote[j] => i = j
    OBVIOUS
  <2>3. \A q \in E : q.id \in S /\ quote[q.id] = q
    OBVIOUS
  <2>4. quote \in [S -> E]
    BY <2>1
  <2> QED BY <2>2, <2>3, <2>4 DEF Bijection, Injection, Surjection, IsInjective
<1>4. ExistsBijection(S, E)
  BY <1>3 DEF ExistsBijection
<1> QED BY <1>1, <1>4, FS_Bijection

-----------------------------------------------------------------------------
(* A request that nothing disturbed: no initialization runs; once its      *)
(* release is checked the database shows that version; its candidates are  *)
(* a page of the matches of that version, and its answer quotes them all.  *)
IsPage(S, v) == Cardinality(S) = Min({PageSize, Cardinality(Matches[v])})

QuietIsIdle(r) == phase[r] \notin {"scope", "done"} => pc = "idle"
BoundIsShown(r) ==
  phase[r] \in {"search", "hydrate"} => release[r] \in Versions /\ Shows(release[r])
CandidatesMatch(r) ==
  phase[r] = "hydrate" => found[r] \subseteq Matches[release[r]] /\ IsPage(found[r], release[r])
AnswerIsTrue(r) ==
  response[r].status = "found" =>
    /\ \A q \in response[r].evidence : q.version = release[r]
    /\ IsPage(response[r].evidence, release[r])

Quiet(r) == QuietIsIdle(r) /\ BoundIsShown(r) /\ CandidatesMatch(r) /\ AnswerIsTrue(r)

SInv ==
  /\ SearchTypeOK
  /\ \A r \in Requests : phase[r] # "done" => response[r] = NoResponse
  /\ \A r \in Requests : ~disturbed[r] => Quiet(r)

LEMMA SInvInit == SearchInit => SInv
BY SearchTypeInit
DEF SearchInit, SInv, Quiet, QuietIsIdle, BoundIsShown, CandidatesMatch, AnswerIsTrue, NoResponse

(* A step of someone else leaves a quiet request quiet.                    *)
LEMMA OthersKeepQuiet ==
  ASSUME TypeOK, [Next]_vars, NEW r \in Requests, Quiet(r),
         phase'[r] = phase[r], release'[r] = release[r], found'[r] = found[r],
         response'[r] = response[r], QuietIsIdle(r)'
  PROVE  Quiet(r)'
<1>1. BoundIsShown(r)'
  BY IdleKeepsShown DEF Quiet, QuietIsIdle, BoundIsShown
<1>2. CandidatesMatch(r)' /\ AnswerIsTrue(r)'
  BY DEF Quiet, CandidatesMatch, AnswerIsTrue, IsPage
<1> QED BY <1>1, <1>2 DEF Quiet

(* So does a step of its own.                                              *)
LEMMA OwnStepKeepsQuiet ==
  ASSUME SInv, NEW r \in Requests, RequestStep(r), ~disturbed'[r]
  PROVE  Quiet(r)'
<1>0. /\ TypeOK /\ RequestsOK
      /\ [Next]_vars /\ pc' = pc
  BY RequestRefines DEF SInv, SearchTypeOK, RequestsOK
<1>1. CASE ResolveScope(r)
  <2>1. disturbed'[r] = (pc # "idle")
    BY <1>0, <1>1 DEF ResolveScope, RequestsOK
  <2>2. phase'[r] \in {"version", "done"} /\ response'[r].status # "found"
    BY <1>0, <1>1 DEF ResolveScope, Answered, GoesOn, Error, RequestsOK, SInv, NoResponse
  <2> QED BY <1>0, <2>1, <2>2
          DEF Quiet, QuietIsIdle, BoundIsShown, CandidatesMatch, AnswerIsTrue
<1>2. CASE ChooseVersion(r)
  <2>1. phase[r] = "version" /\ UNCHANGED disturbed
    BY <1>2 DEF ChooseVersion
  <2>2. pc' = "idle"
    BY <1>0, <2>1 DEF SInv, Quiet, QuietIsIdle
  <2>3. phase'[r] \in {"release", "done"} /\ response'[r].status # "found"
    BY <1>0, <1>2, <2>1 DEF ChooseVersion, Answered, GoesOn, Error, RequestsOK, SInv, NoResponse
  <2> QED BY <2>2, <2>3 DEF Quiet, QuietIsIdle, BoundIsShown, CandidatesMatch, AnswerIsTrue
<1>3. CASE _load_exact_release(r)
  <2>1. phase[r] = "release" /\ UNCHANGED <<disturbed, release>>
    BY <1>3 DEF _load_exact_release
  <2>2. pc = "idle" /\ pc' = "idle"
    BY <1>0, <2>1 DEF SInv, Quiet, QuietIsIdle
  <2>3. phase'[r] \in {"search", "done"} /\ response'[r].status # "found"
    BY <1>0, <1>3, <2>1
    DEF _load_exact_release, Answered, GoesOn, Error, RequestsOK, SInv, NoResponse
  <2>4. ASSUME phase'[r] = "search"
        PROVE  release'[r] \in Versions /\ Shows(release[r])'
    <3>1. PICK seen \in Seen : release[r] \in PublishedIn(seen)
      BY <1>0, <1>3, <2>4 DEF _load_exact_release, Answered, RequestsOK
    <3>2. release[r] \in Versions /\ Shows(release[r])
      BY <3>1, SeenIsShown DEF PublishedIn
    <3> QED BY <1>0, <2>1, <2>2, <3>2, IdleKeepsShown
  <2> QED BY <2>2, <2>3, <2>4
          DEF Quiet, QuietIsIdle, BoundIsShown, CandidatesMatch, AnswerIsTrue
<1>4. CASE search_exact(r)
  <2>1. phase[r] = "search" /\ UNCHANGED <<disturbed, release>>
    BY <1>4 DEF search_exact
  <2>2. pc = "idle" /\ pc' = "idle" /\ release[r] \in Versions /\ Shows(release[r])
    BY <1>0, <2>1 DEF SInv, Quiet, QuietIsIdle, BoundIsShown
  <2>3. Shows(release[r])'
    BY <1>0, <2>1, <2>2, IdleKeepsShown
  <2>4. phase'[r] \in {"hydrate", "done"} /\ response'[r].status # "found"
    BY <1>0, <1>4, <2>1
    DEF search_exact, Answered, GoesOn, Error, RequestsOK, SInv, NoResponse
  <2>5. ASSUME phase'[r] = "hydrate"
        PROVE  found'[r] \subseteq Matches[release[r]] /\ IsPage(found'[r], release[r])
    <3>1. PICK seen \in Seen :
            /\ Usable(seen)
            /\ \E page \in SUBSET UNION {Matches[v] : v \in PublishedIn(seen)} :
                 /\ Cardinality(page) =
                      Min({PageSize, Cardinality(UNION {Matches[v] : v \in PublishedIn(seen)})})
                 /\ found' = [found EXCEPT ![r] = page]
      BY <1>0, <1>4, <2>5 DEF search_exact, Answered, RequestsOK
    <3>2. UNION {Matches[v] : v \in PublishedIn(seen)} = Matches[release[r]]
      BY <2>2, <3>1, ShownIsUsed
    <3> QED BY <1>0, <3>1, <3>2 DEF IsPage, RequestsOK
  <2> QED BY <2>1, <2>2, <2>3, <2>4, <2>5
          DEF Quiet, QuietIsIdle, BoundIsShown, CandidatesMatch, AnswerIsTrue
<1>5. CASE hydrate(r)
  <2>1. phase[r] = "hydrate" /\ UNCHANGED <<disturbed, release>> /\ phase'[r] = "done"
    BY <1>0, <1>5 DEF hydrate, Answered, RequestsOK
  <2>2. /\ release[r] \in Versions /\ Shows(release[r])
        /\ found[r] \in SUBSET Matches[release[r]] /\ IsPage(found[r], release[r])
    BY <2>1 DEF SInv, Quiet, BoundIsShown, CandidatesMatch
  <2>3. CASE Answered(r, Error)
    BY <1>0, <2>1, <2>3 DEF Answered, Error, RequestsOK, Quiet, QuietIsIdle, BoundIsShown,
                            CandidatesMatch, AnswerIsTrue
  <2>4. CASE found[r] = {} /\ Answered(r, Found({}))
    BY <1>0, <2>1, <2>2, <2>4 DEF Answered, Found, RequestsOK, Quiet, QuietIsIdle,
                                  BoundIsShown, CandidatesMatch, AnswerIsTrue
  <2>5. ASSUME NEW seen \in Seen, Usable(seen),
               Answered(r, Found({q \in [id : found[r], version : PublishedIn(seen)] :
                                    PassesGate(q.id, q.version)}))
        PROVE  Quiet(r)'
    <3> DEFINE E == {q \in [id : found[r], version : {release[r]}] : PassesGate(q.id, q.version)}
    <3>1. PublishedIn(seen) = {release[r]}
      BY <2>2, <2>5, ShownIsUsed
    <3>2. response'[r].evidence = E
      BY <1>0, <2>5, <3>1 DEF Answered, Found, RequestsOK
    <3>3. Cardinality(E) = Cardinality(found[r])
      BY <2>2, OneQuotationEach
    <3>4. (\A q \in E : q.version = release[r]) /\ IsPage(E, release[r])
      BY <2>2, <3>3 DEF IsPage
    <3>5. AnswerIsTrue(r)'
      BY <2>1, <3>2, <3>4 DEF AnswerIsTrue, IsPage
    <3> QED BY <2>1, <3>5 DEF Quiet, QuietIsIdle, BoundIsShown, CandidatesMatch
  <2> QED BY <1>5, <2>3, <2>4, <2>5 DEF hydrate
<1> QED BY <1>1, <1>2, <1>3, <1>4, <1>5 DEF RequestStep

(* A step of one request touches no variable of another.                   *)
LEMMA RequestsAreApart ==
  ASSUME RequestsOK, NEW r \in Requests, RequestStep(r), NEW s \in Requests, s # r
  PROVE  /\ phase'[s] = phase[s] /\ release'[s] = release[s] /\ found'[s] = found[s]
         /\ response'[s] = response[s] /\ disturbed'[s] = disturbed[s]
BY DEF RequestStep, ResolveScope, ChooseVersion, _load_exact_release, search_exact, hydrate,
       Answered, GoesOn, RequestsOK

LEMMA UnansweredStep ==
  ASSUME SInv, NEW r \in Requests, RequestStep(r), phase'[r] # "done"
  PROVE  response'[r] = NoResponse
BY DEF SInv, SearchTypeOK, RequestStep, ResolveScope, ChooseVersion, _load_exact_release,
       search_exact, hydrate, Answered, GoesOn

LEMMA SInvStep == SInv /\ [SearchNext]_searchVars => SInv'
<1> SUFFICES ASSUME SInv, [SearchNext]_searchVars PROVE SInv'
  OBVIOUS
<1>1. TypeOK /\ RequestsOK /\ [Next]_vars /\ SearchTypeOK'
  BY StepRefines, SearchTypeStep DEF SInv, SearchTypeOK, RequestsOK
<1>2. ASSUME NEW r \in Requests, RequestStep(r) PROVE SInv'
  <2>1. \A s \in Requests : phase'[s] # "done" => response'[s] = NoResponse
    BY <1>1, <1>2, UnansweredStep, RequestsAreApart DEF SInv
  <2>2. ASSUME NEW s \in Requests, s # r, ~disturbed'[s] PROVE Quiet(s)'
    <3>1. Quiet(s)
      BY <1>1, <1>2, <2>2, RequestsAreApart DEF SInv
    <3>2. QuietIsIdle(s)'
      BY <1>1, <1>2, <2>2, <3>1, RequestsAreApart, RequestRefines DEF Quiet, QuietIsIdle
    <3> QED BY <1>1, <1>2, <2>2, <3>1, <3>2, RequestsAreApart, OthersKeepQuiet
  <2>3. ~disturbed'[r] => Quiet(r)'
    BY <1>2, OwnStepKeepsQuiet
  <2> QED BY <1>1, <2>1, <2>2, <2>3 DEF SInv
<1>3. CASE Noted
  <2>1. UNCHANGED <<phase, release, found, response>>
    BY <1>3 DEF Noted
  <2>2. ASSUME NEW r \in Requests, ~disturbed'[r] PROVE Quiet(r)'
    <3>1. ~disturbed[r] /\ (phase[r] \notin {"scope", "done"} => pc' = "idle")
      BY <1>3, <2>2 DEF Noted
    <3>2. Quiet(r)
      BY <3>1 DEF SInv
    <3>3. QuietIsIdle(r)'
      BY <2>1, <3>1 DEF QuietIsIdle
    <3> QED BY <1>1, <2>1, <3>2, <3>3, OthersKeepQuiet
  <2> QED BY <1>1, <2>1, <2>2 DEF SInv
<1>4. CASE UNCHANGED searchVars
  <2>1. UNCHANGED <<vars, phase, release, found, response, disturbed>>
    BY <1>4 DEF searchVars, requestVars
  <2>2. ASSUME NEW r \in Requests, ~disturbed'[r] PROVE Quiet(r)'
    BY <1>1, <2>1, <2>2, OthersKeepQuiet DEF SInv, Quiet, QuietIsIdle, vars
  <2> QED BY <1>1, <2>1, <2>2 DEF SInv
<1> QED BY <1>2, <1>3, <1>4 DEF SearchNext

(* A request beside which no initialization ran quotes one version, the    *)
(* one it names, and as many of its matches as fit on a page.              *)
THEOREM UndisturbedIsAlwaysTrue == SearchSpec => []UndisturbedIsTrue
<1>1. SInv => UndisturbedIsTrue
  BY DEF SInv, Quiet, AnswerIsTrue, UndisturbedIsTrue, IsPage
<1> QED BY <1>1, SInvInit, SInvStep, PTL DEF SearchSpec

-----------------------------------------------------------------------------
(* Without an initialization beside it, a request is about to check the    *)
(* version that is active still.                                           *)
AsksForActive(r) == phase[r] = "release" /\ ~disturbed[r] => release[r] = ActiveVersion
AInv == SInv /\ \A r \in Requests : AsksForActive(r)

LEMMA IdleKeepsActive ==
  ASSUME [Next]_vars, pc = "idle"
  PROVE  ActiveVersion' = ActiveVersion
<1>1. UNCHANGED sidecar
  BY DEF Next, init_local_corpus, RefuseSeed, _require_complete_sidecar, StartCopy, PublisherStep,
         CopyEnds, CopyDrifts, CopyFails, _publish_runtime, CloseRuntime, CheckPublished,
         WriteSidecar, ChangeAsset, Crash, ReaderCloses, store, vars
<1> QED BY <1>1 DEF ActiveVersion

LEMMA AInvStep == AInv /\ [SearchNext]_searchVars => AInv'
<1> SUFFICES ASSUME AInv, [SearchNext]_searchVars, NEW r \in Requests,
                    phase'[r] = "release", ~disturbed'[r]
             PROVE  release'[r] = ActiveVersion'
  BY SInvStep DEF AInv, AsksForActive
<1>1. RequestsOK /\ SInv /\ [Next]_vars
  BY StepRefines DEF AInv, SInv, SearchTypeOK, RequestsOK
<1>2. ASSUME phase[r] = "release", ~disturbed[r], release'[r] = release[r]
      PROVE  release'[r] = ActiveVersion'
  <2>1. pc = "idle"
    BY <1>2 DEF AInv, SInv, Quiet, QuietIsIdle
  <2> QED BY <1>1, <1>2, <2>1, IdleKeepsActive DEF AInv, AsksForActive
<1>3. CASE RequestStep(r)
  <2>1. ChooseVersion(r)
    BY <1>1, <1>3 DEF RequestStep, ResolveScope, _load_exact_release, search_exact, hydrate,
                      Answered, GoesOn, RequestsOK
  <2>2. UNCHANGED sidecar
    BY <2>1 DEF ChooseVersion, vars
  <2> QED BY <1>1, <2>1, <2>2 DEF ChooseVersion, ActiveVersion, RequestsOK
<1>4. ASSUME NEW s \in Requests, s # r, RequestStep(s)
      PROVE  release'[r] = ActiveVersion'
  BY <1>1, <1>2, <1>4, RequestsAreApart
<1>5. CASE Noted
  BY <1>2, <1>5 DEF Noted
<1>6. CASE UNCHANGED searchVars
  BY <1>2, <1>6 DEF searchVars, requestVars
<1> QED BY <1>3, <1>4, <1>5, <1>6 DEF SearchNext

(* Where the active version is published every connection sees just that.  *)
LEMMA ServableIsSeen ==
  ASSUME Servable, NEW seen \in Seen
  PROVE  /\ ActiveVersion \in Versions /\ ActiveVersion # None
         /\ ActiveVersion \in PublishedIn(seen) /\ Usable(seen)
<1>1. ActiveVersion \in Versions /\ Content = Published(ActiveVersion)
  BY DEF Servable, PublishedIn
<1>2. seen = Content
  BY <1>1, DatabasesDiffer DEF Seen
<1> QED BY <1>1, <1>2, VersionsAssumption DEF PublishedIn, Usable

LEMMA ServableIsServed ==
  ASSUME AInv, NEW r \in Requests, RequestStep(r), ~disturbed'[r], Servable
  PROVE  ~Answered(r, Error)
<1>1. RequestsOK /\ Content \in Seen
  BY DEF AInv, SInv, SearchTypeOK, RequestsOK, Seen
<1>2. GoesOn(r, "version") \/ GoesOn(r, "release") \/ GoesOn(r, "search") \/ GoesOn(r, "hydrate")
        => ~Answered(r, Error)
  BY <1>1 DEF GoesOn, Answered, RequestsOK
<1>3. CASE ResolveScope(r)
  BY <1>2, <1>3, ServableIsSeen DEF ResolveScope
<1>4. CASE ChooseVersion(r)
  BY <1>1, <1>2, <1>4, ServableIsSeen DEF ChooseVersion
<1>5. CASE _load_exact_release(r)
  <2>1. release[r] = ActiveVersion
    BY <1>5 DEF _load_exact_release, AInv, AsksForActive
  <2> QED BY <1>2, <1>5, <2>1, ServableIsSeen DEF _load_exact_release
<1>6. CASE search_exact(r)
  BY <1>2, <1>6, ServableIsSeen DEF search_exact
<1>7. CASE hydrate(r)
  <2>1. \E S : Answered(r, Found(S))
    BY <1>7, ServableIsSeen DEF hydrate
  <2> QED BY <1>1, <2>1 DEF Answered, Found, Error, RequestsOK
<1> QED BY <1>3, <1>4, <1>5, <1>6, <1>7 DEF RequestStep

(* With the active version published, in the file or still in the log, an  *)
(* undisturbed request is not refused.                                     *)
THEOREM RefusedOnlyForReason == SearchSpec => RefusedForReason
<1> DEFINE Refusal(r) == response[r] # response'[r] /\ response'[r] = Error /\ ~disturbed'[r]
<1>1. AInv /\ [SearchNext]_searchVars =>
        [\A r \in Requests : Refusal(r) => ~Servable]_searchVars
  <2> SUFFICES ASSUME AInv, SearchNext, NEW r \in Requests, Refusal(r)
               PROVE  ~Servable
    OBVIOUS
  <2>1. RequestsOK
    BY DEF AInv, SInv, SearchTypeOK, RequestsOK
  <2>2. RequestStep(r)
    BY <2>1, RequestsAreApart DEF SearchNext, Noted
  <2>3. Answered(r, Error)
    BY <2>1, <2>2 DEF RequestStep, ResolveScope, ChooseVersion, _load_exact_release, search_exact,
                      hydrate, GoesOn, Answered, Found, Error, RequestsOK
  <2> QED BY <2>2, <2>3, ServableIsServed
<1>2. SearchInit => AInv
  BY SInvInit DEF AInv, AsksForActive, SearchInit
<1> QED BY <1>1, <1>2, AInvStep, PTL DEF SearchSpec, RefusedForReason
=============================================================================
