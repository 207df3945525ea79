----------------------------- MODULE ExactSearch -----------------------------
(***************************************************************************)
(* Exact search (packages/marx_engels/pipelines/exact.py) beside the       *)
(* publication of LocalPublish.                                            *)
(*                                                                         *)
(* A request opens the database four times: to validate its scope, to bind *)
(* its release, to search and to read the passages found.  Nothing holds   *)
(* the database still in between.  Each connection sees one state of it;   *)
(* closing may write the log into the file, as for any reader.             *)
(*                                                                         *)
(* The query and the scope (one corpus, which every version has) are       *)
(* fixed; a version is what Passages and Matches say of it.  No index      *)
(* version is configured.  SQLite refuses a torn database as malformed; of *)
(* a mixed one it may read the pages of the log, which hold every row of   *)
(* the version published, and refuses the others.                          *)
(***************************************************************************)
EXTENDS LocalPublish, FiniteSets, FiniteSetsExt

CONSTANTS
  Requests,
  Ids,         (* evidence ids                                             *)
  Passages,    (* version -> ids of its passages                           *)
  Matches,     (* version -> ids of those in scope that contain the query  *)
  PageSize,
  Configured   (* the setting active_data_version, or None                 *)

ASSUME SearchAssumption ==
  /\ Passages \in [Versions -> SUBSET Ids]
  /\ Matches \in [Versions -> SUBSET Ids]
  /\ \A v \in Versions : Matches[v] \subseteq Passages[v]
  /\ PageSize \in Nat \ {0}
  /\ Configured \in OptionalVersion
  /\ IsFiniteSet(Ids)

VARIABLES
  phase,      (* the next thing each request does                          *)
  release,    (* the data version it is bound to                           *)
  found,      (* its candidates                                            *)
  response,   (* its answer                                                *)
  disturbed   (* history: an initialization ran beside it                  *)

requestVars == <<phase, release, found, response, disturbed>>
searchVars == <<vars, requestVars>>

-----------------------------------------------------------------------------
Phases == {"scope", "version", "release", "search", "hydrate", "done"}
Quotations == [id : Ids, version : Versions]
NoResponse == [status |-> "none", evidence |-> {}]
Error == [status |-> "error", evidence |-> {}]
Found(evidence) == [status |-> "found", evidence |-> evidence]

(* Fault: opened like the seed, immutable, without its log.                *)
immutable == {file}

(* What one connection may see.                                            *)
Seen == {Content} \cup {Published(v) : v \in {u \in Versions : Content = Mixed(u)}}

(* Fault: a database that is missing is created.                           *)
createsMissing ==
  /\ file' = IF file = Missing THEN Torn ELSE file
  /\ UNCHANGED <<asset, wal, sidecar, pc, spec, report>>

(* run_exclusive_or_unavailable: the connection may be the last to close.  *)
Connects == UNCHANGED vars \/ ReaderCloses

Usable(seen) == \E v \in Versions : seen \in {Draft(v), Published(v)}

PublishedIn(seen) == {v \in Versions : seen = Published(v)}

Answered(r, answer) ==
  /\ phase' = [phase EXCEPT ![r] = "done"]
  /\ response' = [response EXCEPT ![r] = answer]

GoesOn(r, next) ==
  /\ phase' = [phase EXCEPT ![r] = next]
  /\ UNCHANGED response

-----------------------------------------------------------------------------
(* The scope is valid when its corpus is there and published.              *)
ResolveScope(r) ==
  /\ phase[r] = "scope"
  /\ Connects
  /\ \E seen \in Seen :
       IF PublishedIn(seen) # {} THEN GoesOn(r, "version") ELSE Answered(r, Error)
  /\ disturbed' = [disturbed EXCEPT ![r] = pc # "idle"]
  /\ UNCHANGED <<release, found>>

(* The setting, or else what the sidecar names.                            *)
ActiveVersion == IF Configured # None THEN Configured ELSE sidecar

ChooseVersion(r) ==
  /\ phase[r] = "version"
  /\ IF ActiveVersion = None THEN Answered(r, Error) ELSE GoesOn(r, "release")
  /\ release' = [release EXCEPT ![r] = ActiveVersion]
  /\ UNCHANGED <<vars, found, disturbed>>

(* Fault: the version is not looked up.                                    *)
releaseUnverified(r) ==
  /\ phase[r] = "release"
  /\ Connects
  /\ \E seen \in Seen :
       IF ~Usable(seen) THEN Answered(r, Error) ELSE GoesOn(r, "search")
  /\ UNCHANGED <<release, found, disturbed>>

(* The version must be in the database, and published.                     *)
_load_exact_release(r) ==
  /\ phase[r] = "release"
  /\ Connects
  /\ \E seen \in Seen :
       IF release[r] \in PublishedIn(seen) THEN GoesOn(r, "search") ELSE Answered(r, Error)
  /\ UNCHANGED <<release, found, disturbed>>

(* The first page of the published passages that contain the query.  Which *)
(* they are is left open.                                                  *)
search_exact(r) ==
  /\ phase[r] = "search"
  /\ Connects
  /\ \E seen \in Seen :
       LET matching == UNION {Matches[v] : v \in PublishedIn(seen)} IN
       \/ ~Usable(seen) /\ Answered(r, Error) /\ UNCHANGED found
       \/ /\ Usable(seen)
          /\ \E page \in SUBSET matching :
               /\ Cardinality(page) = Min({PageSize, Cardinality(matching)})
               /\ found' = [found EXCEPT ![r] = page]
          /\ GoesOn(r, "hydrate")
  /\ UNCHANGED <<release, disturbed>>

(* Fault: a candidate is quoted without a look for the query in it.        *)
releasedOnly(id, v) == id \in Passages[v]

(* _first_gate_failure: the passage exists, is released and contains the   *)
(* query.                                                                  *)
PassesGate(id, v) == id \in Passages[v] /\ id \in Matches[v]

(* Candidates are read again by id, all in one connection; with none, the  *)
(* database is not opened.  Without evidence the answer is NO_EXACT_MATCH. *)
hydrate(r) ==
  /\ phase[r] = "hydrate"
  /\ \/ found[r] = {} /\ Answered(r, Found({})) /\ UNCHANGED vars
     \/ /\ found[r] # {}
        /\ Connects
        /\ \E seen \in Seen :
             IF ~Usable(seen) THEN Answered(r, Error)
             ELSE Answered(r, Found({q \in [id : found[r], version : PublishedIn(seen)] :
                                       PassesGate(q.id, q.version)}))
  /\ UNCHANGED <<release, found, disturbed>>

RequestStep(r) ==
  \/ ResolveScope(r) \/ ChooseVersion(r) \/ _load_exact_release(r)
  \/ search_exact(r) \/ hydrate(r)

-----------------------------------------------------------------------------
(* The requests under way note that an initialization runs.                *)
Noted ==
  /\ disturbed' = [r \in Requests |->
                     disturbed[r] \/ (phase[r] \notin {"scope", "done"} /\ pc' # "idle")]
  /\ UNCHANGED <<phase, release, found, response>>

SearchInit ==
  /\ Init
  /\ phase = [r \in Requests |-> "scope"]
  /\ release = [r \in Requests |-> None]
  /\ found = [r \in Requests |-> {}]
  /\ response = [r \in Requests |-> NoResponse]
  /\ disturbed = [r \in Requests |-> FALSE]

SearchNext == (Next /\ Noted) \/ \E r \in Requests : RequestStep(r)

SearchSpec ==
  /\ SearchInit /\ [][SearchNext]_searchVars
  /\ WF_searchVars(PublisherStep /\ Noted)
  /\ SF_searchVars(ReaderCloses /\ file # Torn /\ Noted)

-----------------------------------------------------------------------------
SearchTypeOK ==
  /\ TypeOK
  /\ phase \in [Requests -> Phases]
  /\ release \in [Requests -> OptionalVersion]
  /\ found \in [Requests -> SUBSET Ids]
  /\ response \in [Requests -> [status : {"none", "error", "found"}, evidence : SUBSET Quotations]]
  /\ disturbed \in [Requests -> BOOLEAN]

(* Whatever happened to the database between the search and the reading,   *)
(* each quotation is of a passage that contains the query in the version   *)
(* it is quoted from.                                                      *)
QuotationsMatch ==
  \A r \in Requests : \A q \in response[r].evidence : q.id \in Matches[q.version]

(* A request beside which no initialization ran, after whatever crashes,   *)
(* answers as if it had read one published database at once: a full page   *)
(* of quotations of the release it names, or none because there are none.  *)
UndisturbedIsTrue ==
  \A r \in Requests : response[r].status = "found" /\ ~disturbed[r] =>
    /\ \A q \in response[r].evidence : q.version = release[r]
    /\ Cardinality(response[r].evidence) = Min({PageSize, Cardinality(Matches[release[r]])})

(* It is refused only for a reason: with a published database of the       *)
(* version to be served, whether still in the log or not, it is answered.  *)
Servable == ActiveVersion \in PublishedIn(Content)
RefusedForReason ==
  [][\A r \in Requests :
       response[r] # response'[r] /\ response'[r] = Error /\ ~disturbed'[r] => ~Servable]_searchVars

(* Searching disturbs no publication: with requests about, files, log and  *)
(* reports change only as LocalPublish lets them, and no request creates a *)
(* database.                                                               *)
PublishesAsAlone == Spec
=============================================================================
