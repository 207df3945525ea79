---------------------------- MODULE HybridSearch ----------------------------
(***************************************************************************)
(* One request to the claim, timeline or thematic pipeline                 *)
(* (pipelines/claim.py, timeline.py, thematic.py), from its scope to its   *)
(* answer.                                                                 *)
(*                                                                         *)
(* Every step stands for an await of the code and is answered from outside:*)
(* the two recall channels, the reranker, the support classifier, the      *)
(* clusterer and the evidence repository may answer, fail, or fail with an *)
(* authoritative code, which refuses the request.  The repository is read  *)
(* anew at every step that reads it, and may have changed in between.      *)
(*                                                                         *)
(* pool is the candidates as far as the pipeline has got with them.        *)
(* History: found (the candidates after fusion and its cut), where each of *)
(* them left the pool, and lost (the channels that were not searched).  A  *)
(* candidate leaves because the reranker or the classifier did not want it *)
(* (setAside), because the reranked list is cut (cut), because it had no   *)
(* record to be classified with (unrecorded), or at the evidence gate      *)
(* (gated).                                                                *)
(***************************************************************************)
EXTENDS EvidenceGroups

CONSTANTS
  Requests,         (* mode, include_counter_evidence, summaries, page size  *)
  SupportLabels,    (* the labels the classifier gives                       *)
  Clusterings,      (* the answers of the clusterer: clusters of name, ids   *)
  FusionTopK, RerankTopK, FinalTopK, MinClusterInput,
  MaxJudged,        (* bound: the reranker names at most this many ids       *)
  MaxClosed         (* bound: evidence that is not as indexed, at one read   *)

Modes == {"claim", "timeline", "thematic"}
Foreign == 0   (* an id that was not recalled *)
Labels == {"direct", "indirect", "context_only", "counter", "irrelevant"}

ASSUME HybridAssumption ==
  /\ Requests \subseteq [mode : Modes, counter : BOOLEAN, summaries : BOOLEAN, page_size : Nat \ {0}]
  /\ SupportLabels \subseteq Labels /\ None \notin Labels
  /\ Clusterings \subseteq Seq([name : Nat, ids : Seq(Ids \cup {Foreign})])
  /\ {FusionTopK, RerankTopK, FinalTopK, MinClusterInput} \subseteq Nat \ {0}
  /\ {MaxJudged, MaxClosed} \subseteq Nat

VARIABLES request, pc, pool, classified, warnings, response,
          found, setAside, cut, unrecorded, gated, lost

history == <<found, setAside, cut, unrecorded, gated, lost>>
vars == <<request, pc, pool, classified, warnings, response, history>>

NoResponse == [status |-> "none", groups |-> <<>>, evidence |-> <<>>, insufficient |-> FALSE]

(***************************************************************************)
(* What the services answer.  A channel that is blocked failed with an     *)
(* authoritative code; unembedded: the embedder gave no vector.            *)
(***************************************************************************)
Outcomes == [state : {"answered"}, hits : Rankings] \cup [state : {"down", "blocked"}, hits : {<<>>}]
VectorOutcomes == Outcomes \cup [state : {"unembedded"}, hits : {<<>>}]

Verdicts == {"unscored", "low", "high", "irrelevant"}
Judgements == BoundedSeq([id : Ids \cup {Foreign}, verdict : Verdicts], MaxJudged)
RerankScore == [unscored |-> 0, low |-> 1, high |-> 2, irrelevant |-> 0]

(* What a read of the repository finds of an id: as it was indexed, with   *)
(* another text, not released or out of scope, or no record.               *)
Stores ==
  {store \in [Ids -> {"open", "revised", "shut", "absent"}] :
     Cardinality({id \in Ids : store[id] # "open"}) <= MaxClosed}

Init ==
  /\ request \in Requests
  /\ pc = "resolve"
  /\ pool = <<>> /\ classified = FALSE /\ warnings = {} /\ response = NoResponse
  /\ found = {} /\ setAside = {} /\ cut = {} /\ unrecorded = {} /\ gated = {} /\ lost = {}

(* An error leaves the pipeline.                                           *)
Refuse ==
  /\ pc' = "done"
  /\ response' = [NoResponse EXCEPT !.status = "refused"]
  /\ UNCHANGED <<request, pool, classified, warnings, history>>

Answer(groups, evidence, insufficient) ==
  /\ pc' = "done"
  /\ response' = [status |-> "answered",
                  groups |-> [i \in DOMAIN groups |-> Group(groups[i].key, IdsOf(groups[i].members))],
                  evidence |-> IdsOf(evidence), insufficient |-> insufficient]

Warn(codes) == warnings' = warnings \cup codes

(* The scope is resolved and the release frozen.                           *)
Resolve ==
  /\ pc = "resolve"
  /\ \/ pc' = "recall" /\ UNCHANGED <<request, pool, classified, warnings, response, history>>
     \/ Refuse

(***************************************************************************)
(* Recall asks both channels.  A blocked channel refuses the request, and  *)
(* so does the failure of both.  The claim pipeline takes an embedder      *)
(* without a vector for a channel that found nothing, the others for one   *)
(* that failed.  The claim pipeline does not cut the fused list.  The three*)
(* merges of the channels' hits differ in nothing a later stage reads.     *)
(***************************************************************************)
(* Fault: a channel that fails is taken for one that found nothing.        *)
noneDown(lexical, vector) == {}

Down(lexical, vector) ==
  {c \in {"lexical", "vector"} : (IF c = "lexical" THEN lexical ELSE vector).state = "down"}

DownOrUnembedded(lexical, vector) ==
  Down(lexical, vector) \cup (IF vector.state = "unembedded" THEN {"vector"} ELSE {})

Lost(lexical, vector) ==
  {c \in {"lexical", "vector", "unembedded"} :
     \/ c = "lexical" /\ lexical.state = "down"
     \/ c = "vector" /\ vector.state = "down"
     \/ c = vector.state}

Recalled(lexical, vector, down, candidates) ==
  IF "blocked" \in {lexical.state, vector.state} \/ down = {"lexical", "vector"} THEN Refuse
  ELSE /\ pool' = candidates
       /\ found' = IdSet(candidates)
       /\ Warn(down)
       /\ lost' = Lost(lexical, vector)
       /\ IF request.mode = "thematic" /\ candidates = <<>>
          THEN Answer(<<>>, <<>>, TRUE)
          ELSE pc' = "rerank" /\ UNCHANGED response
       /\ UNCHANGED <<request, classified, setAside, cut, unrecorded, gated>>

RecallClaim(lexical, vector) ==
  /\ pc = "recall" /\ request.mode = "claim"
  /\ Recalled(lexical, vector, Down(lexical, vector), Fuse(lexical.hits, vector.hits))

TimelineFuse(lexical, vector) == Fuse(lexical, vector)

RecallTimeline(lexical, vector) ==
  /\ pc = "recall" /\ request.mode = "timeline"
  /\ Recalled(lexical, vector, DownOrUnembedded(lexical, vector),
              First(TimelineFuse(lexical.hits, vector.hits), FusionTopK))

ThematicMerge(lexical, vector) == Fuse(lexical, vector)

RecallThematic(lexical, vector) ==
  /\ pc = "recall" /\ request.mode = "thematic"
  /\ Recalled(lexical, vector, DownOrUnembedded(lexical, vector),
              First(ThematicMerge(lexical.hits, vector.hits), FusionTopK))

Recall(lexical, vector) ==
  \/ RecallClaim(lexical, vector)
  \/ RecallTimeline(lexical, vector)
  \/ RecallThematic(lexical, vector)

-----------------------------------------------------------------------------
(* The candidates a reranker's answer names, each once, with its verdict.  *)
Judged(candidates, answer) ==
  LET ids == [i \in DOMAIN answer |-> answer[i].id]
      named == Ascending({i \in FirstPlaces(ids) : ids[i] \in IdSet(candidates)})
      judge(said) == [EvidenceOf(candidates, said.id) EXCEPT
                        !.rerank = RerankScore[said.verdict],
                        !.label = IF said.verdict = "irrelevant" THEN "irrelevant" ELSE None]
  IN [k \in DOMAIN named |-> judge(answer[named[k]])]

(* The candidates go to the next step; aside are the ids a model did not   *)
(* want.                                                                   *)
Pass(next, candidates, aside, codes) ==
  /\ pc' = next
  /\ pool' = candidates
  /\ setAside' = setAside \cup aside
  /\ Warn(codes)
  /\ UNCHANGED <<request, response, found, gated, lost>>

(* Claim: the ids not named follow in their order; only scores are taken.  *)
_restrict_rerank(candidates, answer) ==
  LET judged == Judged(candidates, answer)
      scored == [i \in DOMAIN judged |-> [judged[i] EXCEPT !.label = None]]
  IN scored \o Keep(candidates, {c \in ToSet(candidates) : c.id \notin IdSet(judged)})

RerankClaim ==
  /\ pc = "rerank" /\ request.mode = "claim"
  /\ \/ pool = <<>> /\ Pass("classify", <<>>, {}, {})
     \/ pool # <<>> /\ Refuse
     \/ pool # <<>> /\ Pass("classify", pool, {}, {"RERANKER_UNAVAILABLE"})
     \/ \E answer \in Judgements :
          /\ pool # <<>>
          /\ Pass("classify", _restrict_rerank(pool, answer), {},
                  IF \E i \in DOMAIN answer : answer[i].id \notin found
                  THEN {"MODEL_UNAUTHORIZED_ID"} ELSE {})
  /\ UNCHANGED <<classified, cut, unrecorded>>

(* Timeline: the ids not named are dropped.                                *)
_sanitize_reranked(candidates, answer) == Judged(candidates, answer)

(* Timeline: every error of the reranker, and an answer that names none of *)
(* the candidates, leaves the fused order; there may be no reranker.       *)
RerankTimeline ==
  /\ pc = "rerank" /\ request.mode = "timeline"
  /\ \/ pool = <<>> /\ Pass("hydrate", <<>>, {}, {}) /\ UNCHANGED cut
     \/ pool # <<>> /\ Pass("hydrate", pool, {}, {"RERANKER_UNAVAILABLE"}) /\ UNCHANGED cut
     \/ \E answer \in Judgements :
          LET sanitized == _sanitize_reranked(pool, answer)
              best == First(sanitized, RerankTopK)
              relevant == {c \in ToSet(best) : c.label # "irrelevant"}
              aside == (IdSet(pool) \ IdSet(sanitized)) \cup {c.id : c \in ToSet(best) \ relevant}
          IN /\ best # <<>>
             /\ Pass("hydrate", Keep(best, relevant), aside, {})
             /\ cut' = cut \cup (IdSet(sanitized) \ IdSet(best))
  /\ UNCHANGED <<classified, unrecorded>>

(* Thematic: only what was judged relevant stays.                          *)
apply_relevance_judgments(candidates, answer) == Judged(candidates, answer)

fails_relevance_gate(c, judged) ==
  \/ c.label = "irrelevant"
  \/ c.rerank = RerankScore.low
  \/ judged /\ c.label = None /\ c.rerank = 0

Gate(candidates, judged, codes) ==
  LET failing == {c \in ToSet(candidates) : fails_relevance_gate(c, judged)}
      relevant == Keep(candidates, ToSet(candidates) \ failing)
      aside == (IdSet(pool) \ IdSet(candidates)) \cup {c.id : c \in failing}
      dropped == IF Len(relevant) < Len(candidates) THEN {"IRRELEVANT_FILTERED"} ELSE {}
  IN /\ Pass("hydrate", relevant, aside, codes \cup dropped) /\ relevant # <<>>
     \/ /\ relevant = <<>>
        /\ pool' = <<>> /\ setAside' = setAside \cup aside
        /\ Warn(codes \cup dropped)
        /\ Answer(<<>>, <<>>, TRUE)
        /\ UNCHANGED <<request, found, gated, lost>>

JudgeThematic ==
  /\ pc = "rerank" /\ request.mode = "thematic"
  /\ \/ Gate(pool, FALSE, {"RERANKER_UNAVAILABLE"})
     \/ \E answer \in Judgements : Gate(apply_relevance_judgments(pool, answer), TRUE, {})
     \/ Refuse
  /\ UNCHANGED <<classified, cut, unrecorded>>

-----------------------------------------------------------------------------
(* _classify: what the repository has no record of gets no label, and is   *)
(* not displayed with the rest.  Without a record or a valid answer the    *)
(* candidates stay as they are, unlabelled.                                *)
Labelled(labels) ==
  [i \in DOMAIN pool |->
     IF pool[i].id \in DOMAIN labels THEN [pool[i] EXCEPT !.label = labels[pool[i].id]] ELSE pool[i]]

Recorded(store) == {id \in IdSet(pool) : store[id] # "absent"}

(* A valid answer labels exactly the ids it was asked about, each once.    *)
Classifications(ids) == [ids -> SupportLabels]

(* What the labels keep from display.                                      *)
Unwanted(labels) ==
  {id \in DOMAIN labels : labels[id] = "irrelevant" \/ (labels[id] = "counter" /\ ~request.counter)}

Classify ==
  /\ pc = "classify"
  /\ \E store \in Stores :
       LET recorded == Recorded(store)
       IN \/ pool = <<>> /\ classified' = TRUE /\ Pass("hydrate", <<>>, {}, {}) /\ UNCHANGED unrecorded
          \/ pool # <<>> /\ Refuse
          \/ /\ pool # <<>>
             /\ Pass("hydrate", pool, {}, IF recorded = {} THEN {} ELSE {"CLASSIFIER_UNAVAILABLE"})
             /\ classified' = FALSE /\ UNCHANGED unrecorded
          \/ \E labels \in Classifications(recorded) :
               /\ recorded # {}
               /\ Pass("hydrate", ForDisplay(Labelled(labels), request.counter), Unwanted(labels), {})
               /\ classified' = TRUE
               /\ unrecorded' = unrecorded \cup (IdSet(pool) \ recorded)
  /\ UNCHANGED cut

(* EvidenceService.hydrate: the evidence gate.  A candidate of the vector  *)
(* channel must have the text that was indexed.                            *)
PassesGate(c, store) == store[c.id] = "open" \/ (store[c.id] = "revised" /\ c.vrank = 0)

(* Fault: the claim pipeline does not report what the gate kept out.       *)
exclusionUnsaid(mode, excluded) ==
  IF mode = "thematic" /\ excluded # {} THEN {"EVIDENCE_GATE_PARTIAL"} ELSE {}

ExclusionWarnings(mode, excluded) ==
  IF excluded = {} THEN {}
  ELSE CASE mode = "claim" -> {"EXCLUDED"}
         [] mode = "thematic" -> {"EVIDENCE_GATE_PARTIAL"}
         [] mode = "timeline" -> {}

Hydrate ==
  /\ pc = "hydrate"
  /\ \/ Refuse
     \/ \E store \in Stores :
          LET evidence == Keep(pool, {c \in ToSet(pool) : PassesGate(c, store)})
              excluded == IdSet(pool) \ IdSet(evidence)
          IN /\ pool' = evidence
             /\ gated' = excluded
             /\ Warn(ExclusionWarnings(request.mode, excluded))
             /\ IF request.mode = "thematic" /\ evidence = <<>>
                THEN Answer(<<>>, <<>>, TRUE)
                ELSE pc' = "present" /\ UNCHANGED response
             /\ UNCHANGED <<request, classified, found, setAside, cut, unrecorded, lost>>

-----------------------------------------------------------------------------
Limit == IF request.mode = "claim" THEN request.page_size ELSE Min({FinalTopK, request.page_size})

HasDirect(evidence) == \E i \in DOMAIN evidence : evidence[i].label = "direct"

PresentClaim ==
  /\ pc = "present" /\ request.mode = "claim"
  /\ LET groups == IF classified THEN ClaimGroups(pool) ELSE <<>>
         ordered == IF classified THEN Flatten(groups) ELSE pool
         page == First(ordered, Limit)
     IN Answer(TrimGroups(groups, page), page, ~HasDirect(page))
  /\ UNCHANGED warnings

(* The page is cut from the timeline of all the evidence and organised     *)
(* again; a summary that fails is left out with a warning.                 *)
_maybe_summarize(page) ==
  \/ Warn({})
  \/ request.summaries /\ page # <<>> /\ Warn({"LLM_UNAVAILABLE"})

PresentTimeline ==
  /\ pc = "present" /\ request.mode = "timeline"
  /\ LET page == First(Flatten(organize_timeline(pool)), Limit)
     IN Answer(organize_timeline(page), page, page = <<>>) /\ _maybe_summarize(page)

(* A theme whose label is missing or cites other evidence gets a number.   *)
_build_groups(groups, codes) ==
  /\ Answer(groups, Flatten(groups), FALSE)
  /\ \/ Warn(codes)
     \/ request.summaries /\ Warn(codes \cup {"LABELING_UNAVAILABLE"})

(* Too little evidence is one cluster; without embeddings there are no     *)
(* groups; without the clusterer all is other_related.                     *)
_cluster(evidence) ==
  IF Len(evidence) < MinClusterInput
  THEN _build_groups(ThemeGroups(evidence, <<[name |-> 1, ids |-> IdsOf(evidence)]>>), {})
  ELSE \/ Answer(<<>>, evidence, TRUE) /\ Warn({"EMBEDDING_UNAVAILABLE"})
       \/ _build_groups(ThemeGroups(evidence, <<>>), {"CLUSTERING_UNAVAILABLE"})
       \/ \E clusters \in Clusterings : _build_groups(ThemeGroups(evidence, clusters), {})

PresentThematic ==
  /\ pc = "present" /\ request.mode = "thematic"
  /\ _cluster(First(pool, Limit))

Present ==
  /\ PresentClaim \/ PresentTimeline \/ PresentThematic
  /\ UNCHANGED <<request, pool, classified, history>>

(* The overview of the answer reads the repository once more.              *)
OverviewFails == pc = "present" /\ Refuse

Done == pc = "done" /\ UNCHANGED vars

Next ==
  \/ Resolve
  \/ \E lexical \in Outcomes, vector \in VectorOutcomes : Recall(lexical, vector)
  \/ RerankClaim
  \/ RerankTimeline
  \/ JudgeThematic
  \/ Classify
  \/ Hydrate
  \/ Present
  \/ OverviewFails
  \/ Done

Spec == Init /\ [][Next]_vars

-----------------------------------------------------------------------------
Candidates ==
  [id : Ids, fusion : Nat, vrank : 0..MaxHits, rerank : 0..2, label : Labels \cup {None}]

TypeOK ==
  /\ request \in Requests
  /\ pc \in {"resolve", "recall", "rerank", "classify", "hydrate", "present", "done"}
  /\ pool \in Seq(Candidates)
  /\ classified \in BOOLEAN
  /\ warnings \subseteq STRING
  /\ (pc = "done") <=> response.status \in {"answered", "refused"}
  /\ found \cup setAside \cup cut \cup unrecorded \cup gated \subseteq Ids
  /\ lost \subseteq {"lexical", "vector", "unembedded"}

Answered == response.status = "answered"
Shown == ToSet(response.evidence)

(* A candidate that both channels rank at least as high as another, and    *)
(* one of them higher, comes before it in what recall passes on: for every *)
(* pair of lists the channels may give.                                    *)
BetterInBothComesFirst ==
  pc = "recall" =>
    \A lexical, vector \in Rankings :
      LET fused == Fuse(lexical, vector)
          rank(hits, id) == IF Position(hits, id) = 0 THEN MaxHits + 1 ELSE Position(hits, id)
          better(a, b) == /\ rank(lexical, a) <= rank(lexical, b) /\ rank(vector, a) <= rank(vector, b)
                          /\ rank(lexical, a) < rank(lexical, b) \/ rank(vector, a) < rank(vector, b)
      IN \A i, j \in DOMAIN fused : better(fused[i].id, fused[j].id) => i < j

(* Every evidence of an answer is in exactly one group, groups have        *)
(* different ids, and evidence is listed in the order of the groups,       *)
(* whatever the classifier or the clusterer answered.                      *)
EachOnce ==
  Answered =>
    LET groups == response.groups
    IN /\ IsInjective(response.evidence)
       /\ IsInjective([i \in DOMAIN groups |-> groups[i].key])
       /\ groups # <<>> => Flatten(groups) = response.evidence

(* A page that is not full and comes without a warning shows every         *)
(* candidate that was found and not set aside by a model, with what the    *)
(* code is known to drop without a word named here: in a timeline what the *)
(* evidence gate kept out and what the cut of the reranked list cost, in a *)
(* claim what had no record when it was to be classified.  A thematic      *)
(* search drops nothing so.                                                *)
ShortPageIsExplained ==
  LET untold == CASE request.mode = "timeline" -> gated \cup cut
                  [] request.mode = "claim" -> unrecorded
                  [] request.mode = "thematic" -> {}
  IN Answered /\ warnings = {} /\ Len(response.evidence) < Limit
     => found \subseteq Shown \cup setAside \cup untold

(* A channel that raised an error is named by a warning of the answer,     *)
(* whatever the later stages did, and with both failed there is no answer. *)
(* A query that got no vector is a failure of the channel in a timeline    *)
(* and a thematic search.                                                  *)
FailedChannelIsTold ==
  Answered =>
    LET failed == {c \in {"lexical", "vector"} :
                     c \in lost \/ (c = "vector" /\ "unembedded" \in lost /\ request.mode # "claim")}
    IN failed \subseteq warnings /\ failed # {"lexical", "vector"}

(* The page of a claim takes the strongest support there is: nothing on it *)
(* is weaker than something that passed the evidence gate and was left     *)
(* out, and what speaks against the claim gives way to all the rest.       *)
Strength == [direct |-> 3, indirect |-> 2, context_only |-> 1, counter |-> 0]

ClaimPageIsStrongest ==
  Answered /\ request.mode = "claim" /\ classified =>
    \A shown, left \in ToSet(pool) :
      shown.id \in Shown /\ left.id \notin Shown => Strength[left.label] <= Strength[shown.label]

(* What a timeline shows is the beginning of the timeline of all the       *)
(* evidence that passed: nothing shown is later than something left out,   *)
(* and the groups run in the order of time.                                *)
TimelinePageIsEarliest ==
  Answered /\ request.mode = "timeline" =>
    LET earlier(a, b) == \/ PairBefore(Bucket(a), Bucket(b))
                         \/ Bucket(a) = Bucket(b) /\ PairBefore(YearKey(Date[a].start), YearKey(Date[b].start))
        shown == response.evidence
    IN /\ \A i, j \in DOMAIN shown : i < j => ~earlier(shown[j], shown[i])
       /\ \A i \in DOMAIN shown, late \in IdSet(pool) \ ToSet(shown) : ~earlier(late, shown[i])
=============================================================================
