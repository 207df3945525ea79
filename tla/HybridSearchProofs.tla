------------------------- MODULE HybridSearchProofs -------------------------
(***************************************************************************)
(* What holds of a claim, timeline or thematic search for any rankings,    *)
(* judgements, labels, dates, clusterings, page sizes and states of the    *)
(* repository.                                                             *)
(*                                                                         *)
(* IInv: a channel that failed is told, and which mode loses candidates by *)
(* which way.  Whole: what is in hand is a list of different candidates,   *)
(* and what is presented of it has each of them in one group, in the order *)
(* the mode asks for.  Traced: a candidate that is no longer in hand left  *)
(* by one of the ways the history tells apart; it needs Whole, because the *)
(* steps pass on lists and the history has ids.                            *)
(*                                                                         *)
(* In between stand the lemmas on the operators that arrange candidates:   *)
(* lists and groups, the page, the timeline, the groups of a claim,        *)
(* fusion, the answers of the models, and the themes.                      *)
(***************************************************************************)
EXTENDS HybridSearch, OrderingProofs

(* The channels that count as failed.                                      *)
Failed == {c \in {"lexical", "vector"} :
             c \in lost \/ (c = "vector" /\ "unembedded" \in lost /\ request.mode # "claim")}

Told == Failed \subseteq warnings /\ Failed # {"lexical", "vector"}

(* The gate has not run before hydration, and what it kept out is told,    *)
(* but in a timeline; only a timeline is cut after the reranker, and only  *)
(* a claim has candidates without a record to be classified with.          *)
Accounted ==
  /\ pc \in {"resolve", "recall", "rerank", "classify", "hydrate"} => gated = {}
  /\ gated # {} /\ request.mode # "timeline" => warnings # {}
  /\ cut # {} => request.mode = "timeline"
  /\ pc = "classify" \/ unrecorded # {} => request.mode = "claim"

IInv == request \in Requests /\ Told /\ Accounted

-----------------------------------------------------------------------------
(* Nothing is found, lost or set aside yet.                                *)
LEMMA InitHolds == Init => IInv
BY DEF Init, IInv, Told, Failed, Accounted

(* Steps that only add warnings keep what was told.                        *)
LEMMA ToldStays ==
  ASSUME Told, UNCHANGED <<request, lost>>, warnings \subseteq warnings'
  PROVE  Told'
BY DEF Told, Failed

LEMMA RefuseKeeps == ASSUME IInv, Refuse PROVE IInv'
<1>1. UNCHANGED <<request, lost, warnings, cut, unrecorded, gated>> /\ pc' = "done"
  BY DEF Refuse, history
<1>2. Told'
  BY <1>1, ToldStays DEF IInv
<1>3. Accounted'
  BY <1>1 DEF IInv, Accounted
<1> QED
  BY <1>1, <1>2, <1>3 DEF IInv

(* What recall passes on is what was found, and the channels that are down *)
(* are its warnings.                                                       *)
LEMMA RecalledKeeps ==
  ASSUME IInv, pc = "recall", NEW lexical, NEW down, NEW candidates,
         NEW vector, vector.state \in {"answered", "down", "blocked", "unembedded"},
         down = IF request.mode = "claim" THEN Down(lexical, vector)
                ELSE DownOrUnembedded(lexical, vector),
         Recalled(lexical, vector, down, candidates)
  PROVE  IInv'
<1>1. CASE Refuse
  BY <1>1, RefuseKeeps
<1>2. CASE ~Refuse
  <2>1. /\ pool' = candidates /\ found' = IdSet(candidates)
        /\ warnings' = warnings \cup down
        /\ lost' = Lost(lexical, vector)
        /\ UNCHANGED <<request, cut, unrecorded, gated>>
        /\ down # {"lexical", "vector"}
        /\ pc' \in {"done", "rerank"}
    BY <1>2 DEF Recalled, Warn, Answer
  <2>2. /\ "lexical" \in lost' <=> lexical.state = "down"
        /\ "vector" \in lost' <=> vector.state = "down"
        /\ "unembedded" \in lost' <=> vector.state = "unembedded"
    BY <2>1 DEF Lost
  <2>3. /\ "lexical" \in down <=> lexical.state = "down"
        /\ "vector" \in down <=>
             vector.state = "down" \/ (vector.state = "unembedded" /\ request.mode # "claim")
        /\ down \subseteq {"lexical", "vector"}
    BY DEF Down, DownOrUnembedded
  <2>4. Failed' = down
    BY <2>1, <2>2, <2>3 DEF Failed
  <2>5. Told'
    BY <2>1, <2>4 DEF Told
  <2>6. Accounted'
    BY <2>1 DEF Accounted, IInv
  <2> QED
    BY <2>1, <2>5, <2>6 DEF IInv
<1> QED
  BY <1>1, <1>2

LEMMA PassKeeps ==
  ASSUME IInv, NEW next \in {"classify", "hydrate"}, NEW candidates, NEW aside, NEW codes,
         pc \in {"rerank", "classify"}, Pass(next, candidates, aside, codes),
         next = "classify" => request.mode = "claim",
         cut' = cut \/ request.mode = "timeline",
         unrecorded' = unrecorded \/ request.mode = "claim"
  PROVE  IInv'
<1>1. /\ UNCHANGED <<request, lost, gated>>
      /\ warnings \subseteq warnings' /\ pc' = next
  BY DEF Pass, Warn
<1>2. Told'
  BY <1>1, ToldStays DEF IInv
<1>3. Accounted'
  BY <1>1 DEF IInv, Accounted
<1> QED
  BY <1>1, <1>2, <1>3 DEF IInv

LEMMA RerankKeeps ==
  ASSUME IInv, RerankClaim \/ RerankTimeline \/ Classify
  PROVE  IInv'
<1>1. CASE RerankClaim
  <2>1. /\ pc = "rerank" /\ request.mode = "claim" /\ UNCHANGED <<cut, unrecorded>>
        /\ Refuse \/ \E candidates, codes : Pass("classify", candidates, {}, codes)
    BY <1>1 DEF RerankClaim
  <2> QED
    BY <2>1, RefuseKeeps, PassKeeps
<1>2. CASE RerankTimeline
  <2>1. /\ pc = "rerank" /\ request.mode = "timeline" /\ UNCHANGED unrecorded
        /\ \E candidates, aside, codes : Pass("hydrate", candidates, aside, codes)
    BY <1>2 DEF RerankTimeline
  <2> QED
    BY <2>1, PassKeeps
<1>3. CASE Classify
  <2>1. pc = "classify" /\ UNCHANGED cut /\ request.mode = "claim"
    BY <1>3 DEF Classify, IInv, Accounted
  <2>2. Refuse \/ \E candidates, aside, codes : Pass("hydrate", candidates, aside, codes)
    BY <1>3 DEF Classify
  <2> QED
    BY <2>1, <2>2, RefuseKeeps, PassKeeps
<1> QED
  BY <1>1, <1>2, <1>3

(* The relevance gate passes on what is left, or answers that nothing is.  *)
GateRelevant(candidates, judged) ==
  Keep(candidates, ToSet(candidates) \ {c \in ToSet(candidates) : fails_relevance_gate(c, judged)})

GateAside(candidates, judged) ==
  (IdSet(pool) \ IdSet(candidates))
    \cup {c.id : c \in {d \in ToSet(candidates) : fails_relevance_gate(d, judged)}}

LEMMA GateIs ==
  ASSUME NEW candidates, NEW judged, NEW codes, Gate(candidates, judged, codes)
  PROVE  \E more :
           \/ Pass("hydrate", GateRelevant(candidates, judged), GateAside(candidates, judged), more)
           \/ /\ GateRelevant(candidates, judged) = <<>>
              /\ pool' = <<>> /\ setAside' = setAside \cup GateAside(candidates, judged)
              /\ Warn(more) /\ Answer(<<>>, <<>>, TRUE)
              /\ UNCHANGED <<request, found, gated, lost>>
BY DEF Gate, GateRelevant, GateAside

LEMMA GateKeeps ==
  ASSUME IInv, NEW candidates, NEW judged, NEW codes, pc = "rerank",
         Gate(candidates, judged, codes), UNCHANGED <<cut, unrecorded>>
  PROVE  IInv'
<1>1. PICK more :
        \/ Pass("hydrate", GateRelevant(candidates, judged), GateAside(candidates, judged), more)
        \/ Warn(more) /\ Answer(<<>>, <<>>, TRUE) /\ UNCHANGED <<request, gated, lost>>
  BY GateIs
<1>2. CASE Pass("hydrate", GateRelevant(candidates, judged), GateAside(candidates, judged), more)
  BY <1>2, PassKeeps
<1>3. CASE Warn(more) /\ Answer(<<>>, <<>>, TRUE) /\ UNCHANGED <<request, gated, lost>>
  <2>1. warnings \subseteq warnings' /\ pc' = "done"
    BY <1>3 DEF Warn, Answer
  <2>2. Told'
    BY <1>3, <2>1, ToldStays DEF IInv
  <2>3. Accounted'
    BY <1>3, <2>1 DEF IInv, Accounted
  <2> QED
    BY <1>3, <2>2, <2>3 DEF IInv
<1> QED
  BY <1>1, <1>2, <1>3

(* What the evidence gate keeps out is told, but in a timeline.            *)
LEMMA HydrateKeeps == ASSUME IInv, Hydrate PROVE IInv'
<1>1. CASE Refuse
  BY <1>1, RefuseKeeps
<1>2. CASE ~Refuse
  <2>1. PICK store \in Stores :
          LET evidence == Keep(pool, {c \in ToSet(pool) : PassesGate(c, store)})
              excluded == IdSet(pool) \ IdSet(evidence)
          IN /\ pool' = evidence
             /\ gated' = excluded
             /\ Warn(ExclusionWarnings(request.mode, excluded))
             /\ IF request.mode = "thematic" /\ evidence = <<>>
                THEN Answer(<<>>, <<>>, TRUE)
                ELSE pc' = "present" /\ UNCHANGED response
             /\ UNCHANGED <<request, classified, found, setAside, cut, unrecorded, lost>>
    BY <1>2 DEF Hydrate
  <2>2. /\ gated' = IdSet(pool) \ IdSet(pool')
        /\ warnings' = warnings \cup ExclusionWarnings(request.mode, gated')
        /\ pc' \in {"present", "done"}
        /\ UNCHANGED <<request, cut, unrecorded, lost>>
    BY <2>1 DEF Warn, Answer
  <2>3. gated = {}
    BY DEF Hydrate, IInv, Accounted
  <2>4. Told'
    BY <2>2, ToldStays DEF IInv
  <2>5. request.mode \in Modes
    BY HybridAssumption DEF IInv
  <2>6. gated' # {} /\ request.mode # "timeline" => warnings' # {}
    BY <2>2, <2>5 DEF ExclusionWarnings, Modes
  <2>7. Accounted'
    BY <2>2, <2>3, <2>6 DEF IInv, Accounted
  <2> QED
    BY <2>2, <2>4, <2>7 DEF IInv
<1> QED
  BY <1>1, <1>2

(* Presentation adds warnings and leaves the candidates as they are.       *)
LEMMA PresentKeeps == ASSUME IInv, Present PROVE IInv'
<1>1. UNCHANGED <<request, pool, cut, unrecorded, gated, lost>>
  BY DEF Present, history
<1>2. warnings \subseteq warnings' /\ pc' = "done"
  <2>1. CASE PresentClaim
    BY <2>1 DEF PresentClaim, Answer
  <2>2. CASE PresentTimeline
    BY <2>2 DEF PresentTimeline, Answer, Warn, _maybe_summarize
  <2>3. CASE PresentThematic
    <3>1. \/ \E groups, codes : _build_groups(groups, codes)
          \/ \E groups, evidence, codes : Answer(groups, evidence, TRUE) /\ Warn(codes)
      BY <2>3 DEF PresentThematic, _cluster
    <3> QED
      BY <3>1 DEF _build_groups, Answer, Warn
  <2> QED
    BY <2>1, <2>2, <2>3 DEF Present
<1>3. Told'
  BY <1>1, <1>2, ToldStays DEF IInv
<1>4. Accounted'
  BY <1>1, <1>2 DEF IInv, Accounted
<1> QED
  BY <1>1, <1>3, <1>4 DEF IInv

LEMMA RecallKeeps ==
  ASSUME IInv, NEW lexical \in Outcomes, NEW vector \in VectorOutcomes, Recall(lexical, vector)
  PROVE  IInv'
<1>1. vector.state \in {"answered", "down", "blocked", "unembedded"}
  BY DEF VectorOutcomes, Outcomes
<1>2. CASE RecallClaim(lexical, vector)
  BY <1>1, <1>2, RecalledKeeps DEF RecallClaim
<1>3. CASE RecallTimeline(lexical, vector)
  BY <1>1, <1>3, RecalledKeeps DEF RecallTimeline
<1>4. CASE RecallThematic(lexical, vector)
  BY <1>1, <1>4, RecalledKeeps DEF RecallThematic
<1> QED
  BY <1>2, <1>3, <1>4 DEF Recall

(* IInv is inductive.                                                      *)
LEMMA StepKeeps == IInv /\ [Next]_vars => IInv'
<1> SUFFICES ASSUME IInv, [Next]_vars PROVE IInv'
  OBVIOUS
<1>1. CASE Resolve
  <2>1. CASE Refuse
    BY <2>1, RefuseKeeps
  <2>2. CASE ~Refuse
    <3>1. /\ UNCHANGED <<request, warnings, cut, unrecorded, gated, lost>>
          /\ pc' = "recall" /\ pc = "resolve"
      BY <1>1, <2>2 DEF Resolve, history
    <3> QED
      BY <3>1 DEF IInv, Told, Failed, Accounted
  <2> QED
    BY <2>1, <2>2
<1>2. CASE \E lexical \in Outcomes, vector \in VectorOutcomes : Recall(lexical, vector)
  BY <1>2, RecallKeeps
<1>3. CASE RerankClaim \/ RerankTimeline \/ Classify
  BY <1>3, RerankKeeps
<1>4. CASE JudgeThematic
  <2>1. pc = "rerank" /\ UNCHANGED <<cut, unrecorded>>
    BY <1>4 DEF JudgeThematic
  <2>2. Refuse \/ \E candidates, judged, codes : Gate(candidates, judged, codes)
    BY <1>4 DEF JudgeThematic
  <2> QED
    BY <2>1, <2>2, RefuseKeeps, GateKeeps
<1>5. CASE Hydrate
  BY <1>5, HydrateKeeps
<1>6. CASE Present
  BY <1>6, PresentKeeps
<1>7. CASE OverviewFails
  BY <1>7, RefuseKeeps DEF OverviewFails
<1>8. CASE Done \/ UNCHANGED vars
  <2>1. UNCHANGED <<request, pc, warnings, cut, unrecorded, gated, lost>>
    BY <1>8 DEF Done, vars, history
  <2> QED
    BY <2>1 DEF IInv, Told, Failed, Accounted
<1> QED
  BY <1>1, <1>2, <1>3, <1>4, <1>5, <1>6, <1>7, <1>8 DEF Next

(* FailedChannelIsTold: a channel that raised an error is named by a       *)
(* warning of the answer, whatever reranker, classifier, clusterer and     *)
(* repository did afterwards, and there is no answer with both channels    *)
(* failed.  A claim whose query got no vector is not among these: recall   *)
(* takes it for a channel that found nothing.                              *)
THEOREM FailuresAreAlwaysTold == Spec => []FailedChannelIsTold
<1>1. IInv => FailedChannelIsTold
  BY DEF IInv, Told, Failed, FailedChannelIsTold
<1> QED
  BY <1>1, InitHolds, StepKeeps, PTL DEF Spec

-----------------------------------------------------------------------------
(* A list of candidates names an evidence id once.                         *)
Listed(s) ==
  /\ s \in Seq(Candidates)
  /\ \A i, j \in 1 .. Len(s) : s[i].id = s[j].id => i = j

(* A set of candidates has one of an id.                                   *)
OnePerId(T) == T \subseteq Candidates /\ \A c, d \in T : c.id = d.id => c = d

(* The members of a list are as many as its places.                        *)
LEMMA ListedMembers ==
  ASSUME NEW s, Listed(s)
  PROVE  /\ OnePerId(ToSet(s)) /\ IsFiniteSet(ToSet(s)) /\ Cardinality(ToSet(s)) = Len(s)
         /\ IdSet(s) = {c.id : c \in ToSet(s)} /\ IdSet(s) \subseteq Ids
<1>1. Len(s) \in Nat /\ DOMAIN s = 1 .. Len(s) /\ \A i \in 1 .. Len(s) : s[i] \in Candidates
  BY DEF Listed
<1>2. IsFiniteSet(1 .. Len(s)) /\ Cardinality(1 .. Len(s)) = Len(s)
  BY <1>1, FS_Interval
<1>3. s \in [1 .. Len(s) -> ToSet(s)]
  BY DEF Listed, ToSet
<1>4. s \in Surjection(1 .. Len(s), ToSet(s)) /\ s \in Injection(1 .. Len(s), ToSet(s))
  BY <1>1, <1>3 DEF Surjection, Injection, IsInjective, ToSet, Listed
<1>5. IsFiniteSet(ToSet(s)) /\ Cardinality(ToSet(s)) = Len(s)
  BY <1>2, <1>4, FS_Surjection
<1>6. \A c \in Candidates : c.id \in Ids
  BY DEF Candidates
<1>7. OnePerId(ToSet(s))
  BY <1>1 DEF OnePerId, ToSet, Listed
<1>8. IdSet(s) = {c.id : c \in ToSet(s)}
  BY DEF IdSet, ToSet
<1>9. IdSet(s) \subseteq Ids
  BY <1>1, <1>6 DEF IdSet
<1> QED
  BY <1>5, <1>7, <1>8, <1>9

(* Of a list nothing is there twice after some of it is left out.          *)
LEMMA KeepListed ==
  ASSUME NEW s, Listed(s), NEW wanted
  PROVE  /\ Listed(Keep(s, wanted)) /\ Len(Keep(s, wanted)) <= Len(s)
         /\ ToSet(Keep(s, wanted)) = {c \in ToSet(s) : c \in wanted}
<1> DEFINE K == Keep(s, wanted)
<1>1. s \in Seq(Candidates)
  BY DEF Listed
<1>2. K \in Seq(Candidates) /\ Len(K) <= Len(s) /\ \E at : KeptAt(at, K, s, wanted)
  BY <1>1, KeepIs
<1> HIDE DEF K
<1>3. PICK at : KeptAt(at, K, s, wanted)
  BY <1>2
<1>4. /\ at \in [1 .. Len(K) -> 1 .. Len(s)]
      /\ \A k \in 1 .. Len(K) : K[k] = s[at[k]] /\ s[at[k]] \in wanted
      /\ \A j, k \in 1 .. Len(K) : at[j] < at[k] <=> j < k
      /\ \A i \in 1 .. Len(s) : s[i] \in wanted => \E k \in 1 .. Len(K) : at[k] = i
  BY <1>3 DEF KeptAt
<1>5. \A j, k \in 1 .. Len(K) : at[j] = at[k] => j = k
  <2> TAKE j, k \in 1 .. Len(K)
  <2>1. at[j] \in Nat /\ at[k] \in Nat /\ j \in Nat /\ k \in Nat
    BY <1>2, <1>4
  <2> QED
    BY <1>4, <2>1
<1>6. Listed(K)
  <2>1. ASSUME NEW j \in 1 .. Len(K), NEW k \in 1 .. Len(K), K[j].id = K[k].id
        PROVE  j = k
    <3>1. at[j] \in 1 .. Len(s) /\ at[k] \in 1 .. Len(s) /\ s[at[j]].id = s[at[k]].id
      BY <1>4, <2>1
    <3>2. at[j] = at[k]
      BY <3>1 DEF Listed
    <3> QED
      BY <1>5, <3>2
  <2> QED
    BY <1>2, <2>1 DEF Listed
<1>7. \A k \in 1 .. Len(K) : K[k] \in ToSet(s) /\ K[k] \in wanted
  BY <1>1, <1>4 DEF ToSet
<1>8. \A i \in 1 .. Len(s) : s[i] \in wanted => \E k \in 1 .. Len(K) : K[k] = s[i]
  BY <1>4
<1>9. ToSet(K) = {c \in ToSet(s) : c \in wanted}
  BY <1>1, <1>2, <1>7, <1>8 DEF ToSet
<1> QED
  BY <1>2, <1>6, <1>9 DEF K

(* First cuts a sequence.                                                  *)
LEMMA FirstIs ==
  ASSUME NEW S, NEW s \in Seq(S), NEW n \in Nat
  PROVE  /\ First(s, n) \in Seq(S)
         /\ Len(First(s, n)) = IF n < Len(s) THEN n ELSE Len(s)
         /\ \A i \in 1 .. Len(First(s, n)) : First(s, n)[i] = s[i] /\ i \in 1 .. Len(s)
         /\ n >= Len(s) => First(s, n) = s
<1> DEFINE m == IF n < Len(s) THEN n ELSE Len(s)
<1>1. m \in 0 .. Len(s) /\ m \in Nat /\ Len(s) \in Nat
  OBVIOUS
<1>2. First(s, n) = SubSeq(s, 1, m)
  BY DEF First
<1>3. SubSeq(s, 1, m) \in Seq(S) /\ Len(SubSeq(s, 1, m)) = m /\
        \A i \in 1 .. m : SubSeq(s, 1, m)[i] = s[i]
  BY <1>1
<1>4. n >= Len(s) => SubSeq(s, 1, m) = s
  BY <1>1
<1> HIDE DEF m
<1>5. \A i \in 1 .. m : i \in 1 .. Len(s)
  BY <1>1
<1> QED
  BY <1>2, <1>3, <1>4, <1>5 DEF m

(* A cut of a list is a list.                                              *)
LEMMA FirstListed ==
  ASSUME NEW s, Listed(s), NEW n \in Nat
  PROVE  Listed(First(s, n)) /\ ToSet(First(s, n)) \subseteq ToSet(s) /\ Len(First(s, n)) <= n
<1>1. s \in Seq(Candidates)
  BY DEF Listed
<1> DEFINE f == First(s, n)
<1>2. /\ f \in Seq(Candidates) /\ Len(f) = IF n < Len(s) THEN n ELSE Len(s)
      /\ \A i \in 1 .. Len(f) : f[i] = s[i] /\ i \in 1 .. Len(s)
  BY <1>1, FirstIs
<1> HIDE DEF f
<1>3. Listed(f)
  BY <1>2 DEF Listed
<1>4. ToSet(f) \subseteq ToSet(s)
  BY <1>1, <1>2 DEF ToSet
<1> QED
  BY <1>1, <1>2, <1>3, <1>4 DEF f

(* What is sorted is a list of what was to be sorted.                      *)
LEMMA SortedListed ==
  ASSUME NEW before, Orders(before), OnePerId(DOMAIN before), IsFiniteSet(DOMAIN before)
  PROVE  /\ Listed(InOrder(before)) /\ ToSet(InOrder(before)) = DOMAIN before
         /\ Sorts(InOrder(before), before)
<1> DEFINE q == InOrder(before)
<1>1. Sorts(q, before)
  BY SortsIs
<1> HIDE DEF q
<1>2. \A j, k \in 1 .. Len(q) : q[j] = q[k] => j = k
  BY <1>1, SortsOnce
<1>3. q \in Seq(DOMAIN before)
  BY <1>1 DEF Sorts
<1>4. DOMAIN before \subseteq Candidates
  BY DEF OnePerId
<1>5. Len(q) \in Nat /\ \A k \in 1 .. Len(q) : q[k] \in Candidates
  BY <1>3, <1>4
<1>6. q = [k \in 1 .. Len(q) |-> q[k]]
  BY <1>3
<1>7. q \in [1 .. Len(q) -> Candidates]
  BY <1>5, <1>6
<1>8. q \in Seq(Candidates)
  BY <1>5, <1>7, IsSeq
<1>9. Listed(q)
  <2>1. \A j, k \in 1 .. Len(q) : q[j].id = q[k].id => q[j] = q[k]
    BY <1>3 DEF OnePerId
  <2> QED
    BY <1>2, <1>8, <2>1 DEF Listed
<1>10. ToSet(q) = DOMAIN before
  <2>1. DOMAIN q = 1 .. Len(q) /\ \A k \in 1 .. Len(q) : q[k] \in DOMAIN before
    BY <1>3
  <2>2. \A x \in DOMAIN before : \E k \in 1 .. Len(q) : q[k] = x
    BY <1>1 DEF Sorts
  <2> QED
    BY <2>1, <2>2 DEF ToSet
<1> QED
  BY <1>1, <1>9, <1>10 DEF q

-----------------------------------------------------------------------------
(* The orders of the pipelines are orders of candidates that have          *)
(* different ids.                                                          *)
LEMMA IdsAreNumbers == \A c \in Candidates : c.id \in Nat /\ c.id \in Ids /\ c.fusion \in Nat
BY FusionAssumption DEF Candidates

(* Ordered lists candidates by score, equal scores by id.                  *)
LEMMA OrderedListed ==
  ASSUME NEW T, OnePerId(T), IsFiniteSet(T)
  PROVE  /\ Listed(Ordered(T)) /\ ToSet(Ordered(T)) = T
         /\ \A j, k \in 1 .. Len(Ordered(T)) : Before(Ordered(T)[j], Ordered(T)[k]) <=> j < k
<1> DEFINE before == [c \in T |-> {d \in T : Before(d, c)}]
<1>1. DOMAIN before = T /\ \A c, d \in T : d \in before[c] <=> Before(d, c)
  OBVIOUS
<1>2. \A c \in T : before[c] \subseteq T
  OBVIOUS
<1>3. \A c \in T : c \in Candidates /\ c.id \in Nat /\ c.fusion \in Nat
  BY IdsAreNumbers DEF OnePerId
<1>4. \A c, d \in T : c.id = d.id => c = d
  BY DEF OnePerId
<1> HIDE DEF before
<1>5. Orders(before)
  <2>1. \A c \in T : c \notin before[c]
    BY <1>1, <1>3 DEF Before
  <2>2. \A c, d, e \in T : e \in before[d] /\ d \in before[c] => e \in before[c]
    BY <1>1, <1>3 DEF Before
  <2>3. \A c, d \in T : c = d \/ c \in before[d] \/ d \in before[c]
    BY <1>1, <1>3, <1>4 DEF Before
  <2> QED
    BY <1>1, <1>2, <2>1, <2>2, <2>3 DEF Orders
<1>6. Ordered(T) = InOrder(before)
  BY DEF Ordered, before
<1>7. Listed(Ordered(T)) /\ ToSet(Ordered(T)) = T /\ Sorts(Ordered(T), before)
  BY <1>1, <1>5, <1>6, SortedListed
<1>8. \A k \in 1 .. Len(Ordered(T)) : Ordered(T)[k] \in T
  BY <1>1, <1>7 DEF Sorts
<1> QED
  BY <1>1, <1>7, <1>8 DEF Sorts

(* _group_sort_key orders what a claim displays.                           *)
LEMMA SortsBeforeOrders ==
  ASSUME NEW T, OnePerId(T)
  PROVE  Orders([c \in T |-> {d \in T : SortsBefore(d, c)}])
<1> DEFINE before == [c \in T |-> {d \in T : SortsBefore(d, c)}]
<1>1. DOMAIN before = T /\ \A c, d \in T : d \in before[c] <=> SortsBefore(d, c)
  OBVIOUS
<1>2. \A c \in T : before[c] \subseteq T
  OBVIOUS
<1>3. \A c \in T : c.id \in Nat /\ c.fusion \in Nat /\ c.rerank \in Nat /\ c.vrank \in Nat
  BY IdsAreNumbers, FusionAssumption DEF OnePerId, Candidates
<1>4. \A c, d \in T : c.id = d.id => c = d
  BY DEF OnePerId
<1> HIDE DEF before
<1>5. \A c \in T : c \notin before[c]
  BY <1>1, <1>3 DEF SortsBefore, VectorWorse
<1>6. \A c, d, e \in T : e \in before[d] /\ d \in before[c] => e \in before[c]
  BY <1>1, <1>3 DEF SortsBefore, VectorWorse
<1>7. \A c, d \in T : c = d \/ c \in before[d] \/ d \in before[c]
  BY <1>1, <1>3, <1>4 DEF SortsBefore, VectorWorse
<1>8. Orders(before)
  BY <1>1, <1>2, <1>5, <1>6, <1>7 DEF Orders
<1> QED
  BY <1>8 DEF before

-----------------------------------------------------------------------------
(* The groups of an answer have different keys, and a candidate is in one  *)
(* of them, once.                                                          *)
Grouped(groups) ==
  /\ Len(groups) \in Nat /\ groups \in [1 .. Len(groups) -> ToSet(groups)]
  /\ \A i \in 1 .. Len(groups) :
       groups[i] = Group(groups[i].key, groups[i].members) /\ Listed(groups[i].members)
  /\ \A i, j \in 1 .. Len(groups) :
       i # j => /\ groups[i].key # groups[j].key
                /\ \A k \in 1 .. Len(groups[i].members), l \in 1 .. Len(groups[j].members) :
                     groups[i].members[k].id # groups[j].members[l].id

(* Two groups have nothing in common.                                      *)
LEMMA GroupsApart ==
  ASSUME NEW groups, Grouped(groups),
         NEW i \in 1 .. Len(groups), NEW j \in 1 .. Len(groups), i # j
  PROVE  /\ groups[i].key # groups[j].key
         /\ \A k \in 1 .. Len(groups[i].members), l \in 1 .. Len(groups[j].members) :
              groups[i].members[k].id # groups[j].members[l].id
BY DEF Grouped

MembersOf(groups) == [i \in DOMAIN groups |-> groups[i].members]

(* The members of groups are a sequence of lists.                          *)
LEMMA MembersAreLists ==
  ASSUME NEW groups, Grouped(groups)
  PROVE  /\ MembersOf(groups) \in Seq(Seq(Candidates)) /\ Len(MembersOf(groups)) = Len(groups)
         /\ DOMAIN groups = 1 .. Len(groups)
         /\ \A i \in 1 .. Len(groups) : MembersOf(groups)[i] = groups[i].members
         /\ Flatten(groups) = Joined(MembersOf(groups))
<1>1. DOMAIN groups = 1 .. Len(groups) /\ Len(groups) \in Nat
  BY DEF Grouped
<1>2. \A i \in 1 .. Len(groups) : groups[i].members \in Seq(Candidates)
  BY DEF Grouped, Listed
<1>3. MembersOf(groups) \in [1 .. Len(groups) -> Seq(Candidates)]
  BY <1>1, <1>2 DEF MembersOf
<1>4. MembersOf(groups) \in Seq(Seq(Candidates)) /\ Len(MembersOf(groups)) = Len(groups)
  BY <1>1, <1>3, IsSeq
<1> QED
  BY <1>1, <1>4 DEF MembersOf, Flatten

(* What the groups have, one after the other, is a list of it.             *)
LEMMA FlattenIs ==
  ASSUME NEW groups, Grouped(groups)
  PROVE  /\ Listed(Flatten(groups))
         /\ ToSet(Flatten(groups)) = UNION {ToSet(groups[i].members) : i \in DOMAIN groups}
<1> DEFINE A == MembersOf(groups)
           J == Joined(A)
<1>1. /\ A \in Seq(Seq(Candidates)) /\ Len(A) = Len(groups) /\ DOMAIN groups = 1 .. Len(groups)
      /\ \A i \in 1 .. Len(groups) : A[i] = groups[i].members
      /\ Flatten(groups) = J
  BY MembersAreLists
<1> HIDE DEF A
<1>2. PICK at : JoinedAt(at, J, A)
  BY <1>1, JoinedIs
<1>3. /\ at \in [1 .. Len(J) -> Places(A)] /\ at = InOrder(PlacesBefore(A))
      /\ \A k \in 1 .. Len(J) : J[k] = A[at[k][1]][at[k][2]]
      /\ \A j, k \in 1 .. Len(J) : PairBefore(at[j], at[k]) <=> j < k
      /\ \A p \in Places(A) : \E k \in 1 .. Len(J) : at[k] = p
  BY <1>2 DEF JoinedAt
<1>4. J \in Seq(Candidates)
  BY <1>1, JoinedIs
<1>5. /\ \A p \in Places(A) : /\ p[1] \in 1 .. Len(A) /\ p[2] \in 1 .. Len(A[p[1]])
                             /\ p = <<p[1], p[2]>>
      /\ \A i \in 1 .. Len(A) : \A j \in 1 .. Len(A[i]) : <<i, j>> \in Places(A)
  BY <1>1, PlacesOrder
<1> HIDE DEF J
<1>6. Len(J) \in Nat /\ DOMAIN J = 1 .. Len(J)
  BY <1>4
<1>7. \A i, j \in 1 .. Len(groups) :
        i # j => \A k \in 1 .. Len(groups[i].members), l \in 1 .. Len(groups[j].members) :
                   groups[i].members[k].id # groups[j].members[l].id
  BY DEF Grouped
<1>8. \A i \in 1 .. Len(groups) : \A k, l \in 1 .. Len(groups[i].members) :
        groups[i].members[k].id = groups[i].members[l].id => k = l
  BY DEF Grouped, Listed
<1>9. \A p, q \in Places(A) : A[p[1]][p[2]].id = A[q[1]][q[2]].id => p = q
  <2> TAKE p, q \in Places(A)
  <2>1. p[1] \in 1 .. Len(groups) /\ q[1] \in 1 .. Len(groups)
    BY <1>1, <1>5
  <2>2. /\ p[2] \in 1 .. Len(groups[p[1]].members) /\ q[2] \in 1 .. Len(groups[q[1]].members)
        /\ A[p[1]][p[2]] = groups[p[1]].members[p[2]] /\
             A[q[1]][q[2]] = groups[q[1]].members[q[2]]
    BY <1>1, <1>5
  <2>3. p[1] # q[1] => A[p[1]][p[2]].id # A[q[1]][q[2]].id
    BY <1>7, <2>1, <2>2
  <2>4. ASSUME p[1] = q[1], A[p[1]][p[2]].id = A[q[1]][q[2]].id PROVE p[2] = q[2]
    <3> DEFINE i == p[1]
               k == p[2]
               l == q[2]
    <3>1. i \in 1 .. Len(groups) /\ k \in 1 .. Len(groups[i].members) /\ l \in 1 .. Len(groups[i].members)
      BY <2>1, <2>2, <2>4
    <3>2. groups[i].members[k].id = groups[i].members[l].id
      BY <2>2, <2>4
    <3> HIDE DEF i, k, l
    <3>3. k = l
      BY <1>8, <3>1, <3>2
    <3> QED
      BY <3>3 DEF k, l
  <2> QED
    BY <1>5, <2>3, <2>4
<1>10. \A j, k \in 1 .. Len(J) : J[j].id = J[k].id => j = k
  <2> TAKE j, k \in 1 .. Len(J)
  <2>1. J[j].id = J[k].id => at[j] = at[k]
    BY <1>3, <1>9
  <2>2. at[j] = at[k] => (PairBefore(at[j], at[k]) <=> PairBefore(at[k], at[j]))
    OBVIOUS
  <2>3. at[j] = at[k] => (j < k <=> k < j)
    BY <1>3, <2>2
  <2> QED
    BY <1>6, <2>1, <2>3
<1>11. Listed(J)
  BY <1>4, <1>10 DEF Listed
<1>12. \A i \in 1 .. Len(groups) : /\ DOMAIN groups[i].members = 1 .. Len(groups[i].members)
                                  /\ A[i] = groups[i].members
  BY <1>1 DEF Grouped, Listed
<1>13. ToSet(J) = UNION {ToSet(groups[i].members) : i \in DOMAIN groups}
  <2>1. ASSUME NEW k \in 1 .. Len(J)
        PROVE  J[k] \in UNION {ToSet(groups[i].members) : i \in DOMAIN groups}
    <3>1. /\ at[k][1] \in DOMAIN groups /\ at[k][2] \in DOMAIN groups[at[k][1]].members
          /\ J[k] = groups[at[k][1]].members[at[k][2]]
      BY <1>1, <1>3, <1>5, <1>12
    <3>2. J[k] \in ToSet(groups[at[k][1]].members)
      BY <3>1 DEF ToSet
    <3> QED
      BY <3>1, <3>2
  <2>2. ASSUME NEW i \in 1 .. Len(groups), NEW l \in 1 .. Len(groups[i].members)
        PROVE  \E k \in 1 .. Len(J) : J[k] = groups[i].members[l]
    <3>1. <<i, l>> \in Places(A)
      BY <1>1, <1>5, <1>12
    <3>2. PICK k \in 1 .. Len(J) : at[k] = <<i, l>>
      BY <1>3, <3>1
    <3> QED
      BY <1>3, <1>12, <3>2
  <2>3. ToSet(J) \subseteq UNION {ToSet(groups[i].members) : i \in DOMAIN groups}
    BY <1>6, <2>1 DEF ToSet
  <2>4. ASSUME NEW i \in DOMAIN groups PROVE ToSet(groups[i].members) \subseteq ToSet(J)
    <3>1. i \in 1 .. Len(groups)
      BY <1>1
    <3>2. SUFFICES ASSUME NEW l \in 1 .. Len(groups[i].members)
                   PROVE  groups[i].members[l] \in ToSet(J)
      BY <1>12, <3>1 DEF ToSet
    <3>3. PICK k \in 1 .. Len(J) : J[k] = groups[i].members[l]
      BY <2>2, <3>1
    <3> QED
      BY <1>6, <3>3 DEF ToSet
  <2> QED
    BY <2>3, <2>4
<1> QED
  BY <1>1, <1>11, <1>13

(* Places of the members of groups.                                        *)
LEMMA MemberPlaces ==
  ASSUME NEW groups, Grouped(groups)
  PROVE  /\ \A p \in Places(MembersOf(groups)) :
              /\ p[1] \in 1 .. Len(groups) /\ p[2] \in 1 .. Len(groups[p[1]].members)
              /\ p = <<p[1], p[2]>>
              /\ MembersOf(groups)[p[1]][p[2]] = groups[p[1]].members[p[2]]
              /\ MembersOf(groups)[p[1]][p[2]] \in ToSet(Flatten(groups))
         /\ \A i \in 1 .. Len(groups) : \A j \in 1 .. Len(groups[i].members) :
              <<i, j>> \in Places(MembersOf(groups))
<1> DEFINE A == MembersOf(groups)
<1>1. /\ A \in Seq(Seq(Candidates)) /\ Len(A) = Len(groups) /\ DOMAIN groups = 1 .. Len(groups)
      /\ \A i \in 1 .. Len(groups) : A[i] = groups[i].members
  BY MembersAreLists
<1> HIDE DEF A
<1>2. /\ \A p \in Places(A) : /\ p[1] \in 1 .. Len(A) /\ p[2] \in 1 .. Len(A[p[1]])
                             /\ p = <<p[1], p[2]>>
      /\ \A i \in 1 .. Len(A) : \A j \in 1 .. Len(A[i]) : <<i, j>> \in Places(A)
  BY <1>1, PlacesOrder
<1>3. \A p \in Places(A) :
        /\ p[1] \in 1 .. Len(groups) /\ p[2] \in 1 .. Len(groups[p[1]].members)
        /\ p = <<p[1], p[2]>> /\ A[p[1]][p[2]] = groups[p[1]].members[p[2]]
  BY <1>1, <1>2
<1>4. ToSet(Flatten(groups)) = UNION {ToSet(groups[i].members) : i \in DOMAIN groups}
  BY FlattenIs
<1>5. \A i \in 1 .. Len(groups) : DOMAIN groups[i].members = 1 .. Len(groups[i].members)
  BY DEF Grouped, Listed
<1>6. ASSUME NEW p \in Places(A) PROVE A[p[1]][p[2]] \in ToSet(Flatten(groups))
  <2>1. p[1] \in DOMAIN groups /\ p[2] \in DOMAIN groups[p[1]].members
    BY <1>1, <1>3, <1>5
  <2>2. groups[p[1]].members[p[2]] \in ToSet(groups[p[1]].members)
    BY <2>1 DEF ToSet
  <2> QED
    BY <1>3, <1>4, <2>1, <2>2
<1>7. \A i \in 1 .. Len(groups) : \A j \in 1 .. Len(groups[i].members) : <<i, j>> \in Places(A)
  BY <1>1, <1>2
<1> QED
  BY <1>3, <1>6, <1>7 DEF A

(* Where all is wanted all is kept.                                        *)
LEMMA KeepAll ==
  ASSUME NEW S, NEW s \in Seq(S), NEW wanted, \A i \in 1 .. Len(s) : s[i] \in wanted
  PROVE  Keep(s, wanted) = s
<1>1. Len(s) \in 0 .. Len(s) /\ \A i \in 1 .. Len(s) : s[i] \in wanted <=> i <= Len(s)
  OBVIOUS
<1>2. Keep(s, wanted) = SubSeq(s, 1, Len(s))
  BY <1>1, KeepPrefix
<1>3. SubSeq(s, 1, Len(s)) = s
  OBVIOUS
<1> QED
  BY <1>2, <1>3

(* Empty groups can go: what the groups have stays as it is.               *)
LEMMA NonEmptyIs ==
  ASSUME NEW groups, Grouped(groups)
  PROVE  /\ Grouped(NonEmpty(groups)) /\ Flatten(NonEmpty(groups)) = Flatten(groups)
         /\ \A i \in 1 .. Len(NonEmpty(groups)) : NonEmpty(groups)[i].members # <<>>
         /\ \A i \in 1 .. Len(NonEmpty(groups)) : NonEmpty(groups)[i] \in ToSet(groups)
<1> DEFINE W == {g \in ToSet(groups) : g.members # <<>>}
           N == NonEmpty(groups)
           all == ToSet(Flatten(groups))
<1>1. Len(groups) \in Nat /\ groups \in Seq(ToSet(groups)) /\ DOMAIN groups = 1 .. Len(groups)
  BY IsSeq DEF Grouped
<1>2. N = Keep(groups, W)
  BY DEF NonEmpty
<1>3. N \in Seq(ToSet(groups)) /\ \E at : KeptAt(at, N, groups, W)
  BY <1>1, <1>2, KeepIs
<1> HIDE DEF N
<1>4. PICK at : KeptAt(at, N, groups, W)
  BY <1>3
<1>5. /\ at \in [1 .. Len(N) -> 1 .. Len(groups)]
      /\ \A k \in 1 .. Len(N) : N[k] = groups[at[k]] /\ groups[at[k]].members # <<>>
      /\ \A j, k \in 1 .. Len(N) : at[j] < at[k] <=> j < k
      /\ \A i \in 1 .. Len(groups) : groups[i].members # <<>> =>
           \E k \in 1 .. Len(N) : at[k] = i
  BY <1>1, <1>4 DEF KeptAt, ToSet
<1>6. Len(N) \in Nat /\ DOMAIN N = 1 .. Len(N) /\ N = [k \in 1 .. Len(N) |-> N[k]]
  BY <1>3
<1>7. \A j, k \in 1 .. Len(N) : j # k => at[j] # at[k]
  <2> TAKE j, k \in 1 .. Len(N)
  <2>1. at[j] \in Nat /\ at[k] \in Nat /\ j \in Nat /\ k \in Nat
    BY <1>1, <1>5, <1>6
  <2> QED
    BY <1>5, <2>1
<1>8. Grouped(N)
  <2>1. \A k \in 1 .. Len(N) : N[k] \in ToSet(N)
    BY <1>6 DEF ToSet
  <2>2. N \in [1 .. Len(N) -> ToSet(N)]
    BY <1>6, <2>1
  <2>3. \A k \in 1 .. Len(N) : N[k] = Group(N[k].key, N[k].members) /\ Listed(N[k].members)
    BY <1>5 DEF Grouped
  <2>4. \A i, j \in 1 .. Len(N) :
          i # j => /\ N[i].key # N[j].key
                   /\ \A k \in 1 .. Len(N[i].members), l \in 1 .. Len(N[j].members) :
                        N[i].members[k].id # N[j].members[l].id
    <3> TAKE i, j \in 1 .. Len(N)
    <3>1. HAVE i # j
    <3>2. /\ at[i] \in 1 .. Len(groups) /\ at[j] \in 1 .. Len(groups) /\ at[i] # at[j]
          /\ N[i] = groups[at[i]] /\ N[j] = groups[at[j]]
      BY <1>5, <1>7, <3>1
    <3>3. /\ groups[at[i]].key # groups[at[j]].key
          /\ \A k \in 1 .. Len(groups[at[i]].members), l \in 1 .. Len(groups[at[j]].members) :
               groups[at[i]].members[k].id # groups[at[j]].members[l].id
      BY <3>2, GroupsApart
    <3> QED
      BY <3>2, <3>3
  <2> QED
    BY <1>6, <2>2, <2>3, <2>4 DEF Grouped
<1> DEFINE A == MembersOf(groups)
           B == MembersOf(N)
           f == [p \in Places(B) |-> <<at[p[1]], p[2]>>]
<1>9. /\ A \in Seq(Seq(Candidates)) /\ B \in Seq(Seq(Candidates))
      /\ Flatten(groups) = Joined(A) /\ Flatten(N) = Joined(B)
  BY <1>8, MembersAreLists
<1>10. /\ \A p \in Places(A) : /\ p[1] \in 1 .. Len(groups) /\
                                    p[2] \in 1 .. Len(groups[p[1]].members)
                               /\ p = <<p[1], p[2]>> /\ A[p[1]][p[2]] =
                                    groups[p[1]].members[p[2]]
                               /\ A[p[1]][p[2]] \in all
       /\ \A i \in 1 .. Len(groups) : \A j \in 1 .. Len(groups[i].members) :
            <<i, j>> \in Places(A)
  BY MemberPlaces
<1>11. /\ \A p \in Places(B) : /\ p[1] \in 1 .. Len(N) /\ p[2] \in 1 .. Len(N[p[1]].members)
                               /\ p = <<p[1], p[2]>> /\ B[p[1]][p[2]] = N[p[1]].members[p[2]]
       /\ \A i \in 1 .. Len(N) : \A j \in 1 .. Len(N[i].members) : <<i, j>> \in Places(B)
  BY <1>8, MemberPlaces
<1> HIDE DEF A, B, all
<1>12. \A p \in Places(B) : /\ f[p] \in Places(A) /\ f[p] = <<at[p[1]], p[2]>>
                            /\ B[p[1]][p[2]] = A[f[p][1]][f[p][2]] /\ B[p[1]][p[2]] \in all
  <2> TAKE p \in Places(B)
  <2>1. /\ at[p[1]] \in 1 .. Len(groups) /\ p[2] \in 1 .. Len(groups[at[p[1]]].members)
        /\ B[p[1]][p[2]] = groups[at[p[1]]].members[p[2]]
    BY <1>5, <1>11
  <2>2. f[p] = <<at[p[1]], p[2]>> /\ f[p][1] = at[p[1]] /\ f[p][2] = p[2]
    OBVIOUS
  <2>3. f[p] \in Places(A)
    BY <1>10, <2>1, <2>2
  <2>4. A[f[p][1]][f[p][2]] = groups[at[p[1]]].members[p[2]] /\ A[f[p][1]][f[p][2]] \in all
    BY <1>10, <2>2, <2>3
  <2> QED
    BY <2>1, <2>2, <2>3, <2>4
<1>13. \A p, q \in Places(B) : PairBefore(p, q) => PairBefore(f[p], f[q])
  <2> TAKE p, q \in Places(B)
  <2>1. /\ p[1] \in 1 .. Len(N) /\ q[1] \in 1 .. Len(N)
        /\ f[p][1] = at[p[1]] /\ f[p][2] = p[2] /\ f[q][1] = at[q[1]] /\ f[q][2] = q[2]
    BY <1>11, <1>12
  <2> QED
    BY <1>5, <2>1 DEF PairBefore
<1>14. \A p \in Places(A) : \E q \in Places(B) : f[q] = p
  <2> TAKE p \in Places(A)
  <2>1. groups[p[1]].members # <<>>
    <3>1. p[2] \in 1 .. Len(groups[p[1]].members) /\ Len(groups[p[1]].members) \in Nat
      BY <1>10 DEF Grouped, Listed
    <3>2. Len(groups[p[1]].members) # 0 /\ Len(<<>>) = 0
      BY <3>1
    <3> QED
      BY <3>2
  <2>2. PICK k \in 1 .. Len(N) : at[k] = p[1]
    BY <1>5, <1>10, <2>1
  <2>3. N[k] = groups[p[1]]
    BY <1>5, <2>2
  <2>4. <<k, p[2]>> \in Places(B)
    BY <1>10, <1>11, <2>3
  <2>5. f[<<k, p[2]>>] = <<p[1], p[2]>>
    BY <2>2, <2>4
  <2> QED
    BY <1>10, <2>4, <2>5
<1>15. PartAt(f, B, A, all)
  <2>1. f \in [Places(B) -> Places(A)]
    BY <1>12
  <2> HIDE DEF f
  <2> QED
    BY <2>1, <1>12, <1>13, <1>14 DEF PartAt
<1> HIDE DEF f
<1>16. Joined(B) = Keep(Joined(A), all)
  BY <1>9, <1>15, JoinedPart
<1>17. Joined(A) \in Seq(Candidates) /\ \A i \in 1 .. Len(Joined(A)) : Joined(A)[i] \in all
  BY <1>9, FlattenIs DEF all, Listed, ToSet
<1>18. Flatten(N) = Flatten(groups)
  BY <1>9, <1>16, <1>17, KeepAll
<1>19. \A k \in 1 .. Len(N) : N[k].members # <<>>
  BY <1>5
<1> QED
  BY <1>3, <1>8, <1>18, <1>19 DEF N

(* The page of a list is what has an id of the page.                       *)
LEMMA PageIsKept ==
  ASSUME NEW s, Listed(s), NEW n \in Nat, NEW wanted,
         \A c \in ToSet(s) : c \in wanted <=> c.id \in IdSet(First(s, n))
  PROVE  Keep(s, wanted) = First(s, n)
<1> DEFINE m == IF n < Len(s) THEN n ELSE Len(s)
           page == First(s, n)
<1>1. s \in Seq(Candidates) /\ Len(s) \in Nat /\ DOMAIN s = 1 .. Len(s)
  BY DEF Listed
<1>2. m \in 0 .. Len(s) /\ m \in Nat
  BY <1>1
<1>3. /\ page \in Seq(Candidates) /\ Len(page) = m
      /\ \A i \in 1 .. m : page[i] = s[i]
  BY <1>1, FirstIs
<1>4. page = SubSeq(s, 1, m)
  BY DEF First
<1> HIDE DEF m, page
<1>5. DOMAIN page = 1 .. m
  BY <1>3
<1>6. ASSUME NEW i \in 1 .. Len(s) PROVE s[i] \in wanted <=> i <= m
  <2>1. s[i] \in wanted <=> \E j \in 1 .. m : s[j].id = s[i].id
    <3>1. s[i] \in wanted <=> s[i].id \in IdSet(page)
      BY <1>1 DEF ToSet, page
    <3>2. IdSet(page) = {page[j].id : j \in 1 .. m}
      BY <1>5 DEF IdSet
    <3> QED
      BY <1>3, <3>1, <3>2
  <2>2. \A j \in 1 .. m : j \in 1 .. Len(s)
    BY <1>1, <1>2
  <2>3. \A j \in 1 .. m : s[j].id = s[i].id => j = i
    BY <2>2 DEF Listed
  <2>4. i <= m => i \in 1 .. m
    BY <1>1, <1>2
  <2> QED
    BY <1>1, <1>2, <2>1, <2>3, <2>4
<1>7. Keep(s, wanted) = SubSeq(s, 1, m)
  BY <1>1, <1>2, <1>6, KeepPrefix
<1> QED
  BY <1>4, <1>7 DEF page

(* Cut down to the page, the groups have the page.                         *)
LEMMA TrimIs ==
  ASSUME NEW groups, Grouped(groups), NEW n \in Nat, NEW page, page = First(Flatten(groups), n)
  PROVE  Grouped(TrimGroups(groups, page)) /\ Flatten(TrimGroups(groups, page)) = page
<1> DEFINE onPage(i) == {c \in ToSet(groups[i].members) : c.id \in IdSet(page)}
           kept(i) == Keep(groups[i].members, onPage(i))
           trims == [i \in DOMAIN groups |-> Group(groups[i].key, kept(i))]
           W == {c \in ToSet(Flatten(groups)) : c.id \in IdSet(page)}
<1>1. Len(groups) \in Nat /\ DOMAIN groups = 1 .. Len(groups)
  BY DEF Grouped
<1>2. TrimGroups(groups, page) = NonEmpty(trims)
  BY DEF TrimGroups
<1>3. \A i \in 1 .. Len(groups) : groups[i].members \in Seq(Candidates) /\
        Listed(groups[i].members)
  BY DEF Grouped, Listed
<1>4. \A i \in 1 .. Len(groups) : /\ Listed(kept(i)) /\ Len(kept(i)) \in Nat
                                  /\ \E at : KeptAt(at, kept(i), groups[i].members, onPage(i))
  <2> TAKE i \in 1 .. Len(groups)
  <2>1. Listed(kept(i))
    BY <1>3, KeepListed
  <2>2. \E at : KeptAt(at, kept(i), groups[i].members, onPage(i))
    BY <1>3, KeepIs
  <2>3. \A s : Listed(s) => Len(s) \in Nat
    BY DEF Listed
  <2> HIDE DEF kept, onPage
  <2> QED
    BY <2>1, <2>2, <2>3
<1> DEFINE at == [i \in 1 .. Len(groups) |->
                    CHOOSE a : KeptAt(a, kept(i), groups[i].members, onPage(i))]
<1>5. \A i \in 1 .. Len(groups) : KeptAt(at[i], kept(i), groups[i].members, onPage(i))
  BY <1>4
<1>6. /\ Len(trims) = Len(groups) /\ DOMAIN trims = 1 .. Len(groups)
      /\ \A i \in 1 .. Len(groups) : trims[i] = Group(groups[i].key, kept(i))
  <2>1. trims \in [1 .. Len(groups) -> {trims[i] : i \in 1 .. Len(groups)}]
    BY <1>1
  <2> QED
    BY <1>1, <2>1, IsSeq
<1> HIDE DEF at, trims, W
<1> HIDE DEF kept
<1>7. \A i \in 1 .. Len(groups) : trims[i].key = groups[i].key /\ trims[i].members = kept(i)
  BY <1>6 DEF Group
<1>8. \A i \in 1 .. Len(groups) :
        /\ at[i] \in [1 .. Len(kept(i)) -> 1 .. Len(groups[i].members)]
        /\ \A k \in 1 .. Len(kept(i)) : /\ kept(i)[k] = groups[i].members[at[i][k]]
                                        /\ kept(i)[k].id \in IdSet(page)
        /\ \A j, k \in 1 .. Len(kept(i)) : at[i][j] < at[i][k] <=> j < k
        /\ \A l \in 1 .. Len(groups[i].members) :
             groups[i].members[l].id \in IdSet(page) =>
               \E k \in 1 .. Len(kept(i)) : at[i][k] = l
  <2> TAKE i \in 1 .. Len(groups)
  <2>1. DOMAIN groups[i].members = 1 .. Len(groups[i].members)
    BY <1>3
  <2>2. KeptAt(at[i], kept(i), groups[i].members, onPage(i))
    BY <1>5
  <2>3. \A l \in 1 .. Len(groups[i].members) :
          groups[i].members[l] \in onPage(i) <=> groups[i].members[l].id \in IdSet(page)
    BY <2>1 DEF ToSet
  <2> HIDE DEF onPage
  <2>4. \A k \in 1 .. Len(kept(i)) : at[i][k] \in 1 .. Len(groups[i].members)
    BY <2>2 DEF KeptAt
  <2> QED
    BY <2>2, <2>3, <2>4 DEF KeptAt
<1>9. Grouped(trims)
  <2>1. \A i \in 1 .. Len(groups) : trims[i] = Group(trims[i].key, trims[i].members) /\
          Listed(trims[i].members)
    BY <1>4, <1>6, <1>7
  <2>2. \A i, j \in 1 .. Len(groups) :
          i # j => /\ trims[i].key # trims[j].key
                   /\ \A k \in 1 .. Len(trims[i].members), l \in 1 .. Len(trims[j].members) :
                        trims[i].members[k].id # trims[j].members[l].id
    <3> TAKE i, j \in 1 .. Len(groups)
    <3>1. HAVE i # j
    <3>2. /\ groups[i].key # groups[j].key
          /\ \A k \in 1 .. Len(groups[i].members), l \in 1 .. Len(groups[j].members) :
               groups[i].members[k].id # groups[j].members[l].id
      BY <3>1, GroupsApart
    <3>3. /\ \A k \in 1 .. Len(kept(i)) : /\ at[i][k] \in 1 .. Len(groups[i].members)
                                          /\ kept(i)[k] = groups[i].members[at[i][k]]
          /\ \A k \in 1 .. Len(kept(j)) : /\ at[j][k] \in 1 .. Len(groups[j].members)
                                          /\ kept(j)[k] = groups[j].members[at[j][k]]
      BY <1>8
    <3>4. \A k \in 1 .. Len(kept(i)), l \in 1 .. Len(kept(j)) : kept(i)[k].id # kept(j)[l].id
      <4> TAKE k \in 1 .. Len(kept(i)), l \in 1 .. Len(kept(j))
      <4>1. /\ at[i][k] \in 1 .. Len(groups[i].members) /\
                 kept(i)[k] = groups[i].members[at[i][k]]
            /\ at[j][l] \in 1 .. Len(groups[j].members) /\
                 kept(j)[l] = groups[j].members[at[j][l]]
        BY <3>3
      <4>2. groups[i].members[at[i][k]].id # groups[j].members[at[j][l]].id
        BY <3>2, <4>1
      <4> QED
        BY <4>1, <4>2
    <3>5. trims[i].key # trims[j].key /\ trims[i].members = kept(i) /\ trims[j].members = kept(j)
      BY <1>7, <3>2
    <3> QED
      BY <3>4, <3>5
  <2>3. trims \in [1 .. Len(groups) -> ToSet(trims)]
    BY <1>6 DEF ToSet, trims
  <2> QED
    BY <1>1, <1>6, <2>1, <2>2, <2>3 DEF Grouped
<1> DEFINE A == MembersOf(groups)
           B == MembersOf(trims)
           f == [p \in Places(B) |-> <<p[1], at[p[1]][p[2]]>>]
<1>10. /\ A \in Seq(Seq(Candidates)) /\ B \in Seq(Seq(Candidates))
       /\ Flatten(groups) = Joined(A) /\ Flatten(trims) = Joined(B)
  BY <1>9, MembersAreLists
<1>11. /\ \A p \in Places(A) : /\ p[1] \in 1 .. Len(groups) /\
                                    p[2] \in 1 .. Len(groups[p[1]].members)
                               /\ p = <<p[1], p[2]>> /\ A[p[1]][p[2]] =
                                    groups[p[1]].members[p[2]]
                               /\ A[p[1]][p[2]] \in ToSet(Flatten(groups))
       /\ \A i \in 1 .. Len(groups) : \A j \in 1 .. Len(groups[i].members) :
            <<i, j>> \in Places(A)
  BY MemberPlaces
<1>12. /\ \A p \in Places(B) : /\ p[1] \in 1 .. Len(groups) /\ p[2] \in 1 .. Len(kept(p[1]))
                               /\ p = <<p[1], p[2]>> /\ B[p[1]][p[2]] = kept(p[1])[p[2]]
       /\ \A i \in 1 .. Len(groups) : \A j \in 1 .. Len(kept(i)) : <<i, j>> \in Places(B)
  BY <1>6, <1>7, <1>9, MemberPlaces
<1> HIDE DEF A, B
<1>13. \A p \in Places(B) : /\ f[p] \in Places(A) /\ f[p][1] = p[1] /\ f[p][2] = at[p[1]][p[2]]
                            /\ B[p[1]][p[2]] = A[f[p][1]][f[p][2]] /\ B[p[1]][p[2]] \in W
  <2> TAKE p \in Places(B)
  <2>1. /\ p[1] \in 1 .. Len(groups) /\ at[p[1]][p[2]] \in 1 .. Len(groups[p[1]].members)
        /\ B[p[1]][p[2]] = groups[p[1]].members[at[p[1]][p[2]]]
        /\ B[p[1]][p[2]].id \in IdSet(page)
    BY <1>8, <1>12
  <2>2. f[p] = <<p[1], at[p[1]][p[2]]>> /\ f[p][1] = p[1] /\ f[p][2] = at[p[1]][p[2]]
    OBVIOUS
  <2>3. f[p] \in Places(A)
    BY <1>11, <2>1, <2>2
  <2>4. /\ A[f[p][1]][f[p][2]] = groups[p[1]].members[at[p[1]][p[2]]]
        /\ A[f[p][1]][f[p][2]] \in ToSet(Flatten(groups))
    BY <1>11, <2>2, <2>3
  <2> QED
    BY <2>1, <2>2, <2>3, <2>4 DEF W
<1>14. \A p, q \in Places(B) : PairBefore(p, q) => PairBefore(f[p], f[q])
  <2> TAKE p, q \in Places(B)
  <2>1. /\ p[1] \in 1 .. Len(groups) /\ p[2] \in 1 .. Len(kept(p[1])) /\
             q[2] \in 1 .. Len(kept(q[1]))
        /\ f[p][1] = p[1] /\ f[p][2] = at[p[1]][p[2]] /\ f[q][1] = q[1] /\
             f[q][2] = at[q[1]][q[2]]
    BY <1>12, <1>13
  <2>2. p[1] = q[1] /\ p[2] < q[2] => at[p[1]][p[2]] < at[q[1]][q[2]]
    BY <1>8, <2>1
  <2> QED
    BY <2>1, <2>2 DEF PairBefore
<1>15. \A p \in Places(A) : A[p[1]][p[2]] \in W => \E q \in Places(B) : f[q] = p
  <2> TAKE p \in Places(A)
  <2>1. HAVE A[p[1]][p[2]] \in W
  <2>2. groups[p[1]].members[p[2]].id \in IdSet(page)
    BY <1>11, <2>1 DEF W
  <2>3. PICK k \in 1 .. Len(kept(p[1])) : at[p[1]][k] = p[2]
    BY <1>8, <1>11, <2>2
  <2>4. <<p[1], k>> \in Places(B)
    BY <1>11, <1>12
  <2>5. f[<<p[1], k>>] = <<p[1], p[2]>>
    BY <2>3, <2>4
  <2> QED
    BY <1>11, <2>4, <2>5
<1>16. PartAt(f, B, A, W)
  <2>1. f \in [Places(B) -> Places(A)]
    BY <1>13
  <2> HIDE DEF f
  <2> QED
    BY <2>1, <1>13, <1>14, <1>15 DEF PartAt
<1> HIDE DEF f
<1>17. Joined(B) = Keep(Joined(A), W)
  BY <1>10, <1>16, JoinedPart
<1>18. Keep(Flatten(groups), W) = page
  BY FlattenIs, PageIsKept DEF W
<1>19. Flatten(trims) = page
  BY <1>10, <1>17, <1>18
<1> QED
  BY <1>2, <1>9, <1>19, NonEmptyIs

(* The ids of what the groups have are what the groups of ids have.        *)
LEMMA IdsFlatten ==
  ASSUME NEW groups, Grouped(groups)
  PROVE  Flatten([i \in DOMAIN groups |-> Group(groups[i].key, IdsOf(groups[i].members))])
           = IdsOf(Flatten(groups))
<1> DEFINE given == [i \in DOMAIN groups |-> Group(groups[i].key, IdsOf(groups[i].members))]
           A == MembersOf(groups)
           B == [i \in DOMAIN given |-> given[i].members]
           J == Joined(A)
<1>1. /\ A \in Seq(Seq(Candidates)) /\ Len(A) = Len(groups) /\ DOMAIN groups = 1 .. Len(groups)
      /\ \A i \in 1 .. Len(groups) : A[i] = groups[i].members
      /\ Flatten(groups) = J
  BY MembersAreLists
<1>2. Flatten(given) = Joined(B)
  BY DEF Flatten
<1>3. DOMAIN given = DOMAIN groups /\
        \A i \in DOMAIN groups : given[i].members = IdsOf(groups[i].members)
  BY DEF Group
<1> HIDE DEF given
<1>4. B = [i \in 1 .. Len(groups) |-> given[i].members]
  BY <1>1, <1>3
<1>5. B = [i \in 1 .. Len(groups) |-> IdsOf(A[i])]
  <2>1. \A i \in 1 .. Len(groups) : given[i].members = IdsOf(A[i])
    BY <1>1, <1>3
  <2> HIDE DEF A, B
  <2> QED
    BY <1>4, <2>1
<1>6. DOMAIN A = 1 .. Len(groups) /\ DOMAIN B = 1 .. Len(groups)
  BY <1>1, <1>5
<1>7. \A i \in 1 .. Len(groups) : /\ DOMAIN B[i] = DOMAIN A[i]
                                  /\ \A j \in DOMAIN A[i] : B[i][j] = A[i][j].id
  <2> HIDE DEF A, B
  <2> TAKE i \in 1 .. Len(groups)
  <2>1. B[i] = [j \in DOMAIN A[i] |-> A[i][j].id]
    BY <1>5 DEF IdsOf
  <2> QED
    BY <2>1
<1> HIDE DEF A, B, J
<1>8. Places(B) = Places(A)
  BY <1>6, <1>7 DEF Places
<1>9. PICK at : JoinedAt(at, J, A)
  BY <1>1, JoinedIs DEF J
<1>10. /\ at \in [1 .. Len(J) -> Places(A)] /\ at = InOrder(PlacesBefore(A))
       /\ \A k \in 1 .. Len(J) : J[k] = A[at[k][1]][at[k][2]]
       /\ \A j, k \in 1 .. Len(J) : PairBefore(at[j], at[k]) <=> j < k
       /\ \A p \in Places(A) : \E k \in 1 .. Len(J) : at[k] = p
  BY <1>9 DEF JoinedAt
<1>11. J \in Seq(Candidates)
  BY <1>1, JoinedIs DEF J
<1>12. Joined(B) = [k \in 1 .. Len(J) |-> B[at[k][1]][at[k][2]]]
  <2>1. at = InOrder([p \in Places(B) |-> {q \in Places(B) : PairBefore(q, p)}])
    BY <1>8, <1>10 DEF PlacesBefore
  <2>2. DOMAIN at = 1 .. Len(J)
    BY <1>10
  <2> QED
    BY <2>1, <2>2 DEF Joined
<1>13. \A p \in Places(A) : p[1] \in 1 .. Len(groups) /\ p[2] \in DOMAIN A[p[1]]
  BY <1>6 DEF Places
<1>14. \A k \in 1 .. Len(J) : B[at[k][1]][at[k][2]] = J[k].id
  BY <1>7, <1>10, <1>13
<1>15. IdsOf(J) = [k \in 1 .. Len(J) |-> J[k].id]
  BY <1>11 DEF IdsOf
<1>16. Joined(B) = IdsOf(J)
  BY <1>12, <1>14, <1>15
<1> QED
  BY <1>1, <1>2, <1>16 DEF given, B

(* What comes earlier is of no later group.                                *)
LEMMA FlattenInOrder ==
  ASSUME NEW groups, Grouped(groups),
         NEW j \in 1 .. Len(Flatten(groups)), NEW k \in 1 .. Len(Flatten(groups)), j < k
  PROVE  \E h, i \in 1 .. Len(groups) :
           /\ h <= i
           /\ Flatten(groups)[j] \in ToSet(groups[h].members)
           /\ Flatten(groups)[k] \in ToSet(groups[i].members)
<1> DEFINE A == MembersOf(groups)
           J == Joined(A)
<1>1. A \in Seq(Seq(Candidates)) /\ Flatten(groups) = J
  BY MembersAreLists
<1>2. \A p \in Places(A) :
        /\ p[1] \in 1 .. Len(groups) /\ p[2] \in 1 .. Len(groups[p[1]].members)
        /\ A[p[1]][p[2]] = groups[p[1]].members[p[2]]
  BY MemberPlaces
<1> HIDE DEF A, J
<1>3. PICK at : JoinedAt(at, J, A)
  BY <1>1, JoinedIs DEF J
<1>4. /\ at \in [1 .. Len(J) -> Places(A)]
      /\ \A l \in 1 .. Len(J) : J[l] = A[at[l][1]][at[l][2]]
      /\ PairBefore(at[j], at[k])
  BY <1>1, <1>3 DEF JoinedAt
<1>5. ASSUME NEW l \in 1 .. Len(J)
      PROVE  at[l][1] \in 1 .. Len(groups) /\ J[l] \in ToSet(groups[at[l][1]].members)
  <2>1. at[l] \in Places(A)
    BY <1>4
  <2>2. at[l][1] \in 1 .. Len(groups)
    BY <1>2, <2>1
  <2>3. DOMAIN groups[at[l][1]].members = 1 .. Len(groups[at[l][1]].members)
    BY <2>2 DEF Grouped, Listed
  <2>4. J[l] = groups[at[l][1]].members[at[l][2]]
    BY <1>2, <1>4, <2>1
  <2> QED
    BY <1>2, <2>1, <2>2, <2>3, <2>4 DEF ToSet
<1>6. at[j][1] <= at[k][1]
  BY <1>1, <1>4, <1>5 DEF PairBefore
<1> QED
  BY <1>1, <1>5, <1>6

-----------------------------------------------------------------------------
(* The timeline.                                                           *)
Pairs == Nat \X Nat

(* What a timeline compares are pairs of numbers.                          *)
LEMMA DatesArePairs ==
  ASSUME NEW id \in Ids
  PROVE  /\ Bucket(id) \in Pairs
         /\ YearKey(Date[id].start) \in Pairs /\ YearKey(Date[id].end) \in Pairs
<1>1. Date[id].start \in Nat \cup {None} /\ Date[id].end \in Nat \cup {None}
  BY DateAssumption DEF Years
<1>2. YearKey(Date[id].start) \in Pairs /\ YearKey(Date[id].end) \in Pairs
  BY <1>1 DEF YearKey, Pairs
<1>3. Year(Date[id]) # None => Year(Date[id]) \in Nat
  BY <1>1 DEF Year
<1>4. \A y \in Nat : y \div 10 \in Nat
  OBVIOUS
<1>5. Bucket(id) \in Pairs
  BY <1>3, <1>4 DEF Bucket, Pairs
<1> QED
  BY <1>2, <1>5

(* Pairs are ordered by their first, then their second component.          *)
LEMMA PairsInOrder ==
  /\ \A p \in Pairs : ~PairBefore(p, p)
  /\ \A p, q, r \in Pairs : PairBefore(p, q) /\ PairBefore(q, r) => PairBefore(p, r)
  /\ \A p, q \in Pairs : p = q \/ PairBefore(p, q) \/ PairBefore(q, p)
<1>1. \A p \in Pairs : p[1] \in Nat /\ p[2] \in Nat /\ p = <<p[1], p[2]>>
  BY DEF Pairs
<1>2. \A p \in Pairs : ~PairBefore(p, p)
  BY <1>1 DEF PairBefore
<1>3. \A p, q, r \in Pairs : PairBefore(p, q) /\ PairBefore(q, r) => PairBefore(p, r)
  BY <1>1 DEF PairBefore
<1>4. ASSUME NEW p \in Pairs, NEW q \in Pairs
      PROVE  p = q \/ PairBefore(p, q) \/ PairBefore(q, p)
  <2>1. p[1] = q[1] /\ p[2] = q[2] => p = q
    BY <1>1
  <2> QED
    BY <1>1, <2>1 DEF PairBefore
<1> QED
  BY <1>2, <1>3, <1>4

(* Of evidence with different ids one is dated before the other.           *)
LEMMA DatedOrders ==
  ASSUME NEW T, OnePerId(T)
  PROVE  /\ Orders([c \in T |-> {d \in T : DatedBefore(d, c)}])
         /\ \A c, d, e \in T : DatedBefore(c, d) /\ DatedBefore(d, e) => DatedBefore(c, e)
         /\ \A c, d \in T : c = d \/ DatedBefore(c, d) \/ DatedBefore(d, c)
         /\ \A c \in T : ~DatedBefore(c, c)
<1> DEFINE before == [c \in T |-> {d \in T : DatedBefore(d, c)}]
           start(c) == YearKey(Date[c.id].start)
           end(c) == YearKey(Date[c.id].end)
<1>1. DOMAIN before = T /\ \A c, d \in T : d \in before[c] <=> DatedBefore(d, c)
  OBVIOUS
<1>2. \A c \in T : before[c] \subseteq T
  OBVIOUS
<1>3. \A c \in T : c.id \in Nat /\ start(c) \in Pairs /\ end(c) \in Pairs
  BY IdsAreNumbers, DatesArePairs DEF OnePerId
<1>4. \A c, d \in T : c.id = d.id => c = d
  BY DEF OnePerId
<1>5. \A c, d \in T : DatedBefore(c, d) <=>
        \/ PairBefore(start(c), start(d))
        \/ start(c) = start(d) /\ PairBefore(end(c), end(d))
        \/ start(c) = start(d) /\ end(c) = end(d) /\ c.id < d.id
  BY DEF DatedBefore
<1> HIDE DEF before, start, end
<1>6. \A c \in T : ~DatedBefore(c, c)
  BY <1>3, <1>5, PairsInOrder
<1>7. \A c, d, e \in T : DatedBefore(c, d) /\ DatedBefore(d, e) => DatedBefore(c, e)
  BY <1>3, <1>5, PairsInOrder
<1>8. \A c, d \in T : c = d \/ DatedBefore(c, d) \/ DatedBefore(d, c)
  BY <1>3, <1>4, <1>5, PairsInOrder
<1>9. Orders(before)
  BY <1>1, <1>2, <1>6, <1>7, <1>8 DEF Orders
<1> QED
  BY <1>6, <1>7, <1>8, <1>9 DEF before

(* Evidence by its bucket, and in its bucket by its dates and its id.      *)
TimeBefore(c, d) ==
  \/ PairBefore(Bucket(c.id), Bucket(d.id))
  \/ Bucket(c.id) = Bucket(d.id) /\ DatedBefore(c, d)

TimeOrder(T) == [c \in T |-> {d \in T : TimeBefore(d, c)}]

(* The order of time is an order of candidates.                            *)
LEMMA TimeOrders ==
  ASSUME NEW T, OnePerId(T)
  PROVE  /\ Orders(TimeOrder(T)) /\ DOMAIN TimeOrder(T) = T
         /\ \A c, d \in T : c \in TimeOrder(T)[d] <=> TimeBefore(c, d)
<1> DEFINE before == TimeOrder(T)
<1>1. DOMAIN before = T /\ \A c, d \in T : d \in before[c] <=> TimeBefore(d, c)
  BY DEF TimeOrder
<1>2. \A c \in T : before[c] \subseteq T
  BY DEF TimeOrder
<1>3. \A c \in T : Bucket(c.id) \in Pairs
  BY IdsAreNumbers, DatesArePairs DEF OnePerId
<1> HIDE DEF before
<1>4. \A c \in T : ~TimeBefore(c, c)
  BY <1>3, PairsInOrder, DatedOrders DEF TimeBefore
<1>5. \A c, d, e \in T : TimeBefore(c, d) /\ TimeBefore(d, e) => TimeBefore(c, e)
  BY <1>3, PairsInOrder, DatedOrders DEF TimeBefore
<1>6. \A c, d \in T : c = d \/ TimeBefore(c, d) \/ TimeBefore(d, c)
  BY <1>3, PairsInOrder, DatedOrders DEF TimeBefore
<1>7. Orders(before)
  BY <1>1, <1>2, <1>4, <1>5, <1>6 DEF Orders
<1> QED
  BY <1>1, <1>7 DEF before

(* The decades, disputed and undated are in one order.                     *)
LEMMA BucketsInOrder ==
  ASSUME NEW keys, keys \subseteq Pairs
  PROVE  Orders([key \in keys |-> {other \in keys : PairBefore(other, key)}])
<1> DEFINE before == [key \in keys |-> {other \in keys : PairBefore(other, key)}]
<1>1. DOMAIN before = keys /\ \A p, q \in keys : q \in before[p] <=> PairBefore(q, p)
  OBVIOUS
<1>2. \A p \in keys : before[p] \subseteq keys
  OBVIOUS
<1> HIDE DEF before
<1>3. \A p \in keys : p \notin before[p]
  BY <1>1, PairsInOrder
<1>4. \A p, q, r \in keys : r \in before[q] /\ q \in before[p] => r \in before[p]
  BY <1>1, PairsInOrder
<1>5. \A p, q \in keys : p = q \/ p \in before[q] \/ q \in before[p]
  BY <1>1, PairsInOrder
<1>6. Orders(before)
  BY <1>1, <1>2, <1>3, <1>4, <1>5 DEF Orders
<1> QED
  BY <1>6 DEF before

(* The groups of a timeline, one after the other, are all the evidence in  *)
(* the order of time.                                                      *)
LEMMA TimelineIs ==
  ASSUME NEW evidence, Listed(evidence)
  PROVE  /\ Grouped(organize_timeline(evidence))
         /\ Flatten(organize_timeline(evidence)) = InOrder(TimeOrder(ToSet(evidence)))
<1> DEFINE T == ToSet(evidence)
           bucket == [c \in T |-> Bucket(c.id)]
           keys == {Bucket(c.id) : c \in T}
           keysBefore == [key \in keys |-> {other \in keys : PairBefore(other, key)}]
           run == InOrder(keysBefore)
           members(key) == {c \in T : Bucket(c.id) = key}
           dated(key) == [c \in members(key) |-> {d \in members(key) : DatedBefore(d, c)}]
           groups == [i \in DOMAIN run |-> Group(run[i], InOrder(dated(run[i])))]
<1>1. groups = organize_timeline(evidence)
  BY DEF organize_timeline
<1>2. OnePerId(T) /\ IsFiniteSet(T)
  BY ListedMembers
<1> HIDE DEF T
<1>3. keys \subseteq Pairs
  BY <1>2, IdsAreNumbers, DatesArePairs DEF OnePerId
<1>4. DOMAIN keysBefore = keys /\ IsFiniteSet(keys)
  <2>1. IsFiniteSet({bucket[c] : c \in DOMAIN bucket})
    BY <1>2, ImageIsFinite
  <2>2. {bucket[c] : c \in DOMAIN bucket} = keys
    OBVIOUS
  <2> QED
    BY <2>1, <2>2
<1>5. \A p, q \in keys : q \in keysBefore[p] <=> PairBefore(q, p)
  OBVIOUS
<1>6. Orders(keysBefore)
  BY <1>3, BucketsInOrder
<1> HIDE DEF keysBefore, keys
<1>7. Sorts(run, keysBefore) /\ \A i, j \in 1 .. Len(run) : run[i] = run[j] => i = j
  BY <1>4, <1>6, SortsIs, SortsOnce
<1> HIDE DEF run
<1>8. /\ run \in Seq(keys) /\ Len(run) \in Nat /\ DOMAIN run = 1 .. Len(run)
      /\ \A i \in 1 .. Len(run) : run[i] \in keys
      /\ \A key \in keys : \E i \in 1 .. Len(run) : run[i] = key
      /\ \A i, j \in 1 .. Len(run) : PairBefore(run[i], run[j]) <=> i < j
  <2>1. run \in Seq(keys)
    BY <1>4, <1>7 DEF Sorts
  <2>2. Len(run) \in Nat /\ DOMAIN run = 1 .. Len(run) /\ \A i \in 1 .. Len(run) : run[i] \in keys
    BY <2>1
  <2>3. \A key \in keys : \E i \in 1 .. Len(run) : run[i] = key
    BY <1>4, <1>7 DEF Sorts
  <2>4. \A i, j \in 1 .. Len(run) : run[i] \in keysBefore[run[j]] <=> i < j
    BY <1>7 DEF Sorts
  <2>5. \A i, j \in 1 .. Len(run) : PairBefore(run[i], run[j]) <=> i < j
    BY <1>5, <2>2, <2>4
  <2> QED
    BY <2>1, <2>2, <2>3, <2>5
<1> DEFINE part(i) == InOrder(dated(run[i]))
<1>9. ASSUME NEW key
      PROVE  /\ Listed(InOrder(dated(key))) /\ ToSet(InOrder(dated(key))) = members(key)
             /\ \A k, l \in 1 .. Len(InOrder(dated(key))) :
                  DatedBefore(InOrder(dated(key))[k], InOrder(dated(key))[l]) <=> k < l
             /\ \A k \in 1 .. Len(InOrder(dated(key))) : InOrder(dated(key))[k] \in members(key)
  <2> DEFINE M == members(key)
             before == [c \in M |-> {d \in M : DatedBefore(d, c)}]
  <2>1. M \in SUBSET T
    OBVIOUS
  <2>2. before = dated(key)
    OBVIOUS
  <2> HIDE DEF M
  <2>3. OnePerId(M) /\ IsFiniteSet(M)
    BY <1>2, <2>1, FS_Subset DEF OnePerId
  <2>4. Orders(before)
    BY <2>3, DatedOrders
  <2>5. DOMAIN before = M /\ \A c, d \in M : d \in before[c] <=> DatedBefore(d, c)
    OBVIOUS
  <2> DEFINE q == InOrder(before)
  <2> HIDE DEF before
  <2>6. Listed(q) /\ ToSet(q) = M /\ Sorts(q, before)
    BY <2>3, <2>4, <2>5, SortedListed
  <2> HIDE DEF q
  <2>7. \A k \in 1 .. Len(q) : q[k] \in M
    BY <2>5, <2>6 DEF Sorts
  <2>8. \A k, l \in 1 .. Len(q) : DatedBefore(q[k], q[l]) <=> k < l
    BY <2>5, <2>6, <2>7 DEF Sorts
  <2> QED
    BY <2>2, <2>6, <2>7, <2>8 DEF q, M
<1> HIDE DEF dated
<1>10. /\ Len(groups) = Len(run) /\ DOMAIN groups = 1 .. Len(run)
       /\ groups \in [1 .. Len(run) -> ToSet(groups)]
       /\ \A i \in 1 .. Len(run) : groups[i] = Group(run[i], part(i))
  <2>1. groups \in [1 .. Len(run) -> ToSet(groups)]
    BY <1>8 DEF ToSet
  <2> QED
    BY <1>8, <2>1, IsSeq
<1>11. \A i \in 1 .. Len(run) : groups[i].key = run[i] /\ groups[i].members = part(i)
  BY <1>10 DEF Group
<1> HIDE DEF groups, part
<1>12. \A i \in 1 .. Len(run) :
         /\ Listed(part(i)) /\ Len(part(i)) \in Nat
         /\ \A k \in 1 .. Len(part(i)) : part(i)[k] \in T /\ Bucket(part(i)[k].id) = run[i]
         /\ \A k, l \in 1 .. Len(part(i)) : DatedBefore(part(i)[k], part(i)[l]) <=> k < l
         /\ \A c \in T : Bucket(c.id) = run[i] => \E k \in 1 .. Len(part(i)) : part(i)[k] = c
  <2> TAKE i \in 1 .. Len(run)
  <2>1. Listed(part(i)) /\ ToSet(part(i)) = members(run[i])
    BY <1>9 DEF part
  <2>2. DOMAIN part(i) = 1 .. Len(part(i)) /\ Len(part(i)) \in Nat
    BY <2>1 DEF Listed
  <2>3. \A k, l \in 1 .. Len(part(i)) : DatedBefore(part(i)[k], part(i)[l]) <=> k < l
    BY <1>9 DEF part
  <2>4. \A c : c \in members(run[i]) <=> \E k \in 1 .. Len(part(i)) : part(i)[k] = c
    BY <2>1, <2>2 DEF ToSet
  <2> QED
    BY <2>1, <2>2, <2>3, <2>4
<1>13. Grouped(groups)
  <2>1. \A i \in 1 .. Len(run) :
          groups[i] = Group(groups[i].key, groups[i].members) /\ Listed(groups[i].members)
    BY <1>10, <1>11, <1>12
  <2>2. \A i, j \in 1 .. Len(run) :
          i # j => /\ groups[i].key # groups[j].key
                   /\ \A k \in 1 .. Len(groups[i].members), l \in 1 .. Len(groups[j].members) :
                        groups[i].members[k].id # groups[j].members[l].id
    <3> TAKE i, j \in 1 .. Len(run)
    <3>1. HAVE i # j
    <3>2. run[i] # run[j]
      BY <1>7, <3>1
    <3>3. \A k \in 1 .. Len(part(i)), l \in 1 .. Len(part(j)) : part(i)[k].id # part(j)[l].id
      <4> TAKE k \in 1 .. Len(part(i)), l \in 1 .. Len(part(j))
      <4>1. Bucket(part(i)[k].id) = run[i] /\ Bucket(part(j)[l].id) = run[j]
        BY <1>12
      <4> QED
        BY <3>2, <4>1
    <3> QED
      BY <1>11, <3>2, <3>3
  <2> QED
    BY <1>8, <1>10, <2>1, <2>2 DEF Grouped
<1> DEFINE A == MembersOf(groups)
           J == Joined(A)
<1>14. A \in Seq(Seq(Candidates)) /\ Flatten(groups) = J
  BY <1>13, MembersAreLists
<1>15. /\ \A p \in Places(A) : /\ p[1] \in 1 .. Len(run) /\ p[2] \in 1 .. Len(part(p[1]))
                               /\ p = <<p[1], p[2]>> /\ A[p[1]][p[2]] = part(p[1])[p[2]]
       /\ \A i \in 1 .. Len(run) : \A j \in 1 .. Len(part(i)) : <<i, j>> \in Places(A)
  BY <1>10, <1>11, <1>13, MemberPlaces
<1> HIDE DEF A
<1>16. J \in Seq(Candidates) /\ \E at : JoinedAt(at, J, A)
  BY <1>14, JoinedIs
<1>17. PICK at : JoinedAt(at, J, A)
  BY <1>16
<1> HIDE DEF J
<1>18. /\ at \in [1 .. Len(J) -> Places(A)]
       /\ \A k \in 1 .. Len(J) : J[k] = A[at[k][1]][at[k][2]]
       /\ \A j, k \in 1 .. Len(J) : PairBefore(at[j], at[k]) <=> j < k
       /\ \A p \in Places(A) : \E k \in 1 .. Len(J) : at[k] = p
  BY <1>17 DEF JoinedAt
<1>19. \A k \in 1 .. Len(J) :
         /\ at[k][1] \in 1 .. Len(run) /\ at[k][2] \in 1 .. Len(part(at[k][1]))
         /\ J[k] = part(at[k][1])[at[k][2]]
         /\ J[k] \in T /\ Bucket(J[k].id) = run[at[k][1]]
  BY <1>12, <1>15, <1>18
<1>20. J \in Seq(T)
  BY <1>16, <1>19
<1>21. ASSUME NEW c \in T PROVE \E k \in 1 .. Len(J) : J[k] = c
  <2>1. Bucket(c.id) \in keys
    BY DEF keys
  <2>2. PICK i \in 1 .. Len(run) : run[i] = Bucket(c.id)
    BY <1>8, <2>1
  <2>3. PICK l \in 1 .. Len(part(i)) : part(i)[l] = c
    BY <1>12, <2>2
  <2>4. <<i, l>> \in Places(A)
    BY <1>15
  <2>5. PICK k \in 1 .. Len(J) : at[k] = <<i, l>>
    BY <1>18, <2>4
  <2>6. J[k] = part(i)[l]
    BY <1>19, <2>5
  <2> QED
    BY <2>3, <2>6
<1>22. ASSUME NEW j \in 1 .. Len(J), NEW k \in 1 .. Len(J), j < k PROVE TimeBefore(J[j], J[k])
  <2>1. PairBefore(at[j], at[k])
    BY <1>18, <1>22
  <2>2. CASE at[j][1] < at[k][1]
    <3> DEFINE i == at[j][1]
               l == at[k][1]
    <3>1. i \in 1 .. Len(run) /\ l \in 1 .. Len(run) /\ i < l
      BY <1>19, <2>2
    <3>2. Bucket(J[j].id) = run[i] /\ Bucket(J[k].id) = run[l]
      BY <1>19
    <3> HIDE DEF i, l
    <3>3. PairBefore(run[i], run[l])
      BY <1>8, <3>1
    <3> QED
      BY <3>2, <3>3 DEF TimeBefore
  <2>3. CASE at[j][1] = at[k][1] /\ at[j][2] < at[k][2]
    <3> DEFINE i == at[j][1]
    <3>1. /\ i \in 1 .. Len(run) /\ at[j][2] \in 1 .. Len(part(i)) /\
               at[k][2] \in 1 .. Len(part(i))
          /\ J[j] = part(i)[at[j][2]] /\ J[k] = part(i)[at[k][2]]
          /\ Bucket(J[j].id) = Bucket(J[k].id)
      BY <1>19, <2>3
    <3> HIDE DEF i
    <3>2. DatedBefore(part(i)[at[j][2]], part(i)[at[k][2]])
      BY <1>12, <2>3, <3>1
    <3>3. DatedBefore(J[j], J[k])
      BY <3>1, <3>2
    <3> QED
      BY <3>1, <3>3 DEF TimeBefore
  <2> QED
    BY <2>1, <2>2, <2>3 DEF PairBefore
<1>23. Sorts(J, TimeOrder(T))
  <2> DEFINE before == TimeOrder(T)
  <2>1. Orders(before) /\ DOMAIN before = T /\ \A c, d \in T : c \in before[d] <=>
          TimeBefore(c, d)
    BY <1>2, TimeOrders
  <2> HIDE DEF before
  <2>2. J \in Seq(DOMAIN before) /\ \A x \in DOMAIN before : \E k \in 1 .. Len(J) : J[k] = x
    BY <1>20, <1>21, <2>1
  <2>3. \A j, k \in 1 .. Len(J) : j < k => J[j] \in before[J[k]]
    BY <1>19, <1>22, <2>1
  <2>4. Sorts(J, before)
    BY <2>1, <2>2, <2>3, SortsForward
  <2> QED
    BY <2>4 DEF before
<1>24. J = InOrder(TimeOrder(T))
  BY <1>2, <1>23, TimeOrders, SortsIsOne
<1> QED
  BY <1>1, <1>13, <1>14, <1>24 DEF T

(* The page of a timeline is in the order of time, what it leaves out is   *)
(* later, and organised again it stays as it is.                           *)
LEMMA TimelinePage ==
  ASSUME NEW evidence, Listed(evidence), NEW n \in Nat,
         NEW page, page = First(Flatten(organize_timeline(evidence)), n)
  PROVE  /\ Listed(page) /\ Len(page) = IF n < Len(evidence) THEN n ELSE Len(evidence)
         /\ ToSet(page) \subseteq ToSet(evidence)
         /\ \A j, k \in 1 .. Len(page) : j < k => TimeBefore(page[j], page[k])
         /\ \A k \in 1 .. Len(page), c \in ToSet(evidence) \ ToSet(page) :
              TimeBefore(page[k], c)
         /\ Grouped(organize_timeline(page)) /\ Flatten(organize_timeline(page)) = page
<1> DEFINE T == ToSet(evidence)
           J == Flatten(organize_timeline(evidence))
<1>1. OnePerId(T) /\ IsFiniteSet(T) /\ Cardinality(T) = Len(evidence)
  BY ListedMembers
<1>2. J = InOrder(TimeOrder(T)) /\ Listed(J)
  BY TimelineIs, FlattenIs
<1>3. Orders(TimeOrder(T)) /\ DOMAIN TimeOrder(T) = T
      /\ \A c, d \in T : c \in TimeOrder(T)[d] <=> TimeBefore(c, d)
  BY <1>1, TimeOrders
<1>4. Sorts(J, TimeOrder(T)) /\ Len(J) = Len(evidence)
  BY <1>1, <1>2, <1>3, SortsIs
<1> HIDE DEF T, J
<1>5. /\ \A k \in 1 .. Len(J) : J[k] \in T
      /\ \A c \in T : \E k \in 1 .. Len(J) : J[k] = c
      /\ \A j, k \in 1 .. Len(J) : TimeBefore(J[j], J[k]) <=> j < k
  <2> DEFINE before == TimeOrder(T)
  <2>1. DOMAIN before = T /\ \A c, d \in T : c \in before[d] <=> TimeBefore(c, d)
    BY <1>3
  <2> HIDE DEF before
  <2>2. /\ J \in Seq(T) /\ \A c \in T : \E k \in 1 .. Len(J) : J[k] = c
        /\ \A j, k \in 1 .. Len(J) : J[j] \in before[J[k]] <=> j < k
    BY <1>4, <2>1 DEF Sorts, before
  <2>3. \A k \in 1 .. Len(J) : J[k] \in T
    BY <2>2
  <2> QED
    BY <2>1, <2>2, <2>3
<1>6. Listed(page) /\ ToSet(page) \subseteq ToSet(J)
  BY <1>2, FirstListed DEF J
<1>7. J \in Seq(Candidates) /\ Len(J) \in Nat
  BY <1>2 DEF Listed
<1>8. /\ Len(page) = IF n < Len(J) THEN n ELSE Len(J)
      /\ \A k \in 1 .. Len(page) : page[k] = J[k] /\ k \in 1 .. Len(J)
  BY <1>7, FirstIs DEF J
<1>9. page \in Seq(Candidates) /\ Len(page) \in Nat /\ DOMAIN page = 1 .. Len(page)
  BY <1>6 DEF Listed
<1>10. \A j, k \in 1 .. Len(page) : TimeBefore(page[j], page[k]) <=> j < k
  BY <1>5, <1>8
<1>11. ToSet(page) \subseteq T
  BY <1>5, <1>8, <1>9 DEF ToSet
<1>12. ASSUME NEW k \in 1 .. Len(page), NEW c \in T \ ToSet(page) PROVE TimeBefore(page[k], c)
  <2>1. PICK l \in 1 .. Len(J) : J[l] = c
    BY <1>5
  <2>2. l \in 1 .. Len(page) => J[l] \in ToSet(page)
    BY <1>8, <1>9 DEF ToSet
  <2>3. k < l
    BY <1>7, <1>9, <2>1, <2>2
  <2>4. page[k] = J[k] /\ k \in 1 .. Len(J)
    BY <1>8
  <2> QED
    BY <1>5, <2>1, <2>3, <2>4
<1> DEFINE shown == ToSet(page)
<1>13. OnePerId(shown) /\ IsFiniteSet(shown)
  BY <1>6, ListedMembers
<1>14. Orders(TimeOrder(shown)) /\ DOMAIN TimeOrder(shown) = shown
       /\ \A c, d \in shown : c \in TimeOrder(shown)[d] <=> TimeBefore(c, d)
  BY <1>13, TimeOrders
<1>15. \A k \in 1 .. Len(page) : page[k] \in shown
  BY <1>9 DEF ToSet
<1>16. \A c \in shown : \E k \in 1 .. Len(page) : page[k] = c
  BY <1>9 DEF ToSet
<1> HIDE DEF shown
<1>17. page \in Seq(shown)
  BY <1>9, <1>15
<1>18. Sorts(page, TimeOrder(shown))
  BY <1>10, <1>14, <1>15, <1>16, <1>17 DEF Sorts
<1>19. page = InOrder(TimeOrder(shown))
  BY <1>13, <1>14, <1>18, SortsIsOne
<1>20. Grouped(organize_timeline(page)) /\ Flatten(organize_timeline(page)) = page
  BY <1>6, <1>19, TimelineIs DEF shown
<1> QED
  BY <1>4, <1>6, <1>8, <1>10, <1>11, <1>12, <1>20 DEF T

-----------------------------------------------------------------------------
(* The groups of a claim.                                                  *)
ClaimParts(selected) ==
  [i \in 1 .. 4 |-> Group(ClaimLabels[i],
    Keep(selected, {c \in ToSet(selected) : c.label = ClaimLabels[i]}))]

(* Each group of a claim has what has its label.                           *)
LEMMA ClaimPartsAre ==
  ASSUME NEW selected, Listed(selected)
  PROVE  /\ Grouped(ClaimParts(selected)) /\ Len(ClaimParts(selected)) = 4
         /\ ClaimGroups(selected) = NonEmpty(ClaimParts(selected))
         /\ \A i \in 1 .. 4 : ToSet(ClaimParts(selected)[i].members)
                               = {c \in ToSet(selected) : c.label = ClaimLabels[i]}
<1> DEFINE parts == ClaimParts(selected)
           part(i) == Keep(selected, {c \in ToSet(selected) : c.label = ClaimLabels[i]})
<1>1. ClaimGroups(selected) = NonEmpty(parts)
  BY DEF ClaimGroups, ClaimParts
<1>2. \A i, j \in 1 .. 4 : i # j => ClaimLabels[i] # ClaimLabels[j]
  BY DEF ClaimLabels
<1>3. \A i \in 1 .. 4 : /\ Listed(part(i))
                        /\ ToSet(part(i)) = {c \in ToSet(selected) : c.label = ClaimLabels[i]}
  BY KeepListed
<1>4. /\ Len(parts) = 4 /\ DOMAIN parts = 1 .. 4 /\ parts \in [1 .. 4 -> ToSet(parts)]
      /\ \A i \in 1 .. 4 : parts[i] = Group(ClaimLabels[i], part(i))
  <2>1. parts \in [1 .. 4 -> ToSet(parts)]
    BY DEF ClaimParts, ToSet
  <2> QED
    BY <2>1, IsSeq DEF ClaimParts
<1> HIDE DEF parts, part
<1>5. \A i \in 1 .. 4 : parts[i].key = ClaimLabels[i] /\ parts[i].members = part(i)
  BY <1>4 DEF Group
<1>6. \A c, d \in ToSet(selected) : c.id = d.id => c = d
  BY ListedMembers DEF OnePerId
<1>7. \A i \in 1 .. 4 : \A k \in 1 .. Len(part(i)) :
        part(i)[k] \in ToSet(selected) /\ part(i)[k].label = ClaimLabels[i]
  <2> TAKE i \in 1 .. 4
  <2> TAKE k \in 1 .. Len(part(i))
  <2>1. DOMAIN part(i) = 1 .. Len(part(i))
    BY <1>3 DEF Listed
  <2>2. part(i)[k] \in ToSet(part(i))
    BY <2>1 DEF ToSet
  <2> QED
    BY <1>3, <2>2
<1>8. ASSUME NEW i \in 1 .. 4, NEW j \in 1 .. 4, i # j
      PROVE  /\ parts[i].key # parts[j].key
             /\ \A k \in 1 .. Len(parts[i].members), l \in 1 .. Len(parts[j].members) :
                  parts[i].members[k].id # parts[j].members[l].id
  <2>1. \A k \in 1 .. Len(part(i)), l \in 1 .. Len(part(j)) : part(i)[k].id # part(j)[l].id
    <3> TAKE k \in 1 .. Len(part(i)), l \in 1 .. Len(part(j))
    <3>1. /\ part(i)[k] \in ToSet(selected) /\ part(i)[k].label = ClaimLabels[i]
          /\ part(j)[l] \in ToSet(selected) /\ part(j)[l].label = ClaimLabels[j]
      BY <1>7
    <3> QED
      BY <1>2, <1>6, <1>8, <3>1
  <2> QED
    BY <1>2, <1>5, <1>8, <2>1
<1>9. Grouped(parts)
  <2>1. \A i \in 1 .. 4 : parts[i] = Group(parts[i].key, parts[i].members) /\
          Listed(parts[i].members)
    BY <1>3, <1>4, <1>5
  <2> QED
    BY <1>4, <1>8, <2>1 DEF Grouped
<1> QED
  BY <1>1, <1>3, <1>4, <1>5, <1>9 DEF parts

(* The groups have what has one of the four labels, the stronger support   *)
(* before the weaker.                                                      *)
StrongestFirst(s) ==
  \A j, k \in 1 .. Len(s) : j < k => Strength[s[k].label] <= Strength[s[j].label]

LEMMA ClaimGroupsAre ==
  ASSUME NEW selected, Listed(selected)
  PROVE  /\ Grouped(ClaimGroups(selected)) /\ Listed(Flatten(ClaimGroups(selected)))
         /\ ToSet(Flatten(ClaimGroups(selected)))
              = {c \in ToSet(selected) : c.label \in ToSet(ClaimLabels)}
         /\ StrongestFirst(Flatten(ClaimGroups(selected)))
<1> DEFINE parts == ClaimParts(selected)
           all == Flatten(parts)
<1>1. /\ Grouped(parts) /\ Len(parts) = 4 /\ ClaimGroups(selected) = NonEmpty(parts)
      /\ \A i \in 1 .. 4 : ToSet(parts[i].members) =
           {c \in ToSet(selected) : c.label = ClaimLabels[i]}
  BY ClaimPartsAre
<1>2. Grouped(ClaimGroups(selected)) /\ Flatten(ClaimGroups(selected)) = all
  BY <1>1, NonEmptyIs
<1>3. Listed(all) /\ ToSet(all) = UNION {ToSet(parts[i].members) : i \in DOMAIN parts}
  BY <1>1, FlattenIs
<1>4. DOMAIN parts = 1 .. 4
  BY <1>1 DEF Grouped
<1>5. ToSet(ClaimLabels) = {ClaimLabels[i] : i \in 1 .. 4}
  BY DEF ClaimLabels, ToSet
<1> HIDE DEF parts, all
<1>6. ToSet(all) = {c \in ToSet(selected) : c.label \in ToSet(ClaimLabels)}
  BY <1>1, <1>3, <1>4, <1>5
<1>7. StrongestFirst(all)
  <2> SUFFICES ASSUME NEW j \in 1 .. Len(all), NEW k \in 1 .. Len(all), j < k
               PROVE  Strength[all[k].label] <= Strength[all[j].label]
    BY DEF StrongestFirst
  <2>1. PICK h \in 1 .. 4, i \in 1 .. 4 :
          /\ h <= i /\ all[j] \in ToSet(parts[h].members) /\ all[k] \in ToSet(parts[i].members)
    BY <1>1, FlattenInOrder DEF all
  <2>2. all[j].label = ClaimLabels[h] /\ all[k].label = ClaimLabels[i]
    BY <1>1, <2>1
  <2>3. \A l \in 1 .. 4 : Strength[ClaimLabels[l]] = 4 - l
    BY DEF Strength, ClaimLabels
  <2> QED
    BY <2>1, <2>2, <2>3
<1> QED
  BY <1>2, <1>3, <1>6, <1>7

-----------------------------------------------------------------------------
(* Recall.                                                                 *)
LEMMA RankingsAre ==
  ASSUME NEW ranking \in Rankings
  PROVE  /\ ranking \in Seq(Ids) /\ Len(ranking) \in 0 .. MaxHits /\
              DOMAIN ranking = 1 .. Len(ranking)
         /\ \A i, j \in 1 .. Len(ranking) : ranking[i] = ranking[j] => i = j
         /\ IsFiniteSet(ToSet(ranking)) /\ ToSet(ranking) \subseteq Ids
<1>1. MaxHits \in Nat /\ IsFiniteSet(Ids)
  BY FusionAssumption
<1>2. PICK m \in 0 .. MaxHits : ranking \in [1 .. m -> Ids]
  BY <1>1 DEF Rankings, BoundedSeq, SeqOf
<1>3. ranking \in Seq(Ids) /\ Len(ranking) = m /\ DOMAIN ranking = 1 .. m
  BY <1>1, <1>2, IsSeq
<1>4. \A i, j \in 1 .. m : ranking[i] = ranking[j] => i = j
  BY <1>3 DEF Rankings, IsInjective
<1>5. ToSet(ranking) \in SUBSET Ids
  BY <1>3 DEF ToSet
<1> QED
  BY <1>1, <1>3, <1>4, <1>5, FS_Subset

(* A ranking has an id where its position says.                            *)
LEMMA PositionIs ==
  ASSUME NEW ranking \in Rankings, NEW id
  PROVE  /\ Position(ranking, id) \in 0 .. MaxHits
         /\ Position(ranking, id) # 0 <=> id \in ToSet(ranking)
         /\ id \in ToSet(ranking) => Position(ranking, id) \in DOMAIN ranking
                                      /\ ranking[Position(ranking, id)] = id
<1>1. MaxHits \in Nat /\ Len(ranking) \in 0 .. MaxHits /\ DOMAIN ranking = 1 .. Len(ranking)
  BY RankingsAre, FusionAssumption
<1>2. CASE id \in ToSet(ranking)
  <2>1. \E i \in DOMAIN ranking : ranking[i] = id
    BY <1>2 DEF ToSet
  <2>2. Position(ranking, id) = CHOOSE i \in DOMAIN ranking : ranking[i] = id
    BY <1>2 DEF Position
  <2>3. Position(ranking, id) \in DOMAIN ranking /\ ranking[Position(ranking, id)] = id
    BY <2>1, <2>2
  <2> QED
    BY <1>1, <1>2, <2>3
<1>3. CASE id \notin ToSet(ranking)
  BY <1>1, <1>3 DEF Position
<1> QED
  BY <1>2, <1>3

Factor(r, n) == \E a \in Nat \ {0} : n = (RankConstant + r) * a

(* The scale is a multiple of what every rank divides it by.               *)
LEMMA ScaleIs == Scale \in Nat \ {0} /\ \A r \in 1 .. MaxHits : Factor(r, Scale)
<1> DEFINE Runs(f) == f = [n \in 0 .. MaxHits |-> IF n = 0 THEN 1
             ELSE f[n - 1] * (RankConstant + n)]
           product == CHOOSE f : Runs(f)
           step == [n \in 1 .. MaxHits |-> [x \in Nat |-> x * (RankConstant + n)]]
<1>1. MaxHits \in Nat /\ RankConstant \in Nat \ {0}
  BY FusionAssumption
<1>2. Scale = product[MaxHits]
  BY DEF Scale
<1>3. \E f : Runs(f)
  <2>1. \A n \in 1 .. MaxHits : [x \in Nat |-> x * (RankConstant + n)] \in [Nat -> Nat]
    BY <1>1
  <2>2. step \in [1 .. MaxHits -> [Nat -> Nat]]
    BY <2>1
  <2>3. \A n \in 1 .. MaxHits, x \in Nat : step[n][x] = x * (RankConstant + n)
    OBVIOUS
  <2> HIDE DEF step
  <2>4. 1 \in Nat
    OBVIOUS
  <2>5. PICK f : Iterates(f, Nat, MaxHits, 1, step)
    BY <1>1, <2>2, <2>4, Iteration
  <2>6. /\ f \in [0 .. MaxHits -> Nat] /\ f[0] = 1
        /\ \A n \in 1 .. MaxHits : f[n] = step[n][f[n - 1]]
    BY <2>5 DEF Iterates
  <2>7. \A n \in 0 .. MaxHits : f[n] = IF n = 0 THEN 1 ELSE f[n - 1] * (RankConstant + n)
    <3> TAKE n \in 0 .. MaxHits
    <3>1. CASE n = 0
      BY <2>6, <3>1
    <3>2. CASE n # 0
      <4>1. n \in 1 .. MaxHits /\ n - 1 \in 0 .. MaxHits /\ f[n - 1] \in Nat
        BY <1>1, <2>6, <3>2
      <4> QED
        BY <2>3, <2>6, <3>2, <4>1
    <3> QED
      BY <3>1, <3>2
  <2>8. f = [n \in 0 .. MaxHits |-> f[n]]
    BY <2>6
  <2> QED
    BY <2>7, <2>8
<1>4. Runs(product)
  BY <1>3
<1> HIDE DEF product
<1>5. \A n \in 0 .. MaxHits : product[n] = IF n = 0 THEN 1
        ELSE product[n - 1] * (RankConstant + n)
  BY <1>4
<1> DEFINE Good(n) == /\ product[n] \in Nat \ {0}
                      /\ \A r \in 1 .. n : Factor(r, product[n])
           S == {n \in Nat : n <= MaxHits => Good(n)}
<1>6. 0 \in S
  BY <1>1, <1>5
<1>7. ASSUME NEW n \in Nat, n \in S PROVE n + 1 \in S
  <2>1. SUFFICES ASSUME n + 1 <= MaxHits PROVE Good(n + 1)
    OBVIOUS
  <2>2. n <= MaxHits /\ n \in 0 .. MaxHits /\ n + 1 \in 0 .. MaxHits
    BY <1>1, <2>1
  <2>3. Good(n)
    BY <1>7, <2>2
  <2> DEFINE p == product[n]
             q == product[n + 1]
             k == RankConstant + (n + 1)
  <2>4. q = p * k
    <3>1. (n + 1) - 1 = n /\ n + 1 # 0
      OBVIOUS
    <3> QED
      BY <1>5, <2>2, <3>1
  <2>5. p \in Nat \ {0} /\ k \in Nat \ {0}
    BY <1>1, <2>3
  <2>6. \A r \in 1 .. n : Factor(r, p)
    BY <2>3
  <2> HIDE DEF p, q, k
  <2>7. q \in Nat \ {0}
    BY <2>4, <2>5
  <2>8. ASSUME NEW r \in 1 .. n PROVE Factor(r, q)
    <3>1. PICK a \in Nat \ {0} : p = (RankConstant + r) * a
      BY <2>6 DEF Factor
    <3> DEFINE x == RankConstant + r
    <3>2. x \in Nat
      BY <1>1
    <3> HIDE DEF x
    <3>3. p = x * a
      BY <3>1 DEF x
    <3>4. q = x * (a * k) /\ a * k \in Nat \ {0}
      BY <2>4, <2>5, <3>2, <3>3
    <3> QED
      BY <3>4 DEF Factor, x
  <2>9. Factor(n + 1, q)
    BY <2>4, <2>5 DEF Factor, k
  <2>10. \A r \in 1 .. (n + 1) : r \in 1 .. n \/ r = n + 1
    OBVIOUS
  <2>11. \A r \in 1 .. (n + 1) : Factor(r, q)
    BY <2>8, <2>9, <2>10
  <2> QED
    BY <2>7, <2>11 DEF q
<1> HIDE DEF S
<1>8. Nat \subseteq S
  BY <1>6, <1>7, NatSetInduction
<1>9. Good(MaxHits)
  BY <1>1, <1>8 DEF S
<1> QED
  BY <1>2, <1>9

(* A better rank gives a larger share, and a rank more than none.          *)
LEMMA ShareIs ==
  /\ \A ranking \in Rankings, id \in Ids : Share(ranking, id) \in Nat
  /\ \A ranking \in Rankings, id, other \in Ids :
       /\ Position(ranking, id) # 0 /\ Position(ranking, other) = 0
            => Share(ranking, id) > Share(ranking, other)
       /\ Position(ranking, id) # 0 /\ Position(ranking, id) < Position(ranking, other)
            => Share(ranking, id) > Share(ranking, other)
       /\ Position(ranking, id) = Position(ranking, other)
            => Share(ranking, id) = Share(ranking, other)
<1>1. MaxHits \in Nat /\ RankConstant \in Nat \ {0} /\ Scale \in Nat \ {0}
  BY FusionAssumption, ScaleIs
<1>2. ASSUME NEW r \in 1 .. MaxHits
      PROVE  /\ Scale \div (RankConstant + r) \in Nat \ {0}
             /\ Scale = (RankConstant + r) * (Scale \div (RankConstant + r))
  <2>1. PICK a \in Nat \ {0} : Scale = (RankConstant + r) * a
    BY ScaleIs DEF Factor
  <2> DEFINE x == RankConstant + r
  <2>2. x \in Nat \ {0} /\ Scale = x * a
    BY <1>1, <2>1
  <2> HIDE DEF x
  <2>3. (x * a) \div x = a
    BY <2>2
  <2> QED
    BY <2>2, <2>3 DEF x
<1>3. ASSUME NEW r \in 1 .. MaxHits, NEW t \in 1 .. MaxHits, r < t
      PROVE  Scale \div (RankConstant + r) > Scale \div (RankConstant + t)
  <2> DEFINE a == Scale \div (RankConstant + r)
             b == Scale \div (RankConstant + t)
             x == RankConstant + r
             y == RankConstant + t
  <2>1. a \in Nat \ {0} /\ b \in Nat \ {0} /\ Scale = x * a /\ Scale = y * b
    BY <1>2
  <2>2. x \in Nat /\ y \in Nat /\ x < y
    BY <1>1, <1>3
  <2> HIDE DEF a, b, x, y
  <2>3. x * a = y * b
    BY <2>1
  <2>4. a > b
    <3>1. SUFFICES ASSUME a <= b PROVE FALSE
      BY <2>1
    <3>2. x * a <= x * b
      BY <2>1, <2>2, <3>1
    <3>3. x * b < y * b
      BY <2>1, <2>2
    <3> QED
      BY <2>1, <2>2, <2>3, <3>2, <3>3
  <2> QED
    BY <2>4 DEF a, b
<1>4. \A ranking \in Rankings : \A id : Position(ranking, id) \in 0 .. MaxHits
  BY PositionIs
<1>5. \A ranking \in Rankings : \A id :
        \/ (Position(ranking, id) = 0 /\ Share(ranking, id) = 0)
        \/ /\ Position(ranking, id) \in 1 .. MaxHits
           /\ Share(ranking, id) = Scale \div (RankConstant + Position(ranking, id))
           /\ Share(ranking, id) \in Nat \ {0}
  <2> TAKE ranking \in Rankings
  <2> TAKE id
  <2>1. CASE Position(ranking, id) = 0
    BY <2>1 DEF Share
  <2>2. CASE Position(ranking, id) # 0
    <3>1. Position(ranking, id) \in 1 .. MaxHits
      BY <1>1, <1>4, <2>2
    <3>2. Share(ranking, id) = Scale \div (RankConstant + Position(ranking, id))
      BY <2>2 DEF Share
    <3> QED
      BY <1>2, <3>1, <3>2
  <2> QED
    BY <2>1, <2>2
<1>6. \A ranking \in Rankings, id \in Ids : Share(ranking, id) \in Nat
  BY <1>5
<1>7. ASSUME NEW ranking \in Rankings, NEW id \in Ids, NEW other \in Ids
      PROVE  /\ Position(ranking, id) # 0 /\ Position(ranking, other) = 0
                  => Share(ranking, id) > Share(ranking, other)
             /\ Position(ranking, id) # 0 /\ Position(ranking, id) < Position(ranking, other)
                  => Share(ranking, id) > Share(ranking, other)
             /\ Position(ranking, id) = Position(ranking, other)
                  => Share(ranking, id) = Share(ranking, other)
  <2> DEFINE p == Position(ranking, id)
             q == Position(ranking, other)
             s == Share(ranking, id)
             t == Share(ranking, other)
  <2>1. /\ (p = 0 /\ s = 0) \/ (p \in 1 .. MaxHits /\ s = Scale \div (RankConstant + p) /\
             s \in Nat \ {0})
        /\ (q = 0 /\ t = 0) \/ (q \in 1 .. MaxHits /\ t = Scale \div (RankConstant + q) /\
             t \in Nat \ {0})
    BY <1>5
  <2> HIDE DEF p, q, s, t
  <2>2. p # 0 /\ q = 0 => s > t
    BY <2>1
  <2>3. p # 0 /\ p < q => s > t
    <3>1. HAVE p # 0 /\ p < q
    <3>2. p \in 1 .. MaxHits /\ q \in 1 .. MaxHits
      BY <1>1, <2>1, <3>1
    <3>3. Scale \div (RankConstant + p) > Scale \div (RankConstant + q)
      BY <1>3, <3>1, <3>2
    <3> QED
      BY <1>1, <2>1, <3>1, <3>2, <3>3
  <2>4. p = q => s = t
    BY <1>1, <2>1
  <2> QED
    BY <2>2, <2>3, <2>4 DEF p, q, s, t
<1> QED
  BY <1>6, <1>7

(* Fusion lists what either channel found, each once, by its score.        *)
LEMMA FuseIs ==
  ASSUME NEW lexical \in Rankings, NEW vector \in Rankings
  PROVE  /\ Listed(Fuse(lexical, vector))
         /\ IdSet(Fuse(lexical, vector)) = ToSet(lexical) \cup ToSet(vector)
         /\ \A c \in ToSet(Fuse(lexical, vector)) : c = Candidate(lexical, vector, c.id)
         /\ \A j, k \in 1 .. Len(Fuse(lexical, vector)) :
              Before(Fuse(lexical, vector)[j], Fuse(lexical, vector)[k]) <=> j < k
<1> DEFINE ids == ToSet(lexical) \cup ToSet(vector)
           given == [id \in ids |-> Candidate(lexical, vector, id)]
           T == {Candidate(lexical, vector, id) : id \in ids}
           fused == Fuse(lexical, vector)
<1>1. IsFiniteSet(ids) /\ ids \subseteq Ids
  BY RankingsAre, FS_Union
<1>2. fused = Ordered(T)
  BY DEF Fuse
<1> HIDE DEF ids
<1>3. IsFiniteSet(T)
  <2>1. IsFiniteSet({given[id] : id \in DOMAIN given})
    BY <1>1, ImageIsFinite
  <2>2. {given[id] : id \in DOMAIN given} = T
    OBVIOUS
  <2> QED
    BY <2>1, <2>2
<1>4. ASSUME NEW id \in ids
      PROVE  Candidate(lexical, vector, id) \in Candidates /\
               Candidate(lexical, vector, id).id = id
  <2>1. Position(vector, id) \in 0 .. MaxHits
    BY PositionIs
  <2>2. Share(lexical, id) \in Nat /\ Share(vector, id) \in Nat /\ id \in Ids
    BY <1>1, ShareIs
  <2>3. reciprocal_rank_fusion(lexical, vector, id) \in Nat
    BY <2>2 DEF reciprocal_rank_fusion
  <2>4. 0 \in 0 .. 2
    OBVIOUS
  <2> QED
    BY <2>1, <2>2, <2>3, <2>4 DEF Candidate, Candidates
<1>5. OnePerId(T)
  BY <1>4 DEF OnePerId
<1> HIDE DEF T, fused
<1>6. Listed(fused) /\ ToSet(fused) = T /\
        \A j, k \in 1 .. Len(fused) : Before(fused[j], fused[k]) <=> j < k
  BY <1>2, <1>3, <1>5, OrderedListed
<1>7. IdSet(fused) = {c.id : c \in T}
  BY <1>6, ListedMembers
<1>8. {c.id : c \in T} = ids
  BY <1>4 DEF T
<1>9. \A c \in T : c = Candidate(lexical, vector, c.id)
  BY <1>4 DEF T
<1> QED
  BY <1>6, <1>7, <1>8, <1>9 DEF fused, ids

(* What both channels rank at least as high, and one of them higher, has   *)
(* the larger sum of shares.                                               *)
LEMMA BetterScores ==
  ASSUME NEW lexical \in Rankings, NEW vector \in Rankings,
         NEW a \in ToSet(lexical) \cup ToSet(vector), NEW b \in Ids,
         LET rank(hits, id) == IF Position(hits, id) = 0 THEN MaxHits + 1
               ELSE Position(hits, id)
         IN /\ rank(lexical, a) <= rank(lexical, b) /\ rank(vector, a) <= rank(vector, b)
            /\ rank(lexical, a) < rank(lexical, b) \/ rank(vector, a) < rank(vector, b)
  PROVE  reciprocal_rank_fusion(lexical, vector, a) > reciprocal_rank_fusion(lexical, vector, b)
<1> DEFINE rank(hits, id) == IF Position(hits, id) = 0 THEN MaxHits + 1 ELSE Position(hits, id)
<1>1. a \in Ids /\ b \in Ids /\ MaxHits \in Nat
  BY RankingsAre, FusionAssumption
<1>2. ASSUME NEW hits \in Rankings
      PROVE  /\ Share(hits, a) \in Nat /\ Share(hits, b) \in Nat
             /\ rank(hits, a) < rank(hits, b) => Share(hits, a) > Share(hits, b)
             /\ rank(hits, a) = rank(hits, b) => Share(hits, a) = Share(hits, b)
             /\ rank(hits, a) \in Nat /\ rank(hits, b) \in Nat
  <2>1. Position(hits, a) \in 0 .. MaxHits /\ Position(hits, b) \in 0 .. MaxHits
    BY PositionIs
  <2>2. Share(hits, a) \in Nat /\ Share(hits, b) \in Nat
    BY <1>1, ShareIs
  <2>3. rank(hits, a) < rank(hits, b) =>
          /\ Position(hits, a) # 0
          /\ Position(hits, b) = 0 \/ Position(hits, a) < Position(hits, b)
    BY <1>1, <2>1
  <2>4. rank(hits, a) < rank(hits, b) => Share(hits, a) > Share(hits, b)
    BY <1>1, <2>3, ShareIs
  <2>5. rank(hits, a) = rank(hits, b) => Position(hits, a) = Position(hits, b)
    BY <1>1, <2>1
  <2>6. rank(hits, a) = rank(hits, b) => Share(hits, a) = Share(hits, b)
    BY <1>1, <2>5, ShareIs
  <2>7. rank(hits, a) \in Nat /\ rank(hits, b) \in Nat
    BY <1>1, <2>1
  <2> QED
    BY <2>2, <2>4, <2>6, <2>7
<1>3. /\ rank(lexical, a) <= rank(lexical, b) /\ rank(vector, a) <= rank(vector, b)
      /\ rank(lexical, a) < rank(lexical, b) \/ rank(vector, a) < rank(vector, b)
  OBVIOUS
<1> HIDE DEF rank
<1>4. /\ Share(lexical, a) >= Share(lexical, b) /\ Share(vector, a) >= Share(vector, b)
      /\ Share(lexical, a) > Share(lexical, b) \/ Share(vector, a) > Share(vector, b)
  BY <1>2, <1>3
<1> QED
  BY <1>2, <1>4 DEF reciprocal_rank_fusion

(* BetterInBothComesFirst: of two candidates of which both channels rank   *)
(* one at least as high, and one of them higher, that one comes first in   *)
(* what recall passes on, for every two rankings of any length.            *)
THEOREM BetterIsFirst == Spec => []BetterInBothComesFirst
<1>1. BetterInBothComesFirst
  <2> DEFINE rank(hits, id) == IF Position(hits, id) = 0 THEN MaxHits + 1
               ELSE Position(hits, id)
             better(l, v, a, b) == /\ rank(l, a) <= rank(l, b) /\ rank(v, a) <= rank(v, b)
                                   /\ rank(l, a) < rank(l, b) \/ rank(v, a) < rank(v, b)
  <2> SUFFICES ASSUME NEW lexical \in Rankings, NEW vector \in Rankings
               PROVE  \A i, j \in DOMAIN Fuse(lexical, vector) :
                        better(lexical, vector, Fuse(lexical, vector)[i].id,
                          Fuse(lexical, vector)[j].id)
                          => i < j
    BY DEF BetterInBothComesFirst
  <2> DEFINE fused == Fuse(lexical, vector)
  <2>1. /\ Listed(fused) /\ IdSet(fused) = ToSet(lexical) \cup ToSet(vector)
        /\ \A c \in ToSet(fused) : c = Candidate(lexical, vector, c.id)
        /\ \A k, l \in 1 .. Len(fused) : Before(fused[k], fused[l]) <=> k < l
    BY FuseIs
  <2> HIDE DEF fused
  <2>2. DOMAIN fused = 1 .. Len(fused)
    BY <2>1 DEF Listed
  <2> SUFFICES ASSUME NEW i \in DOMAIN fused, NEW j \in DOMAIN fused,
                      better(lexical, vector, fused[i].id, fused[j].id)
               PROVE  i < j
    BY DEF fused
  <2>3. fused[i] \in ToSet(fused) /\ fused[j] \in ToSet(fused)
    BY DEF ToSet
  <2>4. fused[i].id \in ToSet(lexical) \cup ToSet(vector) /\ fused[j].id \in Ids
    <3>1. fused[i].id \in IdSet(fused) /\ fused[j].id \in IdSet(fused)
      BY DEF IdSet
    <3> QED
      BY <2>1, <3>1, RankingsAre
  <2> DEFINE a == fused[i].id
             b == fused[j].id
  <2>5. reciprocal_rank_fusion(lexical, vector, a) > reciprocal_rank_fusion(lexical, vector, b)
    <3>1. a \in ToSet(lexical) \cup ToSet(vector) /\ b \in Ids /\ better(lexical, vector, a, b)
      BY <2>4
    <3> HIDE DEF a, b
    <3> QED
      BY <3>1, BetterScores
  <2>6. /\ fused[i].fusion = reciprocal_rank_fusion(lexical, vector, a)
        /\ fused[j].fusion = reciprocal_rank_fusion(lexical, vector, b)
    <3>1. \A id : Candidate(lexical, vector, id).fusion =
            reciprocal_rank_fusion(lexical, vector, id)
      BY DEF Candidate
    <3>2. \A c \in ToSet(fused) : c.fusion = reciprocal_rank_fusion(lexical, vector, c.id)
      BY <2>1, <3>1
    <3> QED
      BY <2>3, <3>2
  <2>7. Before(fused[i], fused[j])
    BY <2>5, <2>6 DEF Before
  <2> QED
    BY <2>1, <2>2, <2>7
<1> QED
  BY <1>1, PTL

-----------------------------------------------------------------------------
(* The answers of the models.                                              *)

(* The first places of a list of ids hold each of them once.               *)
LEMMA FirstPlacesAre ==
  ASSUME NEW S, NEW ids \in Seq(S), NEW I, I \subseteq FirstPlaces(ids)
  PROVE  /\ Ascending(I) \in Seq(Nat)
         /\ Len(Ascending(I)) \in Nat /\ DOMAIN Ascending(I) = 1 .. Len(Ascending(I))
         /\ \A k \in 1 .. Len(Ascending(I)) : Ascending(I)[k] \in I /\
              Ascending(I)[k] \in 1 .. Len(ids)
         /\ \A j, k \in 1 .. Len(Ascending(I)) :
              ids[Ascending(I)[j]] = ids[Ascending(I)[k]] => j = k
         /\ \A i \in I : \E k \in 1 .. Len(Ascending(I)) : Ascending(I)[k] = i
<1> DEFINE n == Cardinality(I)
           at == Ascending(I)
<1>1. I \subseteq 1 .. Len(ids) /\ Len(ids) \in Nat
  BY DEF FirstPlaces
<1>2. I \in SUBSET Nat /\ IsFiniteSet(I)
  BY <1>1, IndicesAreFinite
<1>3. /\ n \in Nat /\ at \in [1 .. n -> I]
      /\ \A i \in I : \E k \in 1 .. n : at[k] = i
      /\ \A j, k \in 1 .. n : at[j] < at[k] <=> j < k
  BY <1>2, AscendingIs
<1> HIDE DEF at, n
<1>4. Len(at) = n /\ DOMAIN at = 1 .. n
  BY <1>3, IsSeq
<1>5. \A k \in 1 .. n : at[k] \in I /\ at[k] \in 1 .. Len(ids)
  BY <1>1, <1>3
<1>6. at \in Seq(Nat)
  <2>1. at \in [1 .. n -> Nat]
    BY <1>2, <1>3
  <2> QED
    BY <1>3, <2>1, IsSeq
<1>7. \A i, j \in I : i < j => ids[i] # ids[j]
  <2> TAKE i, j \in I
  <2>1. HAVE i < j
  <2>2. i \in 1 .. (j - 1)
    BY <1>1, <2>1
  <2> QED
    BY <2>2 DEF FirstPlaces
<1>8. ASSUME NEW j \in 1 .. n, NEW k \in 1 .. n, ids[at[j]] = ids[at[k]] PROVE j = k
  <2>1. ~(at[j] < at[k]) /\ ~(at[k] < at[j])
    BY <1>5, <1>7, <1>8
  <2>2. at[j] \in Nat /\ at[k] \in Nat
    BY <1>2, <1>5
  <2> QED
    BY <1>3, <2>1, <2>2
<1> QED
  BY <1>3, <1>4, <1>5, <1>8, <1>6 DEF at, n

(* The evidence of an id is found in the list.                             *)
LEMMA EvidenceIs ==
  ASSUME NEW s, Listed(s), NEW id \in IdSet(s)
  PROVE  EvidenceOf(s, id) \in ToSet(s) /\ EvidenceOf(s, id).id = id
<1>1. \E c \in ToSet(s) : c.id = id
  BY DEF IdSet, ToSet
<1> QED
  BY <1>1 DEF EvidenceOf

(* What a list of different ids makes of a list of candidates.             *)
LEMMA MadeListed ==
  ASSUME NEW n \in Nat, NEW s \in [1 .. n -> Candidates],
         \A j, k \in 1 .. n : s[j].id = s[k].id => j = k
  PROVE  Listed(s) /\ Len(s) = n
BY IsSeq DEF Listed

(* An answer of the reranker makes a list of candidates it was given.      *)
LEMMA JudgedIs ==
  ASSUME NEW candidates, Listed(candidates), NEW answer \in Judgements
  PROVE  Listed(Judged(candidates, answer)) /\
           IdSet(Judged(candidates, answer)) \subseteq IdSet(candidates)
<1> DEFINE ids == [i \in DOMAIN answer |-> answer[i].id]
           I == {i \in FirstPlaces(ids) : ids[i] \in IdSet(candidates)}
           named == Ascending(I)
           judge(said) == [EvidenceOf(candidates, said.id) EXCEPT
                             !.rerank = RerankScore[said.verdict],
                             !.label = IF said.verdict = "irrelevant" THEN "irrelevant"
                               ELSE None]
           J == [k \in DOMAIN named |-> judge(answer[named[k]])]
<1>1. J = Judged(candidates, answer)
  BY DEF Judged
<1>2. PICK m \in 0 .. MaxJudged : answer \in [1 .. m -> [id : Ids \cup {Foreign}, verdict :
             Verdicts]]
  BY HybridAssumption DEF Judgements, BoundedSeq, SeqOf
<1>3. m \in Nat
  BY HybridAssumption
<1>4. ids \in Seq(Ids \cup {Foreign}) /\ Len(ids) = m
  <2>1. ids \in [1 .. m -> Ids \cup {Foreign}]
    BY <1>2
  <2> QED
    BY <1>3, <2>1, IsSeq
<1>5. \A i \in 1 .. m : ids[i] = answer[i].id /\ answer[i].verdict \in Verdicts
  BY <1>2
<1> HIDE DEF ids
<1>6. \A i \in I : ids[i] \in IdSet(candidates)
  OBVIOUS
<1>7. I \subseteq FirstPlaces(ids)
  OBVIOUS
<1> HIDE DEF I
<1>8. /\ Len(named) \in Nat /\ DOMAIN named = 1 .. Len(named)
      /\ \A k \in 1 .. Len(named) : named[k] \in I /\ named[k] \in 1 .. m
      /\ \A j, k \in 1 .. Len(named) : ids[named[j]] = ids[named[k]] => j = k
  <2> DEFINE S == Ids \cup {Foreign}
  <2>1. ids \in Seq(S) /\ I \subseteq FirstPlaces(ids)
    BY <1>4, <1>7
  <2> HIDE DEF S, J, judge
  <2>2. /\ Len(named) \in Nat /\ DOMAIN named = 1 .. Len(named)
        /\ \A k \in 1 .. Len(named) : named[k] \in I /\ named[k] \in 1 .. Len(ids)
    BY <2>1, FirstPlacesAre
  <2>3. \A j, k \in 1 .. Len(named) : ids[named[j]] = ids[named[k]] => j = k
    BY <2>1, FirstPlacesAre
  <2> QED
    BY <1>4, <2>2, <2>3
<1> HIDE DEF named
<1>9. ASSUME NEW said, said.id \in IdSet(candidates), said.verdict \in Verdicts
      PROVE  judge(said) \in Candidates /\ judge(said).id = said.id
  <2> DEFINE c == EvidenceOf(candidates, said.id)
             r == RerankScore[said.verdict]
             l == IF said.verdict = "irrelevant" THEN "irrelevant" ELSE None
  <2>1. c \in Candidates /\ c.id = said.id
    BY <1>9, EvidenceIs, ListedMembers DEF OnePerId
  <2>2. r \in 0 .. 2
    BY <1>9 DEF RerankScore, Verdicts
  <2>3. l \in {None, "irrelevant"}
    OBVIOUS
  <2> HIDE DEF c, r, l
  <2>4. [c EXCEPT !.rerank = r, !.label = l] \in Candidates /\
          [c EXCEPT !.rerank = r, !.label = l].id = said.id
    BY <2>1, <2>2, <2>3 DEF Candidates, Labels
  <2> QED
    BY <2>4 DEF c, r, l
<1>10. \A k \in 1 .. Len(named) : /\ J[k] = judge(answer[named[k]])
                                  /\ answer[named[k]].id = ids[named[k]]
                                  /\ ids[named[k]] \in IdSet(candidates)
                                  /\ answer[named[k]].verdict \in Verdicts
  BY <1>5, <1>6, <1>8
<1> HIDE DEF judge
<1>11. \A k \in 1 .. Len(named) : J[k] \in Candidates /\ J[k].id = ids[named[k]]
  BY <1>9, <1>10
<1>12. J \in [1 .. Len(named) -> Candidates]
  BY <1>8, <1>11
<1>13. \A j, k \in 1 .. Len(named) : J[j].id = J[k].id => j = k
  BY <1>8, <1>11
<1> HIDE DEF J
<1>14. Listed(J) /\ Len(J) = Len(named) /\ DOMAIN J = 1 .. Len(named)
  BY <1>8, <1>12, <1>13, MadeListed
<1>15. IdSet(J) \subseteq IdSet(candidates)
  <2>1. \A k \in 1 .. Len(named) : J[k].id \in IdSet(candidates)
    BY <1>10, <1>11
  <2>2. IdSet(J) = {J[k].id : k \in 1 .. Len(named)}
    BY <1>14 DEF IdSet
  <2> QED
    BY <2>1, <2>2
<1> QED
  BY <1>1, <1>14, <1>15

(* Two lists with different ids are one after the other.                   *)
LEMMA AppendListed ==
  ASSUME NEW s, Listed(s), NEW t, Listed(t),
         \A c \in ToSet(s), d \in ToSet(t) : c.id # d.id
  PROVE  Listed(s \o t) /\ ToSet(s \o t) = ToSet(s) \cup ToSet(t)
<1>1. s \in Seq(Candidates) /\ t \in Seq(Candidates) /\ Len(s) \in Nat /\ Len(t) \in Nat
  BY DEF Listed
<1> DEFINE u == s \o t
<1>2. u \in Seq(Candidates) /\ Len(u) = Len(s) + Len(t) /\ DOMAIN u = 1 .. (Len(s) + Len(t))
  BY <1>1
<1>3. /\ \A i \in 1 .. Len(s) : u[i] = s[i] /\ i \in 1 .. Len(u)
      /\ \A i \in 1 .. Len(t) : u[Len(s) + i] = t[i] /\ Len(s) + i \in 1 .. Len(u)
      /\ \A i \in 1 .. Len(u) : i \in 1 .. Len(s) \/ (i - Len(s) \in 1 .. Len(t) /\
           u[i] = t[i - Len(s)])
  BY <1>1
<1>4. \A i \in 1 .. Len(u) : \/ i \in 1 .. Len(s) /\ u[i] = s[i] /\ u[i] \in ToSet(s)
                             \/ i - Len(s) \in 1 .. Len(t) /\ u[i] = t[i - Len(s)] /\
                                  u[i] \in ToSet(t)
  BY <1>1, <1>3 DEF ToSet
<1> HIDE DEF u
<1>5. ASSUME NEW i \in 1 .. Len(u), NEW j \in 1 .. Len(u), u[i].id = u[j].id PROVE i = j
  <2>1. CASE i \in 1 .. Len(s) /\ j \in 1 .. Len(s)
    BY <1>3, <1>5, <2>1 DEF Listed
  <2>2. CASE i \notin 1 .. Len(s) /\ j \notin 1 .. Len(s)
    <3>1. i - Len(s) \in 1 .. Len(t) /\ j - Len(s) \in 1 .. Len(t)
          /\ t[i - Len(s)].id = t[j - Len(s)].id
      BY <1>4, <1>5, <2>2
    <3>2. i - Len(s) = j - Len(s)
      BY <3>1 DEF Listed
    <3> QED
      BY <1>1, <1>2, <3>2
  <2>3. CASE i \in 1 .. Len(s) /\ j \notin 1 .. Len(s)
    <3>1. u[i] = s[i] /\ s[i] \in ToSet(s) /\ u[j] \in ToSet(t)
      BY <1>1, <1>3, <1>4, <2>3 DEF ToSet
    <3> QED
      BY <1>5, <3>1
  <2>4. CASE i \notin 1 .. Len(s) /\ j \in 1 .. Len(s)
    <3>1. u[j] = s[j] /\ s[j] \in ToSet(s) /\ u[i] \in ToSet(t)
      BY <1>1, <1>3, <1>4, <2>4 DEF ToSet
    <3> QED
      BY <1>5, <3>1
  <2> QED
    BY <2>1, <2>2, <2>3, <2>4
<1>6. Listed(u)
  BY <1>2, <1>5 DEF Listed
<1>7. ToSet(u) = ToSet(s) \cup ToSet(t)
  <2>1. ToSet(u) \subseteq ToSet(s) \cup ToSet(t)
    BY <1>2, <1>4 DEF ToSet
  <2>2. ToSet(s) \subseteq ToSet(u)
    <3>1. ToSet(s) = {s[i] : i \in 1 .. Len(s)}
      BY <1>1 DEF ToSet
    <3>2. \A i \in 1 .. Len(s) : s[i] = u[i] /\ i \in DOMAIN u
      BY <1>2, <1>3
    <3> QED
      BY <3>1, <3>2 DEF ToSet
  <2>3. ToSet(t) \subseteq ToSet(u)
    <3>1. ToSet(t) = {t[i] : i \in 1 .. Len(t)}
      BY <1>1 DEF ToSet
    <3>2. \A i \in 1 .. Len(t) : t[i] = u[Len(s) + i] /\ Len(s) + i \in DOMAIN u
      BY <1>2, <1>3
    <3> QED
      BY <3>1, <3>2 DEF ToSet
  <2> QED
    BY <2>1, <2>2, <2>3
<1> QED
  BY <1>6, <1>7 DEF u

Unlabelled(s) == \A c \in ToSet(s) : c.label = None

(* Candidates that have got another label or none are still listed.        *)
LEMMA RelabelledIs ==
  ASSUME NEW s, Listed(s), NEW t, DOMAIN t = DOMAIN s, t = [i \in DOMAIN s |-> t[i]],
         \A i \in 1 .. Len(s) : t[i] \in Candidates /\ t[i].id = s[i].id
  PROVE  Listed(t) /\ IdSet(t) = IdSet(s) /\ Len(t) = Len(s)
<1>1. Len(s) \in Nat /\ DOMAIN s = 1 .. Len(s)
  BY DEF Listed
<1>2. t \in [1 .. Len(s) -> Candidates]
  BY <1>1
<1>3. \A j, k \in 1 .. Len(s) : t[j].id = t[k].id => j = k
  BY DEF Listed
<1>4. Listed(t) /\ Len(t) = Len(s)
  BY <1>1, <1>2, <1>3, MadeListed
<1>5. IdSet(t) = IdSet(s)
  BY <1>1 DEF IdSet
<1> QED
  BY <1>4, <1>5

(* The reranker of a claim sets nothing aside and gives no label.          *)
LEMMA RestrictIs ==
  ASSUME NEW candidates, Listed(candidates), Unlabelled(candidates), NEW answer \in Judgements
  PROVE  /\ Listed(_restrict_rerank(candidates, answer))
         /\ IdSet(_restrict_rerank(candidates, answer)) = IdSet(candidates)
         /\ Unlabelled(_restrict_rerank(candidates, answer))
<1> DEFINE judged == Judged(candidates, answer)
           scored == [i \in DOMAIN judged |-> [judged[i] EXCEPT !.label = None]]
           rest == Keep(candidates, {c \in ToSet(candidates) : c.id \notin IdSet(judged)})
           result == _restrict_rerank(candidates, answer)
<1>1. result = scored \o rest
  BY DEF _restrict_rerank
<1>2. Listed(judged) /\ IdSet(judged) \subseteq IdSet(candidates)
  BY JudgedIs
<1>3. Listed(rest) /\ ToSet(rest) = {c \in ToSet(candidates) : c.id \notin IdSet(judged)}
  BY KeepListed
<1> HIDE DEF judged, rest, result
<1>4. judged \in Seq(Candidates) /\ DOMAIN judged = 1 .. Len(judged)
  BY <1>2 DEF Listed
<1>5. \A c \in Candidates : /\ [c EXCEPT !.label = None] \in Candidates
                             /\ [c EXCEPT !.label = None].id = c.id
                             /\ [c EXCEPT !.label = None].label = None
  BY DEF Candidates
<1>6. \A i \in 1 .. Len(judged) : /\ scored[i] = [judged[i] EXCEPT !.label = None]
                                   /\ scored[i] \in Candidates /\ scored[i].id = judged[i].id
                                   /\ scored[i].label = None
  <2> TAKE i \in 1 .. Len(judged)
  <2>1. judged[i] \in Candidates
    BY <1>4
  <2>2. scored[i] = [judged[i] EXCEPT !.label = None]
    BY <1>4
  <2> HIDE DEF scored
  <2> QED
    BY <1>5, <2>1, <2>2
<1>7. Listed(scored) /\ IdSet(scored) = IdSet(judged) /\ Len(scored) = Len(judged)
  <2>1. DOMAIN scored = DOMAIN judged /\ scored = [i \in DOMAIN judged |-> scored[i]]
    OBVIOUS
  <2>2. \A i \in 1 .. Len(judged) : scored[i] \in Candidates /\ scored[i].id = judged[i].id
    BY <1>6
  <2> HIDE DEF scored
  <2> QED
    BY <1>2, <2>1, <2>2, RelabelledIs
<1>8. \A c \in ToSet(scored) : c.label = None
  BY <1>4, <1>6 DEF ToSet
<1> HIDE DEF scored
<1>9. IdSet(scored) = {c.id : c \in ToSet(scored)} /\
        IdSet(candidates) = {c.id : c \in ToSet(candidates)}
  BY <1>7, ListedMembers
<1>10. Listed(scored \o rest) /\ ToSet(scored \o rest) = ToSet(scored) \cup ToSet(rest)
  <2>1. \A c \in ToSet(scored), d \in ToSet(rest) : c.id # d.id
    BY <1>3, <1>7, <1>9
  <2> QED
    BY <1>3, <1>7, <2>1, AppendListed
<1>11. IdSet(result) = {c.id : c \in ToSet(result)}
  BY <1>1, <1>10, ListedMembers
<1>12. {c.id : c \in ToSet(scored) \cup ToSet(rest)} = IdSet(candidates)
  <2> DEFINE all == ToSet(candidates)
             some == IdSet(judged)
             first == ToSet(scored)
  <2>1. {c.id : c \in first} = some /\ IdSet(candidates) = {c.id : c \in all}
    BY <1>7, <1>9
  <2>2. ToSet(rest) = {c \in all : c.id \notin some} /\ some \subseteq {c.id : c \in all}
    BY <1>2, <1>3, <2>1
  <2> HIDE DEF all, some, first, rest
  <2>3. {c.id : c \in first \cup ToSet(rest)} = {c.id : c \in all}
    BY <2>1, <2>2
  <2> QED
    BY <2>1, <2>3 DEF first
<1>13. IdSet(result) = IdSet(candidates)
  BY <1>1, <1>10, <1>11, <1>12
<1>14. Unlabelled(result)
  BY <1>1, <1>3, <1>8, <1>10 DEF Unlabelled
<1> QED
  BY <1>1, <1>10, <1>13, <1>14 DEF result

(* What is displayed of a claim has one of the four labels.                *)
LEMMA ForDisplayIs ==
  ASSUME NEW candidates, Listed(candidates), NEW counter
  PROVE  /\ Listed(ForDisplay(candidates, counter))
         /\ ToSet(ForDisplay(candidates, counter)) =
              {c \in ToSet(candidates) :
                 c.label \in ToSet(ClaimLabels) /\ (c.label = "counter" => counter)}
<1> DEFINE all == ToSet(candidates)
           before == [c \in all |-> {d \in all : SortsBefore(d, c)}]
           sorted == InOrder(before)
           wanted == {c \in all : c.label \in ToSet(ClaimLabels) /\
             (c.label = "counter" => counter)}
           shown == ForDisplay(candidates, counter)
<1>1. shown = Keep(sorted, wanted)
  BY DEF ForDisplay
<1>2. OnePerId(all) /\ IsFiniteSet(all)
  BY ListedMembers
<1> HIDE DEF all, shown
<1>3. Orders(before)
  BY <1>2, SortsBeforeOrders
<1>4. DOMAIN before = all
  OBVIOUS
<1> HIDE DEF before
<1>5. Listed(sorted) /\ ToSet(sorted) = all
  BY <1>2, <1>3, <1>4, SortedListed
<1> HIDE DEF sorted
<1>6. \A c \in wanted : c \in all
  OBVIOUS
<1> HIDE DEF wanted
<1>7. Listed(shown) /\ ToSet(shown) = {c \in ToSet(sorted) : c \in wanted}
  BY <1>1, <1>5, KeepListed
<1>8. ToSet(shown) = wanted
  BY <1>5, <1>6, <1>7
<1> QED
  BY <1>7, <1>8 DEF shown, all, wanted

-----------------------------------------------------------------------------
(* The themes.                                                             *)
LEMMA MaxIs ==
  ASSUME NEW S \in SUBSET Nat, IsFiniteSet(S), S # {}
  PROVE  Max(S) \in S /\ \A x \in S : Max(S) >= x
<1> DEFINE n == Cardinality(S)
           at == Ascending(S)
<1>1. /\ n \in Nat /\ at \in [1 .. n -> S]
      /\ \A i \in S : \E k \in 1 .. n : at[k] = i
      /\ \A j, k \in 1 .. n : at[j] < at[k] <=> j < k
  BY AscendingIs
<1> HIDE DEF n, at
<1>2. n \in 1 .. n /\ at[n] \in S
  <2>1. PICK x \in S : TRUE
    OBVIOUS
  <2>2. \E k \in 1 .. n : at[k] = x
    BY <1>1
  <2>3. n \in 1 .. n
    BY <1>1, <2>2
  <2> QED
    BY <1>1, <2>3
<1>3. ASSUME NEW x \in S PROVE at[n] >= x
  <2>1. PICK k \in 1 .. n : at[k] = x
    BY <1>1
  <2>2. ~(n < k)
    BY <1>1
  <2>3. ~(at[n] < at[k])
    BY <1>1, <1>2, <2>2
  <2>4. at[n] \in Nat /\ at[k] \in Nat
    BY <1>1, <1>2
  <2> QED
    BY <2>1, <2>3, <2>4
<1>4. \E x \in S : \A y \in S : x >= y
  BY <1>2, <1>3
<1> QED
  BY <1>4 DEF Max

(* The least number of a set is one of it.                                 *)
LEMMA MinIs ==
  ASSUME NEW S \in SUBSET Nat, S # {}
  PROVE  Min(S) \in S
<1>1. \E x \in S : \A y \in S : x <= y
  BY LeastNat
<1> QED
  BY <1>1 DEF Min

(* A number that makes the name of a cluster new.                          *)
LEMMA DedupeIs ==
  ASSUME NEW name \in Nat \ {Reserved}, NEW taken, IsFiniteSet(taken)
  PROVE  /\ dedupe_cluster_id(name, taken) \notin taken
         /\ dedupe_cluster_id(name, taken) \in (Nat \ {Reserved}) \X Nat
<1> DEFINE size == Cardinality(taken)
           free == {n \in 2 .. (size + 2) : <<name, n>> \notin taken}
           f == [n \in 2 .. (size + 2) |-> <<name, n>>]
<1>1. size \in Nat
  BY FS_CardinalityType
<1>2. free # {}
  <2>1. SUFFICES ASSUME free = {} PROVE FALSE
    OBVIOUS
  <2>2. f \in [2 .. (size + 2) -> taken]
    BY <2>1
  <2>3. \A m, n \in 2 .. (size + 2) : f[m] = f[n] => m = n
    OBVIOUS
  <2>4. f \in Injection(2 .. (size + 2), taken)
    BY <2>2, <2>3 DEF Injection, IsInjective
  <2> HIDE DEF f
  <2>5. Cardinality(2 .. (size + 2)) <= size
    BY <2>4, FS_Injection
  <2> HIDE DEF size
  <2>6. Cardinality(2 .. (size + 2)) = size + 1
    <3>1. 2 \in Int /\ size + 2 \in Int
      BY <1>1
    <3>2. Cardinality(2 .. (size + 2)) = IF 2 > size + 2 THEN 0 ELSE (size + 2) - 2 + 1
      BY <3>1, FS_Interval
    <3> QED
      BY <1>1, <3>2
  <2> QED
    BY <1>1, <2>5, <2>6
<1>3. free \in SUBSET Nat
  BY <1>1
<1>4. Min(free) \in free
  BY <1>2, <1>3, MinIs
<1>5. \/ /\ <<name, 1>> \notin taken /\ dedupe_cluster_id(name, taken) = <<name, 1>>
      \/ dedupe_cluster_id(name, taken) = <<name, Min(free)>>
  BY DEF dedupe_cluster_id
<1>6. Min(free) \in Nat /\ <<name, Min(free)>> \notin taken
  BY <1>3, <1>4
<1> HIDE DEF free
<1> QED
  BY <1>5, <1>6

(* A group that has nothing of the others can be added.                    *)
LEMMA AppendGrouped ==
  ASSUME NEW groups, Grouped(groups), NEW key, NEW members, Listed(members),
         \A i \in 1 .. Len(groups) :
           /\ groups[i].key # key
           /\ \A c \in ToSet(groups[i].members), d \in ToSet(members) : c.id # d.id
  PROVE  /\ Grouped(Append(groups, Group(key, members)))
         /\ Len(Append(groups, Group(key, members))) = Len(groups) + 1
         /\ \A i \in 1 .. Len(groups) : Append(groups, Group(key, members))[i] = groups[i]
         /\ Append(groups, Group(key, members))[Len(groups) + 1] = Group(key, members)
<1> DEFINE g == Group(key, members)
           n == Len(groups)
           more == Append(groups, g)
<1>1. n \in Nat /\ groups \in Seq(ToSet(groups)) /\ DOMAIN groups = 1 .. n
  BY IsSeq DEF Grouped
<1>2. g.key = key /\ g.members = members /\ g = Group(g.key, g.members)
  BY DEF Group
<1> HIDE DEF g, n
<1>3. /\ more \in Seq(ToSet(groups) \cup {g}) /\ Len(more) = n + 1 /\ DOMAIN more = 1 .. (n + 1)
      /\ \A i \in 1 .. n : more[i] = groups[i]
      /\ more[n + 1] = g
  BY <1>1 DEF n
<1>4. \A i \in 1 .. (n + 1) : i \in 1 .. n \/ i = n + 1
  BY <1>1
<1> HIDE DEF more
<1>5. more = [i \in 1 .. (n + 1) |-> more[i]]
  BY <1>3
<1>6. more \in [1 .. (n + 1) -> ToSet(more)]
  BY <1>3, <1>5 DEF ToSet
<1>7. \A i \in 1 .. (n + 1) :
        more[i] = Group(more[i].key, more[i].members) /\ Listed(more[i].members)
  BY <1>2, <1>3, <1>4 DEF Grouped, n
<1>8. \A i \in 1 .. n : /\ Listed(groups[i].members)
                        /\ DOMAIN groups[i].members = 1 .. Len(groups[i].members)
  BY DEF Grouped, Listed, n
<1>9. DOMAIN members = 1 .. Len(members)
  BY DEF Listed
<1>10. \A i \in 1 .. n : /\ groups[i].key # key
                         /\ \A k \in 1 .. Len(groups[i].members), l \in 1 .. Len(members) :
                              groups[i].members[k].id # members[l].id
  BY <1>8, <1>9 DEF ToSet, n
<1>11. ASSUME NEW i \in 1 .. (n + 1), NEW j \in 1 .. (n + 1), i # j
       PROVE  /\ more[i].key # more[j].key
              /\ \A k \in 1 .. Len(more[i].members), l \in 1 .. Len(more[j].members) :
                   more[i].members[k].id # more[j].members[l].id
  <2>1. CASE i \in 1 .. n /\ j \in 1 .. n
    <3>1. more[i] = groups[i] /\ more[j] = groups[j]
      BY <1>3, <2>1
    <3>2. i \in 1 .. Len(groups) /\ j \in 1 .. Len(groups) /\ i # j
      BY <1>11, <2>1 DEF n
    <3>3. /\ groups[i].key # groups[j].key
          /\ \A k \in 1 .. Len(groups[i].members), l \in 1 .. Len(groups[j].members) :
               groups[i].members[k].id # groups[j].members[l].id
      BY <3>2, GroupsApart
    <3> QED
      BY <3>1, <3>3
  <2>2. CASE i = n + 1 /\ j \in 1 .. n
    BY <1>2, <1>3, <1>10, <2>2
  <2>3. CASE i \in 1 .. n /\ j = n + 1
    BY <1>2, <1>3, <1>10, <2>3
  <2> QED
    BY <1>4, <1>11, <2>1, <2>2, <2>3
<1>12. Grouped(more)
  BY <1>1, <1>3, <1>6, <1>7, <1>11 DEF Grouped
<1> QED
  BY <1>3, <1>12 DEF more, g, n

(* A theme has members, all of the evidence, and a name that is not        *)
(* reserved.                                                               *)
ThemeKeys == (Nat \ {Reserved}) \X Nat

Theme(evidence, g) ==
  /\ g = Group(g.key, g.members) /\ g.key \in ThemeKeys
  /\ Listed(g.members) /\ g.members # <<>> /\ ToSet(g.members) \subseteq ToSet(evidence)

Themed(evidence, themes) ==
  Grouped(themes) /\ \A i \in 1 .. Len(themes) : Theme(evidence, themes[i])

(* One assignment of assign_exclusively keeps the themes apart.            *)
LEMMA AssignKeeps ==
  ASSUME NEW evidence, Listed(evidence), NEW themes, Themed(evidence, themes),
         NEW cluster \in [name : Nat, ids : Seq(Ids \cup {Foreign})]
  PROVE  Themed(evidence, Assign(evidence, themes, cluster))
<1> DEFINE ids == cluster.ids
           I == {i \in FirstPlaces(ids) : ids[i] \in IdSet(evidence) /\
             Unclaimed(themes, ids[i])}
           valid == Ascending(I)
           keyOf == [i \in DOMAIN themes |-> themes[i].key]
           keys == {themes[i].key : i \in DOMAIN themes}
           key == dedupe_cluster_id(cluster.name, keys)
           members == [k \in DOMAIN valid |-> EvidenceOf(evidence, ids[valid[k]])]
           more == Append(themes, Group(key, members))
<1>1. Assign(evidence, themes, cluster) =
        IF cluster.name = Reserved \/ valid = <<>> THEN themes ELSE more
  BY DEF Assign
<1>2. CASE cluster.name = Reserved \/ valid = <<>>
  BY <1>1, <1>2
<1>3. CASE ~(cluster.name = Reserved \/ valid = <<>>)
  <2>1. /\ Len(themes) \in Nat /\ DOMAIN themes = 1 .. Len(themes)
        /\ \A i \in 1 .. Len(themes) : Theme(evidence, themes[i])
    BY DEF Themed, Grouped
  <2>2. key \notin keys /\ key \in ThemeKeys
    <3>1. IsFiniteSet(1 .. Len(themes))
      BY <2>1, FS_Interval
    <3>2. DOMAIN keyOf = 1 .. Len(themes) /\ {keyOf[i] : i \in DOMAIN keyOf} = keys
      BY <2>1
    <3> HIDE DEF keyOf, keys
    <3>3. IsFiniteSet(keys)
      BY <3>1, <3>2, ImageIsFinite
    <3>4. cluster.name \in Nat \ {Reserved}
      BY <1>3
    <3> QED
      BY <3>3, <3>4, DedupeIs DEF ThemeKeys
  <2>3. \A i \in 1 .. Len(themes) : themes[i].key # key
    BY <2>1, <2>2
  <2> HIDE DEF key, keys, keyOf
  <2>4. \A i \in I : ids[i] \in IdSet(evidence) /\ Unclaimed(themes, ids[i])
    OBVIOUS
  <2>5. ids \in Seq(Ids \cup {Foreign}) /\ I \subseteq FirstPlaces(ids)
    OBVIOUS
  <2> HIDE DEF I, ids
  <2>6. /\ valid \in Seq(Nat) /\ Len(valid) \in Nat /\ DOMAIN valid = 1 .. Len(valid)
        /\ \A k \in 1 .. Len(valid) : valid[k] \in I
        /\ \A j, k \in 1 .. Len(valid) : ids[valid[j]] = ids[valid[k]] => j = k
    BY <2>5, FirstPlacesAre
  <2> HIDE DEF valid
  <2>7. \A k \in 1 .. Len(valid) : /\ members[k] \in ToSet(evidence) /\
                                        members[k].id = ids[valid[k]]
                                   /\ Unclaimed(themes, members[k].id)
    <3> TAKE k \in 1 .. Len(valid)
    <3>1. ids[valid[k]] \in IdSet(evidence) /\ Unclaimed(themes, ids[valid[k]])
      BY <2>4, <2>6
    <3>2. EvidenceOf(evidence, ids[valid[k]]) \in ToSet(evidence)
          /\ EvidenceOf(evidence, ids[valid[k]]).id = ids[valid[k]]
      BY <3>1, EvidenceIs
    <3>3. members[k] = EvidenceOf(evidence, ids[valid[k]])
      BY <2>6
    <3> QED
      BY <3>1, <3>2, <3>3
  <2>8. members = [k \in 1 .. Len(valid) |-> members[k]]
    BY <2>6
  <2> HIDE DEF members
  <2>9. ToSet(evidence) \subseteq Candidates
    BY ListedMembers DEF OnePerId
  <2>10. members \in [1 .. Len(valid) -> Candidates]
    BY <2>7, <2>8, <2>9
  <2>11. \A j, k \in 1 .. Len(valid) : members[j].id = members[k].id => j = k
    BY <2>6, <2>7
  <2>12. Listed(members) /\ Len(members) = Len(valid) /\ DOMAIN members = 1 .. Len(valid)
    BY <2>6, <2>10, <2>11, MadeListed
  <2>13. ToSet(members) \subseteq ToSet(evidence) /\
           \A d \in ToSet(members) : Unclaimed(themes, d.id)
    BY <2>7, <2>12 DEF ToSet
  <2>14. members # <<>>
    <3>1. valid # <<>>
      BY <1>3
    <3>2. Len(valid) # 0
      BY <2>6, <3>1
    <3> QED
      BY <2>12, <3>2
  <2>15. \A i \in 1 .. Len(themes) :
           \A c \in ToSet(themes[i].members), d \in ToSet(members) : c.id # d.id
    <3> TAKE i \in 1 .. Len(themes)
    <3> TAKE c \in ToSet(themes[i].members), d \in ToSet(members)
    <3>1. d.id \notin IdSet(themes[i].members)
      BY <2>1, <2>13 DEF Unclaimed
    <3>2. c.id \in IdSet(themes[i].members)
      BY DEF IdSet, ToSet
    <3> QED
      BY <3>1, <3>2
  <2>16. /\ Grouped(more) /\ Len(more) = Len(themes) + 1
         /\ \A i \in 1 .. Len(themes) : more[i] = themes[i]
         /\ more[Len(themes) + 1] = Group(key, members)
    BY <2>3, <2>12, <2>15, AppendGrouped DEF Themed
  <2>17. Theme(evidence, Group(key, members))
    <3>1. Group(key, members).key = key /\ Group(key, members).members = members
      BY DEF Group
    <3> QED
      BY <2>2, <2>12, <2>13, <2>14, <3>1 DEF Theme
  <2> HIDE DEF more
  <2>18. \A i \in 1 .. Len(more) : i \in 1 .. Len(themes) \/ i = Len(themes) + 1
    BY <2>1, <2>16
  <2>19. Themed(evidence, more)
    BY <2>1, <2>16, <2>17, <2>18 DEF Themed
  <2> QED
    BY <1>1, <1>3, <2>19
<1> QED
  BY <1>2, <1>3

(* Whatever the clusterer answers, the themes are groups of the evidence.  *)
LEMMA AssignedIs ==
  ASSUME NEW evidence, Listed(evidence),
         NEW clusters \in Seq([name : Nat, ids : Seq(Ids \cup {Foreign})])
  PROVE  Themed(evidence, assign_exclusively(evidence, clusters))
<1> DEFINE N == Len(clusters)
           X == {t \in Seq([key : ThemeKeys, members : Seq(Candidates)]) : Themed(evidence, t)}
           step == [n \in 1 .. N |-> [t \in X |-> Assign(evidence, t, clusters[n])]]
           Runs(f) == f = [n \in 0 .. N |-> IF n = 0 THEN <<>>
             ELSE Assign(evidence, f[n - 1], clusters[n])]
           themes == CHOOSE f : Runs(f)
<1>1. N \in Nat /\ \A n \in 1 .. N : clusters[n] \in [name : Nat, ids : Seq(Ids \cup {Foreign})]
  <2> DEFINE Cluster == [name : Nat, ids : Seq(Ids \cup {Foreign})]
  <2>1. clusters \in Seq(Cluster)
    OBVIOUS
  <2> HIDE DEF Cluster
  <2>2. N \in Nat /\ \A n \in 1 .. N : clusters[n] \in Cluster
    BY <2>1
  <2> QED
    BY <2>2 DEF Cluster
<1>2. assign_exclusively(evidence, clusters) = themes[N]
  BY DEF assign_exclusively
<1>3. ASSUME NEW t, Themed(evidence, t) PROVE t \in X
  <2>1. Len(t) \in Nat /\ DOMAIN t = 1 .. Len(t) /\ t = [i \in 1 .. Len(t) |-> t[i]]
    BY <1>3 DEF Themed, Grouped
  <2>2. \A i \in 1 .. Len(t) : t[i] \in [key : ThemeKeys, members : Seq(Candidates)]
    <3> TAKE i \in 1 .. Len(t)
    <3>1. Theme(evidence, t[i])
      BY <1>3 DEF Themed
    <3>2. t[i].key \in ThemeKeys /\ t[i].members \in Seq(Candidates)
      BY <3>1 DEF Theme, Listed
    <3>3. t[i] = [key |-> t[i].key, members |-> t[i].members]
      BY <3>1 DEF Theme, Group
    <3> QED
      BY <3>2, <3>3
  <2>3. t \in [1 .. Len(t) -> [key : ThemeKeys, members : Seq(Candidates)]]
    BY <2>1, <2>2
  <2> QED
    BY <1>3, <2>1, <2>3, IsSeq
<1>4. <<>> \in X
  <2>1. Themed(evidence, <<>>)
    BY DEF Themed, Grouped
  <2> QED
    BY <1>3, <2>1
<1>5. \A t \in X : Themed(evidence, t)
  OBVIOUS
<1> HIDE DEF X
<1>6. \A n \in 1 .. N, t \in X : Assign(evidence, t, clusters[n]) \in X
  <2> HIDE DEF N
  <2> TAKE n \in 1 .. N, t \in X
  <2>1. Themed(evidence, Assign(evidence, t, clusters[n]))
    BY <1>1, <1>5, AssignKeeps
  <2> QED
    BY <1>3, <2>1
<1>7. step \in [1 .. N -> [X -> X]]
  <2>1. \A n \in 1 .. N : [t \in X |-> Assign(evidence, t, clusters[n])] \in [X -> X]
    BY <1>6
  <2> QED
    BY <2>1
<1>8. \A n \in 1 .. N, t \in X : step[n][t] = Assign(evidence, t, clusters[n])
  OBVIOUS
<1> HIDE DEF step, N
<1>9. PICK f : Iterates(f, X, N, <<>>, step)
  BY <1>1, <1>4, <1>7, Iteration
<1>10. /\ f \in [0 .. N -> X] /\ f[0] = <<>>
       /\ \A n \in 1 .. N : f[n] = step[n][f[n - 1]]
  BY <1>9 DEF Iterates
<1>11. Runs(f)
  <2>1. \A n \in 0 .. N : f[n] = IF n = 0 THEN <<>> ELSE Assign(evidence, f[n - 1], clusters[n])
    <3> TAKE n \in 0 .. N
    <3>1. CASE n = 0
      BY <1>10, <3>1
    <3>2. CASE n # 0
      <4>1. n \in 1 .. N /\ n - 1 \in 0 .. N /\ f[n - 1] \in X
        BY <1>1, <1>10, <3>2
      <4> QED
        BY <1>8, <1>10, <3>2, <4>1
    <3> QED
      BY <3>1, <3>2
  <2>2. f = [n \in 0 .. N |-> f[n]]
    BY <1>10
  <2> QED
    BY <2>1, <2>2
<1>12. Runs(themes)
  BY <1>11
<1> HIDE DEF themes
<1>13. \A n \in 0 .. N : themes[n] = IF n = 0 THEN <<>>
         ELSE Assign(evidence, themes[n - 1], clusters[n])
  BY <1>12
<1> DEFINE S == {n \in Nat : n <= N => themes[n] \in X}
<1>14. 0 \in S
  BY <1>1, <1>4, <1>13
<1>15. ASSUME NEW n \in Nat, n \in S PROVE n + 1 \in S
  <2>1. SUFFICES ASSUME n + 1 <= N PROVE themes[n + 1] \in X
    OBVIOUS
  <2>2. n + 1 \in 1 .. N /\ n + 1 \in 0 .. N /\ n + 1 # 0 /\ (n + 1) - 1 = n /\ n <= N
    BY <1>1, <2>1
  <2>3. themes[n] \in X
    BY <1>15, <2>2
  <2>4. themes[n + 1] = Assign(evidence, themes[n], clusters[n + 1])
    BY <1>13, <2>2
  <2> QED
    BY <1>6, <2>2, <2>3, <2>4
<1> HIDE DEF S
<1>16. N \in S
  BY <1>1, <1>14, <1>15, NatSetInduction
<1>17. themes[N] \in X
  BY <1>1, <1>16 DEF S
<1> QED
  BY <1>2, <1>5, <1>17

-----------------------------------------------------------------------------
(* The order of the themes.                                               *)

(* The scores of the members of a theme add up to a number.                *)
LEMMA TotalIs ==
  ASSUME NEW g, g.members \in Seq(Candidates)
  PROVE  Total(g) \in Nat
<1> DEFINE N == Len(g.members)
           Runs(f) == f = [n \in 0 .. N |-> IF n = 0 THEN 0 ELSE f[n - 1] + g.members[n].fusion]
           sum == CHOOSE f : Runs(f)
           step == [n \in 1 .. N |-> [x \in Nat |-> x + g.members[n].fusion]]
<1>1. N \in Nat /\ 0 \in Nat /\ \A n \in 1 .. N : g.members[n].fusion \in Nat
  BY IdsAreNumbers
<1>2. Total(g) = sum[N]
  BY DEF Total
<1> HIDE DEF N
<1>3. step \in [1 .. N -> [Nat -> Nat]]
  <2>1. \A n \in 1 .. N : [x \in Nat |-> x + g.members[n].fusion] \in [Nat -> Nat]
    BY <1>1
  <2> QED
    BY <2>1
<1>4. \A n \in 1 .. N, x \in Nat : step[n][x] = x + g.members[n].fusion
  OBVIOUS
<1> HIDE DEF step
<1>5. PICK f : Iterates(f, Nat, N, 0, step)
  BY <1>1, <1>3, Iteration
<1>6. f \in [0 .. N -> Nat] /\ f[0] = 0 /\ \A n \in 1 .. N : f[n] = step[n][f[n - 1]]
  BY <1>5 DEF Iterates
<1>7. Runs(f)
  <2>1. \A n \in 0 .. N : f[n] = IF n = 0 THEN 0 ELSE f[n - 1] + g.members[n].fusion
    <3> TAKE n \in 0 .. N
    <3>1. CASE n = 0
      BY <1>6, <3>1
    <3>2. CASE n # 0
      <4>1. n \in 1 .. N /\ n - 1 \in 0 .. N /\ f[n - 1] \in Nat
        BY <1>1, <1>6, <3>2
      <4> QED
        BY <1>4, <1>6, <3>2, <4>1
    <3> QED
      BY <3>1, <3>2
  <2>2. f = [n \in 0 .. N |-> f[n]]
    BY <1>6
  <2> QED
    BY <2>1, <2>2
<1>8. Runs(sum)
  BY <1>7
<1> HIDE DEF sum
<1>9. \A n \in 0 .. N : sum[n] = IF n = 0 THEN 0 ELSE sum[n - 1] + g.members[n].fusion
  BY <1>8
<1> DEFINE S == {n \in Nat : n <= N => sum[n] \in Nat}
<1>10. 0 \in S
  BY <1>1, <1>9
<1>11. ASSUME NEW n \in Nat, n \in S PROVE n + 1 \in S
  <2>1. SUFFICES ASSUME n + 1 <= N PROVE sum[n + 1] \in Nat
    OBVIOUS
  <2>2. n + 1 \in 1 .. N /\ n + 1 \in 0 .. N /\ n + 1 # 0 /\ (n + 1) - 1 = n /\ n <= N
    BY <1>1, <2>1
  <2>3. sum[n] \in Nat /\ g.members[n + 1].fusion \in Nat
    BY <1>1, <1>11, <2>2
  <2>4. sum[n + 1] = sum[n] + g.members[n + 1].fusion
    BY <1>9, <2>2
  <2> QED
    BY <2>3, <2>4
<1> HIDE DEF S
<1>12. N \in S
  BY <1>1, <1>10, <1>11, NatSetInduction
<1> QED
  BY <1>1, <1>2, <1>12 DEF S

(* The best score of a theme is one of its members.                        *)
LEMMA BestIs ==
  ASSUME NEW evidence, NEW g, Theme(evidence, g)
  PROVE  Best(g) \in Nat /\ Len(g.members) \in Nat \ {0} /\ Total(g) \in Nat
<1>1. Listed(g.members) /\ g.members # <<>>
  BY DEF Theme
<1>2. g.members \in Seq(Candidates)
  BY <1>1 DEF Listed
<1>3. Len(g.members) \in Nat \ {0}
  BY <1>1, <1>2
<1> DEFINE T == ToSet(g.members)
           score == [c \in T |-> c.fusion]
           scores == {c.fusion : c \in T}
<1>4. IsFiniteSet(T) /\ T \subseteq Candidates
  BY <1>1, ListedMembers DEF OnePerId
<1>5. T # {}
  <2>1. 1 \in DOMAIN g.members
    BY <1>2, <1>3
  <2> QED
    BY <2>1 DEF ToSet
<1> HIDE DEF T
<1>6. scores \in SUBSET Nat /\ scores # {}
  BY <1>4, <1>5, IdsAreNumbers
<1>7. IsFiniteSet(scores)
  <2>1. DOMAIN score = T /\ {score[c] : c \in DOMAIN score} = scores
    OBVIOUS
  <2> HIDE DEF score, scores
  <2> QED
    BY <1>4, <2>1, ImageIsFinite
<1>8. Best(g) = Max(scores)
  BY DEF Best, T
<1> HIDE DEF scores
<1>9. Best(g) \in Nat
  BY <1>6, <1>7, <1>8, MaxIs
<1> QED
  BY <1>2, <1>3, <1>9, TotalIs

(* Means are compared without division: a / x with b / y as a * y with     *)
(* b * x.                                                                  *)
LEMMA MeansCompare ==
  ASSUME NEW a \in Nat, NEW b \in Nat, NEW c \in Nat,
         NEW x \in Nat \ {0}, NEW y \in Nat \ {0}, NEW z \in Nat \ {0},
         a * y >= b * x, b * z >= c * y
  PROVE  /\ a * z >= c * x
         /\ a * y > b * x \/ b * z > c * y => a * z > c * x
<1>1. /\ (a * y) * z >= (b * x) * z
      /\ a * y > b * x => (a * y) * z > (b * x) * z
  <2> DEFINE p == a * y
             q == b * x
  <2>1. p \in Nat /\ q \in Nat /\ p >= q
    OBVIOUS
  <2> HIDE DEF p, q
  <2>2. p * z >= q * z /\ (p > q => p * z > q * z)
    BY <2>1
  <2> QED
    BY <2>2 DEF p, q
<1>2. /\ (b * z) * x >= (c * y) * x
      /\ b * z > c * y => (b * z) * x > (c * y) * x
  <2> DEFINE p == b * z
             q == c * y
  <2>1. p \in Nat /\ q \in Nat /\ p >= q
    OBVIOUS
  <2> HIDE DEF p, q
  <2>2. p * x >= q * x /\ (p > q => p * x > q * x)
    BY <2>1
  <2> QED
    BY <2>2 DEF p, q
<1>3. /\ (a * y) * z = (a * z) * y
      /\ (b * x) * z = (b * z) * x
      /\ (c * y) * x = (c * x) * y
  OBVIOUS
<1> DEFINE m == a * z
           n == c * x
<1>4. m \in Nat /\ n \in Nat
  OBVIOUS
<1>5. /\ m * y >= n * y
      /\ a * y > b * x \/ b * z > c * y => m * y > n * y
  <2> DEFINE s == (a * y) * z
             t == (b * x) * z
             u == (c * y) * x
  <2>1. s \in Nat /\ t \in Nat /\ u \in Nat /\ s >= t /\ t >= u
    BY <1>1, <1>2, <1>3
  <2>2. a * y > b * x \/ b * z > c * y => s > t \/ t > u
    BY <1>1, <1>2, <1>3
  <2>3. s = m * y /\ u = n * y
    BY <1>3
  <2> HIDE DEF s, t, u, m, n
  <2>4. s >= u /\ (s > t \/ t > u => s > u)
    BY <2>1
  <2> QED
    BY <2>2, <2>3, <2>4
<1> HIDE DEF m, n
<1>6. m >= n /\ (m * y > n * y => m > n)
  <2>1. m < n => m * y < n * y
    BY <1>4
  <2>2. m = n => m * y = n * y
    OBVIOUS
  <2>3. m * y \in Nat /\ n * y \in Nat
    BY <1>4
  <2> QED
    BY <1>4, <1>5, <2>1, <2>2, <2>3
<1> QED
  BY <1>5, <1>6 DEF m, n

(* Fuller(g, h): the mean score of g is greater than that of h.            *)
Fuller(g, h) == Total(g) * Len(h.members) > Total(h) * Len(g.members)

(* Size and id decide between themes that are equal otherwise.             *)
LEMMA FullerOrders ==
  ASSUME NEW evidence, NEW T, \A g \in T : Theme(evidence, g)
  PROVE  /\ \A g \in T : ~Fuller(g, g)
         /\ \A g, h, k \in T : /\ Fuller(g, h) /\ ~Fuller(k, h) => Fuller(g, k)
                               /\ ~Fuller(h, g) /\ Fuller(h, k) => Fuller(g, k)
                               /\ ~Fuller(h, g) /\ ~Fuller(k, h) => ~Fuller(k, g)
         /\ \A g, h \in T : /\ Total(g) * Len(h.members) = Total(h) * Len(g.members)
                                 <=> ~Fuller(g, h) /\ ~Fuller(h, g)
                            /\ ~(Fuller(g, h) /\ Fuller(h, g))
<1>1. \A g \in T : Total(g) \in Nat /\ Len(g.members) \in Nat \ {0}
  BY BestIs
<1>2. \A g, h \in T : Total(g) * Len(h.members) \in Nat
  BY <1>1
<1>3. ASSUME NEW g \in T, NEW h \in T
      PROVE  /\ Total(g) * Len(h.members) = Total(h) * Len(g.members)
                  <=> ~Fuller(g, h) /\ ~Fuller(h, g)
             /\ ~(Fuller(g, h) /\ Fuller(h, g))
             /\ ~Fuller(h, g) <=> Total(g) * Len(h.members) >= Total(h) * Len(g.members)
  BY <1>2 DEF Fuller
<1>4. \A g \in T : ~Fuller(g, g)
  BY <1>3
<1>5. ASSUME NEW g \in T, NEW h \in T, NEW k \in T, ~Fuller(h, g), ~Fuller(k, h)
      PROVE  /\ ~Fuller(k, g)
             /\ Fuller(g, h) \/ Fuller(h, k) => Fuller(g, k)
  <2> DEFINE a == Total(g)
             b == Total(h)
             c == Total(k)
             x == Len(g.members)
             y == Len(h.members)
             z == Len(k.members)
  <2>1. a \in Nat /\ b \in Nat /\ c \in Nat /\ x \in Nat \ {0} /\ y \in Nat \ {0} /\
          z \in Nat \ {0}
    BY <1>1
  <2>2. a * y >= b * x /\ b * z >= c * y
    BY <1>3, <1>5
  <2>3. /\ Fuller(g, h) <=> a * y > b * x
        /\ Fuller(h, k) <=> b * z > c * y
        /\ Fuller(g, k) <=> a * z > c * x
        /\ ~Fuller(k, g) <=> a * z >= c * x
    BY <1>3 DEF Fuller
  <2> HIDE DEF a, b, c, x, y, z
  <2>4. /\ a * z >= c * x
        /\ a * y > b * x \/ b * z > c * y => a * z > c * x
    BY <2>1, <2>2, MeansCompare
  <2> QED
    BY <2>3, <2>4
<1>6. \A g, h, k \in T : /\ Fuller(g, h) /\ ~Fuller(k, h) => Fuller(g, k)
                         /\ ~Fuller(h, g) /\ Fuller(h, k) => Fuller(g, k)
                         /\ ~Fuller(h, g) /\ ~Fuller(k, h) => ~Fuller(k, g)
  BY <1>3, <1>5
<1> QED
  BY <1>3, <1>4, <1>6

(* sort_theme_clusters has one order of the themes.                        *)
LEMMA ThemesOrder ==
  ASSUME NEW evidence, NEW T, \A g \in T : Theme(evidence, g),
         \A g, h \in T : g.key = h.key => g = h
  PROVE  Orders([g \in T |-> {h \in T : ThemeBefore(h, g)}])
<1> DEFINE before == [g \in T |-> {h \in T : ThemeBefore(h, g)}]
           size(g) == Len(g.members)
<1>1. DOMAIN before = T /\ \A g, h \in T : h \in before[g] <=> ThemeBefore(h, g)
  OBVIOUS
<1>2. \A g \in T : before[g] \subseteq T
  OBVIOUS
<1>3. \A g \in T : Best(g) \in Nat /\ size(g) \in Nat
  BY BestIs
<1>4. \A g \in T : g.key \in Pairs
  BY DEF Theme, ThemeKeys, Pairs
<1>5. \A g, h \in T : ThemeBefore(g, h) <=>
        \/ Best(g) > Best(h)
        \/ Best(g) = Best(h) /\ Fuller(g, h)
        \/ Best(g) = Best(h) /\ ~Fuller(g, h) /\ ~Fuller(h, g) /\ size(g) > size(h)
        \/ /\ Best(g) = Best(h) /\ ~Fuller(g, h) /\ ~Fuller(h, g) /\ size(g) = size(h)
           /\ PairBefore(g.key, h.key)
  <2>1. \A g, h \in T : /\ Total(g) * Len(h.members) = Total(h) * Len(g.members)
                             <=> ~Fuller(g, h) /\ ~Fuller(h, g)
    BY FullerOrders
  <2> QED
    BY <2>1 DEF ThemeBefore, Fuller
<1>6. /\ \A g \in T : ~Fuller(g, g)
      /\ \A g, h \in T : ~(Fuller(g, h) /\ Fuller(h, g))
      /\ \A g, h, k \in T : /\ Fuller(g, h) /\ ~Fuller(k, h) => Fuller(g, k)
                            /\ ~Fuller(h, g) /\ Fuller(h, k) => Fuller(g, k)
                            /\ ~Fuller(h, g) /\ ~Fuller(k, h) => ~Fuller(k, g)
  BY FullerOrders
<1> HIDE DEF before, size
<1>7. \A g \in T : g \notin before[g]
  BY <1>1, <1>3, <1>4, <1>5, <1>6, PairsInOrder
<1>8. ASSUME NEW g \in T, NEW h \in T, NEW k \in T, ThemeBefore(g, h), ThemeBefore(h, k)
      PROVE  ThemeBefore(g, k)
  <2>1. Best(g) \in Nat /\ Best(h) \in Nat /\ Best(k) \in Nat /\ size(g) \in Nat /\
          size(h) \in Nat
        /\ size(k) \in Nat
    BY <1>3
  <2>2. /\ Best(g) >= Best(h) /\ Best(h) >= Best(k)
        /\ Best(g) = Best(h) => ~Fuller(h, g)
        /\ Best(h) = Best(k) => ~Fuller(k, h)
    BY <1>5, <1>6, <1>8, <2>1
  <2>3. CASE Best(g) > Best(k)
    BY <1>5, <2>3
  <2>4. CASE Best(g) = Best(k)
    <3>1. Best(g) = Best(h) /\ Best(h) = Best(k) /\ ~Fuller(h, g) /\ ~Fuller(k, h)
      BY <2>1, <2>2, <2>4
    <3>2. CASE Fuller(g, h) \/ Fuller(h, k)
      BY <1>5, <1>6, <2>4, <3>1, <3>2
    <3>3. CASE ~Fuller(g, h) /\ ~Fuller(h, k)
      <4>1. ~Fuller(g, k) /\ ~Fuller(k, g)
        BY <1>6, <3>1, <3>3
      <4>2. /\ size(g) > size(h) \/ (size(g) = size(h) /\ PairBefore(g.key, h.key))
            /\ size(h) > size(k) \/ (size(h) = size(k) /\ PairBefore(h.key, k.key))
        BY <1>5, <1>8, <2>1, <3>1, <3>3
      <4>3. size(g) > size(k) \/ (size(g) = size(k) /\ PairBefore(g.key, k.key))
        BY <1>4, <2>1, <4>2, PairsInOrder
      <4> QED
        BY <1>5, <2>4, <4>1, <4>3
    <3> QED
      BY <3>2, <3>3
  <2> QED
    BY <2>1, <2>2, <2>3, <2>4
<1>9. ASSUME NEW g \in T, NEW h \in T, g # h PROVE ThemeBefore(g, h) \/ ThemeBefore(h, g)
  <2>1. g.key # h.key
    BY <1>9
  <2>2. PairBefore(g.key, h.key) \/ PairBefore(h.key, g.key)
    BY <1>4, <2>1, PairsInOrder
  <2> QED
    BY <1>3, <1>5, <2>2
<1>10. Orders(before)
  BY <1>1, <1>2, <1>7, <1>8, <1>9 DEF Orders
<1> QED
  BY <1>10 DEF before

(* Groups whose members are ordered anew.                                  *)
LEMMA ReorderedIs ==
  ASSUME NEW groups, Grouped(groups)
  PROVE  LET final == [i \in DOMAIN groups |-> Group(groups[i].key,
               Ordered(ToSet(groups[i].members)))]
         IN /\ Grouped(final)
            /\ ToSet(Flatten(final)) = ToSet(Flatten(groups))
<1> DEFINE n == Len(groups)
           final == [i \in DOMAIN groups |-> Group(groups[i].key,
             Ordered(ToSet(groups[i].members)))]
<1>1. n \in Nat /\ DOMAIN groups = 1 .. n
  BY DEF Grouped
<1>2. \A i \in 1 .. n : Listed(groups[i].members)
  BY DEF Grouped
<1>3. \A i \in 1 .. n : /\ Listed(Ordered(ToSet(groups[i].members)))
                        /\ ToSet(Ordered(ToSet(groups[i].members))) = ToSet(groups[i].members)
  BY <1>2, ListedMembers, OrderedListed
<1>4. \A i \in 1 .. n : final[i] = Group(groups[i].key, Ordered(ToSet(groups[i].members)))
  BY <1>1
<1>5. DOMAIN final = 1 .. n /\ final = [i \in 1 .. n |-> final[i]]
  BY <1>1
<1> HIDE DEF final
<1>6. \A i \in 1 .. n : /\ final[i].key = groups[i].key /\ Listed(final[i].members)
                        /\ ToSet(final[i].members) = ToSet(groups[i].members)
                        /\ final[i] = Group(final[i].key, final[i].members)
  <2> TAKE i \in 1 .. n
  <2> DEFINE k == groups[i].key
             m == Ordered(ToSet(groups[i].members))
  <2>1. Listed(m) /\ ToSet(m) = ToSet(groups[i].members) /\ final[i] = Group(k, m)
    BY <1>3, <1>4
  <2> HIDE DEF m
  <2>2. final[i].key = k /\ final[i].members = m
    BY <2>1 DEF Group
  <2> QED
    BY <2>1, <2>2
<1>7. final \in [1 .. n -> ToSet(final)]
  BY <1>5 DEF ToSet
<1> HIDE DEF n
<1>8. Len(final) = n
  BY <1>1, <1>7, IsSeq
<1>9. ASSUME NEW i \in 1 .. n, NEW j \in 1 .. n, i # j
      PROVE  /\ final[i].key # final[j].key
             /\ \A k \in 1 .. Len(final[i].members), l \in 1 .. Len(final[j].members) :
                  final[i].members[k].id # final[j].members[l].id
  <2>1. /\ groups[i].key # groups[j].key
        /\ \A k \in 1 .. Len(groups[i].members), l \in 1 .. Len(groups[j].members) :
             groups[i].members[k].id # groups[j].members[l].id
    BY <1>9, GroupsApart DEF n
  <2>2. \A c \in ToSet(groups[i].members), d \in ToSet(groups[j].members) : c.id # d.id
    <3>1. /\ DOMAIN groups[i].members = 1 .. Len(groups[i].members)
          /\ DOMAIN groups[j].members = 1 .. Len(groups[j].members)
      BY <1>2 DEF Listed
    <3> QED
      BY <2>1, <3>1 DEF ToSet
  <2>3. /\ \A k \in 1 .. Len(final[i].members) :
             final[i].members[k] \in ToSet(groups[i].members)
        /\ \A l \in 1 .. Len(final[j].members) :
             final[j].members[l] \in ToSet(groups[j].members)
    <3>1. /\ DOMAIN final[i].members = 1 .. Len(final[i].members)
          /\ DOMAIN final[j].members = 1 .. Len(final[j].members)
      BY <1>6 DEF Listed
    <3>2. /\ \A k \in 1 .. Len(final[i].members) :
               final[i].members[k] \in ToSet(final[i].members)
          /\ \A l \in 1 .. Len(final[j].members) :
               final[j].members[l] \in ToSet(final[j].members)
      BY <3>1 DEF ToSet
    <3> QED
      BY <1>6, <3>2
  <2> QED
    BY <1>6, <2>1, <2>2, <2>3
<1>10. Grouped(final)
  BY <1>1, <1>6, <1>7, <1>8, <1>9 DEF Grouped
<1>11. ToSet(Flatten(final)) = ToSet(Flatten(groups))
  <2>1. ToSet(Flatten(final)) = UNION {ToSet(final[i].members) : i \in DOMAIN final}
    BY <1>10, FlattenIs
  <2>2. ToSet(Flatten(groups)) = UNION {ToSet(groups[i].members) : i \in DOMAIN groups}
    BY FlattenIs
  <2>3. DOMAIN groups = 1 .. n
    BY <1>1
  <2> QED
    BY <1>5, <1>6, <2>1, <2>2, <2>3
<1> QED
  BY <1>10, <1>11 DEF final

(* The group of what no theme claimed is there if it has members.          *)
LEMMA OneNonEmpty ==
  ASSUME NEW g
  PROVE  NonEmpty(<<g>>) = IF g.members = <<>> THEN <<>> ELSE <<g>>
<1> DEFINE s == <<g>>
           W == {h \in ToSet(s) : h.members # <<>>}
           K == Keep(s, W)
<1>1. s \in Seq({g}) /\ Len(s) = 1 /\ DOMAIN s = 1 .. 1 /\ s[1] = g
  OBVIOUS
<1>2. NonEmpty(<<g>>) = K
  BY DEF NonEmpty
<1>3. g \in W <=> g.members # <<>>
  BY <1>1 DEF ToSet
<1> HIDE DEF s, W
<1>4. K \in Seq({g}) /\ \E at : KeptAt(at, K, s, W)
  BY <1>1, KeepIs
<1>5. CASE g.members = <<>>
  <2>1. \A k \in 1 .. Len(K) : FALSE
    <3>1. PICK at : KeptAt(at, K, s, W)
      BY <1>4
    <3> TAKE k \in 1 .. Len(K)
    <3>2. s[at[k]] \in W /\ at[k] \in 1 .. Len(s)
      BY <3>1 DEF KeptAt
    <3>3. s[at[k]] = g
      BY <1>1, <3>2
    <3> QED
      BY <1>3, <1>5, <3>2, <3>3
  <2>2. K = <<>>
    BY <1>4, <2>1
  <2> QED
    BY <1>2, <1>5, <2>2
<1>6. CASE g.members # <<>>
  <2>1. \A i \in 1 .. Len(s) : s[i] \in W
    BY <1>1, <1>3, <1>6
  <2>2. K = s
    BY <1>1, <2>1, KeepAll
  <2> QED
    BY <1>2, <1>6, <2>2 DEF s
<1> QED
  BY <1>5, <1>6

(* Themes in an order are the same groups.                                 *)
LEMMA SortedThemes ==
  ASSUME NEW evidence, NEW themes, Themed(evidence, themes)
  PROVE  LET all == ToSet(themes)
             sorted == InOrder([g \in all |-> {h \in all : ThemeBefore(h, g)}])
         IN Themed(evidence, sorted) /\ ToSet(sorted) = ToSet(themes)
<1> DEFINE all == ToSet(themes)
           before == [g \in all |-> {h \in all : ThemeBefore(h, g)}]
           sorted == InOrder(before)
<1>1. /\ Grouped(themes) /\ Len(themes) \in Nat /\ DOMAIN themes = 1 .. Len(themes)
      /\ \A i \in 1 .. Len(themes) : Theme(evidence, themes[i])
  BY DEF Themed, Grouped
<1>2. all = {themes[i] : i \in 1 .. Len(themes)}
  BY <1>1 DEF ToSet
<1>3. IsFiniteSet(all)
  <2>1. IsFiniteSet(DOMAIN themes)
    BY <1>1, FS_Interval
  <2> QED
    BY <2>1, ImageIsFinite DEF ToSet
<1> HIDE DEF all
<1>4. \A g \in all : Theme(evidence, g)
  BY <1>1, <1>2
<1>5. \A g, h \in all : g # h =>
        /\ g.key # h.key
        /\ \A k \in 1 .. Len(g.members), l \in 1 .. Len(h.members) :
             g.members[k].id # h.members[l].id
  <2> TAKE g, h \in all
  <2>1. HAVE g # h
  <2>2. PICK i \in 1 .. Len(themes), j \in 1 .. Len(themes) : g = themes[i] /\ h = themes[j]
    BY <1>2
  <2>3. i # j
    BY <2>1, <2>2
  <2> QED
    BY <1>1, <2>2, <2>3, GroupsApart
<1>6. Orders(before)
  BY <1>4, <1>5, ThemesOrder
<1>7. DOMAIN before = all
  OBVIOUS
<1> HIDE DEF before
<1>8. Sorts(sorted, before)
  BY <1>3, <1>6, <1>7, SortsIs
<1> HIDE DEF sorted
<1>9. \A i, j \in 1 .. Len(sorted) : sorted[i] = sorted[j] => i = j
  BY <1>6, <1>8, SortsOnce
<1>10. /\ sorted \in Seq(all) /\ Len(sorted) \in Nat /\ DOMAIN sorted = 1 .. Len(sorted)
       /\ \A i \in 1 .. Len(sorted) : sorted[i] \in all
       /\ \A g \in all : \E k \in 1 .. Len(sorted) : sorted[k] = g
  <2>1. sorted \in Seq(all)
    BY <1>7, <1>8 DEF Sorts
  <2> QED
    BY <1>7, <1>8, <2>1 DEF Sorts
<1>11. ToSet(sorted) = all
  BY <1>10 DEF ToSet
<1>12. sorted = [i \in 1 .. Len(sorted) |-> sorted[i]]
  BY <1>10
<1>13. sorted \in [1 .. Len(sorted) -> ToSet(sorted)]
  BY <1>10, <1>11, <1>12
<1>14. \A i \in 1 .. Len(sorted) :
         sorted[i] = Group(sorted[i].key, sorted[i].members) /\ Listed(sorted[i].members)
  BY <1>4, <1>10 DEF Theme
<1>15. \A i, j \in 1 .. Len(sorted) :
         i # j => /\ sorted[i].key # sorted[j].key
                  /\ \A k \in 1 .. Len(sorted[i].members), l \in 1 .. Len(sorted[j].members) :
                       sorted[i].members[k].id # sorted[j].members[l].id
  <2> TAKE i, j \in 1 .. Len(sorted)
  <2>1. HAVE i # j
  <2>2. sorted[i] # sorted[j] /\ sorted[i] \in all /\ sorted[j] \in all
    BY <1>9, <1>10, <2>1
  <2> QED
    BY <1>5, <2>2
<1>16. Grouped(sorted)
  BY <1>10, <1>13, <1>14, <1>15 DEF Grouped
<1>17. Themed(evidence, sorted)
  BY <1>4, <1>10, <1>16 DEF Themed
<1> QED
  BY <1>11, <1>17 DEF sorted, before, all

(* The groups of a thematic answer have all the evidence, each once,       *)
(* whatever the clusterer answers.                                         *)
LEMMA ThemeGroupsAre ==
  ASSUME NEW evidence, Listed(evidence),
         NEW clusters \in Seq([name : Nat, ids : Seq(Ids \cup {Foreign})])
  PROVE  /\ Grouped(ThemeGroups(evidence, clusters))
         /\ ToSet(Flatten(ThemeGroups(evidence, clusters))) = ToSet(evidence)
<1> DEFINE themes == assign_exclusively(evidence, clusters)
           all == ToSet(themes)
           sorted == InOrder([g \in all |-> {h \in all : ThemeBefore(h, g)}])
           leftover == Keep(evidence, {c \in ToSet(evidence) : Unclaimed(themes, c.id)})
           other == Group(OtherRelated, leftover)
           groups == sorted \o NonEmpty(<<other>>)
           final == [i \in DOMAIN groups |-> Group(groups[i].key,
             Ordered(ToSet(groups[i].members)))]
<1>1. ThemeGroups(evidence, clusters) = final
  BY DEF ThemeGroups
<1>2. Themed(evidence, themes)
  BY AssignedIs
<1> HIDE DEF themes
<1>3. Themed(evidence, sorted) /\ ToSet(sorted) = ToSet(themes)
  BY <1>2, SortedThemes
<1> HIDE DEF sorted, all
<1>4. /\ Grouped(sorted) /\ Len(sorted) \in Nat /\ DOMAIN sorted = 1 .. Len(sorted)
      /\ \A i \in 1 .. Len(sorted) : Theme(evidence, sorted[i])
  BY <1>3 DEF Themed, Grouped
<1>5. \A g : g \in ToSet(themes) <=> \E i \in 1 .. Len(sorted) : g = sorted[i]
  BY <1>3, <1>4 DEF ToSet
<1>6. \A id : Unclaimed(themes, id) <=>
        \A i \in 1 .. Len(sorted) : id \notin IdSet(sorted[i].members)
  <2>1. \A id : Unclaimed(themes, id) <=> \A g \in ToSet(themes) : id \notin IdSet(g.members)
    BY DEF Unclaimed, ToSet
  <2> QED
    BY <1>5, <2>1
<1>7. Listed(leftover) /\ ToSet(leftover) = {c \in ToSet(evidence) : Unclaimed(themes, c.id)}
  BY KeepListed
<1> HIDE DEF leftover
<1>8. other.members = leftover /\ other.key = OtherRelated
  BY DEF Group
<1>9. \A i \in 1 .. Len(sorted) :
        /\ sorted[i].key # OtherRelated
        /\ \A c \in ToSet(sorted[i].members), d \in ToSet(leftover) : c.id # d.id
  <2> TAKE i \in 1 .. Len(sorted)
  <2>1. sorted[i].key # OtherRelated
    BY <1>4 DEF Theme, ThemeKeys, OtherRelated
  <2>2. \A c \in ToSet(sorted[i].members) : c.id \in IdSet(sorted[i].members)
    BY DEF IdSet, ToSet
  <2> QED
    BY <1>6, <1>7, <2>1, <2>2
<1>10. /\ Grouped(groups)
       /\ \A i \in DOMAIN groups : groups[i] = other \/ \E j \in 1 .. Len(sorted) :
            groups[i] = sorted[j]
       /\ \A j \in 1 .. Len(sorted) : \E i \in DOMAIN groups : groups[i] = sorted[j]
       /\ leftover # <<>> => \E i \in DOMAIN groups : groups[i] = other
  <2>1. sorted \in Seq(ToSet(sorted))
    BY <1>4, IsSeq DEF Grouped
  <2>2. CASE leftover = <<>>
    <3>1. groups = sorted
      <4>1. NonEmpty(<<other>>) = <<>>
        BY <1>8, <2>2, OneNonEmpty
      <4>2. sorted \o <<>> = sorted
        BY <2>1
      <4> QED
        BY <4>1, <4>2
    <3> QED
      BY <1>4, <2>2, <3>1
  <2>3. CASE leftover # <<>>
    <3>1. groups = Append(sorted, Group(OtherRelated, leftover))
      <4>1. NonEmpty(<<other>>) = <<other>>
        BY <1>8, <2>3, OneNonEmpty
      <4>2. Append(sorted, other) = sorted \o <<other>>
        <5> HIDE DEF other
        <5> QED
          BY <2>1
      <4> QED
        BY <4>1, <4>2
    <3> DEFINE g == Group(OtherRelated, leftover)
    <3>2. /\ Grouped(Append(sorted, g)) /\ Len(Append(sorted, g)) = Len(sorted) + 1
          /\ \A i \in 1 .. Len(sorted) : Append(sorted, g)[i] = sorted[i]
          /\ Append(sorted, g)[Len(sorted) + 1] = g
      BY <1>4, <1>7, <1>9, AppendGrouped
    <3>3. other = g
      OBVIOUS
    <3> HIDE DEF g, other
    <3>4. /\ Grouped(groups) /\ Len(groups) = Len(sorted) + 1
          /\ \A i \in 1 .. Len(sorted) : groups[i] = sorted[i]
          /\ groups[Len(sorted) + 1] = other
      BY <3>1, <3>2, <3>3 DEF g
    <3> HIDE DEF groups
    <3>5. DOMAIN groups = 1 .. (Len(sorted) + 1)
      BY <3>4 DEF Grouped
    <3>6. \A i \in 1 .. (Len(sorted) + 1) : i \in 1 .. Len(sorted) \/ i = Len(sorted) + 1
      BY <1>4
    <3>7. Len(sorted) + 1 \in 1 .. (Len(sorted) + 1) /\
            \A i \in 1 .. Len(sorted) : i \in 1 .. (Len(sorted) + 1)
      BY <1>4
    <3> QED
      BY <3>4, <3>5, <3>6, <3>7
  <2> QED
    BY <2>2, <2>3
<1> HIDE DEF groups, other
<1>11. ToSet(Flatten(groups)) = UNION {ToSet(groups[i].members) : i \in DOMAIN groups}
  BY <1>10, FlattenIs
<1>12. ToSet(Flatten(groups)) \subseteq ToSet(evidence)
  <2>1. ASSUME NEW i \in DOMAIN groups PROVE ToSet(groups[i].members) \subseteq ToSet(evidence)
    <3>1. CASE groups[i] = other
      BY <1>7, <1>8, <3>1
    <3>2. CASE \E j \in 1 .. Len(sorted) : groups[i] = sorted[j]
      BY <1>4, <3>2 DEF Theme
    <3> QED
      BY <1>10, <3>1, <3>2
  <2> QED
    BY <1>11, <2>1
<1>13. ASSUME NEW c \in ToSet(evidence) PROVE c \in ToSet(Flatten(groups))
  <2>1. CASE Unclaimed(themes, c.id)
    <3>1. c \in ToSet(leftover)
      BY <1>7, <2>1
    <3>2. leftover # <<>>
      BY <3>1 DEF ToSet
    <3>3. PICK i \in DOMAIN groups : groups[i] = other
      BY <1>10, <3>2
    <3> QED
      BY <1>8, <1>11, <3>1, <3>3
  <2>2. CASE ~Unclaimed(themes, c.id)
    <3>1. PICK j \in 1 .. Len(sorted) : c.id \in IdSet(sorted[j].members)
      BY <1>6, <2>2
    <3>2. PICK d \in ToSet(sorted[j].members) : d.id = c.id
      BY <3>1 DEF IdSet, ToSet
    <3>3. d \in ToSet(evidence)
      BY <1>4, <3>2 DEF Theme
    <3>4. d = c
      BY <3>2, <3>3, ListedMembers DEF OnePerId
    <3>5. PICK i \in DOMAIN groups : groups[i] = sorted[j]
      BY <1>10
    <3> QED
      BY <1>11, <3>2, <3>4, <3>5
  <2> QED
    BY <2>1, <2>2
<1>14. Grouped(final) /\ ToSet(Flatten(final)) = ToSet(Flatten(groups))
  BY <1>10, ReorderedIs
<1> QED
  BY <1>1, <1>12, <1>13, <1>14

-----------------------------------------------------------------------------
(* What a search has in hand, and what it presents.                        *)
InHand ==
  /\ Listed(pool) /\ classified \in BOOLEAN
  /\ pc \in {"resolve", "recall", "rerank", "classify"} => ~classified
  /\ pc # "done" => response = NoResponse
  /\ request.mode = "claim" =>
       IF classified THEN \A c \in ToSet(pool) : c.label \in ToSet(ClaimLabels)
            ELSE Unlabelled(pool)

(* A page that is not full shows all that passed.                          *)
ShowsAll == Answered /\ Len(response.evidence) < Limit => IdSet(pool) \subseteq Shown

Presented == EachOnce /\ ShowsAll /\ ClaimPageIsStrongest /\ TimelinePageIsEarliest

Whole == InHand /\ Presented

(* The evidence of a timeline is its beginning.                            *)
Earliest(evidence, candidates) ==
  /\ Listed(candidates) /\ ToSet(evidence) \subseteq ToSet(candidates)
  /\ \A i, j \in 1 .. Len(evidence) : i < j => TimeBefore(evidence[i], evidence[j])
  /\ \A i \in 1 .. Len(evidence), c \in ToSet(candidates) \ ToSet(evidence) :
       TimeBefore(evidence[i], c)

(* Nothing is said of a search without an answer.                          *)
LEMMA NotAnswered == ASSUME ~Answered PROVE Presented
BY DEF Presented, EachOnce, ShowsAll, ClaimPageIsStrongest, TimelinePageIsEarliest

(* The empty list.                                                         *)
LEMMA EmptyListed ==
  /\ Listed(<<>>) /\ ToSet(<<>>) = {} /\ IdSet(<<>>) = {}
  /\ Unlabelled(<<>>) /\ Grouped(<<>>)
BY DEF Listed, ToSet, IdSet, Unlabelled, Grouped

(* A page has room for one evidence.                                       *)
LEMMA LimitIs ==
  ASSUME request \in Requests
  PROVE  Limit \in Nat \ {0}
<1>1. request.page_size \in Nat \ {0} /\ FinalTopK \in Nat \ {0}
  BY HybridAssumption
<1>2. {FinalTopK, request.page_size} \in SUBSET Nat /\ {FinalTopK, request.page_size} # {}
  BY <1>1
<1>3. Min({FinalTopK, request.page_size}) \in {FinalTopK, request.page_size}
  BY <1>2, MinIs
<1> QED
  BY <1>1, <1>3 DEF Limit

(* An answer with groups of its evidence, or with no groups.               *)
LEMMA AnswerEachOnce ==
  ASSUME NEW groups, NEW evidence, NEW insufficient, Answer(groups, evidence, insufficient),
         Listed(evidence), groups = <<>> \/ (Grouped(groups) /\ Flatten(groups) = evidence)
  PROVE  EachOnce'
<1> DEFINE given == [i \in DOMAIN groups |-> Group(groups[i].key, IdsOf(groups[i].members))]
<1>1. response'.groups = given /\ response'.evidence = IdsOf(evidence)
  BY DEF Answer
<1>2. DOMAIN evidence = 1 .. Len(evidence)
  BY DEF Listed
<1>3. IsInjective(IdsOf(evidence))
  BY <1>2 DEF Listed, IdsOf, IsInjective
<1>4. CASE groups = <<>>
  <2>1. given = <<>>
    BY <1>4
  <2>2. IsInjective([i \in DOMAIN given |-> given[i].key])
    BY <2>1 DEF IsInjective
  <2> HIDE DEF given
  <2> QED
    BY <1>1, <1>3, <2>1, <2>2 DEF EachOnce
<1>5. CASE Grouped(groups) /\ Flatten(groups) = evidence
  <2>1. DOMAIN groups = 1 .. Len(groups)
    BY <1>5 DEF Grouped
  <2>2. \A i \in DOMAIN groups : given[i].key = groups[i].key
    BY DEF Group
  <2>3. DOMAIN given = DOMAIN groups
    OBVIOUS
  <2>4. Flatten(given) = IdsOf(evidence)
    BY <1>5, IdsFlatten
  <2> HIDE DEF given
  <2>5. \A i, j \in DOMAIN given : given[i].key = given[j].key => i = j
    BY <1>5, <2>1, <2>2, <2>3, GroupsApart
  <2>6. IsInjective([i \in DOMAIN given |-> given[i].key])
    BY <2>5 DEF IsInjective
  <2> QED
    BY <1>1, <1>3, <2>4, <2>6 DEF EachOnce
<1> QED
  BY <1>4, <1>5

(* The beginning of a timeline has nothing later than what is left out.    *)
LEMMA EarliestIs ==
  ASSUME NEW evidence, Listed(evidence), NEW candidates, Earliest(evidence, candidates)
  PROVE  LET earlier(a, b) == \/ PairBefore(Bucket(a), Bucket(b))
                              \/ /\ Bucket(a) = Bucket(b)
                                 /\ PairBefore(YearKey(Date[a].start), YearKey(Date[b].start))
             shown == IdsOf(evidence)
         IN /\ \A i, j \in DOMAIN shown : i < j => ~earlier(shown[j], shown[i])
            /\ \A i \in DOMAIN shown, late \in IdSet(candidates) \ ToSet(shown) :
                 ~earlier(late, shown[i])
<1> DEFINE earlier(a, b) == \/ PairBefore(Bucket(a), Bucket(b))
                            \/ /\ Bucket(a) = Bucket(b)
                               /\ PairBefore(YearKey(Date[a].start), YearKey(Date[b].start))
           shown == IdsOf(evidence)
           T == ToSet(candidates)
<1>1. /\ Listed(candidates) /\ ToSet(evidence) \subseteq T
      /\ \A i, j \in 1 .. Len(evidence) : i < j => TimeBefore(evidence[i], evidence[j])
      /\ \A i \in 1 .. Len(evidence), c \in T \ ToSet(evidence) : TimeBefore(evidence[i], c)
  BY DEF Earliest
<1>2. OnePerId(T) /\ IdSet(candidates) = {c.id : c \in T}
  BY <1>1, ListedMembers
<1> HIDE DEF T
<1>3. Len(evidence) \in Nat /\ DOMAIN evidence = 1 .. Len(evidence)
  BY DEF Listed
<1>4. DOMAIN shown = 1 .. Len(evidence) /\
        \A i \in 1 .. Len(evidence) : shown[i] = evidence[i].id
  BY <1>3 DEF IdsOf
<1>5. \A i \in 1 .. Len(evidence) : evidence[i] \in T
  BY <1>1, <1>3 DEF ToSet
<1>6. \A c, d \in T : earlier(c.id, d.id) => TimeBefore(c, d)
  BY DEF TimeBefore, DatedBefore
<1>7. \A c, d \in T : ~(TimeBefore(c, d) /\ TimeBefore(d, c))
  <2> DEFINE before == TimeOrder(T)
  <2>1. Orders(before) /\ DOMAIN before = T /\ \A c, d \in T : c \in before[d] <=>
          TimeBefore(c, d)
    BY <1>2, TimeOrders
  <2> HIDE DEF before
  <2>2. \A c, d \in T : ~(c \in before[d] /\ d \in before[c])
    BY <2>1 DEF Orders
  <2> QED
    BY <2>1, <2>2
<1> HIDE DEF earlier, shown
<1>8. ASSUME NEW i \in DOMAIN shown, NEW j \in DOMAIN shown, i < j
      PROVE  ~earlier(shown[j], shown[i])
  <2>1. evidence[i] \in T /\ evidence[j] \in T /\ TimeBefore(evidence[i], evidence[j])
    BY <1>1, <1>4, <1>5, <1>8
  <2>2. ~earlier(evidence[j].id, evidence[i].id)
    BY <1>6, <1>7, <2>1
  <2> QED
    BY <1>4, <2>2
<1>9. ASSUME NEW i \in DOMAIN shown, NEW late \in IdSet(candidates) \ ToSet(shown)
      PROVE  ~earlier(late, shown[i])
  <2>1. PICK c \in T : c.id = late
    BY <1>2
  <2>2. c \notin ToSet(evidence)
    <3>1. SUFFICES ASSUME c \in ToSet(evidence) PROVE FALSE
      OBVIOUS
    <3>2. PICK k \in 1 .. Len(evidence) : evidence[k] = c
      BY <1>3, <3>1 DEF ToSet
    <3>3. shown[k] = late /\ k \in DOMAIN shown
      BY <1>4, <2>1, <3>2
    <3> QED
      BY <3>3 DEF ToSet
  <2>3. TimeBefore(evidence[i], c) /\ evidence[i] \in T
    BY <1>1, <1>4, <1>5, <2>2
  <2>4. ~earlier(c.id, evidence[i].id)
    BY <1>6, <1>7, <2>3
  <2> QED
    BY <1>4, <2>1, <2>4
<1> QED
  BY <1>8, <1>9 DEF earlier, shown

(* What is presented, of an answer.                                        *)
LEMMA AnswerPresents ==
  ASSUME request \in Requests, UNCHANGED request,
         NEW groups, NEW evidence, NEW insufficient, Answer(groups, evidence, insufficient),
         Listed(evidence), groups = <<>> \/ (Grouped(groups) /\ Flatten(groups) = evidence),
         Len(evidence) < Limit => IdSet(pool') \subseteq IdSet(evidence),
         request.mode = "claim" /\ classified' =>
           \A shown, left \in ToSet(pool') :
             shown.id \in IdSet(evidence) /\ left.id \notin IdSet(evidence)
             => Strength[left.label] <= Strength[shown.label],
         request.mode = "timeline" => Earliest(evidence, pool')
  PROVE  Presented'
<1>1. response'.evidence = IdsOf(evidence)
  BY DEF Answer
<1>2. DOMAIN evidence = 1 .. Len(evidence) /\ Len(evidence) \in Nat
  BY DEF Listed
<1>3. Len(IdsOf(evidence)) = Len(evidence)
  <2>1. IdsOf(evidence) = [i \in 1 .. Len(evidence) |-> evidence[i].id]
    BY <1>2 DEF IdsOf
  <2>2. IdsOf(evidence) \in [1 .. Len(evidence) -> {evidence[i].id : i \in 1 .. Len(evidence)}]
    BY <2>1
  <2> QED
    BY <1>2, <2>2, IsSeq
<1>4. ToSet(IdsOf(evidence)) = IdSet(evidence)
  BY DEF ToSet, IdsOf, IdSet
<1>5. Limit' = Limit
  BY DEF Limit
<1>6. EachOnce'
  BY AnswerEachOnce
<1>7. ShowsAll'
  <2>1. IdSet(pool)' = IdSet(pool')
    BY DEF IdSet
  <2>2. Shown' = IdSet(evidence)
    BY <1>1, <1>4 DEF Shown, ToSet
  <2>3. Len(response.evidence)' = Len(evidence)
    BY <1>1, <1>3
  <2> QED
    BY <1>5, <2>1, <2>2, <2>3 DEF ShowsAll
<1>8. ClaimPageIsStrongest'
  <2>1. ToSet(pool)' = ToSet(pool')
    BY DEF ToSet
  <2>2. Shown' = IdSet(evidence)
    BY <1>1, <1>4 DEF Shown, ToSet
  <2> QED
    BY <2>1, <2>2 DEF ClaimPageIsStrongest
<1>9. TimelinePageIsEarliest'
  <2>1. CASE request.mode # "timeline"
    BY <2>1 DEF TimelinePageIsEarliest
  <2>2. CASE request.mode = "timeline"
    <3>1. Earliest(evidence, pool')
      BY <2>2
    <3> DEFINE earlier(a, b) == \/ PairBefore(Bucket(a), Bucket(b))
                                \/ /\ Bucket(a) = Bucket(b)
                                   /\ PairBefore(YearKey(Date[a].start), YearKey(Date[b].start))
               shown == IdsOf(evidence)
    <3>2. /\ \A i, j \in DOMAIN shown : i < j => ~earlier(shown[j], shown[i])
          /\ \A i \in DOMAIN shown, late \in IdSet(pool') \ ToSet(shown) :
               ~earlier(late, shown[i])
      BY <3>1, EarliestIs
    <3>3. shown = response'.evidence
      BY <1>1
    <3>4. IdSet(pool)' = IdSet(pool')
      BY DEF IdSet
    <3>5. ToSet(response.evidence)' = ToSet(response'.evidence)
      BY DEF ToSet
    <3> HIDE DEF shown
    <3> QED
      BY <3>2, <3>3, <3>4, <3>5 DEF TimelinePageIsEarliest
  <2> QED
    BY <2>1, <2>2
<1> QED
  BY <1>6, <1>7, <1>8, <1>9 DEF Presented

-----------------------------------------------------------------------------
(* Each step keeps it whole.                                               *)

LEMMA InitWhole == Init => Whole
<1> SUFFICES ASSUME Init PROVE Whole
  OBVIOUS
<1>1. ~Answered
  BY DEF Init, Answered, NoResponse
<1>2. pool = <<>> /\ classified = FALSE /\ response = NoResponse
  BY DEF Init
<1>3. InHand
  BY <1>2, EmptyListed DEF InHand
<1> QED
  BY <1>1, <1>3, NotAnswered DEF Whole

(* A step after which there is no answer yet.                              *)
LEMMA GoesOn ==
  ASSUME InHand', pc' # "done"
  PROVE  Whole'
<1>1. response' = NoResponse
  BY DEF InHand
<1>2. ~Answered'
  BY <1>1 DEF Answered, NoResponse
<1>3. Presented'
  BY <1>2 DEF Presented, EachOnce, ShowsAll, ClaimPageIsStrongest, TimelinePageIsEarliest
<1> QED
  BY <1>3 DEF Whole

LEMMA RefuseWhole == ASSUME Whole, Refuse PROVE Whole'
<1>1. /\ UNCHANGED <<request, pool, classified>> /\ pc' = "done"
      /\ response'.status = "refused"
  BY DEF Refuse, NoResponse
<1>2. ~Answered'
  BY <1>1 DEF Answered
<1>3. Presented'
  BY <1>2 DEF Presented, EachOnce, ShowsAll, ClaimPageIsStrongest, TimelinePageIsEarliest
<1>4. InHand'
  BY <1>1 DEF Whole, InHand, Listed, Unlabelled
<1> QED
  BY <1>3, <1>4 DEF Whole

(* The reranker or the classifier hands on a list of candidates.           *)
LEMMA PassWhole ==
  ASSUME Whole, pc \in {"rerank", "classify"}, NEW next \in {"classify", "hydrate"},
         NEW candidates, Listed(candidates), NEW aside, NEW codes, Pass(next, candidates, aside, codes),
         classified' \in BOOLEAN, next = "classify" => ~classified',
         request.mode = "claim" =>
           IF classified' THEN \A c \in ToSet(candidates) : c.label \in ToSet(ClaimLabels)
           ELSE Unlabelled(candidates)
  PROVE  Whole'
<1>1. /\ pc' = next /\ pool' = candidates /\ UNCHANGED <<request, response>>
      /\ response = NoResponse
  BY DEF Pass, Whole, InHand
<1>2. Listed(pool)' /\ ToSet(pool)' = ToSet(candidates)
  BY <1>1 DEF Listed, ToSet
<1>3. Unlabelled(candidates) => Unlabelled(pool)'
  BY <1>2 DEF Unlabelled
<1>4. InHand'
  BY <1>1, <1>2, <1>3 DEF InHand
<1> QED
  BY <1>1, <1>4, GoesOn

(* Nothing is left of a thematic search.                                   *)
LEMMA EmptyAnswer ==
  ASSUME request \in Requests, request.mode = "thematic", UNCHANGED request,
         classified' \in BOOLEAN, pool' = <<>>, Answer(<<>>, <<>>, TRUE)
  PROVE  Whole'
<1>1. IdSet(pool') \subseteq IdSet(<<>>)
  OBVIOUS
<1>2. Presented'
  BY <1>1, EmptyListed, AnswerPresents
<1>3. pc' = "done"
  BY DEF Answer
<1>4. Listed(pool)'
  BY EmptyListed DEF Listed
<1>5. InHand'
  BY <1>3, <1>4 DEF InHand
<1> QED
  BY <1>2, <1>5 DEF Whole

(* What recall hands on has no label yet.                                  *)
LEMMA RecalledWhole ==
  ASSUME IInv, Whole, pc = "recall", NEW lexical, NEW vector, NEW down,
         NEW candidates, Listed(candidates), Unlabelled(candidates),
         Recalled(lexical, vector, down, candidates)
  PROVE  Whole'
<1>1. CASE Refuse
  BY <1>1, RefuseWhole
<1>2. CASE ~Refuse
  <2>1. /\ pool' = candidates /\ UNCHANGED <<request, classified>>
        /\ IF request.mode = "thematic" /\ candidates = <<>>
           THEN Answer(<<>>, <<>>, TRUE)
           ELSE pc' = "rerank" /\ UNCHANGED response
    BY <1>2 DEF Recalled
  <2>2. ~classified /\ classified \in BOOLEAN /\ response = NoResponse /\ request \in Requests
    BY DEF IInv, Whole, InHand
  <2>3. CASE request.mode = "thematic" /\ candidates = <<>>
    BY <2>1, <2>2, <2>3, EmptyAnswer
  <2>4. CASE ~(request.mode = "thematic" /\ candidates = <<>>)
    <3>1. Listed(pool)' /\ Unlabelled(pool)'
      BY <2>1 DEF Listed, Unlabelled, ToSet
    <3>2. InHand'
      BY <2>1, <2>2, <2>4, <3>1 DEF InHand
    <3> QED
      BY <2>1, <2>4, <3>2, GoesOn
  <2> QED
    BY <2>3, <2>4
<1> QED
  BY <1>1, <1>2

LEMMA RecallWhole ==
  ASSUME IInv, Whole, NEW lexical \in Outcomes, NEW vector \in VectorOutcomes,
           Recall(lexical, vector)
  PROVE  Whole'
<1> DEFINE fused == Fuse(lexical.hits, vector.hits)
<1>1. <<>> \in Rankings
  <2>1. <<>> \in [1 .. 0 -> Ids] /\ 0 \in 0 .. MaxHits
    BY FusionAssumption
  <2>2. <<>> \in BoundedSeq(Ids, MaxHits)
    BY <2>1 DEF BoundedSeq, SeqOf
  <2> QED
    BY <2>2 DEF Rankings, IsInjective
<1>2. lexical.hits \in Rankings /\ vector.hits \in Rankings
  BY <1>1 DEF Outcomes, VectorOutcomes
<1>3. Listed(fused) /\ \A c \in ToSet(fused) : c = Candidate(lexical.hits, vector.hits, c.id)
  BY <1>2, FuseIs
<1>4. Unlabelled(fused)
  BY <1>3 DEF Unlabelled, Candidate
<1>5. FusionTopK \in Nat
  BY HybridAssumption
<1>6. Listed(First(fused, FusionTopK)) /\ Unlabelled(First(fused, FusionTopK))
  BY <1>3, <1>4, <1>5, FirstListed DEF Unlabelled
<1>7. CASE RecallClaim(lexical, vector)
  BY <1>3, <1>4, <1>7, RecalledWhole DEF RecallClaim
<1>8. CASE RecallTimeline(lexical, vector)
  BY <1>6, <1>8, RecalledWhole DEF RecallTimeline, TimelineFuse
<1>9. CASE RecallThematic(lexical, vector)
  BY <1>6, <1>9, RecalledWhole DEF RecallThematic, ThematicMerge
<1> QED
  BY <1>7, <1>8, <1>9 DEF Recall

LEMMA RerankClaimWhole == ASSUME IInv, Whole, RerankClaim PROVE Whole'
<1>1. /\ pc = "rerank" /\ request.mode = "claim" /\ UNCHANGED classified
      /\ Listed(pool) /\ ~classified /\ classified \in BOOLEAN /\ Unlabelled(pool)
  BY DEF RerankClaim, Whole, InHand
<1>2. CASE Refuse
  BY <1>2, RefuseWhole
<1>3. ASSUME NEW candidates, Listed(candidates), Unlabelled(candidates),
             NEW codes, Pass("classify", candidates, {}, codes)
      PROVE  Whole'
  BY <1>1, <1>3, PassWhole
<1>4. \A answer \in Judgements : Listed(_restrict_rerank(pool, answer)) /\
        Unlabelled(_restrict_rerank(pool, answer))
  BY <1>1, RestrictIs
<1> QED
  BY <1>1, <1>2, <1>3, <1>4, EmptyListed DEF RerankClaim

LEMMA RerankTimelineWhole == ASSUME IInv, Whole, RerankTimeline PROVE Whole'
<1>1. /\ pc = "rerank" /\ request.mode = "timeline" /\ UNCHANGED classified
      /\ Listed(pool) /\ classified \in BOOLEAN
  BY DEF RerankTimeline, Whole, InHand
<1>2. ASSUME NEW candidates, Listed(candidates), NEW aside, NEW codes,
             Pass("hydrate", candidates, aside, codes)
      PROVE  Whole'
  BY <1>1, <1>2, PassWhole
<1>3. ASSUME NEW answer \in Judgements
      PROVE  LET best == First(_sanitize_reranked(pool, answer), RerankTopK)
             IN Listed(Keep(best, {c \in ToSet(best) : c.label # "irrelevant"}))
  <2>1. Listed(_sanitize_reranked(pool, answer))
    BY <1>1, JudgedIs DEF _sanitize_reranked
  <2>2. RerankTopK \in Nat
    BY HybridAssumption
  <2>3. Listed(First(_sanitize_reranked(pool, answer), RerankTopK))
    BY <2>1, <2>2, FirstListed
  <2> QED
    BY <2>3, KeepListed
<1>4. \/ \E codes : Pass("hydrate", <<>>, {}, codes)
      \/ \E codes : Pass("hydrate", pool, {}, codes)
      \/ \E answer \in Judgements : \E aside, codes :
           LET best == First(_sanitize_reranked(pool, answer), RerankTopK)
           IN Pass("hydrate", Keep(best, {c \in ToSet(best) : c.label # "irrelevant"}), aside, codes)
  BY DEF RerankTimeline
<1> QED
  BY <1>1, <1>2, <1>3, <1>4, EmptyListed

(* The relevance gate keeps a part of the list.                            *)
LEMMA GateWhole ==
  ASSUME IInv, Whole, NEW candidates, Listed(candidates), NEW judged, NEW codes,
         pc = "rerank", request.mode = "thematic", UNCHANGED classified,
         Gate(candidates, judged, codes)
  PROVE  Whole'
<1> DEFINE relevant == GateRelevant(candidates, judged)
           aside == GateAside(candidates, judged)
<1>1. Listed(relevant)
  BY KeepListed DEF GateRelevant
<1>2. PICK more : \/ Pass("hydrate", relevant, aside, more)
                  \/ pool' = <<>> /\ Answer(<<>>, <<>>, TRUE) /\ UNCHANGED request
  BY GateIs
<1> HIDE DEF relevant, aside
<1>3. classified \in BOOLEAN /\ request \in Requests
  BY DEF IInv, Whole, InHand
<1>4. CASE Pass("hydrate", relevant, aside, more)
  BY <1>1, <1>3, <1>4, PassWhole
<1>5. CASE pool' = <<>> /\ Answer(<<>>, <<>>, TRUE) /\ UNCHANGED request
  BY <1>3, <1>5, EmptyAnswer
<1> QED
  BY <1>2, <1>4, <1>5

LEMMA JudgeWhole == ASSUME IInv, Whole, JudgeThematic PROVE Whole'
<1>1. pc = "rerank" /\ request.mode = "thematic" /\ Listed(pool)
  BY DEF JudgeThematic, Whole, InHand
<1>2. CASE Refuse
  BY <1>2, RefuseWhole
<1>3. CASE Gate(pool, FALSE, {"RERANKER_UNAVAILABLE"}) /\ UNCHANGED classified
  BY <1>1, <1>3, GateWhole
<1>4. CASE \E answer \in Judgements :
             Gate(apply_relevance_judgments(pool, answer), TRUE, {}) /\ UNCHANGED classified
  <2>1. PICK answer \in Judgements :
          Gate(apply_relevance_judgments(pool, answer), TRUE, {}) /\ UNCHANGED classified
    BY <1>4
  <2>2. Listed(apply_relevance_judgments(pool, answer))
    BY <1>1, JudgedIs DEF apply_relevance_judgments
  <2> QED
    BY <1>1, <2>1, <2>2, GateWhole
<1> QED
  BY <1>2, <1>3, <1>4 DEF JudgeThematic

(* A label of the classifier makes a candidate another candidate.          *)
LEMMA LabelledListed ==
  ASSUME Listed(pool), NEW ids, NEW labels \in Classifications(ids)
  PROVE  Listed(Labelled(labels))
<1> DEFINE t == Labelled(labels)
<1>1. DOMAIN pool = 1 .. Len(pool) /\ \A i \in 1 .. Len(pool) : pool[i] \in Candidates
  BY DEF Listed
<1>2. DOMAIN labels = ids /\ \A id \in ids : labels[id] \in Labels
  BY HybridAssumption DEF Classifications
<1>3. DOMAIN t = DOMAIN pool /\ t = [i \in DOMAIN pool |-> t[i]]
  BY DEF Labelled
<1>4. ASSUME NEW i \in 1 .. Len(pool)
      PROVE  t[i] \in Candidates /\ t[i].id = pool[i].id
  <2>1. t[i] = IF pool[i].id \in DOMAIN labels
               THEN [pool[i] EXCEPT !.label = labels[pool[i].id]] ELSE pool[i]
    BY <1>1 DEF Labelled
  <2>2. pool[i] \in Candidates
    BY <1>1
  <2>3. CASE pool[i].id \in DOMAIN labels
    <3>1. labels[pool[i].id] \in Labels
      BY <1>2, <2>3
    <3> QED
      BY <2>1, <2>2, <2>3, <3>1 DEF Candidates
  <2>4. CASE pool[i].id \notin DOMAIN labels
    BY <2>1, <2>2, <2>4
  <2> QED
    BY <2>3, <2>4
<1> HIDE DEF t
<1> QED
  BY <1>3, <1>4, RelabelledIs DEF t

LEMMA ClassifyWhole == ASSUME IInv, Whole, Classify PROVE Whole'
<1>1. pc = "classify" /\ Listed(pool) /\ ~classified /\
        (request.mode = "claim" => Unlabelled(pool))
  BY DEF Classify, Whole, InHand
<1>2. CASE Refuse
  BY <1>2, RefuseWhole
<1>3. CASE classified' = TRUE /\ Pass("hydrate", <<>>, {}, {})
  BY <1>1, <1>3, EmptyListed, PassWhole DEF ToSet
<1>4. CASE classified' = FALSE /\ \E codes : Pass("hydrate", pool, {}, codes)
  BY <1>1, <1>4, PassWhole
<1>5. ASSUME NEW ids, NEW labels \in Classifications(ids), NEW aside, classified' = TRUE,
             Pass("hydrate", ForDisplay(Labelled(labels), request.counter), aside, {})
      PROVE  Whole'
  <2> DEFINE shown == ForDisplay(Labelled(labels), request.counter)
  <2>1. Listed(Labelled(labels))
    BY <1>1, LabelledListed
  <2>2. Listed(shown) /\ \A c \in ToSet(shown) : c.label \in ToSet(ClaimLabels)
    BY <2>1, ForDisplayIs
  <2> HIDE DEF shown
  <2>3. Pass("hydrate", shown, aside, {})
    BY <1>5 DEF shown
  <2> QED
    BY <1>1, <1>5, <2>2, <2>3, PassWhole
<1>6. \/ Refuse
      \/ classified' = TRUE /\ Pass("hydrate", <<>>, {}, {})
      \/ classified' = FALSE /\ \E codes : Pass("hydrate", pool, {}, codes)
      \/ \E ids, aside : \E labels \in Classifications(ids) :
           /\ classified' = TRUE
           /\ Pass("hydrate", ForDisplay(Labelled(labels), request.counter), aside, {})
  BY DEF Classify
<1> QED
  BY <1>2, <1>3, <1>4, <1>5, <1>6

LEMMA HydrateWhole == ASSUME IInv, Whole, Hydrate PROVE Whole'
<1>1. /\ pc = "hydrate" /\ Listed(pool) /\ classified \in BOOLEAN /\ request \in Requests
      /\ response = NoResponse
      /\ request.mode = "claim" =>
           IF classified THEN \A c \in ToSet(pool) : c.label \in ToSet(ClaimLabels)
                ELSE Unlabelled(pool)
  BY DEF Hydrate, IInv, Whole, InHand
<1>2. CASE Refuse
  BY <1>2, RefuseWhole
<1>3. CASE ~Refuse
  <2>1. PICK store \in Stores :
          LET evidence == Keep(pool, {c \in ToSet(pool) : PassesGate(c, store)})
          IN /\ pool' = evidence
             /\ IF request.mode = "thematic" /\ evidence = <<>>
                THEN Answer(<<>>, <<>>, TRUE)
                ELSE pc' = "present" /\ UNCHANGED response
             /\ UNCHANGED <<request, classified>>
    BY <1>3 DEF Hydrate
  <2> DEFINE evidence == Keep(pool, {c \in ToSet(pool) : PassesGate(c, store)})
  <2>2. Listed(evidence) /\ ToSet(evidence) \subseteq ToSet(pool)
    BY <1>1, KeepListed
  <2> HIDE DEF evidence
  <2>3. /\ pool' = evidence /\ UNCHANGED <<request, classified>>
        /\ IF request.mode = "thematic" /\ evidence = <<>>
           THEN Answer(<<>>, <<>>, TRUE)
           ELSE pc' = "present" /\ UNCHANGED response
    BY <2>1 DEF evidence
  <2>4. CASE request.mode = "thematic" /\ evidence = <<>>
    BY <1>1, <2>3, <2>4, EmptyAnswer
  <2>5. CASE ~(request.mode = "thematic" /\ evidence = <<>>)
    <3>1. Listed(pool)' /\ ToSet(pool)' = ToSet(evidence)
      BY <2>2, <2>3 DEF Listed, ToSet
    <3>2. Unlabelled(pool) => Unlabelled(pool)'
      BY <2>2, <3>1 DEF Unlabelled
    <3>3. InHand'
      BY <1>1, <2>2, <2>3, <2>5, <3>1, <3>2 DEF InHand
    <3> QED
      BY <2>3, <2>5, <3>3, GoesOn
  <2> QED
    BY <2>4, <2>5
<1> QED
  BY <1>2, <1>3

-----------------------------------------------------------------------------
(* A page that is not full is the whole list.                              *)
LEMMA ShortPageIsAll ==
  ASSUME request \in Requests, NEW s, Listed(s), Len(First(s, Limit)) < Limit
  PROVE  First(s, Limit) = s
<1>1. Limit \in Nat /\ s \in Seq(Candidates) /\ Len(s) \in Nat
  BY LimitIs DEF Listed
<1>2. Len(First(s, Limit)) = (IF Limit < Len(s) THEN Limit ELSE Len(s))
  BY <1>1, FirstIs
<1>3. Limit >= Len(s)
  BY <1>1, <1>2
<1> QED
  BY <1>1, <1>3, FirstIs

(* What is presented leaves what is in hand.                               *)
LEMMA PresentHand ==
  ASSUME InHand, UNCHANGED <<request, pool, classified>>, pc' = "done"
  PROVE  InHand'
<1>1. Listed(pool)' /\ ToSet(pool)' = ToSet(pool)
  BY DEF InHand, Listed, ToSet
<1>2. Unlabelled(pool) => Unlabelled(pool)'
  BY <1>1 DEF Unlabelled
<1> QED
  BY <1>1, <1>2 DEF InHand

(* The page of a claim is the beginning of what is ordered by strength.    *)
LEMMA PresentClaimWhole ==
  ASSUME request \in Requests, InHand, PresentClaim, UNCHANGED <<request, pool, classified>>
  PROVE  Presented'
<1> DEFINE groups == IF classified THEN ClaimGroups(pool) ELSE <<>>
           ordered == IF classified THEN Flatten(groups) ELSE pool
           page == First(ordered, Limit)
<1>1. Answer(TrimGroups(groups, page), page, ~HasDirect(page)) /\ request.mode = "claim"
  BY DEF PresentClaim
<1>2. Limit \in Nat \ {0} /\ Listed(pool) /\ classified \in BOOLEAN
  BY LimitIs DEF InHand
<1>3. DOMAIN pool = 1 .. Len(pool)
  BY <1>2 DEF Listed
<1>4. /\ Listed(ordered) /\ ToSet(ordered) = ToSet(pool)
      /\ classified => StrongestFirst(ordered)
  <2>1. CASE classified
    <3>1. /\ Listed(Flatten(ClaimGroups(pool))) /\ StrongestFirst(Flatten(ClaimGroups(pool)))
          /\ ToSet(Flatten(ClaimGroups(pool))) =
               {c \in ToSet(pool) : c.label \in ToSet(ClaimLabels)}
      BY <1>2, ClaimGroupsAre
    <3>2. \A c \in ToSet(pool) : c.label \in ToSet(ClaimLabels)
      BY <1>1, <2>1 DEF InHand
    <3> QED
      BY <2>1, <3>1, <3>2
  <2>2. CASE ~classified
    BY <1>2, <2>2
  <2> QED
    BY <2>1, <2>2
<1>5. \/ TrimGroups(groups, page) = <<>>
      \/ Grouped(TrimGroups(groups, page)) /\ Flatten(TrimGroups(groups, page)) = page
  <2>1. CASE classified
    <3>1. Grouped(ClaimGroups(pool))
      BY <1>2, ClaimGroupsAre
    <3>2. Limit \in Nat
      BY <1>2
    <3> QED
      BY <2>1, <3>1, <3>2, TrimIs
  <2>2. CASE ~classified
    <3> DEFINE none == [i \in DOMAIN <<>> |-> Group(<<>>[i].key, Keep(<<>>[i].members,
                               {c \in ToSet(<<>>[i].members) : c.id \in IdSet(page)}))]
    <3>1. TrimGroups(<<>>, page) = NonEmpty(none) /\ none = <<>>
      BY DEF TrimGroups
    <3>2. NonEmpty(<<>>) = <<>>
      <4> DEFINE W == {g \in ToSet(<<>>) : g.members # <<>>}
      <4>1. <<>> \in Seq({}) /\ Len(<<>>) = 0
        OBVIOUS
      <4> HIDE DEF W
      <4>2. Keep(<<>>, W) \in Seq({}) /\ Len(Keep(<<>>, W)) <= 0
        BY <4>1, KeepIs
      <4>3. Keep(<<>>, W) = <<>>
        BY <4>2
      <4> QED
        BY <4>3 DEF NonEmpty, W
    <3> QED
      BY <2>2, <3>1, <3>2
  <2> QED
    BY <2>1, <2>2
<1> DEFINE trimmed == TrimGroups(groups, page)
<1>6. ordered \in Seq(Candidates)
  BY <1>4 DEF Listed
<1> HIDE DEF ordered
<1>7. Listed(page) /\ ToSet(page) \subseteq ToSet(pool)
  BY <1>2, <1>4, FirstListed
<1>8. Len(page) < Limit => IdSet(pool') \subseteq IdSet(page)
  <2>1. IdSet(pool') = {c.id : c \in ToSet(pool)}
    BY <1>2, ListedMembers
  <2>2. IdSet(page) = {c.id : c \in ToSet(page)}
    BY <1>7, ListedMembers
  <2>3. Len(page) < Limit => ToSet(page) = ToSet(pool)
    BY <1>4, ShortPageIsAll
  <2> QED
    BY <2>1, <2>2, <2>3
<1>9. ASSUME classified, NEW shown \in ToSet(pool), NEW left \in ToSet(pool),
             shown.id \in IdSet(page), left.id \notin IdSet(page)
      PROVE  Strength[left.label] <= Strength[shown.label]
  <2>1. /\ Len(page) = IF Limit < Len(ordered) THEN Limit ELSE Len(ordered)
        /\ \A i \in 1 .. Len(page) : page[i] = ordered[i] /\ i \in 1 .. Len(ordered)
        /\ Len(ordered) \in Nat /\ Len(page) \in Nat
    BY <1>2, <1>6, FirstIs
  <2>2. DOMAIN page = 1 .. Len(page) /\ DOMAIN ordered = 1 .. Len(ordered)
    BY <1>4, <1>7 DEF Listed
  <2> HIDE DEF page
  <2>3. PICK i \in 1 .. Len(page) : page[i].id = shown.id
    BY <1>9, <2>2 DEF IdSet
  <2>4. PICK k \in 1 .. Len(ordered) : ordered[k] = left
    BY <1>4, <2>2 DEF ToSet
  <2>5. ordered[i] = shown
    <3>1. page[i] \in ToSet(pool)
      BY <1>7, <2>2, <2>3 DEF ToSet
    <3> QED
      BY <1>2, <2>1, <2>3, <3>1, ListedMembers DEF OnePerId
  <2>6. k \notin 1 .. Len(page)
    BY <1>9, <2>1, <2>2, <2>4 DEF IdSet
  <2>7. i \in 1 .. Len(ordered) /\ i < k
    BY <2>1, <2>3, <2>6
  <2> QED
    BY <1>4, <1>9, <2>4, <2>5, <2>7 DEF StrongestFirst
<1>10. request.mode = "claim" /\ classified' =>
         \A shown, left \in ToSet(pool') :
           shown.id \in IdSet(page) /\ left.id \notin IdSet(page)
           => Strength[left.label] <= Strength[shown.label]
  BY <1>9
<1> HIDE DEF page, groups
<1> QED
  BY <1>1, <1>5, <1>7, <1>8, <1>10, AnswerPresents

(* The page of a timeline, organised again, is its beginning.              *)
LEMMA PresentTimelineWhole ==
  ASSUME request \in Requests, InHand, PresentTimeline, UNCHANGED <<request, pool, classified>>
  PROVE  Presented'
<1> DEFINE page == First(Flatten(organize_timeline(pool)), Limit)
           groups == organize_timeline(page)
<1>1. Answer(groups, page, page = <<>>) /\ request.mode = "timeline"
  BY DEF PresentTimeline
<1>2. Limit \in Nat \ {0} /\ Listed(pool) /\ Len(pool) \in Nat
  BY LimitIs DEF InHand, Listed
<1>3. /\ Listed(page) /\ Len(page) = IF Limit < Len(pool) THEN Limit ELSE Len(pool)
      /\ ToSet(page) \subseteq ToSet(pool)
      /\ \A j, k \in 1 .. Len(page) : j < k => TimeBefore(page[j], page[k])
      /\ \A k \in 1 .. Len(page), c \in ToSet(pool) \ ToSet(page) : TimeBefore(page[k], c)
      /\ Grouped(groups) /\ Flatten(groups) = page
  BY <1>2, TimelinePage
<1> HIDE DEF page, groups
<1>4. Earliest(page, pool')
  BY <1>2, <1>3 DEF Earliest
<1>5. Len(page) < Limit => IdSet(pool') \subseteq IdSet(page)
  <2>1. SUFFICES ASSUME Len(page) < Limit PROVE IdSet(pool) \subseteq IdSet(page)
    OBVIOUS
  <2>2. Len(page) = Len(pool)
    BY <1>2, <1>3, <2>1
  <2>3. /\ IsFiniteSet(ToSet(pool)) /\ Cardinality(ToSet(pool)) = Len(pool)
        /\ Cardinality(ToSet(page)) = Len(page)
        /\ IdSet(pool) = {c.id : c \in ToSet(pool)} /\ IdSet(page) = {c.id : c \in ToSet(page)}
    BY <1>2, <1>3, ListedMembers
  <2>4. ToSet(page) = ToSet(pool)
    BY <1>3, <2>2, <2>3, FS_Subset
  <2> QED
    BY <2>3, <2>4
<1> QED
  BY <1>1, <1>3, <1>4, <1>5, AnswerPresents

(* The themes and what no theme claimed are all of the page.               *)
LEMMA PresentThematicWhole ==
  ASSUME request \in Requests, InHand, PresentThematic, UNCHANGED <<request, pool, classified>>
  PROVE  Presented'
<1> DEFINE evidence == First(pool, Limit)
           Cluster == [name : Nat, ids : Seq(Ids \cup {Foreign})]
<1>1. request.mode = "thematic" /\ _cluster(evidence)
  BY DEF PresentThematic
<1>2. Limit \in Nat \ {0} /\ Listed(pool)
  BY LimitIs DEF InHand
<1>3. Listed(evidence) /\ (Len(evidence) < Limit => evidence = pool)
  BY <1>2, FirstListed, ShortPageIsAll
<1> HIDE DEF evidence
<1>4. ASSUME NEW groups, Grouped(groups), ToSet(Flatten(groups)) = ToSet(evidence),
             Answer(groups, Flatten(groups), FALSE)
      PROVE  Presented'
  <2> DEFINE shown == Flatten(groups)
  <2>1. Listed(shown)
    BY <1>4, FlattenIs
  <2>2. Len(shown) = Len(evidence) /\ IdSet(shown) = IdSet(evidence)
    BY <1>3, <1>4, <2>1, ListedMembers
  <2>3. Len(shown) < Limit => IdSet(pool') \subseteq IdSet(shown)
    BY <1>3, <2>2
  <2> HIDE DEF shown
  <2> QED
    BY <1>1, <1>4, <2>1, <2>3, AnswerPresents DEF shown
<1>5. ASSUME NEW clusters \in Seq(Cluster), NEW codes,
               _build_groups(ThemeGroups(evidence, clusters), codes)
      PROVE  Presented'
  <2>1. /\ Grouped(ThemeGroups(evidence, clusters))
        /\ ToSet(Flatten(ThemeGroups(evidence, clusters))) = ToSet(evidence)
    BY <1>3, ThemeGroupsAre
  <2> QED
    BY <1>4, <1>5, <2>1 DEF _build_groups
<1>6. CASE Answer(<<>>, evidence, TRUE)
  <2>1. Len(evidence) < Limit => IdSet(pool') \subseteq IdSet(evidence)
    BY <1>3
  <2> QED
    BY <1>1, <1>3, <1>6, <2>1, AnswerPresents
<1>7. <<[name |-> 1, ids |-> IdsOf(evidence)]>> \in Seq(Cluster)
  <2>1. Len(evidence) \in Nat /\ DOMAIN evidence = 1 .. Len(evidence)
    BY <1>3 DEF Listed
  <2>2. \A i \in 1 .. Len(evidence) : evidence[i].id \in Ids
    BY <1>3, IdsAreNumbers DEF Listed
  <2>3. IdsOf(evidence) \in [1 .. Len(evidence) -> Ids \cup {Foreign}]
    BY <2>1, <2>2 DEF IdsOf
  <2>4. IdsOf(evidence) \in Seq(Ids \cup {Foreign})
    BY <2>1, <2>3, IsSeq
  <2>5. [name |-> 1, ids |-> IdsOf(evidence)] \in Cluster
    BY <2>4
  <2> HIDE DEF Cluster
  <2> QED
    BY <2>5
<1>8. Clusterings \subseteq Seq(Cluster)
  BY HybridAssumption
<1> HIDE DEF Cluster
<1>9. <<>> \in Seq(Cluster)
  OBVIOUS
<1>10. \/ \E codes : _build_groups(ThemeGroups(evidence,
            <<[name |-> 1, ids |-> IdsOf(evidence)]>>), codes)
       \/ Answer(<<>>, evidence, TRUE)
       \/ \E codes : _build_groups(ThemeGroups(evidence, <<>>), codes)
       \/ \E clusters \in Clusterings : \E codes :
            _build_groups(ThemeGroups(evidence, clusters), codes)
  BY <1>1 DEF _cluster
<1> QED
  BY <1>5, <1>6, <1>7, <1>8, <1>10, <1>9

LEMMA PresentWhole == ASSUME IInv, Whole, Present PROVE Whole'
<1>1. UNCHANGED <<request, pool, classified>> /\ InHand /\ request \in Requests
  BY DEF Present, IInv, Whole
<1>2. pc' = "done"
  <2>1. CASE PresentClaim
    BY <2>1 DEF PresentClaim, Answer
  <2>2. CASE PresentTimeline
    BY <2>2 DEF PresentTimeline, Answer
  <2>3. CASE PresentThematic
    <3>1. \/ \E groups, codes : _build_groups(groups, codes)
          \/ \E groups, evidence : Answer(groups, evidence, TRUE)
      BY <2>3 DEF PresentThematic, _cluster
    <3> QED
      BY <3>1 DEF _build_groups, Answer
  <2> QED
    BY <2>1, <2>2, <2>3 DEF Present
<1>3. InHand'
  BY <1>1, <1>2, PresentHand
<1>4. Presented'
  BY <1>1, PresentClaimWhole, PresentTimelineWhole, PresentThematicWhole DEF Present
<1> QED
  BY <1>3, <1>4 DEF Whole

LEMMA StaysWhole == ASSUME Whole, UNCHANGED vars PROVE Whole'
<1>1. UNCHANGED <<request, pc, pool, classified, response>>
  BY DEF vars
<1>2. InHand'
  BY <1>1 DEF Whole, InHand, Listed, Unlabelled
<1>3. EachOnce'
  BY <1>1 DEF Whole, Presented, EachOnce, Answered
<1>4. ShowsAll'
  BY <1>1 DEF Whole, Presented, ShowsAll, Answered, Shown, Limit
<1>5. ClaimPageIsStrongest'
  BY <1>1 DEF Whole, Presented, ClaimPageIsStrongest, Answered, Shown
<1>6. TimelinePageIsEarliest'
  BY <1>1 DEF Whole, Presented, TimelinePageIsEarliest, Answered
<1> QED
  BY <1>2, <1>3, <1>4, <1>5, <1>6 DEF Whole, Presented

(* With IInv, Whole is inductive.                                          *)
LEMMA StepWhole == IInv /\ Whole /\ [Next]_vars => Whole'
<1> SUFFICES ASSUME IInv, Whole, [Next]_vars PROVE Whole'
  OBVIOUS
<1>1. CASE Resolve
  <2>1. CASE Refuse
    BY <2>1, RefuseWhole
  <2>2. CASE ~Refuse
    <3>1. UNCHANGED <<request, pool, classified, response>> /\ pc' = "recall" /\ pc = "resolve"
      BY <1>1, <2>2 DEF Resolve
    <3>2. InHand'
      BY <3>1 DEF Whole, InHand, Listed, Unlabelled
    <3> QED
      BY <3>1, <3>2, GoesOn
  <2> QED
    BY <2>1, <2>2
<1>2. CASE \E lexical \in Outcomes, vector \in VectorOutcomes : Recall(lexical, vector)
  BY <1>2, RecallWhole
<1>3. CASE RerankClaim
  BY <1>3, RerankClaimWhole
<1>4. CASE RerankTimeline
  BY <1>4, RerankTimelineWhole
<1>5. CASE JudgeThematic
  BY <1>5, JudgeWhole
<1>6. CASE Classify
  BY <1>6, ClassifyWhole
<1>7. CASE Hydrate
  BY <1>7, HydrateWhole
<1>8. CASE Present
  BY <1>8, PresentWhole
<1>9. CASE OverviewFails
  BY <1>9, RefuseWhole DEF OverviewFails
<1>10. CASE Done \/ UNCHANGED vars
  BY <1>10, StaysWhole DEF Done
<1> QED
  BY <1>1, <1>2, <1>3, <1>4, <1>5, <1>6, <1>7, <1>8, <1>9, <1>10 DEF Next

-----------------------------------------------------------------------------
(* Each step of the three pipelines, from recall to presentation, keeps    *)
(* what is in hand a list of different candidates; what is presented of it *)
(* follows from how it is arranged.                                        *)
THEOREM SearchIsWhole == Spec => [](IInv /\ Whole)
<1>1. Init => IInv /\ Whole
  BY InitHolds, InitWhole
<1>2. IInv /\ Whole /\ [Next]_vars => IInv' /\ Whole'
  BY StepKeeps, StepWhole
<1> QED
  BY <1>1, <1>2, PTL DEF Spec

(* EachOnce: every evidence of an answer is in exactly one group, groups   *)
(* have different ids, and evidence is listed in the order of the groups,  *)
(* whatever the classifier or the clusterer answered, for any page size.   *)
THEOREM GroupsAreApart == Spec => []EachOnce
<1>1. Whole => EachOnce
  BY DEF Whole, Presented
<1> QED
  BY <1>1, SearchIsWhole, PTL

(* TimelinePageIsEarliest: nothing a timeline shows is later than what it  *)
(* leaves out of the evidence that passed, and it runs in order of time.   *)
THEOREM TimelinesBeginEarly == Spec => []TimelinePageIsEarliest
<1>1. Whole => TimelinePageIsEarliest
  BY DEF Whole, Presented
<1> QED
  BY <1>1, SearchIsWhole, PTL

-----------------------------------------------------------------------------
(* Where the candidates go.                                                *)
Out == setAside \cup cut \cup unrecorded \cup gated

Traced == found \subseteq IdSet(pool) \cup Out

(* A step that accounts for what it takes from the pool.                   *)
LEMMA TracedGoesOn ==
  ASSUME Traced, found' = found, Out \subseteq Out', IdSet(pool) \subseteq IdSet(pool') \cup Out'
  PROVE  Traced'
<1>1. IdSet(pool)' = IdSet(pool')
  BY DEF IdSet
<1> QED
  BY <1>1 DEF Traced

LEMMA PassTraced ==
  ASSUME Traced, NEW next, NEW candidates, NEW aside, NEW codes,
         Pass(next, candidates, aside, codes),
         cut \subseteq cut', unrecorded \subseteq unrecorded',
         IdSet(pool) \subseteq IdSet(candidates) \cup aside \cup cut' \cup unrecorded'
  PROVE  Traced'
<1>1. /\ found' = found /\ gated' = gated /\ pool' = candidates
      /\ setAside' = setAside \cup aside
  BY DEF Pass
<1>2. Out \subseteq Out'
  BY <1>1 DEF Out
<1>3. IdSet(pool) \subseteq IdSet(pool') \cup Out'
  BY <1>1 DEF Out
<1> QED
  BY <1>1, <1>2, <1>3, TracedGoesOn

LEMMA SameTraced == ASSUME Traced, UNCHANGED <<pool, history>> PROVE Traced'
BY DEF Traced, Out, history, IdSet

LEMMA RefuseTraced == ASSUME Traced, Refuse PROVE Traced'
BY SameTraced DEF Refuse

LEMMA RecallTraced ==
  ASSUME Traced, NEW lexical, NEW vector, Recall(lexical, vector)
  PROVE  Traced'
<1>1. PICK down, candidates : Recalled(lexical, vector, down, candidates)
  BY DEF Recall, RecallClaim, RecallTimeline, RecallThematic
<1>2. CASE Refuse
  BY <1>2, RefuseTraced
<1>3. CASE ~Refuse
  <2>1. pool' = candidates /\ found' = IdSet(candidates)
    BY <1>1, <1>3 DEF Recalled
  <2>2. IdSet(pool)' = IdSet(candidates)
    BY <2>1 DEF IdSet
  <2> QED
    BY <2>1, <2>2 DEF Traced
<1> QED
  BY <1>2, <1>3

LEMMA RerankClaimTraced == ASSUME Whole, Traced, RerankClaim PROVE Traced'
<1>1. Listed(pool) /\ Unlabelled(pool) /\ UNCHANGED <<cut, unrecorded>>
  BY DEF RerankClaim, Whole, InHand
<1>2. \/ Refuse
      \/ \E codes : Pass("classify", pool, {}, codes)
      \/ \E answer \in Judgements : \E codes :
           Pass("classify", _restrict_rerank(pool, answer), {}, codes)
  BY DEF RerankClaim
<1>3. \A answer \in Judgements : IdSet(_restrict_rerank(pool, answer)) = IdSet(pool)
  BY <1>1, RestrictIs
<1> QED
  BY <1>1, <1>2, <1>3, RefuseTraced, PassTraced

(* What is not named, what is cut and what is irrelevant are all that go.  *)
LEMMA RerankTimelineTraced == ASSUME Whole, Traced, RerankTimeline PROVE Traced'
<1>1. Listed(pool) /\ UNCHANGED unrecorded
  BY DEF RerankTimeline, Whole, InHand
<1>2. CASE \E codes : Pass("hydrate", pool, {}, codes) /\ UNCHANGED cut
  BY <1>1, <1>2, PassTraced
<1>3. ASSUME NEW answer \in Judgements,
             LET sanitized == _sanitize_reranked(pool, answer)
                 best == First(sanitized, RerankTopK)
                 relevant == {c \in ToSet(best) : c.label # "irrelevant"}
                 aside == (IdSet(pool) \ IdSet(sanitized)) \cup {c.id : c \in ToSet(best) \ relevant}
             IN /\ Pass("hydrate", Keep(best, relevant), aside, {})
                /\ cut' = cut \cup (IdSet(sanitized) \ IdSet(best))
      PROVE  Traced'
  <2> DEFINE sanitized == _sanitize_reranked(pool, answer)
             best == First(sanitized, RerankTopK)
             relevant == {c \in ToSet(best) : c.label # "irrelevant"}
             aside == (IdSet(pool) \ IdSet(sanitized)) \cup {c.id : c \in ToSet(best) \ relevant}
             kept == Keep(best, relevant)
  <2>1. Listed(sanitized)
    BY <1>1, JudgedIs DEF _sanitize_reranked
  <2>2. Listed(best)
    <3>1. RerankTopK \in Nat
      BY HybridAssumption
    <3> HIDE DEF sanitized
    <3> QED
      BY <2>1, <3>1, FirstListed
  <2>3. Pass("hydrate", kept, aside, {}) /\ cut' = cut \cup (IdSet(sanitized) \ IdSet(best))
    BY <1>3
  <2> HIDE DEF sanitized, best
  <2>4. Listed(kept) /\ ToSet(kept) = relevant
    <3>1. Listed(kept) /\ ToSet(kept) = {c \in ToSet(best) : c \in relevant}
      BY <2>2, KeepListed
    <3> QED
      BY <3>1
  <2> HIDE DEF kept
  <2>5. IdSet(kept) = {c.id : c \in relevant} /\ IdSet(best) = {c.id : c \in ToSet(best)}
    BY <2>2, <2>4, ListedMembers
  <2>6. IdSet(best) \subseteq IdSet(kept) \cup {c.id : c \in ToSet(best) \ relevant}
    BY <2>5
  <2> HIDE DEF relevant
  <2>7. IdSet(pool) \subseteq IdSet(kept) \cup aside \cup cut'
    BY <2>3, <2>6
  <2> HIDE DEF aside
  <2> QED
    BY <1>1, <2>3, <2>7, PassTraced
<1>4. \/ \E codes : Pass("hydrate", pool, {}, codes) /\ UNCHANGED cut
      \/ \E answer \in Judgements :
           LET sanitized == _sanitize_reranked(pool, answer)
               best == First(sanitized, RerankTopK)
               relevant == {c \in ToSet(best) : c.label # "irrelevant"}
               aside == (IdSet(pool) \ IdSet(sanitized)) \cup {c.id : c \in ToSet(best) \ relevant}
           IN /\ Pass("hydrate", Keep(best, relevant), aside, {})
              /\ cut' = cut \cup (IdSet(sanitized) \ IdSet(best))
  BY DEF RerankTimeline
<1> QED
  BY <1>2, <1>3, <1>4

(* The relevance gate sets aside what it does not pass on.                 *)
LEMMA GateTraced ==
  ASSUME Traced, Listed(pool), NEW candidates, Listed(candidates), NEW judged, NEW codes,
         Gate(candidates, judged, codes), UNCHANGED <<cut, unrecorded>>
  PROVE  Traced'
<1> DEFINE failing == {c \in ToSet(candidates) : fails_relevance_gate(c, judged)}
           relevant == GateRelevant(candidates, judged)
           aside == GateAside(candidates, judged)
<1>1. Listed(relevant) /\ ToSet(relevant) = {c \in ToSet(candidates) : c \in ToSet(candidates) \ failing}
  BY KeepListed DEF GateRelevant
<1>2. aside = (IdSet(pool) \ IdSet(candidates)) \cup {c.id : c \in failing}
  BY DEF GateAside
<1>3. PICK more :
        \/ Pass("hydrate", relevant, aside, more)
        \/ /\ relevant = <<>> /\ pool' = <<>> /\ setAside' = setAside \cup aside
           /\ UNCHANGED <<request, found, gated, lost>>
  BY GateIs
<1> HIDE DEF relevant, aside, failing
<1>4. IdSet(pool) \subseteq IdSet(relevant) \cup aside
  <2>1. /\ IdSet(relevant) = {c.id : c \in ToSet(relevant)}
        /\ IdSet(candidates) = {c.id : c \in ToSet(candidates)}
    BY <1>1, ListedMembers
  <2> QED
    BY <1>1, <1>2, <2>1
<1>5. CASE Pass("hydrate", relevant, aside, more)
  BY <1>4, <1>5, PassTraced
<1>6. CASE /\ relevant = <<>> /\ pool' = <<>> /\ setAside' = setAside \cup aside
           /\ UNCHANGED <<request, found, gated, lost>>
  <2>1. IdSet(relevant) = {}
    BY <1>6, EmptyListed
  <2>2. Out \subseteq Out' /\ aside \subseteq Out'
    BY <1>6 DEF Out
  <2> QED
    BY <1>4, <1>6, <2>1, <2>2, TracedGoesOn
<1> QED
  BY <1>3, <1>5, <1>6

LEMMA JudgeTraced == ASSUME Whole, Traced, JudgeThematic PROVE Traced'
<1>1. Listed(pool) /\ UNCHANGED <<cut, unrecorded>>
  BY DEF JudgeThematic, Whole, InHand
<1>2. \A answer \in Judgements : Listed(apply_relevance_judgments(pool, answer))
  BY <1>1, JudgedIs DEF apply_relevance_judgments
<1>3. \/ Refuse
      \/ Gate(pool, FALSE, {"RERANKER_UNAVAILABLE"})
      \/ \E answer \in Judgements : Gate(apply_relevance_judgments(pool, answer), TRUE, {})
  BY DEF JudgeThematic
<1> QED
  BY <1>1, <1>2, <1>3, RefuseTraced, GateTraced

(* What has a record and a label that is wanted is displayed.              *)
LEMMA DisplayedIs ==
  ASSUME Listed(pool), NEW ids, NEW labels \in Classifications(ids)
  PROVE  IdSet(pool) \subseteq IdSet(ForDisplay(Labelled(labels), request.counter))
                            \cup Unwanted(labels) \cup (IdSet(pool) \ ids)
<1> DEFINE t == Labelled(labels)
           shown == ForDisplay(t, request.counter)
<1>1. DOMAIN labels = ids /\ \A id \in ids : labels[id] \in Labels
  BY HybridAssumption DEF Classifications
<1>2. Listed(t)
  BY LabelledListed
<1>3. /\ Listed(shown)
      /\ ToSet(shown) = {c \in ToSet(t) :
           c.label \in ToSet(ClaimLabels) /\ (c.label = "counter" => request.counter)}
  BY <1>2, ForDisplayIs
<1>4. IdSet(shown) = {c.id : c \in ToSet(shown)}
  BY <1>3, ListedMembers
<1>5. DOMAIN pool = 1 .. Len(pool) /\ \A i \in 1 .. Len(pool) : pool[i] \in Candidates
  BY DEF Listed
<1>6. ASSUME NEW i \in 1 .. Len(pool), pool[i].id \in ids
      PROVE  /\ [pool[i] EXCEPT !.label = labels[pool[i].id]] \in ToSet(t)
             /\ [pool[i] EXCEPT !.label = labels[pool[i].id]].id = pool[i].id
             /\ [pool[i] EXCEPT !.label = labels[pool[i].id]].label = labels[pool[i].id]
  <2>1. DOMAIN t = DOMAIN pool /\ t[i] = [pool[i] EXCEPT !.label = labels[pool[i].id]]
    BY <1>1, <1>5, <1>6 DEF Labelled
  <2>2. t[i] \in ToSet(t)
    BY <1>5, <2>1 DEF ToSet
  <2>3. pool[i] \in Candidates
    BY <1>5
  <2> HIDE DEF t
  <2> QED
    BY <2>1, <2>2, <2>3 DEF Candidates
<1>7. ToSet(ClaimLabels) = {"direct", "indirect", "context_only", "counter"}
  <2>1. ToSet(ClaimLabels) = {ClaimLabels[1], ClaimLabels[2], ClaimLabels[3], ClaimLabels[4]}
    BY DEF ClaimLabels, ToSet
  <2> QED
    BY <2>1 DEF ClaimLabels
<1> HIDE DEF t, shown
<1>8. ASSUME NEW i \in 1 .. Len(pool), pool[i].id \in ids
      PROVE  pool[i].id \in IdSet(shown) \cup Unwanted(labels)
  <2> DEFINE c == [pool[i] EXCEPT !.label = labels[pool[i].id]]
  <2>1. c \in ToSet(t) /\ c.id = pool[i].id /\ c.label = labels[pool[i].id]
    BY <1>6, <1>8
  <2> HIDE DEF c
  <2>2. CASE c.label \in ToSet(ClaimLabels) /\ (c.label = "counter" => request.counter)
    BY <1>3, <1>4, <2>1, <2>2
  <2>3. CASE c.label = "irrelevant" \/ (c.label = "counter" /\ ~request.counter)
    BY <1>1, <1>8, <2>1, <2>3 DEF Unwanted
  <2> QED
    BY <1>1, <1>7, <1>8, <2>1, <2>2, <2>3 DEF Labels
<1>9. IdSet(pool) = {pool[i].id : i \in 1 .. Len(pool)}
  BY <1>5 DEF IdSet
<1> QED
  BY <1>8, <1>9 DEF shown, t

LEMMA ClassifyTraced == ASSUME Whole, Traced, Classify PROVE Traced'
<1>1. Listed(pool) /\ UNCHANGED cut
  BY DEF Classify, Whole, InHand
<1>2. CASE Refuse
  BY <1>2, RefuseTraced
<1>3. CASE \E codes : Pass("hydrate", pool, {}, codes) /\ UNCHANGED unrecorded
  BY <1>1, <1>3, PassTraced
<1>4. ASSUME NEW recorded, NEW labels \in Classifications(recorded),
             Pass("hydrate", ForDisplay(Labelled(labels), request.counter), Unwanted(labels), {}),
             unrecorded' = unrecorded \cup (IdSet(pool) \ recorded)
      PROVE  Traced'
  <2> DEFINE shown == ForDisplay(Labelled(labels), request.counter)
             unwanted == Unwanted(labels)
  <2>1. IdSet(pool) \subseteq IdSet(shown) \cup unwanted \cup (IdSet(pool) \ recorded)
    BY <1>1, DisplayedIs
  <2>2. Pass("hydrate", shown, unwanted, {})
    BY <1>4
  <2> HIDE DEF shown, unwanted
  <2> QED
    BY <1>1, <1>4, <2>1, <2>2, PassTraced
<1>5. \/ Refuse
      \/ \E codes : Pass("hydrate", pool, {}, codes) /\ UNCHANGED unrecorded
      \/ \E recorded : \E labels \in Classifications(recorded) :
           /\ Pass("hydrate", ForDisplay(Labelled(labels), request.counter), Unwanted(labels), {})
           /\ unrecorded' = unrecorded \cup (IdSet(pool) \ recorded)
  BY DEF Classify
<1> QED
  BY <1>2, <1>3, <1>4, <1>5

LEMMA HydrateTraced == ASSUME IInv, Traced, Hydrate PROVE Traced'
<1>1. CASE Refuse
  BY <1>1, RefuseTraced
<1>2. CASE ~Refuse
  <2>1. /\ gated' = IdSet(pool) \ IdSet(pool')
        /\ UNCHANGED <<found, setAside, cut, unrecorded>>
    BY <1>2 DEF Hydrate
  <2>2. gated = {}
    BY DEF Hydrate, IInv, Accounted
  <2>3. Out \subseteq Out' /\ IdSet(pool) \subseteq IdSet(pool') \cup Out'
    BY <2>1, <2>2 DEF Out
  <2> QED
    BY <2>1, <2>3, TracedGoesOn
<1> QED
  BY <1>1, <1>2

LEMMA StepTraced == IInv /\ Whole /\ Traced /\ [Next]_vars => Traced'
<1> SUFFICES ASSUME IInv, Whole, Traced, [Next]_vars PROVE Traced'
  OBVIOUS
<1>1. CASE Resolve \/ Present \/ OverviewFails \/ Done \/ UNCHANGED vars
  <2>1. UNCHANGED <<pool, history>>
    BY <1>1 DEF Resolve, Refuse, Present, OverviewFails, Done, vars
  <2> QED
    BY <2>1, SameTraced
<1>2. CASE \E lexical \in Outcomes, vector \in VectorOutcomes : Recall(lexical, vector)
  BY <1>2, RecallTraced
<1>3. CASE RerankClaim
  BY <1>3, RerankClaimTraced
<1>4. CASE RerankTimeline
  BY <1>4, RerankTimelineTraced
<1>5. CASE JudgeThematic
  BY <1>5, JudgeTraced
<1>6. CASE Classify
  BY <1>6, ClassifyTraced
<1>7. CASE Hydrate
  BY <1>7, HydrateTraced
<1> QED
  BY <1>1, <1>2, <1>3, <1>4, <1>5, <1>6, <1>7 DEF Next

LEMMA SearchIsTraced == Spec => [](IInv /\ Whole /\ Traced)
<1>1. Init => IInv /\ Whole /\ Traced
  BY InitHolds, InitWhole DEF Init, Traced
<1>2. IInv /\ Whole /\ Traced /\ [Next]_vars => IInv' /\ Whole' /\ Traced'
  BY StepKeeps, StepWhole, StepTraced
<1> QED
  BY <1>1, <1>2, PTL DEF Spec

(* No candidate vanishes.  One that recall passed on is in hand, or left   *)
(* in one of four ways: the reranker did not name it or called it          *)
(* irrelevant, or the classifier's label keeps it from display; a timeline *)
(* cut the reranked list; a claim had no record to classify it with; the   *)
(* evidence gate kept it out, of which only a timeline says nothing.       *)
NothingVanishes ==
  /\ found \subseteq IdSet(pool) \cup setAside \cup cut \cup unrecorded \cup gated
  /\ cut # {} => request.mode = "timeline"
  /\ unrecorded # {} => request.mode = "claim"
  /\ warnings = {} /\ request.mode # "timeline" => gated = {}

(* NothingVanishes, at every step of the three pipelines, whatever the     *)
(* models answered and however the repository changed between the steps.   *)
THEOREM AllAccountedFor == Spec => []NothingVanishes
<1>1. IInv /\ Traced => NothingVanishes
  BY DEF IInv, Accounted, Traced, Out, NothingVanishes
<1> QED
  BY <1>1, SearchIsTraced, PTL

(* ShortPageIsExplained: a page that is not full and comes without a       *)
(* warning shows every candidate that was found and that no model set      *)
(* aside, but for what _classify had no record of in a claim, and what the *)
(* cut of the reranked list and the evidence gate took from a timeline.    *)
THEOREM ShortPagesAreExplained == Spec => []ShortPageIsExplained
<1>1. IInv /\ Whole /\ Traced => ShortPageIsExplained
  <2> SUFFICES ASSUME IInv, Whole, Traced, Answered, warnings = {},
                      Len(response.evidence) < Limit
               PROVE  LET untold == CASE request.mode = "timeline" -> gated \cup cut
                                      [] request.mode = "claim" -> unrecorded
                                      [] request.mode = "thematic" -> {}
                      IN found \subseteq Shown \cup setAside \cup untold
    BY DEF ShortPageIsExplained
  <2>1. found \subseteq Shown \cup setAside \cup cut \cup unrecorded \cup gated
    BY DEF Whole, Presented, ShowsAll, Traced, Out
  <2>2. request.mode \in Modes
    BY HybridAssumption DEF IInv
  <2>3. CASE request.mode = "timeline"
    BY <2>1, <2>3 DEF IInv, Accounted
  <2>4. CASE request.mode = "claim"
    BY <2>1, <2>4 DEF IInv, Accounted
  <2>5. CASE request.mode = "thematic"
    BY <2>1, <2>5 DEF IInv, Accounted
  <2> QED
    BY <2>2, <2>3, <2>4, <2>5 DEF Modes
<1> QED
  BY <1>1, SearchIsTraced, PTL

(* ClaimPageIsStrongest: nothing on the page of a claim is weaker support  *)
(* than something that passed the evidence gate and was left out, for any  *)
(* labels, rankings and page size.                                         *)
THEOREM ClaimPagesAreStrongest == Spec => []ClaimPageIsStrongest
<1>1. Whole => ClaimPageIsStrongest
  BY DEF Whole, Presented
<1> QED
  BY <1>1, SearchIsWhole, PTL
=============================================================================
