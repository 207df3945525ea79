----------------------------- MODULE RankFusion -----------------------------
(***************************************************************************)
(* Reciprocal rank fusion of a lexical and a vector ranking                *)
(* (retrieval_core/rrf.py and the _fuse_candidates of the pipelines).      *)
(*                                                                         *)
(* An evidence id is a number, in the order of the id strings.  A ranking  *)
(* names an id once.  Scores are sums of 1 / (RankConstant + rank); here   *)
(* they are multiplied by Scale, which makes them integers and keeps their *)
(* order.  A candidate keeps what later stages sort or test by: its score, *)
(* its rank in the vector channel (0 if that channel did not find it; the  *)
(* vector scores are taken to descend with the rank), the reranker's score *)
(* (0 if none) and its label.                                              *)
(***************************************************************************)
EXTENDS Orderings, SequencesExt, FiniteSetsExt

CONSTANTS
  Ids,           (* evidence ids                                           *)
  RankConstant,  (* rrf_k                                                  *)
  MaxHits,       (* lexical_top_k and vector_top_k                         *)
  None

ASSUME FusionAssumption ==
  /\ Ids \subseteq Nat \ {0} /\ IsFiniteSet(Ids)
  /\ RankConstant \in Nat \ {0}
  /\ MaxHits \in Nat
  /\ None \notin Ids

Rankings == {s \in BoundedSeq(Ids, MaxHits) : IsInjective(s)}

Position(ranking, id) ==
  IF id \in ToSet(ranking) THEN CHOOSE i \in DOMAIN ranking : ranking[i] = id ELSE 0

(* (RankConstant + 1) * ... * (RankConstant + MaxHits)                     *)
Scale ==
  LET product[n \in 0..MaxHits] == IF n = 0 THEN 1 ELSE product[n - 1] * (RankConstant + n)
  IN product[MaxHits]

Share(ranking, id) ==
  IF Position(ranking, id) = 0 THEN 0 ELSE Scale \div (RankConstant + Position(ranking, id))

(* Fault: the second channel replaces the score of the first.              *)
lastChannelWins(lexical, vector, id) ==
  IF Position(vector, id) # 0 THEN Share(vector, id) ELSE Share(lexical, id)

reciprocal_rank_fusion(lexical, vector, id) == Share(lexical, id) + Share(vector, id)

Candidate(lexical, vector, id) ==
  [id |-> id, fusion |-> reciprocal_rank_fusion(lexical, vector, id),
   vrank |-> Position(vector, id), rerank |-> 0, label |-> None]

(* stable_score_order: by descending score, equal scores by id.            *)
Before(c, d) == c.fusion > d.fusion \/ (c.fusion = d.fusion /\ c.id < d.id)

Ordered(candidates) == InOrder([c \in candidates |-> {d \in candidates : Before(d, c)}])

Fuse(lexical, vector) ==
  Ordered({Candidate(lexical, vector, id) : id \in ToSet(lexical) \cup ToSet(vector)})

First(seq, n) == SubSeq(seq, 1, IF n < Len(seq) THEN n ELSE Len(seq))

IdsOf(seq) == [i \in DOMAIN seq |-> seq[i].id]
IdSet(seq) == {seq[i].id : i \in DOMAIN seq}
=============================================================================
