----------------------------- MODULE Orderings ------------------------------
(***************************************************************************)
(* The members of a finite set in an order, and what is built of that:     *)
(* parts and concatenations of sequences.  An order is given as a function *)
(* from each member to the set of those that come before it, so that a     *)
(* member's place is their number.                                         *)
(***************************************************************************)
EXTENDS Naturals, Sequences, FiniteSets

InOrder(before) ==
  [k \in 1 .. Cardinality(DOMAIN before) |->
     CHOOSE x \in DOMAIN before : Cardinality(before[x]) = k - 1]

Ascending(I) == InOrder([i \in I |-> {j \in I : j < i}])

(* Pairs by their first, then by their second component.                   *)
PairBefore(a, b) == a[1] < b[1] \/ (a[1] = b[1] /\ a[2] < b[2])

(* The members of a sequence that are wanted, in their order.              *)
Keep(seq, wanted) ==
  LET at == Ascending({i \in DOMAIN seq : seq[i] \in wanted})
  IN [k \in DOMAIN at |-> seq[at[k]]]

(* A sequence of sequences, one after the other.                           *)
Places(seqs) == UNION {{<<i, j>> : j \in DOMAIN seqs[i]} : i \in DOMAIN seqs}

Joined(seqs) ==
  LET at == InOrder([p \in Places(seqs) |-> {q \in Places(seqs) : PairBefore(q, p)}])
  IN [k \in DOMAIN at |-> seqs[at[k][1]][at[k][2]]]
=============================================================================
