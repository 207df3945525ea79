------------------------- MODULE CorpusBuildProofs -------------------------
(***************************************************************************)
(* What holds of assembly and ingest for any volumes, pages and number of  *)
(* assemblies.  First the text: what cleaning and structure recognition    *)
(* make of any pages (Divided).  Then the rows: what an assembly collects  *)
(* (Drafted), what of it is inserted (Inserted), and how that is read.     *)
(* Last the steps of the commands: identifiers and assemblies stay, and    *)
(* what is loaded is complete, whatever crashes.                           *)
(***************************************************************************)
EXTENDS CorpusBuild, OrderingProofs

(* Places in their order, those of A before those of B.                    *)
AllBefore(A, B) == \A a \in A, b \in B : PairBefore(a, b)

Rises(text) ==
  /\ text \in Seq(Nat \X Nat)
  /\ \A i, j \in 1 .. Len(text) : i < j => PairBefore(text[i], text[j])

(* PairBefore is a strict total order of places.                           *)
LEMMA PairOrder ==
  /\ \A a \in Nat \X Nat : ~PairBefore(a, a)
  /\ \A a, b \in Nat \X Nat : a = b \/ PairBefore(a, b) \/ PairBefore(b, a)
  /\ \A a, b, c \in Nat \X Nat : PairBefore(a, b) /\ PairBefore(b, c) => PairBefore(a, c)
  /\ \A a, b \in Nat \X Nat : PairBefore(a, b) => a[1] <= b[1]
<1>1. \A a \in Nat \X Nat : a[1] \in Nat /\ a[2] \in Nat /\ a = <<a[1], a[2]>>
  OBVIOUS
<1>2. \A a, b \in Nat \X Nat : a[1] = b[1] /\ a[2] = b[2] => a = b
  BY <1>1
<1> QED
  BY <1>1, <1>2 DEF PairBefore

(* A text that rises is a sequence of places, each after the one before.   *)
LEMMA RisesHas ==
  ASSUME NEW text, Rises(text)
  PROVE  /\ IsSequence(text) /\ Len(text) \in Nat /\ Range(text) \subseteq Nat \X Nat
         /\ \A k \in 1 .. Len(text) : text[k] \in Nat \X Nat
         /\ \A i, j \in 1 .. Len(text) : i < j => PairBefore(text[i], text[j])
<1>1. text \in Seq(Nat \X Nat)
  BY DEF Rises
<1>2. IsSequence(text) /\ Len(text) \in Nat /\ Range(text) \subseteq Nat \X Nat
  BY <1>1, SequenceIs
<1>3. \A k \in 1 .. Len(text) : text[k] \in Range(text)
  BY <1>2, SequenceHas
<1> QED
  BY <1>2, <1>3 DEF Rises

(* Two texts that rise, one before the other.                              *)
LEMMA RisesConcat ==
  ASSUME NEW s, Rises(s), NEW t, Rises(t), AllBefore(Range(s), Range(t))
  PROVE  Rises(s \o t)
<1>1. /\ IsSequence(s) /\ IsSequence(t) /\ Len(s) \in Nat /\ Len(t) \in Nat
      /\ Range(s) \subseteq Nat \X Nat /\ Range(t) \subseteq Nat \X Nat
  BY RisesHas
<1>2. /\ IsSequence(s \o t) /\ Len(s \o t) = Len(s) + Len(t)
      /\ \A k \in 1 .. Len(s) : (s \o t)[k] = s[k]
      /\ \A k \in 1 .. Len(t) : (s \o t)[Len(s) + k] = t[k]
      /\ Range(s \o t) = Range(s) \cup Range(t)
  BY <1>1, ConcatIs
<1>3. s \o t \in Seq(Nat \X Nat)
  <2>1. s \in Seq(Nat \X Nat) /\ t \in Seq(Nat \X Nat)
    BY DEF Rises
  <2> QED
    BY <2>1
<1> DEFINE u == s \o t
<1> HIDE DEF u
<1>4. ASSUME NEW i \in 1 .. Len(u), NEW j \in 1 .. Len(u), i < j
      PROVE  PairBefore(u[i], u[j])
  <2>1. i \in Nat /\ j \in Nat /\ i <= Len(s) + Len(t) /\ j <= Len(s) + Len(t) /\ i >= 1 /\ j >= 1
    BY <1>1, <1>2 DEF u
  <2>2. CASE j <= Len(s)
    <3>1. i \in 1 .. Len(s) /\ j \in 1 .. Len(s)
      BY <1>1, <1>4, <2>1, <2>2
    <3> QED
      BY <1>2, <1>4, <3>1 DEF Rises, u
  <2>3. CASE i <= Len(s) /\ j > Len(s)
    <3>1. i \in 1 .. Len(s) /\ j - Len(s) \in 1 .. Len(t) /\ Len(s) + (j - Len(s)) = j
      BY <1>1, <2>1, <2>3
    <3>2. u[i] = s[i] /\ u[j] = t[j - Len(s)]
      BY <1>2, <3>1 DEF u
    <3>3. s[i] \in Range(s) /\ t[j - Len(s)] \in Range(t)
      BY <1>1, <3>1, SequenceHas
    <3> QED
      BY <3>2, <3>3 DEF AllBefore
  <2>4. CASE i > Len(s)
    <3>1. /\ i - Len(s) \in 1 .. Len(t) /\ Len(s) + (i - Len(s)) = i
          /\ j - Len(s) \in 1 .. Len(t) /\ Len(s) + (j - Len(s)) = j
          /\ i - Len(s) < j - Len(s)
      BY <1>1, <1>4, <2>1, <2>4
    <3>2. u[i] = t[i - Len(s)] /\ u[j] = t[j - Len(s)]
      BY <1>2, <3>1 DEF u
    <3> QED
      BY <3>1, <3>2 DEF Rises
  <2> QED
    BY <1>1, <2>1, <2>2, <2>3, <2>4
<1> QED
  BY <1>3, <1>4 DEF Rises, u

(* Texts that follow one another, joined.                                  *)
LEMMA RisesJoined ==
  ASSUME NEW seqs, IsSequence(seqs), \A i \in 1 .. Len(seqs) : Rises(seqs[i]),
         \A i, j \in 1 .. Len(seqs) : i < j => AllBefore(Range(seqs[i]), Range(seqs[j]))
  PROVE  Rises(Joined(seqs))
<1>1. \A i \in 1 .. Len(seqs) : IsSequence(seqs[i]) /\ Range(seqs[i]) \subseteq Nat \X Nat
  BY RisesHas
<1> DEFINE joined == Joined(seqs)
<1>2. /\ IsSequence(joined)
      /\ \E at : JoinedAt(at, joined, seqs)
      /\ \A x : x \in Range(joined) <=> \E i \in 1 .. Len(seqs) : x \in Range(seqs[i])
  BY <1>1, JoinedHas
<1>3. PICK at : JoinedAt(at, joined, seqs)
  BY <1>2
<1> HIDE DEF joined
<1>4. joined \in Seq(Nat \X Nat)
  <2>1. joined \in Seq(Range(joined)) /\ Range(joined) \subseteq Nat \X Nat
    BY <1>1, <1>2 DEF IsSequence
  <2> QED
    BY <2>1
<1>5. DOMAIN seqs = 1 .. Len(seqs) /\ Len(seqs) \in Nat
  BY SequenceHas
<1>6. ASSUME NEW k \in 1 .. Len(joined)
      PROVE  /\ joined[k] = seqs[at[k][1]][at[k][2]]
             /\ at[k][1] \in 1 .. Len(seqs) /\ at[k][2] \in 1 .. Len(seqs[at[k][1]])
             /\ joined[k] \in Range(seqs[at[k][1]])
  <2>1. joined[k] = seqs[at[k][1]][at[k][2]] /\ at[k] \in Places(seqs)
    BY <1>3 DEF JoinedAt
  <2>2. at[k][1] \in 1 .. Len(seqs) /\ at[k][2] \in DOMAIN seqs[at[k][1]]
    BY <1>5, <2>1 DEF Places
  <2> QED
    BY <1>1, <2>1, <2>2, SequenceHas
<1>7. ASSUME NEW j \in 1 .. Len(joined), NEW k \in 1 .. Len(joined), j < k
      PROVE  PairBefore(joined[j], joined[k])
  <2>1. PairBefore(at[j], at[k])
    BY <1>3, <1>7 DEF JoinedAt
  <2>2. CASE at[j][1] < at[k][1]
    BY <1>6, <2>2 DEF AllBefore
  <2>3. CASE at[j][1] = at[k][1] /\ at[j][2] < at[k][2]
    <3>1. PICK i \in 1 .. Len(seqs) : at[j][1] = i /\ at[k][1] = i
      BY <1>6, <2>3
    <3>2. at[j][2] \in 1 .. Len(seqs[i]) /\ at[k][2] \in 1 .. Len(seqs[i])
      BY <1>6, <3>1
    <3>3. PairBefore(seqs[i][at[j][2]], seqs[i][at[k][2]])
      BY <2>3, <3>2, RisesHas
    <3> QED
      BY <1>6, <3>1, <3>3
  <2> QED
    BY <2>1, <2>2, <2>3 DEF PairBefore
<1> QED
  BY <1>4, <1>7 DEF Rises, joined

-----------------------------------------------------------------------------
(* Pieces of text one after the other, and the places they print.          *)
Printed(pieces) == UNION {Range(pieces[k].text) : k \in 1 .. Len(pieces)}

Reads(pieces) ==
  /\ IsSequence(pieces)
  /\ \A k \in 1 .. Len(pieces) : Rises(pieces[k].text) /\ pieces[k].text # <<>>
  /\ \A j, k \in 1 .. Len(pieces) : j < k => AllBefore(Range(pieces[j].text), Range(pieces[k].text))

(* No pieces read, and print nothing.                                      *)
LEMMA NothingReads == Reads(<<>>) /\ Printed(<<>>) = {}
<1>1. IsSequence(<<>>) /\ 1 .. Len(<<>>) = {}
  BY EmptyIs
<1> QED
  BY <1>1 DEF Reads, Printed

(* One more piece after all the others.                                    *)
LEMMA ReadsAppend ==
  ASSUME NEW pieces, Reads(pieces), NEW piece, Rises(piece.text), piece.text # <<>>,
         AllBefore(Printed(pieces), Range(piece.text))
  PROVE  /\ Reads(Append(pieces, piece))
         /\ Printed(Append(pieces, piece)) = Printed(pieces) \cup Range(piece.text)
<1> DEFINE more == Append(pieces, piece)
<1>1. /\ IsSequence(more) /\ Len(more) = Len(pieces) + 1 /\ Len(pieces) \in Nat
      /\ more[Len(pieces) + 1] = piece
      /\ \A k \in 1 .. Len(pieces) : more[k] = pieces[k]
  BY AppendIs, SequenceHas DEF Reads
<1> HIDE DEF more
<1>2. \A k \in 1 .. Len(more) : k \in 1 .. Len(pieces) \/ k = Len(pieces) + 1
  BY <1>1
<1>3. \A k \in 1 .. Len(pieces) : k \in 1 .. Len(more) /\ k < Len(pieces) + 1
  BY <1>1
<1>4. Len(pieces) + 1 \in 1 .. Len(more)
  BY <1>1
<1>5. \A k \in 1 .. Len(more) : Rises(more[k].text) /\ more[k].text # <<>>
  BY <1>1, <1>2 DEF Reads
<1>6. ASSUME NEW j \in 1 .. Len(more), NEW k \in 1 .. Len(more), j < k
      PROVE  AllBefore(Range(more[j].text), Range(more[k].text))
  <2>1. j \in 1 .. Len(pieces)
    BY <1>1, <1>6
  <2>2. CASE k \in 1 .. Len(pieces)
    BY <1>1, <1>6, <2>1, <2>2 DEF Reads
  <2>3. CASE k = Len(pieces) + 1
    BY <1>1, <2>1, <2>3 DEF AllBefore, Printed
  <2> QED
    BY <1>2, <2>2, <2>3
<1>7. Printed(more) = Printed(pieces) \cup Range(piece.text)
  <2>1. \A x \in Printed(more) : x \in Printed(pieces) \/ x \in Range(piece.text)
    BY <1>1, <1>2 DEF Printed
  <2>2. \A x \in Printed(pieces) : x \in Printed(more)
    BY <1>1, <1>3 DEF Printed
  <2>3. \A x \in Range(piece.text) : x \in Printed(more)
    BY <1>1, <1>4 DEF Printed
  <2> QED
    BY <2>1, <2>2, <2>3
<1> QED
  BY <1>1, <1>5, <1>6, <1>7 DEF Reads, more

(* The last piece goes on.                                                 *)
LEMMA ReadsOn ==
  ASSUME NEW pieces, Reads(pieces), pieces # <<>>, NEW text, Rises(text), text # <<>>,
         AllBefore(Printed(pieces), Range(text)),
         NEW piece, piece.text = Last(pieces).text \o text
  PROVE  /\ Reads(Append(Front(pieces), piece))
         /\ Printed(Append(Front(pieces), piece)) = Printed(pieces) \cup Range(text)
<1> DEFINE more == Append(Front(pieces), piece)
           n == Len(pieces)
<1>1. /\ IsSequence(more) /\ Len(more) = n /\ n \in Nat /\ n # 0
      /\ more[n] = piece
      /\ \A k \in 1 .. n - 1 : more[k] = pieces[k]
  <2>1. IsSequence(pieces)
    BY DEF Reads
  <2>2. n \in Nat /\ n # 0
    BY <2>1, SequenceHas
  <2> QED
    BY <2>1, <2>2, LastReplaced
<1> HIDE DEF more
<1>2. n \in 1 .. n /\ \A k \in 1 .. n : k = n \/ k \in 1 .. n - 1
  BY <1>1
<1>3. /\ Rises(pieces[n].text) /\ pieces[n].text # <<>>
      /\ Range(pieces[n].text) \subseteq Printed(pieces)
  BY <1>2 DEF Reads, Printed
<1>4. piece.text = pieces[n].text \o text
  BY DEF Last
<1>5. AllBefore(Range(pieces[n].text), Range(text))
  BY <1>3 DEF AllBefore
<1>6. Rises(piece.text)
  BY <1>3, <1>4, <1>5, RisesConcat
<1>7. /\ Range(piece.text) = Range(pieces[n].text) \cup Range(text)
      /\ piece.text # <<>>
  <2>1. IsSequence(pieces[n].text) /\ IsSequence(text)
    BY <1>3, RisesHas
  <2>2. /\ Range(piece.text) = Range(pieces[n].text) \cup Range(text)
        /\ Len(piece.text) = Len(pieces[n].text) + Len(text)
        /\ IsSequence(piece.text)
    BY <1>4, <2>1, ConcatIs
  <2>3. Len(text) \in Nat /\ Len(text) # 0 /\ Len(pieces[n].text) \in Nat
    BY <2>1, SequenceHas
  <2>4. Len(piece.text) # 0
    BY <2>2, <2>3
  <2> QED
    BY <2>2, <2>4, SequenceHas
<1>8. ASSUME NEW j \in 1 .. n, NEW k \in 1 .. n, j < k
      PROVE  AllBefore(Range(more[j].text), Range(more[k].text))
  <2>1. j \in 1 .. n - 1 /\ more[j] = pieces[j]
    BY <1>1, <1>8
  <2>2. AllBefore(Range(pieces[j].text), Range(pieces[k].text))
    BY <1>8 DEF Reads
  <2>3. CASE k \in 1 .. n - 1
    BY <1>1, <2>1, <2>2, <2>3
  <2>4. CASE k = n
    <3>1. Range(pieces[j].text) \subseteq Printed(pieces)
      BY DEF Printed
    <3> QED
      BY <1>1, <1>7, <2>1, <2>2, <2>4, <3>1 DEF AllBefore
  <2> QED
    BY <1>2, <2>3, <2>4
<1>9. \A k \in 1 .. n : Rises(more[k].text) /\ more[k].text # <<>>
  BY <1>1, <1>2, <1>6, <1>7 DEF Reads
<1>10. Printed(more) = Printed(pieces) \cup Range(text)
  <2>1. ASSUME NEW x \in Printed(more) PROVE x \in Printed(pieces) \/ x \in Range(text)
    <3>1. PICK k \in 1 .. n : x \in Range(more[k].text)
      BY <1>1 DEF Printed
    <3>2. CASE k = n
      BY <1>1, <1>3, <1>7, <3>1, <3>2
    <3>3. CASE k \in 1 .. n - 1
      BY <1>1, <3>1, <3>3 DEF Printed
    <3> QED
      BY <1>2, <3>2, <3>3
  <2>2. ASSUME NEW x \in Printed(pieces) PROVE x \in Printed(more)
    <3>1. PICK k \in 1 .. n : x \in Range(pieces[k].text)
      BY DEF Printed
    <3>2. x \in Range(more[k].text)
      BY <1>1, <1>2, <1>7, <3>1
    <3> QED
      BY <1>1, <3>2 DEF Printed
  <2>3. \A x \in Range(text) : x \in Printed(more)
    BY <1>1, <1>2, <1>7 DEF Printed
  <2> QED
    BY <2>1, <2>2, <2>3
<1> QED
  BY <1>1, <1>8, <1>9, <1>10 DEF Reads, more

(* Sequences of pieces, one before the other.                              *)
LEMMA ReadsJoined ==
  ASSUME NEW seqs, IsSequence(seqs), \A i \in 1 .. Len(seqs) : Reads(seqs[i]),
         \A i, j \in 1 .. Len(seqs) : i < j => AllBefore(Printed(seqs[i]), Printed(seqs[j]))
  PROVE  /\ Reads(Joined(seqs))
         /\ \A x : x \in Printed(Joined(seqs)) <=> \E i \in 1 .. Len(seqs) : x \in Printed(seqs[i])
<1> DEFINE joined == Joined(seqs)
<1>1. \A i \in 1 .. Len(seqs) : IsSequence(seqs[i])
  BY DEF Reads
<1>2. /\ IsSequence(joined)
      /\ \E at : JoinedAt(at, joined, seqs)
      /\ \A x : x \in Range(joined) <=> \E i \in 1 .. Len(seqs) : x \in Range(seqs[i])
  BY <1>1, JoinedHas
<1>3. PICK at : JoinedAt(at, joined, seqs)
  BY <1>2
<1> HIDE DEF joined
<1>4. DOMAIN seqs = 1 .. Len(seqs) /\ Len(seqs) \in Nat
  BY SequenceHas
<1>5. ASSUME NEW k \in 1 .. Len(joined)
      PROVE  /\ joined[k] = seqs[at[k][1]][at[k][2]]
             /\ at[k][1] \in 1 .. Len(seqs) /\ at[k][2] \in 1 .. Len(seqs[at[k][1]])
             /\ Range(joined[k].text) \subseteq Printed(seqs[at[k][1]])
  <2>1. joined[k] = seqs[at[k][1]][at[k][2]] /\ at[k] \in Places(seqs)
    BY <1>3 DEF JoinedAt
  <2>2. at[k][1] \in 1 .. Len(seqs) /\ at[k][2] \in DOMAIN seqs[at[k][1]]
    BY <1>4, <2>1 DEF Places
  <2>3. at[k][2] \in 1 .. Len(seqs[at[k][1]])
    BY <1>1, <2>2, SequenceHas
  <2> QED
    BY <2>1, <2>2, <2>3 DEF Printed
<1>6. \A k \in 1 .. Len(joined) : Rises(joined[k].text) /\ joined[k].text # <<>>
  <2> TAKE k \in 1 .. Len(joined)
  <2> DEFINE i == at[k][1]
             m == at[k][2]
  <2>1. joined[k] = seqs[i][m] /\ i \in 1 .. Len(seqs) /\ m \in 1 .. Len(seqs[i])
    BY <1>5
  <2> HIDE DEF i, m
  <2>2. Reads(seqs[i])
    BY <2>1
  <2>3. Rises(seqs[i][m].text) /\ seqs[i][m].text # <<>>
    BY <2>1, <2>2 DEF Reads
  <2> QED
    BY <2>1, <2>3
<1>7. ASSUME NEW j \in 1 .. Len(joined), NEW k \in 1 .. Len(joined), j < k
      PROVE  AllBefore(Range(joined[j].text), Range(joined[k].text))
  <2>1. PairBefore(at[j], at[k])
    BY <1>3, <1>7 DEF JoinedAt
  <2>2. CASE at[j][1] < at[k][1]
    BY <1>5, <2>2 DEF AllBefore
  <2>3. CASE at[j][1] = at[k][1] /\ at[j][2] < at[k][2]
    <3>1. PICK i \in 1 .. Len(seqs) : at[j][1] = i /\ at[k][1] = i
      BY <1>5, <2>3
    <3>2. at[j][2] \in 1 .. Len(seqs[i]) /\ at[k][2] \in 1 .. Len(seqs[i])
      BY <1>5, <3>1
    <3>3. AllBefore(Range(seqs[i][at[j][2]].text), Range(seqs[i][at[k][2]].text))
      BY <2>3, <3>2 DEF Reads
    <3> QED
      BY <1>5, <3>1, <3>3
  <2> QED
    BY <2>1, <2>2, <2>3 DEF PairBefore
<1>8. ASSUME NEW x \in Printed(joined) PROVE \E i \in 1 .. Len(seqs) : x \in Printed(seqs[i])
  <2>1. PICK k \in 1 .. Len(joined) : x \in Range(joined[k].text)
    BY <1>8 DEF Printed
  <2> QED
    BY <1>5, <2>1
<1>9. ASSUME NEW i \in 1 .. Len(seqs), NEW x \in Printed(seqs[i]) PROVE x \in Printed(joined)
  <2>1. PICK n \in 1 .. Len(seqs[i]) : x \in Range(seqs[i][n].text)
    BY DEF Printed
  <2>2. seqs[i][n] \in Range(seqs[i])
    BY <1>1, SequenceHas
  <2>3. seqs[i][n] \in Range(joined)
    BY <1>2, <2>2
  <2>4. PICK k \in 1 .. Len(joined) : joined[k] = seqs[i][n]
    BY <1>2, <2>3, SequenceHas
  <2> QED
    BY <2>1, <2>4 DEF Printed
<1> QED
  BY <1>2, <1>6, <1>7, <1>8, <1>9 DEF Reads, joined

-----------------------------------------------------------------------------
(* The states of a loop over lines, one after the other.                   *)
LEMMA JoinRuns ==
  ASSUME NEW spans, Len(spans) \in Nat
  PROVE  \E run : /\ run[0] = <<>> /\ _join_spans(spans) = run[Len(spans)]
                  /\ \A n \in 1 .. Len(spans) : run[n] = Join(run[n - 1], spans[n])
<1> DEFINE N == Len(spans)
           After(x, y) == CHOOSE after \in {Join(before, y) : before \in {x}} : TRUE
           State(f) == f = [n \in 0 .. N |-> IF n = 0 THEN <<>> ELSE After(f[n - 1], spans[n])]
           run == CHOOSE f : State(f)
           Runs(f, n) == f[0] = <<>> /\ \A k \in 1 .. n : f[k] = Join(f[k - 1], spans[k])
           X == {n \in 0 .. N : \E f : Runs(f, n)}
<1>1. \A x, y : After(x, y) = Join(x, y)
  OBVIOUS
<1>2. _join_spans(spans) = run[N]
  BY DEF _join_spans, Loop
<1>3. N \in Nat
  OBVIOUS
<1> HIDE DEF N, After
<1>4. 0 \in X
  <2> DEFINE g == [k \in 0 .. 0 |-> <<>>]
  <2>1. g[0] = <<>> /\ 1 .. 0 = {} /\ 0 \in 0 .. N
    BY <1>3
  <2> HIDE DEF g
  <2>2. Runs(g, 0)
    BY <2>1
  <2> QED
    BY <2>1, <2>2
<1>5. ASSUME NEW n \in 1 .. N, n - 1 \in X PROVE n \in X
  <2>1. PICK f : Runs(f, n - 1)
    BY <1>5
  <2> DEFINE g == [k \in 0 .. n |-> IF k = n THEN Join(f[n - 1], spans[n]) ELSE f[k]]
  <2>2. g[0] = <<>> /\ n \in 0 .. N
    BY <1>3, <2>1
  <2>3. ASSUME NEW k \in 1 .. n PROVE g[k] = Join(g[k - 1], spans[k])
    <3>1. k - 1 \in 0 .. n /\ k - 1 # n
      OBVIOUS
    <3>2. g[k - 1] = f[k - 1]
      BY <3>1
    <3>3. CASE k = n
      BY <3>2, <3>3
    <3>4. CASE k # n
      <4>1. k \in 1 .. n - 1 /\ g[k] = f[k]
        BY <3>4
      <4> QED
        BY <2>1, <3>2, <4>1
    <3> QED
      BY <3>3, <3>4
  <2> HIDE DEF g
  <2>4. Runs(g, n)
    BY <2>2, <2>3
  <2> QED
    BY <2>2, <2>4
<1>6. PICK f : Runs(f, N)
  <2> HIDE DEF X
  <2>1. \A n \in 0 .. N : n \in X
    BY <1>3, <1>4, <1>5, Inductively
  <2>2. N \in X
    BY <1>3, <2>1
  <2> QED
    BY <2>2 DEF X
<1> DEFINE g == [n \in 0 .. N |-> f[n]]
<1>7. State(g)
  <2>1. \A n \in 0 .. N : n # 0 => n - 1 \in 0 .. N /\ n \in 1 .. N
    BY <1>3
  <2>2. \A n \in 0 .. N : g[n] = IF n = 0 THEN <<>> ELSE After(g[n - 1], spans[n])
    BY <1>1, <1>6, <2>1
  <2> QED
    BY <2>2
<1>8. State(run)
  <2> HIDE DEF g
  <2> QED
    BY <1>7
<1> HIDE DEF run
<1>9. run[0] = <<>> /\ \A n \in 1 .. N : run[n] = Join(run[n - 1], spans[n])
  BY <1>1, <1>3, <1>8
<1> QED
  BY <1>2, <1>9 DEF N

-----------------------------------------------------------------------------
(* _detect_works, line by line.                                            *)
LEMMA DetectRuns ==
  ASSUME NEW spans, NEW lines, lines = Lines(spans), Len(lines) \in Nat,
         NEW toc, toc = _toc_titles(lines)
  PROVE  \E run : /\ run[0] = NoneSeen /\ Titles(spans) = run[Len(lines)].works
                  /\ \A n \in 1 .. Len(lines) : run[n] = Detect(spans, toc, run[n - 1], lines[n])
<1> DEFINE N == Len(lines)
           After(x, y) == CHOOSE after \in {Detect(spans, toc, before, y) : before \in {x}} : TRUE
           State(f) == f = [n \in 0 .. N |-> IF n = 0 THEN NoneSeen ELSE After(f[n - 1], lines[n])]
           run == CHOOSE f : State(f)
           Runs(f, n) == f[0] = NoneSeen /\ \A k \in 1 .. n : f[k] = Detect(spans, toc, f[k - 1], lines[k])
           X == {n \in 0 .. N : \E f : Runs(f, n)}
<1>1. \A x, y : After(x, y) = Detect(spans, toc, x, y)
  OBVIOUS
<1>2. Titles(spans) = run[N].works
  BY DEF Titles, Loop
<1>3. N \in Nat
  OBVIOUS
<1> HIDE DEF N, After
<1>4. 0 \in X
  <2> DEFINE g == [k \in 0 .. 0 |-> NoneSeen]
  <2>1. g[0] = NoneSeen /\ 1 .. 0 = {} /\ 0 \in 0 .. N
    BY <1>3
  <2> HIDE DEF g
  <2>2. Runs(g, 0)
    BY <2>1
  <2> QED
    BY <2>1, <2>2
<1>5. ASSUME NEW n \in 1 .. N, n - 1 \in X PROVE n \in X
  <2>1. PICK f : Runs(f, n - 1)
    BY <1>5
  <2> DEFINE g == [k \in 0 .. n |-> IF k = n THEN Detect(spans, toc, f[n - 1], lines[n]) ELSE f[k]]
  <2>2. g[0] = NoneSeen /\ n \in 0 .. N
    BY <1>3, <2>1
  <2>3. ASSUME NEW k \in 1 .. n PROVE g[k] = Detect(spans, toc, g[k - 1], lines[k])
    <3>1. k - 1 \in 0 .. n /\ k - 1 # n
      OBVIOUS
    <3>2. g[k - 1] = f[k - 1]
      BY <3>1
    <3>3. CASE k = n
      BY <3>2, <3>3
    <3>4. CASE k # n
      <4>1. k \in 1 .. n - 1 /\ g[k] = f[k]
        BY <3>4
      <4> QED
        BY <2>1, <3>2, <4>1
    <3> QED
      BY <3>3, <3>4
  <2> HIDE DEF g
  <2>4. Runs(g, n)
    BY <2>2, <2>3
  <2> QED
    BY <2>2, <2>4
<1>6. PICK f : Runs(f, N)
  <2> HIDE DEF X
  <2>1. \A n \in 0 .. N : n \in X
    BY <1>3, <1>4, <1>5, Inductively
  <2>2. N \in X
    BY <1>3, <2>1
  <2> QED
    BY <2>2 DEF X
<1> DEFINE g == [n \in 0 .. N |-> f[n]]
<1>7. State(g)
  <2>1. \A n \in 0 .. N : n # 0 => n - 1 \in 0 .. N /\ n \in 1 .. N
    BY <1>3
  <2>2. \A n \in 0 .. N : g[n] = IF n = 0 THEN NoneSeen ELSE After(g[n - 1], lines[n])
    BY <1>1, <1>6, <2>1
  <2> QED
    BY <2>2
<1>8. State(run)
  <2> HIDE DEF g
  <2> QED
    BY <1>7
<1> HIDE DEF run
<1>9. run[0] = NoneSeen /\ \A n \in 1 .. N : run[n] = Detect(spans, toc, run[n - 1], lines[n])
  BY <1>1, <1>3, <1>8
<1> QED
  BY <1>2, <1>9 DEF N

(* _sections_for_work, span by span.                                       *)
LEMMA HeadedRuns ==
  ASSUME NEW spans, NEW work, NEW lines, lines = InWork(spans, work), Len(lines) \in Nat
  PROVE  \E run : /\ run[0] = [sections |-> <<RootSection(work)>>, parent |-> Root]
                  /\ _sections_for_work(spans, work) = run[Len(lines)].sections
                  /\ \A n \in 1 .. Len(lines) : run[n] = Headed(run[n - 1], lines[n])
<1> DEFINE start == [sections |-> <<RootSection(work)>>, parent |-> Root]
           N == Len(lines)
           After(x, y) == CHOOSE after \in {Headed(before, y) : before \in {x}} : TRUE
           State(f) == f = [n \in 0 .. N |-> IF n = 0 THEN start ELSE After(f[n - 1], lines[n])]
           run == CHOOSE f : State(f)
           Runs(f, n) == f[0] = start /\ \A k \in 1 .. n : f[k] = Headed(f[k - 1], lines[k])
           X == {n \in 0 .. N : \E f : Runs(f, n)}
<1>1. \A x, y : After(x, y) = Headed(x, y)
  OBVIOUS
<1>2. _sections_for_work(spans, work) = run[N].sections
  BY DEF _sections_for_work, Loop
<1>3. N \in Nat
  OBVIOUS
<1> HIDE DEF N, After, start
<1>4. 0 \in X
  <2> DEFINE g == [k \in 0 .. 0 |-> start]
  <2>1. g[0] = start /\ 1 .. 0 = {} /\ 0 \in 0 .. N
    BY <1>3
  <2> HIDE DEF g
  <2>2. Runs(g, 0)
    BY <2>1
  <2> QED
    BY <2>1, <2>2
<1>5. ASSUME NEW n \in 1 .. N, n - 1 \in X PROVE n \in X
  <2>1. PICK f : Runs(f, n - 1)
    BY <1>5
  <2> DEFINE g == [k \in 0 .. n |-> IF k = n THEN Headed(f[n - 1], lines[n]) ELSE f[k]]
  <2>2. g[0] = start /\ n \in 0 .. N
    BY <1>3, <2>1
  <2>3. ASSUME NEW k \in 1 .. n PROVE g[k] = Headed(g[k - 1], lines[k])
    <3>1. k - 1 \in 0 .. n /\ k - 1 # n
      OBVIOUS
    <3>2. g[k - 1] = f[k - 1]
      BY <3>1
    <3>3. CASE k = n
      BY <3>2, <3>3
    <3>4. CASE k # n
      <4>1. k \in 1 .. n - 1 /\ g[k] = f[k]
        BY <3>4
      <4> QED
        BY <2>1, <3>2, <4>1
    <3> QED
      BY <3>3, <3>4
  <2> HIDE DEF g
  <2>4. Runs(g, n)
    BY <2>2, <2>3
  <2> QED
    BY <2>2, <2>4
<1>6. PICK f : Runs(f, N)
  <2> HIDE DEF X
  <2>1. \A n \in 0 .. N : n \in X
    BY <1>3, <1>4, <1>5, Inductively
  <2>2. N \in X
    BY <1>3, <2>1
  <2> QED
    BY <2>2 DEF X
<1> DEFINE g == [n \in 0 .. N |-> f[n]]
<1>7. State(g)
  <2>1. \A n \in 0 .. N : n # 0 => n - 1 \in 0 .. N /\ n \in 1 .. N
    BY <1>3
  <2>2. \A n \in 0 .. N : g[n] = IF n = 0 THEN start ELSE After(g[n - 1], lines[n])
    BY <1>1, <1>6, <2>1
  <2> QED
    BY <2>2
<1>8. State(run)
  <2> HIDE DEF g
  <2> QED
    BY <1>7
<1> HIDE DEF run
<1>9. run[0] = start /\ \A n \in 1 .. N : run[n] = Headed(run[n - 1], lines[n])
  BY <1>1, <1>3, <1>8
<1> QED
  BY <1>2, <1>9 DEF N, start

(* _passages_for_work, span by span.                                       *)
LEMMA ReadRuns ==
  ASSUME NEW spans, NEW work, NEW lines, lines = InWork(spans, work), Len(lines) \in Nat,
         NEW sections, sections = _sections_for_work(spans, work)
  PROVE  \E run : /\ run[0] = [built |-> <<>>, section |-> Root]
                  /\ _passages_for_work(spans, work) = run[Len(lines)].built
                  /\ \A n \in 1 .. Len(lines) : run[n] = Read(sections, run[n - 1], lines[n])
<1> DEFINE start == [built |-> <<>>, section |-> Root]
           N == Len(lines)
           After(x, y) == CHOOSE after \in {Read(sections, before, y) : before \in {x}} : TRUE
           State(f) == f = [n \in 0 .. N |-> IF n = 0 THEN start ELSE After(f[n - 1], lines[n])]
           run == CHOOSE f : State(f)
           Runs(f, n) == f[0] = start /\ \A k \in 1 .. n : f[k] = Read(sections, f[k - 1], lines[k])
           X == {n \in 0 .. N : \E f : Runs(f, n)}
<1>1. \A x, y : After(x, y) = Read(sections, x, y)
  OBVIOUS
<1>2. _passages_for_work(spans, work) = run[N].built
  BY DEF _passages_for_work, Loop
<1>3. N \in Nat
  OBVIOUS
<1> HIDE DEF N, After, start
<1>4. 0 \in X
  <2> DEFINE g == [k \in 0 .. 0 |-> start]
  <2>1. g[0] = start /\ 1 .. 0 = {} /\ 0 \in 0 .. N
    BY <1>3
  <2> HIDE DEF g
  <2>2. Runs(g, 0)
    BY <2>1
  <2> QED
    BY <2>1, <2>2
<1>5. ASSUME NEW n \in 1 .. N, n - 1 \in X PROVE n \in X
  <2>1. PICK f : Runs(f, n - 1)
    BY <1>5
  <2> DEFINE g == [k \in 0 .. n |-> IF k = n THEN Read(sections, f[n - 1], lines[n]) ELSE f[k]]
  <2>2. g[0] = start /\ n \in 0 .. N
    BY <1>3, <2>1
  <2>3. ASSUME NEW k \in 1 .. n PROVE g[k] = Read(sections, g[k - 1], lines[k])
    <3>1. k - 1 \in 0 .. n /\ k - 1 # n
      OBVIOUS
    <3>2. g[k - 1] = f[k - 1]
      BY <3>1
    <3>3. CASE k = n
      BY <3>2, <3>3
    <3>4. CASE k # n
      <4>1. k \in 1 .. n - 1 /\ g[k] = f[k]
        BY <3>4
      <4> QED
        BY <2>1, <3>2, <4>1
    <3> QED
      BY <3>3, <3>4
  <2> HIDE DEF g
  <2>4. Runs(g, n)
    BY <2>2, <2>3
  <2> QED
    BY <2>2, <2>4
<1>6. PICK f : Runs(f, N)
  <2> HIDE DEF X
  <2>1. \A n \in 0 .. N : n \in X
    BY <1>3, <1>4, <1>5, Inductively
  <2>2. N \in X
    BY <1>3, <2>1
  <2> QED
    BY <2>2 DEF X
<1> DEFINE g == [n \in 0 .. N |-> f[n]]
<1>7. State(g)
  <2>1. \A n \in 0 .. N : n # 0 => n - 1 \in 0 .. N /\ n \in 1 .. N
    BY <1>3
  <2>2. \A n \in 0 .. N : g[n] = IF n = 0 THEN start ELSE After(g[n - 1], lines[n])
    BY <1>1, <1>6, <2>1
  <2> QED
    BY <2>2
<1>8. State(run)
  <2> HIDE DEF g
  <2> QED
    BY <1>7
<1> HIDE DEF run
<1>9. run[0] = start /\ \A n \in 1 .. N : run[n] = Read(sections, run[n - 1], lines[n])
  BY <1>1, <1>3, <1>8
<1> QED
  BY <1>2, <1>9 DEF N, start

(* A walk over passages, one by one.                                       *)
LEMMA WalkRuns ==
  ASSUME NEW rows, Cardinality(rows) \in Nat
  PROVE  \E run : /\ run[0] = <<>> /\ Walk(rows) = run[Cardinality(rows)]
                  /\ \A n \in 1 .. Cardinality(rows) :
                       run[n] = Onward(rows, run[n - 1])
<1> DEFINE numbers == [n \in 1 .. Cardinality(rows) |-> n]
           N == Len(numbers)
           After(x, y) == CHOOSE after \in {Onward(rows, before) : before \in {x}} : TRUE
           State(f) == f = [n \in 0 .. N |-> IF n = 0 THEN <<>> ELSE After(f[n - 1], numbers[n])]
           run == CHOOSE f : State(f)
           Runs(f, n) == f[0] = <<>> /\ \A k \in 1 .. n : f[k] = Onward(rows, f[k - 1])
           X == {n \in 0 .. N : \E f : Runs(f, n)}
<1>1. \A x, y : After(x, y) = Onward(rows, x)
  OBVIOUS
<1>2. Walk(rows) = run[N]
  BY DEF Walk, Loop
<1>3. N \in Nat
  OBVIOUS
<1> HIDE DEF N, After
<1>4. 0 \in X
  <2> DEFINE g == [k \in 0 .. 0 |-> <<>>]
  <2>1. g[0] = <<>> /\ 1 .. 0 = {} /\ 0 \in 0 .. N
    BY <1>3
  <2> HIDE DEF g
  <2>2. Runs(g, 0)
    BY <2>1
  <2> QED
    BY <2>1, <2>2
<1>5. ASSUME NEW n \in 1 .. N, n - 1 \in X PROVE n \in X
  <2>1. PICK f : Runs(f, n - 1)
    BY <1>5
  <2> DEFINE g == [k \in 0 .. n |-> IF k = n THEN Onward(rows, f[n - 1]) ELSE f[k]]
  <2>2. g[0] = <<>> /\ n \in 0 .. N
    BY <1>3, <2>1
  <2>3. ASSUME NEW k \in 1 .. n PROVE g[k] = Onward(rows, g[k - 1])
    <3>1. k - 1 \in 0 .. n /\ k - 1 # n
      OBVIOUS
    <3>2. g[k - 1] = f[k - 1]
      BY <3>1
    <3>3. CASE k = n
      BY <3>2, <3>3
    <3>4. CASE k # n
      <4>1. k \in 1 .. n - 1 /\ g[k] = f[k]
        BY <3>4
      <4> QED
        BY <2>1, <3>2, <4>1
    <3> QED
      BY <3>3, <3>4
  <2> HIDE DEF g
  <2>4. Runs(g, n)
    BY <2>2, <2>3
  <2> QED
    BY <2>2, <2>4
<1>6. PICK f : Runs(f, N)
  <2> HIDE DEF X
  <2>1. \A n \in 0 .. N : n \in X
    BY <1>3, <1>4, <1>5, Inductively
  <2>2. N \in X
    BY <1>3, <2>1
  <2> QED
    BY <2>2 DEF X
<1> DEFINE g == [n \in 0 .. N |-> f[n]]
<1>7. State(g)
  <2>1. \A n \in 0 .. N : n # 0 => n - 1 \in 0 .. N /\ n \in 1 .. N
    BY <1>3
  <2>2. \A n \in 0 .. N : g[n] = IF n = 0 THEN <<>> ELSE After(g[n - 1], numbers[n])
    BY <1>1, <1>6, <2>1
  <2> QED
    BY <2>2
<1>8. State(run)
  <2> HIDE DEF g
  <2> QED
    BY <1>7
<1> HIDE DEF run
<1>9. run[0] = <<>> /\ \A n \in 1 .. N : run[n] = Onward(rows, run[n - 1])
  BY <1>1, <1>3, <1>8
<1> QED
  BY <1>2, <1>9 DEF N

-----------------------------------------------------------------------------
(* A line is printed on one page, in blocks of one kind.                   *)
LineOf(pages, line) ==
  /\ DOMAIN line = {"page", "type", "joinable", "class", "last", "text"}
  /\ \A place \in Range(line.text) :
       place[1] = line.page /\ Kind(pages, place[1], place[2]) = line.type
  /\ line.last = "text" => line.type = "main"

(* A line of a paragraph is neither header nor foot.                       *)
LEMMA ParagraphsAreMain ==
  ASSUME NEW pages, NEW p, NEW i, pages[p][i] \in {"text", "stop"}
  PROVE  Kind(pages, p, i) = "main"
<1>1. pages[p][i] \notin _repeated_headers(pages)
  BY DEF _repeated_headers
<1> QED
  BY <1>1 DEF Kind

(* The place of a block, as a text.                                        *)
LEMMA OnePlace ==
  ASSUME NEW place \in Nat \X Nat
  PROVE  Rises(<<place>>) /\ <<place>> # <<>> /\ Range(<<place>>) = {place}
<1>1. <<place>> \in Seq(Nat \X Nat) /\ Len(<<place>>) = 1 /\ <<place>>[1] = place
  OBVIOUS
<1>2. \A i, j \in 1 .. 1 : ~(i < j)
  OBVIOUS
<1>3. Range(<<place>>) = {place}
  BY <1>1 DEF Range
<1> QED
  BY <1>1, <1>2, <1>3 DEF Rises

(* The lines of a page up to block n.                                      *)
PageLines(pages, p, n, joined) ==
  /\ Reads(joined) /\ Printed(joined) = {<<p, i>> : i \in 1 .. n}
  /\ \A k \in 1 .. Len(joined) : LineOf(pages, joined[k]) /\ joined[k].page = p

(* One block more of a page, joined to the last line or not.               *)
LEMMA JoinKeeps ==
  ASSUME NEW pages, NEW p \in Nat, NEW n \in Nat, n # 0, NEW joined, PageLines(pages, p, n - 1, joined)
  PROVE  PageLines(pages, p, n, Join(joined, Span(pages, p, n)))
<1> DEFINE span == Span(pages, p, n)
           next == Join(joined, span)
<1>1. /\ span.text = <<<<p, n>>>> /\ span.page = p /\ span.type = Kind(pages, p, n)
      /\ span.class = pages[p][n] /\ span.last = pages[p][n]
      /\ DOMAIN span = {"page", "type", "joinable", "class", "last", "text"}
  BY DEF Span
<1> HIDE DEF span
<1>2. /\ Reads(joined) /\ Printed(joined) = {<<p, i>> : i \in 1 .. n - 1}
      /\ \A k \in 1 .. Len(joined) : LineOf(pages, joined[k]) /\ joined[k].page = p
  BY DEF PageLines
<1>3. Rises(span.text) /\ span.text # <<>> /\ Range(span.text) = {<<p, n>>}
  BY <1>1, OnePlace
<1>4. AllBefore(Printed(joined), Range(span.text))
  BY <1>2, <1>3 DEF AllBefore, PairBefore
<1>5. {<<p, i>> : i \in 1 .. n - 1} \cup {<<p, n>>} = {<<p, i>> : i \in 1 .. n}
  <2>1. \A i : i \in 1 .. n <=> i \in 1 .. n - 1 \/ i = n
    OBVIOUS
  <2> QED
    BY <2>1
<1>6. span.class \in {"text", "stop"} => span.type = "main"
  BY <1>1, ParagraphsAreMain
<1>7. span.class = "text" => span.type = "main"
  BY <1>6
<1>8. /\ IsSequence(joined) /\ Len(joined) \in Nat
      /\ joined = <<>> <=> Len(joined) = 0
  BY <1>2, SequenceHas DEF Reads
<1>9. CASE joined # <<>> /\ CanJoin(Last(joined), span)
  <2> DEFINE last == Last(joined)
             more == [last EXCEPT !.text = @ \o span.text, !.last = span.last]
  <2>1. next = Append(Front(joined), more)
    BY <1>9 DEF Join
  <2>2. Len(joined) \in 1 .. Len(joined) /\ last = joined[Len(joined)]
    BY <1>8, <1>9 DEF Last
  <2>3. LineOf(pages, last) /\ last.page = p
    BY <1>2, <2>2
  <2>4. last.last = "text" /\ span.type = "main"
    BY <1>6, <1>9 DEF CanJoin
  <2> HIDE DEF last
  <2>5. /\ more.text = last.text \o span.text /\ more.last = span.last /\ more.page = last.page
        /\ more.type = last.type /\ DOMAIN more = {"page", "type", "joinable", "class", "last", "text"}
    BY <2>3 DEF LineOf
  <2> HIDE DEF more
  <2>6. Reads(next) /\ Printed(next) = Printed(joined) \cup Range(span.text)
    <3>1. joined # <<>> /\ more.text = Last(joined).text \o span.text
      BY <1>9, <2>5 DEF last
    <3>2. /\ Reads(Append(Front(joined), more))
          /\ Printed(Append(Front(joined), more)) = Printed(joined) \cup Range(span.text)
      BY <1>2, <1>3, <1>4, <3>1, ReadsOn
    <3> HIDE DEF next
    <3> QED
      BY <2>1, <3>2
  <2>7. Range(more.text) = Range(last.text) \cup Range(span.text)
    <3>1. Rises(last.text)
      BY <1>2, <2>2 DEF Reads
    <3> QED
      BY <1>3, <2>5, <3>1, RisesHas, ConcatIs
  <2>8. last.type = "main"
    BY <2>3, <2>4 DEF LineOf
  <2>9. \A place \in Range(more.text) : place[1] = p /\ Kind(pages, place[1], place[2]) = "main"
    <3>1. \A place \in Range(last.text) : place[1] = p /\ Kind(pages, place[1], place[2]) = "main"
      BY <2>3, <2>8 DEF LineOf
    <3>2. \A place \in Range(span.text) : place[1] = p /\ place[2] = n
      BY <1>3
    <3>3. Kind(pages, p, n) = "main"
      BY <1>1, <2>4
    <3> QED
      BY <2>7, <3>1, <3>2, <3>3
  <2>10. LineOf(pages, more) /\ more.page = p
    BY <2>3, <2>5, <2>8, <2>9 DEF LineOf
  <2>11. /\ Len(next) = Len(joined) /\ next[Len(joined)] = more
         /\ \A k \in 1 .. Len(joined) - 1 : next[k] = joined[k]
    BY <1>8, <1>9, <2>1, LastReplaced
  <2>12. \A k \in 1 .. Len(next) : k = Len(joined) \/ (k \in 1 .. Len(joined) - 1 /\ k \in 1 .. Len(joined))
    BY <1>8, <2>11
  <2>13. \A k \in 1 .. Len(next) : LineOf(pages, next[k]) /\ next[k].page = p
    BY <1>2, <2>10, <2>11, <2>12
  <2> QED
    BY <1>2, <1>3, <1>5, <2>6, <2>13 DEF PageLines, span
<1>10. CASE ~(joined # <<>> /\ CanJoin(Last(joined), span))
  <2>1. next = Append(joined, span)
    BY <1>10 DEF Join
  <2>2. Reads(next) /\ Printed(next) = Printed(joined) \cup Range(span.text)
    BY <1>2, <1>3, <1>4, <2>1, ReadsAppend
  <2>3. LineOf(pages, span) /\ span.page = p
    BY <1>1, <1>3, <1>7 DEF LineOf
  <2>4. /\ Len(next) = Len(joined) + 1 /\ next[Len(joined) + 1] = span
        /\ \A k \in 1 .. Len(joined) : next[k] = joined[k]
    BY <1>8, <2>1, AppendIs
  <2>5. \A k \in 1 .. Len(next) : k = Len(joined) + 1 \/ k \in 1 .. Len(joined)
    BY <1>8, <2>4
  <2>6. \A k \in 1 .. Len(next) : LineOf(pages, next[k]) /\ next[k].page = p
    BY <1>2, <2>3, <2>4, <2>5
  <2> QED
    BY <1>2, <1>3, <1>5, <2>2, <2>6 DEF PageLines, span
<1> QED
  BY <1>9, <1>10

(* clean_page keeps all blocks of a page, in their order.                  *)
LEMMA PageIsRead ==
  ASSUME NEW pages \in Seq(Seq(Classes)), NEW p \in 1 .. Len(pages)
  PROVE  PageLines(pages, p, Len(pages[p]), clean_page(pages, p))
<1> DEFINE N == Len(pages[p])
           spans == [i \in DOMAIN pages[p] |-> Span(pages, p, i)]
<1>1. pages[p] \in Seq(Classes) /\ p \in Nat
  OBVIOUS
<1>2. N \in Nat /\ DOMAIN pages[p] = 1 .. N
  BY <1>1
<1>3. Len(spans) = N /\ \A n \in 1 .. N : spans[n] = Span(pages, p, n)
  BY <1>2
<1>4. clean_page(pages, p) = _join_spans(spans)
  BY DEF clean_page
<1> HIDE DEF spans, N
<1>5. PICK run : /\ run[0] = <<>> /\ _join_spans(spans) = run[N]
                 /\ \A n \in 1 .. N : run[n] = Join(run[n - 1], spans[n])
  BY <1>2, <1>3, JoinRuns
<1> DEFINE X == {n \in 0 .. N : PageLines(pages, p, n, run[n])}
<1>6. 0 \in X
  <2>1. PageLines(pages, p, 0, <<>>)
    BY NothingReads, EmptyIs DEF PageLines
  <2> QED
    BY <1>2, <1>5, <2>1
<1>7. ASSUME NEW n \in 1 .. N, n - 1 \in X PROVE n \in X
  <2>1. n \in Nat /\ n # 0 /\ n \in 0 .. N
    BY <1>2
  <2>2. PageLines(pages, p, n, Join(run[n - 1], Span(pages, p, n)))
    BY <1>1, <1>7, <2>1, JoinKeeps
  <2> QED
    BY <1>3, <1>5, <2>1, <2>2
<1> HIDE DEF X
<1>8. \A n \in 0 .. N : n \in X
  BY <1>2, <1>6, <1>7, Inductively
<1>9. N \in X
  BY <1>2, <1>8
<1> QED
  BY <1>4, <1>5, <1>9 DEF X, N

-----------------------------------------------------------------------------
(* The lines of the pages in A: all their blocks, in order.                *)
LinesOf(pages, lines, A) ==
  /\ Reads(lines) /\ Printed(lines) = {place \in Places(pages) : place[1] \in A}
  /\ \A k \in 1 .. Len(lines) : LineOf(pages, lines[k])

(* Pages and their blocks are numbered from one.                           *)
LEMMA PagesHave ==
  ASSUME NEW pages \in Seq(Seq(Classes))
  PROVE  /\ Len(pages) \in Nat /\ DOMAIN pages = 1 .. Len(pages)
         /\ \A p \in 1 .. Len(pages) : Len(pages[p]) \in Nat /\ DOMAIN pages[p] = 1 .. Len(pages[p])
         /\ \A place \in Places(pages) : place \in Nat \X Nat /\ place[1] \in 1 .. Len(pages)
         /\ \A x : x \in Places(pages) <=>
              \E p \in 1 .. Len(pages) : \E i \in 1 .. Len(pages[p]) : x = <<p, i>>
<1>1. Len(pages) \in Nat /\ DOMAIN pages = 1 .. Len(pages)
  OBVIOUS
<1>2. \A p \in 1 .. Len(pages) : pages[p] \in Seq(Classes)
  OBVIOUS
<1>3. \A p \in 1 .. Len(pages) : Len(pages[p]) \in Nat /\ DOMAIN pages[p] = 1 .. Len(pages[p])
  BY <1>2
<1>4. \A x : x \in Places(pages) <=>
        \E p \in 1 .. Len(pages) : \E i \in 1 .. Len(pages[p]) : x = <<p, i>>
  BY <1>1, <1>3 DEF Places
<1>5. \A place \in Places(pages) : place \in Nat \X Nat /\ place[1] \in 1 .. Len(pages)
  BY <1>1, <1>3, <1>4
<1> QED
  BY <1>1, <1>3, <1>4, <1>5

(* The lines of some of the pages, page by page.                           *)
LEMMA SelectedPages ==
  ASSUME NEW pages \in Seq(Seq(Classes)), NEW A, NEW seqs, DOMAIN seqs = DOMAIN pages,
         seqs = [p \in DOMAIN pages |-> seqs[p]],
         \A p \in DOMAIN pages : seqs[p] = IF p \in A THEN clean_page(pages, p) ELSE <<>>
  PROVE  LinesOf(pages, Joined(seqs), A)
<1> DEFINE N == Len(pages)
           lines == Joined(seqs)
<1>1. N \in Nat /\ DOMAIN pages = 1 .. N
  BY PagesHave
<1> HIDE DEF N
<1>2. IsSequence(seqs) /\ Len(seqs) = N
  BY <1>1, FunctionIsSequence
<1>3. \A p \in 1 .. N : PageLines(pages, p, Len(pages[p]), clean_page(pages, p))
  BY PageIsRead DEF N
<1>4. ASSUME NEW p \in 1 .. N
      PROVE  /\ Reads(seqs[p])
             /\ Printed(seqs[p]) = IF p \in A THEN {<<p, i>> : i \in 1 .. Len(pages[p])} ELSE {}
             /\ \A k \in 1 .. Len(seqs[p]) : LineOf(pages, seqs[p][k])
  <2>1. CASE p \in A
    <3>1. seqs[p] = clean_page(pages, p)
      BY <1>1, <2>1
    <3>2. PageLines(pages, p, Len(pages[p]), seqs[p])
      BY <1>3, <3>1
    <3> QED
      BY <2>1, <3>2 DEF PageLines
  <2>2. CASE p \notin A
    <3>1. seqs[p] = <<>>
      BY <1>1, <2>2
    <3> QED
      BY <2>2, <3>1, NothingReads, EmptyIs
  <2> QED
    BY <2>1, <2>2
<1>5. \A p \in 1 .. N : \A x \in Printed(seqs[p]) :
        p \in A /\ \E i \in 1 .. Len(pages[p]) : x = <<p, i>> /\ x[1] = p
  <2> TAKE p \in 1 .. N
  <2>1. CASE p \in A
    <3>1. Printed(seqs[p]) = {<<p, i>> : i \in 1 .. Len(pages[p])}
      BY <1>4, <2>1
    <3>2. \A x \in Printed(seqs[p]) : \E i \in 1 .. Len(pages[p]) : x = <<p, i>>
      BY <3>1
    <3>3. \A i : <<p, i>>[1] = p
      OBVIOUS
    <3> QED
      BY <2>1, <3>2, <3>3
  <2>2. CASE p \notin A
    <3>1. Printed(seqs[p]) = {}
      BY <1>4, <2>2
    <3> QED
      BY <3>1
  <2> QED
    BY <2>1, <2>2
<1>6. \A p, q \in 1 .. N : p < q => AllBefore(Printed(seqs[p]), Printed(seqs[q]))
  <2> SUFFICES ASSUME NEW p \in 1 .. N, NEW q \in 1 .. N, p < q,
                      NEW x \in Printed(seqs[p]), NEW y \in Printed(seqs[q])
      PROVE  PairBefore(x, y)
    BY DEF AllBefore
  <2>1. x[1] = p /\ y[1] = q
    BY <1>5
  <2> QED
    BY <2>1 DEF PairBefore
<1>7. /\ Reads(lines)
      /\ \A x : x \in Printed(lines) <=> \E p \in 1 .. N : x \in Printed(seqs[p])
  BY <1>2, <1>4, <1>6, ReadsJoined
<1>8. \A x : x \in Range(lines) <=> \E p \in 1 .. N : x \in Range(seqs[p])
  <2>1. \A p \in 1 .. N : IsSequence(seqs[p])
    BY <1>4 DEF Reads
  <2> QED
    BY <1>2, <2>1, JoinedHas
<1> HIDE DEF lines
<1>9. \A k \in 1 .. Len(lines) : LineOf(pages, lines[k])
  <2> TAKE k \in 1 .. Len(lines)
  <2>1. lines[k] \in Range(lines)
    BY <1>7, SequenceHas DEF Reads
  <2>2. PICK p \in 1 .. N : lines[k] \in Range(seqs[p])
    BY <1>8, <2>1, Zenon
  <2>3. IsSequence(seqs[p])
    BY <1>4 DEF Reads
  <2>4. PICK j \in 1 .. Len(seqs[p]) : seqs[p][j] = lines[k]
    <3>1. \A x : x \in Range(seqs[p]) <=> \E j \in 1 .. Len(seqs[p]) : seqs[p][j] = x
      BY <2>3, SequenceHas
    <3> QED
      BY <2>2, <3>1
  <2> QED
    BY <1>4, <2>4
<1>10. \A x : x \in Printed(lines) <=> x \in Places(pages) /\ x[1] \in A
  <2>1. \A x : x \in Places(pages) <=>
          \E p \in 1 .. N : \E i \in 1 .. Len(pages[p]) : x = <<p, i>>
    BY PagesHave DEF N
  <2>2. \A x : x \in Printed(lines) => x \in Places(pages) /\ x[1] \in A
    <3> TAKE x
    <3> HAVE x \in Printed(lines)
    <3>1. PICK p \in 1 .. N : x \in Printed(seqs[p])
      BY <1>7
    <3>2. p \in A /\ \E i \in 1 .. Len(pages[p]) : x = <<p, i>> /\ x[1] = p
      BY <1>5, <3>1
    <3> QED
      BY <2>1, <3>2
  <2>3. ASSUME NEW p \in 1 .. N, NEW i \in 1 .. Len(pages[p]), p \in A
        PROVE  <<p, i>> \in Printed(lines)
    <3>1. <<p, i>> \in Printed(seqs[p])
      BY <1>4, <2>3
    <3> QED
      BY <1>7, <3>1
  <2>4. \A x : x \in Places(pages) /\ x[1] \in A => x \in Printed(lines)
    BY <2>1, <2>3
  <2> QED
    BY <2>2, <2>4
<1>11. Printed(lines) = {place \in Places(pages) : place[1] \in A}
  BY <1>10
<1> QED
  BY <1>7, <1>9, <1>11 DEF LinesOf, lines

(* The lines of a volume, and those of a work.                             *)
LEMMA LinesAre ==
  ASSUME NEW pages \in Seq(Seq(Classes))
  PROVE  LinesOf(pages, Lines(Cleaned(pages)), 1 .. Len(pages))
<1> DEFINE seqs == Cleaned(pages)
<1>1. /\ DOMAIN seqs = DOMAIN pages /\ seqs = [p \in DOMAIN pages |-> seqs[p]]
      /\ \A p \in DOMAIN pages : seqs[p] = clean_page(pages, p)
  BY DEF Cleaned
<1> HIDE DEF seqs
<1>2. \A p \in DOMAIN pages : p \in 1 .. Len(pages)
  BY PagesHave
<1>3. \A p \in DOMAIN pages : seqs[p] = IF p \in 1 .. Len(pages) THEN clean_page(pages, p) ELSE <<>>
  BY <1>1, <1>2
<1>4. LinesOf(pages, Joined(seqs), 1 .. Len(pages))
  BY <1>1, <1>3, SelectedPages
<1> QED
  BY <1>4 DEF Lines, seqs

(* The lines of a work are those of its pages.                             *)
LEMMA InWorkIs ==
  ASSUME NEW pages \in Seq(Seq(Classes)), NEW work
  PROVE  LinesOf(pages, InWork(Cleaned(pages), work), work.start .. work.end)
<1> DEFINE spans == Cleaned(pages)
           A == work.start .. work.end
           seqs == [p \in DOMAIN spans |-> IF p \in A THEN spans[p] ELSE <<>>]
<1>1. DOMAIN spans = DOMAIN pages /\ \A p \in DOMAIN pages : spans[p] = clean_page(pages, p)
  BY DEF Cleaned
<1>2. InWork(spans, work) = Joined(seqs)
  BY DEF InWork
<1> HIDE DEF spans, A
<1>3. /\ DOMAIN seqs = DOMAIN pages /\ seqs = [p \in DOMAIN pages |-> seqs[p]]
      /\ \A p \in DOMAIN pages : seqs[p] = IF p \in A THEN clean_page(pages, p) ELSE <<>>
  BY <1>1
<1> HIDE DEF seqs
<1>4. LinesOf(pages, Joined(seqs), A)
  BY <1>3, SelectedPages
<1> QED
  BY <1>2, <1>4 DEF A, spans

(* The lines of some pages: where they are, and that none is missing.      *)
LEMMA LinesHave ==
  ASSUME NEW pages \in Seq(Seq(Classes)), NEW A, NEW lines, LinesOf(pages, lines, A)
  PROVE  /\ IsSequence(lines) /\ Len(lines) \in Nat
         /\ \A k \in 1 .. Len(lines) :
              /\ lines[k].page \in A /\ lines[k].page \in 1 .. Len(pages)
              /\ Range(lines[k].text) # {}
         /\ \A j, k \in 1 .. Len(lines) : j < k => lines[j].page <= lines[k].page
         /\ \A place \in Places(pages) : place[1] \in A =>
              \E k \in 1 .. Len(lines) : place \in Range(lines[k].text) /\ lines[k].page = place[1]
<1>1. IsSequence(lines) /\ Len(lines) \in Nat
  BY SequenceHas DEF LinesOf, Reads
<1>2. ASSUME NEW k \in 1 .. Len(lines)
      PROVE  \E place \in Places(pages) : /\ place \in Range(lines[k].text) /\ place[1] = lines[k].page
                                          /\ place[1] \in A
  <2>1. Rises(lines[k].text) /\ lines[k].text # <<>>
    BY DEF LinesOf, Reads
  <2>2. Len(lines[k].text) # 0 /\ Len(lines[k].text) \in Nat
    BY <2>1, RisesHas, SequenceHas
  <2>3. 1 \in 1 .. Len(lines[k].text)
    BY <2>2
  <2>4. lines[k].text[1] \in Range(lines[k].text)
    BY <2>1, <2>3, RisesHas, SequenceHas
  <2>5. \A place \in Range(lines[k].text) : place \in Places(pages) /\ place[1] \in A
    BY DEF LinesOf, Printed
  <2>6. \A place \in Range(lines[k].text) : place[1] = lines[k].page
    BY DEF LinesOf, LineOf
  <2> QED
    BY <2>4, <2>5, <2>6
<1>3. ASSUME NEW k \in 1 .. Len(lines)
      PROVE  /\ lines[k].page \in A /\ lines[k].page \in 1 .. Len(pages)
             /\ Range(lines[k].text) # {}
  BY <1>2, PagesHave
<1>4. ASSUME NEW j \in 1 .. Len(lines), NEW k \in 1 .. Len(lines), j < k
      PROVE  lines[j].page <= lines[k].page
  <2>1. AllBefore(Range(lines[j].text), Range(lines[k].text))
    BY <1>4 DEF LinesOf, Reads
  <2>2. PICK a \in Places(pages) : a \in Range(lines[j].text) /\ a[1] = lines[j].page
    BY <1>2
  <2>3. PICK b \in Places(pages) : b \in Range(lines[k].text) /\ b[1] = lines[k].page
    BY <1>2
  <2>4. PairBefore(a, b) /\ a \in Nat \X Nat /\ b \in Nat \X Nat
    BY <2>1, <2>2, <2>3, PagesHave DEF AllBefore
  <2> QED
    BY <2>2, <2>3, <2>4, PairOrder
<1>5. ASSUME NEW place \in Places(pages), place[1] \in A
      PROVE  \E k \in 1 .. Len(lines) : place \in Range(lines[k].text) /\ lines[k].page = place[1]
  <2>1. place \in Printed(lines)
    BY <1>5 DEF LinesOf
  <2>2. PICK k \in 1 .. Len(lines) : place \in Range(lines[k].text)
    BY <2>1 DEF Printed
  <2> QED
    BY <2>2 DEF LinesOf, LineOf
<1> QED
  BY <1>1, <1>3, <1>4, <1>5

-----------------------------------------------------------------------------
(* The works that the first n lines begin.                                 *)
Begun(lines, n, works) ==
  /\ IsSequence(works)
  /\ \A w \in 1 .. Len(works) :
       /\ works[w].title \in {"title", "book"} /\ DOMAIN works[w] = {"title", "start", "end"}
       /\ \E k \in 1 .. n : works[w].start = lines[k].page
  /\ \A w, x \in 1 .. Len(works) : w < x => works[w].start <= works[x].start

(* A line that starts a work, or does not.                                 *)
LEMMA DetectKeeps ==
  ASSUME NEW lines, Len(lines) \in Nat, \A k \in 1 .. Len(lines) : lines[k].page \in Nat,
         \A j, k \in 1 .. Len(lines) : j < k => lines[j].page <= lines[k].page,
         NEW n \in 1 .. Len(lines), NEW spans, NEW toc,
         NEW before, DOMAIN before = {"works", "author", "ended"}, Begun(lines, n - 1, before.works),
         NEW after, after = Detect(spans, toc, before, lines[n])
  PROVE  DOMAIN after = {"works", "author", "ended"} /\ Begun(lines, n, after.works)
<1> DEFINE line == lines[n]
           seen == Noted(before, line)
           work == TitledWork(line)
<1>1. DOMAIN seen = {"works", "author", "ended"} /\ seen.works = before.works
  BY DEF Noted
<1> HIDE DEF seen
<1> DEFINE works == seen.works
<1>2. \A k \in 1 .. n - 1 : k \in 1 .. Len(lines) /\ k \in 1 .. n /\ k < n
  OBVIOUS
<1>3. /\ IsSequence(works) /\ Len(works) \in Nat
      /\ \A w \in 1 .. Len(works) :
           /\ works[w].title \in {"title", "book"} /\ DOMAIN works[w] = {"title", "start", "end"}
           /\ \E k \in 1 .. n - 1 : works[w].start = lines[k].page
      /\ \A w, x \in 1 .. Len(works) : w < x => works[w].start <= works[x].start
  BY <1>1, SequenceHas DEF Begun
<1>4. Begun(lines, n, works)
  BY <1>2, <1>3 DEF Begun
<1>5. CASE _looks_like_work_title(spans, line) /\ Signs(seen, line, toc)
  <2> DEFINE more == Append(works, work)
  <2>1. after = [works |-> more, author |-> 0, ended |-> FALSE]
    BY <1>5 DEF Detect, seen
  <2>2. DOMAIN after = {"works", "author", "ended"} /\ after.works = more
    BY <2>1
  <2>3. work.title \in {"title", "book"} /\ DOMAIN work = {"title", "start", "end"} /\ work.start = lines[n].page
    BY <1>5 DEF TitledWork, _looks_like_work_title
  <2> HIDE DEF work, works
  <2>4. /\ IsSequence(more) /\ Len(more) = Len(works) + 1 /\ more[Len(works) + 1] = work
        /\ \A w \in 1 .. Len(works) : more[w] = works[w]
    BY <1>3, AppendIs
  <2> HIDE DEF more
  <2>5. \A w \in 1 .. Len(more) : w \in 1 .. Len(works) \/ w = Len(works) + 1
    BY <1>3, <2>4
  <2>6. \A w \in 1 .. Len(works) : works[w].start <= lines[n].page
    BY <1>2, <1>3
  <2>7. ASSUME NEW w \in 1 .. Len(more), NEW x \in 1 .. Len(more), w < x
        PROVE  more[w].start <= more[x].start
    <3>1. w \in 1 .. Len(works)
      BY <1>3, <2>4, <2>7
    <3>2. CASE x \in 1 .. Len(works)
      BY <1>3, <2>4, <2>7, <3>1, <3>2
    <3>3. CASE x = Len(works) + 1
      BY <2>3, <2>4, <2>6, <3>1, <3>3
    <3> QED
      BY <2>5, <3>2, <3>3
  <2>8. ASSUME NEW w \in 1 .. Len(more)
        PROVE  /\ more[w].title \in {"title", "book"} /\ DOMAIN more[w] = {"title", "start", "end"}
               /\ \E k \in 1 .. n : more[w].start = lines[k].page
    <3>1. CASE w \in 1 .. Len(works)
      BY <1>2, <1>3, <2>4, <3>1
    <3>2. CASE w = Len(works) + 1
      <4>1. n \in 1 .. n
        OBVIOUS
      <4> QED
        BY <2>3, <2>4, <3>2, <4>1
    <3> QED
      BY <2>5, <3>1, <3>2
  <2> QED
    BY <2>2, <2>4, <2>7, <2>8 DEF Begun
<1>6. CASE ~(_looks_like_work_title(spans, line) /\ Signs(seen, line, toc))
  <2>1. after = seen
    BY <1>6 DEF Detect, seen
  <2> QED
    BY <1>1, <1>4, <2>1
<1> QED
  BY <1>5, <1>6

(* The works that titles start, in the order of their lines.               *)
LEMMA TitlesAre ==
  ASSUME NEW spans, NEW lines, lines = Lines(spans), Len(lines) \in Nat,
         \A k \in 1 .. Len(lines) : lines[k].page \in Nat,
         \A j, k \in 1 .. Len(lines) : j < k => lines[j].page <= lines[k].page
  PROVE  Begun(lines, Len(lines), Titles(spans))
<1> DEFINE toc == _toc_titles(lines)
           N == Len(lines)
<1>1. PICK run : /\ run[0] = NoneSeen /\ Titles(spans) = run[N].works
                 /\ \A n \in 1 .. N : run[n] = Detect(spans, toc, run[n - 1], lines[n])
  BY DetectRuns
<1> DEFINE X == {n \in 0 .. N : /\ DOMAIN run[n] = {"works", "author", "ended"}
                                /\ Begun(lines, n, run[n].works)}
<1> HIDE DEF toc
<1>2. 0 \in X
  <2>1. Begun(lines, 0, <<>>)
    BY EmptyIs DEF Begun
  <2>2. DOMAIN NoneSeen = {"works", "author", "ended"} /\ NoneSeen.works = <<>>
    BY DEF NoneSeen
  <2> QED
    BY <1>1, <2>1, <2>2
<1>3. ASSUME NEW n \in 1 .. N, n - 1 \in X PROVE n \in X
  <2>1. n \in 0 .. N /\ run[n] = Detect(spans, toc, run[n - 1], lines[n])
    BY <1>1
  <2>2. DOMAIN run[n] = {"works", "author", "ended"} /\ Begun(lines, n, run[n].works)
    BY <1>3, <2>1, DetectKeeps
  <2> QED
    BY <2>1, <2>2
<1> HIDE DEF X
<1>4. \A n \in 0 .. N : n \in X
  BY <1>2, <1>3, Inductively
<1>5. N \in X
  BY <1>4
<1> QED
  BY <1>1, <1>5 DEF X

(* The works divide the pages from first to last; only the first can be    *)
(* without a title, and then it has pages.                                 *)
Divides(works, first, last) ==
  /\ IsSequence(works) /\ works # <<>> /\ works[1].start = first
  /\ \A w \in 1 .. Len(works) :
       /\ works[w].start \in first .. last /\ works[w].title \in {"front", "title", "book"}
       /\ works[w].end = IF w < Len(works) THEN works[w + 1].start - 1 ELSE last
  /\ \A w, x \in 1 .. Len(works) : w < x =>
       /\ works[w].start <= works[x].start /\ works[x].title # "front"
       /\ works[w].title = "front" => works[w].start < works[x].start

(* Ranges that are closed before the next start divide the pages.          *)
LEMMA ClosedDivide ==
  ASSUME NEW first \in Nat, NEW last \in Nat, first <= last,
         NEW titles, IsSequence(titles),
         \A w \in 1 .. Len(titles) :
           /\ titles[w].title \in {"title", "book"} /\ DOMAIN titles[w] = {"title", "start", "end"}
           /\ titles[w].start \in first .. last,
         \A w, x \in 1 .. Len(titles) : w < x => titles[w].start <= titles[x].start,
         NEW works, works = _close_work_ranges(<<FrontWork(first)>> \o titles, last)
  PROVE  Divides(IF works[1].end < works[1].start THEN Tail(works) ELSE works, first, last)
<1> DEFINE all == <<FrontWork(first)>> \o titles
           T == Len(titles)
           N == Len(all)
<1>1. IsSequence(<<FrontWork(first)>>) /\ Len(<<FrontWork(first)>>) = 1 /\ <<FrontWork(first)>>[1] = FrontWork(first)
  <2>1. <<FrontWork(first)>> \in Seq({FrontWork(first)})
    OBVIOUS
  <2> QED
    BY <2>1, SequenceIs
<1>2. /\ IsSequence(all) /\ N = T + 1 /\ T \in Nat
      /\ all[1] = FrontWork(first)
      /\ \A w \in 1 .. T : all[w + 1] = titles[w]
  <2>1. T \in Nat
    BY SequenceHas
  <2>2. /\ IsSequence(all) /\ Len(all) = 1 + T
        /\ \A k \in 1 .. 1 : all[k] = <<FrontWork(first)>>[k]
        /\ \A k \in 1 .. T : all[1 + k] = titles[k]
    BY <1>1, ConcatIs
  <2> HIDE DEF all
  <2>3. \A k \in 1 .. T : all[k + 1] = all[1 + k]
    BY <2>1
  <2> QED
    BY <1>1, <2>1, <2>2, <2>3
<1> HIDE DEF all, T
<1>3. DOMAIN all = 1 .. N /\ N \in Nat
  BY <1>2, SequenceHas
<1>4. N = T + 1 /\ T \in Nat
  BY <1>2
<1> HIDE DEF N
<1>5. \A w \in 1 .. N : w = 1 \/ (w - 1 \in 1 .. T /\ (w - 1) + 1 = w)
  BY <1>4
<1>6. /\ all[1].start = first /\ all[1].title = "front" /\ DOMAIN all[1] = {"title", "start", "end"}
  BY <1>2 DEF FrontWork
<1>7. \A w \in 1 .. N : w # 1 => all[w] = titles[w - 1] /\ w - 1 \in 1 .. T
  BY <1>2, <1>5
<1>8. \A w \in 1 .. N : /\ all[w].start \in first .. last /\ DOMAIN all[w] = {"title", "start", "end"}
                        /\ all[w].title \in {"front", "title", "book"}
                        /\ w # 1 => all[w].title # "front"
  <2> TAKE w \in 1 .. N
  <2>1. CASE w = 1
    BY <1>6, <2>1
  <2>2. CASE w # 1
    <3>1. all[w] = titles[w - 1] /\ w - 1 \in 1 .. T
      BY <1>7, <2>2
    <3>2. /\ titles[w - 1].title \in {"title", "book"} /\ DOMAIN titles[w - 1] = {"title", "start", "end"}
          /\ titles[w - 1].start \in first .. last
      BY <3>1 DEF T
    <3> QED
      BY <3>1, <3>2
  <2> QED
    BY <2>1, <2>2
<1>9. ASSUME NEW w \in 1 .. N, NEW x \in 1 .. N, w < x PROVE all[w].start <= all[x].start
  <2>1. x # 1 /\ x - 1 \in 1 .. T /\ all[x] = titles[x - 1]
    BY <1>3, <1>7, <1>9
  <2>2. CASE w = 1
    BY <1>6, <1>8, <2>2
  <2>3. CASE w # 1
    <3>1. w - 1 \in 1 .. T /\ all[w] = titles[w - 1] /\ w - 1 < x - 1
      BY <1>3, <1>7, <1>9, <2>3
    <3>2. titles[w - 1].start <= titles[x - 1].start
      BY <2>1, <3>1 DEF T
    <3> QED
      BY <2>1, <3>1, <3>2
  <2> QED
    BY <2>2, <2>3
<1>10. works = [w \in 1 .. N |->
                 [all[w] EXCEPT !.end = IF w < N THEN all[w + 1].start - 1 ELSE last]]
  BY <1>3 DEF _close_work_ranges, all, N
<1>11. \A w \in 1 .. N : /\ works[w].start = all[w].start /\ works[w].title = all[w].title
                         /\ works[w].end = IF w < N THEN all[w + 1].start - 1 ELSE last
  <2> TAKE w \in 1 .. N
  <2>1. works[w] = [all[w] EXCEPT !.end = IF w < N THEN all[w + 1].start - 1 ELSE last]
    BY <1>10
  <2>2. DOMAIN all[w] = {"title", "start", "end"}
    BY <1>8
  <2> QED
    BY <2>1, <2>2
<1>12. IsSequence(works) /\ Len(works) = N
  <2>1. DOMAIN works = 1 .. N /\ works = [w \in 1 .. N |-> works[w]]
    BY <1>10
  <2> QED
    BY <1>3, <2>1, FunctionIsSequence
<1>13. 1 \in 1 .. N /\ \A w \in 1 .. N : w < N => w + 1 \in 1 .. N
  BY <1>4
<1>14. CASE ~(works[1].end < works[1].start)
  <2>1. N > 1 => first < all[2].start
    <3>1. ASSUME N > 1 PROVE works[1].end = all[2].start - 1 /\ 2 \in 1 .. N
      BY <1>3, <1>11, <1>13, <3>1
    <3> QED
      BY <1>6, <1>8, <1>11, <1>13, <1>14, <3>1
  <2>2. ASSUME NEW w \in 1 .. N, NEW x \in 1 .. N, w < x, works[w].title = "front"
        PROVE  works[w].start < works[x].start
    <3>0. w = 1
      BY <1>8, <1>11, <2>2
    <3>1. w = 1 /\ N > 1 /\ 2 \in 1 .. N /\ (x = 2 \/ 2 < x)
      BY <1>3, <2>2, <3>0
    <3>2. all[2].start <= all[x].start
      BY <1>8, <1>9, <3>1
    <3> QED
      BY <1>6, <1>8, <1>11, <1>13, <2>1, <3>1, <3>2
  <2>3. Divides(works, first, last)
    <3>1. works # <<>>
      BY <1>12, <1>4, EmptyIs
    <3>2. works[1].start = first
      BY <1>6, <1>11, <1>13
    <3>3. \A w \in 1 .. N :
            /\ works[w].start \in first .. last /\ works[w].title \in {"front", "title", "book"}
            /\ works[w].end = IF w < N THEN works[w + 1].start - 1 ELSE last
      BY <1>8, <1>11, <1>13
    <3>4. \A w, x \in 1 .. N : w < x =>
            works[w].start <= works[x].start /\ works[x].title # "front"
      <4> TAKE w, x \in 1 .. N
      <4> HAVE w < x
      <4>1. all[w].start <= all[x].start /\ x # 1
        BY <1>3, <1>9
      <4> QED
        BY <1>8, <1>11, <4>1
    <3> QED
      BY <1>12, <2>2, <3>1, <3>2, <3>3, <3>4 DEF Divides
  <2> QED
    BY <1>14, <2>3
<1>15. CASE works[1].end < works[1].start
  <2>1. N > 1
    BY <1>3, <1>6, <1>11, <1>13, <1>15
  <2>2. 2 \in 1 .. N /\ 1 < N
    BY <1>3, <2>1
  <2>3. all[2].start = first
    <3>1. works[1].end = all[2].start - 1 /\ works[1].start = first
      BY <1>6, <1>11, <1>13, <2>2
    <3> QED
      BY <1>8, <1>15, <2>2, <3>1
  <2> DEFINE rest == Tail(works)
             M == N - 1
  <2>4. /\ IsSequence(rest) /\ Len(rest) = M /\ M \in Nat /\ M # 0
        /\ \A w \in 1 .. M : rest[w] = works[w + 1]
    <3>1. M \in Nat /\ M # 0
      BY <1>3, <2>1
    <3>2. works \in Seq(Range(works)) /\ works # <<>>
      BY <1>12, <2>1, EmptyIs DEF IsSequence
    <3>3. rest \in Seq(Range(works)) /\ Len(rest) = Len(works) - 1
      BY <3>2
    <3>4. \A w \in 1 .. M : rest[w] = works[w + 1]
      BY <1>12, <3>1, <3>2
    <3> QED
      BY <1>12, <3>1, <3>3, <3>4, SequenceIs
  <2> HIDE DEF rest
  <2>5. \A w \in 1 .. M : w + 1 \in 1 .. N /\ w + 1 # 1 /\ (w < M <=> w + 1 < N)
    BY <1>3
  <2>6. \A w \in 1 .. M : /\ rest[w].start = all[w + 1].start /\ rest[w].title = all[w + 1].title
                          /\ rest[w].title # "front" /\ rest[w].title \in {"front", "title", "book"}
                          /\ rest[w].start \in first .. last
    BY <1>8, <1>11, <2>4, <2>5
  <2>7. \A w \in 1 .. M : rest[w].end = IF w < M THEN rest[w + 1].start - 1 ELSE last
    <3> TAKE w \in 1 .. M
    <3>1. rest[w].end = IF w + 1 < N THEN all[(w + 1) + 1].start - 1 ELSE last
      BY <1>11, <2>4, <2>5
    <3>2. CASE w < M
      <4>1. w + 1 \in 1 .. M
        BY <2>4, <3>2
      <4> QED
        BY <2>5, <2>6, <3>1, <3>2, <4>1
    <3>3. CASE ~(w < M)
      BY <2>5, <3>1, <3>3
    <3> QED
      BY <3>2, <3>3
  <2>8. \A w, x \in 1 .. M : w < x => rest[w].start <= rest[x].start
    <3> TAKE w, x \in 1 .. M
    <3> HAVE w < x
    <3>1. all[w + 1].start <= all[x + 1].start
      BY <1>9, <2>4, <2>5
    <3> QED
      BY <2>6, <3>1
  <2>9. rest[1].start = first /\ rest # <<>>
    <3>1. 1 \in 1 .. M /\ 1 + 1 = 2
      BY <1>3, <2>1
    <3> QED
      BY <2>3, <2>4, <2>6, <3>1, EmptyIs
  <2>10. Divides(rest, first, last)
    BY <2>4, <2>6, <2>7, <2>8, <2>9 DEF Divides
  <2> QED
    BY <1>15, <2>10 DEF rest
<1> QED
  BY <1>14, <1>15

-----------------------------------------------------------------------------
(* _detect_works: the ranges of the works divide the pages.                *)
LEMMA WorksAre ==
  ASSUME NEW pages \in Seq(Seq(Classes))
  PROVE  \E first \in Nat \ {0}, last \in Nat :
           /\ first <= last /\ Divides(_detect_works(Cleaned(pages)), first, last)
           /\ \A place \in Places(pages) : place[1] \in first .. last
<1> DEFINE spans == Cleaned(pages)
           lines == Lines(spans)
           N == Len(lines)
           first == IF lines = <<>> THEN 1 ELSE lines[1].page
           last == IF lines = <<>> THEN 1 ELSE Last(lines).page
           titles == Titles(spans)
           works == _close_work_ranges(<<FrontWork(first)>> \o titles, last)
<1>1. _detect_works(spans) = IF works[1].end < works[1].start THEN Tail(works) ELSE works
  BY DEF _detect_works
<1>2. LinesOf(pages, lines, 1 .. Len(pages))
  BY LinesAre
<1> HIDE DEF spans
<1>3. /\ IsSequence(lines) /\ N \in Nat
      /\ \A k \in 1 .. N : lines[k].page \in 1 .. Len(pages)
      /\ \A j, k \in 1 .. N : j < k => lines[j].page <= lines[k].page
      /\ \A place \in Places(pages) : place[1] \in 1 .. Len(pages) =>
           \E k \in 1 .. N : place \in Range(lines[k].text) /\ lines[k].page = place[1]
  <2> DEFINE A == 1 .. Len(pages)
  <2>1. LinesOf(pages, lines, A)
    BY <1>2
  <2> HIDE DEF A, lines
  <2>2. /\ IsSequence(lines) /\ Len(lines) \in Nat
        /\ \A k \in 1 .. Len(lines) :
             /\ lines[k].page \in A /\ lines[k].page \in 1 .. Len(pages)
             /\ Range(lines[k].text) # {}
        /\ \A j, k \in 1 .. Len(lines) : j < k => lines[j].page <= lines[k].page
        /\ \A place \in Places(pages) : place[1] \in A =>
             \E k \in 1 .. Len(lines) : place \in Range(lines[k].text) /\ lines[k].page = place[1]
    BY <2>1, LinesHave
  <2> QED
    BY <2>2 DEF A
<1>4. Len(pages) \in Nat /\ \A place \in Places(pages) : place[1] \in 1 .. Len(pages)
  BY PagesHave
<1>5. \A k \in 1 .. N : lines[k].page \in Nat /\ lines[k].page # 0
  BY <1>3, <1>4
<1>6. Begun(lines, N, titles)
  <2> HIDE DEF titles
  <2> QED
    BY <1>3, <1>5, TitlesAre DEF titles
<1>7. lines = <<>> <=> N = 0
  BY <1>3, SequenceHas
<1> HIDE DEF lines
<1>8. first \in Nat \ {0} /\ last \in Nat /\ first <= last
  <2>1. CASE N = 0
    BY <1>7, <2>1
  <2>2. CASE N # 0
    <3>1. 1 \in 1 .. N /\ N \in 1 .. N /\ (1 = N \/ 1 < N)
      <4>1. N \in Nat
        BY <1>3
      <4> HIDE DEF N
      <4> QED
        BY <2>2, <4>1
    <3>2. first = lines[1].page /\ last = lines[N].page
      BY <1>7, <2>2 DEF Last
    <3>3. lines[1].page <= lines[N].page
      BY <1>3, <1>5, <3>1
    <3> QED
      BY <1>5, <3>1, <3>2, <3>3
  <2> QED
    BY <2>1, <2>2
<1>9. \A k \in 1 .. N : lines[k].page \in first .. last
  <2> TAKE k \in 1 .. N
  <2>1. N # 0 /\ 1 \in 1 .. N /\ N \in 1 .. N /\ (1 = k \/ 1 < k) /\ (k = N \/ k < N)
    BY <1>3
  <2>2. first = lines[1].page /\ last = lines[N].page
    BY <1>7, <2>1 DEF Last
  <2>3. lines[1].page <= lines[k].page /\ lines[k].page <= lines[N].page
    BY <1>3, <1>5, <2>1
  <2> QED
    BY <1>5, <1>8, <2>1, <2>2, <2>3
<1>10. \A place \in Places(pages) : place[1] \in first .. last
  BY <1>3, <1>4, <1>9
<1> HIDE DEF first, last, titles
<1>11. \A w \in 1 .. Len(titles) :
         /\ titles[w].title \in {"title", "book"} /\ DOMAIN titles[w] = {"title", "start", "end"}
         /\ titles[w].start \in first .. last
  BY <1>6, <1>9 DEF Begun
<1>12. /\ IsSequence(titles)
       /\ \A w, x \in 1 .. Len(titles) : w < x => titles[w].start <= titles[x].start
  BY <1>6 DEF Begun
<1>13. Divides(_detect_works(spans), first, last)
  <2> HIDE DEF works
  <2>1. Divides(IF works[1].end < works[1].start THEN Tail(works) ELSE works, first, last)
    BY <1>8, <1>11, <1>12, ClosedDivide DEF works
  <2> QED
    BY <1>1, <2>1
<1> QED
  BY <1>8, <1>10, <1>13 DEF spans

(* The pages of works are apart, and in their order.                       *)
LEMMA WorksApart ==
  ASSUME NEW first \in Nat, NEW last \in Nat, NEW works, Divides(works, first, last)
  PROVE  /\ \A w, x \in 1 .. Len(works) : w < x => works[w].end < works[x].start
         /\ \A w \in 1 .. Len(works) : works[w].start \in Nat /\ works[w].end \in Int
<1> DEFINE N == Len(works)
<1>1. N \in Nat
  BY SequenceHas DEF Divides
<1> HIDE DEF N
<1>2. \A w \in 1 .. N : works[w].start \in Nat
  BY DEF Divides, N
<1>3. \A w \in 1 .. N : works[w].end = IF w < N THEN works[w + 1].start - 1 ELSE last
  BY DEF Divides, N
<1>4. \A w \in 1 .. N : works[w].end \in Int
  <2> TAKE w \in 1 .. N
  <2>1. w < N => w + 1 \in 1 .. N
    BY <1>1
  <2> QED
    BY <1>2, <1>3, <2>1
<1>5. ASSUME NEW w \in 1 .. N, NEW x \in 1 .. N, w < x PROVE works[w].end < works[x].start
  <2>1. w < N /\ w + 1 \in 1 .. N /\ (w + 1 = x \/ w + 1 < x)
    BY <1>1, <1>5
  <2>2. works[w].end = works[w + 1].start - 1
    BY <1>3, <2>1
  <2>3. works[w + 1].start <= works[x].start
    BY <1>2, <2>1 DEF Divides, N
  <2> QED
    BY <1>2, <2>1, <2>2, <2>3
<1> QED
  BY <1>2, <1>4, <1>5 DEF N

(* Every page lies in a work.                                              *)
LEMMA WorksCover ==
  ASSUME NEW first \in Nat, NEW last \in Nat, NEW works, Divides(works, first, last),
         NEW p \in first .. last
  PROVE  \E w \in 1 .. Len(works) : p \in works[w].start .. works[w].end
<1> DEFINE N == Len(works)
           T == {x \in Nat : x = N + 1 \/ (x \in 1 .. N /\ works[x].start > p)}
<1>1. N \in Nat /\ N # 0
  BY SequenceHas DEF Divides
<1> HIDE DEF N
<1>2. N + 1 \in T
  BY <1>1
<1>3. PICK x \in T : \A y \in T : x <= y
  BY <1>2, LeastNat
<1>4. x # 1
  <2>1. 1 \in 1 .. N /\ works[1].start = first
    BY <1>1 DEF Divides, N
  <2> QED
    BY <1>1, <1>3, <2>1
<1>5. x - 1 \in 1 .. N /\ (x = N + 1 \/ x \in 1 .. N)
  BY <1>1, <1>3, <1>4
<1> DEFINE w == x - 1
<1>6. w \in Nat /\ w \notin T
  BY <1>3, <1>5
<1> HIDE DEF w
<1>7. w \in 1 .. N /\ w + 1 = x
  BY <1>3, <1>5 DEF w
<1>8. works[w].start \in Nat /\ works[w].end \in Int
  BY <1>7, WorksApart DEF N
<1>9. works[w].start <= p
  BY <1>6, <1>7, <1>8
<1>10. p <= works[w].end
  <2>1. works[w].end = IF w < N THEN works[w + 1].start - 1 ELSE last
    BY <1>7 DEF Divides, N
  <2>2. CASE w < N
    <3>1. x \in 1 .. N /\ works[x].start > p
      BY <1>1, <1>3, <1>7, <2>2
    <3>2. works[x].start \in Nat
      BY <3>1, WorksApart DEF N
    <3> QED
      BY <1>7, <2>1, <2>2, <3>1, <3>2
  <2>3. CASE ~(w < N)
    BY <2>1, <2>3
  <2> QED
    BY <2>2, <2>3
<1> QED
  BY <1>7, <1>8, <1>9, <1>10 DEF N

(* Works that are known by the same page begin on it.                      *)
StartByKey(works) ==
  \A v : \A w, x \in 1 .. Len(works) :
    WorkKey(v, works[w]) = WorkKey(v, works[x]) => works[w].start = works[x].start

(* The page a work is known by is where it begins.                         *)
LEMMA WorksStartByKey ==
  ASSUME NEW first \in Nat \ {0}, NEW last \in Nat, NEW works, Divides(works, first, last)
  PROVE  StartByKey(works)
<1> SUFFICES ASSUME NEW v, NEW w \in 1 .. Len(works), NEW x \in 1 .. Len(works),
                    WorkKey(v, works[w]) = WorkKey(v, works[x])
    PROVE  works[w].start = works[x].start
  BY DEF StartByKey
<1>1. \A y \in 1 .. Len(works) : works[y].start \in Nat /\ works[y].start # 0
  BY DEF Divides
<1>2. \A y \in 1 .. Len(works) : works[y].title = "front" => y = 1
  <2> TAKE y \in 1 .. Len(works)
  <2>1. 1 \in 1 .. Len(works) /\ y \in Nat /\ (y # 1 => 1 < y)
    BY SequenceHas DEF Divides
  <2> QED
    BY <2>1 DEF Divides
<1>3. (IF works[w].title = "front" THEN 0 ELSE works[w].start)
        = (IF works[x].title = "front" THEN 0 ELSE works[x].start)
  BY DEF WorkKey
<1>4. works[w].title = "front" <=> works[x].title = "front"
  BY <1>1, <1>3
<1>5. CASE works[w].title = "front"
  BY <1>2, <1>4, <1>5
<1>6. CASE works[w].title # "front"
  BY <1>3, <1>4, <1>6
<1> QED
  BY <1>5, <1>6

-----------------------------------------------------------------------------
KeysOf(sections) == {sections[i].key : i \in 1 .. Len(sections)}

(* A section lies in one of the same work; the root in none.               *)
Nested(sections) ==
  /\ IsSequence(sections) /\ Root \in KeysOf(sections)
  /\ \A i \in 1 .. Len(sections) : sections[i].parent \in {<<>>} \cup KeysOf(sections)

(* A heading adds a section, and nothing else does.                        *)
LEMMA HeadedKeeps ==
  ASSUME NEW before, Nested(before.sections), before.parent \in KeysOf(before.sections), NEW span,
         NEW after, after = Headed(before, span)
  PROVE  Nested(after.sections) /\ after.parent \in KeysOf(after.sections)
<1> DEFINE sections == before.sections
           nested == span.class = "nested"
           section == Section(span, IF nested THEN before.parent ELSE Root)
           more == Append(sections, section)
<1>1. CASE ~IsHeading(span)
  BY <1>1 DEF Headed
<1>2. CASE IsHeading(span)
  <2>1. after = [sections |-> more, parent |-> IF nested THEN before.parent ELSE section.key]
    BY <1>2 DEF Headed
  <2>2. after.sections = more /\ after.parent = (IF nested THEN before.parent ELSE section.key)
    BY <2>1
  <2>3. section.parent = IF nested THEN before.parent ELSE Root
    BY DEF Section
  <2>4. section.parent \in KeysOf(sections)
    BY <2>3 DEF Nested
  <2> HIDE DEF section, sections
  <2>5. IsSequence(sections) /\ Len(sections) \in Nat
    BY SequenceHas DEF Nested, sections
  <2>6. /\ IsSequence(more) /\ Len(more) = Len(sections) + 1
        /\ more[Len(sections) + 1] = section
        /\ \A k \in 1 .. Len(sections) : more[k] = sections[k]
    BY <2>5, AppendIs
  <2> HIDE DEF more
  <2>7. \A k \in 1 .. Len(more) : k \in 1 .. Len(sections) \/ k = Len(sections) + 1
    BY <2>5, <2>6
  <2>8. (Len(sections) + 1) \in 1 .. Len(more) /\ \A k \in 1 .. Len(sections) : k \in 1 .. Len(more)
    BY <2>5, <2>6
  <2>9. KeysOf(sections) \subseteq KeysOf(more)
    BY <2>6, <2>8 DEF KeysOf
  <2>10. section.key \in KeysOf(more)
    BY <2>6, <2>8 DEF KeysOf
  <2>11. \A i \in 1 .. Len(sections) : sections[i].parent \in {<<>>} \cup KeysOf(sections)
    BY DEF Nested, sections
  <2>12. ASSUME NEW i \in 1 .. Len(more) PROVE more[i].parent \in {<<>>} \cup KeysOf(more)
    <3>1. CASE i \in 1 .. Len(sections)
      BY <2>6, <2>9, <2>11, <3>1
    <3>2. CASE i = Len(sections) + 1
      BY <2>4, <2>6, <2>9, <3>2
    <3> QED
      BY <2>7, <3>1, <3>2
  <2>13. Root \in KeysOf(sections) /\ before.parent \in KeysOf(sections)
    BY DEF Nested, sections
  <2> QED
    BY <2>2, <2>6, <2>9, <2>10, <2>12, <2>13 DEF Nested
<1> QED
  BY <1>1, <1>2

(* _sections_for_work: every section lies in one of the work.              *)
LEMMA SectionsAre ==
  ASSUME NEW spans, NEW work, Len(InWork(spans, work)) \in Nat
  PROVE  Nested(_sections_for_work(spans, work))
<1> DEFINE lines == InWork(spans, work)
           N == Len(lines)
           root == <<RootSection(work)>>
<1>1. PICK run : /\ run[0] = [sections |-> root, parent |-> Root]
                 /\ _sections_for_work(spans, work) = run[N].sections
                 /\ \A n \in 1 .. N : run[n] = Headed(run[n - 1], lines[n])
  BY HeadedRuns
<1> HIDE DEF lines
<1> DEFINE X == {n \in 0 .. N : /\ Nested(run[n].sections)
                                /\ run[n].parent \in KeysOf(run[n].sections)}
<1>2. 0 \in X
  <2>1. root \in Seq({RootSection(work)}) /\ Len(root) = 1 /\ root[1] = RootSection(work)
    OBVIOUS
  <2>2. IsSequence(root)
    BY <2>1, SequenceIs
  <2>3. root[1].key = Root /\ root[1].parent = <<>>
    BY <2>1 DEF RootSection
  <2> HIDE DEF root
  <2>4. Root \in KeysOf(root) /\ \A i \in 1 .. Len(root) : root[i].parent \in {<<>>} \cup KeysOf(root)
    BY <2>1, <2>3 DEF KeysOf
  <2>5. run[0].sections = root /\ run[0].parent = Root
    BY <1>1
  <2>6. 0 \in 0 .. N
    BY DEF lines
  <2> QED
    BY <2>2, <2>4, <2>5, <2>6 DEF Nested
<1>3. ASSUME NEW n \in 1 .. N, n - 1 \in X PROVE n \in X
  <2>1. n \in 0 .. N /\ run[n] = Headed(run[n - 1], lines[n])
    BY <1>1 DEF lines
  <2>2. Nested(run[n].sections) /\ run[n].parent \in KeysOf(run[n].sections)
    BY <1>3, <2>1, HeadedKeeps
  <2> QED
    BY <2>1, <2>2
<1> HIDE DEF X
<1>4. \A n \in 0 .. N : n \in X
  BY <1>2, <1>3, Inductively DEF lines
<1>5. N \in X
  BY <1>4 DEF lines
<1> QED
  BY <1>1, <1>5 DEF X

-----------------------------------------------------------------------------
Margin == {"header", "footer"}

(* What a passage says of its text.                                        *)
PassageOf(sections, passage) ==
  /\ DOMAIN passage = {"section", "type", "start", "end", "joinable", "text"}
  /\ passage.section \in KeysOf(sections)
  /\ passage.start = passage.text[1][1] /\ passage.end = Last(passage.text)[1]

(* The passages when the first n lines are read.                           *)
BodyOf(lines, n) == UNION {Range(lines[k].text) : k \in {j \in 1 .. n : lines[j].type \notin Margin}}

ReadTo(lines, n, sections, state) ==
  /\ Reads(state.built) /\ Printed(state.built) = BodyOf(lines, n)
  /\ state.section \in KeysOf(sections)
  /\ \A m \in 1 .. Len(state.built) : PassageOf(sections, state.built[m])

(* A span that is read belongs to a section of the work.                   *)
LEMMA SectionIsThere ==
  ASSUME NEW sections, Nested(sections), NEW span, NEW current \in KeysOf(sections)
  PROVE  SectionOf(sections, span, current) \in KeysOf(sections)
<1> DEFINE titled == {i \in DOMAIN sections : sections[i].title = span.class}
<1>1. SectionOf(sections, span, current) = IF titled = {} THEN current ELSE sections[Min(titled)].key
  BY DEF SectionOf
<1>2. DOMAIN sections = 1 .. Len(sections) /\ Len(sections) \in Nat
  BY SequenceHas DEF Nested
<1>3. titled \in SUBSET (1 .. Len(sections)) /\ titled \in SUBSET Nat
  BY <1>2
<1> HIDE DEF titled
<1>4. ASSUME titled # {} PROVE Min(titled) \in titled
  <2>1. \E n \in titled : \A m \in titled : n <= m
    BY <1>3, <1>4, LeastNat
  <2> QED
    BY <2>1 DEF Min
<1> QED
  BY <1>1, <1>3, <1>4 DEF KeysOf

(* The first and the last place of two texts.                              *)
LEMMA TextGoesOn ==
  ASSUME NEW s, Rises(s), s # <<>>, NEW t, Rises(t), t # <<>>
  PROVE  (s \o t)[1] = s[1] /\ Last(s \o t) = Last(t)
<1>1. /\ IsSequence(s) /\ IsSequence(t) /\ Len(s) \in Nat /\ Len(t) \in Nat
      /\ Len(s) # 0 /\ Len(t) # 0
  BY RisesHas, SequenceHas
<1>2. /\ Len(s \o t) = Len(s) + Len(t)
      /\ \A k \in 1 .. Len(s) : (s \o t)[k] = s[k]
      /\ \A k \in 1 .. Len(t) : (s \o t)[Len(s) + k] = t[k]
  BY <1>1, ConcatIs
<1>3. 1 \in 1 .. Len(s) /\ Len(t) \in 1 .. Len(t)
  BY <1>1
<1> QED
  BY <1>2, <1>3 DEF Last

(* A span goes on with the last passage, or opens one, or is left out.     *)
LEMMA ReadKeeps ==
  ASSUME NEW lines, Reads(lines), NEW n \in 1 .. Len(lines),
         \A place \in Range(lines[n].text) : place[1] = lines[n].page,
         NEW sections, Nested(sections),
         NEW before, ReadTo(lines, n - 1, sections, before)
  PROVE  ReadTo(lines, n, sections, Read(sections, before, lines[n]))
<1> DEFINE span == lines[n]
           built == before.built
           section == SectionOf(sections, span, before.section)
           after == Read(sections, before, span)
<1>1. /\ Reads(built) /\ Printed(built) = BodyOf(lines, n - 1)
      /\ before.section \in KeysOf(sections)
      /\ \A m \in 1 .. Len(built) : PassageOf(sections, built[m])
  BY DEF ReadTo
<1>2. section \in KeysOf(sections)
  BY <1>1, SectionIsThere
<1>3. n \in Nat /\ n # 0 /\ \A k \in 1 .. n - 1 : k \in 1 .. Len(lines) /\ k < n
  BY SequenceHas DEF Reads
<1>4. Rises(span.text) /\ span.text # <<>>
  BY DEF Reads
<1>5. AllBefore(Printed(built), Range(span.text))
  <2>1. \A k \in 1 .. n - 1 : AllBefore(Range(lines[k].text), Range(lines[n].text))
    BY <1>3 DEF Reads
  <2> QED
    BY <1>1, <2>1 DEF AllBefore, BodyOf
<1>6. BodyOf(lines, n) = BodyOf(lines, n - 1) \cup IF span.type \in Margin THEN {} ELSE Range(span.text)
  <2>1. \A k : k \in 1 .. n <=> k \in 1 .. n - 1 \/ k = n
    BY <1>3
  <2>2. CASE span.type \in Margin
    BY <2>1, <2>2 DEF BodyOf
  <2>3. CASE span.type \notin Margin
    <3>1. {j \in 1 .. n : lines[j].type \notin Margin} = {j \in 1 .. n - 1 : lines[j].type \notin Margin} \cup {n}
      BY <2>1, <2>3
    <3> QED
      BY <2>3, <3>1 DEF BodyOf
  <2> QED
    BY <2>2, <2>3
<1>7. /\ Len(span.text) \in Nat /\ Len(span.text) # 0 /\ IsSequence(span.text)
      /\ span.text[1][1] = span.page /\ Last(span.text)[1] = span.page
  <2>1. IsSequence(span.text) /\ Len(span.text) \in Nat /\ Len(span.text) # 0
    BY <1>4, RisesHas, SequenceHas
  <2>2. 1 \in 1 .. Len(span.text) /\ Len(span.text) \in 1 .. Len(span.text)
    BY <2>1
  <2>3. span.text[1] \in Range(span.text) /\ span.text[Len(span.text)] \in Range(span.text)
    BY <2>1, <2>2, SequenceHas
  <2> QED
    BY <2>1, <2>3 DEF Last
<1>8. IsSequence(built) /\ Len(built) \in Nat /\ (built = <<>> <=> Len(built) = 0)
  BY <1>1, SequenceHas DEF Reads
<1>9. CASE span.type \in {"header", "footer"}
  <2>1. after = before
    BY <1>9 DEF Read
  <2> QED
    BY <1>1, <1>6, <1>9, <2>1 DEF ReadTo, Margin
<1>10. CASE span.type \notin {"header", "footer"} /\ built # <<>> /\ Continues(Last(built), span)
  <2> DEFINE last == Last(built)
             passage == [last EXCEPT !.end = span.page, !.text = @ \o span.text]
             more == Append(Front(built), passage)
  <2>1. after = [built |-> more, section |-> section]
    BY <1>10 DEF Read
  <2>2. after.built = more /\ after.section = section
    BY <2>1
  <2>3. Len(built) \in 1 .. Len(built) /\ last = built[Len(built)]
    BY <1>8, <1>10 DEF Last
  <2>4. PassageOf(sections, last) /\ Rises(last.text) /\ last.text # <<>>
    BY <1>1, <2>3 DEF Reads
  <2>5. last.text = Last(built).text
    OBVIOUS
  <2> HIDE DEF last
  <2>6. /\ passage.text = last.text \o span.text /\ passage.end = span.page
        /\ passage.start = last.start /\ passage.section = last.section
        /\ DOMAIN passage = {"section", "type", "start", "end", "joinable", "text"}
    BY <2>4 DEF PassageOf
  <2> HIDE DEF passage, section, after
  <2>7. Reads(more) /\ Printed(more) = Printed(built) \cup Range(span.text)
    <3>1. passage.text = Last(built).text \o span.text /\ Reads(built) /\ built # <<>>
      BY <1>1, <1>10, <2>5, <2>6
    <3> DEFINE text == span.text
    <3>2. Rises(text) /\ text # <<>> /\ AllBefore(Printed(built), Range(text))
      BY <1>4, <1>5
    <3>3. passage.text = Last(built).text \o text
      BY <3>1
    <3> HIDE DEF text, built, span
    <3>4. Reads(Append(Front(built), passage))
      BY <3>1, <3>2, <3>3, ReadsOn
    <3>5. Printed(Append(Front(built), passage)) = Printed(built) \cup Range(text)
      BY <3>1, <3>2, <3>3, ReadsOn
    <3> QED
      BY <3>4, <3>5 DEF text
  <2>8. passage.text[1] = last.text[1] /\ Last(passage.text) = Last(span.text)
    <3>1. Rises(last.text) /\ last.text # <<>> /\ Rises(span.text) /\ span.text # <<>>
      BY <1>4, <2>4
    <3>2. (last.text \o span.text)[1] = last.text[1] /\ Last(last.text \o span.text) = Last(span.text)
      BY <3>1, TextGoesOn
    <3>3. passage.text = last.text \o span.text
      BY <2>6
    <3> QED
      BY <3>2, <3>3
  <2>10. PassageOf(sections, passage)
    BY <1>7, <2>4, <2>6, <2>8 DEF PassageOf
  <2>11. /\ Len(more) = Len(built) /\ more[Len(built)] = passage
         /\ \A k \in 1 .. Len(built) - 1 : more[k] = built[k]
    <3>1. built # <<>>
      BY <1>10
    <3> QED
      BY <1>8, <3>1, LastReplaced
  <2> HIDE DEF more
  <2>12. \A m \in 1 .. Len(more) : m = Len(built) \/ (m \in 1 .. Len(built) - 1 /\ m \in 1 .. Len(built))
    BY <1>8, <2>11
  <2>13. \A m \in 1 .. Len(more) : PassageOf(sections, more[m])
    BY <1>1, <2>10, <2>11, <2>12
  <2>14. Printed(more) = BodyOf(lines, n)
    BY <1>1, <1>6, <1>10, <2>7 DEF Margin
  <2>15. ReadTo(lines, n, sections, after)
    BY <1>2, <2>2, <2>7, <2>13, <2>14 DEF ReadTo, section
  <2> QED
    BY <2>15 DEF after
<1>11. CASE span.type \notin {"header", "footer"} /\ ~(built # <<>> /\ Continues(Last(built), span))
  <2> DEFINE passage == Opened(span, section)
             more == Append(built, passage)
  <2>1. after = [built |-> more, section |-> section]
    BY <1>11 DEF Read
  <2>2. after.built = more /\ after.section = section
    BY <2>1
  <2>3. /\ passage.text = span.text /\ passage.end = span.page
        /\ passage.start = span.page /\ passage.section = section
        /\ DOMAIN passage = {"section", "type", "start", "end", "joinable", "text"}
    BY DEF Opened
  <2> HIDE DEF passage, section, after
  <2>4. Reads(more) /\ Printed(more) = Printed(built) \cup Range(span.text)
    BY <1>1, <1>4, <1>5, <2>3, ReadsAppend
  <2>5. section \in KeysOf(sections)
    BY <1>2 DEF section
  <2>6. PassageOf(sections, passage)
    BY <1>7, <2>3, <2>5 DEF PassageOf
  <2>7. /\ Len(more) = Len(built) + 1 /\ more[Len(built) + 1] = passage
        /\ \A k \in 1 .. Len(built) : more[k] = built[k]
    BY <1>8, AppendIs
  <2> HIDE DEF more
  <2>8. \A m \in 1 .. Len(more) : m = Len(built) + 1 \/ m \in 1 .. Len(built)
    BY <1>8, <2>7
  <2>9. \A m \in 1 .. Len(more) : PassageOf(sections, more[m])
    BY <1>1, <2>6, <2>7, <2>8
  <2>10. Printed(more) = BodyOf(lines, n)
    BY <1>1, <1>6, <1>11, <2>4 DEF Margin
  <2>11. ReadTo(lines, n, sections, after)
    BY <2>2, <2>4, <2>5, <2>9, <2>10 DEF ReadTo
  <2> QED
    BY <2>11 DEF after
<1> QED
  BY <1>9, <1>10, <1>11

(* _passages_for_work: passages print the body of the work, in order.      *)
LEMMA PassagesAre ==
  ASSUME NEW pages \in Seq(Seq(Classes)), NEW work, NEW sections, NEW built,
         sections = _sections_for_work(Cleaned(pages), work),
         built = _passages_for_work(Cleaned(pages), work)
  PROVE  /\ Nested(sections) /\ Reads(built)
         /\ Printed(built) = {place \in Places(pages) : /\ place[1] \in work.start .. work.end
                                                        /\ Kind(pages, place[1], place[2]) \notin Margin}
         /\ \A m \in 1 .. Len(built) : PassageOf(sections, built[m])
<1> DEFINE spans == Cleaned(pages)
           lines == InWork(spans, work)
           N == Len(lines)
           A == work.start .. work.end
<1>1. LinesOf(pages, lines, A)
  BY InWorkIs
<1> HIDE DEF spans, A
<1>2. N \in Nat /\ Reads(lines)
  BY <1>1, SequenceHas DEF LinesOf, Reads
<1>3. Nested(sections)
  BY <1>2, SectionsAre DEF spans
<1>4. PICK run : /\ run[0] = [built |-> <<>>, section |-> Root]
                 /\ _passages_for_work(spans, work) = run[N].built
                 /\ \A n \in 1 .. N : run[n] = Read(sections, run[n - 1], lines[n])
  BY <1>2, ReadRuns DEF spans
<1>5. built = run[N].built
  BY <1>4 DEF spans
<1> HIDE DEF lines, N
<1> DEFINE X == {n \in 0 .. N : ReadTo(lines, n, sections, run[n])}
<1>6. 0 \in X
  <2>1. run[0].built = <<>> /\ run[0].section = Root
    BY <1>4
  <2>2. BodyOf(lines, 0) = {}
    BY DEF BodyOf
  <2>3. ReadTo(lines, 0, sections, run[0])
    <3>1. Root \in KeysOf(sections)
      BY <1>3 DEF Nested
    <3>2. 1 .. Len(<<>>) = {}
      BY EmptyIs
    <3> QED
      BY <2>1, <2>2, <3>1, <3>2, NothingReads DEF ReadTo
  <2> QED
    BY <1>2, <2>3
<1>7. ASSUME NEW n \in 1 .. N, n - 1 \in X PROVE n \in X
  <2>1. \A place \in Range(lines[n].text) : place[1] = lines[n].page
    BY <1>1 DEF LinesOf, LineOf, N
  <2>2. n \in 1 .. Len(lines) /\ n \in 0 .. N
    BY <1>2 DEF N
  <2>3. ReadTo(lines, n, sections, Read(sections, run[n - 1], lines[n]))
    BY <1>2, <1>3, <1>7, <2>1, <2>2, ReadKeeps
  <2> QED
    BY <1>4, <2>2, <2>3
<1> HIDE DEF X
<1>8. \A n \in 0 .. N : n \in X
  BY <1>2, <1>6, <1>7, Inductively
<1>9. N \in X
  BY <1>2, <1>8
<1>10. ReadTo(lines, N, sections, run[N])
  BY <1>9 DEF X
<1>11. BodyOf(lines, N) = {place \in Places(pages) : /\ place[1] \in A
                                                     /\ Kind(pages, place[1], place[2]) \notin Margin}
  <2>1. \A k \in 1 .. N : \A place \in Range(lines[k].text) :
          /\ place \in Places(pages) /\ place[1] \in A
          /\ Kind(pages, place[1], place[2]) = lines[k].type
    BY <1>1 DEF LinesOf, LineOf, Printed, N
  <2>2. \A place \in Places(pages) : place[1] \in A =>
          \E k \in 1 .. N : place \in Range(lines[k].text)
    BY <1>1, LinesHave DEF N
  <2> QED
    BY <2>1, <2>2 DEF BodyOf
<1> QED
  BY <1>3, <1>5, <1>10, <1>11 DEF ReadTo, A

-----------------------------------------------------------------------------
BodyPlaces(pages) ==
  {place \in Places(pages) : Kind(pages, place[1], place[2]) \notin {"header", "footer"}}

(* What is found in the pages of a volume: works one after the other that  *)
(* have all of the body, and of works from one page only the last has text.*)
Divided(pages, found) ==
  /\ IsSequence(found.works)
  /\ found.sections = [w \in 1 .. Len(found.works) |-> found.sections[w]]
  /\ found.passages = [w \in 1 .. Len(found.works) |-> found.passages[w]]
  /\ \A w \in 1 .. Len(found.works) :
       /\ Nested(found.sections[w]) /\ Reads(found.passages[w])
       /\ \A m \in 1 .. Len(found.passages[w]) : PassageOf(found.sections[w], found.passages[w][m])
       /\ found.works[w].start \in Nat
       /\ Printed(found.passages[w]) \subseteq BodyPlaces(pages)
  /\ \A w, x \in 1 .. Len(found.works) : w < x =>
       /\ AllBefore(Printed(found.passages[w]), Printed(found.passages[x]))
       /\ found.works[w].start <= found.works[x].start
       /\ found.works[w].start = found.works[x].start => found.passages[w] = <<>>
  /\ \A place \in BodyPlaces(pages) :
       \E w \in 1 .. Len(found.works) : place \in Printed(found.passages[w])
  /\ \A w, x \in 1 .. Len(found.works) : \A v :
       WorkKey(v, found.works[w]) = WorkKey(v, found.works[x]) =>
         found.works[w].start = found.works[x].start

(* Pieces that print nothing are none.                                     *)
LEMMA NothingPrinted ==
  ASSUME NEW pieces, Reads(pieces), Printed(pieces) = {}
  PROVE  pieces = <<>>
<1>1. IsSequence(pieces) /\ Len(pieces) \in Nat /\ (pieces = <<>> <=> Len(pieces) = 0)
  BY SequenceHas DEF Reads
<1>2. SUFFICES ASSUME Len(pieces) # 0 PROVE FALSE
  BY <1>1
<1>3. 1 \in 1 .. Len(pieces)
  BY <1>1, <1>2
<1>4. Rises(pieces[1].text) /\ pieces[1].text # <<>>
  BY <1>3 DEF Reads
<1>5. 1 \in 1 .. Len(pieces[1].text)
  BY <1>4, RisesHas, SequenceHas
<1>6. pieces[1].text[1] \in Range(pieces[1].text)
  BY <1>4, <1>5, RisesHas, SequenceHas
<1> QED
  BY <1>3, <1>6 DEF Printed

(* What is found in any pages divides their body.                          *)
LEMMA StructureIs ==
  ASSUME NEW pages \in Seq(Seq(Classes)), NEW found, found = Structure(pages)
  PROVE  Divided(pages, found)
<1> DEFINE spans == Cleaned(pages)
           works == _detect_works(spans)
           N == Len(works)
<1>1. PICK first \in Nat \ {0}, last \in Nat :
        /\ first <= last /\ Divides(works, first, last)
        /\ \A place \in Places(pages) : place[1] \in first .. last
  BY WorksAre
<1> HIDE DEF works
<1>2. IsSequence(works) /\ N \in Nat /\ DOMAIN works = 1 .. N
  BY <1>1, SequenceHas DEF Divides
<1>3. /\ found.works = works
      /\ found.sections = [w \in DOMAIN works |-> _sections_for_work(spans, works[w])]
      /\ found.passages = [w \in DOMAIN works |-> _passages_for_work(spans, works[w])]
  BY DEF Structure, works
<1>4. /\ found.sections = [w \in 1 .. N |-> found.sections[w]]
      /\ found.passages = [w \in 1 .. N |-> found.passages[w]]
      /\ \A w \in 1 .. N : /\ found.sections[w] = _sections_for_work(spans, works[w])
                           /\ found.passages[w] = _passages_for_work(spans, works[w])
  BY <1>2, <1>3
<1> DEFINE Within(w) == {place \in Places(pages) : /\ place[1] \in works[w].start .. works[w].end
                                                   /\ Kind(pages, place[1], place[2]) \notin Margin}
<1>5. ASSUME NEW w \in 1 .. N
      PROVE  /\ Nested(found.sections[w]) /\ Reads(found.passages[w])
             /\ Printed(found.passages[w]) = Within(w)
             /\ \A m \in 1 .. Len(found.passages[w]) : PassageOf(found.sections[w], found.passages[w][m])
  BY <1>4, PassagesAre
<1>6. \A place \in Places(pages) : place \in Nat \X Nat /\ place[1] \in Nat
  BY PagesHave
<1> HIDE DEF spans, N
<1>7. /\ \A w, x \in 1 .. N : w < x => works[w].end < works[x].start
      /\ \A w \in 1 .. N : works[w].start \in Nat /\ works[w].end \in Int
  BY <1>1, WorksApart DEF N
<1>8. ASSUME NEW w \in 1 .. N, NEW x \in 1 .. N, w < x
      PROVE  AllBefore(Printed(found.passages[w]), Printed(found.passages[x]))
  <2>1. works[w].end < works[x].start /\ works[w].start \in Nat /\ works[w].end \in Int
        /\ works[x].start \in Nat /\ works[x].end \in Int
    BY <1>7, <1>8
  <2>2. \A a \in Within(w), b \in Within(x) : a[1] < b[1]
    BY <1>6, <2>1
  <2>3. \A a \in Within(w), b \in Within(x) : PairBefore(a, b)
    BY <2>2 DEF PairBefore
  <2> QED
    BY <1>5, <2>3 DEF AllBefore
<1>9. \A w, x \in 1 .. N : w < x => works[w].start <= works[x].start
  BY <1>1 DEF Divides, N
<1>10. ASSUME NEW place \in BodyPlaces(pages)
       PROVE  \E w \in 1 .. N : place \in Printed(found.passages[w])
  <2>1. place \in Places(pages) /\ Kind(pages, place[1], place[2]) \notin Margin
    BY DEF BodyPlaces, Margin
  <2>2. place[1] \in first .. last
    BY <1>1, <2>1
  <2>3. PICK w \in 1 .. N : place[1] \in works[w].start .. works[w].end
    BY <1>1, <2>2, WorksCover DEF N
  <2>4. place \in Within(w)
    BY <2>1, <2>3
  <2> QED
    BY <1>5, <2>4
<1>11. ASSUME NEW w \in 1 .. N, NEW x \in 1 .. N, NEW v, WorkKey(v, works[w]) = WorkKey(v, works[x])
       PROVE  works[w].start = works[x].start
  <2>1. Divides(works, first, last)
    BY <1>1
  <2>2. StartByKey(works)
    BY <2>1, WorksStartByKey
  <2>3. w \in 1 .. Len(works) /\ x \in 1 .. Len(works)
    BY <1>11 DEF N
  <2> QED
    BY <1>11, <2>2, <2>3 DEF StartByKey
<1>12. ASSUME NEW w \in 1 .. N, NEW x \in 1 .. N, w < x, works[w].start = works[x].start
       PROVE  found.passages[w] = <<>>
  <2>1. works[w].start \in Nat /\ works[w].end \in Int /\ works[w].end < works[w].start
    BY <1>7, <1>12
  <2>2. Within(w) = {}
    BY <1>6, <2>1
  <2> HIDE DEF Within
  <2> QED
    BY <1>5, <2>2, NothingPrinted
<1>13. \A w \in 1 .. N : Printed(found.passages[w]) \subseteq BodyPlaces(pages)
  BY <1>5 DEF BodyPlaces, Margin
<1> HIDE DEF Within
<1>14. \A w \in 1 .. N :
         /\ Nested(found.sections[w]) /\ Reads(found.passages[w])
         /\ \A m \in 1 .. Len(found.passages[w]) : PassageOf(found.sections[w], found.passages[w][m])
  BY <1>5
<1> QED
  BY <1>2, <1>3, <1>4, <1>7, <1>8, <1>9, <1>10, <1>11, <1>13, <1>14, <1>12 DEF Divided, N

-----------------------------------------------------------------------------
KeepsAll(more, ids) ==
  DOMAIN ids \subseteq DOMAIN more /\ \A key \in DOMAIN ids : more[key] = ids[key]

(* Identifiers that stay the same.                                         *)
LEMMA ContinuesSelf == \A ids : KeepsAll(ids, ids)
BY DEF KeepsAll

(* Identifiers that are kept twice are kept.                               *)
LEMMA ContinuesOn ==
  ASSUME NEW most, NEW more, NEW ids, KeepsAll(most, more), KeepsAll(more, ids)
  PROVE  KeepsAll(most, ids)
BY DEF KeepsAll

(* Register gives new keys an identifier and leaves the others theirs.     *)
LEMMA RegisterContinues ==
  ASSUME NEW ids, NEW keys
  PROVE  KeepsAll(Register(ids, keys), ids)
BY DEF Register, KeepsAll

-----------------------------------------------------------------------------
(* The rows of a volume, given what is found in its pages.                 *)
WorksOf(v, found, ids) == {WorkRow(v, found.works[w], ids) : w \in 1 .. Len(found.works)}

SectionsOf(v, found, ids) ==
  UNION {{SectionRow(WorkId(v, found.works[w], ids), found.sections[w][i], ids) :
            i \in 1 .. Len(found.sections[w])} : w \in 1 .. Len(found.works)}

PassageId(v, found, w, i, ids) ==
  Id(ids, PassageKey(WorkId(v, found.works[w], ids), found.passages[w], i))

PassageAt(v, found, w, i, ids) ==
  LET built == found.passages[w]
  IN [id |-> PassageId(v, found, w, i, ids), volume |-> v,
      section |-> Id(ids, SectionKey(WorkId(v, found.works[w], ids), built[i].section)),
      text |-> built[i].text, start |-> built[i].start, end |-> built[i].end,
      prev |-> IF i = 1 THEN NoId ELSE PassageId(v, found, w, i - 1, ids),
      next |-> IF i = Len(built) THEN NoId ELSE PassageId(v, found, w, i + 1, ids)]

PassagesOf(v, found, ids) ==
  UNION {{PassageAt(v, found, w, i, ids) : i \in 1 .. Len(found.passages[w])} :
           w \in 1 .. Len(found.works)}

PageAt(v, p, ids) == [id |-> Id(ids, PageKey(v, p)), volume |-> v, page |-> p]
PagesOf(v, pages, ids) == {PageAt(v, p, ids) : p \in 1 .. Len(pages)}

LinkTo(row, p, ids) == [passage |-> row.id, page |-> Id(ids, PageKey(row.volume, p))]
LinksFrom(rows, ids) == UNION {{LinkTo(row, p, ids) : p \in row.start .. row.end} : row \in rows}

(* All keys of the volume have identifiers.                                *)
Known(v, pages, found, ids) ==
  /\ \A p \in 1 .. Len(pages) : PageKey(v, p) \in DOMAIN ids
  /\ \A w \in 1 .. Len(found.works) :
       /\ WorkKey(v, found.works[w]) \in DOMAIN ids
       /\ \A i \in 1 .. Len(found.sections[w]) :
            SectionKey(WorkId(v, found.works[w], ids), found.sections[w][i].key) \in DOMAIN ids
       /\ \A i \in 1 .. Len(found.passages[w]) :
            PassageKey(WorkId(v, found.works[w], ids), found.passages[w], i) \in DOMAIN ids

PrintedOn(text) == {place[1] : place \in Range(text)}

(* The pages a passage says it is printed on are those of its text.        *)
LEMMA PassagePages ==
  ASSUME NEW pages \in Seq(Seq(Classes)), NEW found, Divided(pages, found),
         NEW w \in 1 .. Len(found.works), NEW i \in 1 .. Len(found.passages[w]),
         NEW passage, passage = found.passages[w][i]
  PROVE  /\ passage.start \in 1 .. Len(pages) /\ passage.end \in 1 .. Len(pages)
         /\ passage.start <= passage.end
         /\ passage.start \in PrintedOn(passage.text) /\ passage.end \in PrintedOn(passage.text)
         /\ PrintedOn(passage.text) \subseteq passage.start .. passage.end
         /\ passage.section \in KeysOf(found.sections[w])
         /\ Rises(passage.text) /\ passage.text # <<>>
<1> DEFINE built == found.passages[w]
           text == passage.text
           n == Len(text)
<1>1. Reads(built) /\ PassageOf(found.sections[w], passage) /\ Printed(built) \subseteq BodyPlaces(pages)
  BY DEF Divided
<1>2. Rises(text) /\ text # <<>>
  BY <1>1 DEF Reads
<1>3. Range(text) \subseteq Printed(built)
  BY DEF Printed
<1>4. \A place \in Range(text) : place[1] \in 1 .. Len(pages) /\ place \in Nat \X Nat
  BY <1>1, <1>3, PagesHave DEF BodyPlaces
<1> HIDE DEF built, text
<1>5. IsSequence(text) /\ n \in Nat /\ n # 0
  BY <1>2, RisesHas, SequenceHas
<1>6. 1 \in 1 .. n /\ n \in 1 .. n /\ \A k \in 1 .. n : (k = 1 \/ 1 < k) /\ (k = n \/ k < n)
  BY <1>5
<1>7. \A k \in 1 .. n : text[k] \in Range(text)
  BY <1>5, SequenceHas
<1>8. \A j, k \in 1 .. n : j < k => text[j][1] <= text[k][1]
  <2> TAKE j, k \in 1 .. n
  <2> HAVE j < k
  <2>1. PairBefore(text[j], text[k]) /\ text[j] \in Nat \X Nat /\ text[k] \in Nat \X Nat
    BY <1>2, <1>4, <1>7 DEF Rises
  <2> QED
    BY <2>1, PairOrder
<1>9. passage.start = text[1][1] /\ passage.end = text[n][1] /\ passage.section \in KeysOf(found.sections[w])
  BY <1>1 DEF PassageOf, Last, text
<1>10. passage.start \in 1 .. Len(pages) /\ passage.end \in 1 .. Len(pages)
  BY <1>4, <1>6, <1>7, <1>9
<1>11. \A k \in 1 .. n : text[k][1] \in passage.start .. passage.end
  <2> TAKE k \in 1 .. n
  <2>1. text[1][1] <= text[k][1] /\ text[k][1] <= text[n][1]
    <3>1. text[k][1] \in Nat
      BY <1>4, <1>7
    <3> QED
      BY <1>6, <1>8, <3>1
  <2>2. text[k][1] \in 1 .. Len(pages)
    BY <1>4, <1>7
  <2> QED
    BY <1>9, <1>10, <2>1, <2>2
<1>12. passage.start <= passage.end
  <2>1. text[n][1] \in passage.start .. passage.end
    BY <1>6, <1>11
  <2> QED
    BY <1>9, <1>10, <2>1
<1>13. \A place \in Range(text) : \E k \in 1 .. n : text[k] = place
  BY <1>5, SequenceHas
<1>14. passage.start \in PrintedOn(text) /\ passage.end \in PrintedOn(text)
  BY <1>6, <1>7, <1>9 DEF PrintedOn
<1>15. PrintedOn(text) \subseteq passage.start .. passage.end
  <2>1. \A place \in Range(text) : place[1] \in passage.start .. passage.end
    BY <1>11, <1>13
  <2> QED
    BY <2>1 DEF PrintedOn
<1> QED
  BY <1>2, <1>9, <1>10, <1>12, <1>14, <1>15 DEF text

(* Identifiers that are kept are the same in a greater registry.           *)
LEMMA SameId ==
  ASSUME NEW more, NEW ids, KeepsAll(more, ids), NEW key \in DOMAIN ids
  PROVE  Id(more, key) = Id(ids, key) /\ key \in DOMAIN more
BY DEF KeepsAll, Id

(* New identifiers leave the rows of a volume that has all of its own.     *)
LEMMA SameRows ==
  ASSUME NEW pages \in Seq(Seq(Classes)), NEW found, Divided(pages, found),
         NEW v, NEW ids, Known(v, pages, found, ids), NEW more, KeepsAll(more, ids)
  PROVE  /\ Known(v, pages, found, more)
         /\ WorksOf(v, found, more) = WorksOf(v, found, ids)
         /\ SectionsOf(v, found, more) = SectionsOf(v, found, ids)
         /\ PassagesOf(v, found, more) = PassagesOf(v, found, ids)
         /\ PagesOf(v, pages, more) = PagesOf(v, pages, ids)
         /\ LinksFrom(PassagesOf(v, found, more), more) = LinksFrom(PassagesOf(v, found, ids), ids)
<1> DEFINE N == Len(found.works)
           work(w) == WorkId(v, found.works[w], ids)
<1>1. \A w \in 1 .. N : WorkId(v, found.works[w], more) = work(w)
  BY SameId DEF Known, WorkId
<1>2. \A w \in 1 .. N : WorkRow(v, found.works[w], more) = WorkRow(v, found.works[w], ids)
  BY <1>1 DEF WorkRow
<1>3. \A w \in 1 .. N : \A i \in 1 .. Len(found.sections[w]) :
        LET key == SectionKey(work(w), found.sections[w][i].key)
        IN Id(more, key) = Id(ids, key) /\ key \in DOMAIN more
  BY SameId DEF Known
<1>4. \A w \in 1 .. N : \A key \in KeysOf(found.sections[w]) :
        Id(more, SectionKey(work(w), key)) = Id(ids, SectionKey(work(w), key))
  BY <1>3 DEF KeysOf
<1>5. \A w \in 1 .. N : \A i \in 1 .. Len(found.passages[w]) :
        LET key == PassageKey(work(w), found.passages[w], i)
        IN Id(more, key) = Id(ids, key) /\ key \in DOMAIN more
  BY SameId DEF Known
<1>6. \A p \in 1 .. Len(pages) : Id(more, PageKey(v, p)) = Id(ids, PageKey(v, p)) /\ PageKey(v, p) \in DOMAIN more
  BY SameId DEF Known
<1>7. \A w \in 1 .. N : WorkKey(v, found.works[w]) \in DOMAIN more
  BY SameId DEF Known
<1>8. Known(v, pages, found, more)
  BY <1>1, <1>3, <1>5, <1>6, <1>7 DEF Known
<1>9. WorksOf(v, found, more) = WorksOf(v, found, ids)
  BY <1>2 DEF WorksOf
<1>10. \A w \in 1 .. N : \A i \in 1 .. Len(found.sections[w]) :
         SectionRow(WorkId(v, found.works[w], more), found.sections[w][i], more)
           = SectionRow(work(w), found.sections[w][i], ids)
  <2> TAKE w \in 1 .. N
  <2> TAKE i \in 1 .. Len(found.sections[w])
  <2>1. found.sections[w][i].parent \in {<<>>} \cup KeysOf(found.sections[w])
    BY DEF Divided, Nested
  <2> HIDE DEF work
  <2> QED
    BY <1>1, <1>3, <1>4, <2>1 DEF SectionRow
<1>11. SectionsOf(v, found, more) = SectionsOf(v, found, ids)
  BY <1>10 DEF SectionsOf
<1>12. \A w \in 1 .. N : \A i \in 1 .. Len(found.passages[w]) :
         PassageId(v, found, w, i, more) = PassageId(v, found, w, i, ids)
  BY <1>1, <1>5 DEF PassageId
<1>13. \A w \in 1 .. N : \A i \in 1 .. Len(found.passages[w]) :
         PassageAt(v, found, w, i, more) = PassageAt(v, found, w, i, ids)
  <2> TAKE w \in 1 .. N
  <2> TAKE i \in 1 .. Len(found.passages[w])
  <2>1. found.passages[w][i].section \in KeysOf(found.sections[w])
    BY PassagePages
  <2>2. Id(more, SectionKey(WorkId(v, found.works[w], more), found.passages[w][i].section))
          = Id(ids, SectionKey(work(w), found.passages[w][i].section))
    BY <1>1, <1>4, <2>1
  <2>3. Len(found.passages[w]) \in Nat
    BY SequenceHas DEF Divided, Reads
  <2>4. /\ i # 1 => i - 1 \in 1 .. Len(found.passages[w])
        /\ i # Len(found.passages[w]) => i + 1 \in 1 .. Len(found.passages[w])
    BY <2>3
  <2> QED
    BY <1>12, <2>2, <2>4 DEF PassageAt
<1>14. PassagesOf(v, found, more) = PassagesOf(v, found, ids)
  BY <1>13 DEF PassagesOf
<1>15. PagesOf(v, pages, more) = PagesOf(v, pages, ids)
  BY <1>6 DEF PagesOf, PageAt
<1>16. \A row \in PassagesOf(v, found, ids) : \A p \in row.start .. row.end : LinkTo(row, p, more) = LinkTo(row, p, ids)
  <2> TAKE row \in PassagesOf(v, found, ids)
  <2> TAKE p \in row.start .. row.end
  <2>1. PICK w \in 1 .. N : \E i \in 1 .. Len(found.passages[w]) : row = PassageAt(v, found, w, i, ids)
    BY DEF PassagesOf
  <2>2. PICK i \in 1 .. Len(found.passages[w]) : row = PassageAt(v, found, w, i, ids)
    BY <2>1
  <2>3. row.volume = v /\ row.start = found.passages[w][i].start /\ row.end = found.passages[w][i].end
    BY <2>2 DEF PassageAt
  <2>4. row.start \in 1 .. Len(pages) /\ row.end \in 1 .. Len(pages)
    <3>1. /\ found.passages[w][i].start \in 1 .. Len(pages)
          /\ found.passages[w][i].end \in 1 .. Len(pages)
      BY PassagePages
    <3> QED
      BY <2>3, <3>1, Zenon
  <2>5. p \in 1 .. Len(pages)
    BY <2>4, PagesHave
  <2> QED
    BY <1>6, <2>3, <2>5 DEF LinkTo
<1>17. LinksFrom(PassagesOf(v, found, more), more) = LinksFrom(PassagesOf(v, found, ids), ids)
  BY <1>14, <1>16 DEF LinksFrom
<1> QED
  BY <1>8, <1>9, <1>11, <1>14, <1>15, <1>17

-----------------------------------------------------------------------------
RowsAre(rows, A) == IsSequence(rows) /\ Range(rows) = A

(* A row for every member.                                                 *)
LEMMA EachIs ==
  ASSUME NEW n \in Nat, NEW s, DOMAIN s = 1 .. n, s = [i \in 1 .. n |-> s[i]]
  PROVE  RowsAre(s, {s[i] : i \in 1 .. n})
<1>1. IsSequence(s) /\ Len(s) = n
  BY FunctionIsSequence
<1>2. \A x : x \in Range(s) <=> \E k \in 1 .. n : s[k] = x
  BY <1>1, SequenceHas
<1> QED
  BY <1>1, <1>2 DEF RowsAre

(* Sequences of rows, one after the other.                                 *)
LEMMA JoinedEach ==
  ASSUME NEW n \in Nat, NEW seqs, DOMAIN seqs = 1 .. n, seqs = [w \in 1 .. n |-> seqs[w]],
         \A w \in 1 .. n : IsSequence(seqs[w])
  PROVE  RowsAre(Joined(seqs), UNION {Range(seqs[w]) : w \in 1 .. n})
<1>1. IsSequence(seqs) /\ Len(seqs) = n
  BY FunctionIsSequence
<1>2. /\ IsSequence(Joined(seqs))
      /\ \A x : x \in Range(Joined(seqs)) <=> \E w \in 1 .. n : x \in Range(seqs[w])
  BY <1>1, JoinedHas
<1> QED
  BY <1>2 DEF RowsAre

(* recognize_structure gives the rows of the volume.                       *)
LEMMA RecogniseIs ==
  ASSUME NEW pages, NEW found, Divided(pages, found), NEW v, NEW ids,
         NEW r, r = recognize_structure(v, found, ids)
  PROVE  /\ RowsAre(r.works, WorksOf(v, found, ids))
         /\ RowsAre(r.sections, SectionsOf(v, found, ids))
         /\ RowsAre(r.passages, PassagesOf(v, found, ids))
<1> DEFINE works == found.works
           N == Len(works)
           work(w) == WorkId(v, works[w], ids)
           sections(w) == found.sections[w]
           built(w) == found.passages[w]
           rows(w) == [i \in DOMAIN sections(w) |-> SectionRow(work(w), sections(w)[i], ids)]
           drafts(w) == [i \in DOMAIN built(w) |-> PassageRow(v, work(w), built(w), i, ids)]
           linked(w) == _link_prev_next(drafts(w))
<1>1. N \in Nat /\ DOMAIN works = 1 .. N
  BY SequenceHas DEF Divided
<1>2. /\ r.works = [w \in DOMAIN works |-> WorkRow(v, works[w], ids)]
      /\ r.sections = Joined([w \in DOMAIN works |-> rows(w)])
      /\ r.passages = Joined([w \in DOMAIN works |-> linked(w)])
  BY DEF recognize_structure
<1>3. \A w \in 1 .. N :
        /\ Len(sections(w)) \in Nat /\ DOMAIN sections(w) = 1 .. Len(sections(w))
        /\ Len(built(w)) \in Nat /\ DOMAIN built(w) = 1 .. Len(built(w))
  BY SequenceHas DEF Divided, Nested, Reads
<1>4. ASSUME NEW w \in 1 .. N
      PROVE  RowsAre(rows(w), {SectionRow(work(w), sections(w)[i], ids) : i \in 1 .. Len(sections(w))})
  <2> DEFINE n == Len(sections(w))
             row(i) == SectionRow(work(w), sections(w)[i], ids)
  <2>1. n \in Nat /\ DOMAIN sections(w) = 1 .. n
    BY <1>3
  <2> HIDE DEF n, row
  <2>2. rows(w) = [i \in 1 .. n |-> row(i)]
    BY <2>1 DEF row
  <2>3. RowsAre([i \in 1 .. n |-> row(i)], {row(i) : i \in 1 .. n})
    <3> DEFINE s == [i \in 1 .. n |-> row(i)]
    <3>1. DOMAIN s = 1 .. n /\ s = [i \in 1 .. n |-> s[i]] /\ \A i \in 1 .. n : s[i] = row(i)
      OBVIOUS
    <3> HIDE DEF s
    <3>2. RowsAre(s, {s[i] : i \in 1 .. n})
      BY <2>1, <3>1, EachIs
    <3>3. {s[i] : i \in 1 .. n} = {row(i) : i \in 1 .. n}
      BY <3>1
    <3> QED
      BY <3>2, <3>3 DEF s
  <2> QED
    BY <2>2, <2>3 DEF row, n
<1>5. ASSUME NEW w \in 1 .. N
      PROVE  RowsAre(linked(w), {PassageAt(v, found, w, i, ids) : i \in 1 .. Len(built(w))})
  <2> DEFINE n == Len(built(w))
             row(i) == PassageRow(v, work(w), built(w), i, ids)
             at(i) == PassageAt(v, found, w, i, ids)
  <2>1. n \in Nat /\ DOMAIN built(w) = 1 .. n
    BY <1>3
  <2>2. \A i \in 1 .. n : row(i).id = PassageId(v, found, w, i, ids)
    BY DEF PassageRow, PassageId
  <2>3. \A i \in 1 .. n :
          at(i) = [row(i) EXCEPT !.prev = IF i = 1 THEN NoId ELSE PassageId(v, found, w, i - 1, ids),
                                 !.next = IF i = n THEN NoId ELSE PassageId(v, found, w, i + 1, ids)]
    <3> TAKE i \in 1 .. n
    <3> DEFINE id == PassageId(v, found, w, i, ids)
               section == Id(ids, SectionKey(work(w), built(w)[i].section))
               text == built(w)[i].text
               start == built(w)[i].start
               end == built(w)[i].end
               p == IF i = 1 THEN NoId ELSE PassageId(v, found, w, i - 1, ids)
               q == IF i = n THEN NoId ELSE PassageId(v, found, w, i + 1, ids)
    <3>1. row(i) = [id |-> id, volume |-> v, section |-> section, text |-> text,
                    start |-> start, end |-> end, prev |-> NoId, next |-> NoId]
      BY DEF PassageRow, PassageId
    <3>2. at(i) = [id |-> id, volume |-> v, section |-> section, text |-> text,
                   start |-> start, end |-> end, prev |-> p, next |-> q]
      BY DEF PassageAt
    <3> HIDE DEF id, section, text, start, end, p, q, row, at
    <3>3. at(i) = [row(i) EXCEPT !.prev = p, !.next = q]
      <4> DEFINE D == {"id", "volume", "section", "text", "start", "end", "prev", "next"}
                 linkedRow == [row(i) EXCEPT !.prev = p, !.next = q]
      <4>1. DOMAIN row(i) = D /\ row(i).id = id /\ row(i).volume = v /\ row(i).section = section
            /\ row(i).text = text /\ row(i).start = start /\ row(i).end = end
        BY <3>1
      <4>2. /\ linkedRow = [x \in D |-> linkedRow[x]]
            /\ linkedRow.id = id /\ linkedRow.volume = v /\ linkedRow.section = section
            /\ linkedRow.text = text /\ linkedRow.start = start /\ linkedRow.end = end
            /\ linkedRow.prev = p /\ linkedRow.next = q
        BY <4>1
      <4> HIDE DEF linkedRow
      <4>3. at(i) = linkedRow
        BY <3>2, <4>2
      <4> QED
        BY <4>3 DEF linkedRow
    <3> QED
      BY <3>3 DEF p, q
  <2> HIDE DEF n, row, at
  <2>4. drafts(w) = [i \in 1 .. n |-> row(i)]
    BY <2>1 DEF row
  <2>5. Len([i \in 1 .. n |-> row(i)]) = n
    <3> DEFINE s == [i \in 1 .. n |-> row(i)]
    <3>1. DOMAIN s = 1 .. n /\ s = [i \in 1 .. n |-> s[i]]
      OBVIOUS
    <3> HIDE DEF s
    <3>2. Len(s) = n
      BY <2>1, <3>1, FunctionIsSequence
    <3> QED
      BY <3>2 DEF s
  <2>6. \A i \in 1 .. n : /\ i # 1 => i - 1 \in 1 .. n
                          /\ i # n => i + 1 \in 1 .. n
    BY <2>1
  <2>7. ASSUME NEW s, DOMAIN s = 1 .. n, \A i \in 1 .. n : s[i] = row(i), Len(s) = n
        PROVE  _link_prev_next(s) = [i \in 1 .. n |-> at(i)]
    <3>1. \A i \in 1 .. n :
            [s[i] EXCEPT !.prev = IF i = 1 THEN NoId ELSE s[i - 1].id,
                         !.next = IF i = Len(s) THEN NoId ELSE s[i + 1].id] = at(i)
      <4> TAKE i \in 1 .. n
      <4>1. s[i] = row(i)
        BY <2>7
      <4>2. (IF i = 1 THEN NoId ELSE s[i - 1].id) = (IF i = 1 THEN NoId ELSE PassageId(v, found, w, i - 1, ids))
        BY <2>2, <2>6, <2>7
      <4>3. (IF i = Len(s) THEN NoId ELSE s[i + 1].id) = (IF i = n THEN NoId ELSE PassageId(v, found, w, i + 1, ids))
        BY <2>2, <2>6, <2>7
      <4> QED
        BY <2>3, <4>1, <4>2, <4>3
    <3> QED
      BY <2>7, <3>1 DEF _link_prev_next
  <2>8. linked(w) = [i \in 1 .. n |-> at(i)]
    <3> DEFINE s == [i \in 1 .. n |-> row(i)]
    <3>1. DOMAIN s = 1 .. n /\ \A i \in 1 .. n : s[i] = row(i)
      OBVIOUS
    <3>2. Len(s) = n /\ drafts(w) = s
      BY <2>4, <2>5
    <3> HIDE DEF s, drafts
    <3>3. _link_prev_next(s) = [i \in 1 .. n |-> at(i)]
      BY <2>7, <3>1, <3>2
    <3> QED
      BY <3>2, <3>3
  <2>9. RowsAre([i \in 1 .. n |-> at(i)], {at(i) : i \in 1 .. n})
    <3> DEFINE s == [i \in 1 .. n |-> at(i)]
    <3>1. DOMAIN s = 1 .. n /\ s = [i \in 1 .. n |-> s[i]] /\ \A i \in 1 .. n : s[i] = at(i)
      OBVIOUS
    <3> HIDE DEF s
    <3>2. RowsAre(s, {s[i] : i \in 1 .. n})
      BY <2>1, <3>1, EachIs
    <3>3. {s[i] : i \in 1 .. n} = {at(i) : i \in 1 .. n}
      BY <3>1
    <3> QED
      BY <3>2, <3>3 DEF s
  <2> HIDE DEF linked
  <2> QED
    BY <2>8, <2>9 DEF at, n
<1>6. RowsAre(r.works, WorksOf(v, found, ids))
  <2>1. /\ DOMAIN r.works = 1 .. N /\ r.works = [w \in 1 .. N |-> r.works[w]]
        /\ \A w \in 1 .. N : r.works[w] = WorkRow(v, works[w], ids)
    BY <1>1, <1>2
  <2>2. RowsAre(r.works, {r.works[w] : w \in 1 .. N})
    BY <1>1, <2>1, EachIs
  <2>3. {r.works[w] : w \in 1 .. N} = WorksOf(v, found, ids)
    <3>1. WorksOf(v, found, ids) = {WorkRow(v, works[w], ids) : w \in 1 .. N}
      BY DEF WorksOf
    <3> HIDE DEF works, N
    <3> QED
      BY <2>1, <3>1
  <2> QED
    BY <2>2, <2>3
<1>7. RowsAre(r.sections, SectionsOf(v, found, ids))
  <2> DEFINE seqs == [w \in DOMAIN works |-> rows(w)]
  <2>1. /\ DOMAIN seqs = 1 .. N /\ seqs = [w \in 1 .. N |-> seqs[w]]
        /\ \A w \in 1 .. N : seqs[w] = rows(w)
    BY <1>1
  <2>2. r.sections = Joined(seqs)
    BY <1>2
  <2> HIDE DEF seqs, rows
  <2>3. \A w \in 1 .. N : IsSequence(seqs[w])
    BY <1>4, <2>1 DEF RowsAre
  <2>4. \A w \in 1 .. N : Range(seqs[w]) = {SectionRow(work(w), sections(w)[i], ids) : i \in 1 .. Len(sections(w))}
    BY <1>4, <2>1 DEF RowsAre
  <2>5. RowsAre(Joined(seqs), UNION {Range(seqs[w]) : w \in 1 .. N})
    BY <1>1, <2>1, <2>3, JoinedEach
  <2>6. UNION {Range(seqs[w]) : w \in 1 .. N} = SectionsOf(v, found, ids)
    <3> DEFINE part(w) == {SectionRow(work(w), sections(w)[i], ids) : i \in 1 .. Len(sections(w))}
    <3>1. SectionsOf(v, found, ids) = UNION {part(w) : w \in 1 .. N}
      BY DEF SectionsOf
    <3>2. \A w \in 1 .. N : Range(seqs[w]) = part(w)
      BY <2>4
    <3> HIDE DEF works, N, part
    <3> QED
      BY <3>1, <3>2
  <2> QED
    BY <2>2, <2>5, <2>6
<1>8. RowsAre(r.passages, PassagesOf(v, found, ids))
  <2> DEFINE seqs == [w \in DOMAIN works |-> linked(w)]
  <2>1. /\ DOMAIN seqs = 1 .. N /\ seqs = [w \in 1 .. N |-> seqs[w]]
        /\ \A w \in 1 .. N : seqs[w] = linked(w)
    BY <1>1
  <2>2. r.passages = Joined(seqs)
    BY <1>2
  <2> HIDE DEF seqs, linked
  <2>3. \A w \in 1 .. N : IsSequence(seqs[w])
    BY <1>5, <2>1 DEF RowsAre
  <2>4. \A w \in 1 .. N : Range(seqs[w]) = {PassageAt(v, found, w, i, ids) : i \in 1 .. Len(built(w))}
    BY <1>5, <2>1 DEF RowsAre
  <2>5. RowsAre(Joined(seqs), UNION {Range(seqs[w]) : w \in 1 .. N})
    BY <1>1, <2>1, <2>3, JoinedEach
  <2>6. UNION {Range(seqs[w]) : w \in 1 .. N} = PassagesOf(v, found, ids)
    <3> DEFINE part(w) == {PassageAt(v, found, w, i, ids) : i \in 1 .. Len(built(w))}
    <3>1. PassagesOf(v, found, ids) = UNION {part(w) : w \in 1 .. N}
      BY DEF PassagesOf
    <3>2. \A w \in 1 .. N : Range(seqs[w]) = part(w)
      BY <2>4
    <3> HIDE DEF works, N, part
    <3> QED
      BY <3>1, <3>2
  <2> QED
    BY <2>2, <2>5, <2>6
<1> QED
  BY <1>6, <1>7, <1>8

-----------------------------------------------------------------------------
(* build_page_maps gives a row to every page.                              *)
LEMMA PageMapsAre ==
  ASSUME NEW v, content[v] \in Seq(Seq(Classes)), NEW ids
  PROVE  RowsAre(build_page_maps(v, ids), PagesOf(v, content[v], ids))
<1> DEFINE rows == build_page_maps(v, ids)
           n == Len(content[v])
<1>1. n \in Nat /\ DOMAIN content[v] = 1 .. n
  BY PagesHave
<1>2. rows = [p \in 1 .. n |-> PageAt(v, p, ids)]
  BY <1>1 DEF build_page_maps, PageAt
<1>3. DOMAIN rows = 1 .. n /\ rows = [p \in 1 .. n |-> rows[p]] /\ \A p \in 1 .. n : rows[p] = PageAt(v, p, ids)
  BY <1>2
<1> HIDE DEF rows
<1>4. RowsAre(rows, {rows[p] : p \in 1 .. n})
  BY <1>1, <1>3, EachIs
<1>5. {rows[p] : p \in 1 .. n} = PagesOf(v, content[v], ids)
  BY <1>3 DEF PagesOf
<1> QED
  BY <1>4, <1>5 DEF rows

(* build_passage_pages links a passage to its pages, first to last.        *)
LEMMA PassageLinksAre ==
  ASSUME NEW passages, IsSequence(passages), NEW ids,
         \A i \in 1 .. Len(passages) :
           /\ passages[i].start \in Nat /\ passages[i].end \in Nat
           /\ passages[i].start <= passages[i].end
  PROVE  RowsAre(build_passage_pages(passages, ids), LinksFrom(Range(passages), ids))
<1> DEFINE N == Len(passages)
           size(i) == passages[i].end - passages[i].start + 1
           link(i, n) == LinkTo(passages[i], passages[i].start + n - 1, ids)
           part(i) == [n \in 1 .. size(i) |-> link(i, n)]
           seqs == [i \in 1 .. N |-> part(i)]
<1>1. N \in Nat /\ DOMAIN passages = 1 .. N
  BY SequenceHas
<1>2. build_passage_pages(passages, ids) = Joined(seqs)
  BY <1>1 DEF build_passage_pages, LinkTo
<1>3. ASSUME NEW i \in 1 .. N
      PROVE  RowsAre(part(i), {LinkTo(passages[i], p, ids) : p \in passages[i].start .. passages[i].end})
  <2> DEFINE row == passages[i]
             s == part(i)
  <2>1. row.start \in Nat /\ row.end \in Nat /\ row.start <= row.end
    OBVIOUS
  <2>2. /\ DOMAIN s = 1 .. size(i) /\ s = [n \in 1 .. size(i) |-> s[n]]
        /\ \A n \in 1 .. size(i) : s[n] = LinkTo(row, row.start + n - 1, ids)
    OBVIOUS
  <2>3. size(i) = row.end - row.start + 1
    OBVIOUS
  <2> HIDE DEF row, s, size
  <2>4. size(i) \in Nat
    BY <2>1, <2>3
  <2>5. RowsAre(s, {s[n] : n \in 1 .. size(i)})
    BY <2>2, <2>4, EachIs
  <2>6. \A n \in 1 .. size(i) : row.start + n - 1 \in row.start .. row.end
    BY <2>1, <2>3
  <2>7. \A p \in row.start .. row.end : p - row.start + 1 \in 1 .. size(i) /\ row.start + (p - row.start + 1) - 1 = p
    BY <2>1, <2>3
  <2>8. {s[n] : n \in 1 .. size(i)} = {LinkTo(row, p, ids) : p \in row.start .. row.end}
    <3>1. ASSUME NEW n \in 1 .. size(i) PROVE s[n] \in {LinkTo(row, p, ids) : p \in row.start .. row.end}
      BY <2>2, <2>6
    <3>2. ASSUME NEW p \in row.start .. row.end PROVE LinkTo(row, p, ids) \in {s[n] : n \in 1 .. size(i)}
      <4>1. s[p - row.start + 1] = LinkTo(row, p, ids) /\ p - row.start + 1 \in 1 .. size(i)
        BY <2>2, <2>7
      <4> QED
        BY <4>1
    <3> QED
      BY <3>1, <3>2
  <2> QED
    BY <2>5, <2>8 DEF s, row
<1>4. /\ DOMAIN seqs = 1 .. N /\ seqs = [i \in 1 .. N |-> seqs[i]]
      /\ \A i \in 1 .. N : seqs[i] = part(i)
  OBVIOUS
<1> HIDE DEF seqs, part
<1>5. \A i \in 1 .. N : IsSequence(seqs[i])
  BY <1>3, <1>4 DEF RowsAre
<1>6. \A i \in 1 .. N : Range(seqs[i]) = {LinkTo(passages[i], p, ids) : p \in passages[i].start .. passages[i].end}
  BY <1>3, <1>4 DEF RowsAre
<1>7. RowsAre(Joined(seqs), UNION {Range(seqs[i]) : i \in 1 .. N})
  BY <1>1, <1>4, <1>5, JoinedEach
<1>8. UNION {Range(seqs[i]) : i \in 1 .. N} = LinksFrom(Range(passages), ids)
  <2> DEFINE links(row) == {LinkTo(row, p, ids) : p \in row.start .. row.end}
  <2>1. LinksFrom(Range(passages), ids) = UNION {links(row) : row \in Range(passages)}
    BY DEF LinksFrom
  <2>2. \A i \in 1 .. N : Range(seqs[i]) = links(passages[i])
    BY <1>6
  <2>3. \A row : row \in Range(passages) <=> \E i \in 1 .. N : passages[i] = row
    BY SequenceHas
  <2> HIDE DEF links, N
  <2> QED
    BY <2>1, <2>2, <2>3
<1> QED
  BY <1>2, <1>7, <1>8

(* A passage has a first and a last page.                                  *)
LEMMA PassageSpan ==
  ASSUME NEW pages \in Seq(Seq(Classes)), NEW found, Divided(pages, found), NEW v, NEW ids,
         NEW row \in PassagesOf(v, found, ids)
  PROVE  row.start \in Nat /\ row.end \in Nat /\ row.start <= row.end
<1>1. PICK w \in 1 .. Len(found.works) : \E i \in 1 .. Len(found.passages[w]) : row = PassageAt(v, found, w, i, ids)
  BY DEF PassagesOf
<1>2. PICK i \in 1 .. Len(found.passages[w]) : row = PassageAt(v, found, w, i, ids)
  BY <1>1
<1>3. row.start = found.passages[w][i].start /\ row.end = found.passages[w][i].end
  BY <1>2 DEF PassageAt
<1>4. Len(pages) \in Nat
  BY PagesHave
<1>5. ASSUME NEW passage, passage = found.passages[w][i]
      PROVE  passage.start \in Nat /\ passage.end \in Nat /\ passage.start <= passage.end
  <2>1. /\ passage.start \in 1 .. Len(pages) /\ passage.end \in 1 .. Len(pages)
        /\ passage.start <= passage.end
    BY <1>5, PassagePages
  <2> QED
    BY <1>4, <2>1
<1> QED
  BY <1>3, <1>5

(* When a volume is recognised all its keys have identifiers.              *)
LEMMA AllKnown ==
  ASSUME NEW pages, NEW found, Divided(pages, found), NEW v, NEW ids,
         \A p \in 1 .. Len(pages) : PageKey(v, p) \in DOMAIN ids,
         NEW works, works = WithWorks(v, found, ids),
         NEW more, more = WithContents(v, found, works)
  PROVE  Known(v, pages, found, more) /\ KeepsAll(more, ids)
<1> DEFINE N == Len(found.works)
           work(w) == WorkId(v, found.works[w], works)
<1>1. KeepsAll(works, ids) /\ KeepsAll(more, works) /\ KeepsAll(more, ids)
  <2>1. KeepsAll(works, ids)
    BY RegisterContinues DEF WithWorks
  <2>2. KeepsAll(more, works)
    BY RegisterContinues DEF WithContents
  <2> QED
    BY <2>1, <2>2, ContinuesOn
<1>2. DOMAIN found.works = 1 .. N
  BY SequenceHas DEF Divided
<1>3. \A w \in 1 .. N : WorkKey(v, found.works[w]) \in DOMAIN works
  BY <1>2 DEF WithWorks, Register
<1>4. \A w \in 1 .. N : WorkId(v, found.works[w], more) = work(w) /\ WorkKey(v, found.works[w]) \in DOMAIN more
  BY <1>1, <1>3, SameId DEF WorkId
<1>5. \A w \in 1 .. N : /\ DOMAIN found.sections[w] = 1 .. Len(found.sections[w])
                        /\ DOMAIN found.passages[w] = 1 .. Len(found.passages[w])
  BY SequenceHas DEF Divided, Nested, Reads
<1>6. \A w \in 1 .. N :
        {SectionKey(work(w), found.sections[w][i].key) : i \in DOMAIN found.sections[w]}
          \cup {PassageKey(work(w), found.passages[w], i) : i \in DOMAIN found.passages[w]} \subseteq DOMAIN more
  BY <1>2 DEF WithContents, Register
<1>7. \A p \in 1 .. Len(pages) : PageKey(v, p) \in DOMAIN more
  BY <1>1 DEF KeepsAll
<1> HIDE DEF work, N
<1>8. \A w \in 1 .. N :
        /\ \A i \in 1 .. Len(found.sections[w]) :
             SectionKey(work(w), found.sections[w][i].key) \in DOMAIN more
        /\ \A i \in 1 .. Len(found.passages[w]) : PassageKey(work(w), found.passages[w], i) \in DOMAIN more
  BY <1>5, <1>6
<1> QED
  BY <1>1, <1>4, <1>7, <1>8 DEF Known, N

-----------------------------------------------------------------------------
(* What an assembly has collected when the volumes of R are recognised:    *)
(* their rows, and the passages of those that could write them.            *)
Drafted(c, s, ids, R) ==
  /\ DOMAIN s = {"works", "sections", "passages", "pages", "links", "failed"}
  /\ \A v \in R : Known(v, c[v], Structure(c[v]), ids)
  /\ RowsAre(s.works, UNION {WorksOf(v, Structure(c[v]), ids) : v \in R})
  /\ RowsAre(s.sections, UNION {SectionsOf(v, Structure(c[v]), ids) : v \in R})
  /\ RowsAre(s.passages, UNION {PassagesOf(v, Structure(c[v]), ids) : v \in R \ s.failed})
  /\ RowsAre(s.pages, UNION {PagesOf(v, c[v], ids) : v \in R})
  /\ RowsAre(s.links, UNION {LinksFrom(PassagesOf(v, Structure(c[v]), ids), ids) : v \in R})

Merged == [Volumes -> Seq(Seq(Classes))]

(* What was collected stays so when there are more identifiers.            *)
LEMMA DraftedStays ==
  ASSUME NEW c \in Merged, NEW s, NEW ids, NEW more, KeepsAll(more, ids),
         NEW R \in SUBSET Volumes, Drafted(c, s, ids, R)
  PROVE  Drafted(c, s, more, R)
<1> DEFINE found(v) == Structure(c[v])
<1>1. ASSUME NEW v \in R
      PROVE  /\ Known(v, c[v], found(v), more)
             /\ WorksOf(v, found(v), more) = WorksOf(v, found(v), ids)
             /\ SectionsOf(v, found(v), more) = SectionsOf(v, found(v), ids)
             /\ PassagesOf(v, found(v), more) = PassagesOf(v, found(v), ids)
             /\ PagesOf(v, c[v], more) = PagesOf(v, c[v], ids)
             /\ LinksFrom(PassagesOf(v, found(v), more), more) = LinksFrom(PassagesOf(v, found(v), ids), ids)
  <2>1. c[v] \in Seq(Seq(Classes))
    BY DEF Merged
  <2>2. Divided(c[v], found(v))
    BY <2>1, StructureIs
  <2>3. Known(v, c[v], found(v), ids)
    BY DEF Drafted
  <2> HIDE DEF found
  <2> QED
    BY <2>1, <2>2, <2>3, SameRows
<1>2. UNION {WorksOf(v, found(v), more) : v \in R} = UNION {WorksOf(v, found(v), ids) : v \in R}
  BY <1>1
<1>3. UNION {SectionsOf(v, found(v), more) : v \in R} = UNION {SectionsOf(v, found(v), ids) : v \in R}
  BY <1>1
<1>4. UNION {PassagesOf(v, found(v), more) : v \in R \ s.failed}
        = UNION {PassagesOf(v, found(v), ids) : v \in R \ s.failed}
  BY <1>1
<1>5. UNION {PagesOf(v, c[v], more) : v \in R} = UNION {PagesOf(v, c[v], ids) : v \in R}
  BY <1>1
<1>6. UNION {LinksFrom(PassagesOf(v, found(v), more), more) : v \in R}
        = UNION {LinksFrom(PassagesOf(v, found(v), ids), ids) : v \in R}
  BY <1>1
<1> QED
  BY <1>1, <1>2, <1>3, <1>4, <1>5, <1>6 DEF Drafted

(* Two sequences of rows, one after the other.                             *)
LEMMA RowsJoin ==
  ASSUME NEW s, NEW A, RowsAre(s, A), NEW t, NEW B, RowsAre(t, B)
  PROVE  RowsAre(s \o t, A \cup B)
BY ConcatIs DEF RowsAre

(* Recognising a volume adds its rows, with its passages or without.       *)
Drafts(v, r, all) == {[all EXCEPT !.passages = @ \o r.passages], [all EXCEPT !.failed = @ \cup {v}]}

(* The rows of a volume are added to what was collected.                   *)
LEMMA RecogniseDrafts ==
  ASSUME NEW v \in Volumes, content \in Merged, NEW R \in SUBSET Volumes, v \notin R,
         NEW s, s = draft, v \notin s.failed, NEW ids, Drafted(content, s, ids, R),
         NEW found, found = Structure(content[v]), Known(v, content[v], found, ids),
         NEW r, r = recognize_structure(v, found, ids), NEW all, all = Collected(v, r, ids),
         NEW t \in Drafts(v, r, all)
  PROVE  Drafted(content, t, ids, R \cup {v}) /\ t.failed \in {s.failed, s.failed \cup {v}}
<1> DEFINE D == {"works", "sections", "passages", "pages", "links", "failed"}
           maps == build_page_maps(v, ids)
           links == build_passage_pages(r.passages, ids)
           F(u) == Structure(content[u])
           more == R \cup {v}
<1>1. content[v] \in Seq(Seq(Classes))
  BY DEF Merged
<1>2. Divided(content[v], found)
  BY <1>1, StructureIs
<1>3. /\ RowsAre(r.works, WorksOf(v, found, ids))
      /\ RowsAre(r.sections, SectionsOf(v, found, ids))
      /\ RowsAre(r.passages, PassagesOf(v, found, ids))
  BY <1>2, RecogniseIs
<1>4. RowsAre(maps, PagesOf(v, content[v], ids))
  BY <1>1, PageMapsAre
<1>5. RowsAre(links, LinksFrom(PassagesOf(v, found, ids), ids))
  <2>1. IsSequence(r.passages) /\ Range(r.passages) = PassagesOf(v, found, ids)
    BY <1>3 DEF RowsAre
  <2>2. ASSUME NEW i \in 1 .. Len(r.passages)
        PROVE  /\ r.passages[i].start \in Nat /\ r.passages[i].end \in Nat
               /\ r.passages[i].start <= r.passages[i].end
    <3>1. r.passages[i] \in PassagesOf(v, found, ids)
      BY <2>1, SequenceHas
    <3> QED
      BY <1>1, <1>2, <3>1, PassageSpan
  <2>3. RowsAre(links, LinksFrom(Range(r.passages), ids))
    BY <2>1, <2>2, PassageLinksAre
  <2> QED
    BY <2>1, <2>3
<1> HIDE DEF maps, links
<1>6. /\ DOMAIN all = D
      /\ all.works = s.works \o r.works /\ all.sections = s.sections \o r.sections
      /\ all.pages = s.pages \o maps /\ all.links = s.links \o links
      /\ all.passages = s.passages /\ all.failed = s.failed
  BY DEF Collected, Drafted, maps, links
<1>7. /\ DOMAIN t = D
      /\ t.works = s.works \o r.works /\ t.sections = s.sections \o r.sections
      /\ t.pages = s.pages \o maps /\ t.links = s.links \o links
      /\ \/ t.passages = s.passages \o r.passages /\ t.failed = s.failed
         \/ t.passages = s.passages /\ t.failed = s.failed \cup {v}
  <2>1. CASE t = [all EXCEPT !.passages = @ \o r.passages]
    BY <1>6, <2>1
  <2>2. CASE t = [all EXCEPT !.failed = @ \cup {v}]
    BY <1>6, <2>2
  <2> QED
    BY <2>1, <2>2 DEF Drafts
<1>8. RowsAre(t.works, UNION {WorksOf(u, F(u), ids) : u \in more})
  <2>1. RowsAre(s.works \o r.works, (UNION {WorksOf(u, F(u), ids) : u \in R}) \cup WorksOf(v, F(v), ids))
    BY <1>3, RowsJoin DEF Drafted
  <2>2. (UNION {WorksOf(u, F(u), ids) : u \in R}) \cup WorksOf(v, F(v), ids) = UNION {WorksOf(u, F(u), ids) : u \in more}
    OBVIOUS
  <2> QED
    BY <1>7, <2>1, <2>2
<1>9. RowsAre(t.sections, UNION {SectionsOf(u, F(u), ids) : u \in more})
  <2>1. RowsAre(s.sections \o r.sections, (UNION {SectionsOf(u, F(u), ids) : u \in R}) \cup SectionsOf(v, F(v), ids))
    BY <1>3, RowsJoin DEF Drafted
  <2>2. (UNION {SectionsOf(u, F(u), ids) : u \in R}) \cup SectionsOf(v, F(v), ids)
          = UNION {SectionsOf(u, F(u), ids) : u \in more}
    OBVIOUS
  <2> QED
    BY <1>7, <2>1, <2>2
<1>10. RowsAre(t.pages, UNION {PagesOf(u, content[u], ids) : u \in more})
  <2>1. RowsAre(s.pages \o maps, (UNION {PagesOf(u, content[u], ids) : u \in R}) \cup PagesOf(v, content[v], ids))
    BY <1>4, RowsJoin DEF Drafted
  <2>2. (UNION {PagesOf(u, content[u], ids) : u \in R}) \cup PagesOf(v, content[v], ids)
          = UNION {PagesOf(u, content[u], ids) : u \in more}
    OBVIOUS
  <2> QED
    BY <1>7, <2>1, <2>2
<1>11. RowsAre(t.links, UNION {LinksFrom(PassagesOf(u, F(u), ids), ids) : u \in more})
  <2> DEFINE X(u) == LinksFrom(PassagesOf(u, F(u), ids), ids)
  <2>1. RowsAre(s.links \o links, (UNION {X(u) : u \in R}) \cup X(v))
    BY <1>5, RowsJoin DEF Drafted
  <2>2. (UNION {X(u) : u \in R}) \cup X(v) = UNION {X(u) : u \in more}
    OBVIOUS
  <2> QED
    BY <1>7, <2>1, <2>2
<1>12. RowsAre(t.passages, UNION {PassagesOf(u, F(u), ids) : u \in more \ t.failed})
  <2> DEFINE X(u) == PassagesOf(u, F(u), ids)
  <2>1. RowsAre(s.passages, UNION {X(u) : u \in R \ s.failed})
    BY DEF Drafted
  <2>2. CASE t.passages = s.passages /\ t.failed = s.failed \cup {v}
    <3>1. more \ t.failed = R \ s.failed
      BY <2>2
    <3> QED
      BY <2>1, <2>2, <3>1
  <2>3. CASE t.passages = s.passages \o r.passages /\ t.failed = s.failed
    <3>1. more \ t.failed = (R \ s.failed) \cup {v}
      BY <2>3
    <3>2. RowsAre(r.passages, X(v))
      BY <1>3
    <3> HIDE DEF X
    <3>3. RowsAre(s.passages \o r.passages, (UNION {X(u) : u \in R \ s.failed}) \cup X(v))
      BY <2>1, <3>2, RowsJoin
    <3>4. (UNION {X(u) : u \in R \ s.failed}) \cup X(v) = UNION {X(u) : u \in (R \ s.failed) \cup {v}}
      OBVIOUS
    <3>5. RowsAre(t.passages, UNION {X(u) : u \in more \ t.failed})
      BY <2>3, <3>1, <3>3, <3>4
    <3> QED
      BY <3>5 DEF X
  <2> QED
    BY <1>7, <2>2, <2>3
<1>13. \A u \in more : Known(u, content[u], F(u), ids)
  BY DEF Drafted
<1>14. t.failed \in {s.failed, s.failed \cup {v}}
  BY <1>7
<1> QED
  BY <1>7, <1>8, <1>9, <1>10, <1>11, <1>12, <1>13, <1>14 DEF Drafted

-----------------------------------------------------------------------------
IdsOf(A) == {row.id : row \in A}

(* No two rows have one id.                                                *)
OneEach(rows) == \A j, k \in 1 .. Len(rows) : rows[j].id = rows[k].id => j = k

(* The ids of a sequence of rows are those of its members.                 *)
LEMMA IdsAre ==
  ASSUME NEW rows, IsSequence(rows)
  PROVE  Ids(rows) = IdsOf(Range(rows))
<1>1. DOMAIN rows = 1 .. Len(rows) /\ \A x : x \in Range(rows) <=> \E k \in 1 .. Len(rows) : rows[k] = x
  BY SequenceHas
<1> QED
  BY <1>1 DEF Ids, IdsOf

(* _unique_by_id keeps one row of every id.                                *)
LEMMA UniqueIs ==
  ASSUME NEW rows, IsSequence(rows), NEW u, u = _unique_by_id(rows)
  PROVE  /\ IsSequence(u) /\ Range(u) \subseteq Range(rows)
         /\ IdsOf(Range(u)) = IdsOf(Range(rows)) /\ OneEach(u)
<1> DEFINE N == Len(rows)
           I == {i \in DOMAIN rows : \A j \in 1 .. i - 1 : rows[j].id # rows[i].id}
           places == Ascending(I)
           n == Cardinality(I)
<1>1. N \in Nat /\ DOMAIN rows = 1 .. N /\ \A x : x \in Range(rows) <=> \E k \in 1 .. N : rows[k] = x
  BY SequenceHas
<1>2. I \in SUBSET (1 .. N)
  BY <1>1
<1>3. \A i \in I : \A j \in 1 .. i - 1 : rows[j].id # rows[i].id
  OBVIOUS
<1>4. \A i \in 1 .. N : (\A j \in 1 .. i - 1 : rows[j].id # rows[i].id) => i \in I
  BY <1>1
<1>5. u = [k \in DOMAIN places |-> rows[places[k]]]
  BY DEF _unique_by_id
<1> HIDE DEF N, I
<1>6. /\ n \in Nat /\ places \in [1 .. n -> I] /\ \A i \in I : \E k \in 1 .. n : places[k] = i
      /\ \A j, k \in 1 .. n : places[j] < places[k] <=> j < k
  BY <1>1, <1>2, IndicesAreFinite, AscendingIs
<1> HIDE DEF places, n
<1>7. DOMAIN u = 1 .. n /\ u = [k \in 1 .. n |-> u[k]] /\ \A k \in 1 .. n : u[k] = rows[places[k]]
  BY <1>5, <1>6
<1>8. IsSequence(u) /\ Len(u) = n
  BY <1>6, <1>7, FunctionIsSequence
<1>9. \A x : x \in Range(u) <=> \E k \in 1 .. n : u[k] = x
  BY <1>8, SequenceHas
<1>10. \A k \in 1 .. n : places[k] \in 1 .. N /\ places[k] \in I
  BY <1>2, <1>6
<1>11. Range(u) \subseteq Range(rows)
  BY <1>1, <1>7, <1>9, <1>10
<1>12. ASSUME NEW i \in 1 .. N
       PROVE  \E k \in 1 .. n : u[k].id = rows[i].id
  <2> DEFINE T == {j \in 1 .. N : rows[j].id = rows[i].id}
  <2>1. T \in SUBSET Nat /\ T # {}
    BY <1>1
  <2>2. PICK j \in T : \A m \in T : j <= m
    BY <2>1, LeastNat
  <2>3. j \in 1 .. N /\ rows[j].id = rows[i].id
    OBVIOUS
  <2>4. \A m \in 1 .. j - 1 : rows[m].id # rows[j].id
    <3> TAKE m \in 1 .. j - 1
    <3>1. m \in 1 .. N /\ ~(j <= m)
      BY <1>1, <2>3
    <3> QED
      BY <2>2, <2>3, <3>1
  <2>5. j \in I
    BY <1>4, <2>3, <2>4
  <2> QED
    BY <1>6, <1>7, <2>3, <2>5
<1>13. IdsOf(Range(u)) = IdsOf(Range(rows))
  <2>1. IdsOf(Range(u)) \subseteq IdsOf(Range(rows))
    BY <1>11 DEF IdsOf
  <2>2. ASSUME NEW row \in Range(rows) PROVE row.id \in IdsOf(Range(u))
    <3>1. PICK i \in 1 .. N : rows[i] = row
      BY <1>1
    <3>2. PICK k \in 1 .. n : u[k].id = row.id
      BY <1>12, <3>1
    <3>3. u[k] \in Range(u)
      BY <1>9
    <3> QED
      BY <3>2, <3>3 DEF IdsOf
  <2> QED
    BY <2>1, <2>2 DEF IdsOf
<1>14. ASSUME NEW j \in 1 .. n, NEW k \in 1 .. n, u[j].id = u[k].id
       PROVE  j = k
  <2>1. /\ places[j] \in 1 .. N /\ places[k] \in 1 .. N /\ places[j] \in I /\ places[k] \in I
        /\ rows[places[j]].id = rows[places[k]].id
    BY <1>7, <1>10, <1>14
  <2>2. ~(places[j] < places[k]) /\ ~(places[k] < places[j])
    <3>1. places[j] < places[k] => places[j] \in 1 .. places[k] - 1
      BY <1>1, <2>1
    <3>2. places[k] < places[j] => places[k] \in 1 .. places[j] - 1
      BY <1>1, <2>1
    <3> QED
      BY <1>3, <2>1, <3>1, <3>2
  <2>3. ~(j < k) /\ ~(k < j)
    BY <1>6, <2>2
  <2> QED
    BY <1>6, <2>3
<1> QED
  BY <1>8, <1>11, <1>13, <1>14 DEF OneEach

(* When the id tells the row none is lost.                                 *)
LEMMA UniqueKeeps ==
  ASSUME NEW rows, NEW A, RowsAre(rows, A), \A a, b \in A : a.id = b.id => a = b,
         NEW u, u = _unique_by_id(rows)
  PROVE  RowsAre(u, A) /\ OneEach(u)
<1>1. /\ IsSequence(u) /\ Range(u) \subseteq A /\ OneEach(u) /\ IdsOf(Range(u)) = IdsOf(A)
  BY UniqueIs DEF RowsAre
<1>2. ASSUME NEW a \in A PROVE a \in Range(u)
  <2>1. PICK b \in Range(u) : b.id = a.id
    BY <1>1 DEF IdsOf
  <2> QED
    BY <1>1, <2>1
<1> QED
  BY <1>1, <1>2 DEF RowsAre

(* An id of one row each is a key.                                         *)
LEMMA OneEachIsKey ==
  ASSUME NEW rows, IsSequence(rows), OneEach(rows)
  PROVE  HasKey(rows)
<1> DEFINE n == Len(rows)
           f == [k \in 1 .. n |-> rows[k].id]
<1>1. n \in Nat /\ DOMAIN rows = 1 .. n
  BY SequenceHas
<1> HIDE DEF n
<1>2. Ids(rows) = {rows[k].id : k \in 1 .. n}
  BY <1>1 DEF Ids
<1>3. f \in Bijection(1 .. n, Ids(rows))
  BY <1>2 DEF OneEach, n, Bijection, Injection, Surjection, IsInjective
<1>4. ExistsBijection(1 .. n, Ids(rows))
  BY <1>3 DEF ExistsBijection
<1>5. IsFiniteSet(1 .. n) /\ Cardinality(1 .. n) = n
  BY <1>1, FS_Interval
<1>6. Cardinality(Ids(rows)) = n
  BY <1>4, <1>5, FS_Bijection
<1> QED
  BY <1>6 DEF HasKey, n

(* WorksInOrder sorts the works.                                           *)
LEMMA WorksInOrderIs ==
  ASSUME NEW works, NEW A, RowsAre(works, A), OneEach(works),
         \A work \in A : work.volume \in Nat /\ work.start \in Nat,
         NEW sorted, sorted = WorksInOrder(works)
  PROVE  /\ RowsAre(sorted, A) /\ OneEach(sorted)
         /\ \A j, k \in 1 .. Len(sorted) : j < k /\ sorted[j].volume = sorted[k].volume =>
              sorted[j].start <= sorted[k].start
<1> DEFINE N == Len(works)
           earlier(i, j) ==
             \/ PairBefore(<<works[i].volume, works[i].start>>, <<works[j].volume, works[j].start>>)
             \/ works[i].volume = works[j].volume /\ works[i].start = works[j].start /\ i < j
           before == [j \in 1 .. N |-> {i \in 1 .. N : earlier(i, j)}]
           places == InOrder(before)
           n == Len(places)
<1>1. /\ N \in Nat /\ DOMAIN works = 1 .. N
      /\ \A x : x \in A <=> \E k \in 1 .. N : works[k] = x
  BY SequenceHas DEF RowsAre
<1>2. \A k \in 1 .. N : works[k].volume \in Nat /\ works[k].start \in Nat
  BY <1>1
<1>3. sorted = [k \in DOMAIN places |-> works[places[k]]]
  BY <1>1 DEF WorksInOrder
<1> HIDE DEF N
<1>4. /\ \A i \in 1 .. N : ~earlier(i, i)
      /\ \A i, j \in 1 .. N : i = j \/ earlier(i, j) \/ earlier(j, i)
      /\ \A i, j, k \in 1 .. N : earlier(i, j) /\ earlier(j, k) => earlier(i, k)
      /\ \A i, j \in 1 .. N : earlier(i, j) /\ works[i].volume = works[j].volume =>
           works[i].start <= works[j].start
  <2> DEFINE volume(i) == works[i].volume
             start(i) == works[i].start
  <2>1. \A i, j : earlier(i, j) <=>
          \/ volume(i) < volume(j)
          \/ volume(i) = volume(j) /\ start(i) < start(j)
          \/ volume(i) = volume(j) /\ start(i) = start(j) /\ i < j
    BY DEF PairBefore
  <2>2. \A i \in 1 .. N : volume(i) \in Nat /\ start(i) \in Nat /\ i \in Nat
    BY <1>1, <1>2
  <2>3. \A i, j \in 1 .. N : earlier(i, j) /\ works[i].volume = works[j].volume =>
          works[i].start <= works[j].start
    <3>1. \A i, j \in 1 .. N : earlier(i, j) /\ volume(i) = volume(j) => start(i) <= start(j)
      <4> HIDE DEF earlier, volume, start
      <4> QED
        BY <2>1, <2>2
    <3> QED
      BY <3>1
  <2> HIDE DEF earlier, volume, start
  <2>4. \A i \in 1 .. N : ~earlier(i, i)
    BY <2>1, <2>2
  <2>5. \A i, j \in 1 .. N : i = j \/ earlier(i, j) \/ earlier(j, i)
    BY <2>1, <2>2
  <2>6. ASSUME NEW i \in 1 .. N, NEW j \in 1 .. N, NEW k \in 1 .. N, earlier(i, j), earlier(j, k)
        PROVE  earlier(i, k)
    BY <2>1, <2>2, <2>6
  <2> QED
    BY <2>3, <2>4, <2>5, <2>6
<1> HIDE DEF earlier
<1>5. DOMAIN before = 1 .. N /\ \A j \in 1 .. N : before[j] = {i \in 1 .. N : earlier(i, j)}
  OBVIOUS
<1> HIDE DEF before
<1>6. Orders(before) /\ IsFiniteSet(DOMAIN before)
  <2>1. IsFiniteSet(1 .. N)
    BY <1>1, FS_Interval
  <2> QED
    BY <1>4, <1>5, <2>1 DEF Orders
<1>7. /\ places \in Seq(1 .. N) /\ \A x \in 1 .. N : \E k \in 1 .. n : places[k] = x
      /\ \A j, k \in 1 .. n : places[j] \in before[places[k]] <=> j < k
      /\ \A j, k \in 1 .. n : places[j] = places[k] => j = k
  <2>1. Sorts(places, before)
    BY <1>6, SortsIs
  <2>2. \A j, k \in 1 .. n : places[j] = places[k] => j = k
    BY <1>6, <2>1, SortsOnce
  <2> HIDE DEF places
  <2> QED
    BY <1>5, <2>1, <2>2 DEF Sorts
<1> HIDE DEF places
<1>8. n \in Nat /\ DOMAIN places = 1 .. n /\ \A k \in 1 .. n : places[k] \in 1 .. N
  <2>1. places \in Seq(1 .. N)
    BY <1>7
  <2> HIDE DEF n
  <2>2. IsSequence(places) /\ Range(places) \subseteq 1 .. N
    BY <2>1, SequenceIs
  <2>3. Len(places) \in Nat /\ DOMAIN places = 1 .. Len(places) /\ \A k \in 1 .. Len(places) : places[k] \in Range(places)
    BY <2>2, SequenceHas
  <2> QED
    BY <2>2, <2>3 DEF n
<1> HIDE DEF n
<1>9. DOMAIN sorted = 1 .. n /\ sorted = [k \in 1 .. n |-> sorted[k]] /\ \A k \in 1 .. n : sorted[k] = works[places[k]]
  BY <1>3, <1>8
<1>10. IsSequence(sorted) /\ Len(sorted) = n
  BY <1>8, <1>9, FunctionIsSequence
<1>11. \A x : x \in Range(sorted) <=> \E k \in 1 .. n : sorted[k] = x
  BY <1>10, SequenceHas
<1>12. \A x : x \in Range(sorted) <=> \E k \in 1 .. N : works[k] = x
  BY <1>7, <1>8, <1>9, <1>11
<1>13. RowsAre(sorted, A)
  BY <1>1, <1>10, <1>12 DEF RowsAre
<1>14. OneEach(sorted)
  BY <1>7, <1>8, <1>9, <1>10 DEF OneEach, N
<1>15. ASSUME NEW j \in 1 .. n, NEW k \in 1 .. n, j < k, sorted[j].volume = sorted[k].volume
       PROVE  sorted[j].start <= sorted[k].start
  <2>1. earlier(places[j], places[k])
    BY <1>5, <1>7, <1>8, <1>15
  <2> QED
    BY <1>4, <1>8, <1>9, <1>15, <2>1
<1> QED
  BY <1>10, <1>13, <1>14, <1>15

-----------------------------------------------------------------------------
(* What is found in a merged volume divides its body.                      *)
LEMMA FoundIs ==
  ASSUME NEW c \in Merged, NEW v \in Volumes, NEW found, found = Structure(c[v])
  PROVE  c[v] \in Seq(Seq(Classes)) /\ Divided(c[v], found)
BY StructureIs DEF Merged

(* An identifier tells its key.                                            *)
LEMMA IdTells ==
  /\ \A ids, key, other : Id(ids, key) = Id(ids, other) => key = other
  /\ \A ids, key : Id(ids, key) # NoId
BY DEF Id, NoId

(* The id of a work tells its volume and its key.                          *)
LEMMA WorkTells ==
  ASSUME NEW v, NEW work, NEW u, NEW other, NEW ids, WorkId(v, work, ids) = WorkId(u, other, ids)
  PROVE  v = u /\ WorkKey(v, work) = WorkKey(v, other)
<1>1. WorkKey(v, work) = WorkKey(u, other)
  BY IdTells DEF WorkId
<1>2. v = u
  BY <1>1 DEF WorkKey
<1> QED
  BY <1>1, <1>2

(* The id of a section tells its work and its key.                         *)
LEMMA SectionTells ==
  ASSUME NEW work, NEW key, NEW other, NEW otherKey, NEW ids,
         Id(ids, SectionKey(work, key)) = Id(ids, SectionKey(other, otherKey))
  PROVE  work = other /\ key = otherKey
<1>1. SectionKey(work, key) = SectionKey(other, otherKey)
  BY IdTells
<1> QED
  BY <1>1 DEF SectionKey

(* The id of a page tells its volume and its number.                       *)
LEMMA PageTells ==
  ASSUME NEW v, NEW p, NEW u, NEW q, NEW ids, Id(ids, PageKey(v, p)) = Id(ids, PageKey(u, q))
  PROVE  v = u /\ p = q
<1>1. PageKey(v, p) = PageKey(u, q)
  BY IdTells
<1> QED
  BY <1>1 DEF PageKey

(* Works of one key start on one page.                                     *)
LEMMA SameStart ==
  ASSUME NEW pages, NEW found, Divided(pages, found), NEW v,
         NEW w \in 1 .. Len(found.works), NEW x \in 1 .. Len(found.works),
         WorkKey(v, found.works[w]) = WorkKey(v, found.works[x])
  PROVE  found.works[w].start = found.works[x].start
<1>1. \A y, z \in 1 .. Len(found.works) : \A u :
        WorkKey(u, found.works[y]) = WorkKey(u, found.works[z]) =>
          found.works[y].start = found.works[z].start
  BY DEF Divided
<1> QED
  BY <1>1

(* The id of a passage tells where it is.                                  *)
LEMMA PassageTells ==
  ASSUME NEW pages, NEW found, Divided(pages, found), NEW v, NEW other, NEW u, v = u => other = found, NEW ids,
         NEW w \in 1 .. Len(found.works), NEW i \in 1 .. Len(found.passages[w]),
         NEW x \in 1 .. Len(other.works), NEW j \in 1 .. Len(other.passages[x]),
         PassageId(v, found, w, i, ids) = PassageId(u, other, x, j, ids)
  PROVE  v = u /\ w = x /\ i = j
<1>1. PassageKey(WorkId(v, found.works[w], ids), found.passages[w], i)
        = PassageKey(WorkId(u, other.works[x], ids), other.passages[x], j)
  BY IdTells DEF PassageId
<1>2. WorkId(v, found.works[w], ids) = WorkId(u, other.works[x], ids) /\ i = j
  BY <1>1 DEF PassageKey
<1>3. v = u /\ WorkKey(v, found.works[w]) = WorkKey(v, other.works[x])
  BY <1>2, WorkTells
<1>4. other = found /\ x \in 1 .. Len(found.works) /\ WorkKey(v, found.works[w]) = WorkKey(v, found.works[x])
  BY <1>3
<1>5. Len(found.works) \in Nat
  BY SequenceHas DEF Divided
<1>6. found.works[w].start = found.works[x].start
  BY <1>4, SameStart
<1>7. found.passages[w] # <<>> /\ found.passages[x] # <<>>
  BY <1>4, EmptyIs
<1>8. ~(w < x) /\ ~(x < w)
  BY <1>4, <1>6, <1>7 DEF Divided
<1> QED
  BY <1>2, <1>3, <1>4, <1>5, <1>8

(* Two rows of works with one id are one.                                  *)
LEMMA WorkRowsDiffer ==
  ASSUME NEW pages, NEW found, Divided(pages, found), NEW v, NEW other, NEW u, v = u => other = found, NEW ids,
         NEW a \in WorksOf(v, found, ids), NEW b \in WorksOf(u, other, ids), a.id = b.id
  PROVE  a = b
<1>1. PICK w \in 1 .. Len(found.works) : a = WorkRow(v, found.works[w], ids)
  BY DEF WorksOf
<1>2. PICK x \in 1 .. Len(other.works) : b = WorkRow(u, other.works[x], ids)
  BY DEF WorksOf
<1>3. WorkId(v, found.works[w], ids) = WorkId(u, other.works[x], ids)
  BY <1>1, <1>2 DEF WorkRow
<1>4. v = u /\ WorkKey(v, found.works[w]) = WorkKey(v, other.works[x])
  BY <1>3, WorkTells
<1>5. other = found /\ x \in 1 .. Len(found.works) /\ WorkKey(v, found.works[w]) = WorkKey(v, found.works[x])
  BY <1>4
<1>6. found.works[w].start = found.works[x].start
  BY <1>5, SameStart
<1>7. WorkId(v, found.works[w], ids) = WorkId(v, found.works[x], ids)
  BY <1>3, <1>4, <1>5
<1> QED
  BY <1>1, <1>2, <1>4, <1>5, <1>6, <1>7 DEF WorkRow

(* Two passages with one id are one.                                       *)
LEMMA PassageRowsDiffer ==
  ASSUME NEW pages, NEW found, Divided(pages, found), NEW v, NEW other, NEW u, v = u => other = found, NEW ids,
         NEW a \in PassagesOf(v, found, ids), NEW b \in PassagesOf(u, other, ids), a.id = b.id
  PROVE  v = u /\ a = b
<1>1. PICK w \in 1 .. Len(found.works) : \E i \in 1 .. Len(found.passages[w]) : a = PassageAt(v, found, w, i, ids)
  BY DEF PassagesOf
<1>2. PICK i \in 1 .. Len(found.passages[w]) : a = PassageAt(v, found, w, i, ids)
  BY <1>1
<1>3. PICK x \in 1 .. Len(other.works) : \E j \in 1 .. Len(other.passages[x]) : b = PassageAt(u, other, x, j, ids)
  BY DEF PassagesOf
<1>4. PICK j \in 1 .. Len(other.passages[x]) : b = PassageAt(u, other, x, j, ids)
  BY <1>3
<1>5. PassageId(v, found, w, i, ids) = PassageId(u, other, x, j, ids)
  BY <1>2, <1>4 DEF PassageAt
<1>6. v = u /\ w = x /\ i = j
  BY <1>5, PassageTells
<1> QED
  BY <1>2, <1>4, <1>6

(* Two pages with one id are one.                                          *)
LEMMA PageRowsDiffer ==
  ASSUME NEW c, NEW v, NEW u, NEW ids,
         NEW a \in PagesOf(v, c[v], ids), NEW b \in PagesOf(u, c[u], ids), a.id = b.id
  PROVE  a = b
<1>1. PICK p \in 1 .. Len(c[v]) : a = PageAt(v, p, ids)
  BY DEF PagesOf
<1>2. PICK q \in 1 .. Len(c[u]) : b = PageAt(u, q, ids)
  BY DEF PagesOf
<1>3. Id(ids, PageKey(v, p)) = Id(ids, PageKey(u, q))
  BY <1>1, <1>2 DEF PageAt
<1>4. v = u /\ p = q
  BY <1>3, PageTells
<1> QED
  BY <1>1, <1>2, <1>4

-----------------------------------------------------------------------------
WorksIn(c, R, ids) == UNION {WorksOf(v, Structure(c[v]), ids) : v \in R}
SectionsIn(c, R, ids) == UNION {SectionsOf(v, Structure(c[v]), ids) : v \in R}
PassagesIn(c, R, ids) == UNION {PassagesOf(v, Structure(c[v]), ids) : v \in R}
PagesIn(c, R, ids) == UNION {PagesOf(v, c[v], ids) : v \in R}
LinksIn(c, R, ids) == UNION {LinksFrom(PassagesOf(v, Structure(c[v]), ids), ids) : v \in R}

(* What the transaction inserts when R is recognised and Q has passages.   *)
Inserted(c, rows, ids, R, Q) ==
  /\ RowsAre(rows.works, WorksIn(c, R, ids)) /\ OneEach(rows.works)
  /\ \A j, k \in 1 .. Len(rows.works) : j < k /\ rows.works[j].volume = rows.works[k].volume =>
       rows.works[j].start <= rows.works[k].start
  /\ IsSequence(rows.sections) /\ OneEach(rows.sections)
  /\ Range(rows.sections) \subseteq SectionsIn(c, R, ids)
  /\ IdsOf(Range(rows.sections)) = IdsOf(SectionsIn(c, R, ids))
  /\ RowsAre(rows.passages, PassagesIn(c, Q, ids)) /\ OneEach(rows.passages)
  /\ RowsAre(rows.pages, PagesIn(c, R, ids)) /\ OneEach(rows.pages)
  /\ rows.links = {link \in LinksIn(c, R, ids) : link.passage \in IdsOf(PassagesIn(c, Q, ids))}

(* The neighbours of a passage are passages of its work.                   *)
LEMMA Neighbours ==
  ASSUME NEW v, NEW pages, NEW found, Divided(pages, found), NEW ids, NEW row \in PassagesOf(v, found, ids)
  PROVE  /\ {row.prev, row.next} \subseteq {NoId} \cup IdsOf(PassagesOf(v, found, ids))
         /\ row = [id |-> row.id, volume |-> row.volume, section |-> row.section, text |-> row.text,
                   start |-> row.start, end |-> row.end, prev |-> row.prev, next |-> row.next]
<1>1. PICK w \in 1 .. Len(found.works) : \E i \in 1 .. Len(found.passages[w]) : row = PassageAt(v, found, w, i, ids)
  BY DEF PassagesOf
<1> DEFINE n == Len(found.passages[w])
<1>2. PICK i \in 1 .. n : row = PassageAt(v, found, w, i, ids)
  BY <1>1
<1>3. n \in Nat
  BY SequenceHas DEF Divided, Reads
<1>4. \A j \in 1 .. n : PassageId(v, found, w, j, ids) \in IdsOf(PassagesOf(v, found, ids))
  <2> TAKE j \in 1 .. n
  <2>1. PassageAt(v, found, w, j, ids) \in PassagesOf(v, found, ids)
    BY DEF PassagesOf
  <2>2. PassageAt(v, found, w, j, ids).id = PassageId(v, found, w, j, ids)
    BY DEF PassageAt
  <2> QED
    BY <2>1, <2>2 DEF IdsOf
<1>5. /\ row.prev = IF i = 1 THEN NoId ELSE PassageId(v, found, w, i - 1, ids)
      /\ row.next = IF i = n THEN NoId ELSE PassageId(v, found, w, i + 1, ids)
  BY <1>2 DEF PassageAt
<1> HIDE DEF n
<1>6. (i # 1 => i - 1 \in 1 .. n) /\ (i # n => i + 1 \in 1 .. n)
  BY <1>3
<1>7. row = [id |-> row.id, volume |-> row.volume, section |-> row.section, text |-> row.text,
             start |-> row.start, end |-> row.end, prev |-> row.prev, next |-> row.next]
  BY <1>2 DEF PassageAt
<1> QED
  BY <1>4, <1>5, <1>6, <1>7

(* _insert_passages leaves rows alone whose neighbours are there.          *)
LEMMA NeighboursStay ==
  ASSUME NEW rows, IsSequence(rows),
         \A row \in Range(rows) :
           /\ {row.prev, row.next} \subseteq {NoId} \cup IdsOf(Range(rows))
           /\ row = [id |-> row.id, volume |-> row.volume, section |-> row.section, text |-> row.text,
                     start |-> row.start, end |-> row.end, prev |-> row.prev, next |-> row.next]
  PROVE  _insert_passages(rows) = rows
<1> DEFINE kept(id) == IF id \in Ids(rows) THEN id ELSE NoId
<1>1. /\ DOMAIN rows = 1 .. Len(rows) /\ rows = [k \in 1 .. Len(rows) |-> rows[k]]
      /\ \A k \in 1 .. Len(rows) : rows[k] \in Range(rows)
  BY SequenceHas
<1>2. Ids(rows) = IdsOf(Range(rows))
  BY IdsAre
<1>3. ASSUME NEW row \in Range(rows) PROVE [row EXCEPT !.prev = kept(@), !.next = kept(@)] = row
  <2>1. kept(row.prev) = row.prev /\ kept(row.next) = row.next
    BY <1>2
  <2> DEFINE D == {"id", "volume", "section", "text", "start", "end", "prev", "next"}
             changed == [row EXCEPT !.prev = kept(@), !.next = kept(@)]
  <2>2. DOMAIN row = D /\ row = [x \in D |-> row[x]]
    <3>1. row = [id |-> row.id, volume |-> row.volume, section |-> row.section, text |-> row.text,
                 start |-> row.start, end |-> row.end, prev |-> row.prev, next |-> row.next]
      OBVIOUS
    <3> QED
      BY <3>1
  <2> HIDE DEF kept
  <2>3. changed = [x \in D |-> changed[x]] /\ \A x \in D : changed[x] = row[x]
    BY <2>1, <2>2
  <2> HIDE DEF changed, D
  <2>4. changed = row
    BY <2>2, <2>3
  <2> QED
    BY <2>4 DEF changed
<1> HIDE DEF kept
<1>4. \A k \in 1 .. Len(rows) : [rows[k] EXCEPT !.prev = kept(@), !.next = kept(@)] = rows[k]
  BY <1>1, <1>3
<1>5. _insert_passages(rows) = [k \in DOMAIN rows |-> [rows[k] EXCEPT !.prev = kept(@), !.next = kept(@)]]
  BY DEF _insert_passages, kept
<1> QED
  BY <1>1, <1>4, <1>5

(* Of what was collected, this is inserted.                                *)
LEMMA RowsInserted ==
  ASSUME NEW c \in Merged, NEW R \in SUBSET Volumes, NEW s, NEW ids, Drafted(c, s, ids, R),
         NEW Q, Q = R \ s.failed, NEW a, NEW rows, rows = Rows(a, s)
  PROVE  Inserted(c, rows, ids, R, Q)
<1> DEFINE F(v) == Structure(c[v])
<1>1. \A v \in R : Divided(c[v], F(v))
  BY FoundIs
<1>2. /\ RowsAre(s.works, WorksIn(c, R, ids)) /\ RowsAre(s.sections, SectionsIn(c, R, ids))
      /\ RowsAre(s.passages, PassagesIn(c, Q, ids)) /\ RowsAre(s.pages, PagesIn(c, R, ids))
      /\ RowsAre(s.links, LinksIn(c, R, ids))
  BY DEF Drafted, WorksIn, SectionsIn, PassagesIn, PagesIn, LinksIn
<1>3. \A x, y \in WorksIn(c, R, ids) : x.id = y.id => x = y
  <2> SUFFICES ASSUME NEW v \in R, NEW u \in R, NEW x \in WorksOf(v, F(v), ids), NEW y \in WorksOf(u, F(u), ids), x.id = y.id
      PROVE  x = y
    BY DEF WorksIn
  <2> DEFINE found == F(v)
             other == F(u)
  <2>1. Divided(c[v], found) /\ (v = u => other = found)
    BY <1>1
  <2>2. x \in WorksOf(v, found, ids) /\ y \in WorksOf(u, other, ids)
    OBVIOUS
  <2> HIDE DEF found, other
  <2> QED
    BY <2>1, <2>2, WorkRowsDiffer
<1>4. \A x, y \in PassagesIn(c, Q, ids) : x.id = y.id => x = y
  <2> SUFFICES ASSUME NEW v \in Q, NEW u \in Q, NEW x \in PassagesOf(v, F(v), ids), NEW y \in PassagesOf(u, F(u), ids), x.id = y.id
      PROVE  x = y
    BY DEF PassagesIn
  <2> DEFINE found == F(v)
             other == F(u)
  <2>1. Divided(c[v], found) /\ (v = u => other = found)
    BY <1>1
  <2>2. x \in PassagesOf(v, found, ids) /\ y \in PassagesOf(u, other, ids)
    OBVIOUS
  <2> HIDE DEF found, other
  <2> QED
    BY <2>1, <2>2, PassageRowsDiffer
<1>5. \A x, y \in PagesIn(c, R, ids) : x.id = y.id => x = y
  <2> SUFFICES ASSUME NEW v \in R, NEW u \in R, NEW x \in PagesOf(v, c[v], ids), NEW y \in PagesOf(u, c[u], ids), x.id = y.id
      PROVE  x = y
    BY DEF PagesIn
  <2> QED
    BY PageRowsDiffer
<1>6. /\ rows.works = WorksInOrder(_unique_by_id(s.works))
      /\ rows.sections = _unique_by_id(s.sections)
      /\ rows.passages = _insert_passages(_unique_by_id(s.passages))
      /\ rows.pages = _unique_by_id(s.pages)
      /\ rows.links = LinksOf(rows.passages, s.links)
  BY DEF Rows
<1>7. RowsAre(_unique_by_id(s.works), WorksIn(c, R, ids)) /\ OneEach(_unique_by_id(s.works))
  BY <1>2, <1>3, UniqueKeeps
<1>8. \A work \in WorksIn(c, R, ids) : work.volume \in Nat /\ work.start \in Nat
  <2> SUFFICES ASSUME NEW v \in R, NEW work \in WorksOf(v, F(v), ids) PROVE work.volume \in Nat /\ work.start \in Nat
    BY DEF WorksIn
  <2>1. PICK w \in 1 .. Len(F(v).works) : work = WorkRow(v, F(v).works[w], ids)
    BY DEF WorksOf
  <2>2. F(v).works[w].start \in Nat
    BY <1>1 DEF Divided
  <2>3. v \in Nat
    BY BuildAssumption
  <2> QED
    BY <2>1, <2>2, <2>3 DEF WorkRow
<1>9. /\ RowsAre(rows.works, WorksIn(c, R, ids)) /\ OneEach(rows.works)
      /\ \A j, k \in 1 .. Len(rows.works) : j < k /\ rows.works[j].volume = rows.works[k].volume =>
           rows.works[j].start <= rows.works[k].start
  <2> DEFINE works == _unique_by_id(s.works)
             A == WorksIn(c, R, ids)
             sorted == rows.works
  <2>1. RowsAre(works, A) /\ OneEach(works) /\ sorted = WorksInOrder(works)
    BY <1>6, <1>7
  <2>2. \A work \in A : work.volume \in Nat /\ work.start \in Nat
    BY <1>8
  <2> HIDE DEF works, A, sorted
  <2>3. /\ RowsAre(sorted, A) /\ OneEach(sorted)
        /\ \A j, k \in 1 .. Len(sorted) : j < k /\ sorted[j].volume = sorted[k].volume =>
             sorted[j].start <= sorted[k].start
    BY <2>1, <2>2, WorksInOrderIs
  <2> QED
    BY <2>3 DEF A, sorted
<1>10. /\ IsSequence(rows.sections) /\ OneEach(rows.sections)
       /\ Range(rows.sections) \subseteq SectionsIn(c, R, ids)
       /\ IdsOf(Range(rows.sections)) = IdsOf(SectionsIn(c, R, ids))
  <2>1. IsSequence(s.sections) /\ Range(s.sections) = SectionsIn(c, R, ids)
    BY <1>2 DEF RowsAre
  <2> QED
    BY <1>6, <2>1, UniqueIs
<1> DEFINE unique == _unique_by_id(s.passages)
<1>11. RowsAre(unique, PassagesIn(c, Q, ids)) /\ OneEach(unique)
  BY <1>2, <1>4, UniqueKeeps
<1>12. ASSUME NEW row \in PassagesIn(c, Q, ids)
       PROVE  /\ {row.prev, row.next} \subseteq {NoId} \cup IdsOf(PassagesIn(c, Q, ids))
              /\ row = [id |-> row.id, volume |-> row.volume, section |-> row.section, text |-> row.text,
                        start |-> row.start, end |-> row.end, prev |-> row.prev, next |-> row.next]
  <2>1. PICK v \in Q : row \in PassagesOf(v, F(v), ids)
    BY DEF PassagesIn
  <2>2. Divided(c[v], F(v))
    BY <1>1
  <2>3. /\ {row.prev, row.next} \subseteq {NoId} \cup IdsOf(PassagesOf(v, F(v), ids))
        /\ row = [id |-> row.id, volume |-> row.volume, section |-> row.section, text |-> row.text,
                  start |-> row.start, end |-> row.end, prev |-> row.prev, next |-> row.next]
    BY <2>1, <2>2, Neighbours
  <2>4. IdsOf(PassagesOf(v, F(v), ids)) \subseteq IdsOf(PassagesIn(c, Q, ids))
    BY DEF IdsOf, PassagesIn
  <2> QED
    BY <2>3, <2>4
<1> HIDE DEF unique
<1>13. rows.passages = unique
  <2>1. IsSequence(unique) /\ Range(unique) = PassagesIn(c, Q, ids)
    BY <1>11 DEF RowsAre
  <2>2. _insert_passages(unique) = unique
    BY <1>12, <2>1, NeighboursStay
  <2> QED
    BY <1>6, <2>2 DEF unique
<1>14. RowsAre(rows.pages, PagesIn(c, R, ids)) /\ OneEach(rows.pages)
  BY <1>2, <1>5, <1>6, UniqueKeeps
<1>15. rows.links = {link \in LinksIn(c, R, ids) : link.passage \in IdsOf(PassagesIn(c, Q, ids))}
  <2>1. Ids(rows.passages) = IdsOf(PassagesIn(c, Q, ids))
    BY <1>11, <1>13, IdsAre DEF RowsAre
  <2> QED
    BY <1>2, <1>6, <2>1 DEF LinksOf, RowsAre
<1> QED
  BY <1>9, <1>10, <1>11, <1>13, <1>14, <1>15 DEF Inserted

-----------------------------------------------------------------------------
(* The section of a passage and the parent of a section are sections.      *)
LEMMA SectionsMeet ==
  ASSUME NEW pages \in Seq(Seq(Classes)), NEW found, Divided(pages, found), NEW v, NEW ids
  PROVE  /\ \A row \in SectionsOf(v, found, ids) :
              /\ row.work \in IdsOf(WorksOf(v, found, ids))
              /\ row.parent \in {NoId} \cup IdsOf(SectionsOf(v, found, ids))
         /\ \A row \in PassagesOf(v, found, ids) : row.section \in IdsOf(SectionsOf(v, found, ids))
<1> DEFINE work(w) == WorkId(v, found.works[w], ids)
<1>1. ASSUME NEW w \in 1 .. Len(found.works), NEW key \in KeysOf(found.sections[w])
      PROVE  Id(ids, SectionKey(work(w), key)) \in IdsOf(SectionsOf(v, found, ids))
  <2>1. PICK i \in 1 .. Len(found.sections[w]) : found.sections[w][i].key = key
    BY DEF KeysOf
  <2>2. SectionRow(work(w), found.sections[w][i], ids) \in SectionsOf(v, found, ids)
    BY DEF SectionsOf
  <2>3. SectionRow(work(w), found.sections[w][i], ids).id = Id(ids, SectionKey(work(w), key))
    BY <2>1 DEF SectionRow
  <2> QED
    BY <2>2, <2>3 DEF IdsOf
<1>2. ASSUME NEW row \in SectionsOf(v, found, ids)
      PROVE  /\ row.work \in IdsOf(WorksOf(v, found, ids))
             /\ row.parent \in {NoId} \cup IdsOf(SectionsOf(v, found, ids))
  <2>1. PICK w \in 1 .. Len(found.works) : \E i \in 1 .. Len(found.sections[w]) :
               row = SectionRow(work(w), found.sections[w][i], ids)
    BY DEF SectionsOf
  <2>2. PICK i \in 1 .. Len(found.sections[w]) : row = SectionRow(work(w), found.sections[w][i], ids)
    BY <2>1
  <2>3. WorkRow(v, found.works[w], ids) \in WorksOf(v, found, ids)
    BY DEF WorksOf
  <2>4. row.work \in IdsOf(WorksOf(v, found, ids))
    BY <2>2, <2>3 DEF SectionRow, WorkRow, IdsOf
  <2>5. found.sections[w][i].parent \in {<<>>} \cup KeysOf(found.sections[w])
    BY DEF Divided, Nested
  <2>6. row.parent = IF found.sections[w][i].parent = <<>> THEN NoId
                     ELSE Id(ids, SectionKey(work(w), found.sections[w][i].parent))
    BY <2>2 DEF SectionRow
  <2> HIDE DEF work
  <2> QED
    BY <1>1, <2>4, <2>5, <2>6
<1>3. ASSUME NEW row \in PassagesOf(v, found, ids)
      PROVE  row.section \in IdsOf(SectionsOf(v, found, ids))
  <2>1. PICK w \in 1 .. Len(found.works) : \E i \in 1 .. Len(found.passages[w]) : row = PassageAt(v, found, w, i, ids)
    BY DEF PassagesOf
  <2>2. PICK i \in 1 .. Len(found.passages[w]) : row = PassageAt(v, found, w, i, ids)
    BY <2>1
  <2>3. found.passages[w][i].section \in KeysOf(found.sections[w])
    BY PassagePages
  <2>4. row.section = Id(ids, SectionKey(work(w), found.passages[w][i].section))
    BY <2>2 DEF PassageAt
  <2> HIDE DEF work
  <2> QED
    BY <1>1, <2>3, <2>4
<1> QED
  BY <1>2, <1>3

(* A link leads to a page.                                                 *)
LEMMA LinksMeet ==
  ASSUME NEW pages \in Seq(Seq(Classes)), NEW found, Divided(pages, found), NEW v, NEW ids,
         NEW link \in LinksFrom(PassagesOf(v, found, ids), ids)
  PROVE  link.page \in IdsOf(PagesOf(v, pages, ids))
<1>1. PICK row \in PassagesOf(v, found, ids) : \E p \in row.start .. row.end : link = LinkTo(row, p, ids)
  BY DEF LinksFrom
<1>2. PICK p \in row.start .. row.end : link = LinkTo(row, p, ids)
  BY <1>1
<1>3. PICK w \in 1 .. Len(found.works) : \E i \in 1 .. Len(found.passages[w]) : row = PassageAt(v, found, w, i, ids)
  BY DEF PassagesOf
<1>4. PICK i \in 1 .. Len(found.passages[w]) : row = PassageAt(v, found, w, i, ids)
  BY <1>3
<1>5. row.volume = v /\ row.start = found.passages[w][i].start /\ row.end = found.passages[w][i].end
  BY <1>4 DEF PassageAt
<1>6. found.passages[w][i].start \in 1 .. Len(pages) /\ found.passages[w][i].end \in 1 .. Len(pages)
  BY PassagePages
<1>7. row.start \in 1 .. Len(pages) /\ row.end \in 1 .. Len(pages)
  BY <1>5, <1>6, Zenon
<1>8. p \in 1 .. Len(pages)
  BY <1>7, PagesHave
<1>9. PageAt(v, p, ids) \in PagesOf(v, pages, ids) /\ PageAt(v, p, ids).id = link.page
  BY <1>2, <1>5, <1>8 DEF PagesOf, PageAt, LinkTo
<1> QED
  BY <1>9 DEF IdsOf

(* What is inserted meets the schema.                                      *)
LEMMA InsertedFits ==
  ASSUME NEW c \in Merged, NEW R \in SUBSET Volumes, NEW Q \in SUBSET R, NEW ids,
         NEW rows, Inserted(c, rows, ids, R, Q)
  PROVE  SchemaHolds(rows)
<1> DEFINE F(v) == Structure(c[v])
<1>1. \A v \in R : Divided(c[v], F(v)) /\ c[v] \in Seq(Seq(Classes))
  BY FoundIs
<1>2. HasKey(rows.works) /\ HasKey(rows.sections) /\ HasKey(rows.passages) /\ HasKey(rows.pages)
  BY OneEachIsKey DEF Inserted, RowsAre
<1>3. /\ Ids(rows.works) = IdsOf(WorksIn(c, R, ids)) /\ Ids(rows.sections) = IdsOf(SectionsIn(c, R, ids))
      /\ Ids(rows.passages) = IdsOf(PassagesIn(c, Q, ids)) /\ Ids(rows.pages) = IdsOf(PagesIn(c, R, ids))
  BY IdsAre DEF Inserted, RowsAre
<1>4. ASSUME NEW row \in Range(rows.sections)
      PROVE  row.work \in Ids(rows.works) /\ row.parent \in {NoId} \cup Ids(rows.sections)
  <2>1. row \in SectionsIn(c, R, ids)
    BY DEF Inserted
  <2>2. PICK v \in R : row \in SectionsOf(v, F(v), ids)
    BY <2>1 DEF SectionsIn
  <2>3. /\ row.work \in IdsOf(WorksOf(v, F(v), ids))
        /\ row.parent \in {NoId} \cup IdsOf(SectionsOf(v, F(v), ids))
    BY <1>1, <2>2, SectionsMeet
  <2>4. /\ IdsOf(WorksOf(v, F(v), ids)) \subseteq IdsOf(WorksIn(c, R, ids))
        /\ IdsOf(SectionsOf(v, F(v), ids)) \subseteq IdsOf(SectionsIn(c, R, ids))
    BY DEF IdsOf, WorksIn, SectionsIn
  <2> QED
    BY <1>3, <2>3, <2>4
<1>5. ASSUME NEW row \in Range(rows.passages)
      PROVE  /\ row.section \in Ids(rows.sections)
             /\ {row.prev, row.next} \subseteq {NoId} \cup Ids(rows.passages)
  <2>1. row \in PassagesIn(c, Q, ids)
    BY DEF Inserted, RowsAre
  <2>2. PICK v \in Q : row \in PassagesOf(v, F(v), ids)
    BY <2>1 DEF PassagesIn
  <2>3. row.section \in IdsOf(SectionsOf(v, F(v), ids))
    BY <1>1, <2>2, SectionsMeet
  <2>4. {row.prev, row.next} \subseteq {NoId} \cup IdsOf(PassagesOf(v, F(v), ids))
    BY <1>1, <2>2, Neighbours
  <2>5. /\ IdsOf(SectionsOf(v, F(v), ids)) \subseteq IdsOf(SectionsIn(c, R, ids))
        /\ IdsOf(PassagesOf(v, F(v), ids)) \subseteq IdsOf(PassagesIn(c, Q, ids))
    BY DEF IdsOf, SectionsIn, PassagesIn
  <2> QED
    BY <1>3, <2>3, <2>4, <2>5
<1>6. ASSUME NEW link \in rows.links
      PROVE  link.passage \in Ids(rows.passages) /\ link.page \in Ids(rows.pages)
  <2>1. link \in LinksIn(c, R, ids) /\ link.passage \in IdsOf(PassagesIn(c, Q, ids))
    BY DEF Inserted
  <2>2. PICK v \in R : link \in LinksFrom(PassagesOf(v, F(v), ids), ids)
    BY <2>1 DEF LinksIn
  <2>3. link.page \in IdsOf(PagesOf(v, c[v], ids))
    BY <1>1, <2>2, LinksMeet
  <2>4. IdsOf(PagesOf(v, c[v], ids)) \subseteq IdsOf(PagesIn(c, R, ids))
    BY DEF IdsOf, PagesIn
  <2> QED
    BY <1>3, <2>1, <2>3, <2>4
<1> QED
  BY <1>2, <1>4, <1>5, <1>6 DEF SchemaHolds

-----------------------------------------------------------------------------
(* One passage, one id.                                                    *)
LEMMA OneId ==
  ASSUME NEW pages, NEW found, Divided(pages, found), NEW v, NEW other, NEW u, v = u => other = found, NEW ids,
         NEW a \in PassagesOf(v, found, ids), NEW b \in PassagesOf(u, other, ids)
  PROVE  a.id = b.id <=> a.volume = b.volume /\ a.text = b.text
<1>1. a.volume = v /\ b.volume = u
  BY DEF PassagesOf, PassageAt
<1>2. ASSUME a.id = b.id PROVE a.volume = b.volume /\ a.text = b.text
  BY <1>2, PassageRowsDiffer
<1>3. ASSUME a.volume = b.volume, a.text = b.text PROVE a.id = b.id
  <2>1. u = v /\ other = found
    BY <1>1, <1>3
  <2>2. PICK w \in 1 .. Len(found.works) : \E i \in 1 .. Len(found.passages[w]) : a = PassageAt(v, found, w, i, ids)
    BY DEF PassagesOf
  <2>3. PICK i \in 1 .. Len(found.passages[w]) : a = PassageAt(v, found, w, i, ids)
    BY <2>2
  <2>4. PICK x \in 1 .. Len(found.works) : \E j \in 1 .. Len(found.passages[x]) : b = PassageAt(v, found, x, j, ids)
    BY <2>1 DEF PassagesOf
  <2>5. PICK j \in 1 .. Len(found.passages[x]) : b = PassageAt(v, found, x, j, ids)
    BY <2>4
  <2>6. found.passages[w][i].text = found.passages[x][j].text
    BY <1>3, <2>3, <2>5 DEF PassageAt
  <2> DEFINE text == found.passages[w][i].text
  <2>7. Rises(text) /\ text # <<>>
    BY DEF Divided, Reads
  <2>8. PICK place \in Nat \X Nat : place \in Range(text)
    <3> HIDE DEF text
    <3>1. IsSequence(text) /\ Len(text) \in Nat /\ Len(text) # 0 /\ Range(text) \subseteq Nat \X Nat
      BY <2>7, RisesHas, SequenceHas
    <3>2. 1 \in 1 .. Len(text)
      BY <3>1
    <3>3. text[1] \in Range(text)
      BY <3>1, <3>2, SequenceHas
    <3> QED
      BY <3>1, <3>3
  <2>9. ~PairBefore(place, place)
    BY PairOrder
  <2>10. place \in Printed(found.passages[w]) /\ place \in Printed(found.passages[x])
    BY <2>6, <2>8 DEF Printed
  <2>11. Len(found.works) \in Nat /\ Reads(found.passages[w])
    BY SequenceHas DEF Divided
  <2>12. \A y, z \in 1 .. Len(found.works) : y < z =>
           AllBefore(Printed(found.passages[y]), Printed(found.passages[z]))
    BY DEF Divided
  <2>13. w = x
    BY <2>9, <2>10, <2>11, <2>12 DEF AllBefore
  <2>14. \A k, m \in 1 .. Len(found.passages[w]) : k < m =>
           AllBefore(Range(found.passages[w][k].text), Range(found.passages[w][m].text))
    BY <2>11 DEF Reads
  <2>15. Len(found.passages[w]) \in Nat
    BY <2>11, SequenceHas DEF Reads
  <2>16. j \in 1 .. Len(found.passages[w]) /\ place \in Range(found.passages[w][j].text)
    BY <2>6, <2>8, <2>13
  <2>17. i = j
    <3>1. place \in Range(found.passages[w][i].text)
      BY <2>8
    <3>2. ~(i < j)
      BY <2>9, <2>14, <2>16, <3>1 DEF AllBefore
    <3>3. ~(j < i)
      BY <2>9, <2>14, <2>16, <3>1 DEF AllBefore
    <3> QED
      BY <2>15, <2>16, <3>2, <3>3
  <2> QED
    BY <2>3, <2>5, <2>13, <2>17
<1> QED
  BY <1>2, <1>3

(* Two assemblies of the same pages with the same registry.                *)
LEMMA DraftsAgree ==
  ASSUME NEW c \in Merged, NEW ids, NEW R \in SUBSET Volumes, NEW s, Drafted(c, s, ids, R),
         NEW Q \in SUBSET Volumes, NEW t, Drafted(c, t, ids, Q),
         NEW a \in Range(s.passages), NEW b \in Range(t.passages)
  PROVE  a.id = b.id <=> a.volume = b.volume /\ a.text = b.text
<1>1. PICK v \in R : a \in PassagesOf(v, Structure(c[v]), ids)
  BY DEF Drafted, RowsAre
<1>2. PICK u \in Q : b \in PassagesOf(u, Structure(c[u]), ids)
  BY DEF Drafted, RowsAre
<1> DEFINE found == Structure(c[v])
           other == Structure(c[u])
<1>3. Divided(c[v], found) /\ (v = u => other = found)
  BY FoundIs
<1>4. a \in PassagesOf(v, found, ids) /\ b \in PassagesOf(u, other, ids)
  BY <1>1, <1>2
<1> HIDE DEF found, other
<1> QED
  BY <1>3, <1>4, OneId

-----------------------------------------------------------------------------
(* The pages of a row are those of its text.                               *)
LEMMA RowPages ==
  ASSUME NEW pages \in Seq(Seq(Classes)), NEW found, Divided(pages, found), NEW v, NEW ids,
         NEW row \in PassagesOf(v, found, ids)
  PROVE  /\ row.volume = v /\ row.start \in 1 .. Len(pages) /\ row.end \in 1 .. Len(pages)
         /\ row.start \in PrintedOn(row.text) /\ row.end \in PrintedOn(row.text)
         /\ PrintedOn(row.text) \subseteq row.start .. row.end
<1>1. PICK w \in 1 .. Len(found.works) : \E i \in 1 .. Len(found.passages[w]) : row = PassageAt(v, found, w, i, ids)
  BY DEF PassagesOf
<1>2. PICK i \in 1 .. Len(found.passages[w]) : row = PassageAt(v, found, w, i, ids)
  BY <1>1
<1>3. /\ row.volume = v /\ row.start = found.passages[w][i].start /\ row.end = found.passages[w][i].end
      /\ row.text = found.passages[w][i].text
  BY <1>2 DEF PassageAt
<1>4. ASSUME NEW passage, passage = found.passages[w][i]
      PROVE  /\ passage.start \in 1 .. Len(pages) /\ passage.end \in 1 .. Len(pages)
             /\ passage.start \in PrintedOn(passage.text) /\ passage.end \in PrintedOn(passage.text)
             /\ PrintedOn(passage.text) \subseteq passage.start .. passage.end
  BY <1>4, PassagePages
<1> QED
  BY <1>3, <1>4

(* The links of a row lead to the pages of its text.                       *)
CitesItsPages(rows, row) ==
  LET links == {link \in rows.links : link.passage = row.id}
      linked == {page \in Range(rows.pages) : \E link \in links : link.page = page.id}
      printed == {place[1] : place \in Range(row.text)}
  IN /\ {page.page : page \in linked} = Min(printed) .. Max(printed)
     /\ \A page \in linked : page.volume = row.volume

(* The links of an inserted passage lead to the pages of its text.         *)
LEMMA CitationsFind ==
  ASSUME NEW c \in Merged, NEW R \in SUBSET Volumes, NEW Q \in SUBSET R, NEW ids,
         NEW rows, Inserted(c, rows, ids, R, Q), NEW row \in Range(rows.passages)
  PROVE  CitesItsPages(rows, row)
<1> DEFINE links == {link \in rows.links : link.passage = row.id}
           linked == {page \in Range(rows.pages) : \E link \in links : link.page = page.id}
<1>1. CitesItsPages(rows, row) <=>
        /\ {page.page : page \in linked} = Min(PrintedOn(row.text)) .. Max(PrintedOn(row.text))
        /\ \A page \in linked : page.volume = row.volume
  BY DEF CitesItsPages, PrintedOn
<1>2. /\ \A link : link \in links <=> link \in rows.links /\ link.passage = row.id
      /\ \A page : page \in linked <=> page \in Range(rows.pages) /\ \E link \in links : link.page = page.id
  OBVIOUS
<1> HIDE DEF links, linked
<1> DEFINE F(v) == Structure(c[v])
           printed == PrintedOn(row.text)
<1>3. row \in PassagesIn(c, Q, ids)
  BY DEF Inserted, RowsAre
<1>4. PICK v \in Q : row \in PassagesOf(v, F(v), ids)
  BY <1>3 DEF PassagesIn
<1> DEFINE pages == c[v]
           found == F(v)
           n == Len(pages)
<1>5. pages \in Seq(Seq(Classes)) /\ Divided(pages, found) /\ row \in PassagesOf(v, found, ids)
  BY <1>4, FoundIs
<1>6. Range(rows.pages) = PagesIn(c, R, ids) /\ rows.links = {link \in LinksIn(c, R, ids) : link.passage \in IdsOf(PassagesIn(c, Q, ids))}
  BY DEF Inserted, RowsAre
<1>7. ASSUME NEW link
      PROVE  link \in links <=> \E p \in row.start .. row.end : link = LinkTo(row, p, ids)
  <2>1. ASSUME link \in links PROVE \E p \in row.start .. row.end : link = LinkTo(row, p, ids)
    <3>1. link \in LinksIn(c, R, ids) /\ link.passage = row.id
      BY <1>2, <1>6, <2>1
    <3>2. PICK u \in R : link \in LinksFrom(PassagesOf(u, F(u), ids), ids)
      BY <3>1 DEF LinksIn
    <3>3. PICK other \in PassagesOf(u, F(u), ids) : \E p \in other.start .. other.end : link = LinkTo(other, p, ids)
      BY <3>2 DEF LinksFrom
    <3>4. other.id = row.id
      BY <3>1, <3>3 DEF LinkTo
    <3> DEFINE otherFound == F(u)
    <3>5. other \in PassagesOf(u, otherFound, ids) /\ (v = u => otherFound = found)
      OBVIOUS
    <3> HIDE DEF otherFound, found, pages
    <3>6. other = row
      BY <1>5, <3>4, <3>5, PassageRowsDiffer
    <3> QED
      BY <3>3, <3>6
  <2>2. ASSUME NEW p \in row.start .. row.end, link = LinkTo(row, p, ids) PROVE link \in links
    <3>1. link \in LinksFrom(PassagesOf(v, found, ids), ids)
      BY <1>5, <2>2 DEF LinksFrom
    <3>2. link \in LinksIn(c, R, ids)
      BY <3>1 DEF LinksIn
    <3>3. link.passage = row.id /\ row.id \in IdsOf(PassagesIn(c, Q, ids))
      BY <1>3, <2>2 DEF LinkTo, IdsOf
    <3> QED
      BY <1>2, <1>6, <3>2, <3>3
  <2> QED
    BY <2>1, <2>2
<1>8. /\ row.volume = v /\ row.start \in 1 .. n /\ row.end \in 1 .. n
      /\ row.start \in printed /\ row.end \in printed /\ printed \subseteq row.start .. row.end
  <2> HIDE DEF pages, found
  <2> QED
    BY <1>5, RowPages
<1>9. n \in Nat
  BY <1>5, PagesHave
<1> HIDE DEF printed, n
<1>10. row.start \in Nat /\ row.end \in Nat /\ \A p \in row.start .. row.end : p \in 1 .. n
  BY <1>8, <1>9
<1>11. Min(printed) = row.start /\ Max(printed) = row.end
  <2>1. \A p \in printed : p \in Nat /\ row.start <= p /\ p <= row.end
    BY <1>8, <1>10
  <2>2. \A m \in printed : (\A p \in printed : m <= p) => m = row.start
    BY <1>8, <1>10, <2>1
  <2>3. \A m \in printed : (\A p \in printed : m >= p) => m = row.end
    BY <1>8, <1>10, <2>1
  <2>4. Min(printed) = row.start
    BY <1>8, <2>1, <2>2 DEF Min
  <2>5. Max(printed) = row.end
    BY <1>8, <1>10, <2>1, <2>3 DEF Max
  <2> QED
    BY <2>4, <2>5
<1>12. ASSUME NEW page
       PROVE  page \in linked <=> \E p \in row.start .. row.end : page = PageAt(v, p, ids)
  <2>1. ASSUME page \in linked PROVE \E p \in row.start .. row.end : page = PageAt(v, p, ids)
    <3>1. page \in PagesIn(c, R, ids) /\ \E link \in links : link.page = page.id
      BY <1>2, <1>6, <2>1
    <3>2. PICK p \in row.start .. row.end : LinkTo(row, p, ids).page = page.id
      BY <1>7, <3>1
    <3>3. PICK u \in R : page \in PagesOf(u, c[u], ids)
      BY <3>1 DEF PagesIn
    <3>4. PICK q \in 1 .. Len(c[u]) : page = PageAt(u, q, ids)
      BY <3>3 DEF PagesOf
    <3>5. Id(ids, PageKey(v, p)) = Id(ids, PageKey(u, q))
      BY <1>8, <3>2, <3>4 DEF LinkTo, PageAt
    <3>6. v = u /\ p = q
      BY <3>5, PageTells
    <3> QED
      BY <3>4, <3>6
  <2>2. ASSUME NEW p \in row.start .. row.end, page = PageAt(v, p, ids) PROVE page \in linked
    <3>1. page \in PagesOf(v, pages, ids)
      BY <1>10, <2>2 DEF PagesOf, n
    <3>2. page \in PagesIn(c, R, ids)
      BY <3>1 DEF PagesIn
    <3>3. LinkTo(row, p, ids) \in links /\ LinkTo(row, p, ids).page = page.id
      BY <1>7, <1>8, <2>2 DEF LinkTo, PageAt
    <3> QED
      BY <1>2, <1>6, <3>2, <3>3
  <2> QED
    BY <2>1, <2>2
<1>13. \A p : PageAt(v, p, ids).page = p /\ PageAt(v, p, ids).volume = v
  BY DEF PageAt
<1>14. {page.page : page \in linked} = row.start .. row.end
  <2>1. ASSUME NEW page \in linked PROVE page.page \in row.start .. row.end
    BY <1>12, <1>13
  <2>2. ASSUME NEW p \in row.start .. row.end PROVE p \in {page.page : page \in linked}
    <3>1. PageAt(v, p, ids) \in linked /\ PageAt(v, p, ids).page = p
      BY <1>12, <1>13
    <3> QED
      BY <3>1
  <2> QED
    BY <2>1, <2>2
<1>15. \A page \in linked : page.volume = row.volume
  BY <1>8, <1>12, <1>13
<1> QED
  BY <1>1, <1>11, <1>14, <1>15 DEF printed

-----------------------------------------------------------------------------
(* Sequences with the same members in the same places are one.             *)
LEMMA SameSequence ==
  ASSUME NEW s, IsSequence(s), NEW t, IsSequence(t), Len(s) = Len(t),
         \A k \in 1 .. Len(s) : s[k] = t[k]
  PROVE  s = t
<1>1. s = [k \in 1 .. Len(s) |-> s[k]] /\ t = [k \in 1 .. Len(t) |-> t[k]]
  BY SequenceHas
<1> QED
  BY <1>1

(* A set of one, as a sequence.                                            *)
LEMMA OneMember ==
  ASSUME NEW x
  PROVE  SetToSeq({x}) = <<x>>
<1>1. Cardinality({x}) = 1
  BY FS_Singleton
<1>2. /\ <<x>> \in [1 .. 1 -> {x}] /\ IsInjective(<<x>>)
      /\ \A f \in [1 .. 1 -> {x}] : f = <<x>>
  BY DEF IsInjective
<1> QED
  BY <1>1, <1>2 DEF SetToSeq

(* A chain of rows is walked from its first to its last.                   *)
LEMMA WalkIs ==
  ASSUME NEW chain, IsSequence(chain), OneEach(chain), NEW rows, rows = Range(chain),
         \A k \in 1 .. Len(chain) :
           /\ chain[k].id # NoId
           /\ chain[k].prev = IF k = 1 THEN NoId ELSE chain[k - 1].id
           /\ chain[k].next = IF k = Len(chain) THEN NoId ELSE chain[k + 1].id
  PROVE  Walk(rows) = chain
<1> DEFINE n == Len(chain)
           prefix(k) == [j \in 1 .. k |-> chain[j]]
<1>1. n \in Nat /\ DOMAIN chain = 1 .. n /\ \A x : x \in rows <=> \E k \in 1 .. n : chain[k] = x
  BY SequenceHas
<1>2. \A j, k \in 1 .. n : chain[j].id = chain[k].id => j = k
  BY DEF OneEach
<1>3. \A k \in 1 .. n :
        /\ chain[k].id # NoId
        /\ chain[k].prev = IF k = 1 THEN NoId ELSE chain[k - 1].id
        /\ chain[k].next = IF k = n THEN NoId ELSE chain[k + 1].id
  OBVIOUS
<1> HIDE DEF n
<1>4. Cardinality(rows) = n
  <2> DEFINE f == [k \in 1 .. n |-> chain[k]]
  <2>1. f \in Bijection(1 .. n, rows)
    BY <1>1, <1>2 DEF Bijection, Injection, Surjection, IsInjective
  <2>2. ExistsBijection(1 .. n, rows)
    BY <2>1 DEF ExistsBijection
  <2>3. IsFiniteSet(1 .. n) /\ Cardinality(1 .. n) = n
    BY <1>1, FS_Interval
  <2> QED
    BY <2>2, <2>3, FS_Bijection
<1>5. PICK run : /\ run[0] = <<>> /\ Walk(rows) = run[n]
                 /\ \A k \in 1 .. n : run[k] = Onward(rows, run[k - 1])
  BY <1>1, <1>4, WalkRuns
<1>6. ASSUME NEW k \in 0 .. n
      PROVE  /\ IsSequence(prefix(k)) /\ Len(prefix(k)) = k
             /\ \A j \in 1 .. k : prefix(k)[j] = chain[j]
  <2> DEFINE p == prefix(k)
  <2>1. k \in Nat /\ DOMAIN p = 1 .. k /\ p = [j \in 1 .. k |-> p[j]] /\ \A j \in 1 .. k : p[j] = chain[j]
    BY <1>1
  <2> HIDE DEF p
  <2>2. IsSequence(p) /\ Len(p) = k
    BY <2>1, FunctionIsSequence
  <2> QED
    BY <2>1, <2>2 DEF p
<1> HIDE DEF prefix
<1>7. ASSUME NEW k \in 1 .. n
      PROVE  Onward(rows, prefix(k - 1)) = prefix(k)
  <2> DEFINE walked == prefix(k - 1)
             x == chain[k]
  <2>1. k - 1 \in 0 .. n /\ k \in 0 .. n /\ k - 1 \in Nat
    BY <1>1
  <2>2. /\ IsSequence(walked) /\ Len(walked) = k - 1 /\ \A j \in 1 .. k - 1 : walked[j] = chain[j]
    BY <1>6, <2>1
  <2>3. walked = <<>> <=> k = 1
    BY <2>1, <2>2, SequenceHas
  <2>4. Following(rows, walked) = {x}
    <3>1. CASE k = 1
      <4>1. \A m \in 1 .. n : chain[m].prev = NoId => m = 1
        <5> TAKE m \in 1 .. n
        <5>1. m # 1 => m - 1 \in 1 .. n
          BY <1>1
        <5> QED
          BY <1>3, <5>1
      <4>2. \A row \in rows : row.prev = NoId => row = x
        BY <1>1, <3>1, <4>1
      <4>3. x \in rows /\ x.prev = NoId
        BY <1>1, <1>3, <3>1
      <4>4. Following(rows, walked) = {row \in rows : row.prev = NoId}
        BY <2>3, <3>1 DEF Following
      <4> QED
        BY <4>2, <4>3, <4>4
    <3>2. CASE k # 1
      <4>1. k - 1 \in 1 .. n /\ k - 1 \in 1 .. k - 1 /\ k - 1 # n /\ (k - 1) + 1 = k
        BY <1>1, <3>2
      <4>2. Last(walked) = chain[k - 1]
        BY <2>2, <4>1 DEF Last
      <4>3. chain[k - 1].next = x.id
        BY <1>3, <4>1
      <4>4. \A row \in rows : row.id = x.id => row = x
        BY <1>1, <1>2
      <4>5. x \in rows
        BY <1>1
      <4>6. Following(rows, walked) = {row \in rows : row.id = x.id}
        BY <2>3, <3>2, <4>2, <4>3 DEF Following
      <4> QED
        BY <4>4, <4>5, <4>6
    <3> QED
      BY <3>1, <3>2
  <2>5. Onward(rows, walked) = walked \o <<x>>
    BY <2>4, OneMember DEF Onward
  <2> HIDE DEF walked, x
  <2>6. /\ IsSequence(<<x>>) /\ Len(<<x>>) = 1 /\ <<x>>[1] = x
    BY AppendIs, EmptyIs DEF IsSequence, Range
  <2> DEFINE t == walked \o <<x>>
             p == prefix(k)
  <2>7. /\ IsSequence(t) /\ Len(t) = (k - 1) + 1
        /\ \A j \in 1 .. k - 1 : t[j] = walked[j]
        /\ \A j \in 1 .. 1 : t[(k - 1) + j] = <<x>>[j]
    <3> DEFINE one == <<x>>
    <3>1. IsSequence(one) /\ Len(one) = 1
      BY <2>6
    <3> HIDE DEF one
    <3>2. /\ IsSequence(walked \o one) /\ Len(walked \o one) = Len(walked) + Len(one)
          /\ \A j \in 1 .. Len(walked) : (walked \o one)[j] = walked[j]
          /\ \A j \in 1 .. Len(one) : (walked \o one)[Len(walked) + j] = one[j]
      <4>1. IsSequence(walked) /\ IsSequence(one)
        BY <2>2, <3>1
      <4> QED
        BY <4>1, ConcatIs
    <3>3. t = walked \o one
      BY DEF one
    <3> HIDE DEF t
    <3> QED
      BY <2>2, <3>1, <3>2, <3>3 DEF one
  <2>8. /\ IsSequence(p) /\ Len(p) = k /\ \A j \in 1 .. k : p[j] = chain[j]
    BY <1>6, <2>1
  <2> HIDE DEF t, p
  <2>9. \A j \in 1 .. k : j = k \/ j \in 1 .. k - 1
    BY <2>1
  <2>10. t[k] = x
    BY <2>1, <2>6, <2>7
  <2>11. \A j \in 1 .. k : t[j] = p[j]
    BY <2>2, <2>7, <2>8, <2>9, <2>10 DEF x
  <2>12. Len(t) = k
    BY <2>1, <2>7
  <2>13. t = p
    BY <2>7, <2>8, <2>11, <2>12, SameSequence
  <2> QED
    BY <2>5, <2>13 DEF walked, t, p
<1> DEFINE X == {k \in 0 .. n : run[k] = prefix(k)}
<1>8. 0 \in X
  <2>1. 0 \in 0 .. n
    BY <1>1
  <2>2. prefix(0) = <<>>
    BY <1>6, <2>1, SequenceHas
  <2> QED
    BY <1>5, <2>1, <2>2
<1>9. ASSUME NEW k \in 1 .. n, k - 1 \in X PROVE k \in X
  <2>1. run[k - 1] = prefix(k - 1) /\ k \in 0 .. n
    BY <1>1, <1>9
  <2> QED
    BY <1>5, <1>7, <2>1
<1> HIDE DEF X
<1>10. \A k \in 0 .. n : k \in X
  BY <1>1, <1>8, <1>9, Inductively
<1>11. n \in 0 .. n
  BY <1>1
<1>12. run[n] = prefix(n)
  BY <1>10, <1>11 DEF X
<1>13. prefix(n) = chain
  <2>1. IsSequence(prefix(n)) /\ Len(prefix(n)) = n /\ \A j \in 1 .. n : prefix(n)[j] = chain[j]
    BY <1>6, <1>11
  <2> QED
    BY <2>1, SameSequence DEF n
<1> QED
  BY <1>5, <1>12, <1>13

-----------------------------------------------------------------------------
(* The work of a passage.                                                  *)
LEMMA WorkOfIs ==
  ASSUME NEW c \in Merged, NEW R \in SUBSET Volumes, NEW Q \in SUBSET R, NEW ids,
         Inserted(c, db, ids, R, Q), NEW v \in R, NEW found, found = Structure(c[v]),
         NEW w \in 1 .. Len(found.works), NEW i \in 1 .. Len(found.passages[w])
  PROVE  WorkOf(PassageAt(v, found, w, i, ids)) = WorkId(v, found.works[w], ids)
<1> DEFINE row == PassageAt(v, found, w, i, ids)
           work == WorkId(v, found.works[w], ids)
           key == found.passages[w][i].section
           S == Range(db.sections)
<1>1. row.section = Id(ids, SectionKey(work, key))
  BY DEF PassageAt
<1>2. c[v] \in Seq(Seq(Classes)) /\ Divided(c[v], found)
  BY FoundIs
<1>3. row \in PassagesOf(v, found, ids)
  BY DEF PassagesOf
<1> HIDE DEF row
<1>4. row.section \in IdsOf(SectionsOf(v, found, ids))
  BY <1>2, <1>3, SectionsMeet
<1>5. IdsOf(SectionsOf(v, found, ids)) \subseteq IdsOf(SectionsIn(c, R, ids))
  BY DEF IdsOf, SectionsIn
<1>6. row.section \in IdsOf(S) /\ S \subseteq SectionsIn(c, R, ids)
  BY <1>4, <1>5 DEF Inserted
<1> HIDE DEF S, work, key
<1>7. PICK s \in S : s.id = row.section
  BY <1>6 DEF IdsOf
<1>8. ASSUME NEW t \in S, t.id = row.section PROVE t.work = work
  <2>1. PICK u \in R : t \in SectionsOf(u, Structure(c[u]), ids)
    BY <1>6 DEF SectionsIn
  <2> DEFINE other == Structure(c[u])
  <2>2. PICK x \in 1 .. Len(other.works) : \E j \in 1 .. Len(other.sections[x]) :
               t = SectionRow(WorkId(u, other.works[x], ids), other.sections[x][j], ids)
    BY <2>1 DEF SectionsOf
  <2>3. PICK j \in 1 .. Len(other.sections[x]) :
               t = SectionRow(WorkId(u, other.works[x], ids), other.sections[x][j], ids)
    BY <2>2
  <2> DEFINE otherWork == WorkId(u, other.works[x], ids)
             otherKey == other.sections[x][j].key
  <2>4. t.id = Id(ids, SectionKey(otherWork, otherKey)) /\ t.work = otherWork
    BY <2>3 DEF SectionRow
  <2> HIDE DEF otherWork, otherKey
  <2>5. Id(ids, SectionKey(work, key)) = Id(ids, SectionKey(otherWork, otherKey))
    BY <1>1, <1>8, <2>4
  <2> QED
    BY <2>4, <2>5, SectionTells
<1>9. (CHOOSE t \in S : t.id = row.section) \in S /\ (CHOOSE t \in S : t.id = row.section).id = row.section
  BY <1>7
<1>10. WorkOf(row) = (CHOOSE t \in S : t.id = row.section).work
  BY DEF WorkOf, S
<1>11. WorkOf(row) = work
  BY <1>8, <1>9, <1>10
<1> QED
  BY <1>11 DEF row, work

(* The only work of a key that can have text.                              *)
Speaks(v, found, w, x) ==
  /\ WorkKey(v, found.works[x]) = WorkKey(v, found.works[w])
  /\ found.works[x].start = found.works[w].start
  /\ \A y \in 1 .. Len(found.works) :
       WorkKey(v, found.works[y]) = WorkKey(v, found.works[w]) /\ y # x => found.passages[y] = <<>>
(* Of the works of one key, one at most has text.                          *)
LEMMA OneWithText ==
  ASSUME NEW pages, NEW found, Divided(pages, found), NEW v, NEW w \in 1 .. Len(found.works)
  PROVE  \E x \in 1 .. Len(found.works) : Speaks(v, found, w, x)
<1> DEFINE N == Len(found.works)
           same == {x \in 1 .. N : WorkKey(v, found.works[x]) = WorkKey(v, found.works[w])}
<1>1. N \in Nat
  BY SequenceHas DEF Divided
<1>2. ASSUME NEW x \in same, NEW y \in same PROVE found.works[x].start = found.works[y].start
  BY SameStart
<1>3. \A x, y \in 1 .. N : x < y /\ found.works[x].start = found.works[y].start => found.passages[x] = <<>>
  BY DEF Divided
<1>4. w \in same /\ \A x \in same : x \in 1 .. N
  OBVIOUS
<1>5. \A x, y \in same : x < y => found.passages[x] = <<>>
  BY <1>2, <1>3, <1>4
<1>6. \E x \in same : \A y \in same : y # x => found.passages[y] = <<>>
  <2>1. CASE \A x \in same : found.passages[x] = <<>>
    BY <1>4, <2>1
  <2>2. CASE \E x \in same : found.passages[x] # <<>>
    <3>1. PICK x \in same : found.passages[x] # <<>>
      BY <2>2
    <3>2. \A y \in same : y # x => y < x \/ x < y
      BY <1>1, <1>4
    <3> QED
      BY <1>5, <3>1, <3>2
  <2> QED
    BY <2>1, <2>2
<1>7. PICK x \in same : \A y \in same : y # x => found.passages[y] = <<>>
  BY <1>6
<1>8. found.works[x].start = found.works[w].start
  BY <1>2, <1>4
<1> QED
  BY <1>7, <1>8 DEF Speaks

(* The passages of a work, in the database.                                *)
RowsOfWork(work) == {row \in Range(db.passages) : WorkOf(row) = work}

HasOf(v, found, x, ids, Q, rows) ==
  \A row : row \in rows <=>
    v \in Q /\ \E i \in 1 .. Len(found.passages[x]) : row = PassageAt(v, found, x, i, ids)

(* The passages of a work are those of the one that speaks.                *)
LEMMA PassagesOfWork ==
  ASSUME NEW c \in Merged, NEW R \in SUBSET Volumes, NEW Q \in SUBSET R, NEW ids,
         Inserted(c, db, ids, R, Q), NEW v \in R, NEW found, found = Structure(c[v]),
         NEW w \in 1 .. Len(found.works), NEW x \in 1 .. Len(found.works), Speaks(v, found, w, x),
         NEW rows, rows = RowsOfWork(WorkId(v, found.works[w], ids))
  PROVE  HasOf(v, found, x, ids, Q, rows)
<1>1. rows = {row \in Range(db.passages) : WorkOf(row) = WorkId(v, found.works[w], ids)}
  BY DEF RowsOfWork
<1>2. Range(db.passages) = PassagesIn(c, Q, ids)
  BY DEF Inserted, RowsAre
<1>3. WorkId(v, found.works[x], ids) = WorkId(v, found.works[w], ids)
  BY DEF WorkId, Speaks
<1>4. ASSUME v \in Q, NEW i \in 1 .. Len(found.passages[x]) PROVE PassageAt(v, found, x, i, ids) \in rows
  <2>1. PassageAt(v, found, x, i, ids) \in PassagesOf(v, found, ids)
    BY DEF PassagesOf
  <2>2. PassageAt(v, found, x, i, ids) \in Range(db.passages)
    BY <1>2, <1>4, <2>1 DEF PassagesIn
  <2>3. WorkOf(PassageAt(v, found, x, i, ids)) = WorkId(v, found.works[x], ids)
    BY WorkOfIs
  <2> QED
    BY <1>1, <1>3, <2>2, <2>3
<1>5. ASSUME NEW row \in rows
      PROVE  v \in Q /\ \E i \in 1 .. Len(found.passages[x]) : row = PassageAt(v, found, x, i, ids)
  <2>1. PICK u \in Q : row \in PassagesOf(u, Structure(c[u]), ids)
    BY <1>1, <1>2 DEF PassagesIn
  <2> DEFINE other == Structure(c[u])
  <2>2. PICK y \in 1 .. Len(other.works) : \E i \in 1 .. Len(other.passages[y]) : row = PassageAt(u, other, y, i, ids)
    BY <2>1 DEF PassagesOf
  <2>3. PICK i \in 1 .. Len(other.passages[y]) : row = PassageAt(u, other, y, i, ids)
    BY <2>2
  <2>4. WorkOf(PassageAt(u, other, y, i, ids)) = WorkId(u, other.works[y], ids)
    BY WorkOfIs
  <2>5. WorkId(u, other.works[y], ids) = WorkId(v, found.works[w], ids)
    BY <1>1, <2>3, <2>4
  <2>6. u = v /\ WorkKey(u, other.works[y]) = WorkKey(u, found.works[w])
    BY <2>5, WorkTells
  <2>7. other = found /\ y \in 1 .. Len(found.works) /\ i \in 1 .. Len(found.passages[y])
    BY <2>6
  <2>8. found.passages[y] # <<>>
    BY <2>7, EmptyIs
  <2>9. y = x
    BY <2>6, <2>7, <2>8 DEF Speaks
  <2> QED
    BY <2>3, <2>6, <2>7, <2>9
<1> QED
  BY <1>4, <1>5 DEF HasOf

-----------------------------------------------------------------------------
(* Rows that are linked by their ids, from the first to the last.          *)
Linked(n, id, chain) ==
  /\ n \in Nat /\ \A i \in 1 .. n : id[i] # NoId
  /\ \A i, j \in 1 .. n : id[i] = id[j] => i = j
  /\ IsSequence(chain) /\ Len(chain) = n
  /\ \A k \in 1 .. n :
       /\ chain[k].id = id[k]
       /\ chain[k].prev = IF k = 1 THEN NoId ELSE id[k - 1]
       /\ chain[k].next = IF k = n THEN NoId ELSE id[k + 1]

(* Rows that are linked by their ids are walked in their order.            *)
LEMMA LinkedWalk ==
  ASSUME NEW n, NEW id, NEW chain, Linked(n, id, chain)
  PROVE  Walk(Range(chain)) = chain
<1> USE DEF Linked
<1> DEFINE rows == Range(chain)
<1>1. IsSequence(chain) /\ rows = Range(chain)
  OBVIOUS
<1>2. OneEach(chain)
  BY DEF OneEach
<1>3. \A k \in 1 .. Len(chain) :
        /\ chain[k].id # NoId
        /\ chain[k].prev = IF k = 1 THEN NoId ELSE chain[k - 1].id
        /\ chain[k].next = IF k = Len(chain) THEN NoId ELSE chain[k + 1].id
  <2> TAKE k \in 1 .. Len(chain)
  <2>1. (k # 1 => k - 1 \in 1 .. n) /\ (k # n => k + 1 \in 1 .. n)
    OBVIOUS
  <2> QED
    BY <2>1
<1> HIDE DEF Linked, rows
<1>4. Walk(rows) = chain
  BY <1>1, <1>2, <1>3, WalkIs
<1> QED
  BY <1>4 DEF rows

(* The text of a chain of passages.                                        *)
LEMMA ChainText ==
  ASSUME NEW n \in Nat, NEW chain, IsSequence(chain), Len(chain) = n, NEW built, Reads(built), Len(built) = n,
         \A k \in 1 .. n : chain[k].text = built[k].text,
         NEW text, text = Joined([k \in DOMAIN chain |-> chain[k].text])
  PROVE  Rises(text) /\ Range(text) = Printed(built)
<1> DEFINE texts == [i \in DOMAIN chain |-> chain[i].text]
<1>1. DOMAIN chain = 1 .. n
  BY SequenceHas
<1>2. /\ \A i \in 1 .. n : Rises(built[i].text)
      /\ \A i, j \in 1 .. n : i < j => AllBefore(Range(built[i].text), Range(built[j].text))
  BY DEF Reads
<1>3. Printed(built) = UNION {Range(built[i].text) : i \in 1 .. n}
  BY DEF Printed
<1>4. /\ DOMAIN texts = 1 .. n /\ texts = [i \in 1 .. n |-> texts[i]]
      /\ \A i \in 1 .. n : texts[i] = built[i].text
  BY <1>1
<1>5. text = Joined(texts)
  OBVIOUS
<1> HIDE DEF texts
<1>6. IsSequence(texts) /\ Len(texts) = n
  BY <1>4, FunctionIsSequence
<1>7. Rises(text)
  <2>1. \A i \in 1 .. Len(texts) : Rises(texts[i])
    BY <1>2, <1>4, <1>6
  <2>2. \A i, j \in 1 .. Len(texts) : i < j => AllBefore(Range(texts[i]), Range(texts[j]))
    BY <1>2, <1>4, <1>6
  <2>3. IsSequence(texts)
    BY <1>6
  <2> QED
    BY <1>5, <2>1, <2>2, <2>3, RisesJoined
<1>8. Range(text) = Printed(built)
  <2>1. \A i \in 1 .. n : IsSequence(texts[i])
    BY <1>2, <1>4, RisesHas
  <2>2. RowsAre(Joined(texts), UNION {Range(texts[i]) : i \in 1 .. n})
    BY <1>4, <2>1, JoinedEach
  <2>3. UNION {Range(texts[i]) : i \in 1 .. n} = UNION {Range(built[i].text) : i \in 1 .. n}
    BY <1>4
  <2> QED
    BY <1>3, <1>5, <2>2, <2>3 DEF RowsAre
<1> QED
  BY <1>7, <1>8

(* The passages of a work, in the order in which they are walked.          *)
ChainOf(v, found, x, ids, chain) ==
  /\ IsSequence(chain) /\ Len(chain) = Len(found.passages[x]) /\ Walk(Range(chain)) = chain
  /\ \A row : row \in Range(chain) <=>
       \E i \in 1 .. Len(found.passages[x]) : row = PassageAt(v, found, x, i, ids)
  /\ \A i \in 1 .. Len(found.passages[x]) : chain[i].text = found.passages[x][i].text

(* The passages that are found in a work are such a chain.                 *)
LEMMA PassageChain ==
  ASSUME NEW v, NEW pages, NEW found, Divided(pages, found), NEW ids, NEW x \in 1 .. Len(found.works)
  PROVE  \E chain : ChainOf(v, found, x, ids, chain)
<1> DEFINE built == found.passages[x]
           n == Len(built)
           at(i) == PassageAt(v, found, x, i, ids)
           id == [i \in 1 .. n |-> PassageId(v, found, x, i, ids)]
           chain == [i \in 1 .. n |-> at(i)]
<1>1. n \in Nat
  BY SequenceHas DEF Divided, Reads
<1>2. \A i \in 1 .. n : id[i] # NoId
  BY IdTells DEF PassageId
<1>3. \A i, j \in 1 .. n : id[i] = id[j] => i = j
  <2> SUFFICES ASSUME NEW i \in 1 .. n, NEW j \in 1 .. n, id[i] = id[j] PROVE i = j
    OBVIOUS
  <2>1. PassageId(v, found, x, i, ids) = PassageId(v, found, x, j, ids)
    OBVIOUS
  <2> QED
    BY <2>1, PassageTells
<1>4. \A i \in 1 .. n : (i # 1 => i - 1 \in 1 .. n) /\ (i # n => i + 1 \in 1 .. n)
  <2> HIDE DEF n
  <2> QED
    BY <1>1
<1>5. \A i \in 1 .. n :
        /\ at(i).id = id[i] /\ at(i).text = built[i].text
        /\ at(i).prev = IF i = 1 THEN NoId ELSE id[i - 1]
        /\ at(i).next = IF i = n THEN NoId ELSE id[i + 1]
  BY <1>4 DEF PassageAt
<1> HIDE DEF n, at, built, id
<1>6. DOMAIN chain = 1 .. n /\ chain = [i \in 1 .. n |-> chain[i]] /\ \A i \in 1 .. n : chain[i] = at(i)
  OBVIOUS
<1> HIDE DEF chain
<1>7. IsSequence(chain) /\ Len(chain) = n
  BY <1>1, <1>6, FunctionIsSequence
<1>8. \A k \in 1 .. n :
        /\ chain[k].id = id[k]
        /\ chain[k].prev = IF k = 1 THEN NoId ELSE id[k - 1]
        /\ chain[k].next = IF k = n THEN NoId ELSE id[k + 1]
  BY <1>5, <1>6
<1>9. Walk(Range(chain)) = chain
  <2>1. Linked(n, id, chain)
    BY <1>1, <1>2, <1>3, <1>7, <1>8 DEF Linked
  <2> QED
    BY <2>1, LinkedWalk
<1>10. \A row : row \in Range(chain) <=> \E i \in 1 .. n : row = at(i)
  <2>1. \A row : row \in Range(chain) <=> \E i \in 1 .. n : chain[i] = row
    BY <1>7, SequenceHas
  <2> QED
    BY <1>6, <2>1
<1>11. \A i \in 1 .. n : chain[i].text = built[i].text
  BY <1>5, <1>6
<1>12. ChainOf(v, found, x, ids, chain)
  BY <1>7, <1>9, <1>10, <1>11 DEF ChainOf, n, at, built
<1> QED
  BY <1>12

(* A text of no place is empty.                                            *)
LEMMA NothingReadIs ==
  ASSUME NEW q, Rises(q), Range(q) = {}
  PROVE  q = <<>>
<1>1. IsSequence(q)
  BY RisesHas
<1>2. Len(q) \in Nat /\ (q = <<>> <=> Len(q) = 0) /\ \A k \in 1 .. Len(q) : q[k] \in Range(q)
  BY <1>1, SequenceHas
<1>3. Len(q) # 0 => 1 \in 1 .. Len(q)
  BY <1>2
<1> QED
  BY <1>2, <1>3

(* What a work of the database says: what the work of its key that speaks  *)
(* has, if the volume has its passages.                                    *)
Says(v, found, w, Q, text) ==
  /\ Rises(text)
  /\ \E x \in 1 .. Len(found.works) :
       Speaks(v, found, w, x) /\ Range(text) = IF v \in Q THEN Printed(found.passages[x]) ELSE {}

(* Every work of the database says what it should.                         *)
LEMMA TextIs ==
  ASSUME NEW c \in Merged, NEW R \in SUBSET Volumes, NEW Q \in SUBSET R, NEW ids,
         Inserted(c, db, ids, R, Q), NEW v \in R, NEW found, found = Structure(c[v]),
         NEW w \in 1 .. Len(found.works), NEW text, text = TextOf(WorkId(v, found.works[w], ids))
  PROVE  Says(v, found, w, Q, text)
<1>1. c[v] \in Seq(Seq(Classes)) /\ Divided(c[v], found)
  BY FoundIs
<1>2. PICK x \in 1 .. Len(found.works) : Speaks(v, found, w, x)
  BY <1>1, OneWithText
<1> DEFINE rows == RowsOfWork(WorkId(v, found.works[w], ids))
           textOf(walk) == Joined([n \in DOMAIN walk |-> walk[n].text])
<1>3. text = textOf(Walk(rows))
  BY DEF TextOf, RowsOfWork
<1>4. \A row : row \in rows <=>
        v \in Q /\ \E i \in 1 .. Len(found.passages[x]) : row = PassageAt(v, found, x, i, ids)
  <2>1. rows = RowsOfWork(WorkId(v, found.works[w], ids))
    OBVIOUS
  <2> HIDE DEF rows
  <2>2. HasOf(v, found, x, ids, Q, rows)
    BY <1>2, <2>1, PassagesOfWork
  <2> QED
    BY <2>2 DEF HasOf
<1> HIDE DEF rows
<1>5. CASE v \in Q
  <2>1. PICK chain : ChainOf(v, found, x, ids, chain)
    BY <1>1, PassageChain
  <2>2. /\ IsSequence(chain) /\ Len(chain) = Len(found.passages[x]) /\ Walk(Range(chain)) = chain
        /\ \A row : row \in Range(chain) <=>
             \E i \in 1 .. Len(found.passages[x]) : row = PassageAt(v, found, x, i, ids)
        /\ \A i \in 1 .. Len(found.passages[x]) : chain[i].text = found.passages[x][i].text
    BY <2>1 DEF ChainOf
  <2>3. rows = Range(chain)
    BY <1>4, <1>5, <2>2
  <2>4. text = textOf(chain)
    BY <1>3, <2>2, <2>3
  <2>5. Rises(text) /\ Range(text) = Printed(found.passages[x])
    <3> DEFINE built == found.passages[x]
               n == Len(built)
    <3>1. Reads(built) /\ n \in Nat
      BY <1>1, SequenceHas DEF Divided, Reads
    <3>2. /\ IsSequence(chain) /\ Len(chain) = n /\ Len(built) = n
          /\ \A k \in 1 .. n : chain[k].text = built[k].text
      BY <2>2
    <3> HIDE DEF built, n
    <3> QED
      BY <2>4, <3>1, <3>2, ChainText DEF built
  <2> QED
    BY <1>2, <1>5, <2>5 DEF Says
<1>6. CASE v \notin Q
  <2>1. rows = {}
    BY <1>4, <1>6
  <2>2. IsSequence(<<>>) /\ Len(<<>>) = 0 /\ Range(<<>>) = {} /\ DOMAIN <<>> = {}
    BY EmptyIs
  <2>3. Walk(rows) = <<>>
    <3>1. OneEach(<<>>) /\ \A k \in 1 .. Len(<<>>) : FALSE
      BY <2>2 DEF OneEach
    <3> QED
      BY <2>1, <2>2, <3>1, WalkIs
  <2>4. textOf(<<>>) = Joined(<<>>)
    <3>1. [n \in DOMAIN <<>> |-> <<>>[n].text] = <<>>
      BY <2>2
    <3> QED
      BY <3>1
  <2>5. text = Joined(<<>>)
    BY <1>3, <2>3, <2>4
  <2>6. Rises(Joined(<<>>)) /\ RowsAre(Joined(<<>>), {})
    <3>1. Rises(Joined(<<>>))
      BY <2>2, RisesJoined
    <3>2. \A y : y \in Range(Joined(<<>>)) <=> \E i \in 1 .. Len(<<>>) : y \in Range(<<>>[i])
      BY <2>2, JoinedHas
    <3> QED
      BY <2>2, <3>1, <3>2, RisesHas DEF RowsAre
  <2> QED
    BY <1>2, <1>6, <2>5, <2>6 DEF RowsAre, Says
<1> QED
  BY <1>5, <1>6

-----------------------------------------------------------------------------
(* Of works in the order of their pages, what the earlier says is first.   *)
LEMMA SpokenInOrder ==
  ASSUME NEW pages, NEW found, Divided(pages, found), NEW v,
         NEW w \in 1 .. Len(found.works), NEW x \in 1 .. Len(found.works), Speaks(v, found, w, x),
         NEW u \in 1 .. Len(found.works), NEW y \in 1 .. Len(found.works), Speaks(v, found, u, y),
         WorkKey(v, found.works[w]) # WorkKey(v, found.works[u]),
         found.works[w].start <= found.works[u].start
  PROVE  AllBefore(Printed(found.passages[x]), Printed(found.passages[y]))
<1> DEFINE N == Len(found.works)
<1>1. N \in Nat
  BY SequenceHas DEF Divided
<1>2. \A i, j \in 1 .. N : i < j =>
        /\ AllBefore(Printed(found.passages[i]), Printed(found.passages[j]))
        /\ found.works[i].start <= found.works[j].start
        /\ found.works[i].start = found.works[j].start => found.passages[i] = <<>>
  BY DEF Divided
<1>3. found.works[x].start = found.works[w].start /\ found.works[y].start = found.works[u].start
  BY DEF Speaks
<1>4. WorkKey(v, found.works[x]) # WorkKey(v, found.works[y])
  BY DEF Speaks
<1>5. found.works[x].start \in Nat /\ found.works[y].start \in Nat
  BY DEF Divided
<1> HIDE DEF N
<1>6. x < y \/ y < x
  BY <1>1, <1>4 DEF N
<1>7. CASE y < x
  <2>1. found.works[y].start = found.works[x].start
    BY <1>2, <1>3, <1>5, <1>7 DEF N
  <2>2. found.passages[y] = <<>>
    BY <1>2, <1>7, <2>1 DEF N
  <2>3. Printed(found.passages[y]) = {}
    BY <2>2, NothingReads
  <2> QED
    BY <2>3 DEF AllBefore
<1>8. CASE x < y
  BY <1>2, <1>8 DEF N
<1> QED
  BY <1>6, <1>7, <1>8

(* The k-th work that is read: the row of w, and x has its text.           *)
Spoken(v, found, ids, Q, row, text, w, x) ==
  /\ w \in 1 .. Len(found.works) /\ x \in 1 .. Len(found.works)
  /\ row = WorkRow(v, found.works[w], ids)
  /\ Speaks(v, found, w, x) /\ Rises(text)
  /\ Range(text) = IF v \in Q THEN Printed(found.passages[x]) ELSE {}

(* Every row of a work that is read is one of its volume, and speaks.      *)
LEMMA SpokenIs ==
  ASSUME NEW c \in Merged, NEW R \in SUBSET Volumes, NEW Q \in SUBSET R, NEW ids,
         Inserted(c, db, ids, R, Q), NEW v \in Volumes, NEW found, found = Structure(c[v]),
         NEW row \in Range(db.works), row.volume = v, NEW text, text = TextOf(row.id)
  PROVE  v \in R /\ \E w, x : Spoken(v, found, ids, Q, row, text, w, x)
<1>1. row \in WorksIn(c, R, ids)
  BY DEF Inserted, RowsAre
<1>2. PICK u \in R : row \in WorksOf(u, Structure(c[u]), ids)
  BY <1>1 DEF WorksIn
<1>3. u = v
  BY <1>2 DEF WorksOf, WorkRow
<1>4. PICK w \in 1 .. Len(found.works) : row = WorkRow(v, found.works[w], ids)
  BY <1>2, <1>3 DEF WorksOf
<1>5. text = TextOf(WorkId(v, found.works[w], ids))
  BY <1>4 DEF WorkRow
<1>6. v \in R
  BY <1>3
<1>7. Says(v, found, w, Q, text)
  BY <1>5, <1>6, TextIs
<1>8. PICK x \in 1 .. Len(found.works) :
         Speaks(v, found, w, x) /\ Range(text) = IF v \in Q THEN Printed(found.passages[x]) ELSE {}
  BY <1>7 DEF Says
<1>9. Spoken(v, found, ids, Q, row, text, w, x)
  BY <1>4, <1>7, <1>8 DEF Spoken, Says
<1> QED
  BY <1>6, <1>9

-----------------------------------------------------------------------------
(* What is read of a volume: works of its own, one after the other.        *)
InTheirOrder(works) ==
  \A j, k \in 1 .. Len(works) : j < k /\ works[j].volume = works[k].volume =>
    works[j].start <= works[k].start

WorksKept(works, v, kept) ==
  /\ IsSequence(kept)
  /\ \A k \in 1 .. Len(kept) : kept[k] \in Range(works) /\ kept[k].volume = v
  /\ \A j, k \in 1 .. Len(kept) : j < k =>
       kept[j].id # kept[k].id /\ kept[j].start <= kept[k].start
  /\ \A row \in Range(works) : row.volume = v => \E k \in 1 .. Len(kept) : kept[k] = row

(* What Keep takes of the works.                                           *)
LEMMA WorksRead ==
  ASSUME NEW works, IsSequence(works), OneEach(works), InTheirOrder(works), NEW v
  PROVE  WorksKept(works, v, Keep(works, {row \in Range(works) : row.volume = v}))
<1> DEFINE S == Range(works)
           wanted == {row \in Range(works) : row.volume = v}
           kept == Keep(works, wanted)
<1>1. works \in Seq(S) /\ kept = Keep(works, wanted)
  BY DEF IsSequence
<1>2. Len(works) \in Nat /\ \A x : x \in S <=> \E k \in 1 .. Len(works) : works[k] = x
  BY SequenceHas
<1>3. \A x : x \in wanted <=> x \in S /\ x.volume = v
  OBVIOUS
<1> HIDE DEF S, wanted
<1>4. kept \in Seq(S) /\ \E at : KeptAt(at, kept, works, wanted)
  BY <1>1, KeepIs
<1> HIDE DEF kept
<1>5. PICK at : KeptAt(at, kept, works, wanted)
  BY <1>4
<1>6. /\ at \in [1 .. Len(kept) -> 1 .. Len(works)]
      /\ \A k \in 1 .. Len(kept) : kept[k] = works[at[k]] /\ works[at[k]] \in wanted
      /\ \A j, k \in 1 .. Len(kept) : at[j] < at[k] <=> j < k
      /\ \A i \in 1 .. Len(works) : works[i] \in wanted => \E k \in 1 .. Len(kept) : at[k] = i
  BY <1>5 DEF KeptAt
<1>7. IsSequence(kept) /\ Len(kept) \in Nat
  BY <1>4, SequenceIs
<1>8. \A k \in 1 .. Len(kept) : kept[k] \in S /\ kept[k].volume = v
  BY <1>3, <1>6
<1>9. ASSUME NEW j \in 1 .. Len(kept), NEW k \in 1 .. Len(kept), j < k
      PROVE  kept[j].id # kept[k].id /\ kept[j].start <= kept[k].start
  <2>1. at[j] < at[k] /\ at[j] \in 1 .. Len(works) /\ at[k] \in 1 .. Len(works)
    BY <1>6, <1>9
  <2>2. kept[j] = works[at[j]] /\ kept[k] = works[at[k]] /\ kept[j].volume = kept[k].volume
    BY <1>6, <1>8
  <2>3. at[j] # at[k]
    BY <2>1
  <2>4. kept[j].id # kept[k].id
    BY <2>1, <2>2, <2>3 DEF OneEach
  <2> QED
    BY <2>1, <2>2, <2>4 DEF InTheirOrder
<1>10. ASSUME NEW row \in S, row.volume = v PROVE \E k \in 1 .. Len(kept) : kept[k] = row
  <2>1. PICK i \in 1 .. Len(works) : works[i] = row
    BY <1>2
  <2>2. PICK k \in 1 .. Len(kept) : at[k] = i
    BY <1>3, <1>6, <1>10, <2>1
  <2>3. kept[k] = row
    BY <1>6, <2>1, <2>2
  <2> QED
    BY <2>3
<1>11. WorksKept(works, v, kept)
  BY <1>7, <1>8, <1>9, <1>10 DEF S, WorksKept
<1> QED
  BY <1>11 DEF kept, wanted

(* The works of a volume that are read, and their texts.                   *)
LEMMA ReadIs ==
  ASSUME NEW c \in Merged, NEW R \in SUBSET Volumes, NEW Q \in SUBSET R, NEW ids,
         Inserted(c, db, ids, R, Q), NEW v \in Volumes, NEW text, text = ReadVolume(v)
  PROVE  Rises(text) /\ Range(text) = IF v \in Q THEN BodyPlaces(c[v]) ELSE {}
<1> DEFINE works == db.works
           kept == Keep(works, {row \in Range(works) : row.volume = v})
           texts == [k \in DOMAIN kept |-> TextOf(kept[k].id)]
           n == Len(kept)
<1>1. text = Joined(texts)
  BY DEF ReadVolume
<1>2. /\ RowsAre(works, WorksIn(c, R, ids)) /\ OneEach(works)
      /\ \A j, k \in 1 .. Len(works) : j < k /\ works[j].volume = works[k].volume =>
           works[j].start <= works[k].start
  BY DEF Inserted
<1>3. IsSequence(works) /\ Range(works) = WorksIn(c, R, ids)
  BY <1>2 DEF RowsAre
<1>4. kept = Keep(works, {row \in Range(works) : row.volume = v})
  OBVIOUS
<1> HIDE DEF kept
<1>5. /\ IsSequence(kept)
      /\ \A k \in 1 .. n : kept[k] \in Range(works) /\ kept[k].volume = v
      /\ \A j, k \in 1 .. n : j < k => kept[j].id # kept[k].id /\ kept[j].start <= kept[k].start
      /\ \A row \in Range(works) : row.volume = v => \E k \in 1 .. n : kept[k] = row
  <2> HIDE DEF works
  <2>1. IsSequence(works) /\ OneEach(works) /\ InTheirOrder(works)
    BY <1>2, <1>3 DEF InTheirOrder
  <2>2. WorksKept(works, v, kept)
    BY <1>4, <2>1, WorksRead
  <2> QED
    BY <2>2 DEF WorksKept
<1>6. DOMAIN kept = 1 .. n /\ n \in Nat
  BY <1>5, SequenceHas
<1>7. /\ DOMAIN texts = 1 .. n /\ texts = [k \in 1 .. n |-> texts[k]]
      /\ \A k \in 1 .. n : texts[k] = TextOf(kept[k].id)
  BY <1>6
<1> HIDE DEF texts, n
<1>8. IsSequence(texts) /\ Len(texts) = n
  BY <1>6, <1>7, FunctionIsSequence
<1> DEFINE found == Structure(c[v])
<1>9. found = Structure(c[v])
  OBVIOUS
<1>10. c[v] \in Seq(Seq(Classes)) /\ Divided(c[v], found)
  BY FoundIs
<1> HIDE DEF found
<1>11. \A k \in 1 .. n : v \in R /\ \E w, x : Spoken(v, found, ids, Q, kept[k], texts[k], w, x)
  <2> TAKE k \in 1 .. n
  <2>1. kept[k] \in Range(db.works) /\ kept[k].volume = v /\ texts[k] = TextOf(kept[k].id)
    BY <1>5, <1>7
  <2> QED
    BY <1>9, <2>1, SpokenIs
<1>12. \A k \in 1 .. n : Rises(texts[k])
  BY <1>11 DEF Spoken
<1>13. ASSUME NEW j \in 1 .. n, NEW k \in 1 .. n, j < k
       PROVE  AllBefore(Range(texts[j]), Range(texts[k]))
  <2>1. PICK w, x : Spoken(v, found, ids, Q, kept[j], texts[j], w, x)
    BY <1>11
  <2>2. PICK u, y : Spoken(v, found, ids, Q, kept[k], texts[k], u, y)
    BY <1>11
  <2>3. /\ w \in 1 .. Len(found.works) /\ x \in 1 .. Len(found.works)
        /\ u \in 1 .. Len(found.works) /\ y \in 1 .. Len(found.works)
        /\ Speaks(v, found, w, x) /\ Speaks(v, found, u, y)
        /\ Range(texts[j]) \subseteq Printed(found.passages[x])
        /\ Range(texts[k]) \subseteq Printed(found.passages[y])
    BY <2>1, <2>2 DEF Spoken
  <2>4. /\ kept[j].id = WorkId(v, found.works[w], ids) /\ kept[j].start = found.works[w].start
        /\ kept[k].id = WorkId(v, found.works[u], ids) /\ kept[k].start = found.works[u].start
    BY <2>1, <2>2 DEF Spoken, WorkRow
  <2>5. kept[j].id # kept[k].id /\ kept[j].start <= kept[k].start
    BY <1>5, <1>13
  <2>6. WorkKey(v, found.works[w]) # WorkKey(v, found.works[u])
    BY <2>4, <2>5 DEF WorkId
  <2>7. found.works[w].start <= found.works[u].start
    BY <2>4, <2>5
  <2>8. AllBefore(Printed(found.passages[x]), Printed(found.passages[y]))
    BY <1>10, <2>3, <2>6, <2>7, SpokenInOrder
  <2> QED
    BY <2>3, <2>8 DEF AllBefore
<1>14. Rises(Joined(texts))
  <2>1. IsSequence(texts) /\ \A k \in 1 .. Len(texts) : Rises(texts[k])
    BY <1>8, <1>12
  <2>2. \A j, k \in 1 .. Len(texts) : j < k => AllBefore(Range(texts[j]), Range(texts[k]))
    BY <1>8, <1>13
  <2> QED
    BY <2>1, <2>2, RisesJoined
<1>15. \A place : place \in Range(text) <=> \E k \in 1 .. n : place \in Range(texts[k])
  <2>1. IsSequence(texts) /\ \A k \in 1 .. Len(texts) : IsSequence(texts[k])
    BY <1>8, <1>12, RisesHas
  <2>2. \A place : place \in Range(Joined(texts)) <=> \E k \in 1 .. Len(texts) : place \in Range(texts[k])
    BY <2>1, JoinedHas
  <2> QED
    BY <1>1, <1>8, <2>2
<1>16. CASE v \notin Q
  <2>1. \A k \in 1 .. n : Range(texts[k]) = {}
    BY <1>11, <1>16 DEF Spoken
  <2>2. Range(text) = {}
    BY <1>15, <2>1
  <2> QED
    BY <1>1, <1>14, <1>16, <2>2
<1>17. CASE v \in Q
  <2>1. \A k \in 1 .. n : \E x \in 1 .. Len(found.works) : Range(texts[k]) = Printed(found.passages[x])
    BY <1>11, <1>17 DEF Spoken
  <2>2. \A x \in 1 .. Len(found.works) : Printed(found.passages[x]) \subseteq BodyPlaces(c[v])
    BY <1>10 DEF Divided
  <2>3. Range(text) \subseteq BodyPlaces(c[v])
    BY <1>15, <2>1, <2>2
  <2>4. ASSUME NEW place \in BodyPlaces(c[v]) PROVE place \in Range(text)
    <3>1. PICK w \in 1 .. Len(found.works) : place \in Printed(found.passages[w])
      BY <1>10 DEF Divided
    <3> DEFINE row == WorkRow(v, found.works[w], ids)
    <3>2. row \in WorksOf(v, found, ids)
      BY DEF WorksOf
    <3>3. v \in R
      BY <1>17
    <3>4. row \in Range(works) /\ row.volume = v /\ row.id = WorkId(v, found.works[w], ids)
      BY <1>3, <1>9, <3>2, <3>3 DEF WorksIn, WorkRow
    <3> HIDE DEF row
    <3>5. PICK k \in 1 .. n : kept[k] = row
      BY <1>5, <3>4 DEF n
    <3>6. PICK u, x : Spoken(v, found, ids, Q, kept[k], texts[k], u, x)
      BY <1>11
    <3>7. /\ u \in 1 .. Len(found.works) /\ x \in 1 .. Len(found.works) /\ Speaks(v, found, u, x)
          /\ Range(texts[k]) = Printed(found.passages[x])
          /\ kept[k].id = WorkId(v, found.works[u], ids)
      BY <1>17, <3>6 DEF Spoken, WorkRow
    <3>8. WorkKey(v, found.works[w]) = WorkKey(v, found.works[u])
      <4>1. WorkId(v, found.works[w], ids) = WorkId(v, found.works[u], ids)
        BY <3>4, <3>5, <3>7
      <4> QED
        BY <4>1, WorkTells
    <3>9. found.passages[w] # <<>>
      BY <3>1, NothingReads
    <3>10. w = x
      BY <3>7, <3>8, <3>9 DEF Speaks
    <3> QED
      BY <1>15, <3>1, <3>7, <3>10
  <2> QED
    BY <1>1, <1>14, <1>17, <2>3, <2>4
<1> QED
  BY <1>16, <1>17

(* The only text that rises through the body of a volume is its body.      *)
LEMMA SortedIsBody ==
  ASSUME NEW pages \in Seq(Seq(Classes)), NEW text, Rises(text), Range(text) = BodyPlaces(pages)
  PROVE  text = Body(pages)
<1> DEFINE body == BodyPlaces(pages)
           before == [place \in body |-> {other \in body : PairBefore(other, place)}]
<1>1. Body(pages) = InOrder(before)
  BY DEF Body, BodyPlaces
<1>2. body \subseteq Places(pages)
  BY DEF BodyPlaces
<1>3. IsFiniteSet(body)
  BY <1>2, PlacesAreFinite, FS_Subset
<1>4. /\ IsSequence(text) /\ Len(text) \in Nat /\ body \subseteq Nat \X Nat
      /\ \A i, j \in 1 .. Len(text) : i < j => PairBefore(text[i], text[j])
  BY RisesHas
<1> HIDE DEF body
<1>5. /\ DOMAIN before = body
      /\ \A x, y \in body : y \in before[x] <=> PairBefore(y, x)
      /\ \A x \in body : before[x] \subseteq body
  OBVIOUS
<1> HIDE DEF before
<1>6. Orders(before)
  <2>1. /\ \A a \in body : ~PairBefore(a, a)
        /\ \A a, b \in body : a = b \/ PairBefore(a, b) \/ PairBefore(b, a)
        /\ \A a, b, d \in body : PairBefore(a, b) /\ PairBefore(b, d) => PairBefore(a, d)
    BY <1>4, PairOrder
  <2> QED
    BY <1>5, <2>1 DEF Orders
<1>7. text \in Seq(DOMAIN before) /\ \A x \in DOMAIN before : \E k \in 1 .. Len(text) : text[k] = x
  BY <1>4, <1>5, SequenceHas DEF body, IsSequence
<1>8. \A j, k \in 1 .. Len(text) : j < k => text[j] \in before[text[k]]
  BY <1>4, <1>5, SequenceHas DEF body
<1>9. Sorts(text, before)
  BY <1>6, <1>7, <1>8, SortsForward
<1>10. IsFiniteSet(DOMAIN before)
  BY <1>3, <1>5
<1> QED
  BY <1>1, <1>6, <1>9, <1>10, SortsIsOne

(* The database reads as the pages: no text of a volume that failed, the   *)
(* body of any other.                                                      *)
LEMMA ReadsAsBody ==
  ASSUME NEW c \in Merged, NEW R \in SUBSET Volumes, NEW Q \in SUBSET R, NEW ids,
         Inserted(c, db, ids, R, Q), NEW v \in Volumes
  PROVE  ReadVolume(v) = IF v \in Q THEN Body(c[v]) ELSE <<>>
<1> DEFINE text == ReadVolume(v)
<1>1. text = ReadVolume(v)
  OBVIOUS
<1> HIDE DEF text
<1>2. Rises(text) /\ Range(text) = IF v \in Q THEN BodyPlaces(c[v]) ELSE {}
  <2> DEFINE body == IF v \in Q THEN BodyPlaces(c[v]) ELSE {}
  <2>1. Inserted(c, db, ids, R, Q)
    OBVIOUS
  <2>2. Rises(text)
    BY <1>1, <2>1, ReadIs
  <2>3. Range(text) = body
    BY <1>1, <2>1, ReadIs
  <2> QED
    BY <2>2, <2>3
<1>3. c[v] \in Seq(Seq(Classes))
  BY DEF Merged
<1>4. CASE v \in Q
  <2>1. Range(text) = BodyPlaces(c[v])
    BY <1>2, <1>4
  <2> QED
    BY <1>1, <1>2, <1>3, <1>4, <2>1, SortedIsBody
<1>5. CASE v \notin Q
  <2>1. Range(text) = {}
    BY <1>2, <1>5
  <2> QED
    BY <1>1, <1>2, <1>5, <2>1, NothingReadIs
<1> QED
  BY <1>4, <1>5

-----------------------------------------------------------------------------
Writing == {"recognise", "saveRegistry", "writeStructure", "writeReport", "writeLatest"}

(* The registry in memory goes on from the file; the file has all of it    *)
(* before the structure is written; the running assembly has no report.    *)
IInv ==
  /\ attempt \in Nat /\ DOMAIN snapshots \subseteq 1 .. attempt
  /\ pc \in Writing => attempt # 0 /\ KeepsAll(memory, registry)
  /\ pc \in {"writeStructure", "writeReport", "writeLatest"} => memory = registry
  /\ pc \in Writing \ {"writeLatest"} => attempt \notin DOMAIN snapshots

-----------------------------------------------------------------------------
(* The order of the writes.                                                *)
LEMMA Order ==
  /\ NextStep("recognise") = "saveRegistry"
  /\ NextStep("saveRegistry") = "writeStructure"
  /\ NextStep("writeStructure") = "writeReport"
  /\ NextStep("writeReport") = "writeLatest"
  /\ NextStep("writeLatest") = "done"
<1>1. /\ Len(AfterVolumes) = 4 /\ DOMAIN AfterVolumes = 1 .. 4
      /\ AfterVolumes[1] = "saveRegistry" /\ AfterVolumes[2] = "writeStructure"
      /\ AfterVolumes[3] = "writeReport" /\ AfterVolumes[4] = "writeLatest"
      /\ Head(AfterVolumes) = "saveRegistry"
  BY DEF AfterVolumes
<1>2. Last(AfterVolumes) = "writeLatest"
  BY <1>1 DEF Last
<1>3. /\ (CHOOSE i \in DOMAIN AfterVolumes : AfterVolumes[i] = "saveRegistry") = 1
      /\ (CHOOSE i \in DOMAIN AfterVolumes : AfterVolumes[i] = "writeStructure") = 2
      /\ (CHOOSE i \in DOMAIN AfterVolumes : AfterVolumes[i] = "writeReport") = 3
  BY <1>1
<1> QED
  BY <1>1, <1>2, <1>3 DEF NextStep

(* At the start there is no assembly.                                      *)
LEMMA InitHolds == Init => IInv
BY DEF Init, IInv, Writing

-----------------------------------------------------------------------------
(* A new assembly goes on from the registry file.                          *)
LEMMA CleanKeeps ==
  ASSUME IInv, clean_merged_pages
  PROVE  IInv' /\ KeepsAll(registry', registry)
<1> DEFINE keys == UNION {{PageKey(v, p) : p \in DOMAIN content[v]} : v \in Volumes}
<1> HIDE DEF keys
<1>1. memory' = [key \in DOMAIN registry \cup keys |->
                   IF key \in DOMAIN registry THEN registry[key] ELSE attempt']
  BY DEF clean_merged_pages, keys
<1>2. /\ registry' = memory' /\ attempt' = attempt + 1
      /\ pc' = "recognise" /\ snapshots' = snapshots
  BY DEF clean_merged_pages
<1>3. KeepsAll(registry', registry)
  BY <1>1, <1>2 DEF KeepsAll
<1>4. KeepsAll(memory', registry')
  BY <1>2, ContinuesSelf
<1>5. attempt' \in Nat /\ DOMAIN snapshots' \subseteq 1 .. attempt' /\ attempt' \notin DOMAIN snapshots'
  BY <1>2 DEF IInv
<1> QED
  BY <1>2, <1>3, <1>4, <1>5 DEF IInv

(* A volume adds identifiers to those in memory.                           *)
LEMMA RecogniseKeeps ==
  ASSUME IInv, NEW v \in Volumes, RecogniseVolume(v) \/ VolumeFails(v)
  PROVE  IInv'
<1>1. pc = "recognise" /\ pc' \in {"recognise", "saveRegistry"}
  BY Order DEF RecogniseVolume, VolumeFails, NextVolume, VolumeDone
<1>2. UNCHANGED <<attempt, registry, snapshots>>
  BY DEF RecogniseVolume, VolumeFails, disk
<1>3. KeepsAll(memory', memory)
  <2>1. CASE VolumeFails(v)
    BY <2>1, ContinuesSelf DEF VolumeFails
  <2>2. CASE RecogniseVolume(v)
    <3>1. PICK found : memory' = WithContents(v, found, WithWorks(v, found, memory))
      BY <2>2 DEF RecogniseVolume
    <3>2. KeepsAll(WithWorks(v, found, memory), memory)
      BY RegisterContinues DEF WithWorks
    <3>3. KeepsAll(memory', WithWorks(v, found, memory))
      BY <3>1, RegisterContinues DEF WithContents
    <3> QED
      BY <3>2, <3>3, ContinuesOn
  <2> QED
    BY <2>1, <2>2
<1>4. KeepsAll(memory', registry')
  BY <1>1, <1>2, <1>3, ContinuesOn DEF IInv, Writing
<1> QED
  BY <1>1, <1>2, <1>4 DEF IInv, Writing

(* The writes at the end of an assembly.                                   *)
LEMMA WriteKeeps ==
  ASSUME IInv, SaveRegistry \/ WriteStructure \/ WriteReport \/ WriteLatest
  PROVE  IInv'
<1>1. CASE SaveRegistry
  <2>1. /\ pc = "saveRegistry" /\ pc' = "writeStructure"
        /\ registry' = memory /\ UNCHANGED <<memory, attempt, snapshots>>
    BY <1>1, Order DEF SaveRegistry, Step, assembly
  <2> QED
    BY <2>1, ContinuesSelf DEF IInv, Writing
<1>2. CASE WriteStructure
  <2>1. /\ pc = "writeStructure" /\ pc' = "writeReport"
        /\ UNCHANGED <<memory, registry, attempt, snapshots>>
    BY <1>2, Order DEF WriteStructure, Step, assembly, disk
  <2> QED
    BY <2>1 DEF IInv, Writing
<1>3. CASE WriteReport
  <2>1. /\ pc = "writeReport" /\ pc' = "writeLatest"
        /\ DOMAIN snapshots' = DOMAIN snapshots \cup {attempt}
        /\ UNCHANGED <<memory, registry, attempt>>
    BY <1>3, Order DEF WriteReport, Step, assembly
  <2>2. attempt # 0
    BY <2>1 DEF IInv, Writing
  <2> QED
    BY <2>1, <2>2 DEF IInv, Writing
<1>4. CASE WriteLatest
  <2>1. pc' = "idle" /\ UNCHANGED <<attempt, snapshots>>
    BY <1>4, Order DEF WriteLatest, Step, Ends
  <2> QED
    BY <2>1 DEF IInv, Writing
<1> QED
  BY <1>1, <1>2, <1>3, <1>4

(* An ingest, and a crash, leave registry and assemblies alone.            *)
LEMMA OthersKeep ==
  ASSUME IInv, load_assemble_snapshot \/ Begin \/ Insert \/ Commit \/ Report \/ Crash
  PROVE  IInv' /\ UNCHANGED <<registry, snapshots>>
<1>1. UNCHANGED <<registry, snapshots, attempt>>
  BY DEF load_assemble_snapshot, Begin, Insert, Commit, Report, Crash, disk
<1>2. pc' \notin Writing
  BY DEF load_assemble_snapshot, Begin, Insert, Commit, Report, Crash, Ends, Writing
<1> QED
  BY <1>1, <1>2 DEF IInv, Writing

(* Every step keeps the invariant of the identifiers.                      *)
LEMMA StepKeeps == IInv /\ [Next]_vars => IInv'
<1> SUFFICES ASSUME IInv, [Next]_vars PROVE IInv'
  OBVIOUS
<1>1. CASE UNCHANGED vars
  BY <1>1 DEF vars, assembly, disk, IInv
<1> QED
  BY <1>1, CleanKeeps, RecogniseKeeps, WriteKeeps, OthersKeep DEF Next

(* The invariant of the identifiers.                                       *)
LEMMA Invariance == Spec => []IInv
<1>1. QED
  BY InitHolds, StepKeeps, PTL DEF Spec

-----------------------------------------------------------------------------
(* Once an identifier is in the registry file its key keeps it.            *)
IdentifiersStay == [][KeepsAll(registry', registry)]_vars

(* No step takes an identifier out of the file.                            *)
LEMMA StepKeepsIdentifiers == IInv /\ [Next]_vars => KeepsAll(registry', registry)
<1> SUFFICES ASSUME IInv, [Next]_vars PROVE KeepsAll(registry', registry)
  OBVIOUS
<1>1. CASE UNCHANGED registry
  BY <1>1, ContinuesSelf
<1>2. CASE clean_merged_pages
  BY <1>2, CleanKeeps
<1>3. CASE SaveRegistry
  BY <1>3 DEF SaveRegistry, Step, IInv, Writing
<1>4. CASE ~clean_merged_pages /\ ~SaveRegistry
  <2>1. CASE \E v \in Volumes : RecogniseVolume(v) \/ VolumeFails(v)
    BY <1>1, <2>1 DEF RecogniseVolume, VolumeFails, disk
  <2>2. CASE WriteStructure \/ WriteReport \/ WriteLatest
    BY <1>1, <2>2 DEF WriteStructure, WriteReport, WriteLatest, disk
  <2>3. CASE UNCHANGED vars
    BY <1>1, <2>3 DEF vars, disk
  <2> QED
    BY <1>1, <1>4, <2>1, <2>2, <2>3, OthersKeep DEF Next
<1> QED
  BY <1>2, <1>3, <1>4

(* IdentifiersStay: no command, failure or crash takes an identifier out of*)
(* the registry file or gives its key another one.                         *)
THEOREM IdentifiersKept == Spec => IdentifiersStay
<1>1. QED
  BY StepKeepsIdentifiers, Invariance, PTL DEF Spec, IdentifiersStay

(* An assembly that can be loaded does not change, and when it becomes so  *)
(* every identifier in it is in the registry file.                         *)
AssembliesStay ==
  [][/\ \A a \in DOMAIN snapshots : a \in DOMAIN snapshots' /\ snapshots'[a] = snapshots[a]
     /\ DOMAIN snapshots' # DOMAIN snapshots => memory = registry]_vars

(* No step changes an assembly that can be loaded.                         *)
LEMMA StepKeepsAssemblies ==
  IInv /\ [Next]_vars =>
    /\ \A a \in DOMAIN snapshots : a \in DOMAIN snapshots' /\ snapshots'[a] = snapshots[a]
    /\ DOMAIN snapshots' # DOMAIN snapshots => memory = registry
<1> SUFFICES ASSUME IInv, [Next]_vars
    PROVE /\ \A a \in DOMAIN snapshots : a \in DOMAIN snapshots' /\ snapshots'[a] = snapshots[a]
          /\ DOMAIN snapshots' # DOMAIN snapshots => memory = registry
  OBVIOUS
<1>1. CASE UNCHANGED snapshots
  BY <1>1
<1>2. CASE WriteReport
  <2>1. pc = "writeReport"
    BY <1>2 DEF WriteReport, Step
  <2>2. attempt \notin DOMAIN snapshots /\ memory = registry
    BY <2>1 DEF IInv, Writing
  <2>3. snapshots' = [a \in DOMAIN snapshots \cup {attempt} |->
                        IF a = attempt THEN draft ELSE snapshots[a]]
    BY <1>2 DEF WriteReport
  <2> QED
    BY <2>2, <2>3
<1>3. CASE ~WriteReport
  <2>1. CASE \E v \in Volumes : RecogniseVolume(v) \/ VolumeFails(v)
    BY <1>1, <2>1 DEF RecogniseVolume, VolumeFails, disk
  <2>2. CASE clean_merged_pages \/ SaveRegistry \/ WriteStructure \/ WriteLatest
    BY <1>1, <2>2 DEF clean_merged_pages, SaveRegistry, WriteStructure, WriteLatest, disk
  <2>3. CASE UNCHANGED vars
    BY <1>1, <2>3 DEF vars, disk
  <2> QED
    BY <1>1, <1>3, <2>1, <2>2, <2>3, OthersKeep DEF Next
<1> QED
  BY <1>2, <1>3

(* AssembliesStay: what an ingest has loaded, or a later one loads again,  *)
(* is what its assembly wrote, and no crash separates an assembly that can *)
(* be loaded from its identifiers.                                         *)
THEOREM AssembliesKept == Spec => AssembliesStay
<1>1. QED
  BY StepKeepsAssemblies, Invariance, PTL DEF Spec, AssembliesStay

-----------------------------------------------------------------------------
(* An assembly has the rows of volumes that are done, of all that have not *)
(* failed and of some that have.                                           *)
Gathered(c, s, ids, done) ==
  \E R \in SUBSET done : done \ s.failed \subseteq R /\ Drafted(c, s, ids, R)

(* What the running assembly has collected.                                *)
DraftIs ==
  /\ pc \in Writing =>
       todo \subseteq Volumes /\ draft.failed \subseteq Volumes \ todo /\ Gathered(content, draft, memory, Volumes \ todo)
  /\ pc = "recognise" =>
       /\ todo # {} \/ Volumes = {}
       /\ \A v \in Volumes : \A p \in 1 .. Len(content[v]) : PageKey(v, p) \in DOMAIN memory
  /\ pc \in Writing \ {"recognise"} => todo = {}

(* What can be loaded is complete, by the identifiers of the file.         *)
SnapshotsAre == \A a \in DOMAIN snapshots : Gathered(content, snapshots[a], registry, Volumes)

(* The database, and the transaction that will be it, are what an assembly *)
(* comes to.                                                               *)
IngestIs ==
  /\ pc \in {"begin", "insert", "commit"} => loaded \in DOMAIN snapshots
  /\ pc = "commit" => tx = Rows(loaded, snapshots[loaded])
  /\ db # None => db.from \in DOMAIN snapshots /\ db = Rows(db.from, snapshots[db.from])

TextInv == content \in Contents /\ outcome # "integrity" /\ DraftIs /\ SnapshotsAre /\ IngestIs

-----------------------------------------------------------------------------
(* What may have been merged is pages of blocks.                           *)
LEMMA MergedIs ==
  ASSUME NEW c \in Contents
  PROVE  c \in Merged
BY BuildAssumption DEF Merged

(* What was gathered stays so when there are more identifiers.             *)
LEMMA GatheredStays ==
  ASSUME NEW c \in Contents, NEW s, NEW ids, NEW more, KeepsAll(more, ids),
         NEW done \in SUBSET Volumes, Gathered(c, s, ids, done)
  PROVE  Gathered(c, s, more, done)
<1>1. PICK R \in SUBSET done : done \ s.failed \subseteq R /\ Drafted(c, s, ids, R)
  BY DEF Gathered
<1>2. R \in SUBSET Volumes
  OBVIOUS
<1>3. Drafted(c, s, more, R)
  BY <1>1, <1>2, MergedIs, DraftedStays
<1> QED
  BY <1>1, <1>3 DEF Gathered

(* At the start of an assembly nothing is gathered.                        *)
LEMMA NothingGathered ==
  ASSUME NEW c, NEW ids
  PROVE  Gathered(c, NoDraft, ids, {})
<1>1. RowsAre(<<>>, {})
  BY EmptyIs DEF RowsAre
<1>2. Drafted(c, NoDraft, ids, {})
  <2>1. /\ NoDraft.works = <<>> /\ NoDraft.sections = <<>> /\ NoDraft.passages = <<>>
        /\ NoDraft.pages = <<>> /\ NoDraft.links = <<>> /\ NoDraft.failed = {}
        /\ DOMAIN NoDraft = {"works", "sections", "passages", "pages", "links", "failed"}
    BY DEF NoDraft
  <2>2. {} \ NoDraft.failed = {}
    OBVIOUS
  <2>3. \A T : T = {} => /\ UNION {WorksOf(v, Structure(c[v]), ids) : v \in T} = {}
                         /\ UNION {SectionsOf(v, Structure(c[v]), ids) : v \in T} = {}
                         /\ UNION {PassagesOf(v, Structure(c[v]), ids) : v \in T} = {}
                         /\ UNION {PagesOf(v, c[v], ids) : v \in T} = {}
                         /\ UNION {LinksFrom(PassagesOf(v, Structure(c[v]), ids), ids) : v \in T} = {}
    OBVIOUS
  <2> QED
    BY <1>1, <2>1, <2>2, <2>3 DEF Drafted
<1> QED
  BY <1>2 DEF Gathered

(* A complete assembly comes to rows of all that has not failed.           *)
LEMMA AssemblyRows ==
  ASSUME NEW c \in Contents, NEW s, NEW ids, Gathered(c, s, ids, Volumes), NEW a, NEW rows, rows = Rows(a, s)
  PROVE  \E R \in SUBSET Volumes : Volumes \ s.failed \subseteq R /\ Inserted(c, rows, ids, R, Volumes \ s.failed)
<1>1. PICK R \in SUBSET Volumes : Volumes \ s.failed \subseteq R /\ Drafted(c, s, ids, R)
  BY DEF Gathered
<1>2. Volumes \ s.failed = R \ s.failed
  BY <1>1
<1> DEFINE Q == Volumes \ s.failed
<1>3. Q = R \ s.failed
  BY <1>2
<1> HIDE DEF Q
<1>4. Inserted(c, rows, ids, R, Q)
  BY <1>1, <1>3, MergedIs, RowsInserted
<1> QED
  BY <1>1, <1>4 DEF Q

(* What a complete assembly comes to meets the schema.                     *)
LEMMA AssemblyFits ==
  ASSUME NEW c \in Contents, NEW s, NEW ids, Gathered(c, s, ids, Volumes), NEW a, NEW rows, rows = Rows(a, s)
  PROVE  SchemaHolds(rows)
<1>1. PICK R \in SUBSET Volumes : Volumes \ s.failed \subseteq R /\ Inserted(c, rows, ids, R, Volumes \ s.failed)
  BY AssemblyRows
<1> DEFINE Q == Volumes \ s.failed
<1>2. Q \in SUBSET R /\ Inserted(c, rows, ids, R, Q)
  BY <1>1
<1> HIDE DEF Q
<1> QED
  BY <1>2, MergedIs, InsertedFits

(* The volume that is next is one that is not done.                        *)
LEMMA NextIsLeft ==
  ASSUME TextInv, NEW v \in Volumes, NextVolume(v)
  PROVE  v \in todo
<1>1. todo \subseteq Nat /\ todo # {}
  BY BuildAssumption DEF TextInv, DraftIs, NextVolume, Writing
<1>2. \E n \in todo : \A m \in todo : n <= m
  BY <1>1, LeastNat
<1>3. Min(todo) \in todo
  BY <1>2 DEF Min
<1> QED
  BY <1>3 DEF NextVolume

-----------------------------------------------------------------------------
(* At the start there is nothing to load.                                  *)
LEMMA InitTexts == Init => TextInv
<1> SUFFICES ASSUME Init PROVE TextInv
  OBVIOUS
<1>1. content \in Contents /\ pc = "idle" /\ outcome = "none" /\ DOMAIN snapshots = {} /\ db = None
  BY DEF Init
<1> QED
  BY <1>1 DEF TextInv, DraftIs, SnapshotsAre, IngestIs, Writing

(* A step that does not touch the assemblies, the registry or the database *)
(* leaves what can be loaded complete, and the database an assembly.       *)
LEMMA AssembliesLeft ==
  ASSUME TextInv, UNCHANGED <<content, registry, snapshots, db>>
  PROVE  /\ content' \in Contents /\ SnapshotsAre'
         /\ db' # None => db'.from \in DOMAIN snapshots' /\ db' = Rows(db'.from, snapshots'[db'.from])
BY DEF TextInv, SnapshotsAre, IngestIs

(* The registry goes on: what can be loaded keeps its identifiers.         *)
LEMMA RegistryGoesOn ==
  ASSUME TextInv, KeepsAll(registry', registry), UNCHANGED <<content, snapshots, db>>
  PROVE  /\ content' \in Contents /\ SnapshotsAre'
         /\ db' # None => db'.from \in DOMAIN snapshots' /\ db' = Rows(db'.from, snapshots'[db'.from])
<1>1. content \in Contents /\ Volumes \in SUBSET Volumes
  BY DEF TextInv
<1>2. ASSUME NEW a \in DOMAIN snapshots PROVE Gathered(content, snapshots[a], registry', Volumes)
  <2>1. Gathered(content, snapshots[a], registry, Volumes)
    BY DEF TextInv, SnapshotsAre
  <2> QED
    BY <1>1, <2>1, GatheredStays
<1> QED
  BY <1>1, <1>2 DEF TextInv, SnapshotsAre, IngestIs

(* A new assembly: nothing done, and every page has its id.                *)
LEMMA CleanTexts ==
  ASSUME IInv, TextInv, clean_merged_pages
  PROVE  TextInv'
<1> DEFINE keys == UNION {{PageKey(v, p) : p \in DOMAIN content[v]} : v \in Volumes}
<1>1. keys \subseteq DOMAIN memory'
  BY DEF clean_merged_pages
<1>2. /\ UNCHANGED <<content, snapshots, db>> /\ pc' = "recognise" /\ outcome' = "none"
      /\ todo' = Volumes /\ draft' = NoDraft
  BY DEF clean_merged_pages
<1>3. KeepsAll(registry', registry)
  BY CleanKeeps
<1>4. /\ content' \in Contents /\ SnapshotsAre'
      /\ db' # None => db'.from \in DOMAIN snapshots' /\ db' = Rows(db'.from, snapshots'[db'.from])
  BY <1>2, <1>3, RegistryGoesOn
<1>5. IngestIs'
  BY <1>2, <1>4 DEF IngestIs
<1>6. \A v \in Volumes : \A p \in 1 .. Len(content[v]) : PageKey(v, p) \in DOMAIN memory'
  <2> TAKE v \in Volumes
  <2>1. content[v] \in Seq(Seq(Classes))
    BY MergedIs DEF TextInv, Merged
  <2>2. DOMAIN content[v] = 1 .. Len(content[v])
    BY <2>1
  <2> QED
    BY <1>1, <2>2
<1>7. DraftIs'
  <2>1. Volumes \ Volumes = {} /\ NoDraft.failed = {}
    BY DEF NoDraft
  <2>2. Gathered(content', draft', memory', Volumes \ todo')
    BY <1>2, <2>1, NothingGathered
  <2> QED
    BY <1>2, <1>6, <2>1, <2>2 DEF DraftIs, Writing
<1> QED
  BY <1>2, <1>4, <1>5, <1>7 DEF TextInv

(* A volume is done: what it adds, or that it has failed.                  *)
LEMMA VolumeAdds ==
  ASSUME IInv, TextInv, NEW v \in Volumes, v \in todo, pc = "recognise", RecogniseVolume(v) \/ VolumeFails(v)
  PROVE  /\ KeepsAll(memory', memory)
         /\ Gathered(content, draft', memory', Volumes \ (todo \ {v}))
         /\ draft'.failed \subseteq Volumes \ (todo \ {v})
<1>1. /\ content \in Contents /\ todo \subseteq Volumes /\ draft.failed \subseteq Volumes \ todo
      /\ Gathered(content, draft, memory, Volumes \ todo)
      /\ \A p \in 1 .. Len(content[v]) : PageKey(v, p) \in DOMAIN memory
  BY DEF TextInv, DraftIs, Writing
<1> DEFINE done == Volumes \ todo
           more == Volumes \ (todo \ {v})
<1>2. more = done \cup {v} /\ done \in SUBSET Volumes /\ v \notin done /\ draft.failed \subseteq done
  BY <1>1
<1>3. Gathered(content, draft, memory, done)
  BY <1>1
<1> HIDE DEF done, more
<1>4. PICK R \in SUBSET done : done \ draft.failed \subseteq R /\ Drafted(content, draft, memory, R)
  BY <1>3 DEF Gathered
<1>5. CASE VolumeFails(v)
  <2>1. memory' = memory /\ draft' = [draft EXCEPT !.failed = @ \cup {v}]
    BY <1>5 DEF VolumeFails
  <2>2. /\ DOMAIN draft' = DOMAIN draft /\ draft'.failed = draft.failed \cup {v}
        /\ draft'.works = draft.works /\ draft'.sections = draft.sections /\ draft'.passages = draft.passages
        /\ draft'.pages = draft.pages /\ draft'.links = draft.links
    BY <1>4, <2>1 DEF Drafted
  <2>3. R \ draft'.failed = R \ draft.failed
    BY <1>2, <2>2
  <2>4. Drafted(content, draft', memory', R)
    BY <1>4, <2>1, <2>2, <2>3 DEF Drafted
  <2>5. R \in SUBSET more /\ more \ draft'.failed \subseteq R /\ draft'.failed \subseteq more
    BY <1>2, <1>4, <2>2
  <2> QED
    BY <2>1, <2>4, <2>5, ContinuesSelf DEF Gathered, more
<1>6. CASE RecogniseVolume(v)
  <2>1. PICK found \in {Structures[content][v]} :
          \E works \in {WithWorks(v, found, memory)} : \E ids \in {WithContents(v, found, works)} :
          \E structure \in {recognize_structure(v, found, ids)} :
          \E all \in {Collected(v, structure, ids)} :
            /\ memory' = ids
            /\ draft' \in {[all EXCEPT !.passages = @ \o structure.passages],
                           [all EXCEPT !.failed = @ \cup {v}]}
    BY <1>6 DEF RecogniseVolume
  <2>2. found = Structure(content[v])
    BY <1>1, <2>1 DEF Structures
  <2>3. PICK works \in {WithWorks(v, found, memory)} : \E ids \in {WithContents(v, found, works)} :
          \E structure \in {recognize_structure(v, found, ids)} :
          \E all \in {Collected(v, structure, ids)} :
            /\ memory' = ids
            /\ draft' \in {[all EXCEPT !.passages = @ \o structure.passages],
                           [all EXCEPT !.failed = @ \cup {v}]}
    BY <2>1
  <2>4. PICK ids \in {WithContents(v, found, works)} :
          \E structure \in {recognize_structure(v, found, ids)} :
          \E all \in {Collected(v, structure, ids)} :
            /\ memory' = ids
            /\ draft' \in {[all EXCEPT !.passages = @ \o structure.passages],
                           [all EXCEPT !.failed = @ \cup {v}]}
    BY <2>3
  <2>5. PICK structure \in {recognize_structure(v, found, ids)} :
          \E all \in {Collected(v, structure, ids)} :
            /\ memory' = ids
            /\ draft' \in {[all EXCEPT !.passages = @ \o structure.passages],
                           [all EXCEPT !.failed = @ \cup {v}]}
    BY <2>4
  <2>6. PICK all \in {Collected(v, structure, ids)} :
            /\ memory' = ids
            /\ draft' \in {[all EXCEPT !.passages = @ \o structure.passages],
                           [all EXCEPT !.failed = @ \cup {v}]}
    BY <2>5
  <2>7. /\ works = WithWorks(v, found, memory) /\ ids = WithContents(v, found, works)
        /\ structure = recognize_structure(v, found, ids) /\ all = Collected(v, structure, ids)
        /\ memory' = ids
    BY <2>3, <2>4, <2>5, <2>6
  <2>8. content \in Merged
    BY <1>1, MergedIs
  <2>9. Divided(content[v], found)
    BY <2>2, <2>8, FoundIs
  <2>10. Known(v, content[v], found, ids) /\ KeepsAll(ids, memory)
    BY <1>1, <2>7, <2>9, AllKnown
  <2>11. R \in SUBSET Volumes /\ v \notin R /\ v \notin draft.failed
    BY <1>2, <1>4
  <2>12. Drafted(content, draft, ids, R)
    BY <1>4, <2>8, <2>10, <2>11, DraftedStays
  <2> DEFINE s == draft
             t == draft'
  <2>13. s = draft /\ v \notin s.failed /\ Drafted(content, s, ids, R)
    BY <2>11, <2>12
  <2>14. t \in Drafts(v, structure, all)
    BY <2>6 DEF Drafts
  <2> HIDE DEF s, t
  <2>15. Drafted(content, t, ids, R \cup {v}) /\ t.failed \in {s.failed, s.failed \cup {v}}
    BY <2>2, <2>7, <2>8, <2>10, <2>11, <2>13, <2>14, RecogniseDrafts
  <2>16. R \cup {v} \in SUBSET more /\ more \ t.failed \subseteq R \cup {v} /\ t.failed \subseteq more
    BY <1>2, <1>4, <2>15 DEF s
  <2> QED
    BY <2>7, <2>10, <2>15, <2>16 DEF Gathered, more, t
<1> QED
  BY <1>5, <1>6

(* A volume is recognised or fails.                                        *)
LEMMA RecogniseTexts ==
  ASSUME IInv, TextInv, NEW v \in Volumes, RecogniseVolume(v) \/ VolumeFails(v)
  PROVE  TextInv'
<1>1. NextVolume(v) /\ VolumeDone(v) /\ UNCHANGED <<content, registry, snapshots, db, outcome>>
  BY DEF RecogniseVolume, VolumeFails, disk
<1>2. v \in todo /\ pc = "recognise"
  BY <1>1, NextIsLeft DEF NextVolume
<1>3. /\ KeepsAll(memory', memory)
      /\ Gathered(content, draft', memory', Volumes \ (todo \ {v}))
      /\ draft'.failed \subseteq Volumes \ (todo \ {v})
  BY <1>2, VolumeAdds
<1>4. /\ todo' = todo \ {v} /\ pc' \in {"recognise", "saveRegistry"}
      /\ pc' = "recognise" => todo' # {}
      /\ pc' = "saveRegistry" => todo' = {}
  BY <1>1, <1>2, Order DEF VolumeDone
<1>5. /\ content' \in Contents /\ SnapshotsAre'
      /\ db' # None => db'.from \in DOMAIN snapshots' /\ db' = Rows(db'.from, snapshots'[db'.from])
  BY <1>1, AssembliesLeft
<1>6. IngestIs'
  BY <1>4, <1>5 DEF IngestIs
<1>7. \A u \in Volumes : \A p \in 1 .. Len(content[u]) : PageKey(u, p) \in DOMAIN memory'
  BY <1>2, <1>3 DEF TextInv, DraftIs, KeepsAll
<1>8. todo' \subseteq Volumes
  BY <1>2, <1>4 DEF TextInv, DraftIs, Writing
<1>9. DraftIs'
  BY <1>1, <1>3, <1>4, <1>7, <1>8 DEF DraftIs, Writing
<1>10. outcome' # "integrity"
  BY <1>1 DEF TextInv
<1> QED
  BY <1>5, <1>6, <1>9, <1>10 DEF TextInv

-----------------------------------------------------------------------------
(* The writes: with the report, a complete assembly can be loaded.         *)
LEMMA WriteTexts ==
  ASSUME IInv, TextInv, SaveRegistry \/ WriteStructure \/ WriteReport \/ WriteLatest
  PROVE  TextInv'
<1>1. CASE SaveRegistry
  <2>1. /\ pc = "saveRegistry" /\ pc' = "writeStructure" /\ registry' = memory
        /\ UNCHANGED <<memory, todo, draft, content, snapshots, db, outcome>>
    BY <1>1, Order DEF SaveRegistry, Step, assembly
  <2>2. KeepsAll(registry', registry)
    BY <2>1 DEF IInv, Writing
  <2>3. /\ content' \in Contents /\ SnapshotsAre'
        /\ db' # None => db'.from \in DOMAIN snapshots' /\ db' = Rows(db'.from, snapshots'[db'.from])
    BY <2>1, <2>2, RegistryGoesOn
  <2> QED
    BY <2>1, <2>3 DEF TextInv, DraftIs, IngestIs, Writing
<1>2. CASE WriteStructure
  <2>1. /\ pc = "writeStructure" /\ pc' = "writeReport"
        /\ UNCHANGED <<memory, todo, draft, content, registry, snapshots, db, outcome>>
    BY <1>2, Order DEF WriteStructure, Step, assembly, disk
  <2>2. /\ content' \in Contents /\ SnapshotsAre'
        /\ db' # None => db'.from \in DOMAIN snapshots' /\ db' = Rows(db'.from, snapshots'[db'.from])
    BY <2>1, AssembliesLeft
  <2> QED
    BY <2>1, <2>2 DEF TextInv, DraftIs, IngestIs, Writing
<1>3. CASE WriteReport
  <2>1. /\ pc = "writeReport" /\ pc' = "writeLatest"
        /\ snapshots' = [a \in DOMAIN snapshots \cup {attempt} |-> IF a = attempt THEN draft ELSE snapshots[a]]
        /\ UNCHANGED <<memory, todo, draft, content, registry, db, outcome>>
    BY <1>3, Order DEF WriteReport, Step, assembly
  <2>2. memory = registry /\ attempt \notin DOMAIN snapshots
    BY <2>1 DEF IInv, Writing
  <2>3. todo = {} /\ Gathered(content, draft, memory, Volumes \ todo)
    BY <2>1 DEF TextInv, DraftIs, Writing
  <2>4. Volumes \ todo = Volumes
    BY <2>3
  <2>5. Gathered(content, draft, registry, Volumes)
    BY <2>2, <2>3, <2>4
  <2>6. /\ DOMAIN snapshots' = DOMAIN snapshots \cup {attempt} /\ snapshots'[attempt] = draft
        /\ \A a \in DOMAIN snapshots : snapshots'[a] = snapshots[a]
    BY <2>1, <2>2
  <2>7. SnapshotsAre'
    BY <2>1, <2>5, <2>6 DEF TextInv, SnapshotsAre
  <2>8. IngestIs'
    BY <2>1, <2>6 DEF TextInv, IngestIs
  <2> QED
    BY <2>1, <2>7, <2>8 DEF TextInv, DraftIs, Writing
<1>4. CASE WriteLatest
  <2>1. pc' = "idle" /\ outcome' = "done" /\ UNCHANGED <<content, registry, snapshots, db>>
    BY <1>4, Order DEF WriteLatest, Step, Ends
  <2>2. /\ content' \in Contents /\ SnapshotsAre'
        /\ db' # None => db'.from \in DOMAIN snapshots' /\ db' = Rows(db'.from, snapshots'[db'.from])
    BY <2>1, AssembliesLeft
  <2> QED
    BY <2>1, <2>2 DEF TextInv, DraftIs, IngestIs, Writing
<1> QED
  BY <1>1, <1>2, <1>3, <1>4

(* An ingest loads what is complete, so the schema accepts its rows.       *)
LEMMA InsertFits ==
  ASSUME TextInv, Insert
  PROVE  /\ pc' = "commit" /\ tx' = Rows(loaded, snapshots[loaded])
         /\ UNCHANGED <<loaded, outcome>>
<1> DEFINE s == snapshots[loaded]
           rows == Rows(loaded, s)
<1>1. pc = "insert" /\ loaded \in DOMAIN snapshots
  BY DEF Insert, TextInv, IngestIs
<1>2. content \in Contents /\ Gathered(content, s, registry, Volumes)
  BY <1>1 DEF TextInv, SnapshotsAre
<1>3. rows = Rows(loaded, s)
  OBVIOUS
<1>4. IF SchemaHolds(rows)
      THEN tx' = rows /\ pc' = "commit" /\ UNCHANGED <<assembly, loaded, outcome>>
      ELSE Ends("integrity")
  BY DEF Insert
<1> HIDE DEF rows
<1>5. SchemaHolds(rows)
  <2> HIDE DEF s
  <2> QED
    BY <1>2, <1>3, AssemblyFits
<1> QED
  BY <1>4, <1>5 DEF rows

(* An ingest inserts what it has loaded; a crash leaves the files.         *)
LEMMA OthersTexts ==
  ASSUME IInv, TextInv, load_assemble_snapshot \/ Begin \/ Insert \/ Commit \/ Report \/ Crash
  PROVE  TextInv'
<1>1. pc' \notin Writing /\ UNCHANGED <<content, registry, snapshots>>
  BY DEF load_assemble_snapshot, Begin, Insert, Commit, Report, Crash, Ends, Writing, disk
<1>2. DraftIs'
  BY <1>1 DEF DraftIs, Writing
<1>3. CASE Commit
  <2>1. pc = "commit" /\ pc' = "report" /\ db' = tx /\ outcome' = outcome
    BY <1>3 DEF Commit
  <2>2. loaded \in DOMAIN snapshots /\ tx = Rows(loaded, snapshots[loaded])
    BY <2>1 DEF TextInv, IngestIs
  <2>3. tx.from = loaded
    BY <2>2 DEF Rows
  <2>4. IngestIs'
    BY <1>1, <2>1, <2>2, <2>3 DEF IngestIs
  <2> QED
    BY <1>1, <1>2, <2>1, <2>4 DEF TextInv, SnapshotsAre
<1>4. CASE ~Commit
  <2>1. db' = db
    BY <1>4 DEF load_assemble_snapshot, Begin, Insert, Commit, Report, Crash, disk
  <2>2. /\ content' \in Contents /\ SnapshotsAre'
        /\ db' # None => db'.from \in DOMAIN snapshots' /\ db' = Rows(db'.from, snapshots'[db'.from])
    BY <1>1, <2>1, AssembliesLeft
  <2>3. /\ outcome' # "integrity"
        /\ pc' \in {"begin", "insert", "commit"} => loaded' \in DOMAIN snapshots'
        /\ pc' = "commit" => tx' = Rows(loaded', snapshots'[loaded'])
    <3>1. CASE load_assemble_snapshot
      BY <1>1, <3>1 DEF load_assemble_snapshot, TextInv
    <3>2. CASE Begin
      BY <1>1, <3>2 DEF Begin, Ends, TextInv, IngestIs
    <3>3. CASE Insert
      <4>1. /\ pc' = "commit" /\ tx' = Rows(loaded, snapshots[loaded])
            /\ UNCHANGED <<loaded, outcome>>
        BY <3>3, InsertFits
      <4>2. pc = "insert"
        BY <3>3 DEF Insert
      <4> QED
        BY <1>1, <4>1, <4>2 DEF TextInv, IngestIs
    <3>4. CASE Report \/ Crash
      BY <3>4 DEF Report, Crash, Ends
    <3> QED
      BY <1>4, <3>1, <3>2, <3>3, <3>4
  <2>4. IngestIs'
    BY <2>2, <2>3 DEF IngestIs
  <2> QED
    BY <1>2, <2>2, <2>3, <2>4 DEF TextInv
<1> QED
  BY <1>3, <1>4

(* Every step keeps the invariant of the texts.                            *)
LEMMA StepTexts == IInv /\ TextInv /\ [Next]_vars => TextInv'
<1> SUFFICES ASSUME IInv, TextInv, [Next]_vars PROVE TextInv'
  OBVIOUS
<1>1. CASE UNCHANGED vars
  BY <1>1 DEF vars, assembly, ingest, disk, TextInv, DraftIs, SnapshotsAre, IngestIs
<1> QED
  BY <1>1, CleanTexts, RecogniseTexts, WriteTexts, OthersTexts DEF Next

(* The invariant of the texts.                                             *)
LEMMA TextInvariance == Spec => []TextInv
<1>1. QED
  BY InitTexts, StepTexts, Invariance, PTL DEF Spec

-----------------------------------------------------------------------------
(* The database is what a complete assembly comes to.                      *)
LEMMA DatabaseIs ==
  ASSUME TextInv, db # None
  PROVE  LET failed == snapshots[db.from].failed
         IN \E R \in SUBSET Volumes :
              Volumes \ failed \subseteq R /\ Inserted(content, db, registry, R, Volumes \ failed)
<1> DEFINE a == db.from
           s == snapshots[a]
<1>1. a \in DOMAIN snapshots /\ db = Rows(a, s)
  BY DEF TextInv, IngestIs
<1>2. content \in Contents /\ Gathered(content, s, registry, Volumes)
  BY <1>1 DEF TextInv, SnapshotsAre
<1>3. \E R \in SUBSET Volumes : Volumes \ s.failed \subseteq R /\ Inserted(content, db, registry, R, Volumes \ s.failed)
  <2> DEFINE rows == db
  <2>1. rows = Rows(a, s)
    BY <1>1
  <2> HIDE DEF a, s, rows
  <2>2. \E R \in SUBSET Volumes : Volumes \ s.failed \subseteq R /\ Inserted(content, rows, registry, R, Volumes \ s.failed)
    BY <1>2, <2>1, AssemblyRows
  <2> QED
    BY <2>2 DEF rows
<1> QED
  BY <1>3

(* SnapshotsIngest: whatever crashed and whichever volumes failed, what is *)
(* loaded meets the schema, so no ingest fails half way.                   *)
THEOREM SnapshotsAlwaysIngest == Spec => []SnapshotsIngest
<1>1. TextInv => SnapshotsIngest
  <2> SUFFICES ASSUME TextInv PROVE SnapshotsIngest
    OBVIOUS
  <2>1. ASSUME db # None PROVE SchemaHolds(db)
    <3> DEFINE a == db.from
               s == snapshots[a]
    <3>1. a \in DOMAIN snapshots /\ db = Rows(a, s)
      BY <2>1 DEF TextInv, IngestIs
    <3>2. content \in Contents /\ Gathered(content, s, registry, Volumes)
      BY <3>1 DEF TextInv, SnapshotsAre
    <3> HIDE DEF a, s
    <3>3. SchemaHolds(Rows(a, s))
      BY <3>2, AssemblyFits
    <3> QED
      BY <3>1, <3>3
  <2> QED
    BY <2>1 DEF SnapshotsIngest, TextInv
<1> QED
  BY <1>1, TextInvariance, PTL

(* IdsAreStable: any two assemblies that can be loaded call the same       *)
(* passage the same, and different passages different.                     *)
THEOREM IdsStayStable == Spec => []IdsAreStable
<1>1. TextInv => IdsAreStable
  <2> SUFFICES ASSUME TextInv, NEW a \in DOMAIN snapshots, NEW b \in DOMAIN snapshots,
                      NEW row \in Range(snapshots[a].passages), NEW other \in Range(snapshots[b].passages)
      PROVE  row.id = other.id <=> row.volume = other.volume /\ row.text = other.text
    BY DEF IdsAreStable
  <2>1. Gathered(content, snapshots[a], registry, Volumes) /\ Gathered(content, snapshots[b], registry, Volumes)
    BY DEF TextInv, SnapshotsAre
  <2>2. PICK R \in SUBSET Volumes : Drafted(content, snapshots[a], registry, R)
    BY <2>1 DEF Gathered
  <2>3. PICK Q \in SUBSET Volumes : Drafted(content, snapshots[b], registry, Q)
    BY <2>1 DEF Gathered
  <2>4. content \in Merged
    BY MergedIs DEF TextInv
  <2> QED
    BY <2>2, <2>3, <2>4, DraftsAgree
<1> QED
  BY <1>1, TextInvariance, PTL

(* CitationsFindPages: the links of a passage that was ingested name the   *)
(* pages of its volume from the first to the last that its text was taken  *)
(* from, and no others.                                                    *)
THEOREM CitationsAlwaysFindPages == Spec => []CitationsFindPages
<1>1. TextInv => CitationsFindPages
  <2>1. CitationsFindPages <=> (db # None => \A row \in Range(db.passages) : CitesItsPages(db, row))
    BY DEF CitationsFindPages, CitesItsPages
  <2>2. ASSUME TextInv, db # None, NEW row \in Range(db.passages) PROVE CitesItsPages(db, row)
    <3> DEFINE Q == Volumes \ snapshots[db.from].failed
               rows == db
    <3>1. PICK R \in SUBSET Volumes : Q \subseteq R /\ Inserted(content, db, registry, R, Q)
      BY <2>2, DatabaseIs
    <3>2. content \in Merged
      BY <2>2, MergedIs DEF TextInv
    <3>3. Q \in SUBSET R /\ Inserted(content, rows, registry, R, Q) /\ row \in Range(rows.passages)
      BY <3>1
    <3> HIDE DEF Q, rows
    <3>4. CitesItsPages(rows, row)
      BY <3>2, <3>3, CitationsFind
    <3> QED
      BY <3>4 DEF rows
  <2> QED
    BY <2>1, <2>2
<1> QED
  BY <1>1, TextInvariance, PTL

(* DatabaseReadsAsMerged: whatever is merged, a reader of the database     *)
(* finds the body of each volume that has not failed, in its order.        *)
THEOREM DatabaseAlwaysReadsAsMerged == Spec => []DatabaseReadsAsMerged
<1>1. TextInv => DatabaseReadsAsMerged
  <2> SUFFICES ASSUME TextInv, db # None, NEW v \in Volumes
      PROVE  ReadVolume(v) = IF v \in snapshots[db.from].failed THEN <<>> ELSE Bodies[content][v]
    BY DEF DatabaseReadsAsMerged
  <2> DEFINE Q == Volumes \ snapshots[db.from].failed
  <2>1. PICK R \in SUBSET Volumes : Q \subseteq R /\ Inserted(content, db, registry, R, Q)
    BY DatabaseIs
  <2>2. content \in Contents /\ content \in Merged
    BY MergedIs DEF TextInv
  <2>3. Bodies[content][v] = Body(content[v])
    BY <2>2 DEF Bodies
  <2>4. Q \in SUBSET R
    BY <2>1
  <2>5. v \in Q <=> v \notin snapshots[db.from].failed
    OBVIOUS
  <2> HIDE DEF Q
  <2>6. ReadVolume(v) = IF v \in Q THEN Body(content[v]) ELSE <<>>
    BY <2>1, <2>2, <2>4, ReadsAsBody
  <2> QED
    BY <2>3, <2>5, <2>6
<1> QED
  BY <1>1, TextInvariance, PTL
=============================================================================
