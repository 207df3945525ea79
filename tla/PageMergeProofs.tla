--------------------------- MODULE PageMergeProofs ---------------------------
(***************************************************************************)
(* What holds of the split of a volume and of the merge of its pages for   *)
(* every source, every limit on size and length, and any number of runs,   *)
(* exchanged sources and crashes.                                          *)
(*                                                                         *)
(* That a split covers every page once rests on assert_complete_coverage   *)
(* alone, whatever lay in the directory; that its chunks fit, and hold the *)
(* present source, on what the command at work has cut so far.  That a     *)
(* merge has every page rests on the chunks of an ALL run having been such *)
(* a split, of one source, when the run was made; that its text is true,   *)
(* on a chunk of the present source having been sent, if at all, with a    *)
(* file of that source (Own), since an earlier source does not come back.  *)
(***************************************************************************)
EXTENDS PageMerge, OrderingProofs

-----------------------------------------------------------------------------
(* Complete coverage is a partition.                                       *)
LEMMA CoveredInOrder ==
  ASSUME NEW total \in Nat, NEW ranges \in SUBSET Ranges,
         assert_complete_coverage(total, ranges),
         NEW r \in ranges, NEW s \in ranges, r[1] < s[1]
  PROVE  r[2] < s[1]
<1> DEFINE T == {n \in Nat : \E p, q \in ranges : q[1] = n /\ p[1] < n /\ n <= p[2]}
<1>1. \A p \in ranges : p[1] \in Nat /\ p[2] \in Nat /\ p[1] <= p[2]
  BY SplitAssumption DEF Ranges
<1>2. SUFFICES ASSUME T # {} PROVE FALSE
  BY <1>1
<1>3. PICK n \in T : \A m \in T : n <= m
  BY <1>2, LeastNat
<1>4. PICK p \in ranges, q \in ranges : q[1] = n /\ p[1] < n /\ n <= p[2]
  BY <1>3
<1>5. PICK b \in ranges : /\ b[1] < q[1] /\ q[1] = b[2] + 1
                          /\ \A x \in ranges : x[1] < q[1] => x[1] <= b[1]
  BY <1>4 DEF assert_complete_coverage, BeginsLast
<1>6. p # b /\ p[1] <= b[1]
  BY <1>1, <1>4, <1>5
<1>7. p[1] < b[1]
  BY <1>1, <1>6 DEF assert_complete_coverage
<1>8. b[1] \in T
  BY <1>1, <1>4, <1>5, <1>7
<1> QED
  BY <1>1, <1>3, <1>4, <1>5, <1>8

LEMMA CoveredToEnd ==
  ASSUME NEW total \in Nat, NEW ranges \in SUBSET Ranges,
         assert_complete_coverage(total, ranges), NEW r \in ranges
  PROVE  r[2] <= total
<1>1. \A p \in ranges : p[1] \in Nat /\ p[2] \in Nat /\ p[1] <= p[2]
  BY SplitAssumption DEF Ranges
<1>2. PICK l \in ranges : (\A s \in ranges : s[1] <= l[1]) /\ l[2] = total
  BY DEF assert_complete_coverage, BeginsLast
<1>3. r = l \/ r[1] < l[1]
  BY <1>1, <1>2 DEF assert_complete_coverage
<1>4. r[1] < l[1] => r[2] < l[1]
  BY CoveredInOrder
<1> QED
  BY <1>1, <1>2, <1>3, <1>4

LEMMA CoveredWithoutGap ==
  ASSUME NEW total \in Nat, NEW ranges \in SUBSET Ranges,
         assert_complete_coverage(total, ranges), NEW p \in 1 .. total
  PROVE  \E r \in ranges : p \in Pages(r)
<1> DEFINE T == {n \in Nat : p <= n /\ \E r \in ranges : r[2] = n}
<1>1. \A r \in ranges : r[1] \in Nat /\ r[2] \in Nat /\ r[1] <= r[2]
  BY SplitAssumption DEF Ranges
<1>2. total \in T
  BY DEF assert_complete_coverage, BeginsLast
<1>3. PICK n \in T : \A m \in T : n <= m
  BY <1>2, LeastNat
<1>4. PICK r \in ranges : r[2] = n
  BY <1>3
<1>5. CASE r[1] <= p
  BY <1>1, <1>3, <1>4, <1>5 DEF Pages
<1>6. CASE p < r[1]
  <2>1. PICK b \in ranges : b[1] < r[1] /\ r[1] = b[2] + 1
    BY <1>1, <1>6 DEF assert_complete_coverage, BeginsLast
  <2>2. b[2] \in T
    BY <1>1, <1>6, <2>1
  <2> QED
    BY <1>1, <1>3, <1>4, <2>1, <2>2
<1> QED
  BY <1>1, <1>5, <1>6

LEMMA CoveredOnce ==
  ASSUME NEW total \in Nat, NEW ranges \in SUBSET Ranges,
         assert_complete_coverage(total, ranges),
         NEW r \in ranges, NEW s \in ranges, NEW p, p \in Pages(r), p \in Pages(s)
  PROVE  s = r
<1>1. /\ r[1] \in Nat /\ r[2] \in Nat /\ s[1] \in Nat /\ s[2] \in Nat
      /\ p \in Nat /\ r[1] <= p /\ p <= r[2] /\ s[1] <= p /\ p <= s[2]
  BY SplitAssumption DEF Ranges, Pages
<1>2. ~ (r[1] < s[1]) /\ ~ (s[1] < r[1])
  BY <1>1, CoveredInOrder
<1> QED
  BY <1>1, <1>2 DEF assert_complete_coverage

(* The pages of a volume, each in one range.                               *)
Covers(total, ranges) ==
  /\ \A p \in 1 .. total : Cardinality({r \in ranges : p \in Pages(r)}) = 1
  /\ \A r \in ranges : r[2] <= total

LEMMA CoverageIsPartition ==
  ASSUME NEW total \in Nat, NEW ranges \in SUBSET Ranges,
         assert_complete_coverage(total, ranges)
  PROVE  Covers(total, ranges)
<1>1. ASSUME NEW p \in 1 .. total
      PROVE  Cardinality({r \in ranges : p \in Pages(r)}) = 1
  <2>1. PICK r \in ranges : p \in Pages(r)
    BY CoveredWithoutGap
  <2>2. ASSUME NEW s \in ranges, p \in Pages(s)
        PROVE  s = r
    BY <2>1, <2>2, CoveredOnce
  <2>3. {s \in ranges : p \in Pages(s)} = {r}
    BY <2>1, <2>2
  <2> QED
    BY <2>3, FS_Singleton
<1>2. \A r \in ranges : r[2] <= total
  BY CoveredToEnd
<1> QED
  BY <1>1, <1>2 DEF Covers

-----------------------------------------------------------------------------
(* The end that _fit_end_page finds.                                       *)
LEMMA BytesOf ==
  ASSUME NEW v \in Versions, NEW a \in 1 .. Total[v], NEW b \in a .. Total[v]
  PROVE  <<a, b>> \in Ranges /\ Bytes[v][<<a, b>>] \in Nat \ {0}
<1>1. Total[v] \in 1 .. LastPage /\ LastPage \in Nat
  BY SplitAssumption
<1>2. <<a, b>> \in Ranges
  BY <1>1 DEF Ranges
<1> QED
  BY <1>2, SplitAssumption

LEMMA ProposedEndFits ==
  ASSUME NEW v \in Versions, NEW start \in 1 .. Total[v]
  PROVE  LET end == AtMost(ProposedEnd(v, start), start + MaxPages - 1)
         IN  end \in start .. Total[v] /\ Count(<<start, end>>) <= MaxPages
<1>1. Total[v] \in Nat \ {0} /\ MaxPages \in Nat \ {0}
  BY SplitAssumption
<1>2. Window(v) \in Nat \ {0}
  <2> DEFINE bySize == (9 * MaxBytes * Total[v]) \div (10 * AtLeast(Total[v], SourceBytes(v)))
  <2>1. SourceBytes(v) \in Nat \ {0}
    BY <1>1, BytesOf DEF SourceBytes
  <2>2. 9 * MaxBytes * Total[v] \in Int
    BY <1>1, SplitAssumption
  <2>3. 10 * AtLeast(Total[v], SourceBytes(v)) \in Nat \ {0}
    BY <1>1, <2>1 DEF AtLeast
  <2>4. bySize \in Int
    BY <2>2, <2>3
  <2> HIDE DEF bySize
  <2>5. Window(v) = AtLeast(1, AtMost(MaxPages, bySize))
    BY DEF Window, bySize
  <2> QED
    BY <1>1, <2>4, <2>5 DEF AtLeast, AtMost
<1>3. ProposedEnd(v, start) \in start .. Total[v]
  <2>1. start + Window(v) - 1 \in Nat /\ start + Window(v) - 1 >= start
    BY <1>2
  <2>2. start + MaxPages - 1 \in Nat /\ start + MaxPages - 1 >= start
    BY <1>1
  <2> QED
    BY <1>1, <2>1, <2>2 DEF ProposedEnd, AtMost
<1> QED
  BY <1>1, <1>3 DEF AtMost, Count

LEMMA ShrunkIsSmaller ==
  ASSUME NEW v \in Versions, NEW start \in 1 .. Total[v], NEW end \in start + 1 .. Total[v]
  PROVE  Shrunk(v, start, end) \in start .. end - 1
<1> DEFINE bySize == (9 * Count(<<start, end>>) * MaxBytes) \div (10 * Bytes[v][<<start, end>>])
<1>1. Total[v] \in Nat /\ MaxBytes \in Nat
  BY SplitAssumption
<1>2. end \in start .. Total[v]
  BY <1>1
<1>3. Bytes[v][<<start, end>>] \in Nat \ {0}
  BY <1>2, BytesOf
<1>4. 9 * Count(<<start, end>>) * MaxBytes \in Int
  BY <1>1 DEF Count
<1>5. bySize \in Int
  BY <1>3, <1>4
<1> HIDE DEF bySize
<1>6. Shrunk(v, start, end) = AtLeast(start, AtMost(start + AtLeast(0, bySize - 1), end - 1))
  BY DEF Shrunk, bySize
<1> QED
  BY <1>1, <1>5, <1>6 DEF AtLeast, AtMost

(* The cutting and weighing comes to an end: there is a function that      *)
(* satisfies the recursion.                                                *)
LEMMA FitIsDefined ==
  ASSUME NEW v \in Versions, NEW start \in 1 .. Total[v]
  PROVE  \E f : f = [end \in start .. Total[v] |->
                       IF Bytes[v][<<start, end>>] <= MaxBytes THEN end
                       ELSE IF end = start THEN 0
                       ELSE f[Shrunk(v, start, end)]]
<1> DEFINE Next1(f, end) == IF Bytes[v][<<start, end>>] <= MaxBytes THEN end
                            ELSE IF end = start THEN 0
                            ELSE f[Shrunk(v, start, end)]
           Fits(f, n) == f = [end \in start .. n |-> Next1(f, end)]
           S == {n \in Nat : start + n <= Total[v] => \E f : Fits(f, start + n)}
<1>1. Total[v] \in Nat
  BY SplitAssumption
<1>2. 0 \in S
  <2> DEFINE f == [end \in start .. start |->
                     IF Bytes[v][<<start, end>>] <= MaxBytes THEN end ELSE 0]
  <2>1. Fits(f, start)
    OBVIOUS
  <2>2. start + 0 = start
    OBVIOUS
  <2> QED
    BY <2>1, <2>2
<1>3. ASSUME NEW n \in Nat, n \in S
      PROVE  n + 1 \in S
  <2>1. SUFFICES ASSUME start + n + 1 <= Total[v]
                 PROVE  \E f : Fits(f, start + n + 1)
    OBVIOUS
  <2>2. PICK f : Fits(f, start + n)
    BY <1>1, <1>3, <2>1
  <2> DEFINE g == [end \in start .. start + n + 1 |->
                     IF end = start + n + 1 THEN Next1(f, end) ELSE f[end]]
  <2>3. ASSUME NEW end \in start .. start + n + 1
        PROVE  g[end] = Next1(g, end)
    <3>1. CASE end = start
      BY <2>2, <3>1
    <3>2. CASE end # start
      <4>1. Shrunk(v, start, end) \in start .. end - 1
        BY <1>1, <2>1, <3>2, ShrunkIsSmaller
      <4>2. g[Shrunk(v, start, end)] = f[Shrunk(v, start, end)]
        BY <4>1
      <4>3. Next1(g, end) = Next1(f, end)
        BY <4>2
      <4>4. ASSUME end # start + n + 1
            PROVE  f[end] = Next1(f, end)
        <5>1. end \in start .. start + n
          BY <1>1, <4>4
        <5> QED
          BY <2>2, <5>1
      <4> QED
        BY <4>3, <4>4
    <3> QED
      BY <3>1, <3>2
  <2>4. Fits(g, start + n + 1)
    BY <2>3
  <2> QED
    BY <2>4
<1>4. Total[v] - start \in Nat /\ start + (Total[v] - start) = Total[v]
  BY <1>1
<1>5. Total[v] - start \in S
  <2> HIDE DEF S
  <2> QED
    BY <1>2, <1>3, <1>4, NatSetInduction
<1> QED
  BY <1>4, <1>5

LEMMA FitEnds ==
  ASSUME NEW v \in Versions, NEW start \in 1 .. Total[v]
  PROVE  LET end == _fit_end_page(v, start)
         IN  \/ end = 0
             \/ /\ end \in start .. Total[v] /\ Count(<<start, end>>) <= MaxPages
                /\ Bytes[v][<<start, end>>] <= MaxBytes
<1> DEFINE fit[end \in start .. Total[v]] ==
             IF Bytes[v][<<start, end>>] <= MaxBytes THEN end
             ELSE IF end = start THEN 0
             ELSE fit[Shrunk(v, start, end)]
           first == AtMost(ProposedEnd(v, start), start + MaxPages - 1)
<1>1. _fit_end_page(v, start) = fit[first]
  BY DEF _fit_end_page
<1>2. fit = [end \in start .. Total[v] |->
               IF Bytes[v][<<start, end>>] <= MaxBytes THEN end
               ELSE IF end = start THEN 0
               ELSE fit[Shrunk(v, start, end)]]
  BY FitIsDefined
<1> HIDE DEF fit
<1> DEFINE Found(end) ==
             fit[end] = 0 \/ (fit[end] \in start .. end /\ Bytes[v][<<start, fit[end]>>] <= MaxBytes)
           S == {n \in Nat : \A end \in start .. Total[v] : end <= n => Found(end)}
<1>3. Total[v] \in Nat
  BY SplitAssumption
<1>4. 0 \in S
  OBVIOUS
<1>5. ASSUME NEW n \in Nat, n \in S
      PROVE  n + 1 \in S
  <2>0. \A end \in start .. Total[v] : end <= n => Found(end)
    BY <1>5
  <2> HIDE DEF Found
  <2>1. ASSUME NEW end \in start .. Total[v], end = n + 1
        PROVE  Found(end)
    <3>1. CASE Bytes[v][<<start, end>>] <= MaxBytes \/ end = start
      BY <1>2, <3>1 DEF Found
    <3>2. CASE ~(Bytes[v][<<start, end>>] <= MaxBytes) /\ end # start
      <4>1. Shrunk(v, start, end) \in start .. end - 1
        BY <1>3, <3>2, ShrunkIsSmaller
      <4>2. Found(Shrunk(v, start, end))
        BY <1>3, <2>0, <2>1, <4>1
      <4>3. fit[end] = fit[Shrunk(v, start, end)]
        BY <1>2, <3>2
      <4> QED
        BY <1>3, <4>1, <4>2, <4>3 DEF Found
    <3> QED
      BY <3>1, <3>2
  <2> QED
    BY <1>3, <2>0, <2>1
<1>6. first \in start .. Total[v] /\ Count(<<start, first>>) <= MaxPages
  BY ProposedEndFits
<1> HIDE DEF first
<1>7. Found(first)
  <2>1. first \in Nat /\ first <= first
    BY <1>3, <1>6
  <2>2. first \in S
    <3> HIDE DEF S
    <3> QED
      BY <1>4, <1>5, <2>1, NatSetInduction
  <2> HIDE DEF Found
  <2> QED
    BY <1>6, <2>1, <2>2
<1> QED
  BY <1>1, <1>3, <1>6, <1>7, SplitAssumption DEF Count

-----------------------------------------------------------------------------
(* The inductive invariant.                                                *)
Commands ==
  {"idle", "mapWindow", "clear", "clearFiles", "cut", "map", "pilot", "all", "extract"}
ChunkRecord ==
  [range : Ranges, source : Versions, file : Versions \cup {None},
   status : {"new", "sent", "stored", "skipped"}]
RunRecord ==
  [mode : {"all", "pilot"}, status : {"open", "cancelled", "completed"},
   chunks : SUBSET ChunkRecord]

Typed ==
  /\ source \in Versions /\ record \in Versions \cup {None}
  /\ files \in [Ranges -> Versions \cup {None}]
  /\ mappings \in SUBSET (Ranges \X Versions)
  /\ runs \in Seq(RunRecord) /\ active \in 0 .. Len(runs)
  /\ pc \in Commands /\ cursor \in Nat \ {0} /\ made \in SUBSET Ranges

(* What has been cut so far fits and is there.                             *)
FitsNow(r) == Count(r) <= MaxPages /\ Bytes[source][r] <= MaxBytes /\ files[r] = source

Cutting ==
  /\ pc \in {"idle", "clear", "clearFiles", "extract"} => cursor = 1 /\ made = {}
  /\ pc \in {"mapWindow", "cut", "map", "pilot", "all"} => \A r \in made : FitsNow(r)
  /\ pc = "cut" => cursor <= Total[source] /\ (Whole(source) => cursor = 1)
  /\ pc = "map" /\ Whole(source) => cursor = Total[source] + 1

(* The chunks of an ALL run are of one source and have all its pages, each *)
(* in one chunk.                                                           *)
Apart(chunks) == \A c, d \in chunks : \A p \in Pages(c.range) : p \in Pages(d.range) => c = d

OfOneSource(chunks) ==
  /\ Apart(chunks)
  /\ \E v \in Versions :
       /\ \A c \in chunks : c.source = v
       /\ \A p \in 1 .. Total[v] : \E c \in chunks : p \in Pages(c.range)

RunsCover == \A i \in DOMAIN runs : runs[i].mode = "all" => OfOneSource(runs[i].chunks)

IInv == Typed /\ Cutting /\ RunsCover

LEMMA InitIInv == Init => IInv
<1> SUFFICES ASSUME Init PROVE IInv
  OBVIOUS
<1>1. Typed
  BY SplitAssumption DEF Init, Typed, Commands
<1>2. Cutting
  BY DEF Init, Cutting
<1>3. RunsCover
  BY DEF Init, RunsCover
<1> QED
  BY <1>1, <1>2, <1>3 DEF IInv

(* A run that is made of a split that covers the volume covers it.         *)
LEMMA RunIsMade ==
  ASSUME IInv, NEW mode \in {"all", "pilot"}, NEW ranges \in SUBSET Ranges,
         CreateRun(mode, ranges),
         mode = "all" => assert_complete_coverage(Total[source], ranges)
  PROVE  /\ runs' \in Seq(RunRecord) /\ active' \in 0 .. Len(runs') /\ RunsCover'
         /\ Len(runs') = Len(runs) + 1
         /\ runs'[Len(runs')].mode = mode
         /\ {c.range : c \in runs'[Len(runs')].chunks} = ranges
<1> DEFINE chunks == {Chunk(r) : r \in ranges}
           run == [mode |-> mode, status |-> "open", chunks |-> chunks]
<1>1. chunks \in SUBSET ChunkRecord /\ {c.range : c \in chunks} = ranges
      /\ \A c \in chunks : c.source = source /\ c = Chunk(c.range)
  <2>1. \A r \in ranges : /\ Chunk(r) \in ChunkRecord
                          /\ Chunk(r).range = r /\ Chunk(r).source = source
    BY DEF Chunk, ChunkRecord, IInv, Typed
  <2> QED
    BY <2>1
<1>2. run \in RunRecord
  BY <1>1 DEF RunRecord
<1>3. runs \in Seq(RunRecord) /\ runs' = Append(runs, run) /\ active' = Len(runs')
  BY DEF IInv, Typed, CreateRun
<1>4. /\ runs' \in Seq(RunRecord) /\ Len(runs') = Len(runs) + 1
      /\ runs'[Len(runs')] = run
      /\ \A i \in DOMAIN runs : runs'[i] = runs[i]
      /\ DOMAIN runs' = DOMAIN runs \cup {Len(runs')}
  <2> HIDE DEF run
  <2> QED
    BY <1>2, <1>3
<1>5. mode = "all" => OfOneSource(chunks)
  <2>1. source \in Versions /\ Total[source] \in Nat
    BY SplitAssumption DEF IInv, Typed
  <2>2. ASSUME mode = "all", NEW p \in 1 .. Total[source]
        PROVE  \E c \in chunks : p \in Pages(c.range)
    <3>1. PICK r \in ranges : p \in Pages(r)
      BY <2>1, <2>2, CoveredWithoutGap
    <3>2. PICK c \in chunks : c.range = r
      BY <1>1
    <3> QED
      BY <3>1, <3>2
  <2>3. mode = "all" => Apart(chunks)
    <3>1. SUFFICES ASSUME mode = "all", NEW c \in chunks, NEW d \in chunks,
                          NEW p \in Pages(c.range), p \in Pages(d.range)
                   PROVE  c = d
      BY DEF Apart
    <3>2. c.range \in ranges /\ d.range \in ranges
      BY <1>1
    <3>3. d.range = c.range
      BY <2>1, <3>1, <3>2, CoveredOnce
    <3> QED
      BY <1>1, <3>3
  <2> HIDE DEF chunks
  <2> QED
    BY <1>1, <2>1, <2>2, <2>3 DEF OfOneSource
<1>6. RunsCover'
  <2> HIDE DEF chunks
  <2> QED
    BY <1>4, <1>5 DEF RunsCover, IInv
<1> QED
  BY <1>1, <1>3, <1>4, <1>6

(* One run of the state file changes, and keeps the pages it has.          *)
LEMMA RunChanges ==
  ASSUME IInv, NEW i, NEW run, runs' = [runs EXCEPT ![i] = run],
         i \in DOMAIN runs => /\ run \in RunRecord /\ run.mode = runs[i].mode
                              /\ OfOneSource(runs[i].chunks) => OfOneSource(run.chunks)
  PROVE  runs' \in Seq(RunRecord) /\ Len(runs') = Len(runs) /\ RunsCover'
<1>1. runs \in Seq(RunRecord)
  BY DEF IInv, Typed
<1> DEFINE n == Len(runs)
           new == [j \in 1 .. n |-> IF j = i THEN run ELSE runs[j]]
<1>2. n \in Nat /\ DOMAIN runs = 1 .. n /\ \A j \in 1 .. n : runs[j] \in RunRecord
  BY <1>1
<1>3. runs' = new
  BY <1>2
<1>4. \A j \in 1 .. n : new[j] \in RunRecord
  BY <1>2
<1>5. new \in Seq(RunRecord) /\ Len(new) = n /\ DOMAIN new = 1 .. n
  BY <1>2, <1>4
<1>6. /\ DOMAIN runs' = DOMAIN runs
      /\ \A j \in DOMAIN runs : runs'[j] = IF j = i THEN run ELSE runs[j]
  BY <1>2, <1>3
<1>7. runs' \in Seq(RunRecord) /\ Len(runs') = Len(runs)
  BY <1>3, <1>5
<1>8. \A j \in DOMAIN runs' : runs'[j].mode = "all" => OfOneSource(runs'[j].chunks)
  BY <1>6 DEF IInv, RunsCover
<1> HIDE DEF new
<1> QED
  BY <1>7, <1>8 DEF RunsCover, OfOneSource, Apart

(* A chunk stays the same but for its status and the file sent for it.     *)
Alike(c, d) ==
  /\ d.range = c.range /\ d.source = c.source
  /\ c \in ChunkRecord => d \in ChunkRecord

LEMMA ChunkChanges ==
  ASSUME IInv, NEW c \in runs[active].chunks, NEW d, Alike(c, d), Becomes(c, d)
  PROVE  runs' \in Seq(RunRecord) /\ Len(runs') = Len(runs) /\ RunsCover'
<1> DEFINE old == runs[active]
           chunks == (old.chunks \ {c}) \cup {d}
           run == [old EXCEPT !.chunks = chunks]
<1>1. runs' = [runs EXCEPT ![active] = run]
  BY DEF Becomes
<1>2. ASSUME active \in DOMAIN runs
      PROVE  /\ run \in RunRecord /\ run.mode = old.mode
             /\ OfOneSource(old.chunks) => OfOneSource(run.chunks)
  <2>1. old \in RunRecord
    BY <1>2 DEF IInv, Typed
  <2>2. old.chunks \in SUBSET ChunkRecord
    BY <2>1 DEF RunRecord
  <2>3. d \in ChunkRecord /\ d.range = c.range /\ d.source = c.source
    BY <2>2 DEF Alike
  <2>4. chunks \in SUBSET ChunkRecord
    BY <2>2, <2>3
  <2>5. OfOneSource(old.chunks) => OfOneSource(chunks)
    <3>1. SUFFICES ASSUME NEW v \in Versions, \A e \in old.chunks : e.source = v,
                          \A p \in 1 .. Total[v] : \E e \in old.chunks : p \in Pages(e.range),
                          Apart(old.chunks)
                   PROVE  OfOneSource(chunks)
      BY DEF OfOneSource
    <3>2. \A e \in chunks : e.source = v
      BY <2>3, <3>1
    <3>3. \A p \in 1 .. Total[v] : \E e \in chunks : p \in Pages(e.range)
      BY <2>3, <3>1
    <3>4. Apart(chunks)
      BY <2>3, <3>1 DEF Apart
    <3> QED
      BY <3>2, <3>3, <3>4 DEF OfOneSource
  <2> HIDE DEF chunks
  <2>6. run = [mode |-> old.mode, status |-> old.status, chunks |-> chunks]
    BY <2>1 DEF RunRecord
  <2> HIDE DEF run
  <2>7. run \in RunRecord
    BY <2>1, <2>4, <2>6 DEF RunRecord
  <2> QED
    BY <2>5, <2>6, <2>7
<1> HIDE DEF run
<1> QED
  BY <1>1, <1>2, RunChanges

LEMMA StatusChanges ==
  ASSUME IInv, NEW i, NEW status \in {"open", "cancelled", "completed"},
         runs' = [runs EXCEPT ![i].status = status]
  PROVE  runs' \in Seq(RunRecord) /\ Len(runs') = Len(runs) /\ RunsCover'
<1> DEFINE old == runs[i]
           run == [old EXCEPT !.status = status]
<1>1. runs' = [runs EXCEPT ![i] = run]
  OBVIOUS
<1>2. ASSUME i \in DOMAIN runs
      PROVE  run \in RunRecord /\ run.mode = old.mode /\ run.chunks = old.chunks
  <2>1. old \in RunRecord
    BY <1>2 DEF IInv, Typed
  <2>2. run = [mode |-> old.mode, status |-> status, chunks |-> old.chunks]
    BY <2>1 DEF RunRecord
  <2> HIDE DEF run
  <2> QED
    BY <2>1, <2>2 DEF RunRecord
<1> HIDE DEF run
<1> QED
  BY <1>1, <1>2, RunChanges

(* Without a change of the runs the typing and the directory remain.       *)
LEMMA RunsRemain ==
  ASSUME IInv, Typed', Cutting', runs' = runs
  PROVE  IInv'
  BY DEF IInv, RunsCover, OfOneSource, Apart

LEMMA PilotWindow ==
  ASSUME NEW total \in 1 .. LastPage
  PROVE  pilot_window(total) \in Ranges
<1>1. LastPage \in Nat /\ PilotStart \in Nat \ {0} /\ PilotCount \in Nat \ {0}
  BY SplitAssumption
<1> QED
  BY <1>1 DEF pilot_window, Ranges

LEMMA PilotIInv ==
  ASSUME IInv, materialize_page_window
  PROVE  IInv' /\ runs' = runs
<1> DEFINE r == pilot_window(Total[source])
<1>1. r \in Ranges /\ source \in Versions
  BY PilotWindow, SplitAssumption DEF IInv, Typed
<1> HIDE DEF r
<1>2. /\ UNCHANGED <<source, mappings, runs, active>> /\ record' = source /\ pc = "idle"
      /\ files' \in {files, [files EXCEPT ![r] = None], [files EXCEPT ![r] = source]}
      /\ \/ UNCHANGED <<pc, cursor, made>>
         \/ /\ pc' = "mapWindow" /\ made' = {r} /\ cursor' = cursor
            /\ files' = [files EXCEPT ![r] = source]
            /\ ~(Count(r) > MaxPages \/ Bytes[source][r] > MaxBytes)
  BY DEF materialize_page_window, Begin, r, command
<1>3. files' \in [Ranges -> Versions \cup {None}]
  BY <1>1, <1>2 DEF IInv, Typed
<1>4. Typed'
  BY <1>1, <1>2, <1>3 DEF IInv, Typed, Commands
<1>5. Cutting'
  <2>1. CASE UNCHANGED <<pc, cursor, made>>
    BY <1>2, <2>1 DEF IInv, Cutting
  <2>2. CASE pc' = "mapWindow"
    <3>1. /\ Count(r) \in Int /\ Bytes[source][r] \in Nat
          /\ MaxPages \in Nat /\ MaxBytes \in Nat
      <4>1. r[1] \in Nat /\ r[2] \in Nat
        BY <1>1 DEF Ranges
      <4>2. Bytes[source][r] \in Nat
        BY <1>1, SplitAssumption
      <4> QED
        BY <4>1, <4>2, SplitAssumption DEF Count
    <3>2. made' = {r} /\ files'[r] = source /\ Count(r) <= MaxPages /\ Bytes[source][r] <= MaxBytes
      BY <1>1, <1>2, <2>2, <3>1 DEF IInv, Typed
    <3> QED
      BY <1>2, <2>2, <3>2 DEF Cutting, FitsNow
  <2> QED
    BY <1>2, <2>1, <2>2
<1> QED
  BY <1>2, <1>4, <1>5, RunsRemain

LEMMA ClearIInv ==
  ASSUME IInv, ClearMappings \/ ClearFiles
  PROVE  IInv' /\ runs' = runs
<1>1. /\ UNCHANGED <<source, record, runs, active, cursor, made>>
      /\ mappings' \in SUBSET mappings
      /\ \/ pc = "clear" /\ pc' = "clearFiles" /\ files' = files
         \/ pc = "clearFiles" /\ pc' = "cut"
  BY DEF ClearMappings, ClearFiles
<1>2. files' \in [Ranges -> Versions \cup {None}]
  BY DEF ClearMappings, ClearFiles, IInv, Typed
<1>3. Typed'
  BY <1>1, <1>2 DEF IInv, Typed, Commands
<1>4. source \in Versions /\ Total[source] \in Nat \ {0}
  BY SplitAssumption DEF IInv, Typed
<1>5. Cutting'
  BY <1>1, <1>4 DEF IInv, Cutting, Whole, SourceBytes
<1> QED
  BY <1>1, <1>3, <1>5, RunsRemain

LEMMA CutIInv ==
  ASSUME IInv, Cut
  PROVE  IInv' /\ runs' = runs
<1> DEFINE end == IF Whole(source) THEN Total[source] ELSE _fit_end_page(source, cursor)
           r == <<cursor, end>>
<1>1. /\ pc = "cut" /\ UNCHANGED <<source, record, mappings, runs, active>>
      /\ source \in Versions /\ Total[source] \in Nat \ {0} /\ cursor \in 1 .. Total[source]
  BY SplitAssumption DEF IInv, Typed, Cutting, Cut
<1>2. \/ end = 0
      \/ /\ end \in cursor .. Total[source]
         /\ Count(r) <= MaxPages /\ Bytes[source][r] <= MaxBytes
  <2>1. CASE Whole(source)
    <3>1. cursor = 1
      BY <1>1, <2>1 DEF IInv, Cutting
    <3> QED
      BY <1>1, <2>1, <3>1 DEF Whole, SourceBytes, Count
  <2>2. CASE ~Whole(source)
    BY <1>1, <2>2, FitEnds
  <2> QED
    BY <2>1, <2>2
<1>3. Whole(source) => end = Total[source]
  OBVIOUS
<1>4. IF end = 0 THEN Idle /\ UNCHANGED files
      ELSE /\ files' = [files EXCEPT ![r] = source]
           /\ made' = made \cup {r}
           /\ cursor' = end + 1
           /\ pc' = "map"
  BY DEF Cut
<1> HIDE DEF end
<1>5. CASE end = 0
  <2>1. pc' = "idle" /\ cursor' = 1 /\ made' = {} /\ files' = files
    BY <1>4, <1>5 DEF Idle
  <2>2. Typed'
    BY <1>1, <2>1 DEF IInv, Typed, Commands
  <2>3. Cutting'
    BY <2>1 DEF Cutting
  <2> QED
    BY <1>1, <2>2, <2>3, RunsRemain
<1>6. CASE end # 0
  <2>1. r \in Ranges
    BY <1>1, <1>2, <1>6, BytesOf
  <2>2. /\ files' = [files EXCEPT ![r] = source] /\ made' = made \cup {r}
        /\ cursor' = end + 1 /\ pc' = "map"
    BY <1>4, <1>6
  <2>3. /\ files' \in [Ranges -> Versions \cup {None}] /\ files'[r] = source
        /\ \A q \in Ranges : files[q] = source => files'[q] = source
    BY <1>1, <2>1, <2>2 DEF IInv, Typed
  <2>4. end \in Nat
    BY <1>1, <1>2, <1>6
  <2>5. made' \in SUBSET Ranges /\ cursor' \in Nat \ {0}
    BY <2>1, <2>2, <2>4 DEF IInv, Typed
  <2>6. Typed'
    BY <1>1, <2>2, <2>3, <2>5 DEF IInv, Typed, Commands
  <2>7. \A q \in made' : FitsNow(q)'
    BY <1>1, <1>2, <1>6, <2>2, <2>3 DEF IInv, Typed, Cutting, FitsNow
  <2>8. Whole(source)' => cursor' = Total[source'] + 1
    BY <1>1, <1>3, <2>2 DEF Whole, SourceBytes
  <2>9. Cutting'
    BY <2>2, <2>7, <2>8 DEF Cutting
  <2> QED
    BY <1>1, <2>6, <2>9, RunsRemain
<1> QED
  BY <1>5, <1>6

(* Outside the command: the process dies, the source is exchanged.         *)
LEMMA OutsideIInv ==
  ASSUME IInv, Crash \/ ReplaceSource
  PROVE  IInv' /\ runs' = runs
<1>1. /\ UNCHANGED <<record, files, mappings, runs, active>>
      /\ source' \in Versions /\ pc' = "idle" /\ cursor' = 1 /\ made' = {}
  BY DEF Crash, ReplaceSource, Idle, directory, command, IInv, Typed, Cutting
<1>2. Typed'
  BY <1>1 DEF IInv, Typed, Commands
<1>3. Cutting'
  BY <1>1 DEF Cutting
<1> QED
  BY <1>1, <1>2, <1>3, RunsRemain

-----------------------------------------------------------------------------
(* What a step says of the run it makes.                                   *)
NewRunIsPartition ==
  Len(runs') > Len(runs) /\ runs'[Len(runs')].mode = "all" =>
    LET ranges == {c.range : c \in runs'[Len(runs')].chunks}
    IN /\ \A p \in 1 .. Total[source] : Cardinality({r \in ranges : p \in Pages(r)}) = 1
       /\ \A r \in ranges : /\ r[2] <= Total[source]
                            /\ Count(r) <= MaxPages /\ Bytes[source][r] <= MaxBytes
                            /\ files'[r] = source

LEMMA NoNewRun ==
  ASSUME IInv, Len(runs') = Len(runs)
  PROVE  NewRunIsPartition
<1>1. Len(runs) \in Nat
  BY DEF IInv, Typed
<1> QED
  BY <1>1 DEF NewRunIsPartition

LEMMA CreateIInv ==
  ASSUME IInv, NEW mode \in {"all", "pilot"}, NEW ranges \in SUBSET Ranges,
         CreateRun(mode, ranges),
         mode = "all" => /\ assert_complete_coverage(Total[source], ranges)
                         /\ \A r \in ranges : FitsNow(r),
         source' = source, record' \in {record, source}, files' = files,
         mappings' \in SUBSET (Ranges \X Versions)
  PROVE  IInv' /\ NewRunIsPartition
<1>1. /\ runs' \in Seq(RunRecord) /\ active' \in 0 .. Len(runs') /\ RunsCover'
      /\ runs'[Len(runs')].mode = mode
      /\ {c.range : c \in runs'[Len(runs')].chunks} = ranges
  BY RunIsMade
<1>2. pc' = "extract" /\ cursor' = 1 /\ made' = {}
  BY DEF CreateRun
<1>3. Typed'
  BY <1>1, <1>2 DEF IInv, Typed, Commands
<1>4. Cutting'
  BY <1>2 DEF Cutting
<1>5. ASSUME mode = "all"
      PROVE  Covers(Total[source], ranges) /\ \A r \in ranges : FitsNow(r)
  BY <1>5, CoverageIsPartition, SplitAssumption DEF IInv, Typed
<1>6. NewRunIsPartition
  BY <1>1, <1>5 DEF NewRunIsPartition, Covers, FitsNow
<1> QED
  BY <1>1, <1>3, <1>4, <1>6 DEF IInv

LEMMA MapWindowIInv ==
  ASSUME IInv, MapWindow
  PROVE  IInv' /\ runs' = runs
<1>1. /\ pc = "mapWindow" /\ pc' = "pilot"
      /\ UNCHANGED <<source, record, files, runs, active, cursor, made>>
      /\ mappings' \in SUBSET (Ranges \X Versions)
  BY DEF MapWindow, IInv, Typed
<1>2. Typed'
  BY <1>1 DEF IInv, Typed, Commands
<1>3. Cutting'
  BY <1>1 DEF IInv, Cutting, FitsNow
<1> QED
  BY <1>1, <1>2, <1>3, RunsRemain

LEMMA PrepareIInv ==
  ASSUME IInv, _prepare_run
  PROVE  IInv' /\ NewRunIsPartition
<1>1. /\ record' = source /\ pc = "idle" /\ UNCHANGED <<source, files, mappings>>
      /\ source \in Versions /\ mappings \in SUBSET (Ranges \X Versions)
  BY DEF _prepare_run, Begin, directory, IInv, Typed
<1>2. CASE Reusable /\ CreateRun("all", {m[1] : m \in mappings})
  <2> DEFINE ranges == {m[1] : m \in mappings}
  <2>1. ranges \in SUBSET Ranges
    BY <1>1
  <2>2. assert_complete_coverage(Total[source], ranges) /\ \A r \in ranges : FitsNow(r)
    BY <1>2 DEF Reusable, FitsNow
  <2> HIDE DEF ranges
  <2> QED
    BY <1>1, <1>2, <2>1, <2>2, CreateIInv DEF ranges
<1>3. CASE pc' \in {"extract", "clear"} /\ UNCHANGED <<runs, active, cursor, made>>
  <2>1. Typed'
    BY <1>1, <1>3 DEF IInv, Typed, Commands
  <2>2. Cutting'
    BY <1>1, <1>3 DEF IInv, Cutting
  <2> QED
    BY <1>3, <2>1, <2>2, RunsRemain, NoNewRun
<1> QED
  BY <1>2, <1>3 DEF _prepare_run

LEMMA MapIInv ==
  ASSUME IInv, Map
  PROVE  IInv' /\ runs' = runs
<1>1. /\ pc = "map" /\ UNCHANGED <<source, record, files, runs, active, cursor, made>>
      /\ source \in Versions
      /\ mappings' \in SUBSET (Ranges \X Versions)
      /\ pc' = IF cursor <= Total[source] THEN "cut" ELSE "all"
  BY DEF Map, IInv, Typed
<1>2. Typed'
  BY <1>1 DEF IInv, Typed, Commands
<1>3. \A r \in made' : FitsNow(r)'
  BY <1>1 DEF IInv, Cutting, FitsNow
<1>4. CASE cursor <= Total[source]
  <2>1. Total[source] \in Nat
    BY <1>1, SplitAssumption
  <2>2. ~Whole(source)
    BY <1>1, <1>4, <2>1 DEF IInv, Cutting
  <2>3. Cutting'
    BY <1>1, <1>3, <1>4, <2>2 DEF Cutting, Whole, SourceBytes
  <2> QED
    BY <1>1, <1>2, <2>3, RunsRemain
<1>5. CASE ~(cursor <= Total[source])
  <2>1. Cutting'
    BY <1>1, <1>3, <1>5 DEF Cutting
  <2> QED
    BY <1>1, <1>2, <2>1, RunsRemain
<1> QED
  BY <1>4, <1>5

LEMMA SaveRunIInv ==
  ASSUME IInv, SaveRun
  PROVE  IInv' /\ NewRunIsPartition
<1>1. /\ pc \in {"pilot", "all"} /\ UNCHANGED <<source, record, files, mappings>>
      /\ made \in SUBSET Ranges /\ mappings \in SUBSET (Ranges \X Versions)
      /\ \A r \in made : FitsNow(r)
  BY DEF SaveRun, directory, IInv, Typed, Cutting
<1>2. CASE /\ pc = "all" => assert_complete_coverage(Total[source], made)
           /\ CreateRun(pc, made)
  BY <1>1, <1>2, CreateIInv
<1>3. CASE Idle /\ UNCHANGED <<runs, active>>
  <2>1. Typed' /\ Cutting'
    BY <1>1, <1>3 DEF Idle, IInv, Typed, Commands, Cutting
  <2> QED
    BY <1>3, <2>1, RunsRemain, NoNewRun
<1> QED
  BY <1>2, <1>3 DEF SaveRun

LEMMA ResumeIInv ==
  ASSUME IInv, NEW run \in DOMAIN runs, resume(run)
  PROVE  IInv' /\ NewRunIsPartition
<1>1. /\ runs' = [runs EXCEPT ![run].status = "open"] /\ active' = run /\ pc = "idle"
      /\ pc' = "extract" /\ record' = source
      /\ UNCHANGED <<source, files, mappings, cursor, made>>
  BY DEF resume, directory
<1>2. runs' \in Seq(RunRecord) /\ Len(runs') = Len(runs) /\ RunsCover'
  BY <1>1, StatusChanges
<1>3. run \in 0 .. Len(runs)
  BY DEF IInv, Typed
<1>4. Typed'
  BY <1>1, <1>2, <1>3 DEF IInv, Typed, Commands
<1>5. Cutting'
  BY <1>1 DEF IInv, Cutting
<1> QED
  BY <1>2, <1>4, <1>5, NoNewRun DEF IInv

(* What happens to a chunk, and the end of a run.                          *)
LEMMA ExtractIInv ==
  ASSUME IInv, EndRun \/ (active # 0 /\ \E c \in runs[active].chunks : Handle(c))
  PROVE  IInv' /\ NewRunIsPartition
<1>1. CASE EndRun
  <2>1. PICK status \in {"open", "cancelled", "completed"} :
          runs' = [runs EXCEPT ![active].status = status]
    BY <1>1 DEF EndRun
  <2>2. runs' \in Seq(RunRecord) /\ Len(runs') = Len(runs) /\ RunsCover'
    BY <2>1, StatusChanges
  <2>3. Typed' /\ Cutting'
    BY <1>1, <2>2 DEF EndRun, Idle, directory, IInv, Typed, Commands, Cutting
  <2> QED
    BY <2>2, <2>3, NoNewRun DEF IInv
<1>2. ASSUME active # 0, NEW c \in runs[active].chunks, Handle(c)
      PROVE  IInv' /\ NewRunIsPartition
  <2>1. CASE \E d : Alike(c, d) /\ Becomes(c, d)
    <3>1. runs' \in Seq(RunRecord) /\ Len(runs') = Len(runs) /\ RunsCover'
      BY <2>1, ChunkChanges
    <3>2. pc = "extract"
      BY <1>2 DEF Handle, SkipChunk, UploadChunk, StoreChunk
    <3>3. /\ UNCHANGED <<source, record, files, active>>
          /\ UNCHANGED <<pc, cursor, made>> \/ Idle
          /\ \/ mappings' = mappings
             \/ mappings' = mappings \cup {<<c.range, c.source>>}
      <4>1. CASE SkipChunk(c)
        BY <4>1 DEF SkipChunk, directory, command
      <4>2. CASE UploadChunk(c)
        BY <4>2 DEF UploadChunk, directory, command
      <4>3. CASE StoreChunk(c)
        BY <4>3 DEF StoreChunk, command
      <4> QED
        BY <1>2, <4>1, <4>2, <4>3 DEF Handle
    <3>4. mappings' \in SUBSET (Ranges \X Versions)
      <4>1. active \in DOMAIN runs
        BY <1>2 DEF IInv, Typed
      <4>2. runs[active] \in RunRecord
        BY <4>1 DEF IInv, Typed
      <4>3. c.range \in Ranges /\ c.source \in Versions
        BY <1>2, <4>2 DEF RunRecord, ChunkRecord
      <4> QED
        BY <3>3, <4>3 DEF IInv, Typed
    <3>5. Typed'
      BY <3>1, <3>3, <3>4 DEF IInv, Typed, Idle, Commands
    <3>6. Cutting'
      BY <3>2, <3>3 DEF IInv, Cutting, Idle
    <3> QED
      BY <3>1, <3>5, <3>6, NoNewRun DEF IInv
  <2>2. CASE Idle /\ UNCHANGED <<source, record, files, mappings, runs, active>>
    <3>1. Typed' /\ Cutting'
      BY <2>2 DEF Idle, IInv, Typed, Commands, Cutting
    <3> QED
      BY <2>2, <3>1, RunsRemain, NoNewRun
  <2>3. c \in ChunkRecord
    <3>1. active \in DOMAIN runs
      BY <1>2 DEF IInv, Typed
    <3>2. runs[active] \in RunRecord
      BY <3>1 DEF IInv, Typed
    <3> QED
      BY <3>2 DEF RunRecord
  <2>4. CASE SkipChunk(c) \/ StoreChunk(c)
    <3>1. \A status \in {"stored", "skipped"} : Alike(c, [c EXCEPT !.status = status])
      BY <2>3 DEF Alike, ChunkRecord
    <3> QED
      BY <2>1, <2>4, <3>1 DEF SkipChunk, StoreChunk
  <2>5. CASE UploadChunk(c)
    <3>1. files[c.range] \in Versions \cup {None}
      BY <2>3 DEF ChunkRecord, IInv, Typed
    <3>2. Alike(c, [c EXCEPT !.status = "sent", !.file = files[c.range]])
      BY <2>3, <3>1 DEF Alike, ChunkRecord
    <3> QED
      BY <2>1, <2>2, <2>5, <3>2 DEF UploadChunk, directory
  <2> QED
    BY <1>2, <2>4, <2>5 DEF Handle
<1> QED
  BY <1>1, <1>2

LEMMA SplitStep ==
  ASSUME IInv, [SplitNext]_vars
  PROVE  IInv' /\ NewRunIsPartition
<1>1. CASE \/ materialize_page_window \/ MapWindow \/ ClearMappings \/ ClearFiles
           \/ Cut \/ Map \/ Crash \/ ReplaceSource
  <2>1. IInv' /\ runs' = runs
    BY <1>1, PilotIInv, MapWindowIInv, ClearIInv, CutIInv, MapIInv, OutsideIInv
  <2> QED
    BY <2>1, NoNewRun
<1>2. CASE SaveRun \/ _prepare_run \/ EndRun
           \/ (active # 0 /\ \E c \in runs[active].chunks : Handle(c))
  BY <1>2, SaveRunIInv, PrepareIInv, ExtractIInv
<1>3. CASE \E run \in DOMAIN runs : resume(run)
  BY <1>3, ResumeIInv
<1>4. CASE UNCHANGED vars
  <2>1. Typed' /\ Cutting' /\ runs' = runs
    BY <1>4 DEF vars, directory, command, IInv, Typed, Cutting, FitsNow, Whole, SourceBytes
  <2> QED
    BY <2>1, RunsRemain, NoNewRun
<1> QED
  BY <1>1, <1>2, <1>3, <1>4 DEF SplitNext


LEMMA SplitInvariance == SplitSpec => []IInv
<1>1. IInv /\ [SplitNext]_vars => IInv'
  BY SplitStep
<1> QED
  BY <1>1, InitIInv, PTL DEF SplitSpec

-----------------------------------------------------------------------------
(* The files of the present source.  A chunk made from the source that is  *)
(* there has its file as it was cut, or none any more, and that is what    *)
(* was uploaded for it: the source changes only to a later version, and    *)
(* what is written between two changes is cut from it.                     *)
OwnFile(c) ==
  /\ c.source <= source
  /\ c.source = source => files[c.range] \in {None, source} /\ c.file \in {None, source}
  /\ c.status \in {"sent", "stored"} => c.file \in Versions

Own == \A i \in DOMAIN runs : \A c \in runs[i].chunks : OwnFile(c)

Recorded == pc # "idle" \/ DOMAIN runs # {} => record \in Versions

LEMMA ChunkTyped ==
  ASSUME IInv, NEW i \in DOMAIN runs, NEW c \in runs[i].chunks
  PROVE  c \in ChunkRecord
<1>1. runs[i] \in RunRecord
  BY DEF IInv, Typed
<1> QED
  BY <1>1 DEF RunRecord

(* A chunk comes from one that was there, or is new with its file cut.     *)
FromChunk(d, c) ==
  /\ d.range = c.range /\ d.source = c.source
  /\ d.file \in {c.file, files[c.range]}
  /\ d.status \in {"sent", "stored"} => d.file \in Versions

LEMMA OwnGoesOn ==
  ASSUME IInv, Own, source' = source,
         \A r \in Ranges : files'[r] \in {files[r], None, source},
         \A i \in DOMAIN runs' : \A d \in runs'[i].chunks :
           \/ \E j \in DOMAIN runs : \E c \in runs[j].chunks : FromChunk(d, c)
           \/ /\ d.source = source /\ d.file = None /\ d.status = "new"
              /\ files'[d.range] = source
  PROVE  Own'
<1> SUFFICES ASSUME NEW i \in DOMAIN runs', NEW d \in runs'[i].chunks
             PROVE  OwnFile(d)'
  BY DEF Own, OwnFile
<1>1. CASE \E j \in DOMAIN runs : \E c \in runs[j].chunks : FromChunk(d, c)
  <2> PICK j \in DOMAIN runs : \E c \in runs[j].chunks : FromChunk(d, c)
    BY <1>1
  <2>1. PICK c \in runs[j].chunks : FromChunk(d, c)
    OBVIOUS
  <2>2. OwnFile(c) /\ c.range \in Ranges
    BY ChunkTyped DEF Own, ChunkRecord
  <2>3. files'[d.range] \in {files[c.range], None, source}
    BY <2>1, <2>2 DEF FromChunk
  <2> QED
    BY <2>1, <2>2, <2>3 DEF FromChunk, OwnFile
<1>2. CASE /\ d.source = source /\ d.file = None /\ d.status = "new"
           /\ files'[d.range] = source
  <2>1. source \in Nat
    BY SplitAssumption DEF IInv, Typed
  <2> QED
    BY <1>2, <2>1 DEF OwnFile
<1> QED
  BY <1>1, <1>2

(* The runs stay as they are.                                              *)
LEMMA SameRunsOwn ==
  ASSUME IInv, Own, source' = source, runs' = runs,
         \A r \in Ranges : files'[r] \in {files[r], None, source}
  PROVE  Own'
<1>1. ASSUME NEW i \in DOMAIN runs, NEW c \in runs[i].chunks
      PROVE  FromChunk(c, c)
  BY DEF Own, OwnFile, FromChunk
<1> QED
  BY <1>1, OwnGoesOn

(* A run is made of files cut from the source.                             *)
LEMMA CreateOwn ==
  ASSUME IInv, Own, NEW mode, NEW ranges, CreateRun(mode, ranges),
         \A r \in ranges : files[r] = source, source' = source, files' = files
  PROVE  Own'
<1> DEFINE run == [mode |-> mode, status |-> "open", chunks |-> {Chunk(r) : r \in ranges}]
<1>1. runs' = Append(runs, run) /\ runs \in Seq(RunRecord)
  BY DEF CreateRun, IInv, Typed
<1>2. ASSUME NEW i \in DOMAIN runs'
      PROVE  (i \in DOMAIN runs /\ runs'[i] = runs[i]) \/ runs'[i] = run
  <2> HIDE DEF run
  <2>1. Len(runs) \in Nat /\ DOMAIN runs = 1 .. Len(runs)
    BY <1>1
  <2>2. DOMAIN runs' = 1 .. Len(runs) + 1
    BY <1>1
  <2> QED
    BY <1>1, <1>2, <2>1, <2>2
<1>3. ASSUME NEW i \in DOMAIN runs', NEW d \in runs'[i].chunks
      PROVE  \/ \E j \in DOMAIN runs : \E c \in runs[j].chunks : FromChunk(d, c)
             \/ /\ d.source = source /\ d.file = None /\ d.status = "new"
                /\ files'[d.range] = source
  <2>1. CASE i \in DOMAIN runs /\ runs'[i] = runs[i]
    <3>1. d \in runs[i].chunks
      BY <1>3, <2>1
    <3>2. FromChunk(d, d)
      BY <2>1, <3>1 DEF Own, OwnFile, FromChunk
    <3> QED
      BY <2>1, <3>1, <3>2
  <2>2. CASE runs'[i] = run
    <3>1. PICK r \in ranges : d = Chunk(r)
      BY <1>3, <2>2
    <3> QED
      BY <3>1 DEF Chunk
  <2> QED
    BY <1>2, <2>1, <2>2
<1>4. \A r \in Ranges : files'[r] \in {files[r], None, source}
  OBVIOUS
<1> HIDE DEF run
<1> QED
  BY <1>3, <1>4, OwnGoesOn

(* A chunk of the active run becomes another, or a run changes its status. *)
LEMMA BecomesOwn ==
  ASSUME IInv, Own, active # 0, NEW c \in runs[active].chunks, NEW d, FromChunk(d, c), Becomes(c, d),
         source' = source, files' = files
  PROVE  Own'
<1>1. active \in DOMAIN runs /\ runs \in Seq(RunRecord)
  BY DEF IInv, Typed
<1> DEFINE old == runs[active]
           run == [old EXCEPT !.chunks = (old.chunks \ {c}) \cup {d}]
<1>2. runs' = [runs EXCEPT ![active] = run]
  BY DEF Becomes
<1>3. run.chunks = (old.chunks \ {c}) \cup {d}
  <2>1. old \in RunRecord
    BY <1>1
  <2> QED
    BY <2>1 DEF RunRecord
<1>4. DOMAIN runs' = DOMAIN runs
      /\ \A i \in DOMAIN runs : runs'[i] = IF i = active THEN run ELSE runs[i]
  <2> HIDE DEF run
  <2> QED
    BY <1>1, <1>2
<1>5. ASSUME NEW i \in DOMAIN runs', NEW e \in runs'[i].chunks
      PROVE  \E j \in DOMAIN runs : \E b \in runs[j].chunks : FromChunk(e, b)
  <2>1. CASE e \in runs[i].chunks
    <3>1. FromChunk(e, e)
      BY <1>4, <2>1 DEF Own, OwnFile, FromChunk
    <3> QED
      BY <1>4, <2>1, <3>1
  <2>2. CASE e = d
    BY <1>1, <2>2
  <2> HIDE DEF run
  <2> QED
    BY <1>3, <1>4, <1>5, <2>1, <2>2
<1> HIDE DEF run
<1> QED
  BY <1>5, OwnGoesOn

LEMMA StatusOwn ==
  ASSUME IInv, Own, NEW i, NEW status, runs' = [runs EXCEPT ![i].status = status],
         source' = source, files' = files
  PROVE  Own'
<1>1. runs \in Seq(RunRecord)
  BY DEF IInv, Typed
<1> DEFINE run == [runs[i] EXCEPT !.status = status]
<1>2. i \in DOMAIN runs => run.chunks = runs[i].chunks
  BY <1>1 DEF RunRecord
<1>3. runs' = [runs EXCEPT ![i] = run]
  OBVIOUS
<1>4. DOMAIN runs' = DOMAIN runs /\ \A j \in DOMAIN runs : runs'[j].chunks = runs[j].chunks
  <2> HIDE DEF run
  <2> QED
    BY <1>1, <1>2, <1>3
<1>5. ASSUME NEW j \in DOMAIN runs', NEW d \in runs'[j].chunks
      PROVE  FromChunk(d, d) /\ d \in runs[j].chunks
  BY <1>4, <1>5 DEF Own, OwnFile, FromChunk
<1> HIDE DEF run
<1> QED
  BY <1>4, <1>5, OwnGoesOn

LEMMA HandleOwn ==
  ASSUME IInv, Own, active # 0, NEW c \in runs[active].chunks, Handle(c)
  PROVE  Own'
<1>1. active \in DOMAIN runs
  BY DEF IInv, Typed
<1>2. OwnFile(c) /\ c \in ChunkRecord
  BY <1>1, ChunkTyped DEF Own
<1>3. source' = source /\ files' = files
  BY DEF Handle, SkipChunk, UploadChunk, StoreChunk, directory
<1>4. CASE SkipChunk(c)
  <2>1. FromChunk([c EXCEPT !.status = "skipped"], c)
    BY <1>2 DEF FromChunk, ChunkRecord
  <2> QED
    BY <1>3, <1>4, <2>1, BecomesOwn DEF SkipChunk
<1>5. CASE StoreChunk(c)
  <2>1. FromChunk([c EXCEPT !.status = "stored"], c)
    BY <1>2, <1>5 DEF FromChunk, ChunkRecord, OwnFile, StoreChunk
  <2> QED
    BY <1>3, <1>5, <2>1, BecomesOwn DEF StoreChunk
<1>6. CASE UploadChunk(c)
  <2>1. CASE files[c.range] = None
    BY <1>3, <1>6, <2>1, SameRunsOwn DEF UploadChunk
  <2>2. CASE files[c.range] # None
    <3>1. files[c.range] \in Versions
      BY <1>2, <2>2 DEF ChunkRecord, IInv, Typed
    <3>2. FromChunk([c EXCEPT !.status = "sent", !.file = files[c.range]], c)
      BY <1>2, <3>1 DEF FromChunk, ChunkRecord
    <3> QED
      BY <1>3, <1>6, <2>2, <3>2, BecomesOwn DEF UploadChunk
  <2> QED
    BY <2>1, <2>2
<1> QED
  BY <1>4, <1>5, <1>6 DEF Handle

LEMMA ReplaceOwn == ASSUME IInv, Own, ReplaceSource PROVE Own'
<1>1. /\ source \in Nat /\ source' \in Nat /\ source < source'
      /\ files' = files /\ runs' = runs
  BY SplitAssumption DEF ReplaceSource, directory, IInv, Typed
<1>2. ASSUME NEW i \in DOMAIN runs, NEW c \in runs[i].chunks
      PROVE  OwnFile(c)'
  <2>1. OwnFile(c) /\ c.source \in Nat
    BY ChunkTyped, SplitAssumption DEF Own, ChunkRecord
  <2> QED
    BY <1>1, <2>1 DEF OwnFile
<1> QED
  BY <1>1, <1>2 DEF Own

LEMMA OwnStep == ASSUME IInv, Own, [SplitNext]_vars PROVE Own'
<1>1. CASE \/ materialize_page_window \/ MapWindow \/ ClearMappings \/ ClearFiles
           \/ Cut \/ Map \/ Crash \/ UNCHANGED vars
  <2>1. source' = source /\ runs' = runs
    BY <1>1 DEF materialize_page_window, MapWindow, ClearMappings, ClearFiles, Cut, Map, Crash,
                vars, directory
  <2>2. \A r \in Ranges : files'[r] \in {files[r], None, source}
    <3>1. CASE materialize_page_window
      <4> DEFINE w == pilot_window(Total[source])
      <4>1. files' \in {files, [files EXCEPT ![w] = None], [files EXCEPT ![w] = source]}
        BY <3>1 DEF materialize_page_window
      <4> HIDE DEF w
      <4> QED
        BY <4>1 DEF IInv, Typed
    <3>2. CASE ClearFiles
      BY <3>2 DEF ClearFiles
    <3>3. CASE Cut
      <4>1. \E r : files' \in {files, [files EXCEPT ![r] = source]}
        BY <3>3 DEF Cut
      <4> QED
        BY <4>1 DEF IInv, Typed
    <3>4. CASE MapWindow \/ ClearMappings \/ Map \/ Crash \/ UNCHANGED vars
      BY <3>4 DEF MapWindow, ClearMappings, Map, Crash, vars, directory
    <3> QED
      BY <1>1, <3>1, <3>2, <3>3, <3>4
  <2> QED
    BY <2>1, <2>2, SameRunsOwn
<1>2. CASE SaveRun
  <2>1. /\ source' = source /\ files' = files
        /\ \A r \in made : files[r] = source
        /\ CreateRun(pc, made) \/ runs' = runs
    BY <1>2 DEF SaveRun, directory, IInv, Cutting, FitsNow
  <2> QED
    BY <2>1, CreateOwn, SameRunsOwn
<1>3. CASE _prepare_run
  <2>1. source' = source /\ files' = files
    BY <1>3 DEF _prepare_run, directory
  <2>2. CASE Reusable /\ CreateRun("all", {m[1] : m \in mappings})
    <3>1. \A r \in {m[1] : m \in mappings} : files[r] = source
      BY <2>2 DEF Reusable
    <3> QED
      BY <2>1, <2>2, <3>1, CreateOwn
  <2>3. CASE runs' = runs
    BY <2>1, <2>3, SameRunsOwn
  <2> QED
    BY <1>3, <2>2, <2>3 DEF _prepare_run
<1>4. CASE EndRun \/ \E run \in DOMAIN runs : resume(run)
  BY <1>4, StatusOwn DEF EndRun, resume, directory
<1>5. CASE active # 0 /\ \E c \in runs[active].chunks : Handle(c)
  BY <1>5, HandleOwn
<1>6. CASE ReplaceSource
  BY <1>6, ReplaceOwn
<1> QED
  BY <1>1, <1>2, <1>3, <1>4, <1>5, <1>6 DEF SplitNext

(* The source is on record while a command runs, and once there are runs.  *)
LEMMA RecordedStep == ASSUME IInv, Recorded, [SplitNext]_vars PROVE Recorded'
<1>1. source \in Versions /\ runs \in Seq(RunRecord)
  BY DEF IInv, Typed
<1>2. CASE record' = source
  BY <1>1, <1>2 DEF Recorded
<1>3. CASE record' = record /\ pc # "idle"
  BY <1>3 DEF Recorded
<1>4. CASE record' = record /\ pc' = pc /\ runs' = runs
  BY <1>4 DEF Recorded
<1>5. CASE materialize_page_window \/ _prepare_run \/ \E run \in DOMAIN runs : resume(run)
  BY <1>2, <1>5 DEF materialize_page_window, _prepare_run, Begin, resume
<1>6. CASE \/ MapWindow \/ ClearMappings \/ ClearFiles \/ Cut \/ Map \/ SaveRun
           \/ EndRun \/ Crash
  BY <1>3, <1>6 DEF MapWindow, ClearMappings, ClearFiles, Cut, Map, SaveRun, EndRun, Crash
<1>7. CASE active # 0 /\ \E c \in runs[active].chunks : Handle(c)
  BY <1>3, <1>7 DEF Handle, SkipChunk, UploadChunk, StoreChunk
<1>8. CASE ReplaceSource \/ UNCHANGED vars
  BY <1>4, <1>8 DEF ReplaceSource, vars, command
<1> QED
  BY <1>5, <1>6, <1>7, <1>8 DEF SplitNext


-----------------------------------------------------------------------------
(* The pages of a merge.                                                   *)
(* What the code makes of page p of a chunk's range.                       *)
PageOf(c, p) ==
  [number |-> p, source |-> c.source, chunk |-> c.range,
   text |-> load_chunk_page_blocks(c)[p - c.range[1] + 1], missing |-> FALSE]

LEMMA RangeIs ==
  ASSUME NEW r \in Ranges
  PROVE  r[1] \in Nat \ {0} /\ r[2] \in Nat /\ r[1] <= r[2] /\ r[1] \in Pages(r)
<1>1. LastPage \in Nat
  BY SplitAssumption
<1> QED
  BY <1>1 DEF Ranges, Pages

LEMMA PagesFromChunk ==
  ASSUME NEW c \in ChunkRecord
  PROVE  _pages_from_chunk(c) = {PageOf(c, p) : p \in Pages(c.range)}
<1>1. c.range[1] \in Nat /\ c.range[2] \in Nat
  BY RangeIs DEF ChunkRecord
<1> DEFINE built(index) ==
             [number |-> original_page_for(c, index), source |-> c.source, chunk |-> c.range,
              text |-> load_chunk_page_blocks(c)[index], missing |-> FALSE]
<1>2. _pages_from_chunk(c) = {built(index) : index \in 1 .. Count(c.range)}
  BY DEF _pages_from_chunk
<1>3. ASSUME NEW index \in 1 .. Count(c.range)
      PROVE  \E p \in Pages(c.range) : built(index) = PageOf(c, p)
  <2> DEFINE p == c.range[1] - 1 + index
  <2>1. p \in Pages(c.range) /\ p - c.range[1] + 1 = index /\ original_page_for(c, index) = p
    BY <1>1 DEF Pages, Count, original_page_for
  <2> HIDE DEF p
  <2> QED
    BY <2>1 DEF PageOf
<1>4. ASSUME NEW p \in Pages(c.range)
      PROVE  \E index \in 1 .. Count(c.range) : PageOf(c, p) = built(index)
  <2> DEFINE index == p - c.range[1] + 1
  <2>1. index \in 1 .. Count(c.range) /\ original_page_for(c, index) = p
    BY <1>1 DEF Pages, Count, original_page_for
  <2>2. PageOf(c, p) = built(index)
    BY <2>1 DEF PageOf
  <2> QED
    BY <2>1, <2>2
<1> HIDE DEF built
<1> QED
  BY <1>2, <1>3, <1>4

(* Page p of a merge comes from a chunk that has it, or is missing.        *)
Pagewise(chunks, p) ==
  LET pages == _merge_volume(chunks)
  IN /\ p \in DOMAIN pages
     /\ (\E c \in chunks : p \in Pages(c.range))
        => \E c \in chunks : p \in Pages(c.range) /\ pages[p] = PageOf(c, p)
     /\ (\A c \in chunks : p \notin Pages(c.range)) => pages[p] = Missing(p)

LEMMA MergedPages ==
  ASSUME NEW chunks \in SUBSET ChunkRecord
  PROVE  /\ \A p \in DOMAIN _merge_volume(chunks) : Pagewise(chunks, p)
         /\ \A c \in chunks : \A p \in Pages(c.range) : Pagewise(chunks, p)
         /\ \A p \in 1 .. Expected(chunks) : Pagewise(chunks, p)
<1> DEFINE pages == [c \in chunks |-> _pages_from_chunk(c)]
           numbers == {e.number : e \in UNION {pages[c] : c \in chunks}}
           found(p) == {c \in chunks : \E e \in pages[c] : e.number = p}
           first(p) == CHOOSE c \in found(p) : \A d \in found(p) : c.range[1] <= d.range[1]
           page(p) == IF p \in numbers THEN CHOOSE e \in pages[first(p)] : e.number = p
                      ELSE Missing(p)
<1>1. _merge_volume(chunks) = [p \in numbers \cup 1 .. Expected(chunks) |-> page(p)]
  BY DEF _merge_volume
<1>2. \A c \in chunks : pages[c] = {PageOf(c, p) : p \in Pages(c.range)}
  BY PagesFromChunk
<1> HIDE DEF pages
<1>3. \A c : \A p : PageOf(c, p).number = p
  BY DEF PageOf
<1>4. \A p : p \in numbers <=> \E c \in chunks : p \in Pages(c.range)
  BY <1>2, <1>3
<1>5. \A p : found(p) = {c \in chunks : p \in Pages(c.range)}
  BY <1>2, <1>3
<1>6. ASSUME NEW p, p \in numbers
      PROVE  \E c \in chunks : p \in Pages(c.range) /\ page(p) = PageOf(c, p)
  <2>1. found(p) # {} /\ \A c \in found(p) : c \in ChunkRecord
    BY <1>4, <1>5, <1>6
  <2> HIDE DEF found
  <2>2. \E c \in found(p) : \A d \in found(p) : c.range[1] <= d.range[1]
    <3> DEFINE T == {c.range[1] : c \in found(p)}
    <3>1. T \in SUBSET Nat /\ T # {}
      BY <2>1, RangeIs DEF ChunkRecord
    <3>2. PICK n \in T : \A m \in T : n <= m
      BY <3>1, LeastNat
    <3> QED
      BY <3>2
  <2>3. first(p) \in found(p)
    BY <2>2
  <2> HIDE DEF first
  <2>4. first(p) \in chunks /\ p \in Pages(first(p).range)
    BY <1>5, <2>3
  <2>5. \E e \in pages[first(p)] : e.number = p
    <3>1. pages[first(p)] = {PageOf(first(p), q) : q \in Pages(first(p).range)}
      BY <1>2, <2>4
    <3>2. PageOf(first(p), p) \in pages[first(p)]
      BY <2>4, <3>1
    <3> QED
      BY <1>3, <3>2
  <2>6. page(p) \in pages[first(p)] /\ page(p).number = p
    BY <1>6, <2>5
  <2> HIDE DEF page
  <2>7. page(p) = PageOf(first(p), p)
    BY <1>2, <1>3, <2>4, <2>6
  <2> QED
    BY <2>4, <2>7
<1>7. \A p : p \notin numbers => page(p) = Missing(p)
  OBVIOUS
<1> HIDE DEF page, numbers, found
<1>8. ASSUME NEW p \in numbers \cup 1 .. Expected(chunks)
      PROVE  Pagewise(chunks, p)
  BY <1>1, <1>4, <1>6, <1>7 DEF Pagewise
<1> QED
  BY <1>1, <1>4, <1>8

(* What is on a page of a result: its own text, or, on the first page,     *)
(* that of a page of the file that does not say which.                     *)
LEMMA BlocksAre ==
  ASSUME NEW c \in ChunkRecord, c.file \in Versions, NEW p \in Pages(c.range)
  PROVE  LET blocks == load_chunk_page_blocks(c)
             on(q) == blocks[q - c.range[1] + 1]
             text == <<c.file, p>>
         IN /\ \A t \in on(p) :
                 \/ t = text
                 \/ t \in Unindexed /\ p = c.range[1] /\ \E q \in Pages(c.range) : t = <<c.file, q>>
            /\ text \in Blank \/ Archive[c.file][c.range] \in {"none", "garbled"}
               \/ text \in on(p) \cup on(c.range[1])
<1>1. /\ c.range \in Ranges /\ c.range[1] \in Nat \ {0} /\ c.range[2] \in Nat
      /\ p \in Nat /\ c.range[1] <= p /\ p <= c.range[2]
  BY RangeIs DEF ChunkRecord, Pages
<1> DEFINE form == Archive[c.file][c.range]
           indices == 1 .. Count(c.range)
           text(index) == <<c.file, c.range[1] + index - 1>>
           items(index) == {text(index)} \ Blank
           on(index) == {j \in indices : IF text(j) \in Unindexed THEN index = 1 ELSE j = index}
           listed == [index \in indices |->
                        IF form \in {"list", "both"} THEN UNION {items(j) : j \in on(index)} ELSE {}]
           blocks == [index \in indices |->
                        IF form \in {"paged", "both"} /\ listed[index] = {} THEN items(index)
                        ELSE listed[index]]
           i == p - c.range[1] + 1
<1>2. load_chunk_page_blocks(c) = blocks
  BY DEF load_chunk_page_blocks
<1>3. i \in indices /\ 1 \in indices /\ text(i) = <<c.file, p>> /\ (i = 1 <=> p = c.range[1])
  BY <1>1 DEF Count
<1>4. form \in Forms
  BY <1>1, MergeAssumption
<1>5. c.range[1] - c.range[1] + 1 = 1
  BY <1>1
<1>6. ASSUME NEW j \in indices
      PROVE  \E q \in Pages(c.range) : text(j) = <<c.file, q>>
  <2>1. c.range[1] + j - 1 \in Pages(c.range)
    BY <1>1 DEF Pages, Count
  <2> QED
    BY <2>1
<1> HIDE DEF text
<1>7. ASSUME NEW t \in blocks[i]
      PROVE  t = text(i) \/ (t \in Unindexed /\ i = 1 /\ \E q \in Pages(c.range) : t = <<c.file, q>>)
  <2>1. t \in items(i) \/ t \in listed[i]
    BY <1>3, <1>7
  <2>2. CASE t \in listed[i]
    <3>1. PICK j \in on(i) : t \in items(j)
      BY <1>3, <2>2
    <3>2. t = text(j) /\ j \in indices
      BY <3>1
    <3>3. CASE text(j) \in Unindexed
      BY <1>6, <3>1, <3>2, <3>3
    <3>4. CASE text(j) \notin Unindexed
      BY <3>1, <3>2, <3>4
    <3> QED
      BY <3>3, <3>4
  <2> QED
    BY <2>1, <2>2
<1>8. ASSUME text(i) \notin Blank, form \notin {"none", "garbled"}
      PROVE  text(i) \in blocks[i] \cup blocks[1]
  <2>1. text(i) \in items(i)
    BY <1>8
  <2>2. CASE form = "paged"
    BY <1>3, <2>1, <2>2
  <2>3. CASE form \in {"list", "both"}
    <3>1. \A k \in indices : i \in on(k) => text(i) \in listed[k]
      BY <2>1, <2>3
    <3>2. \A k \in indices : text(i) \in listed[k] => text(i) \in blocks[k]
      OBVIOUS
    <3>3. i \in on(1) \/ i \in on(i)
      BY <1>3
    <3> HIDE DEF on, listed, blocks
    <3> QED
      BY <1>3, <3>1, <3>2, <3>3
  <2> QED
    BY <1>4, <1>8, <2>2, <2>3 DEF Forms
<1> HIDE DEF blocks, form, i
<1> QED
  BY <1>2, <1>3, <1>5, <1>7, <1>8 DEF i, form

(* What a merge of the chunks that a run has stored shows.                 *)
LEMMA MergedTextStep ==
  ASSUME IInv, Own, NEW i \in DOMAIN runs,
         NEW p \in DOMAIN _merge_volume(Stored(runs[i])),
         _merge_volume(Stored(runs[i]))[p].source = source,
         NEW t \in _merge_volume(Stored(runs[i]))[p].text
  PROVE  LET page == _merge_volume(Stored(runs[i]))[p]
         IN \/ t = <<source, p>>
            \/ /\ t \in Unindexed /\ p = page.chunk[1]
               /\ \E q \in Pages(page.chunk) : t = <<source, q>>
<1> DEFINE chunks == Stored(runs[i])
           page == _merge_volume(chunks)[p]
<1>1. \A c \in chunks : c \in runs[i].chunks /\ c \in ChunkRecord /\ c.status = "stored"
  BY ChunkTyped DEF Stored
<1>2. chunks \in SUBSET ChunkRecord
  BY <1>1
<1>3. Pagewise(chunks, p)
  BY <1>2, MergedPages
<1>4. CASE \A c \in chunks : p \notin Pages(c.range)
  BY <1>3, <1>4 DEF Pagewise, Missing
<1>5. CASE \E c \in chunks : p \in Pages(c.range)
  <2>1. PICK c \in chunks : p \in Pages(c.range) /\ page = PageOf(c, p)
    BY <1>3, <1>5 DEF Pagewise
  <2>2. /\ page.source = c.source /\ page.chunk = c.range
        /\ page.text = load_chunk_page_blocks(c)[p - c.range[1] + 1]
    BY <2>1 DEF PageOf
  <2>3. c.file = source
    <3>1. OwnFile(c)
      BY <1>1 DEF Own
    <3> QED
      BY <1>1, <2>2, <3>1, SplitAssumption DEF OwnFile
  <2>4. c \in ChunkRecord /\ c.file \in Versions
    BY <1>1, <2>3 DEF IInv, Typed
  <2>5. t \in load_chunk_page_blocks(c)[p - c.range[1] + 1]
    BY <2>2
  <2>6. \/ t = <<c.file, p>>
        \/ t \in Unindexed /\ p = c.range[1] /\ \E q \in Pages(c.range) : t = <<c.file, q>>
    BY <2>1, <2>4, <2>5, BlocksAre
  <2> HIDE DEF page
  <2>7. \/ t = <<source, p>>
        \/ /\ t \in Unindexed /\ p = page.chunk[1]
           /\ \E q \in Pages(page.chunk) : t = <<source, q>>
    BY <2>2, <2>3, <2>6
  <2> QED
    BY <2>7 DEF page
<1> QED
  BY <1>4, <1>5

LEMMA WholeStep ==
  ASSUME IInv, Own, NEW i \in select_all_extraction_run,
         \A c \in Stored(runs[i]) : Archive[c.file][c.range] # "garbled",
         NEW c \in runs[i].chunks
  PROVE  LET pages == _merge_volume(Stored(runs[i]))
         IN /\ \A p \in 1 .. Total[c.source] : p \in DOMAIN pages /\ ~pages[p].missing
            /\ \A p \in Pages(c.range) :
                 <<c.file, p>> \in Blank \/ Archive[c.file][c.range] = "none"
                 \/ <<c.file, p>> \in pages[p].text \cup pages[c.range[1]].text
<1> DEFINE chunks == Stored(runs[i])
           pages == _merge_volume(chunks)
<1>1. i \in DOMAIN runs /\ runs[i].mode = "all" /\ chunks = runs[i].chunks
  BY DEF select_all_extraction_run
<1>2. \A d \in chunks : d \in runs[i].chunks /\ d \in ChunkRecord /\ d.status = "stored"
  BY <1>1, ChunkTyped DEF Stored
<1>3. chunks \in SUBSET ChunkRecord
  BY <1>2
<1>4. OfOneSource(chunks)
  BY <1>1 DEF IInv, RunsCover
<1>5. \A d \in chunks : \A p \in Pages(d.range) :
        p \in DOMAIN pages /\ pages[p] = PageOf(d, p)
  <2> SUFFICES ASSUME NEW d \in chunks, NEW p \in Pages(d.range)
               PROVE  p \in DOMAIN pages /\ pages[p] = PageOf(d, p)
    OBVIOUS
  <2>1. Pagewise(chunks, p)
    BY <1>3, MergedPages
  <2>2. p \in DOMAIN pages
    BY <2>1 DEF Pagewise
  <2>3. PICK e \in chunks : p \in Pages(e.range) /\ pages[p] = PageOf(e, p)
    BY <2>1 DEF Pagewise
  <2>4. e = d
    BY <1>4, <2>3 DEF OfOneSource, Apart
  <2> QED
    BY <2>2, <2>3, <2>4
<1> HIDE DEF pages
<1>6. ASSUME NEW p \in 1 .. Total[c.source]
      PROVE  p \in DOMAIN pages /\ ~pages[p].missing
  <2>1. PICK d \in chunks : p \in Pages(d.range)
    BY <1>1, <1>4, <1>6 DEF OfOneSource
  <2>2. p \in DOMAIN pages /\ pages[p] = PageOf(d, p)
    BY <1>5, <2>1
  <2> QED
    BY <2>2 DEF PageOf
<1>7. ASSUME NEW p \in Pages(c.range)
      PROVE  <<c.file, p>> \in Blank \/ Archive[c.file][c.range] = "none"
             \/ <<c.file, p>> \in pages[p].text \cup pages[c.range[1]].text
  <2>1. c \in ChunkRecord /\ c.file \in Versions /\ c.range[1] \in Pages(c.range)
    <3>1. OwnFile(c)
      BY <1>1 DEF Own
    <3> QED
      BY <1>1, <1>2, <3>1, RangeIs DEF OwnFile, ChunkRecord
  <2>2. /\ pages[p].text = load_chunk_page_blocks(c)[p - c.range[1] + 1]
        /\ pages[c.range[1]].text = load_chunk_page_blocks(c)[c.range[1] - c.range[1] + 1]
    <3>1. c \in chunks
      BY <1>1
    <3>2. pages[p] = PageOf(c, p) /\ pages[c.range[1]] = PageOf(c, c.range[1])
      BY <1>5, <1>7, <2>1, <3>1
    <3> QED
      BY <3>2 DEF PageOf
  <2>3. Archive[c.file][c.range] # "garbled"
    BY <1>1
  <2> QED
    BY <2>1, <2>2, <2>3, BlocksAre
<1> QED
  BY <1>6, <1>7 DEF pages

LEMMA GapsStep ==
  ASSUME IInv, Recorded, NEW i \in DOMAIN runs, NEW p \in 1 .. Total[record]
  PROVE  LET pages == _merge_volume(Stored(runs[i]))
         IN /\ p \in DOMAIN pages
            /\ pages[p].missing <=> \A c \in Stored(runs[i]) : p \notin Pages(c.range)
<1> DEFINE chunks == Stored(runs[i])
<1>1. chunks \in SUBSET ChunkRecord
  BY ChunkTyped DEF Stored
<1>2. Expected(chunks) = Total[record]
  BY SplitAssumption DEF Recorded, Expected
<1>3. Pagewise(chunks, p)
  BY <1>1, <1>2, MergedPages
<1> QED
  BY <1>3 DEF Pagewise, PageOf, Missing

Merged == MergedTextIsTrue /\ ChosenMergeIsWhole /\ GapsAreMarked

LEMMA MergeStep ==
  ASSUME IInv, Own, Recorded, merge_raw_pages
  PROVE  Merged'
<1>1. PICK i \in DOMAIN runs, chosen \in BOOLEAN :
        LET stored == Stored(runs[i])
            failed == \E c \in stored : Archive[c.file][c.range] = "garbled"
        IN /\ chosen => i \in select_all_extraction_run
           /\ merged' = [from |-> i, byDefault |-> chosen, failed |-> failed,
                         pages |-> IF failed \/ stored = {} THEN <<>> ELSE _merge_volume(stored)]
  BY DEF merge_raw_pages
<1> DEFINE stored == Stored(runs[i])
           pages == _merge_volume(stored)
<1>2. source' = source /\ runs' = runs /\ record' = record
  BY DEF merge_raw_pages, vars
<1>3. /\ merged'.from = i /\ merged'.byDefault = chosen
      /\ merged'.failed <=> \E c \in stored : Archive[c.file][c.range] = "garbled"
  BY <1>1
<1>4. merged'.pages = <<>> \/ merged'.pages = pages
  BY <1>1
<1>5. ~merged'.failed /\ stored # {} => merged'.pages = pages
  BY <1>1
<1>6. Stored(runs[i])' = stored
  BY <1>2 DEF Stored
<1>7. MergedTextIsTrue'
  <2>1. CASE merged'.pages = <<>>
    BY <2>1 DEF MergedTextIsTrue
  <2>2. CASE merged'.pages = pages
    BY <1>2, <2>2, MergedTextStep DEF MergedTextIsTrue
  <2> QED
    BY <1>4, <2>1, <2>2
<1>8. ChosenMergeIsWhole'
  <2>1. SUFFICES ASSUME merged'.byDefault, ~merged'.failed, NEW c \in runs[i].chunks
                 PROVE  /\ \A p \in 1 .. Total[c.source] :
                             p \in DOMAIN merged'.pages /\ ~merged'.pages[p].missing
                        /\ \A p \in Pages(c.range) :
                             <<c.file, p>> \in Blank \/ Archive[c.file][c.range] = "none"
                             \/ <<c.file, p>> \in merged'.pages[p].text \cup merged'.pages[c.range[1]].text
    BY <1>2, <1>3 DEF ChosenMergeIsWhole
  <2>2. i \in select_all_extraction_run /\ stored = runs[i].chunks
    BY <1>1, <1>3, <2>1 DEF select_all_extraction_run
  <2>3. merged'.pages = pages
    BY <1>5, <2>1, <2>2
  <2>4. \A d \in stored : Archive[d.file][d.range] # "garbled"
    BY <1>3, <2>1
  <2> QED
    BY <2>2, <2>3, <2>4, WholeStep
<1>9. GapsAreMarked'
  <2>1. SUFFICES ASSUME ~merged'.failed, stored # {}, NEW p \in 1 .. Total[record]
                 PROVE  /\ p \in DOMAIN merged'.pages
                        /\ merged'.pages[p].missing <=> \A c \in stored : p \notin Pages(c.range)
    BY <1>2, <1>3, <1>6 DEF GapsAreMarked
  <2> QED
    BY <1>5, <2>1, GapsStep
<1> QED
  BY <1>7, <1>8, <1>9 DEF Merged

LEMMA NothingMerged == merged = NoMerge => Merged
  BY DEF NoMerge, Merged, MergedTextIsTrue, ChosenMergeIsWhole, GapsAreMarked

LEMMA NothingMergedNow == merged' = NoMerge => Merged'
  BY DEF NoMerge, Merged, MergedTextIsTrue, ChosenMergeIsWhole, GapsAreMarked

(* A step of the merge is a step of the split, or leaves it alone.         *)
LEMMA MergeSplits ==
  ASSUME [MergeNext]_<<vars, merged>>
  PROVE  [SplitNext]_vars
<1>1. CASE SplitNext
  BY <1>1
<1>2. CASE merge_raw_pages
  BY <1>2 DEF merge_raw_pages
<1>3. CASE UNCHANGED <<vars, merged>>
  BY <1>3
<1> QED
  BY <1>1, <1>2, <1>3 DEF MergeNext

LEMMA MergedStep ==
  ASSUME IInv, Own, Recorded, Merged, [MergeNext]_<<vars, merged>>
  PROVE  Merged'
<1>1. CASE SplitNext /\ merged' = NoMerge
  BY <1>1, NothingMergedNow
<1>2. CASE merge_raw_pages
  BY <1>2, MergeStep
<1>3. CASE UNCHANGED <<vars, merged>>
  <2>1. merged' = merged /\ runs' = runs /\ source' = source /\ record' = record
    BY <1>3 DEF vars
  <2>2. MergedTextIsTrue'
    BY <2>1 DEF Merged, MergedTextIsTrue
  <2>3. ChosenMergeIsWhole'
    BY <2>1 DEF Merged, ChosenMergeIsWhole
  <2>4. GapsAreMarked'
    BY <2>1 DEF Merged, GapsAreMarked, Stored
  <2> QED
    BY <2>2, <2>3, <2>4 DEF Merged
<1> QED
  BY <1>1, <1>2, <1>3 DEF MergeNext

-----------------------------------------------------------------------------
LEMMA MergeInvariance == MergeSpec => [](IInv /\ Own /\ Recorded /\ Merged)
<1>1. MergeInit => IInv /\ Own /\ Recorded /\ Merged
  <2>1. SUFFICES ASSUME Init, merged = NoMerge
                 PROVE  IInv /\ Own /\ Recorded /\ Merged
    BY DEF MergeInit
  <2>2. DOMAIN runs = {} /\ pc = "idle"
    BY <2>1 DEF Init
  <2> QED
    BY <2>1, <2>2, InitIInv, NothingMerged DEF Own, Recorded
<1>2. ASSUME IInv, Own, Recorded, Merged, [MergeNext]_<<vars, merged>>
      PROVE  IInv' /\ Own' /\ Recorded' /\ Merged'
  BY <1>2, MergeSplits, SplitStep, OwnStep, RecordedStep, MergedStep
<1> QED
  BY <1>1, <1>2, PTL DEF MergeSpec

(* Whatever materialize_chunks finds in the directory and whatever died    *)
(* before, a run that is created for the whole volume has each of its      *)
(* pages in one chunk, and each chunk fits and is cut from the source that *)
(* is there.                                                               *)
THEOREM SplitsPartition == SplitSpec => SplitIsPartition
<1>1. ASSUME IInv, [SplitNext]_vars
      PROVE  [NewRunIsPartition]_vars
  BY <1>1, SplitStep
<1> QED
  BY <1>1, SplitInvariance, PTL DEF SplitSpec, SplitIsPartition, NewRunIsPartition

(* A merged page whose record names the present source has the text of     *)
(* that source's page of that number, although upload_chunk reads whatever *)
(* file has the name the chunk recorded: any number of exchanged sources,  *)
(* new splits, resumed runs and crashes, any way the service reports.      *)
THEOREM MergedTextsAreTrue == MergeSpec => []MergedTextIsTrue
  BY MergeInvariance, PTL DEF Merged

(* The run that merge_raw_pages finds by itself gives every page of its    *)
(* volume, and all the text the service found in the files it was sent,    *)
(* unless a result of the volume cannot be read.                           *)
THEOREM ChosenMergesAreWhole == MergeSpec => []ChosenMergeIsWhole
  BY MergeInvariance, PTL DEF Merged

(* Of whatever run the user names: a page of the volume on record is in    *)
(* the merge, and marked missing when and only when no chunk stored has    *)
(* it, once anything of the run could be merged.                           *)
THEOREM GapsAreAlwaysMarked == MergeSpec => []GapsAreMarked
  BY MergeInvariance, PTL DEF Merged
=============================================================================
