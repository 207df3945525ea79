--------------------------- MODULE MCHybridSearch ---------------------------
(* Three evidence ids: two of one decade, of which one is only dated by    *)
(* its end, and one disputed.                                              *)
EXTENDS HybridSearch

MCIds == 1..3

MCDate ==
  <<[kind |-> "known", start |-> None, end |-> 1847],
    [kind |-> "disputed", start |-> 1844, end |-> None],
    [kind |-> "known", start |-> 1845, end |-> 1846]>>

Ask(mode, counter, summaries, size) ==
  [mode |-> mode, counter |-> counter, summaries |-> summaries, page_size |-> size]

MCRequests ==
  {Ask("claim", TRUE, FALSE, 1), Ask("claim", FALSE, FALSE, 3),
   Ask("timeline", TRUE, FALSE, 1), Ask("timeline", TRUE, TRUE, 3),
   Ask("thematic", TRUE, FALSE, 1), Ask("thematic", TRUE, TRUE, 3)}

MCSupportLabels == {"direct", "indirect", "counter", "irrelevant"}

(* Two clusters that may share a name or members, or name a foreign id.    *)
Members == {<<>>, <<2, 1>>, <<1, 1>>, <<0, 3>>, <<3, 2>>}
MCClusterings ==
  {<<[name |-> n, ids |-> a], [name |-> 1, ids |-> b]>> : n \in 0..2, a \in Members, b \in Members}
=============================================================================
