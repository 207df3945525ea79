--------------------------- MODULE MCSourceSplit ---------------------------
(* Three versions of one volume: one that needs no split, a longer one     *)
(* whose even window is too heavy at one place, and a shorter one of which *)
(* only the first page can be cut, the other being over the limit.  A      *)
(* derived PDF weighs as much as its pages together.                       *)
EXTENDS SourceSplit

PageBytes == << <<1>>, <<6, 5, 1>>, <<6, 11>> >>
MCTotal == [v \in DOMAIN PageBytes |-> Len(PageBytes[v])]
MCBytes ==
  [v \in DOMAIN PageBytes |->
     [r \in Ranges |->
        AtLeast(1, MapThenSumSet(LAMBDA p : PageBytes[v][p], Pages(r) \cap DOMAIN PageBytes[v]))]]
=============================================================================
