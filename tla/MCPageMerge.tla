---------------------------- MODULE MCPageMerge ----------------------------
(* The last page of the longest version does not say its number, its       *)
(* second page is blank, and no result of the shortest version can be read.*)
EXTENDS PageMerge, MCSourceSplit

MCUnindexed == {<<2, 3>>}
MCBlank == {<<2, 2>>}
MCArchive ==
  [v \in DOMAIN PageBytes |->
     [r \in Ranges |->
        IF v = 1 THEN "garbled"
        ELSE IF Count(r) > 1 THEN "both" ELSE IF v = 2 THEN "list" ELSE "paged"]]
=============================================================================
