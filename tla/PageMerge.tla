----------------------------- MODULE PageMerge -----------------------------
(***************************************************************************)
(* The pages of a volume, put together again from the results of an ALL    *)
(* run (ingestion/page_merge.py).                                          *)
(*                                                                         *)
(* <<v, p>> is the text of page p of version v of the source.  The service *)
(* answers for the file that was uploaded under the name of a chunk, which *)
(* need not be of the version the chunk was made from; the merge takes the *)
(* page numbers and the version from the chunk.                            *)
(*                                                                         *)
(* A merge is written to a directory of its own and seen once the pointer  *)
(* to the latest names it, which is the last write: it is one step.        *)
(***************************************************************************)
EXTENDS SourceSplit

CONSTANTS
  Archive,          (* version, range -> what the service's result holds     *)
  Blank,            (* texts that are empty                                  *)
  Unindexed,        (* texts whose items do not say their page               *)
  MINERU_MAX_PAGES

(* A result holds a flat list of items, a list of pages, both, none, or    *)
(* something that cannot be read.                                          *)
Forms == {"list", "paged", "both", "none", "garbled"}

ASSUME MergeAssumption ==
  /\ Archive \in [Versions -> [Ranges -> Forms]]
  /\ MINERU_MAX_PAGES \in Nat

VARIABLE merged   (* the merge of the last command, NoMerge if it was       *)
                  (* another: its run, who chose it, whether the volume     *)
                  (* failed, and its pages                                  *)

NoMerge == [from |-> 0, byDefault |-> FALSE, failed |-> FALSE, pages |-> <<>>]

(* Fault: the volume is taken to end with the last chunk.                  *)
lastChunkEnds(chunks) == Max({c.range[2] : c \in chunks})

(* load_source_records: empty before the first preflight.                  *)
Expected(chunks) ==
  IF record # None THEN Total[record] ELSE Max({c.range[2] : c \in chunks})

(* Fault: the pages of a chunk are counted from zero.                      *)
countedFromZero(c, index) == (c.range[1] - 1) + index - 1

(* PageRangeMapping.original_page_for, index from one.                     *)
original_page_for(c, index) == (c.range[1] - 1) + index

(* load_chunk_page_blocks: page index of the file is its index-th page.    *)
(* Items that do not say their page go to the first; the list of pages     *)
(* only fills what the flat list left empty.                               *)
load_chunk_page_blocks(c) ==
  LET form == Archive[c.file][c.range]
      indices == 1 .. Count(c.range)
      text(index) == <<c.file, c.range[1] + index - 1>>
      items(index) == {text(index)} \ Blank
      on(index) == {j \in indices : IF text(j) \in Unindexed THEN index = 1 ELSE j = index}
      listed == [index \in indices |->
                   IF form \in {"list", "both"} THEN UNION {items(j) : j \in on(index)} ELSE {}]
  IN [index \in indices |->
        IF form \in {"paged", "both"} /\ listed[index] = {} THEN items(index) ELSE listed[index]]

(* _pages_from_chunk: every page of the chunk, with its text or empty.     *)
_pages_from_chunk(c) ==
  LET grouped == load_chunk_page_blocks(c)
  IN {[number |-> original_page_for(c, index), source |-> c.source, chunk |-> c.range,
       text |-> grouped[index], missing |-> FALSE] : index \in 1 .. Count(c.range)}

Missing(p) ==
  [number |-> p, source |-> record, chunk |-> None, text |-> {}, missing |-> TRUE]

(* _merge_volume: in the order of the chunks the first record of a page    *)
(* stays; expected pages that no chunk has are marked missing.             *)
_merge_volume(chunks) ==
  LET pages == [c \in chunks |-> _pages_from_chunk(c)]
      numbers == {e.number : e \in UNION {pages[c] : c \in chunks}}
      found(p) == {c \in chunks : \E e \in pages[c] : e.number = p}
      first(p) == CHOOSE c \in found(p) : \A d \in found(p) : c.range[1] <= d.range[1]
  IN [p \in numbers \cup 1 .. Expected(chunks) |->
        IF p \in numbers THEN CHOOSE e \in pages[first(p)] : e.number = p ELSE Missing(p)]

Stored(run) == {c \in run.chunks : c.status = "stored"}

(* Fault: a skipped chunk counts as done.                                  *)
allFinished ==
  {i \in DOMAIN runs : /\ runs[i].mode = "all" /\ runs[i].status = "completed"
                       /\ \A c \in runs[i].chunks : Count(c.range) <= MINERU_MAX_PAGES /\ Finished(c)}

(* The runs the code takes by itself: complete, and no chunk skipped.      *)
select_all_extraction_run ==
  {i \in DOMAIN runs : /\ runs[i].mode = "all" /\ runs[i].status = "completed"
                       /\ \A c \in runs[i].chunks : Count(c.range) <= MINERU_MAX_PAGES
                       /\ Stored(runs[i]) = runs[i].chunks}

(* merge_raw_pages, of the run the user names or of the one that the code  *)
(* finds; which of several was saved last is left open.  A volume with a   *)
(* result that cannot be read is left out, a run without a stored chunk    *)
(* has no volume, and the merge is written all the same.                   *)
merge_raw_pages ==
  /\ pc = "idle"
  /\ \E i \in DOMAIN runs, chosen \in BOOLEAN :
       LET stored == Stored(runs[i])
           failed == \E c \in stored : Archive[c.file][c.range] = "garbled"
       IN /\ IF chosen THEN i \in select_all_extraction_run ELSE runs[i].mode = "all"
          /\ merged' = [from |-> i, byDefault |-> chosen, failed |-> failed,
                        pages |-> IF failed \/ stored = {} THEN <<>> ELSE _merge_volume(stored)]
  /\ UNCHANGED vars

MergeInit == Init /\ merged = NoMerge

MergeNext == (SplitNext /\ merged' = NoMerge) \/ merge_raw_pages

MergeSpec == MergeInit /\ [][MergeNext]_<<vars, merged>>

-----------------------------------------------------------------------------
(* The text of a merged page whose record names the source that is there   *)
(* is the text of the page of that number in it, however often the volume  *)
(* was split, its files cleared and its runs resumed on the way; only what *)
(* the service gave without a page is on the first page of its chunk.      *)
(* Quotations and citations count on version and number.  It needs that a  *)
(* source which was replaced does not come back (ReplaceSource), and it    *)
(* does not hold of pages that name an earlier source: a run of it that is *)
(* resumed may have uploaded files of the present one.                     *)
MergedTextIsTrue ==
  \A p \in DOMAIN merged.pages :
    LET page == merged.pages[p]
    IN page.source = source =>
         \A text \in page.text :
           \/ text = <<source, p>>
           \/ /\ text \in Unindexed /\ p = page.chunk[1]
              /\ \E q \in Pages(page.chunk) : text = <<source, q>>

(* The merge of the run that the code chose lacks no page of the volume    *)
(* the run was made for, and no text that the service found in the files   *)
(* it was sent, unless a result of the volume could not be read.           *)
ChosenMergeIsWhole ==
  merged.byDefault /\ ~merged.failed =>
    \A c \in runs[merged.from].chunks :
      /\ \A p \in 1 .. Total[c.source] : p \in DOMAIN merged.pages /\ ~merged.pages[p].missing
      /\ \A p \in Pages(c.range) :
           <<c.file, p>> \in Blank \/ Archive[c.file][c.range] = "none"
           \/ <<c.file, p>> \in merged.pages[p].text \cup merged.pages[c.range[1]].text

(* Whatever run the user names, with chunks skipped or still open and the  *)
(* source exchanged since: once anything of it could be merged, every page *)
(* of the volume on record is in the merge, and those that no stored chunk *)
(* has are marked missing.                                                 *)
GapsAreMarked ==
  merged.from # 0 /\ ~merged.failed /\ Stored(runs[merged.from]) # {} =>
    \A p \in 1 .. Total[record] :
      /\ p \in DOMAIN merged.pages
      /\ merged.pages[p].missing <=> \A c \in Stored(runs[merged.from]) : p \notin Pages(c.range)
=============================================================================
