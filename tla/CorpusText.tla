----------------------------- MODULE CorpusText -----------------------------
(***************************************************************************)
(* What cleaning and structure recognition make of the pages of a volume   *)
(* (ingestion/cleaning.py, structure.py, printed_pages.py), as functions.  *)
(*                                                                         *)
(* A page is a sequence of blocks, and a block is its class: what the      *)
(* provider called it and which of the corpus rules its text matches.      *)
(*   text, stop    lines of a paragraph, the second closes a sentence      *)
(*   verse         a poem or an item of a list                             *)
(*   title, book   a title block; a line of text that looks like a title   *)
(*   author, end   the line of the author; the note that closes a work     *)
(*   section, nested   a heading: "chapter one"; "one,"                    *)
(*   running, echo     a page header; a line of text that equals it        *)
(*   number, note, toc  a page number, a footnote, the heading of the      *)
(*                      table of contents                                  *)
(* Texts of one class are equal where the code compares texts (headings,   *)
(* headers, titles); a text itself is the sequence of the places <<page,   *)
(* position>> of the blocks it was joined from.                            *)
(***************************************************************************)
EXTENDS Orderings, SequencesExt, FiniteSetsExt

CONSTANT RepeatMin      (* header_repeat_min_pages *)

ASSUME RepeatAssumption == RepeatMin \in Nat

Classes == {"text", "stop", "verse", "title", "book", "author", "end", "section",
            "nested", "running", "echo", "number", "note", "toc"}

(* A loop over lines: the state after the last of them.                    *)
Loop(step(_, _), start, lines) ==
  LET state[n \in 0 .. Len(lines)] ==
        IF n = 0 THEN start
        ELSE CHOOSE after \in {step(before, lines[n]) : before \in {state[n - 1]}} : TRUE
  IN state[Len(lines)]

-----------------------------------------------------------------------------
(* _repeated_headers, when the running head is on enough pages: then every *)
(* line that equals it is one.                                             *)
_repeated_headers(pages) ==
  IF Cardinality({p \in DOMAIN pages : \E i \in DOMAIN pages[p] : pages[p][i] = "running"}) >= RepeatMin
  THEN {"running", "echo"} ELSE {}

(* _kind_for_block and _classify_blocks: a header that is all there is on  *)
(* its page is text, and a page number is moved to the foot.               *)
Kind(pages, p, i) ==
  LET class == pages[p][i]
  IN IF class \in _repeated_headers(pages) THEN "header"
     ELSE IF class = "running" THEN IF Len(pages[p]) = 1 THEN "main" ELSE "header"
     ELSE IF class = "number" THEN "footer"
     ELSE IF class \in {"note", "toc"} THEN class
     ELSE "main"

(* _kind_for_block, its last result.                                       *)
Joinable(pages, p, i) ==
  /\ pages[p][i] \in {"text", "stop", "book", "end", "section", "echo", "number"}
  /\ Kind(pages, p, i) # "header"

Span(pages, p, i) ==
  [page |-> p, type |-> Kind(pages, p, i), joinable |-> Joinable(pages, p, i),
   class |-> pages[p][i], last |-> pages[p][i], text |-> <<<<p, i>>>>]

(* _join_spans, _can_join: lines of one paragraph, up to the end of a      *)
(* sentence.                                                               *)
CanJoin(previous, span) == previous.last = "text" /\ span.class \in {"text", "stop"}

Join(joined, span) ==
  IF joined # <<>> /\ CanJoin(Last(joined), span)
  THEN Append(Front(joined), [Last(joined) EXCEPT !.text = @ \o span.text, !.last = span.last])
  ELSE Append(joined, span)

_join_spans(spans) == Loop(Join, <<>>, spans)

(* clean_page: the spans of a page.                                        *)
clean_page(pages, p) == _join_spans([i \in DOMAIN pages[p] |-> Span(pages, p, i)])

Cleaned(pages) == [p \in DOMAIN pages |-> clean_page(pages, p)]

Lines(spans) == Joined(spans)

-----------------------------------------------------------------------------
(* _toc_titles: what follows the heading of the table of contents, up to a *)
(* long line, an author or a note.                                         *)
_toc_titles(lines) ==
  Loop(LAMBDA toc, line :
         IF line.type = "toc" THEN [toc EXCEPT !.open = TRUE]
         ELSE IF ~toc.open \/ line.type \in {"header", "footer"} THEN toc
         ELSE IF line.type # "main" \/ line.class \in {"author", "text", "stop"}
              THEN [toc EXCEPT !.open = FALSE]
         ELSE [toc EXCEPT !.titles = @ \cup {line.class}],
       [open |-> FALSE, titles |-> {}], lines).titles

TocPage(spans, p) == \E i \in DOMAIN spans[p] : spans[p][i].type = "toc"

_looks_like_work_title(spans, line) ==
  ~TocPage(spans, line.page) /\ line.type \notin {"header", "footer", "toc"}
    /\ line.class \in {"title", "book"}

(* A work is known by the page of its title, the pages before the first    *)
(* title are a work of their own.                                          *)
FrontWork(page) == [title |-> "front", start |-> page, end |-> page]
TitledWork(line) == [title |-> line.class, start |-> line.page, end |-> line.page]

Near(p, q) == p <= q + 1 /\ q <= p + 1

(* _detect_works, the loop: a title starts a work when a second sign says  *)
(* so.                                                                     *)
Noted(seen, line) ==
  [seen EXCEPT !.author = IF line.class = "author" THEN line.page ELSE @,
               !.ended = @ \/ line.class = "end"]

Signs(seen, line, toc) ==
  \/ seen.author # 0 /\ Near(line.page, seen.author)
  \/ seen.ended
  \/ line.class \in toc

Detect(spans, toc, before, line) ==
  LET seen == Noted(before, line)
  IN IF _looks_like_work_title(spans, line) /\ Signs(seen, line, toc)
     THEN [works |-> Append(seen.works, TitledWork(line)), author |-> 0, ended |-> FALSE]
     ELSE seen

NoneSeen == [works |-> <<>>, author |-> 0, ended |-> FALSE]

Titles(spans) ==
  LET toc == _toc_titles(Lines(spans))
  IN Loop(LAMBDA seen, line : Detect(spans, toc, seen, line), NoneSeen, Lines(spans)).works

(* Fault: a work ends on the page on which the next one starts.            *)
closedOnNext(works, last) ==
  [w \in DOMAIN works |->
     [works[w] EXCEPT !.end = IF w < Len(works) THEN works[w + 1].start ELSE last]]

(* _close_work_ranges: a work ends before the page of the next title.      *)
_close_work_ranges(works, last) ==
  [w \in DOMAIN works |->
     [works[w] EXCEPT !.end = IF w < Len(works) THEN works[w + 1].start - 1 ELSE last]]

_detect_works(spans) ==
  LET lines == Lines(spans)
      first == IF lines = <<>> THEN 1 ELSE lines[1].page
      last == IF lines = <<>> THEN 1 ELSE Last(lines).page
      works == _close_work_ranges(<<FrontWork(first)>> \o Titles(spans), last)
  IN IF works[1].end < works[1].start THEN Tail(works) ELSE works

-----------------------------------------------------------------------------
InWork(spans, work) ==
  Joined([p \in DOMAIN spans |-> IF p \in work.start .. work.end THEN spans[p] ELSE <<>>])

IsHeading(span) == span.class \in {"section", "nested"}

(* _sections_for_work: the root, which has the title of the work, and the  *)
(* headings; a nested one belongs to the heading before it that is not     *)
(* nested.  A section is known by its page and its text, the root as root. *)
Root == <<0, "root">>
Section(span, parent) == [key |-> <<span.page, span.class>>, title |-> span.class, parent |-> parent]

RootSection(work) == [key |-> Root, title |-> work.title, parent |-> <<>>]

Headed(before, span) ==
  LET nested == span.class = "nested"
      section == Section(span, IF nested THEN before.parent ELSE Root)
  IN IF ~IsHeading(span) THEN before
     ELSE [sections |-> Append(before.sections, section),
           parent |-> IF nested THEN before.parent ELSE section.key]

_sections_for_work(spans, work) ==
  Loop(Headed, [sections |-> <<RootSection(work)>>, parent |-> Root], InWork(spans, work)).sections

(* _starts_new_paragraph.  The rules for indented lines match nothing: the *)
(* text is stripped before.                                                *)
_starts_new_paragraph(span) == span.class \in {"section", "book"}

Opened(span, section) ==
  [section |-> section, type |-> span.type, start |-> span.page, end |-> span.page,
   joinable |-> span.joinable /\ span.type = "main", text |-> span.text]

Continues(passage, span) ==
  /\ passage.type = "main" /\ span.type = "main"
  /\ span.joinable /\ passage.joinable
  /\ ~_starts_new_paragraph(span)

(* _passages_for_work: paragraphs, across pages.  A span that has the text *)
(* of a section's title leads to the first section of that title.          *)
SectionOf(sections, span, current) ==
  LET titled == {i \in DOMAIN sections : sections[i].title = span.class}
  IN IF titled = {} THEN current ELSE sections[Min(titled)].key

Read(sections, before, span) ==
  LET section == SectionOf(sections, span, before.section)
      built == before.built
  IN IF span.type \in {"header", "footer"} THEN before
     ELSE IF built # <<>> /\ Continues(Last(built), span)
     THEN [built |-> Append(Front(built),
                            [Last(built) EXCEPT !.end = span.page, !.text = @ \o span.text]),
           section |-> section]
     ELSE [built |-> Append(built, Opened(span, section)), section |-> section]

_passages_for_work(spans, work) ==
  LET sections == _sections_for_work(spans, work)
  IN Loop(LAMBDA before, span : Read(sections, before, span),
          [built |-> <<>>, section |-> Root], InWork(spans, work)).built
=============================================================================
