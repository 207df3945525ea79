---------------------------- MODULE CorpusBuild ----------------------------
(***************************************************************************)
(* From merged pages to the local database: the commands assemble and      *)
(* ingest-sqlite (ingestion/assemble.py, id_registry.py, snapshot.py,      *)
(* sqlite_ingest.py), with crashes between any two of their steps.         *)
(*                                                                         *)
(* One command runs at a time.  An assembly is known by its number.  A new *)
(* identifier is random in the code; here it is the key it was made for    *)
(* with the number of the assembly that made it, so that two assemblies    *)
(* never make the same one.  The merged pages stay the same: each assembly *)
(* merges the same extraction run again.                                   *)
(***************************************************************************)
EXTENDS CorpusText

CONSTANTS
  Volumes,        (* numbers of volumes, which order them                   *)
  Contents,       (* what may have been merged: volume -> pages -> blocks   *)
  MaxAttempts,    (* bound on the assemblies of a behaviour                 *)
  None

ASSUME BuildAssumption ==
  /\ Volumes \subseteq Nat /\ MaxAttempts \in Nat
  /\ \A merged \in Contents : merged \in [Volumes -> Seq(Seq(Classes))]

VARIABLES
  content,      (* the merged pages                                         *)
  attempt,      (* number of the last assembly                              *)
  registry,     (* id_registry.json: key -> the assembly that made its id   *)
  memory,       (* the IdRegistry of the running assembly                   *)
  todo,         (* volumes it has still to recognise                        *)
  draft,        (* what it has collected                                    *)
  snapshots,    (* assemblies with a report -> what they wrote              *)
  latest,       (* clean structures' latest.json, 0 if there is none        *)
  db,           (* the committed database, None before the first            *)
  loaded,       (* the assembly an ingest has loaded, 0 if none             *)
  tx,           (* its open transaction                                     *)
  reported,     (* the assembly that publication reports' latest.json names *)
  pc, outcome   (* the step of the command; how the last one ended          *)

assembly == <<memory, todo, draft>>
ingest == <<loaded, tx>>
disk == <<registry, snapshots, latest, db, reported>>
vars == <<content, attempt, assembly, ingest, disk, pc, outcome>>

NoRegistry == [key \in {} |-> 0]
NoDraft == [works |-> <<>>, sections |-> <<>>, passages |-> <<>>, pages |-> <<>>,
            links |-> <<>>, failed |-> {}]

(* page_id, work_id, section_id, evidence_id: a key that is known keeps    *)
(* its identifier.                                                         *)
Register(ids, keys) ==
  [key \in DOMAIN ids \cup keys |-> IF key \in DOMAIN ids THEN ids[key] ELSE attempt]

Id(ids, key) == <<key, ids[key]>>
NoId == <<>>

PageKey(v, p) == <<"page", v, p>>
WorkKey(v, work) == <<"work", v, IF work.title = "front" THEN 0 ELSE work.start>>
FrontKey(v) == <<"work", v, 0>>

-----------------------------------------------------------------------------
(* Passages of a work, linked in both directions.                          *)
_link_prev_next(passages) ==
  [i \in DOMAIN passages |->
     [passages[i] EXCEPT !.prev = IF i = 1 THEN NoId ELSE passages[i - 1].id,
                         !.next = IF i = Len(passages) THEN NoId ELSE passages[i + 1].id]]

(* What the pages of a volume hold, without identifiers.                   *)
Structure(pages) ==
  LET spans == Cleaned(pages)
      works == _detect_works(spans)
  IN [works |-> works,
      sections |-> [w \in DOMAIN works |-> _sections_for_work(spans, works[w])],
      passages |-> [w \in DOMAIN works |-> _passages_for_work(spans, works[w])]]

Structures == [merged \in Contents |-> [v \in Volumes |-> Structure(merged[v])]]

WorkId(v, work, ids) == Id(ids, WorkKey(v, work))
SectionKey(work, key) == <<"section", work, key>>
PassageKey(work, built, i) == <<"passage", work, built[i].start, i>>

(* The ids of the works, and of what is in them.                           *)
WithWorks(v, found, ids) ==
  Register(ids, {FrontKey(v)} \cup {WorkKey(v, found.works[w]) : w \in DOMAIN found.works})

WithContents(v, found, ids) ==
  Register(ids, UNION {
    LET work == WorkId(v, found.works[w], ids)
        sections == found.sections[w]
        built == found.passages[w]
    IN {SectionKey(work, sections[i].key) : i \in DOMAIN sections}
         \cup {PassageKey(work, built, i) : i \in DOMAIN built} : w \in DOMAIN found.works})

WorkRow(v, work, ids) == [id |-> WorkId(v, work, ids), volume |-> v, start |-> work.start]

SectionRow(work, section, ids) ==
  [id |-> Id(ids, SectionKey(work, section.key)), work |-> work,
   parent |-> IF section.parent = <<>> THEN NoId
              ELSE Id(ids, SectionKey(work, section.parent))]

PassageRow(v, work, built, i, ids) ==
  [id |-> Id(ids, PassageKey(work, built, i)), volume |-> v,
   section |-> Id(ids, SectionKey(work, built[i].section)),
   text |-> built[i].text, start |-> built[i].start, end |-> built[i].end,
   prev |-> NoId, next |-> NoId]

(* recognize_structure: the works, sections and passages of a volume.      *)
recognize_structure(v, found, ids) ==
  LET works == found.works
      work(w) == WorkId(v, works[w], ids)
      sections(w) == found.sections[w]
      built(w) == found.passages[w]
  IN [works |-> [w \in DOMAIN works |-> WorkRow(v, works[w], ids)],
      sections |-> Joined([w \in DOMAIN works |->
                     [i \in DOMAIN sections(w) |-> SectionRow(work(w), sections(w)[i], ids)]]),
      passages |-> Joined([w \in DOMAIN works |->
                     _link_prev_next([i \in DOMAIN built(w) |-> PassageRow(v, work(w), built(w), i, ids)])])]

build_page_maps(v, ids) ==
  [p \in DOMAIN content[v] |-> [id |-> Id(ids, PageKey(v, p)), volume |-> v, page |-> p]]

(* Fault: the last page of a passage is left out.                          *)
pagesBeforeEnd(passages, ids) ==
  Joined([i \in DOMAIN passages |->
    [n \in 1 .. passages[i].end - passages[i].start |->
       [passage |-> passages[i].id,
        page |-> Id(ids, PageKey(passages[i].volume, passages[i].start + n - 1))]]])

(* build_passage_pages: a link to every page from the first to the last.   *)
build_passage_pages(passages, ids) ==
  Joined([i \in DOMAIN passages |->
    [n \in 1 .. passages[i].end - passages[i].start + 1 |->
       [passage |-> passages[i].id,
        page |-> Id(ids, PageKey(passages[i].volume, passages[i].start + n - 1))]]])

-----------------------------------------------------------------------------
Init ==
  /\ content \in Contents
  /\ attempt = 0 /\ registry = NoRegistry
  /\ memory = NoRegistry /\ todo = {} /\ draft = NoDraft
  /\ snapshots = [a \in {} |-> NoDraft] /\ latest = 0
  /\ db = None /\ loaded = 0 /\ tx = None /\ reported = 0
  /\ pc = "idle" /\ outcome = "none"

(* The command ends and its memory is gone.                                *)
Ends(how) ==
  /\ pc' = "idle" /\ outcome' = how
  /\ memory' = NoRegistry /\ todo' = {} /\ draft' = NoDraft
  /\ loaded' = 0 /\ tx' = None

(* Fault: the registry is saved last.                                      *)
registryLast == <<"writeStructure", "writeReport", "writeLatest", "saveRegistry">>

(* assemble_corpus: its writes when every volume is recognised.            *)
AfterVolumes == <<"saveRegistry", "writeStructure", "writeReport", "writeLatest">>

NextStep(step) ==
  IF step = Last(AfterVolumes) THEN "done"
  ELSE IF step = "recognise" THEN Head(AfterVolumes)
  ELSE AfterVolumes[1 + CHOOSE i \in DOMAIN AfterVolumes : AfterVolumes[i] = step]

(* merge_raw_pages and clean_merged_pages: each page gets its id, and the  *)
(* registry is saved a first time.                                         *)
clean_merged_pages ==
  /\ pc = "idle" /\ attempt < MaxAttempts
  /\ attempt' = attempt + 1
  /\ memory' = [key \in DOMAIN registry \cup UNION {{PageKey(v, p) : p \in DOMAIN content[v]} : v \in Volumes} |->
                  IF key \in DOMAIN registry THEN registry[key] ELSE attempt']
  /\ registry' = memory'
  /\ todo' = Volumes /\ draft' = NoDraft
  /\ pc' = "recognise" /\ outcome' = "none"
  /\ UNCHANGED <<content, snapshots, latest, db, reported, ingest>>

NextVolume(v) == pc = "recognise" /\ v = Min(todo)

VolumeDone(v) ==
  /\ todo' = todo \ {v}
  /\ pc' = IF todo' = {} THEN NextStep("recognise") ELSE pc

Collected(v, structure, ids) ==
  [draft EXCEPT !.works = @ \o structure.works, !.sections = @ \o structure.sections,
                !.pages = @ \o build_page_maps(v, ids),
                !.links = @ \o build_passage_pages(structure.passages, ids)]

(* The body of the loop.  When the file of the passages cannot be written, *)
(* the volume has failed and the rest of it is collected all the same.     *)
RecogniseVolume(v) ==
  /\ NextVolume(v)
  /\ \E found \in {Structures[content][v]} :
       \E works \in {WithWorks(v, found, memory)} : \E ids \in {WithContents(v, found, works)} :
         \E structure \in {recognize_structure(v, found, ids)} :
         \E all \in {Collected(v, structure, ids)} :
           /\ memory' = ids
           /\ draft' \in {[all EXCEPT !.passages = @ \o structure.passages],
                          [all EXCEPT !.failed = @ \cup {v}]}
  /\ VolumeDone(v)
  /\ UNCHANGED <<content, attempt, ingest, disk, outcome>>

(* Its pages cannot be read: a failed volume does not end the assembly.    *)
VolumeFails(v) ==
  /\ NextVolume(v)
  /\ draft' = [draft EXCEPT !.failed = @ \cup {v}]
  /\ VolumeDone(v)
  /\ UNCHANGED <<content, attempt, memory, ingest, disk, outcome>>

Step(step) ==
  /\ pc = step
  /\ IF NextStep(step) = "done" THEN Ends("done")
     ELSE pc' = NextStep(step) /\ UNCHANGED <<assembly, ingest, outcome>>

SaveRegistry ==
  /\ Step("saveRegistry")
  /\ registry' = memory
  /\ UNCHANGED <<content, attempt, snapshots, latest, db, reported>>

(* Works, sections, maps, links and issues; nobody looks for them before   *)
(* there is a report.                                                      *)
WriteStructure == Step("writeStructure") /\ UNCHANGED <<content, attempt, disk>>

WriteReport ==
  /\ Step("writeReport")
  /\ snapshots' = [a \in DOMAIN snapshots \cup {attempt} |->
                     IF a = attempt THEN draft ELSE snapshots[a]]
  /\ UNCHANGED <<content, attempt, registry, latest, db, reported>>

WriteLatest ==
  /\ Step("writeLatest")
  /\ latest' = attempt
  /\ UNCHANGED <<content, attempt, registry, snapshots, db, reported>>

-----------------------------------------------------------------------------
(* load_assemble_snapshot: the latest assembly, or one that was named.     *)
load_assemble_snapshot ==
  /\ pc = "idle"
  /\ \E a \in {latest} \cup 1 .. attempt :
       IF a \in DOMAIN snapshots
       THEN loaded' = a /\ pc' = "begin" /\ outcome' = "none"
       ELSE outcome' = "refused" /\ UNCHANGED <<loaded, pc>>
  /\ UNCHANGED <<content, attempt, assembly, tx, disk>>

NoRows == [works |-> <<>>, sections |-> <<>>, passages |-> <<>>, pages |-> <<>>, links |-> {},
           from |-> 0]

(* The transaction begins; a corpus that is there is deleted in it, if the *)
(* user has asked for that.                                                *)
Begin ==
  /\ pc = "begin"
  /\ \E replace \in BOOLEAN :
       IF db # None /\ ~replace THEN Ends("refused")
       ELSE tx' = NoRows /\ pc' = "insert" /\ UNCHANGED <<assembly, loaded, outcome>>
  /\ UNCHANGED <<content, attempt, disk>>

(* Fault: rows are taken as they come.                                     *)
everyRow(rows) == rows

(* _unique_by_id: the first row of an id stays.                            *)
_unique_by_id(rows) ==
  LET places == Ascending({i \in DOMAIN rows : \A j \in 1 .. i - 1 : rows[j].id # rows[i].id})
  IN [n \in DOMAIN places |-> rows[places[n]]]

Ids(rows) == {rows[i].id : i \in DOMAIN rows}
HasKey(rows) == Cardinality(Ids(rows)) = Len(rows)

(* Works are numbered in the order of their first page.  The numbers of    *)
(* sections and of passages are left out: those of one page are in the     *)
(* order of their random ids.                                              *)
WorksInOrder(works) ==
  LET earlier(i, j) ==
        \/ PairBefore(<<works[i].volume, works[i].start>>, <<works[j].volume, works[j].start>>)
        \/ works[i].volume = works[j].volume /\ works[i].start = works[j].start /\ i < j
      places == InOrder([j \in DOMAIN works |-> {i \in DOMAIN works : earlier(i, j)}])
  IN [n \in DOMAIN places |-> works[places[n]]]

(* A neighbour that is not inserted is none.                               *)
_insert_passages(rows) ==
  LET kept(id) == IF id \in Ids(rows) THEN id ELSE NoId
  IN [i \in DOMAIN rows |-> [rows[i] EXCEPT !.prev = kept(@), !.next = kept(@)]]

LinksOf(rows, links) == {link \in Range(links) : link.passage \in Ids(rows)}

(* What the transaction inserts of an assembly.                            *)
Rows(a, snapshot) ==
  LET passages == _insert_passages(_unique_by_id(snapshot.passages))
  IN [works |-> WorksInOrder(_unique_by_id(snapshot.works)),
      sections |-> _unique_by_id(snapshot.sections),
      passages |-> passages,
      pages |-> _unique_by_id(snapshot.pages),
      links |-> LinksOf(passages, snapshot.links), from |-> a]

(* The schema: keys are unique, and what a row refers to exists.           *)
SchemaHolds(rows) ==
  /\ HasKey(rows.works) /\ HasKey(rows.sections) /\ HasKey(rows.passages) /\ HasKey(rows.pages)
  /\ \A row \in Range(rows.sections) :
       row.work \in Ids(rows.works) /\ row.parent \in {NoId} \cup Ids(rows.sections)
  /\ \A row \in Range(rows.passages) :
       /\ row.section \in Ids(rows.sections)
       /\ {row.prev, row.next} \subseteq {NoId} \cup Ids(rows.passages)
  /\ \A row \in rows.links :
       row.passage \in Ids(rows.passages) /\ row.page \in Ids(rows.pages)

Insert ==
  /\ pc = "insert"
  /\ \E rows \in {Rows(loaded, snapshots[loaded])} :
       IF SchemaHolds(rows)
       THEN tx' = rows /\ pc' = "commit" /\ UNCHANGED <<assembly, loaded, outcome>>
       ELSE Ends("integrity")
  /\ UNCHANGED <<content, attempt, disk>>

Commit ==
  /\ pc = "commit"
  /\ db' = tx /\ tx' = None
  /\ pc' = "report"
  /\ UNCHANGED <<content, attempt, assembly, registry, snapshots, latest, reported, loaded, outcome>>

(* The checks after the commit find nothing that the schema allowed.       *)
Report ==
  /\ pc = "report"
  /\ reported' = loaded
  /\ Ends("done")
  /\ UNCHANGED <<content, attempt, registry, snapshots, latest, db>>

(* The process dies, or a write fails: an open transaction is rolled back. *)
Crash ==
  /\ pc # "idle"
  /\ Ends("none")
  /\ UNCHANGED <<content, attempt, disk>>

Next ==
  \/ clean_merged_pages
  \/ \E v \in Volumes : RecogniseVolume(v) \/ VolumeFails(v)
  \/ SaveRegistry \/ WriteStructure \/ WriteReport \/ WriteLatest
  \/ load_assemble_snapshot \/ Begin \/ Insert \/ Commit \/ Report
  \/ Crash

Spec == Init /\ [][Next]_vars

-----------------------------------------------------------------------------
(* The blocks of a volume that are neither header nor foot, in the order   *)
(* of pages and blocks.                                                    *)
Body(pages) ==
  LET body == {place \in Places(pages) : Kind(pages, place[1], place[2]) \notin {"header", "footer"}}
  IN InOrder([place \in body |-> {other \in body : PairBefore(other, place)}])

Bodies == [merged \in Contents |-> [v \in Volumes |-> Body(merged[v])]]

WorkOf(row) == (CHOOSE s \in Range(db.sections) : s.id = row.section).work

(* The passages of a work as a reader of the database walks them: from the *)
(* one that has no predecessor to its next.                                *)
Following(rows, walked) ==
  {row \in rows : IF walked = <<>> THEN row.prev = NoId ELSE row.id = Last(walked).next}

Onward(rows, walked) == walked \o SetToSeq(Following(rows, walked))

Walk(rows) ==
  Loop(LAMBDA walked, n : Onward(rows, walked), <<>>, [n \in 1 .. Cardinality(rows) |-> n])

TextOf(work) ==
  LET walk == Walk({row \in Range(db.passages) : WorkOf(row) = work})
  IN Joined([n \in DOMAIN walk |-> walk[n].text])

ReadVolume(v) ==
  LET works == Keep(db.works, {w \in Range(db.works) : w.volume = v})
  IN Joined([w \in DOMAIN works |-> TextOf(works[w].id)])

(* The database says what the pages say: its works in their order, each    *)
(* from its first passage to its last, are the body of every volume, no    *)
(* block lost, repeated or moved, however titles, headings and headers     *)
(* fall on the pages.  A volume that failed has no text at all.            *)
DatabaseReadsAsMerged ==
  db # None =>
    \A v \in Volumes : ReadVolume(v) = IF v \in snapshots[db.from].failed THEN <<>> ELSE Bodies[content][v]

(* A citation leads to the pages a passage was printed on: its links name  *)
(* every page its text was taken from, and none before or after.           *)
CitationsFindPages ==
  db # None =>
    \A row \in Range(db.passages) :
      LET links == {link \in db.links : link.passage = row.id}
          linked == {page \in Range(db.pages) : \E link \in links : link.page = page.id}
          printed == {place[1] : place \in Range(row.text)}
      IN /\ {page.page : page \in linked} = Min(printed) .. Max(printed)
         /\ \A page \in linked : page.volume = row.volume

(* Assemblies that can be loaded give the same passage the same id and     *)
(* different passages different ones, whatever crashed and whichever       *)
(* volume failed in between: a citation survives a rebuild.                *)
IdsAreStable ==
  \A a, b \in DOMAIN snapshots :
    \A row \in Range(snapshots[a].passages), other \in Range(snapshots[b].passages) :
      row.id = other.id <=> row.volume = other.volume /\ row.text = other.text

(* Whatever assembly is loaded, the schema accepts it: no ingest fails     *)
(* half way, and what was committed passes the checks made after it.       *)
SnapshotsIngest ==
  /\ outcome # "integrity"
  /\ db # None => SchemaHolds(db)
=============================================================================
