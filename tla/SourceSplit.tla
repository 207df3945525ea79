---------------------------- MODULE SourceSplit ----------------------------
(***************************************************************************)
(* One volume's source PDF, the directory of PDF chunks derived from it    *)
(* and the runs whose chunks are uploaded from that directory              *)
(* (ingestion/splitting.py, mapping.py, and what pipeline.py does with     *)
(* them).                                                                  *)
(*                                                                         *)
(* A pilot run writes a window of pages into the same directory, an ALL    *)
(* run splits the whole volume or reuses the split it finds.  A chunk is   *)
(* written before its mapping; the process may die between any two steps,  *)
(* and the source may be exchanged while no command runs.  What the        *)
(* provider does with a chunk is the business of ExtractionPipeline: here  *)
(* a chunk is sent and stored, now or by a later command.                  *)
(*                                                                         *)
(* A file named by the range <<a, b>> holds pages a to b of the version of *)
(* the source it was cut from: files[<<a, b>>] is that version, and stands *)
(* for the digest of the file.  A mapping file is <<range, version>>, the  *)
(* two things its name and its contents are made of.  How large a derived  *)
(* PDF is depends on its pages, and need not be the sum of their sizes.    *)
(***************************************************************************)
EXTENDS Integers, Sequences, FiniteSetsExt

CONSTANTS
  LastPage,      (* bound on the pages of a version                         *)
  Total,         (* version of the source -> how many pages it has          *)
  Bytes,         (* version, range -> the size of the PDF of these pages    *)
  MaxBytes, MaxPages,        (* SPLIT_MAX_BYTES, SPLIT_MAX_PAGES            *)
  PilotStart, PilotCount,    (* PILOT_START_PAGE, PILOT_PAGE_COUNT          *)
  MaxRuns,       (* bound on the runs of a behaviour                        *)
  None

Versions == DOMAIN Total   (* numbered in the order they come *)
Ranges == {r \in (1 .. LastPage) \X (1 .. LastPage) : r[1] <= r[2]}

ASSUME SplitAssumption ==
  /\ {LastPage, MaxBytes, MaxPages, PilotStart, PilotCount, MaxRuns} \subseteq Nat \ {0}
  /\ Versions \subseteq Nat /\ None \notin Versions
  /\ Total \in [Versions -> 1 .. LastPage]
  /\ Bytes \in [Versions -> [Ranges -> Nat \ {0}]]

VARIABLES
  source,     (* the version of the source PDF                              *)
  files,      (* the derived PDFs                                           *)
  mappings,   (* the mapping files beside them                              *)
  runs,       (* the runs of the state file, oldest first                   *)
  active,     (* active_run_id, 0 if none                                   *)
  record,     (* the version of the volume's source record                  *)
  pc,         (* what the command is doing                                  *)
  cursor,     (* start of the range that is cut next                        *)
  made        (* the ranges cut so far by this command                      *)

directory == <<files, mappings>>
command == <<pc, cursor, made>>
vars == <<source, record, directory, runs, active, command>>

Pages(r) == r[1] .. r[2]
Count(r) == r[2] - r[1] + 1

AtMost(a, b) == IF a < b THEN a ELSE b
AtLeast(a, b) == IF a > b THEN a ELSE b

-----------------------------------------------------------------------------
(* plan_page_ranges: windows of as many pages as the average page allows.  *)
SourceBytes(v) == Bytes[v][<<1, Total[v]>>]

Whole(v) == SourceBytes(v) <= MaxBytes /\ Total[v] <= MaxPages

Window(v) ==
  LET bySize == (9 * MaxBytes * Total[v]) \div (10 * AtLeast(Total[v], SourceBytes(v)))
  IN  AtLeast(1, AtMost(MaxPages, bySize))

ProposedEnd(v, start) ==
  IF (start - 1) % Window(v) = 0
  THEN AtMost(Total[v], start + Window(v) - 1)
  ELSE AtMost(Total[v], start + MaxPages - 1)

(* The end of the next try, as much smaller as the last was too heavy.     *)
Shrunk(v, start, end) ==
  LET bySize == (9 * Count(<<start, end>>) * MaxBytes) \div (10 * Bytes[v][<<start, end>>])
  IN  AtLeast(start, AtMost(start + AtLeast(0, bySize - 1), end - 1))

(* _fit_end_page: cut, weigh, and shrink until it fits; 0 if one page is   *)
(* already too large.                                                      *)
_fit_end_page(v, start) ==
  LET fit[end \in start .. Total[v]] ==
        IF Bytes[v][<<start, end>>] <= MaxBytes THEN end
        ELSE IF end = start THEN 0
        ELSE fit[Shrunk(v, start, end)]
  IN fit[AtMost(ProposedEnd(v, start), start + MaxPages - 1)]

(* Fault: only the ends of the split are looked at.                        *)
endsMatch(total, ranges) ==
  ranges # {} /\ Min({r[1] : r \in ranges}) = 1 /\ Max({r[2] : r \in ranges}) = total

(* assert_complete_coverage: no two ranges begin on one page, each begins  *)
(* after the end of the one that begins last before it, and the one that   *)
(* begins last of all ends with the volume.                                *)
BeginsLast(r, ranges) == r \in ranges /\ \A s \in ranges : s[1] <= r[1]

assert_complete_coverage(total, ranges) ==
  LET before(r) == {s \in ranges : s[1] < r[1]}
  IN /\ \A r, s \in ranges : r[1] = s[1] => r = s
     /\ \A r \in ranges :
          IF before(r) = {} THEN r[1] = 1
          ELSE \E s \in ranges : BeginsLast(s, before(r)) /\ r[1] = s[2] + 1
     /\ \E r \in ranges : BeginsLast(r, ranges) /\ r[2] = total

(* _reuse_existing_chunks: every mapping of the directory counts, those of *)
(* a pilot too.                                                            *)
Reusable ==
  LET ranges == {m[1] : m \in mappings}
  IN /\ \A m \in mappings : m[2] = source
     /\ assert_complete_coverage(Total[source], ranges)
     /\ \A r \in ranges : /\ files[r] = source
                          /\ Bytes[source][r] <= MaxBytes /\ Count(r) <= MaxPages

pilot_window(total) ==
  IF total <= PilotCount THEN <<1, total>>
  ELSE IF PilotStart + PilotCount - 1 <= total THEN <<PilotStart, PilotStart + PilotCount - 1>>
  ELSE <<total - PilotCount + 1, total>>

-----------------------------------------------------------------------------
Init ==
  /\ source \in Versions /\ record = None
  /\ files = [r \in Ranges |-> None] /\ mappings = {}
  /\ runs = <<>> /\ active = 0
  /\ pc = "idle" /\ cursor = 1 /\ made = {}

Idle == pc' = "idle" /\ cursor' = 1 /\ made' = {}

(* A chunk is new, sent (its batch exists), stored or skipped; file is the *)
(* version of the file that was uploaded for it.                           *)
Chunk(r) == [range |-> r, source |-> source, file |-> None, status |-> "new"]

(* The run is saved and becomes the active one.                            *)
CreateRun(mode, ranges) ==
  /\ runs' = Append(runs, [mode |-> mode, status |-> "open", chunks |-> {Chunk(r) : r \in ranges}])
  /\ active' = Len(runs')
  /\ pc' = "extract" /\ cursor' = 1 /\ made' = {}

(* The active run is an ALL run and not at its end, and its plan is not    *)
(* stale.                                                                  *)
Unfinished ==
  /\ active # 0 /\ runs[active].mode = "all" /\ runs[active].status = "open"
  /\ \A c \in runs[active].chunks : Count(c.range) <= MaxPages

(* Every command that extracts begins with a preflight, which renews the   *)
(* source record.                                                          *)
Begin == pc = "idle" /\ Len(runs) < MaxRuns /\ record' = source

(* The window of a pilot.  What is too large is unlinked, and with it any  *)
(* file that had its name.                                                 *)
materialize_page_window ==
  /\ Begin
  /\ LET r == pilot_window(Total[source])
     IN IF Count(r) > MaxPages \/ Bytes[source][r] > MaxBytes
        THEN /\ files' = IF Count(r) > MaxPages THEN files ELSE [files EXCEPT ![r] = None]
             /\ UNCHANGED command
        ELSE /\ files' = [files EXCEPT ![r] = source]
             /\ pc' = "mapWindow" /\ made' = {r} /\ UNCHANGED cursor
  /\ UNCHANGED <<source, mappings, runs, active>>

MapWindow ==
  /\ pc = "mapWindow"
  /\ mappings' = mappings \cup {<<r, source>> : r \in made}
  /\ pc' = "pilot"
  /\ UNCHANGED <<source, record, files, runs, active, cursor, made>>

(* extract of ALL: the unfinished run goes on, or a new one is made of the *)
(* split that is there, or the directory is cleared for a new split.       *)
_prepare_run ==
  /\ Begin
  /\ IF Unfinished THEN pc' = "extract" /\ UNCHANGED <<runs, active, cursor, made>>
     ELSE IF Reusable THEN CreateRun("all", {m[1] : m \in mappings})
     ELSE pc' = "clear" /\ UNCHANGED <<runs, active, cursor, made>>
  /\ UNCHANGED <<source, directory>>

resume(run) ==
  /\ pc = "idle" /\ run \in DOMAIN runs
  /\ record' = source
  /\ runs' = [runs EXCEPT ![run].status = "open"]
  /\ active' = run
  /\ pc' = "extract"
  /\ UNCHANGED <<source, directory, cursor, made>>

(* The mappings go first, then the PDFs.  What cannot be removed is left,  *)
(* and nothing is said (_unlink_quietly).                                  *)
ClearMappings ==
  /\ pc = "clear"
  /\ mappings' \in SUBSET mappings
  /\ pc' = "clearFiles"
  /\ UNCHANGED <<source, record, files, runs, active, cursor, made>>

ClearFiles ==
  /\ pc = "clearFiles"
  /\ \E left \in SUBSET {r \in Ranges : files[r] # None} :
       files' = [r \in Ranges |-> IF r \in left THEN files[r] ELSE None]
  /\ pc' = "cut"
  /\ UNCHANGED <<source, record, mappings, runs, active, cursor, made>>

(* materialize_chunks: one range after the other; a small volume is copied *)
(* whole.  A page that is too large leaves what was cut so far.            *)
Cut ==
  /\ pc = "cut"
  /\ LET end == IF Whole(source) THEN Total[source] ELSE _fit_end_page(source, cursor)
     IN IF end = 0 THEN Idle /\ UNCHANGED files
        ELSE /\ files' = [files EXCEPT ![<<cursor, end>>] = source]
             /\ made' = made \cup {<<cursor, end>>}
             /\ cursor' = end + 1
             /\ pc' = "map"
  /\ UNCHANGED <<source, record, mappings, runs, active>>

Map ==
  /\ pc = "map"
  /\ mappings' = mappings \cup {<<r, source>> : r \in made}
  /\ pc' = IF cursor <= Total[source] THEN "cut" ELSE "all"
  /\ UNCHANGED <<source, record, files, runs, active, cursor, made>>

(* The last mapping is written: the coverage of an ALL split is checked    *)
(* and the run saved.                                                      *)
SaveRun ==
  /\ pc \in {"pilot", "all"}
  /\ IF pc = "all" => assert_complete_coverage(Total[source], made) THEN CreateRun(pc, made)
     ELSE Idle /\ UNCHANGED <<runs, active>>
  /\ UNCHANGED <<source, record, directory>>

-----------------------------------------------------------------------------
(* _process_chunk, as far as it depends on the directory.                  *)
(* The fingerprints are those of the chunks whose result is stored.        *)
Fingerprint(c) == <<c.range, c.source>>
Fingerprints ==
  {Fingerprint(c) : c \in {d \in UNION {runs[i].chunks : i \in DOMAIN runs} : d.status = "stored"}}

Becomes(c, d) == runs' = [runs EXCEPT ![active].chunks = (@ \ {c}) \cup {d}]

SkipChunk(c) ==
  /\ pc = "extract" /\ c.status \in {"new", "sent"}
  /\ Fingerprint(c) \in Fingerprints
  /\ Becomes(c, [c EXCEPT !.status = "skipped"])
  /\ UNCHANGED <<source, record, directory, active, command>>

(* The file is read under the name the chunk recorded, whatever is there   *)
(* now: the digest the chunk recorded is not compared.  A missing file is  *)
(* an unexpected error, which ends the command.                            *)
UploadChunk(c) ==
  /\ pc = "extract" /\ c.status = "new"
  /\ Fingerprint(c) \notin Fingerprints
  /\ IF files[c.range] = None THEN Idle /\ UNCHANGED runs
     ELSE Becomes(c, [c EXCEPT !.status = "sent", !.file = files[c.range]]) /\ UNCHANGED command
  /\ UNCHANGED <<source, record, directory, active>>

(* With the result the mapping of the chunk is written once more, to the   *)
(* directory of whatever split is there now.                               *)
StoreChunk(c) ==
  /\ pc = "extract" /\ c.status = "sent"
  /\ Becomes(c, [c EXCEPT !.status = "stored"])
  /\ mappings' = mappings \cup {<<c.range, c.source>>}
  /\ UNCHANGED <<source, record, files, active, command>>

(* The end of a run: complete, cancelled, or to be resumed.                *)
Finished(c) == c.status \in {"stored", "skipped"}

EndRun ==
  /\ pc = "extract"
  /\ \E status \in {"open", "cancelled", "completed"} :
       /\ status = "completed" <=> \A c \in runs[active].chunks : Finished(c)
       /\ runs' = [runs EXCEPT ![active].status = status]
  /\ Idle
  /\ UNCHANGED <<source, record, directory, active>>

Crash == pc # "idle" /\ Idle /\ UNCHANGED <<source, record, directory, runs, active>>

(* Outside the program: somebody puts another PDF in place of the source,  *)
(* and not one that was there before.                                      *)
ReplaceSource ==
  /\ pc = "idle"
  /\ source' \in {v \in Versions : v > source}
  /\ UNCHANGED <<record, directory, runs, active, command>>

Handle(c) == SkipChunk(c) \/ UploadChunk(c) \/ StoreChunk(c)

SplitNext ==
  \/ materialize_page_window \/ MapWindow
  \/ _prepare_run \/ \E run \in DOMAIN runs : resume(run)
  \/ ClearMappings \/ ClearFiles \/ Cut \/ Map \/ SaveRun
  \/ active # 0 /\ \E c \in runs[active].chunks : Handle(c)
  \/ EndRun \/ Crash \/ ReplaceSource

SplitSpec == Init /\ [][SplitNext]_vars

-----------------------------------------------------------------------------
(* When an ALL run is created, its chunks are a partition of the pages of  *)
(* the source that is there, within the limits of size and length, and     *)
(* each file is cut from that source: after pilots, crashes while cutting, *)
(* exchanged sources, results of earlier runs that come in late, and reuse *)
(* of what an earlier command left.                                        *)
SplitIsPartition ==
  [][Len(runs') > Len(runs) /\ runs'[Len(runs')].mode = "all" =>
       LET ranges == {c.range : c \in runs'[Len(runs')].chunks}
       IN /\ \A p \in 1 .. Total[source] : Cardinality({r \in ranges : p \in Pages(r)}) = 1
          /\ \A r \in ranges : /\ r[2] <= Total[source]
                               /\ Count(r) <= MaxPages /\ Bytes[source][r] <= MaxBytes
                               /\ files'[r] = source]_vars

(* cli.py:97: resume is to "continue an unfinished batch".  The chunks a   *)
(* run still has to upload have their files.                               *)
ResumableHasFiles ==
  pc = "extract" =>
    \A c \in runs[active].chunks :
      c.status = "new" => files[c.range] # None \/ Fingerprint(c) \in Fingerprints
=============================================================================
