# TLA+ for the Marx/Engels text retrieval assistant

The repository turns scanned volumes into a database of citable paragraphs (`packages/marx_engels/ingestion`), publishes it, answers exact, claim, timeline and thematic searches over it (`packages/marx_engels/pipelines`, `evidence`, `api`), and shows the answers in a web client (`apps/web`).
This directory holds TLA+ modules that model the parts in which order, failure and concurrency decide correctness, TLC configurations that check them on small instances, and TLAPS proofs for every instance.

Paths below are relative to the repository; Python paths without a prefix are under `packages/marx_engels/`.

- [1 Inventory](#1-inventory)
- [2 The modules](#2-the-modules)
- [3 What is model-checked](#3-what-is-model-checked)
- [4 What is proved](#4-what-is-proved)
- [5 Disagreements found](#5-disagreements-found)
- [6 What is not modelled, and the plan](#6-what-is-not-modelled-and-the-plan)
- [7 Running everything](#7-running-everything)

## 1 Inventory

### 1.1 Raw extraction (`ingestion/pipeline.py`, `state.py`, `models.py`, `atomic.py`, `cancel.py`)

*State.* One JSON file, `processing_state.json`: volumes, runs with their chunks (status and provider batch id), the active run, and the fingerprints of finished chunks. Beside it the downloaded archives and the unpacked results of each run. In memory: the run at work, a pool of at most two threads, a cancellation token.

*Operations.* `preflight` (read a volume, ask for a split), `extract` (choose or create a run, process its chunks), `resume` (take a named run up again), `inventory` and `status` (read).

*Interaction.* Each worker thread calls the provider and, under the pipeline's lock, changes one chunk of the run in memory and replaces the whole state file. The caller may set the token. Later stages read the run's results.

*What is hard.* The process can die between a call of the provider and the save of what it returned, and between the two saves that end a chunk; a fatal error of one chunk has to stop the others and still end; an ALL run, a PILOT run and a resumed run displace one another as the active run; the provider is paid per page, so no stored chunk may be uploaded again.

*Correct when.* What is called done is stored; a run is complete only if its chunks are; a finished chunk stays finished; a stored chunk is not uploaded again; a refused batch is not polled again; every extract ends.

### 1.2 Provider client (`ingestion/providers/mineru.py`, `errors.py`)

*State.* None between calls, except an HTTP client. *Operations.* `submit_file` (ask for an upload address and a batch, PUT the file), `poll_batch`, `download_archive`. *Interaction.* The pipeline's threads call it; it shares the cancellation token with them. *Hard.* Each request may reach the service or not, and its answer may arrive or not; attempts are counted and stop at five; a batch is created before its file is uploaded; the deadline is looked at between polls, not between the attempts of one. *Correct when.* Every call ends, a second batch is paid for only when the first cannot be known of, and what is handed out has its file.

### 1.3 Splitting and page mapping (`ingestion/splitting.py`, `mapping.py`)

*State.* The derived PDFs of a volume and a mapping file beside each, in one directory for all runs. *Operations.* Plan the ranges, cut and shrink them, reuse what is there, cut the window of a pilot, check that the ranges cover every page once. *Interaction.* The state file keeps only the names of the chunk files, which a thread opens when it uploads. *Hard.* An off-by-one at a boundary shifts every later page; pilots, crashed splits and exchanged sources leave files in the directory that a later command finds. *Correct when.* The chunks of an ALL run are a partition of the pages of the source that is there, and a run that may be resumed has the files it needs.

### 1.4 Merge, cleaning, structure, assembly (`ingestion/page_merge.py`, `cleaning.py`, `structure.py`, `printed_pages.py`, `assemble.py`, `id_registry.py`, `snapshot.py`)

*State.* `id_registry.json` (for each key a random identifier, made once and kept), and for each stage a directory per assembly with a pointer to the latest; a report makes an assembly loadable. *Operations.* Choose a run, put its pages together, clean them, recognise works, sections and paragraphs, assign identifiers, write. *Hard.* A block must not be lost or read twice where works, headings and paragraphs meet on a page; the registry, the structure, the report and the pointer are written one after the other; a volume may fail in the middle. *Correct when.* The paragraphs are the text of the pages, links name the pages they were printed on, and identifiers survive a rebuild.

### 1.5 SQLite ingest (`ingestion/sqlite_ingest.py`)

*State.* The target database. *Operations.* Load an assembly, delete the corpus that is there if asked to, insert the new one, commit, check, report. *Hard.* One transaction replaces everything under a schema with keys and references, out of rows of which some are missing because a volume failed; the checks run after the commit. *Correct when.* Whatever can be loaded is accepted, and the database reads as the pages do.

### 1.6 Local publication (`storage/local_publish.py`, `corpus_registry/local_asset.py`, `storage/sqlite.py`, `storage/cloud_export.py`)

*State.* The read-only seed with its manifest and digest; the runtime database file, its write-ahead log and the sidecar `local_release.json`. *Operations.* `init-local-corpus`, with and without `--replace`: verify the seed, copy it over the runtime file, mark it published in one transaction, check it, write the sidecar. *Interaction.* Every request of the API opens and closes the same file. *Hard.* The file is overwritten where it lies; a crash leaves a file, a log and a sidecar that need not belong together, and SQLite lays the log over whatever file it finds. *Correct when.* What the command reports is so, a served corpus is not lost without a replacement, and replacing again heals.

### 1.7 Release, scope and search storage (`corpus_registry/*`, `storage/exact_search.py`, `storage/evidence_repository.py`)

*State.* The active release in the database. *Operations.* Resolve the scope, search, load the records of candidates. *Hard.* One search opens several connections; a release replaced in between mixes versions. *Correct when.* Everything in an answer comes from one release.

### 1.8 Evidence service (`evidence/service.py`, `evidence/matching.py`)

*State.* None. *Operations.* Hydrate candidates, drop those that are not visible, not verified or not verbatim, and expand context. *Hard.* A candidate found earlier may not be hydrated later; the order and the reasons of rejection. *Correct when.* Every returned quotation is the stored text of a visible, verified record.

### 1.9 Search pipelines (`pipelines/*`, `query_router.py`, `retrieval_core/*`)

*State.* None beyond one request. *Operations.* Exact, claim, timeline and thematic search; mode suggestion; reciprocal rank fusion; grouping. *Interaction.* Each awaits two recall channels, a reranker, a classifier or a clusterer, and the repository, several times. *Hard.* Each of these may fail, answer with ids nobody asked about, or answer late enough for the repository to have changed; each pipeline degrades in its own way. *Correct when.* What was found is shown once or its absence is explained, a failed channel is told, and a page that is too small does not hide what decides.

### 1.10 HTTP API (`api/*`)

Wiring of the services above; the container builds the exact pipeline only. No state of its own after start.

### 1.11 Web query machine (`apps/web/src/query/queryMachine.ts`)

*State.* The `QueryState` shown, a sequence number, the abort controller of the request in flight. *Operations.* `setQuery`, `selectMode`, `requestSuggestion`, `submit`, `dispose`, and the continuations after each `await`. *Interaction.* The page calls the methods; requests settle later, in any order, also after they were aborted. *Hard.* Late answers; a submit that asks for a suggestion and then goes on; a refusal that stops for a choice. *Correct when.* Nothing late surfaces, nothing is searched that was not asked for, waiting ends.

### 1.12 Web page (`apps/web/src/App.tsx`, `components/ModeSelector.tsx`, `views/*`)

*State.* The machine's, and presentation. *Operations.* Controls that call the machine, each with its own condition. *Hard.* The page's conditions and the machine's guards are written twice. *Correct when.* They agree, and no state is a dead end.

### 1.13 Left aside

`evaluation/`, `indexing/` (ports only), `model_adapters/` (ports only), `scripts/`, `contracts/` and `tests/`: offline scoring, interfaces without an implementation, and code about the code.

`PROJECT.json` lists the components with their status, and under `hazards` each place where one of the difficulties bites, with the properties that watch it or the reason why none does yet.

## 2 The modules

| module | models | checked by |
|---|---|---|
| `QuerySession` | what the query machine promises, without tokens and pending promises | refinement in `query_machine` |
| `QueryMachine` | `queryMachine.ts`, every method and every way a request settles | `query_machine` |
| `QueryApp` | the controls of `App.tsx`, `ModeSelector.tsx`, `ExactResultList.tsx` around the machine | `query_page` |
| `ExtractionPipeline` | `pipeline.py`, `state.py`, `cancel.py`: extract, resume, the pool, crashes | `extraction_runs`, `extraction_ends`, `extraction_mergeable` |
| `ProviderCall` | what the pipeline may rely on when it has a chunk extracted (`ports.py`) | refinement in `mineru_client` |
| `MinerUClient` | `mineru.py`: one chunk submitted, polled and downloaded | `mineru_client` |
| `SourceSplit` | `splitting.py`, `mapping.py`, and what `pipeline.py` does with source records and chunk files | `page_flow`, `page_flow_resumable` |
| `PageMerge` | extends `SourceSplit` with `page_merge.py` | `page_flow` |
| `CorpusText` | `cleaning.py`, `structure.py`, `printed_pages.py` as functions of a volume's blocks | `corpus_build` |
| `CorpusBuild` | `assemble.py`, `id_registry.py`, `snapshot.py`, `sqlite_ingest.py` around `CorpusText` | `corpus_build` |
| `LocalPublish` | `local_publish.py`, `local_asset.py`, `sqlite.py`: initialization, crashes, the log | within `exact_search`; `local_publish_remedy` |
| `ExactSearch` | extends `LocalPublish` with the requests of `exact.py`, `scope.py`, `release.py`, `exact_search.py`, `service.py` | `exact_search` |
| `Orderings` | the members of a finite set in an order, parts and concatenations of sequences; used by `CorpusText`, `CorpusBuild` and the three below | within `corpus_build` and `hybrid_search` |
| `RankFusion` | `rrf.py` and the fusion of the pipelines | `hybrid_search` |
| `EvidenceGroups` | the groups of `claim.py`, `timeline_grouping.py`, `thematic_grouping.py` | `hybrid_search` |
| `HybridSearch` | `claim.py`, `timeline.py`, `thematic.py`: one request from its scope to its answer | `hybrid_search` |
| `MC*` | values of the constants for TLC | |
| `*Proofs` | theorems about the module of that name (`ExactSearchProofs` also about `LocalPublish`, `QueryMachineProofs` about `QueryApp`, `OrderingProofs` about `Orderings` and about sequences) | TLAPS |

The modules follow a page on its way: `SourceSplit` and `MinerUClient` meet in `ExtractionPipeline`'s chunk, `PageMerge` takes up the stored chunks of a run, `CorpusBuild` begins with merged pages and ends with a database, `LocalPublish` publishes one, and the searches read it. Where two modules meet, the later one assumes what the earlier one shows: a stored chunk is complete, a corpus is whole, and the pages that are assembled are what they are (that a merged page is the page of its number is shown of pages of the present source, section 2.6).

Operators whose comment begins with "Fault:" are variants of the definition that follows them with a plausible bug (a dropped guard, a missing reset). No specification uses them. They are put in the definition's place to see that each property notices.

### 2.1 QueryMachine

`state` is `QueryState`, a record in which absent optional fields are `None` (or the empty set for `allowedModes`). `sequence` is the machine's counter. `inFlight` is the controller, represented by the token of its request. A pending promise is a record in `requests`: its token, what the awaiting method remembers, and whether its signal is aborted. Aborting does not remove the promise, since a response that has already been received is still delivered.

Each method is an action with the method's own early returns as guards. A call that returns early is a stutter. Each `await` splits a method: what precedes it is the method's action and what follows it is `SuggestionArrives`, `ResponseArrives`, `SelectionRequired`, `RequestFails` or, if the token is old, `StaleSettles`. One exception: when an idle `submit` has awaited its suggestion, its continuation is a microtask that no user event can precede, so `SuggestionArrives` includes it.

Data is reduced to what the properties tell apart. Texts are members of `Queries` and every blank text is `Blank`. A response is the request it answers with three facts that `classifySearchResponse` looks at. The suggestion service is the constant `Answers`, what it may answer to each query.

`chosen` and `submitted` are history variables; the actions read none of them.

`QueryApp` extends the machine and replaces `UserStep` with `PageStep`, in which each control has the condition under which the page enables it. `OffersAssumption` says that whatever names allowed modes, an answer of `query_router.suggest_mode` or a refusal, names at least two, or none, in which case the client has a default; with a single mode on offer, already highlighted, a page could be a dead end. Clicking a radio button that is already checked causes no change event, so `canPick` excludes it. A demo example calls `setQuery` and `selectMode` in one handler, so it is one step.

`QuerySession` has no tokens. It says there is at most one open question, it is about the text on the screen, and what is shown answers exactly that question. `QueryMachine` maps `asked` to the request its phase says it waits for.

### 2.2 ExtractionPipeline

| variable | code |
|---|---|
| `runs`, `active`, `fingerprints` | `runs`, `active_run_id`, `completed_fingerprints` of the state file |
| `archives`, `results` | `results/<run>/archives` and the unpacked directories |
| `current` | the run `extract()` is working on; `None` between calls |
| `worker[c]` | where the thread of chunk `c` is in `_process_chunk`, or how its future ended |
| `token` | `CancellationToken` |
| `verdict` | the exception with which `_run_chunks` was left |
| `uploads`, `refused` | the provider's batches, and history of those saved as FAILED |

`extract` and `resume` stand for `_prepare_run` and the save as RUNNING. The pool is filled with the chunks that are not done. A thread goes through `Start` (the fingerprint check, the reset of a failed chunk, the choice between a new upload and polling a known batch), `Announce`, `Upload`, `SaveBatch`, `Poll`, `Download`, `Unpack`, `_remember_fingerprint`, `Complete`. Every save of the state file is a step, every call of the provider is a step, and the process can die between any two. `Collect` is the loop over finished futures, `Finish` the final status and the last save. `Crash`, `Interrupt` (Ctrl-C in the main thread) and `cancel` can happen at any moment of an extract.

Decisions a reader should know:

- One process works on the state file at a time. The hazard of `preflight` beside an `extract` in another process is listed and not modelled.
- A fingerprint is a hash of the volume, the page range and the options, so it is the chunk's name: the same chunk of two runs has the same fingerprint. `ChunksOf` says which chunks an ALL and a PILOT run have; they may overlap.
- A plan is stale if a chunk is longer than the limit (`pipeline.py:330-334`). Here `ChunksOf` is fixed, so that `Reusable` has no such case; `SourceSplit` has the sizes.
- The run in memory is the last one saved, because each change is made and saved under one lock. So there is no second copy in the model.
- Time is not modelled. The deadline of the run may have passed whenever a thread starts a chunk, and the polling deadline whenever it polls.
- A provider call ends in one of the typed errors of `errors.py`, in an error nobody expects (`other`), or well. Which step can raise which is taken from `mineru.py` and the `except` clauses of `pipeline.py`. `quota` and `timeout` pause the run, `auth` fails it, `other` and Ctrl-C save nothing.
- An archive that does not unpack is `other`: `zipfile` errors are not provider errors.
- A provider call is one step here. What happens inside is `MinerUClient`, which is shown to implement the `ProviderCall` this module relies on.

### 2.3 LocalPublish

| variable | code |
|---|---|
| `seed`, `manifest` | the seed file (by the version it is an intact copy of) and the tracked manifest and digest |
| `file`, `wal`, `sidecar` | `runtime-data/sqlite/corpus.db`, its `-wal` and `local_release.json` |
| `pc`, `spec` | where `init_local_corpus` is, and the manifest it loaded |
| `report` | what the last command returned or raised |

A database is reduced to its version and whether it is a draft or published; all checks of counts, identifiers and hashes are `MatchesSpec`. `Content` is what a connection sees: the pages of a log replace those of the file. `lastClosed` is what SQLite does when the last connection closes, and `closed` says that a reader may still have the file open. A crash leaves everything as it is. That SQLite replays a log left by one copy over the next copy, refuses a truncated copy, and deletes the log of an empty file is modelled from SQLite's behaviour; it was confirmed with the schema of `migrations/001_initial.sql`.

Decisions: one initialization runs at a time; the seed and the manifest may change at any moment; the copy takes one step to begin (the target is truncated) and one to end.

### 2.4 ExactSearch

A request opens the database four times (scope, release, search, hydration) and reads the sidecar once; each is an action, and any action of `LocalPublish` may come in between. `Connects` lets the request be the reader that closes last. The search returns any full page of the matches, since the order is not what the properties are about. `disturbed` is a history variable. The scope is one corpus; no index version is configured. Of a `Mixed` database a connection may see the version of the log or be refused.

`PublishesAsAlone` is the composition: a system with requests in it satisfies the specification of the publication alone, its fairness included.

### 2.5 MinerUClient and ProviderCall

`stage` is the request that is made next: `submit` and `put` are the two of `submit_file`, then `poll`, `download`, `end`. `attempt` is the counter of the retry loop of the request to the API. `created`, `uploaded`, `done` and `failed` are the service's own view of its batches, which the client never sees whole. `lost` is history: batches whose creation the client never understood.

A request is one step with the outcomes that the code tells apart: it did not arrive, it arrived and the answer got lost or was garbled, or it was answered. `Transient` is what the retry loop repeats (network errors, 429, 5xx, transient codes), `Refusal` what it does not. A body that is not JSON is raised from inside the loop and so ends the call although attempts are left. `_put_file` and `download_archive` have no retry loop. Between any two requests the service may finish a batch, the deadline may pass and the caller may cancel. The lengths of waits are left out; the deadline is a flag that is looked at before a poll's first attempt only, as in the code.

`ProviderCall` has no attempts and no deadline: a batch is handed out only when its file has arrived, a download follows only an extraction that ended well, and an error of the submission leaves the caller without a batch.

### 2.6 SourceSplit and PageMerge

| variable | code |
|---|---|
| `source` | the PDF of the volume, by its version |
| `files[<<a, b>>]` | the derived PDF of pages a to b, by the version of the source it was cut from (its digest) |
| `mappings` | the mapping files, each a range and a version |
| `record` | the volume's record in the state file, which every preflight renews |
| `runs`, `active` | the runs of the state file, as far as their chunks' files are concerned |
| `pc`, `cursor`, `made` | the running command, where it cuts next, what it has cut |
| `file` of a chunk | the version of the file that was uploaded for it |
| `merged` | what the last `merge-pages` wrote, of which run, and whether a result could not be read |

How large a derived PDF is depends on its pages and is the constant `Bytes`, any positive number for each range of each version; it need not be the sum of its pages, nor grow with them. `plan_page_ranges`, `_fit_end_page`, `assert_complete_coverage` and `_reuse_existing_chunks` are operators with the arithmetic of the code: windows of 90 % of what the average page allows, shrinking by the weight of what was cut, the greatest length where a shrunk range has left the grid of windows. Every write and every removal is a step, the save of the run after the last mapping is one too (`SaveRun`), and the process may die between any two. A page that is too large ends the command and leaves what was cut. `ClearMappings` and `ClearFiles` may leave files behind, because `_unlink_quietly` ignores errors. `UploadChunk` reads the file under the name the chunk recorded, whatever is there by then; `StoreChunk` writes the mapping once more.

Decisions: one volume; `ReplaceSource`, a person who puts another PDF in its place, is outside the program, happens while no command runs, and never brings back a PDF that was replaced; what the service does with a chunk is `ExtractionPipeline`'s and is here a status. A merge is one step, since it is written to a directory of its own and the pointer is its last write.

The text of a page is `<<version, page>>`, that of the file the service was sent. The merge computes its page numbers from the chunk's range and takes the digest from the chunk, so that a wrong page, or a page of another source, shows. `Archive` says what the result for a file holds: a flat list of items that name their page (or do not, `Unindexed`: such an item goes to the first page of the chunk), a list of pages, both, none, or something that cannot be read. The last stands for every exception in `_merge_volume` (a missing mapping, JSON that does not parse, an index that is no number): the volume is left out, and manifest and pointer are written. So `merged` may have no pages although its run has stored chunks.

What is asked of a merge: `MergedTextIsTrue` (a page that names the present source has the text of its number), `ChosenMergeIsWhole` (the run that the code chooses loses nothing) and `GapsAreMarked` (of any run the user names, what no stored chunk has is marked missing). What they leave out is known behaviour, described in section 5: a page may name an earlier source than its text is from, and a volume that cannot be read is not refused. `MergedTextIsTrue` needs that a source which was replaced does not come back: if it did, such a page would name the present source.

### 2.7 CorpusText and CorpusBuild

In `CorpusText` a page is a sequence of blocks and a block is one of fourteen classes: what the provider called it and which rules its text matches. Two texts of one class are equal wherever the code compares texts. So the model has the texts that coincide, which is the hard case for headings, headers and titles, but not every mixture of equal and different texts of one class. The text of a span or of a passage is the sequence of the places `<<page, position>>` it was joined from, so that a lost, repeated or moved block shows. The loops of the code over lines are folds (`Loop`) with the same state: open table of contents, last author, ended work, current section, current paragraph. The body of each loop has a name of its own, `Join` for the lines of a page, `Detect` for works, `Headed` for sections, `Read` for passages, so that one turn of it can be reasoned about. `Loop` is a recursive function of the number of lines read.

In `CorpusBuild` an assembly is known by its number. The code's identifiers are random; here an identifier is the key it was made for with the number of the assembly that made it, so that two assemblies never make the same one. `memory` is the `IdRegistry` of the running assembly and `registry` its file, saved after cleaning and after the last volume. `clean_merged_pages` stands for `merge_raw_pages` and cleaning; then each volume is recognised or fails, and a volume whose passages cannot be written has failed although its works and links are collected. `SaveRegistry`, `WriteStructure`, `WriteReport` and `WriteLatest` are the writes in their order. The ingest loads the latest assembly or a named one, and its transaction is `Begin`, `Insert`, `Commit`; `Rows` are what it inserts of an assembly (with `from`, the assembly's number) and `SchemaHolds` the keys and references of `migrations/001_initial.sql`. A crash may come between any two steps and takes memory and an open transaction with it. A reference that is absent is `NoId`, which is like an identifier and equal to none.

Left out of the rows: quality flags, printed page numbers, retrieval units, and the order numbers of sections and passages, which within a page follow random identifiers. Readers walk passages by their links, and so does `Walk`. What they should find is `Body`, which does not use the loops: the places of a volume whose block is neither header nor foot, in the order of pages and blocks.

`BuildAssumption` says that volumes are numbered and that merged pages are sequences of blocks of the named classes; any such pages are allowed. `RepeatAssumption` says that `RepeatMin` is a natural number.

### 2.8 RankFusion, EvidenceGroups, HybridSearch

`RankFusion` multiplies the reciprocals by a common denominator, which makes scores integers and keeps their order. `EvidenceGroups` has the three arrangements with their sort keys as the code has them, including the suffix of a repeated cluster id and the exclusive assignment of ids. A sort is `InOrder`: it is given, for each member of a set, those that come before it, and puts each at the place that their number says. Python's sorts are stable and the code's last sort keys are ids or earlier ranks, so the orders are total and there is one result.

In `HybridSearch` each `await` is a step with everything the awaited service may answer: a channel answers with any ranking, is down, or fails with an authoritative code, which refuses the request; the embedder may give no vector; a reranker names any ids, repeated or foreign ones too, with any verdicts; the classifier labels the recorded ids in every way or fails; the clusterer's answers are the constant `Clusterings`. The repository is read anew at every step that reads it. `found`, `setAside`, `cut`, `unrecorded`, `gated` and `lost` are history: what recall passed on, what the reranker or the classifier did not want, what `rerank_top_k` cuts from a timeline (`timeline.py:197`), what had no record when a claim was classified (`claim.py:262`), what the evidence gate kept out, which channels were not searched. Every step that shortens the pool says which of them it means; only the model's own verdicts are `setAside`. The three modes have actions of their own where the code differs: an embedder without a vector is a failed channel for timeline and thematic search and an empty one for claims, a reranker's omission drops a candidate in a timeline and not in a claim.

Where the code is silent the properties of the passing run say so by name and do not go further: `FailedChannelIsTold` leaves out the claim's query without a vector, `ShortPageIsExplained` allows a timeline `gated` and `cut` and a claim `unrecorded`. What the documents want instead is in section 5.

## 3 What is model-checked

All numbers are of distinct states.

| run | states | what it shows |
|---|---|---|
| `query_machine` | 55 000 | Any caller, any order of up to five requests: late answers never surface, superseded requests are aborted, no search runs unasked for, a user's mode is not replaced, waiting ends, and the machine implements `QuerySession`, its fairness included |
| `query_page` | 49 000 | Page and machine guards fit together: no enabled button without effect, no dead end |
| `extraction_runs` | 2 350 000 | Two runs, ALL and PILOT, displacing and resuming one another: done is stored, stored is not uploaded, refused is not polled |
| `extraction_ends` | 189 000 | Two threads on the chunks of an ALL run, or on one of a PILOT: every extract ends |
| `mineru_client` | 9 400 | One call while requests and answers get lost, the service may never finish, the deadline passes and the caller cancels: it ends, it pays for a second batch only when it cannot know of the first, and it implements `ProviderCall` |
| `page_flow` | 428 000 | Pilots, splits, reuse, resumed and displaced runs, exchanged sources, crashes, files that cannot be removed, and merges of results that are blank, without page numbers or unreadable: every ALL run partitions the pages of the source that is there, a page of the present source has the text of its number, the chosen run loses nothing, gaps are marked |
| `corpus_build` | 908 000 | Two assemblies and any ingests of 45 contents, with failing volumes and crashes: the database reads as the pages do, links name the pages of a passage, identifiers survive, every assembly can be ingested |
| `exact_search` | 43 000 | Quotations match whatever happens; undisturbed requests read one version and are refused only for a reason; the publication is as without them, its reports are true, only a replacement unpublishes, and replacing from an intact seed heals after any crash |
| `hybrid_search` | 529 000 | Claim, timeline and thematic requests with every failure of their services: nothing is shown twice, what is missing from a page without a warning is a model's verdict or one of three named drops, a failed channel is told, fusion respects both channels, the strongest support and what is earliest are not cut away |
| `extraction_mergeable`, `local_publish_remedy`, `page_flow_resumable` | | violated, see section 5 |

Deadlock is checked in `page_flow` and `page_flow_resumable`, in `corpus_build` and in `hybrid_search`: there the operator can always give another command, or the answer stays. It is off in the others, for two reasons: a user or an operator may stop at any time (a page that was left, a corpus that is extracted, a call that has ended), and the bounds named below end behaviours that the program would continue. That the extraction, the client's call and a waiting page do come to their end is `ExtractEnds`, `CallEnds` and `WaitingEnds`.

*Bounds of the query runs.* `MaxSequence` (5) bounds the requests and cancellations of one page. Three of them suffice for the deepest interleaving the code distinguishes: a suggestion, the search it continues with, and an edit that supersedes both while their promises are pending; the others leave room for a second round after an answer. Two queries (one to which the service answers "choose", one to which it suggests a mode, another mode or none) and three modes suffice to have a chosen mode, a suggested one and one that is not allowed. The page needs all four modes, since it offers the claim mode after an empty exact search. There the refusals name no mode or two: the routes of the service name two or more, and none is the client's own default.

*Bounds of the extraction runs.* `RunIds` bounds the runs created, `MaxUploads` the batches of one chunk. Two uploads of a chunk are the least in which a retry follows a refusal, and two runs the least in which a PILOT run displaces an ALL run, or a second ALL run finds the fingerprints of the first. Two chunks in two threads are the least in which one thread's error meets the other's work, and in which a chunk is still queued when the token is set. `Concurrency` is 1 or 2 in the code (`models.py`), and the theorems hold for both. Run names are interchangeable and so are symmetric in the safety run; the liveness run has no symmetry.

*Bounds of the client.* `MaxRetries` is 5 as in the code, and `Batches` are as many as five attempts can create, so that nothing is cut off.

*Bounds of the splitting and merging runs.* `MaxRuns` is 2: a pilot or an ALL run, and an ALL run that reuses what the first left, or displaces it, after which the first may be resumed. A command that dies before its run is saved does not count, so any number of unfinished splits may lie behind the two. The source has three versions: a single small page, three pages whose even window is too heavy at one place, and two pages of which one is over the limit; so a later version may be shorter or longer, and shrinking and the refusal of a page happen. `MaxBytes` 10 and `MaxPages` 3 make windows of one, two and three pages. The pilot's window is page 2, between the ends of the longest version. In that version page 2 is blank and page 3 does not say its number; the results of the shortest version cannot be read; a chunk of several pages has both forms of a result, one of one page the flat list or the list of pages.

*Bounds of the build.* `MaxAttempts` (2) bounds the assemblies, ingests are not bounded. Two volumes are the least with which one fails and one does not. One has three pages, the least with a page inside a passage that starts and ends on others, of 45 combinations: a work that ends and one that begins on a page, a table of contents, headings before and after a title, a running head that repeats or stands alone, an empty page. The other has one. A head counts as repeated on two pages (`RepeatMin`; the rules have three, for longer volumes).

*Bounds of the hybrid run.* Three ids: two of one decade, one of them dated by its end only, and one disputed. Channels return up to two hits, so that a list may be full, or disjoint from the other; three fused candidates of which the reranker names up to two (`MaxJudged`), more than `RerankTopK` (1) keeps, so that its cut happens; where the reranker fails all three go on, so that a page of two is cut too. The fused list is not cut here, as it has no more than three ids. Up to one id is not as indexed at one read (`MaxClosed`), anew at each read. Six requests: each mode with a page of one and of three, with and without counter-evidence and summaries. The clusterer answers with two clusters that may share a name or members, name a foreign id, or have the reserved name.

*Bounds of the publication runs.* Nothing is bounded but the constants: two versions are the least with which the log of one meets the file of another, and a sidecar names a version the database is not. One request suffices, since requests share nothing but the database and `ReaderCloses` stands for all others. The page holds one of up to two matches, so that a page is full in one version and complete in the other.

*Fairness.* The machine assumes weak fairness of `SettleStep`: the browser settles every fetch it was given, with an answer, a network failure or the abort. The user owes nothing. The pipeline assumes weak fairness of `ProcessStep`: the operating system schedules the threads and each provider call returns, which is `CallEnds` of the client. The client assumes weak fairness of its own steps, since each request has a timeout, and of `DeadlinePasses`, since time does; it assumes nothing of the service. The publication assumes weak fairness of `PublisherStep`, as the process goes on, and strong fairness of the last close of a database that is not torn: requests end, so there are again and again moments in which nobody has the file open. `RetryHeals` further assumes an operator who goes on replacing and mishaps that end. Nothing else is assumed of the operator, and a crash may happen at any time but need not.

*Every property can fail.* `PROJECT.json` pairs each property of each passing run with a mutant of the modelled code under which TLC finds it violated.

## 4 What is proved

For every value of the constants that satisfies the named assumptions, with no bound on queries, modes, chunks or runs (the sequence and upload bounds are parameters, so they too are arbitrary).

### 4.1 QueryMachineProofs

Of the machine: `TypeCorrect`, `WaitsForOne`, `SupersededStops`, `NoStaleAnswer`, `SearchesAreJustified`, `UserChoicePrevails`, `ChoiceIsAwaited` (`AwaitingNeverSearches`) and `SessionImplemented`. Of the page around it: `PageIsSound`, `ButtonsAct` (`EnabledButtonsAct`) and `AlwaysAWayOn` (`NoDeadEnd`).

None of the invariants is inductive alone. `IInv` adds

- `TokensIdentify`: no pending request has a token above `sequence`, and tokens are unique;
- `OnlyInFlightIsLive`: the controller in hand is that of the current token, and only its request is not aborted;
- `ModeHasOrigin`: a mode is selected exactly when it has a source, a user's mode was chosen for this query, and a suggested one was suggested for it;
- `ContinuesSubmit`: a current suggestion that is to go on to a search was submitted.

With these a settlement that passes `isCurrent` is known to be the request of the present phase, and what it installs fits the question on the screen. `ChoiceIsAwaited` follows: while a choice is owed no request is current, so nothing that settles can begin a search.

`SessionImplemented` is the safety part of the refinement: initial states map to initial states and each step to a step of `QuerySession` or a stutter. Its fairness part is left to TLC.

The page's steps are the machine's under stricter guards, except `applyDemoExample`, which is two calls at once. So `IInv` is shown again for `AppNext` (`AppInvariance`), with two facts that the page's guards need: `ReadyHasMode`, and `AwaitingOffers`, by which a page that waits for a choice offers a mode beside the highlighted one. The latter is where `OffersAssumption` enters: without it, a refusal that allows only the highlighted mode is a dead end, since a checked radio button reports no change and the submit button is disabled.

### 4.2 ExtractionPipelineProofs

`TypeCorrect`, `DoneIsStored` (`CompletedIsStored`), `RefusedStayRefused` (`RefusedIsNotPolled`) and `NothingIsPaidTwice` (`StoredIsNotUploaded`); further `CompletedMeansDone` (`CompletedRunIsDone`: a run is called completed only when all its chunks are done) and `NothingIsUndone` (`DoneStaysDone`: no save undoes a finished chunk), which no run checks.

The inductive invariant `IInv` is the conjunction of the type invariant, two state properties and facts about how a thread's place is tied to the state file:

- `Placed`: threads exist only for chunks of the run at work, and the active run exists;
- `Unfinished`: a queued or working chunk is not marked done;
- `Batched`, `PolledHasBatch`: what is polled, or is marked as being polled, has a batch;
- `OnDisk`: an archive precedes its unpacking, the results precede the remembering, and the run a fingerprint names has the archive;
- `Owed`: while a thread is about to upload a chunk, the chunk's fingerprint is not remembered;
- `Refusals`: which batches runs know and which were refused.

`Owed` is what makes `NothingIsPaidTwice` go through. The fingerprint is looked at only when a thread starts, so the invariant must say that it is still absent when the upload is made. Nobody else can have stored it in between, because one thread alone works on a chunk; and an absent fingerprint is what the check found, because by `OnDisk` the archive of a remembered one is there.

`Refusals` is what `RefusedStayRefused` needs. A refused batch must not be polled by the run that was refused (`RefusedIsOver`: that chunk is failed or skipped, and `WorkIsSaved` says that the file agrees with what a thread is doing), and not by another run either: runs know only batches that were created (`BatchesKnown`), two runs never know the same one (`BatchesApart`), and a batch just created is known to nobody and refused by nobody (`SubmittedIsNew`). The last holds over a crash, in which the number of a batch is lost but not reused.

### 4.3 ExactSearchProofs: the publication and the search

Of `LocalPublish`: `TypeCorrect`, `ReportsAreTrue` (`ReportIsTrue`) and `PublishedStays` (`OnlyReplaceUnpublishes`). `IInv` adds that a running command has not reported, that a file being copied is no database (`CopyIsNoDatabase`), and that from the commit on every connection sees what was published (`CommittedIsSeen`). The argument rests on two lemmas about `Content`: closing does not change it where it is a published corpus (`CloseKeepsPublished`), and it is a draft only where there is no log (`DraftHasNoLog`), so that the publication adds its log to nothing else.

Of `ExactSearch`: `PublicationImplemented` (the safety part of `PublishesAsAlone`), `SearchTypeCorrect`, `QuotationsAlwaysMatch`, `UndisturbedIsAlwaysTrue` and `RefusedOnlyForReason`. The invariant `SInv` says of a request that nothing disturbed that no command runs; that, once its release is checked, the database shows that version (`Shows`: published, or the log of it over a torn file, or torn); and that its candidates are a page of that version's matches. `IdleKeepsShown` is the step that needs the publication's actions one by one. `OneQuotationEach` counts the quotations by a bijection with the candidates.

### 4.4 MinerUClientProofs

`TypeCorrect`, `PaysKnowingly` (`PaidTwiceOnlyUnknowing`) and `CallImplemented` (`ImplementsCall`), for any number of retries and batches. The invariant adds `InHand` (before a batch is in hand, all that were created are lost; from then on all but that one are; what is polled is uploaded, what is downloaded is done) and `NoResultYet`. `CallImplemented` proves the whole property, since `ProviderCall` has no fairness: each outcome of each request is a step of the call or a stutter, and `EndRaises` treats the errors of all stages at once.

### 4.5 PageMergeProofs

`SplitsPartition` (`SplitIsPartition`), `MergedTextsAreTrue` (`MergedTextIsTrue`), `ChosenMergesAreWhole` (`ChosenMergeIsWhole`) and `GapsAreAlwaysMarked` (`GapsAreMarked`), for any number of versions of the source, any numbers of pages, any sizes of derived PDFs, any limits and pilot windows, and any results of the service.

`CoverageIsPartition` says what the code's `assert_complete_coverage` guarantees: if each range begins after the end of the one that begins last before it, the first at 1, and the last one ends with the volume, then each page is in exactly one range. That no page is missing (`CoveredWithoutGap`) is an argument by a least page without a range. `SplitsPartition` needs beside it that what was cut still fits when the run is made: `Cutting` says that of every range cut so far its file is there, of the present source and within the limits. It holds through the shrinking loop because a range is kept only after it was measured. A run that reuses what it finds relies on the same lemma for the ranges of the mapping files.

For the merge the invariant is `IInv /\ Own /\ Recorded /\ Merged`.

- `RunsCover`, part of `IInv`: the chunks of an ALL run are `OfOneSource`, of one version, with all of its pages, no page in two of them (`Apart`). It is inductive because later commands change the status of a chunk and never its range.
- `Own`: a chunk of the source that is there has been sent, if at all, with a file of that source. For chunks of earlier sources nothing of the kind holds. It is inductive because the file under a chunk's name is, as long as its source is there, the one that was cut for it or none (`OwnFile`): whatever is written between two exchanges is cut from one source. This is where it enters that a replaced source does not come back.
- `Recorded`: once there is a run, the volume has a record, so that the merge knows how many pages to expect.

`MergedPages` says which pages `_merge_volume` makes of given chunks, and `BlocksAre` which texts `load_chunk_page_blocks` puts on a page, from either form of a result and from items without a page. `MergedTextStep`, `WholeStep` and `GapsStep` join them, one for each property.

### 4.6 OrderingProofs and HybridSearchProofs

`OrderingProofs` is about `Orderings`. An enumeration of a finite set in a strict total order exists, is `InOrder`, and is the only one (`EnumerationIs`, `EnumerationIsOne`, `SortsIsOne`); `Keep` has the wanted members in their order (`KeepIs`); `Joined` has the members of all sequences in the order of their places (`JoinedIs`), and a part of it is the join of the parts (`JoinedPart`). These operators are defined by the number of members that come before one, where the community modules have recursive operators, which the provers cannot expand. The module also has two forms of induction that need no operator parameter: a set of numbers that has 0 and with each number the next has all of them (`NatSetInduction`), and what is defined step by step exists (`Iteration`). A last part is about sequences that are not known to have members of some set (`IsSequence`): appending to them, replacing their last member, concatenating and joining them, and `Inductively`, which follows a sequence of states step by step.

`HybridSearchProofs` states every invariant that `hybrid_search` checks, for any rankings, judgements, labels, dates, clusterings, page sizes and states of the repository:

- `FailuresAreAlwaysTold` (`FailedChannelIsTold`): `Told` is inductive because no step takes a warning back. A claim's query without a vector is not among the failures it speaks of.
- `AllAccountedFor`: until the page is cut, a candidate that recall passed on is in hand or left by a way with a name: `setAside`, `cut`, `unrecorded`, `gated`. `Accounted` says which mode can have which of them and that what the gate kept out is told, but in a timeline. `Traced`, the tracing itself, rests on `Whole`, because the steps pass on lists and the history has ids: that a classified claim loses exactly what is unwanted or unrecorded, for instance, needs that its unlabelled candidates are those without a record.
- `BetterIsFirst` (`BetterInBothComesFirst`): what is better in both channels comes first. `ScaleIs` says that the common denominator is divisible by each of its factors, `ShareIs` that a better place has a greater share, and `BetterScores` that the sum keeps this although one channel may not have found a candidate at all.
- `GroupsAreApart` (`EachOnce`), `ShortPagesAreExplained` (`ShortPageIsExplained`), `ClaimPagesAreStrongest` (`ClaimPageIsStrongest`), `TimelinesBeginEarly` (`TimelinePageIsEarliest`): these follow from `SearchIsWhole` (and the second from `SearchIsTraced` too).

`SearchIsWhole` is `Spec => [](IInv /\ Whole)`. `Whole` has two parts. `InHand`: the pool names an id once, it has labels of the claim groups once it is classified and none before, and there is no response before the end. `Presented`: the four properties of the answer, with `ShowsAll`, by which a page that is not full shows all that is in hand; `ShortPageIsExplained` joins it to `Traced` and `Accounted`. A step before the last needs that it keeps the pool a list without repetition (`Listed`): fusion, the cut, what a reranker names (repeated and foreign ids included), the labels, the gate. The last step needs what each arrangement returns, which is the larger part of the module:

- `ClaimGroupsAre`, `TimelineIs`, `ThemeGroupsAre`: the groups have each member of the evidence once (`Grouped`), in the order of the mode. `AssignedIs` shows for themes, by induction over the clusters, that ids which a model gave to several clusters end up in one, and that renamed keys are different.
- `StrongestFirst`: the flattened groups of a claim never rise in strength, so that a prefix of them leaves out nothing stronger (`FlattenInOrder`).
- `TrimIs`, `IdsFlatten`: a page cut from the groups is a prefix of the flattened groups, and the trimmed groups have just its members.
- `TimelinePage`: the prefix of a timeline is earlier than what was cut.

`HybridAssumption` says that requests have a positive page size and the answers of the services have their types; `None` is no label. What the services answer is otherwise arbitrary.

### 4.7 CorpusBuildProofs

Every property that `corpus_build` checks, for any volumes, any pages, any number of assemblies and any value of `RepeatMin`: `IdentifiersKept` (`IdentifiersStay`), `AssembliesKept` (`AssembliesStay`), `SnapshotsAlwaysIngest` (`SnapshotsIngest`), `IdsStayStable` (`IdsAreStable`), `CitationsAlwaysFindPages` (`CitationsFindPages`) and `DatabaseAlwaysReadsAsMerged` (`DatabaseReadsAsMerged`). The proof has three layers.

*The text.* What the functions of `CorpusText` make of any pages. A piece of text `Reads` if its places rise and pieces follow one another; `Printed` is the set of places they have. For each loop there is a lemma that its state after n lines is its state after n - 1 and one turn (`DetectRuns`, `HeadedRuns`, `ReadRuns`, `WalkRuns`), and one that a turn keeps what is to hold after n lines (`JoinKeeps`, `DetectKeeps`, `HeadedKeeps`, `ReadKeeps`). `Inductively` joins the two by induction on n. The results are

- `PageIsRead`: `clean_page` keeps all blocks of a page, in their order, joined or not, and the lines that were joined are body text;
- `WorksAre`: after `_close_work_ranges` the ranges of the works divide the pages (`WorksApart`, `WorksCover`), and a work is known by the page on which it begins (`WorksStartByKey`);
- `SectionsAre`: the parent of a section is a section of the same work;
- `PassagesAre`: the passages of a work print its body, in order, and each is in one of its sections.

`StructureIs` brings them together as `Divided`: the passages of the works of a volume, one work after another, have the body of the volume, each block once, and of works that begin on one page only the last has text. This is what makes the identifiers work, since a work is known by its first page: two works that get one identifier never both have passages.

*The rows.* `Drafted` says that an assembly's rows are those of the structures of some volumes, under the identifiers of a registry. `RecogniseDrafts` shows that a volume adds its rows, `DraftedStays` that a registry with more identifiers changes nothing for the volumes that have theirs, and `DraftsAgree` that two assemblies that are drafted under one registry agree about a passage's identifier. `Inserted` says the same of what a transaction inserts, which is without the passages of volumes that have failed and without repeated identifiers (`RowsInserted`). That identifiers repeat nowhere else is because an identifier tells the key it was made for (`WorkTells`, `SectionTells`, `PageTells`, `PassageTells`). From `Inserted` alone follow the schema (`InsertedFits`), the links (`CitationsFind`) and the text: `LinkedWalk` shows that a chain of rows is walked from its first to its last, `PassageChain` that the passages of a work are one, and `ReadsAsBody` that the works in their order, each walked, are the body.

*The steps.* Two invariants. `IInv` says that the running assembly's registry extends the file (`KeepsAll`), that the two are equal from `SaveRegistry` on, and that the running assembly has no report yet. `TextInv` has `DraftIs` (what the running assembly has collected is drafted, under the registry in memory, from the volumes that are done), `SnapshotsAre` (what can be loaded is drafted from all volumes that have not failed, under the registry *file*) and `IngestIs` (a transaction before its commit, and the database, are `Rows` of an assembly that can be loaded). The order of the writes enters twice: with the registry saved last, `AssembliesKept` would not hold (lemma `Order`), and an assembly with a report would be drafted under identifiers that a crash can lose. A volume whose passages could not be written keeps its works and links in the assembly, which is why `Gathered` leaves open which of the failed volumes are there. Both invariants were model-checked before they were proved, on an instance with one content and two assemblies.

The two facts about data that the provers cannot have, induction over an operator and the expansion of the community modules' folds, are avoided: every loop is `Loop`, every concatenation `Joined`, every sort `InOrder`, and each is reasoned about by `Inductively` or by the places of its members.

### 4.8 Only model-checked

Liveness and ENABLED are outside the prover's reach: `WaitingEnds`, `ExtractEnds`, `CallEnds`, `RetryHeals` and the fairness parts of `ImplementsSession` and `PublishesAsAlone`.

Every invariant and every action property of a passing run is stated by a theorem. What the three violated runs show is a counterexample and needs no proof.

## 5 Disagreements found

1. **A run that `resume` calls completed cannot be merged** (`extraction_mergeable`). A crash after `_remember_fingerprint` (`pipeline.py:545`) and before COMPLETED is saved (546) leaves the chunk DOWNLOADING with its fingerprint stored. `resume` marks it SKIPPED and the ALL run complete. `merge-pages` ("Rebuild unique PDF pages from a completed ALL MinerU run", `cli.py:109`) accepts only runs whose chunks are all COMPLETED and says that there is none. A new `extract --all` skips every chunk and has the same fate.
2. **`--replace` fails on the log of the crash it is to repair** (`local_publish_remedy`). After a crash between the commit (`local_publish.py:223`) and the close, the draft is copied beside the old log, which makes it published again; the event with its fixed key is inserted twice (`local_publish.py:205`) and `sqlite3.IntegrityError` leaves the command, which handles `DomainError` only. A further `--replace` succeeds, as `RetryHeals` shows.
3. **A run that `resume` is to continue has lost its files** (`page_flow_resumable`). `resume` is to "Continue an unfinished batch without re-uploading completed chunks" (`cli.py:97`). A pilot that stopped before its upload keeps the name of its window's file. A later `extract --all` that splits the volume clears every chunk file of the directory (`splitting.py:194`), and nothing cuts the window again. `resume` creates a batch, fails opening the file (`mineru.py:183`) with an error no `except` clause expects, and does so at every further try.

Observed, and without a run of its own. In the first five the code and a sentence of the documents disagree, and the properties of the passing runs say where they stop short of that sentence; the rest disagrees with what is a plan more than a promise, or with nothing written.

- *A claim is searched in one channel and does not say so.* Without a query vector `_vector_recall` of the claim pipeline returns no hits (`claim.py:218-219`), which is not a failed channel. `03_Retrieval_Pipelines…md:543` wants every degradation in the warnings. Timeline and thematic searches raise there and warn. `FailedChannelIsTold` is about channels that raise; without that limit TLC finds it violated.
- *A claim's candidate vanishes without a reason.* What has no record when the claim is classified (`claim.py:262`) gets no label and is not displayed (530-531), so that hydration never excludes it with a warning. `03_Retrieval_Pipelines…md:470` wants an `exclusion_reason` of every candidate that fails a step of the gate, the first of which is that its ID exists. `ShortPageIsExplained` counts these by name (`unrecorded`).
- *Indirect support is called insufficient.* `INSUFFICIENT_SUPPORT` is given whenever the page has no direct evidence (`claim.py:161-164`), and `test_missing_direct_evidence_returns_insufficiency_without_fabricated_summary` expects it of an indirect one. `03_Retrieval_Pipelines…md:328` gives it to a claim with neither. `ClaimPageIsStrongest` says of the labels only what must not be cut away.
- *A merged page names a source that its text is not from.* A chunk is uploaded from whatever lies under its recorded name (`pipeline.py:474`); the digests it recorded are not compared. An ALL run is cancelled before it uploads, the source is exchanged, a new split writes a file with the same range and dies before its run exists; `resume` of the first run uploads that file, and the merge writes its pages with the old digest (`page_merge.py:248`). `01_Corpus_Processing…md:468` has every evidence traceable to source file, page and data version. `MergedTextIsTrue` is about pages that name the present source; said of all pages, TLC finds it violated.
- *A volume that cannot be read is left out of a merge that succeeds.* `PageMergeError` is "Raised when an ALL extraction run cannot be selected or read." (`page_merge.py:46`); `merge_raw_pages` catches it with every other exception of a volume (101-107) and writes the manifest and the pointer (120-121). `cli.py:223` prints a number of pages. The manifest's `error` entry is read by no later step. `ChosenMergeIsWhole` and `GapsAreMarked` begin with "unless the volume failed".

*Web client.* The highlighted mode of a refusal cannot be confirmed by clicking it, as a checked radio button reports no change (`ModeSelector.test.tsx:29` has the allowed modes stay selectable). A stop with a kept highlight can be left through `requestSuggestion`, which needs a refusal that no route sends today.

*Extraction.* `mark_chunk` (`state.py:86-90`) may call a run FAILED while its failed chunk still waits in the pool; if all chunks finish with one SKIPPED the run stays FAILED, and the next `extract` heals it. A missing chunk file costs one batch at each try. `_select_result` of the client takes the first row of an answer if none matches. `retry_after` has no cap, and the retries of a poll may go past the deadline.

*Splitting and merge.* A late `StoreChunk` writes its mapping into the directory of a newer split; `_reuse_existing_chunks` then refuses the directory, so that `SplitIsPartition` holds. `merge-pages --run-id` of a run without a completed chunk succeeds with an empty merge and moves the pointer to it. A provider item without a page index goes to the first page of its chunk.

*Structure.* Two titles on one page get one work id, and the second work's row, with its title, is dropped as a duplicate. A title inside an open table of contents becomes an entry of it. A heading that repeats leads its paragraphs to the first section of that title (`structure.py:297`). The prefixes for indented paragraphs can never match, as the text is stripped before. `01_Corpus_Processing…md:142` gives both halves of a split passage new identifiers and marks the old one superseded; the code's key is the first page and the number of the passage in its work (`structure.py:325`), so that when a later recognition splits a paragraph the identifiers move on to what now has their numbers. Line 145 forbids deleting the record of a rejected identifier, and `evidence_id` (`id_registry.py:61-72`) writes a new record over it; no command rejects any.

*Assembly and ingest.* A volume whose passages file cannot be written has failed, but its works and links stay in the assembly, and the ingest inserts the works without passages. Two assemblies at the same time lose entries of the registry. Passages of one page are numbered in the order of their random identifiers (`sqlite_ingest.py:344`), where `03_Retrieval_Pipelines…md:239-242` wants the order of the text. `migrate` applies a script before it notes that it did (`sqlite.py:61`), so that a crash in between makes the next start apply it again.

*Searches.* A search during a replacement may answer NO_EXACT_MATCH from a draft, where ADR 0002 (line 38) wants an incomplete initialization to fail closed; and it may name one version and quote another, since nothing compares the release bound at `exact.py:58` with the quotations read at line 63 (`UndisturbedIsTrue` has them agree otherwise). A timeline does not tell what the evidence gate kept out, nor what the cut of the reranked list costs. `INSUFFICIENT_SUPPORT` is also given when the classifier has failed and nothing is labelled.

## 6 What is not modelled, and the plan

| part | what is left out, and why |
|---|---|
| `preflight` beside `extract` in two processes | the command line documents no concurrent use; the state file is rewritten whole, so that one of them can lose the other's change |
| evidence service | offsets of a match in the text, neighbours of a quotation; the rejection reasons are one predicate |
| scope | the hierarchy of editions, volumes and works, and the index release; a scope is one corpus |
| text classes | the regular expressions of cleaning and structure, quality flags, printed page numbers: a data domain that small sets cannot represent |
| retrieval units, registry withdrawals | units name spans of text and have no state; no command calls split, merge or reject of the registry |
| release and outbox rows of the ingest, migration | written in the same transaction, or before it |
| cloud export, HTTP API, evaluation, ports, scripts | one deterministic write, wiring, offline scoring, interfaces without an implementation |

Next: `ScopeGate` (a valid scope and the search filter agree), `PreflightRace` (what two processes can lose), the neighbours of a quotation.

## 7 Running everything

In this directory, with TLC, the community modules and TLAPS on the path:

    tlc -workers 2 -config QueryMachine.cfg MCQueryMachine.tla
    tlc -workers 2 -config ExtractionRuns.cfg MCExtractionPipeline.tla
    tlc -workers 2 -config MinerUClient.cfg MCMinerUClient.tla
    tlc -workers 2 -config PageMerge.cfg MCPageMerge.tla
    tlc -workers 2 -config CorpusBuild.cfg MCCorpusBuild.tla
    tlc -workers 2 -config HybridSearch.cfg MCHybridSearch.tla
    tlapm QueryMachineProofs.tla
    tlapm ExtractionPipelineProofs.tla
    tlapm MinerUClientProofs.tla
    tlapm CorpusBuildProofs.tla
    tlapm PageMergeProofs.tla
    tlapm ExactSearchProofs.tla
    tlapm OrderingProofs.tla
    tlapm HybridSearchProofs.tla

`PROJECT.json` names the module and configuration of each run, and maps each definition to the lines it translates.
