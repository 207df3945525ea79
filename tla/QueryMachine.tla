---------------------------- MODULE QueryMachine ----------------------------
(***************************************************************************)
(* The query machine of the web client (apps/web/src/query/                *)
(* queryMachine.ts): what the user typed, which search mode is chosen and  *)
(* by whom, and the at most one request that is allowed to change it.      *)
(*                                                                         *)
(* The machine is single threaded; what interleaves is the moment at which *)
(* each awaited request settles.  Between the await and the settlement the *)
(* user may have typed something else, so every settlement compares the    *)
(* token it was given with the machine's sequence number and otherwise     *)
(* does nothing.  A request whose signal was aborted may still deliver the *)
(* answer it already had.                                                  *)
(*                                                                         *)
(* Here any caller may call any method in any state; module QueryApp adds  *)
(* the guards of the page that really calls it.                            *)
(***************************************************************************)
EXTENDS Naturals, FiniteSets

CONSTANTS
  Queries,      (* the non-blank texts a user may type                     *)
  Modes,        (* ALL_MODES, or a subset of it that keeps the defaults    *)
  Answers,      (* what the suggestion service may answer to each query    *)
  Contents,     (* the contents of search responses that are considered    *)
  Refusals,     (* the allowed modes a MODE_SELECTION_REQUIRED may name    *)
  MaxSequence,  (* bound of the model on the sequence number               *)
  None          (* null                                                    *)

Blank == ""
DefaultModes == {"timeline", "thematic"}

Suggestion == [requires: BOOLEAN, suggested: Modes \cup {None}, allowed: SUBSET Modes]
Content == [hits: BOOLEAN, insufficiency: {"NONE", "NO_EXACT_MATCH", "OTHER"}, warnings: BOOLEAN]

ASSUME ModesAssumption == DefaultModes \subseteq Modes /\ None \notin Modes
ASSUME QueriesAssumption == Blank \notin Queries
ASSUME NoneAssumption ==
  /\ None \notin Nat /\ None \notin Queries /\ None \notin {Blank, "user", "suggested"}
  /\ None \notin [query: Queries \cup {Blank}, mode: Modes, content: Content]
  /\ None \notin [kind: {"suggest", "search"}, query: Queries \cup {Blank}, mode: Modes \cup {None}]
ASSUME AnswersAssumption == Answers \in [Queries -> SUBSET Suggestion]
ASSUME ContentsAssumption == Contents \subseteq Content
ASSUME RefusalsAssumption == Refusals \subseteq SUBSET Modes
ASSUME SequenceAssumption == MaxSequence \in Nat

VARIABLES
  state,      (* QueryState                                                *)
  requests,   (* the promises that have not settled yet                    *)
  inFlight,   (* the token of the controller cancelInFlight would abort    *)
  sequence,
  mounted,    (* FALSE once the page has disposed of the machine           *)
  chosen,     (* history: the modes selectMode was given for this query    *)
  submitted   (* history: submit was called for this query                 *)

history == <<chosen, submitted>>
vars == <<state, requests, inFlight, sequence, mounted, chosen, submitted>>

-----------------------------------------------------------------------------
AllQueries == Queries \cup {Blank}
OptionalMode == Modes \cup {None}
OptionalSource == {"user", "suggested", None}
Busy == {"suggesting_mode", "searching"}
Answered == {"success", "empty", "partial"}
Phases == Busy \cup Answered \cup {"idle", "awaiting_mode_selection", "ready", "error"}

(* A response is the request it answers together with its content.         *)
Responses == [query: AllQueries, mode: Modes, content: Content]

States ==
  [phase: Phases, query: AllQueries, selectedMode: OptionalMode, modeSource: OptionalSource,
   allowedModes: SUBSET Modes, suggestedFor: AllQueries \cup {None}, response: Responses \cup {None}]

(* What an awaiting method remembers: the query, and for a search the mode *)
(* and its source.  "continues" marks a suggestion an idle submit awaits.  *)
Requests ==
  {r \in [token: Nat, kind: {"suggest", "search"}, query: AllQueries, mode: OptionalMode,
           source: OptionalSource, aborted: BOOLEAN, continues: BOOLEAN] :
     (r.kind = "suggest") <=> (r.mode = None)}

(* The fields every state has; the optional ones are empty.                *)
Show(phase, query, mode, source) ==
  [phase |-> phase, query |-> query, selectedMode |-> mode, modeSource |-> source,
   allowedModes |-> {}, suggestedFor |-> None, response |-> None]

Kept(mode, allowed) == IF mode \in allowed THEN mode ELSE None

(* Stop and let the user choose among the allowed modes; an earlier choice *)
(* that is still allowed stays as the highlight.                           *)
Awaiting(query, mode, source, allowed, suggestedFor) ==
  [Show("awaiting_mode_selection", query, Kept(mode, allowed),
        IF mode \in allowed THEN source ELSE None)
     EXCEPT !.allowedModes = allowed, !.suggestedFor = suggestedFor]

Ready(query, mode, source, suggestedFor) ==
  [Show("ready", query, mode, source) EXCEPT !.suggestedFor = suggestedFor]

(* What the page shows for a response.                                     *)
classifySearchResponse(content) ==
  LET incomplete == content.warnings \/ content.insufficiency # "NONE"
  IN  IF ~content.hits /\ content.insufficiency = "NO_EXACT_MATCH" THEN "empty"
      ELSE IF incomplete THEN "partial"
      ELSE IF content.hits THEN "success"
      ELSE "empty"

(* Fault: an empty list of allowed modes is taken as it is.                *)
asGiven(allowed, default) == allowed

OrElse(allowed, default) == IF allowed = {} THEN default ELSE allowed

-----------------------------------------------------------------------------
(* Fault: a superseded request keeps running.                              *)
NothingAborted == requests

(* Aborting a request does not remove its promise.                         *)
Cancelled == {[r EXCEPT !.aborted = @ \/ r.token = inFlight] : r \in requests}

(* Fault: the abort signal alone is trusted to silence a request.          *)
abortOnly ==
  /\ sequence < MaxSequence
  /\ requests' = Cancelled
  /\ inFlight' = None
  /\ UNCHANGED sequence

cancelInFlight ==
  /\ sequence < MaxSequence
  /\ sequence' = sequence + 1
  /\ requests' = Cancelled
  /\ inFlight' = None

(* Cancel what is in flight and issue a request with the next token; the   *)
(* promise "settled" has just returned and is no longer pending.           *)
begin(kind, query, mode, source, continues, settled) ==
  /\ sequence < MaxSequence
  /\ sequence' = sequence + 1
  /\ requests' = (Cancelled \ settled) \cup
       {[token |-> sequence + 1, kind |-> kind, query |-> query, mode |-> mode,
         source |-> source, aborted |-> FALSE, continues |-> continues]}
  /\ inFlight' = sequence + 1

(* Fault: a settlement does not compare its token.                         *)
tokenIgnored(r) == TRUE

isCurrent(r) == r.token = sequence

-----------------------------------------------------------------------------
(* Fault: the choice made for the old text is kept for the new one.        *)
setQueryKeepingMode(query) ==
  /\ query # state.query
  /\ cancelInFlight
  /\ state' = Show("idle", query, state.selectedMode, state.modeSource)
  /\ chosen' = {}
  /\ submitted' = FALSE
  /\ UNCHANGED mounted

setQuery(query) ==
  /\ query # state.query
  /\ cancelInFlight
  /\ state' = Show("idle", query, None, None)
  /\ chosen' = {}
  /\ submitted' = FALSE
  /\ UNCHANGED mounted

selectMode(mode) ==
  /\ state.phase \notin Busy
  /\ state.phase = "awaiting_mode_selection" => mode \in state.allowedModes
  /\ state' = Ready(state.query, mode, "user",
                    IF state.phase \in {"awaiting_mode_selection", "ready"}
                    THEN state.suggestedFor ELSE None)
  /\ chosen' = chosen \cup {mode}
  /\ UNCHANGED <<requests, inFlight, sequence, mounted, submitted>>

requestSuggestion(continues) ==
  /\ state.query # Blank
  /\ state.phase \notin Busy
  /\ begin("suggest", state.query, None, None, continues, {})
  /\ state' = Show("suggesting_mode", state.query, state.selectedMode, state.modeSource)
  /\ submitted' = (submitted \/ continues)
  /\ UNCHANGED <<mounted, chosen>>

(* modeSource ?? "user"                                                    *)
SourceOrUser(source) == IF source = None THEN "user" ELSE source

startSearch(before, settled) ==
  LET source == SourceOrUser(before.modeSource)
  IN  /\ begin("search", before.query, before.selectedMode, source, FALSE, settled)
      /\ state' = Show("searching", before.query, before.selectedMode, source)

(* submit: an idle machine first asks for a suggestion, every other one    *)
(* searches in the selected mode.                                          *)
SubmitIdle == state.phase = "idle" /\ requestSuggestion(TRUE)

(* Fault: no mode need be selected.                                        *)
SubmitWithoutMode ==
  /\ state.phase \notin Busy \cup {"idle", "awaiting_mode_selection"}
  /\ startSearch(state, {})
  /\ submitted' = TRUE
  /\ UNCHANGED <<mounted, chosen>>

(* Fault: the highlight of a stop counts as a choice.                      *)
SubmitHighlighted ==
  /\ state.phase \notin Busy \cup {"idle"}
  /\ state.selectedMode # None
  /\ startSearch(state, {})
  /\ submitted' = TRUE
  /\ UNCHANGED <<mounted, chosen>>

SubmitSelected ==
  /\ state.phase \notin Busy \cup {"idle", "awaiting_mode_selection"}
  /\ state.selectedMode # None
  /\ startSearch(state, {})
  /\ submitted' = TRUE
  /\ UNCHANGED <<mounted, chosen>>

submit == SubmitIdle \/ SubmitSelected

dispose ==
  /\ cancelInFlight
  /\ mounted' = FALSE
  /\ UNCHANGED <<state, history>>

-----------------------------------------------------------------------------
(* Fault: a suggestion replaces whatever mode is selected.                 *)
suggestionReplacesMode(s, suggestedFor) ==
  IF s.requires \/ s.suggested = None
  THEN Awaiting(state.query, state.selectedMode, state.modeSource,
                OrElse(s.allowed, Modes), suggestedFor)
  ELSE Ready(state.query, s.suggested, "suggested", suggestedFor)

(* The state after a suggestion that is still current.                     *)
applySuggestion(s, suggestedFor) ==
  LET mode   == state.selectedMode
      source == state.modeSource
      query  == state.query
  IN  IF s.requires \/ (s.suggested = None /\ mode = None)
      THEN Awaiting(query, mode, source, OrElse(s.allowed, Modes), suggestedFor)
      ELSE IF s.suggested = None \/ (mode # None /\ source = "user")
      THEN Ready(query, mode, SourceOrUser(source), suggestedFor)
      ELSE Ready(query, s.suggested, "suggested", suggestedFor)

(* An idle submit that awaited the suggestion goes on at once: its         *)
(* continuation runs before the next user event.                           *)
SuggestionArrives(r, s) ==
  LET after == applySuggestion(s, r.query)
  IN  /\ r \in requests /\ r.kind = "suggest" /\ isCurrent(r)
      /\ IF r.continues /\ after.phase = "ready"
         THEN startSearch(after, {r})
         ELSE /\ state' = after
              /\ requests' = requests \ {r}
              /\ UNCHANGED <<inFlight, sequence>>
      /\ UNCHANGED <<mounted, chosen, submitted>>

ResponseArrives(r, content) ==
  /\ r \in requests /\ r.kind = "search" /\ isCurrent(r)
  /\ state' = [Show(classifySearchResponse(content), r.query, r.mode, r.source)
                 EXCEPT !.response = [query |-> r.query, mode |-> r.mode, content |-> content]]
  /\ requests' = requests \ {r}
  /\ UNCHANGED <<inFlight, sequence, mounted, history>>

(* settleAsyncError, the server's refusal to search without a choice.      *)
SelectionRequired(r, details) ==
  /\ r \in requests /\ r.kind = "search" /\ isCurrent(r)
  /\ state' = Awaiting(state.query, r.mode, state.modeSource,
                       OrElse(details, DefaultModes), None)
  /\ requests' = requests \ {r}
  /\ UNCHANGED <<inFlight, sequence, mounted, chosen, submitted>>

(* Fault: a failure is taken for an abort and not shown.                   *)
failureUnseen(r) ==
  /\ r \in requests /\ isCurrent(r)
  /\ requests' = requests \ {r}
  /\ UNCHANGED <<state, inFlight, sequence, mounted, history>>

(* settleAsyncError, every other failure of a current request.             *)
RequestFails(r) ==
  /\ r \in requests /\ isCurrent(r)
  /\ state' = Show("error", state.query,
                   IF r.mode # None THEN r.mode ELSE state.selectedMode, state.modeSource)
  /\ requests' = requests \ {r}
  /\ UNCHANGED <<inFlight, sequence, mounted, history>>

(* Whatever a superseded request delivers is dropped.                      *)
StaleSettles(r) ==
  /\ r \in requests /\ ~isCurrent(r)
  /\ requests' = requests \ {r}
  /\ UNCHANGED <<state, inFlight, sequence, mounted, history>>

-----------------------------------------------------------------------------
Init ==
  /\ state = Show("idle", Blank, None, None)
  /\ requests = {}
  /\ inFlight = None
  /\ sequence = 0
  /\ mounted = TRUE
  /\ chosen = {}
  /\ submitted = FALSE

UserStep ==
  /\ mounted
  /\ \/ \E q \in AllQueries : setQuery(q)
     \/ \E m \in Modes : selectMode(m)
     \/ requestSuggestion(FALSE)
     \/ submit
     \/ dispose

SettleStep ==
  \E r \in requests :
    \/ \E q \in Queries : q = r.query /\ \E s \in Answers[q] : SuggestionArrives(r, s)
    \/ \E c \in Contents : ResponseArrives(r, c)
    \/ \E d \in Refusals : SelectionRequired(r, d)
    \/ RequestFails(r)
    \/ StaleSettles(r)

Next == UserStep \/ SettleStep

(* The browser settles every fetch it was given: with an answer, a failure *)
(* of the network or the abort of its signal.  The user owes nothing.      *)
Fairness == WF_vars(SettleStep)

Spec == Init /\ [][Next]_vars /\ Fairness

-----------------------------------------------------------------------------
(***************************************************************************)
(* Correctness.                                                            *)
(***************************************************************************)

(* Every state has the fields of QueryState, every pending promise is a    *)
(* request the machine can have made: a search always names a mode.        *)
TypeOK ==
  /\ state \in States
  /\ requests \subseteq Requests
  /\ inFlight \in Nat \cup {None}
  /\ sequence \in Nat
  /\ mounted \in BOOLEAN
  /\ chosen \subseteq Modes
  /\ submitted \in BOOLEAN

KindOf(phase) == IF phase = "searching" THEN "search" ELSE "suggest"

(* The request whose answer would still be accepted is the one the page    *)
(* says it is waiting for, and while the page waits there is one.          *)
WaitsForItsRequest ==
  /\ \A r \in requests : isCurrent(r) =>
       /\ mounted /\ state.phase \in Busy
       /\ r.kind = KindOf(state.phase) /\ r.query = state.query
       /\ r.kind = "search" => r.mode = state.selectedMode /\ r.source = state.modeSource
  /\ mounted /\ state.phase \in Busy => \E r \in requests : isCurrent(r)

(* A superseded request is never left running: everything that is not      *)
(* current has had its signal aborted.                                     *)
SupersededIsAborted == \A r \in requests : isCurrent(r) \/ r.aborted

(* Late answers never surface: the result on the screen answers the query  *)
(* and the mode on the screen, and the suggestion kept beside it was made  *)
(* for this query.                                                         *)
AnswerFitsQuestion ==
  /\ state.suggestedFor \in {None, state.query}
  /\ state.phase \in Answered =>
       /\ state.response # None
       /\ state.response.query = state.query
       /\ state.response.mode = state.selectedMode

MustChoose(query) == query \in Queries /\ \A s \in Answers[query] : s.requires

(* A search runs only for a query that was itself submitted, in a mode its *)
(* user chose for it or, where the service leaves no choice to the user,   *)
(* in the mode the service suggested for it.                               *)
SearchIsJustified ==
  state.phase \in Answered \cup {"searching"} =>
    /\ submitted
    /\ state.modeSource = "user" => state.selectedMode \in chosen
    /\ state.modeSource # "user" =>
         \E s \in Answers[state.query] : ~s.requires /\ s.suggested = state.selectedMode
    /\ MustChoose(state.query) => state.modeSource = "user"

(* For one query, a mode the user chose gives way only to nothing or to    *)
(* another choice of the user, never to a suggestion.                      *)
UserChoiceWins ==
  [][/\ state'.query = state.query /\ state.modeSource = "user"
     /\ state'.selectedMode \notin {None, state.selectedMode}
     => state'.phase = "ready" /\ state'.modeSource = "user"]_vars

(* While the machine waits for a choice no call makes it search.           *)
AwaitingNeverSearches ==
  [][state.phase = "awaiting_mode_selection" => state'.phase # "searching"]_vars

(* A page that waits does not wait forever.                                *)
WaitingEnds == (mounted /\ state.phase \in Busy) ~> (~mounted \/ state.phase \notin Busy)

-----------------------------------------------------------------------------
(* The machine implements QuerySession: its open question is the request   *)
(* the phase says it waits for.                                            *)
Asked ==
  IF ~mounted \/ state.phase \notin Busy THEN None
  ELSE [kind |-> KindOf(state.phase), query |-> state.query,
        mode |-> IF state.phase = "searching" THEN state.selectedMode ELSE None]

Session == INSTANCE QuerySession
             WITH query <- state.query, asked <- Asked, shown <- state.response

(* Every behaviour of the machine is one of the session, its promise to    *)
(* settle included.                                                        *)
ImplementsSession == Session!Spec
=============================================================================
