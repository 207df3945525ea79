------------------------------ MODULE QueryApp ------------------------------
(***************************************************************************)
(* The page around the query machine (apps/web/src/App.tsx and its mode    *)
(* selector): which controls are enabled in which state, and which calls   *)
(* of the machine each of them makes.  A handler runs to its end before    *)
(* anything else does.                                                     *)
(***************************************************************************)
EXTENDS QueryMachine

CONSTANT
  DemoExamples  (* [query, mode] of the example buttons; {} in production  *)

ASSUME DemoAssumption == DemoExamples \subseteq [query: Queries, mode: Modes]

(* query_router.suggest_mode names two modes in each of its answers, and a *)
(* refusal names none or, as the client's tests have it, two.              *)
ASSUME OffersAssumption ==
  \A allowed \in Refusals \cup {s.allowed : s \in UNION {Answers[q] : q \in Queries}} :
    allowed = {} \/ \E m, n \in allowed : m # n

-----------------------------------------------------------------------------
busy == state.phase \in Busy
awaiting == state.phase = "awaiting_mode_selection"
queryEmpty == state.query = Blank

(* Fault: the button ignores that a failed request left no mode.           *)
canSubmitAfterError == ~busy /\ ~queryEmpty /\ ~awaiting

canSubmit ==
  /\ ~busy /\ ~queryEmpty /\ ~awaiting
  /\ ~(state.phase = "error" /\ state.selectedMode = None)

canSuggest == ~busy /\ ~queryEmpty

(* One radio button of the selector.  The browser reports no change when   *)
(* the button that is already checked is clicked.                          *)
canPick(mode) ==
  /\ ~busy
  /\ awaiting => mode \in state.allowedModes
  /\ mode # state.selectedMode

Type == \E q \in AllQueries : setQuery(q)
Pick == \E m \in Modes : canPick(m) /\ selectMode(m)
PressSuggest == canSuggest /\ requestSuggestion(FALSE)
PressSubmit == canSubmit /\ submit

(* The exact view without hits offers the claim mode.                      *)
handleSuggestModeSwitch ==
  /\ state.phase \in Answered /\ state.selectedMode = "exact"
  /\ ~state.response.content.hits
  /\ "claim" \in Modes /\ selectMode("claim")

(* An example fills in its query, which resets the machine when the text   *)
(* differs, and then selects its mode, in one handler.                     *)
applyDemoExample(example) ==
  /\ ~busy
  /\ \/ example.query = state.query /\ selectMode(example.mode)
     \/ /\ example.query # state.query
        /\ cancelInFlight
        /\ state' = Ready(example.query, example.mode, "user", None)
        /\ chosen' = {example.mode}
        /\ submitted' = FALSE
        /\ UNCHANGED mounted

-----------------------------------------------------------------------------
PageStep ==
  /\ mounted
  /\ \/ Type \/ Pick \/ PressSuggest \/ PressSubmit
     \/ handleSuggestModeSwitch
     \/ \E e \in DemoExamples : applyDemoExample(e)
     \/ dispose

AppNext == PageStep \/ SettleStep

AppSpec == Init /\ [][AppNext]_vars /\ Fairness

-----------------------------------------------------------------------------
(* The page's guards and the machine's agree: an enabled submit button is  *)
(* never a silent no-op.                                                   *)
EnabledButtonsAct == canSubmit => state.phase = "idle" \/ state.selectedMode # None

(* No state is a dead end: as long as the page is not waiting there is a   *)
(* query to submit or a mode to pick, without typing the query again.      *)
NoDeadEnd ==
  mounted /\ ~busy /\ ~queryEmpty => canSubmit \/ \E m \in Modes : canPick(m)
=============================================================================
