------------------------- MODULE QueryMachineProofs -------------------------
(***************************************************************************)
(* What holds of the query machine for every set of queries and modes, for *)
(* every answer of the services and every number of requests.              *)
(*                                                                         *)
(* The inductive invariant says three things the properties leave unsaid:  *)
(* tokens identify requests and never exceed the sequence number, only the *)
(* request of the controller in hand is not aborted, and every mode in the *)
(* state has an origin: the user's choice or a suggestion for this query.  *)
(*                                                                         *)
(* The last part is about the page: each of its handlers keeps the         *)
(* invariant, and its controls offer a way on from every state.            *)
(***************************************************************************)
EXTENDS QueryApp, TLAPS

TokensIdentify ==
  /\ \A r \in requests : r.token <= sequence
  /\ \A r1, r2 \in requests : r1.token = r2.token => r1 = r2

OnlyInFlightIsLive ==
  /\ inFlight # None => inFlight = sequence
  /\ \A r \in requests : ~r.aborted => r.token = inFlight

SuggestedMode(query, mode) ==
  query \in Queries /\ \E s \in Answers[query] : ~s.requires /\ s.suggested = mode

ModeHasOrigin ==
  /\ (state.modeSource = None) <=> (state.selectedMode = None)
  /\ state.modeSource = "user" => state.selectedMode \in chosen
  /\ state.modeSource = "suggested" => SuggestedMode(state.query, state.selectedMode)
  /\ state.phase \in Answered \cup {"searching"} => state.selectedMode # None /\ submitted

ContinuesSubmit == \A r \in requests : isCurrent(r) /\ r.continues => submitted

IInv ==
  /\ TypeOK
  /\ TokensIdentify
  /\ OnlyInFlightIsLive
  /\ WaitsForItsRequest
  /\ ModeHasOrigin
  /\ ContinuesSubmit
  /\ AnswerFitsQuestion

-----------------------------------------------------------------------------
(* Every state the machine can show is a QueryState.                       *)
LEMMA ShowType ==
  ASSUME NEW phase \in Phases, NEW query \in AllQueries, NEW mode \in OptionalMode,
         NEW source \in OptionalSource
  PROVE  Show(phase, query, mode, source) \in States
  BY DEF Show, States

LEMMA AwaitingType ==
  ASSUME NEW query \in AllQueries, NEW mode \in OptionalMode, NEW source \in OptionalSource,
         NEW allowed \in SUBSET Modes, NEW suggestedFor \in AllQueries \cup {None}
  PROVE  Awaiting(query, mode, source, allowed, suggestedFor) \in States
  BY DEF Awaiting, Show, Kept, States, Phases, OptionalMode, OptionalSource

LEMMA ReadyType ==
  ASSUME NEW query \in AllQueries, NEW mode \in OptionalMode, NEW source \in OptionalSource,
         NEW suggestedFor \in AllQueries \cup {None}
  PROVE  Ready(query, mode, source, suggestedFor) \in States
  BY DEF Ready, Show, States, Phases

(* Aborting changes nothing of a request but its flag.                     *)
LEMMA CancelledFacts ==
  ASSUME requests \subseteq Requests
  PROVE  /\ Cancelled \subseteq Requests
         /\ \A c \in Cancelled : \E r \in requests :
              /\ c.token = r.token /\ c.kind = r.kind /\ c.query = r.query
              /\ c.mode = r.mode /\ c.source = r.source /\ c.continues = r.continues
              /\ c.aborted = (r.aborted \/ r.token = inFlight)
              /\ c = [r EXCEPT !.aborted = c.aborted]
  BY DEF Cancelled, Requests

LEMMA InitIInv == Init => IInv
<1> SUFFICES ASSUME Init PROVE IInv
  OBVIOUS
<1>1. state = Show("idle", Blank, None, None) /\ state \in States
  BY ShowType DEF Init, Phases, AllQueries, OptionalMode, OptionalSource
<1>2. TypeOK
  BY <1>1 DEF Init, TypeOK
<1>3. state.phase = "idle" /\ state.selectedMode = None /\ state.modeSource = None
      /\ state.suggestedFor = None
  BY <1>1 DEF Show
<1>4. WaitsForItsRequest /\ AnswerFitsQuestion
  BY <1>3 DEF Init, WaitsForItsRequest, AnswerFitsQuestion, Busy, Answered
<1>5. ModeHasOrigin
  BY <1>3, NoneAssumption DEF ModeHasOrigin, Answered
<1> QED
  BY <1>2, <1>4, <1>5 DEF Init, IInv, TokensIdentify, OnlyInFlightIsLive, ContinuesSubmit

(* After cancelInFlight every pending request is superseded and aborted.   *)
LEMMA CancelIInv ==
  ASSUME IInv, cancelInFlight
  PROVE  /\ requests' \subseteq Requests /\ inFlight' = None /\ sequence' \in Nat
         /\ \A r \in requests' : r.token < sequence' /\ r.aborted
         /\ TokensIdentify' /\ OnlyInFlightIsLive'
<1>1. \A c \in Cancelled : \E r \in requests :
         /\ c.token = r.token /\ c.aborted = (r.aborted \/ r.token = inFlight)
         /\ c = [r EXCEPT !.aborted = c.aborted]
  BY CancelledFacts DEF IInv, TypeOK
<1>2. requests' = Cancelled /\ sequence' = sequence + 1 /\ inFlight' = None
  BY DEF cancelInFlight
<1>3. \A c \in Cancelled : c.token <= sequence /\ c.aborted
  <2>1. \A c \in Cancelled : \E r \in requests :
           c.token = r.token /\ c.aborted = (r.aborted \/ r.token = inFlight)
    BY <1>1
  <2>2. \A r \in requests : r.token <= sequence /\ (r.aborted \/ r.token = inFlight)
    BY DEF IInv, TokensIdentify, OnlyInFlightIsLive
  <2> QED
    BY <2>1, <2>2
<1>4. Cancelled \subseteq Requests /\ sequence \in Nat
  BY CancelledFacts DEF IInv, TypeOK
<1>5. \A c1, c2 \in Cancelled : c1.token = c2.token => c1 = c2
  BY <1>1, <1>3, <1>4 DEF IInv, TypeOK, TokensIdentify, Requests
<1> QED
  BY <1>2, <1>3, <1>4, <1>5 DEF TokensIdentify, OnlyInFlightIsLive, Requests

(* After begin exactly one request is current and live: the new one.       *)
Issued(kind, query, mode, source, continues) ==
  [token |-> sequence + 1, kind |-> kind, query |-> query, mode |-> mode,
   source |-> source, aborted |-> FALSE, continues |-> continues]

LEMMA BeginIInv ==
  ASSUME IInv, NEW kind \in {"suggest", "search"}, NEW query \in AllQueries,
         NEW mode \in OptionalMode, NEW source \in OptionalSource,
         NEW continues \in BOOLEAN, NEW settled, (kind = "suggest") <=> (mode = None),
         begin(kind, query, mode, source, continues, settled)
  PROVE  LET new == Issued(kind, query, mode, source, continues)
         IN  /\ requests' \subseteq Requests /\ sequence' \in Nat /\ inFlight' \in Nat
             /\ TokensIdentify' /\ OnlyInFlightIsLive'
             /\ new \in requests' /\ new.token = sequence'
             /\ \A r \in requests' : r.token = sequence' => r = new
<1> DEFINE new == Issued(kind, query, mode, source, continues)
<1>1. \A c \in Cancelled : \E r \in requests :
         /\ c.token = r.token /\ c.aborted = (r.aborted \/ r.token = inFlight)
         /\ c = [r EXCEPT !.aborted = c.aborted]
  BY CancelledFacts DEF IInv, TypeOK
<1>2. /\ requests' = (Cancelled \ settled) \cup {new}
      /\ sequence' = sequence + 1 /\ inFlight' = sequence + 1
  BY DEF begin, Issued
<1>3. Cancelled \subseteq Requests /\ sequence \in Nat
  BY CancelledFacts DEF IInv, TypeOK
<1>4. \A c \in Cancelled : c.token <= sequence /\ c.aborted
  BY <1>1, <1>3 DEF IInv, TypeOK, TokensIdentify, OnlyInFlightIsLive, Requests
<1>5. \A c1, c2 \in Cancelled : c1.token = c2.token => c1 = c2
  BY <1>1, <1>3, <1>4 DEF IInv, TypeOK, TokensIdentify, Requests
<1>6. new \in Requests /\ new.token = sequence + 1 /\ ~new.aborted
  BY <1>3 DEF Issued, Requests
<1>7. \A r \in requests' : r = new \/ (r \in Cancelled /\ r.token <= sequence /\ r.aborted)
  BY <1>2, <1>4
<1>8. requests' \subseteq Requests
  BY <1>2, <1>3, <1>6
<1>9. \A r \in requests' : r.token = sequence + 1 => r = new
  BY <1>3, <1>7, <1>8 DEF Requests
<1>10. TokensIdentify'
  <2>1. \A r \in requests' : r.token <= sequence + 1
    BY <1>3, <1>6, <1>7, <1>8 DEF Requests
  <2>2. \A r1, r2 \in requests' : r1.token = r2.token => r1 = r2
    BY <1>3, <1>5, <1>6, <1>7, <1>8 DEF Requests
  <2> QED
    BY <1>2, <2>1, <2>2 DEF TokensIdentify
<1>11. OnlyInFlightIsLive'
  BY <1>2, <1>6, <1>7 DEF OnlyInFlightIsLive
<1> QED
  BY <1>2, <1>3, <1>6, <1>8, <1>9, <1>10, <1>11

(* Dropping a settled promise from the pending ones, with no new request,  *)
(* keeps everything that is said of the others; if it was the current one, *)
(* none is current any more.                                               *)
LEMMA SettledIInv ==
  ASSUME IInv, NEW r \in requests, requests' = requests \ {r},
         UNCHANGED <<inFlight, sequence>>
  PROVE  /\ requests' \subseteq Requests /\ sequence' \in Nat
         /\ inFlight' \in Nat \cup {None}
         /\ TokensIdentify' /\ OnlyInFlightIsLive'
         /\ isCurrent(r) => \A q \in requests' : q.token # sequence'
  BY DEF IInv, TypeOK, TokensIdentify, OnlyInFlightIsLive, isCurrent

-----------------------------------------------------------------------------
(* What the constructors of a state leave in its fields.                   *)
LEMMA ShowFields ==
  ASSUME NEW phase, NEW query, NEW mode, NEW source
  PROVE  LET s == Show(phase, query, mode, source)
         IN  /\ s.phase = phase /\ s.query = query /\ s.selectedMode = mode
             /\ s.modeSource = source /\ s.suggestedFor = None /\ s.response = None
  BY DEF Show

LEMMA ReadyFields ==
  ASSUME NEW query, NEW mode, NEW source, NEW suggestedFor
  PROVE  LET s == Ready(query, mode, source, suggestedFor)
         IN  /\ s.phase = "ready" /\ s.query = query /\ s.selectedMode = mode
             /\ s.modeSource = source /\ s.suggestedFor = suggestedFor
             /\ s.response = None
  BY DEF Ready, Show

LEMMA AwaitingFields ==
  ASSUME NEW query, NEW mode, NEW source, NEW allowed, NEW suggestedFor
  PROVE  LET s == Awaiting(query, mode, source, allowed, suggestedFor)
         IN  /\ s.phase = "awaiting_mode_selection" /\ s.query = query
             /\ \/ s.selectedMode = mode /\ s.modeSource = source
                \/ s.selectedMode = None /\ s.modeSource = None
             /\ s.suggestedFor = suggestedFor /\ s.response = None
  BY DEF Awaiting, Show, Kept

LEMMA SetQueryIInv ==
  ASSUME IInv, NEW query \in AllQueries, mounted, setQuery(query)
  PROVE  IInv'
<1>1. /\ requests' \subseteq Requests /\ inFlight' = None /\ sequence' \in Nat
      /\ \A r \in requests' : r.token < sequence' /\ r.aborted
      /\ TokensIdentify' /\ OnlyInFlightIsLive'
  BY CancelIInv DEF setQuery
<1>2. /\ state' \in States /\ state'.phase = "idle"
      /\ state'.query = query /\ state'.selectedMode = None
      /\ state'.modeSource = None /\ state'.suggestedFor = None
  BY ShowType, ShowFields DEF setQuery, Phases, OptionalMode, OptionalSource
<1>3. \A r \in requests' : ~isCurrent(r)'
  BY <1>1 DEF isCurrent, Requests
<1>4. TypeOK'
  BY <1>1, <1>2 DEF setQuery, TypeOK, IInv
<1>5. WaitsForItsRequest' /\ AnswerFitsQuestion'
  BY <1>2, <1>3 DEF WaitsForItsRequest, AnswerFitsQuestion, Busy, Answered
<1>6. ModeHasOrigin'
  BY <1>2, NoneAssumption DEF ModeHasOrigin, Answered
<1>7. ContinuesSubmit'
  BY <1>3 DEF ContinuesSubmit
<1> QED
  BY <1>1, <1>4, <1>5, <1>6, <1>7 DEF IInv

LEMMA SelectModeIInv ==
  ASSUME IInv, NEW mode \in Modes, mounted, selectMode(mode)
  PROVE  IInv'
<1>1. /\ state.phase \notin Busy
      /\ UNCHANGED <<requests, inFlight, sequence, mounted, submitted>>
      /\ chosen' = chosen \cup {mode}
  BY DEF selectMode
<1>2. PICK about \in AllQueries \cup {None} :
        /\ state' = Ready(state.query, mode, "user", about)
        /\ about \in {None, state.query}
  BY DEF selectMode, IInv, TypeOK, States, AnswerFitsQuestion
<1>3. state.query \in AllQueries
  BY DEF IInv, TypeOK, States
<1>4. /\ state' \in States /\ state'.phase = "ready"
      /\ state'.query = state.query /\ state'.selectedMode = mode
      /\ state'.modeSource = "user" /\ state'.suggestedFor = about
  BY <1>2, <1>3, ReadyType, ReadyFields DEF OptionalMode, OptionalSource
<1>5. \A r \in requests : ~isCurrent(r)
  BY <1>1 DEF IInv, WaitsForItsRequest
<1>6. TypeOK'
  BY <1>1, <1>4 DEF TypeOK, IInv
<1>7. TokensIdentify' /\ OnlyInFlightIsLive'
  BY <1>1 DEF IInv, TokensIdentify, OnlyInFlightIsLive
<1>8. WaitsForItsRequest' /\ ContinuesSubmit'
  BY <1>1, <1>4, <1>5 DEF WaitsForItsRequest, ContinuesSubmit, isCurrent, Busy
<1>9. AnswerFitsQuestion'
  BY <1>2, <1>4 DEF AnswerFitsQuestion, Answered
<1>10. ModeHasOrigin'
  BY <1>1, <1>4, NoneAssumption, ModesAssumption DEF ModeHasOrigin, Answered
<1> QED
  BY <1>6, <1>7, <1>8, <1>9, <1>10 DEF IInv

LEMMA RequestSuggestionIInv ==
  ASSUME IInv, NEW continues \in BOOLEAN, mounted, requestSuggestion(continues)
  PROVE  IInv'
<1> DEFINE new == Issued("suggest", state.query, None, None, continues)
<1>1. /\ state.query \in AllQueries /\ state.selectedMode \in OptionalMode
      /\ state.modeSource \in OptionalSource
  BY DEF IInv, TypeOK, States
<1>2. /\ requests' \subseteq Requests /\ sequence' \in Nat /\ inFlight' \in Nat
      /\ TokensIdentify' /\ OnlyInFlightIsLive'
      /\ new \in requests' /\ new.token = sequence'
      /\ \A r \in requests' : r.token = sequence' => r = new
  <2>1. begin("suggest", state.query, None, None, continues, {})
    BY DEF requestSuggestion
  <2>2. None \in OptionalMode /\ None \in OptionalSource
    BY DEF OptionalMode, OptionalSource
  <2> QED
    BY <1>1, <2>1, <2>2, BeginIInv
<1>3. /\ state' \in States /\ state'.phase = "suggesting_mode"
      /\ state'.query = state.query /\ state'.selectedMode = state.selectedMode
      /\ state'.modeSource = state.modeSource /\ state'.suggestedFor = None
  <2>1. state' = Show("suggesting_mode", state.query, state.selectedMode, state.modeSource)
    BY DEF requestSuggestion
  <2>2. "suggesting_mode" \in Phases
    BY DEF Phases, Busy
  <2>3. state' \in States
    BY <1>1, <2>1, <2>2, ShowType
  <2> QED
    BY <2>1, <2>3, ShowFields
<1>4. UNCHANGED <<mounted, chosen>> /\ submitted' = (submitted \/ continues)
  BY DEF requestSuggestion
<1>5. TypeOK'
  BY <1>2, <1>3, <1>4 DEF TypeOK, IInv
<1>6. new.kind = "suggest" /\ new.query = state.query /\ new.continues = continues
  BY DEF Issued
<1>7. WaitsForItsRequest'
  BY <1>2, <1>3, <1>4, <1>6 DEF WaitsForItsRequest, isCurrent, Busy, KindOf
<1>8. ContinuesSubmit'
  BY <1>2, <1>4, <1>6 DEF ContinuesSubmit, isCurrent
<1>9. AnswerFitsQuestion'
  BY <1>3 DEF AnswerFitsQuestion, Answered
<1>10. ModeHasOrigin'
  BY <1>3, <1>4 DEF IInv, ModeHasOrigin, Answered
<1> QED
  BY <1>2, <1>5, <1>7, <1>8, <1>9, <1>10 DEF IInv

(* Starting a search from a state that has a mode, be it the state of the  *)
(* machine or the one the awaited suggestion leads to.                     *)
LEMMA StartSearchIInv ==
  ASSUME IInv, mounted, NEW before \in States, NEW settled,
         before.query = state.query, before.selectedMode # None,
         (before.modeSource = None) <=> (before.selectedMode = None),
         before.modeSource = "user" => before.selectedMode \in chosen,
         before.modeSource = "suggested" => SuggestedMode(before.query, before.selectedMode),
         startSearch(before, settled), UNCHANGED <<mounted, chosen>>,
         submitted', submitted' \in BOOLEAN
  PROVE  IInv'
<1> DEFINE new == Issued("search", before.query, before.selectedMode, before.modeSource, FALSE)
<1>1. /\ before.query \in AllQueries /\ before.selectedMode \in OptionalMode
      /\ before.modeSource \in OptionalSource /\ before.modeSource # None
  BY DEF States
<1>2. /\ begin("search", before.query, before.selectedMode, before.modeSource, FALSE, settled)
      /\ state' = Show("searching", before.query, before.selectedMode, before.modeSource)
  BY <1>1 DEF startSearch, SourceOrUser
<1>3. /\ requests' \subseteq Requests /\ sequence' \in Nat /\ inFlight' \in Nat
      /\ TokensIdentify' /\ OnlyInFlightIsLive'
      /\ new \in requests' /\ new.token = sequence'
      /\ \A r \in requests' : r.token = sequence' => r = new
  BY <1>1, <1>2, BeginIInv
<1>4. /\ state' \in States /\ state'.phase = "searching"
      /\ state'.query = before.query /\ state'.selectedMode = before.selectedMode
      /\ state'.modeSource = before.modeSource /\ state'.suggestedFor = None
  BY <1>1, <1>2, ShowType, ShowFields DEF Phases, Busy
<1>5. TypeOK'
  BY <1>3, <1>4 DEF TypeOK, IInv
<1>6. /\ new.kind = "search" /\ new.query = before.query /\ new.continues = FALSE
      /\ new.mode = before.selectedMode /\ new.source = before.modeSource
  BY DEF Issued
<1>7. WaitsForItsRequest'
  BY <1>3, <1>4, <1>6 DEF WaitsForItsRequest, isCurrent, Busy, KindOf
<1>8. ContinuesSubmit'
  BY <1>3, <1>6 DEF ContinuesSubmit, isCurrent
<1>9. AnswerFitsQuestion'
  BY <1>4 DEF AnswerFitsQuestion, Answered
<1>10. ModeHasOrigin'
  BY <1>4 DEF ModeHasOrigin, Answered
<1> QED
  BY <1>3, <1>5, <1>7, <1>8, <1>9, <1>10 DEF IInv

LEMMA SubmitIInv == IInv /\ mounted /\ submit => IInv'
<1> SUFFICES ASSUME IInv, mounted, submit PROVE IInv'
  OBVIOUS
<1>1. CASE SubmitIdle
  BY <1>1, RequestSuggestionIInv DEF SubmitIdle
<1>2. CASE SubmitSelected
  <2>1. state \in States /\ state.selectedMode # None
    BY <1>2 DEF SubmitSelected, IInv, TypeOK
  <2>2. startSearch(state, {}) /\ submitted' = TRUE /\ UNCHANGED <<mounted, chosen>>
    BY <1>2 DEF SubmitSelected
  <2>3. /\ (state.modeSource = None) <=> (state.selectedMode = None)
        /\ state.modeSource = "user" => state.selectedMode \in chosen
        /\ state.modeSource = "suggested" => SuggestedMode(state.query, state.selectedMode)
    BY DEF IInv, ModeHasOrigin
  <2> QED
    BY <2>1, <2>2, <2>3, StartSearchIInv
<1> QED
  BY <1>1, <1>2 DEF submit

LEMMA DisposeIInv == IInv /\ mounted /\ dispose => IInv'
<1> SUFFICES ASSUME IInv, mounted, dispose PROVE IInv'
  OBVIOUS
<1>1. /\ requests' \subseteq Requests /\ inFlight' = None /\ sequence' \in Nat
      /\ \A r \in requests' : r.token < sequence' /\ r.aborted
      /\ TokensIdentify' /\ OnlyInFlightIsLive'
  BY CancelIInv DEF dispose
<1>2. mounted' = FALSE /\ UNCHANGED <<state, chosen, submitted>>
  BY DEF dispose, history
<1>3. \A r \in requests' : ~isCurrent(r)'
  BY <1>1 DEF isCurrent, Requests
<1>4. TypeOK' /\ WaitsForItsRequest' /\ ContinuesSubmit'
  BY <1>1, <1>2, <1>3 DEF IInv, TypeOK, WaitsForItsRequest, ContinuesSubmit
<1>5. ModeHasOrigin' /\ AnswerFitsQuestion'
  BY <1>2 DEF IInv, ModeHasOrigin, AnswerFitsQuestion, SuggestedMode
<1> QED
  BY <1>1, <1>4, <1>5 DEF IInv

-----------------------------------------------------------------------------
(* The state a current suggestion leads to: every mode in it has an origin,*)
(* and a ready state has a mode.                                           *)
LEMMA ApplyFacts ==
  ASSUME IInv, state.query \in Queries, NEW s \in Answers[state.query]
  PROVE  LET after == applySuggestion(s, state.query)
         IN  /\ after \in States /\ after.query = state.query
             /\ after.phase \in {"ready", "awaiting_mode_selection"}
             /\ after.suggestedFor = state.query
             /\ after.phase = "ready" => after.selectedMode # None
             /\ (after.modeSource = None) <=> (after.selectedMode = None)
             /\ after.modeSource = "user" => after.selectedMode \in chosen
             /\ after.modeSource = "suggested" =>
                  SuggestedMode(state.query, after.selectedMode)
<1> DEFINE after == applySuggestion(s, state.query)
<1> DEFINE allowed == OrElse(s.allowed, Modes)
<1>1. /\ state.query \in AllQueries /\ state.selectedMode \in OptionalMode
      /\ state.modeSource \in OptionalSource
  BY DEF IInv, TypeOK, States
<1>2. s \in Suggestion
  BY AnswersAssumption
<1>3. allowed \in SUBSET Modes /\ s.suggested \in OptionalMode
  BY <1>2 DEF OrElse, Suggestion, OptionalMode
<1>4. /\ (state.modeSource = None) <=> (state.selectedMode = None)
      /\ state.modeSource = "user" => state.selectedMode \in chosen
      /\ state.modeSource = "suggested" => SuggestedMode(state.query, state.selectedMode)
  BY DEF IInv, ModeHasOrigin
<1>5. CASE s.requires \/ (s.suggested = None /\ state.selectedMode = None)
  <2>1. after = Awaiting(state.query, state.selectedMode, state.modeSource, allowed, state.query)
    BY <1>5 DEF applySuggestion
  <2>2. after \in States
    BY <1>1, <1>3, <2>1, AwaitingType
  <2> QED
    BY <1>4, <2>1, <2>2, AwaitingFields, NoneAssumption
<1>6. CASE /\ ~(s.requires \/ (s.suggested = None /\ state.selectedMode = None))
           /\ s.suggested = None \/ (state.selectedMode # None /\ state.modeSource = "user")
  <2>1. after = Ready(state.query, state.selectedMode, state.modeSource, state.query)
    BY <1>4, <1>6 DEF applySuggestion, SourceOrUser
  <2>2. after \in States
    BY <1>1, <2>1, ReadyType
  <2> QED
    BY <1>4, <1>6, <2>1, <2>2, ReadyFields, NoneAssumption
<1>7. CASE /\ ~(s.requires \/ (s.suggested = None /\ state.selectedMode = None))
           /\ ~(s.suggested = None \/ (state.selectedMode # None /\ state.modeSource = "user"))
  <2>1. after = Ready(state.query, s.suggested, "suggested", state.query)
    BY <1>7 DEF applySuggestion
  <2>2. after \in States
    BY <1>1, <1>3, <2>1, ReadyType DEF OptionalSource
  <2>3. ~s.requires /\ s.suggested # None /\ SuggestedMode(state.query, s.suggested)
    BY <1>7 DEF SuggestedMode
  <2> QED
    BY <2>1, <2>2, <2>3, ReadyFields, NoneAssumption
<1> QED
  BY <1>5, <1>6, <1>7

LEMMA SuggestionIInv ==
  ASSUME IInv, NEW r \in requests, r.query \in Queries, NEW s \in Answers[r.query],
         SuggestionArrives(r, s)
  PROVE  IInv'
<1> DEFINE after == applySuggestion(s, r.query)
<1>1. isCurrent(r) /\ r.kind = "suggest" /\ UNCHANGED <<mounted, chosen, submitted>>
  BY DEF SuggestionArrives
<1>2. mounted /\ r.query = state.query /\ state.phase \in Busy
  BY <1>1 DEF IInv, WaitsForItsRequest
<1>3. /\ after \in States /\ after.query = state.query
      /\ after.phase \in {"ready", "awaiting_mode_selection"}
      /\ after.suggestedFor = state.query
      /\ after.phase = "ready" => after.selectedMode # None
      /\ (after.modeSource = None) <=> (after.selectedMode = None)
      /\ after.modeSource = "user" => after.selectedMode \in chosen
      /\ after.modeSource = "suggested" => SuggestedMode(state.query, after.selectedMode)
  BY <1>2, ApplyFacts
<1>4. submitted' \in BOOLEAN
  BY <1>1 DEF SuggestionArrives, IInv, TypeOK
<1>5. CASE r.continues /\ after.phase = "ready"
  <2>1. startSearch(after, {r})
    BY <1>5 DEF SuggestionArrives
  <2>2. submitted'
    BY <1>1, <1>5 DEF IInv, ContinuesSubmit
  <2> QED
    BY <1>1, <1>2, <1>3, <1>4, <1>5, <2>1, <2>2, StartSearchIInv
<1>6. CASE ~(r.continues /\ after.phase = "ready")
  <2>1. state' = after /\ requests' = requests \ {r} /\ UNCHANGED <<inFlight, sequence>>
    BY <1>6 DEF SuggestionArrives
  <2>2. /\ requests' \subseteq Requests /\ sequence' \in Nat
        /\ inFlight' \in Nat \cup {None}
        /\ TokensIdentify' /\ OnlyInFlightIsLive'
        /\ \A q \in requests' : q.token # sequence'
    BY <1>1, <2>1, SettledIInv
  <2>3. TypeOK'
    BY <1>1, <1>3, <1>4, <2>1, <2>2 DEF IInv, TypeOK
  <2>4. WaitsForItsRequest' /\ ContinuesSubmit' /\ AnswerFitsQuestion'
    BY <1>3, <2>1, <2>2
    DEF WaitsForItsRequest, ContinuesSubmit, AnswerFitsQuestion, isCurrent, Busy, Answered
  <2>5. ModeHasOrigin'
    BY <1>1, <1>3, <2>1 DEF ModeHasOrigin, Answered
  <2> QED
    BY <2>2, <2>3, <2>4, <2>5 DEF IInv
<1> QED
  BY <1>5, <1>6

(* Every other settlement of the current request: the machine leaves the   *)
(* busy phase for a state of its own making and no request is current.     *)
LEMMA LeavesBusy ==
  ASSUME IInv, NEW r \in requests, isCurrent(r), requests' = requests \ {r},
         UNCHANGED <<inFlight, sequence, mounted, chosen, submitted>>,
         state' \in States,
         state'.phase \notin Busy, state'.query = state.query,
         state'.suggestedFor = None, AnswerFitsQuestion', ModeHasOrigin'
  PROVE  IInv'
<1>1. /\ requests' \subseteq Requests /\ sequence' \in Nat
      /\ inFlight' \in Nat \cup {None}
      /\ TokensIdentify' /\ OnlyInFlightIsLive'
      /\ \A q \in requests' : q.token # sequence'
  BY SettledIInv
<1>2. TypeOK'
  BY <1>1 DEF IInv, TypeOK
<1>3. WaitsForItsRequest' /\ ContinuesSubmit'
  BY <1>1 DEF WaitsForItsRequest, ContinuesSubmit, isCurrent
<1> QED
  BY <1>1, <1>2, <1>3 DEF IInv

(* What is known of the current search request and of the state it is for. *)
LEMMA CurrentSearch ==
  ASSUME IInv, NEW r \in requests, isCurrent(r), r.kind = "search"
  PROVE  /\ mounted /\ state.phase = "searching" /\ submitted
         /\ r.query = state.query /\ r.query \in AllQueries
         /\ r.mode = state.selectedMode /\ r.mode \in Modes
         /\ r.source = state.modeSource /\ r.source \in {"user", "suggested"}
<1>1. /\ mounted /\ state.phase \in Busy /\ KindOf(state.phase) = "search"
      /\ r.query = state.query /\ r.mode = state.selectedMode /\ r.source = state.modeSource
  BY DEF IInv, WaitsForItsRequest
<1>2. state.phase = "searching"
  BY <1>1 DEF KindOf, Busy
<1>3. state.selectedMode # None /\ state.modeSource # None /\ submitted
  BY <1>2 DEF IInv, ModeHasOrigin
<1>4. r.query \in AllQueries /\ r.mode \in OptionalMode /\ r.source \in OptionalSource
  BY DEF IInv, TypeOK, Requests
<1> QED
  BY <1>1, <1>2, <1>3, <1>4 DEF OptionalMode, OptionalSource

LEMMA ResponseIInv ==
  ASSUME IInv, NEW r \in requests, NEW c \in Contents, ResponseArrives(r, c)
  PROVE  IInv'
<1> DEFINE phase == classifySearchResponse(c)
<1> DEFINE response == [query |-> r.query, mode |-> r.mode, content |-> c]
<1>1. /\ isCurrent(r) /\ r.kind = "search" /\ requests' = requests \ {r}
      /\ state' = [Show(phase, r.query, r.mode, r.source) EXCEPT !.response = response]
      /\ UNCHANGED <<inFlight, sequence, mounted, chosen, submitted>>
  BY DEF ResponseArrives, history
<1>2. /\ submitted /\ r.query = state.query /\ r.query \in AllQueries
      /\ r.mode = state.selectedMode /\ r.mode \in Modes
      /\ r.source = state.modeSource /\ r.source \in {"user", "suggested"}
  BY <1>1, CurrentSearch
<1>3. phase \in Answered
  BY DEF classifySearchResponse, Answered
<1>4. response \in Responses /\ response # None
  BY <1>2, ContentsAssumption, NoneAssumption DEF Responses, AllQueries
<1>5. state' \in States
  BY <1>1, <1>2, <1>3, <1>4
  DEF Show, States, Phases, OptionalMode, OptionalSource
<1>6. /\ state'.phase = phase /\ state'.query = r.query /\ state'.selectedMode = r.mode
      /\ state'.modeSource = r.source /\ state'.suggestedFor = None
      /\ state'.response = response
  BY <1>1 DEF Show
<1>7. AnswerFitsQuestion'
  BY <1>4, <1>6 DEF AnswerFitsQuestion
<1>8. ModeHasOrigin'
  BY <1>1, <1>2, <1>6, NoneAssumption, ModesAssumption DEF IInv, ModeHasOrigin
<1>9. state'.phase \notin Busy
  BY <1>1, <1>3, <1>6 DEF Busy, Answered, IInv, TypeOK
<1> QED
  BY <1>1, <1>2, <1>5, <1>6, <1>7, <1>8, <1>9, LeavesBusy

LEMMA RefusalIInv ==
  ASSUME IInv, NEW r \in requests, NEW d \in Refusals, SelectionRequired(r, d)
  PROVE  IInv'
<1> DEFINE allowed == OrElse(d, DefaultModes)
<1>1. /\ isCurrent(r) /\ r.kind = "search" /\ requests' = requests \ {r}
      /\ state' = Awaiting(state.query, r.mode, state.modeSource, allowed, None)
      /\ UNCHANGED <<inFlight, sequence, mounted, chosen, submitted>>
  BY DEF SelectionRequired
<1>2. /\ r.query = state.query /\ r.query \in AllQueries
      /\ r.mode = state.selectedMode /\ r.mode \in Modes
      /\ r.source = state.modeSource /\ r.source \in {"user", "suggested"}
  BY <1>1, CurrentSearch
<1>3. allowed \in SUBSET Modes
  BY ModesAssumption, RefusalsAssumption DEF OrElse
<1>4. state' \in States
  BY <1>1, <1>2, <1>3, AwaitingType DEF OptionalMode, OptionalSource
<1>5. /\ state'.phase = "awaiting_mode_selection" /\ state'.query = state.query
      /\ \/ state'.selectedMode = r.mode /\ state'.modeSource = state.modeSource
         \/ state'.selectedMode = None /\ state'.modeSource = None
      /\ state'.suggestedFor = None
  BY <1>1, AwaitingFields
<1>6. AnswerFitsQuestion'
  BY <1>5 DEF AnswerFitsQuestion, Answered
<1>7. ModeHasOrigin'
  BY <1>1, <1>2, <1>5, NoneAssumption DEF IInv, ModeHasOrigin, Answered
<1>8. state'.phase \notin Busy
  BY <1>1, <1>5 DEF Busy
<1> QED
  BY <1>1, <1>4, <1>5, <1>6, <1>7, <1>8, LeavesBusy

LEMMA FailureIInv ==
  ASSUME IInv, NEW r \in requests, RequestFails(r)
  PROVE  IInv'
<1> DEFINE mode == IF r.mode # None THEN r.mode ELSE state.selectedMode
<1>1. /\ isCurrent(r) /\ requests' = requests \ {r}
      /\ state' = Show("error", state.query, mode, state.modeSource)
      /\ UNCHANGED <<inFlight, sequence, mounted, chosen, submitted>>
  BY DEF RequestFails, history
<1>2. /\ state.query \in AllQueries /\ state.selectedMode \in OptionalMode
      /\ state.modeSource \in OptionalSource /\ r.kind \in {"suggest", "search"}
  BY DEF IInv, TypeOK, States, Requests
<1>3. mode = state.selectedMode
  BY <1>1, <1>2 DEF IInv, TypeOK, Requests, WaitsForItsRequest
<1>4. state' \in States
  BY <1>1, <1>2, <1>3, ShowType DEF Phases
<1>5. /\ state'.phase = "error" /\ state'.query = state.query
      /\ state'.selectedMode = state.selectedMode /\ state'.modeSource = state.modeSource
      /\ state'.suggestedFor = None
  BY <1>1, <1>3, ShowFields
<1>6. AnswerFitsQuestion'
  BY <1>5 DEF AnswerFitsQuestion, Answered
<1>7. ModeHasOrigin'
  BY <1>1, <1>5 DEF IInv, ModeHasOrigin, Answered
<1>8. state'.phase \notin Busy
  BY <1>1, <1>5 DEF Busy, IInv, TypeOK
<1> QED
  BY <1>1, <1>4, <1>5, <1>6, <1>7, <1>8, LeavesBusy

LEMMA StaleIInv ==
  ASSUME IInv, NEW r \in requests, StaleSettles(r)
  PROVE  IInv'
<1>1. requests' = requests \ {r} /\ ~isCurrent(r)
      /\ UNCHANGED <<state, inFlight, sequence, mounted, chosen, submitted>>
  BY DEF StaleSettles, history
<1>2. /\ requests' \subseteq Requests /\ TokensIdentify' /\ OnlyInFlightIsLive'
  BY <1>1, SettledIInv
<1>3. TypeOK'
  BY <1>1, <1>2 DEF IInv, TypeOK
<1>4. WaitsForItsRequest' /\ ContinuesSubmit'
  BY <1>1 DEF IInv, WaitsForItsRequest, ContinuesSubmit, isCurrent
<1>5. ModeHasOrigin' /\ AnswerFitsQuestion'
  BY <1>1 DEF IInv, ModeHasOrigin, AnswerFitsQuestion, SuggestedMode
<1> QED
  BY <1>2, <1>3, <1>4, <1>5 DEF IInv

LEMMA StepIInv == IInv /\ [Next]_vars => IInv'
<1> SUFFICES ASSUME IInv, [Next]_vars PROVE IInv'
  OBVIOUS
<1>1. CASE UserStep
  BY <1>1, SetQueryIInv, SelectModeIInv, RequestSuggestionIInv, SubmitIInv, DisposeIInv
  DEF UserStep
<1>2. CASE SettleStep
  BY <1>2, SuggestionIInv, ResponseIInv, RefusalIInv, FailureIInv, StaleIInv DEF SettleStep
<1>3. CASE UNCHANGED vars
  BY <1>3
  DEF vars, IInv, TypeOK, TokensIdentify, OnlyInFlightIsLive, WaitsForItsRequest,
      ModeHasOrigin, SuggestedMode, ContinuesSubmit, AnswerFitsQuestion, isCurrent
<1> QED
  BY <1>1, <1>2, <1>3 DEF Next

(* The inductive invariant holds in every reachable state.                 *)
THEOREM Invariance == Spec => []IInv
  BY InitIInv, StepIInv, PTL DEF Spec

(* Type correctness: every state of the machine is a QueryState and every  *)
(* pending promise a request it can have made.                             *)
THEOREM TypeCorrect == Spec => []TypeOK
<1>1. IInv => TypeOK
  BY DEF IInv
<1> QED
  BY <1>1, Invariance, PTL

(* However many requests are pending, the only one whose answer would be   *)
(* accepted is the one the page says it waits for.                         *)
THEOREM WaitsForOne == Spec => []WaitsForItsRequest
<1>1. IInv => WaitsForItsRequest
  BY DEF IInv
<1> QED
  BY <1>1, Invariance, PTL

(* Every superseded request has been told to stop.                         *)
THEOREM SupersededStops == Spec => []SupersededIsAborted
<1>1. IInv => SupersededIsAborted
  BY NoneAssumption DEF IInv, TypeOK, OnlyInFlightIsLive, SupersededIsAborted, isCurrent, Requests
<1> QED
  BY <1>1, Invariance, PTL

(* A result or a suggestion on the screen belongs to the query and the     *)
(* mode on the screen, in whatever order answers arrive.                   *)
THEOREM NoStaleAnswer == Spec => []AnswerFitsQuestion
<1>1. IInv => AnswerFitsQuestion
  BY DEF IInv
<1> QED
  BY <1>1, Invariance, PTL

LEMMA Justified == IInv => SearchIsJustified
<1>1. ASSUME IInv, state.phase \in Answered \cup {"searching"}
      PROVE  /\ submitted
             /\ state.modeSource = "user" => state.selectedMode \in chosen
             /\ state.modeSource # "user" =>
                  \E s \in Answers[state.query] : ~s.requires /\ s.suggested = state.selectedMode
             /\ MustChoose(state.query) => state.modeSource = "user"
  <2>1. submitted /\ state.modeSource # None
    BY <1>1 DEF IInv, ModeHasOrigin
  <2>2. state.modeSource \in {"user", "suggested"}
    BY <1>1, <2>1 DEF IInv, TypeOK, States, OptionalSource
  <2>3. state.modeSource # "user" => SuggestedMode(state.query, state.selectedMode)
    BY <1>1, <2>2 DEF IInv, ModeHasOrigin
  <2>4. MustChoose(state.query) => state.modeSource = "user"
    BY <2>3 DEF MustChoose, SuggestedMode
  <2> QED
    BY <1>1, <2>1, <2>3, <2>4 DEF IInv, ModeHasOrigin, SuggestedMode
<1> QED
  BY <1>1 DEF SearchIsJustified

(* No search runs that its user did not submit, or in a mode that neither  *)
(* the user nor, where it may, the service chose for this very query.      *)
THEOREM SearchesAreJustified == Spec => []SearchIsJustified
  BY Justified, Invariance, PTL

-----------------------------------------------------------------------------
(* The modes a suggestion may leave beside a choice of the user.           *)
LEMMA ApplyKeepsChoice ==
  ASSUME NEW s, NEW about, state.modeSource = "user", state.selectedMode # None
  PROVE  applySuggestion(s, about).selectedMode \in {None, state.selectedMode}
<1> DEFINE allowed == OrElse(s.allowed, Modes)
<1>1. CASE s.requires \/ (s.suggested = None /\ state.selectedMode = None)
  <2>1. applySuggestion(s, about) =
          Awaiting(state.query, state.selectedMode, state.modeSource, allowed, about)
    BY <1>1 DEF applySuggestion
  <2> QED
    BY <2>1, AwaitingFields
<1>2. CASE ~(s.requires \/ (s.suggested = None /\ state.selectedMode = None))
  <2>1. applySuggestion(s, about) =
          Ready(state.query, state.selectedMode, SourceOrUser(state.modeSource), about)
    BY <1>2 DEF applySuggestion
  <2> QED
    BY <2>1, ReadyFields
<1> QED
  BY <1>1, <1>2

(* A mode the user chose is never replaced by a suggestion.                *)
THEOREM UserChoicePrevails == Spec => UserChoiceWins
<1> DEFINE Keeps == state'.selectedMode \in {None, state.selectedMode}
<1> DEFINE Wins ==
      /\ state'.query = state.query /\ state.modeSource = "user"
      /\ state'.selectedMode \notin {None, state.selectedMode}
      => state'.phase = "ready" /\ state'.modeSource = "user"
<1>1. ASSUME NEW q \in AllQueries, setQuery(q) PROVE Wins
  BY <1>1, ShowFields DEF setQuery
<1>2. ASSUME NEW m \in Modes, selectMode(m) PROVE Wins
  BY <1>2, ReadyFields DEF selectMode
<1>3. ASSUME NEW c \in BOOLEAN, requestSuggestion(c) PROVE Keeps
  BY <1>3, ShowFields DEF requestSuggestion
<1>4. ASSUME NEW before, NEW settled, startSearch(before, settled)
      PROVE  state'.selectedMode = before.selectedMode
  BY <1>4, ShowFields DEF startSearch
<1>5. ASSUME submit PROVE Keeps
  BY <1>3, <1>4, <1>5 DEF submit, SubmitIdle, SubmitSelected
<1>6. ASSUME NEW r, NEW s, SuggestionArrives(r, s), IInv, state.modeSource = "user" PROVE Keeps
  <2>1. applySuggestion(s, r.query).selectedMode \in {None, state.selectedMode}
    BY <1>6, ApplyKeepsChoice, NoneAssumption DEF IInv, ModeHasOrigin
  <2> QED
    BY <1>4, <1>6, <2>1 DEF SuggestionArrives
<1>7. ASSUME NEW r \in requests, NEW c \in Contents, ResponseArrives(r, c), IInv PROVE Keeps
  <2>1. r.mode = state.selectedMode
    BY <1>7, CurrentSearch DEF ResponseArrives
  <2> QED
    BY <1>7, <2>1 DEF ResponseArrives, Show
<1>8. ASSUME NEW r \in requests, NEW d \in Refusals, SelectionRequired(r, d), IInv PROVE Keeps
  <2>1. r.mode = state.selectedMode
    BY <1>8, CurrentSearch DEF SelectionRequired
  <2> QED
    BY <1>8, <2>1, AwaitingFields DEF SelectionRequired
<1>9. ASSUME NEW r \in requests, RequestFails(r), IInv PROVE Keeps
  <2>1. r.mode = state.selectedMode \/ r.mode = None
    BY <1>9 DEF RequestFails, IInv, TypeOK, Requests, WaitsForItsRequest
  <2> QED
    BY <1>9, <2>1, ShowFields DEF RequestFails
<1>10. ASSUME IInv, Next PROVE Wins
  <2>1. CASE UserStep
    BY <2>1, <1>1, <1>2, <1>3, <1>5 DEF UserStep, dispose
  <2>2. CASE SettleStep
    BY <2>2, <1>6, <1>7, <1>8, <1>9, <1>10 DEF SettleStep, StaleSettles
  <2> QED
    BY <1>10, <2>1, <2>2 DEF Next
<1>11. IInv /\ [Next]_vars => [Wins]_vars
  BY <1>10
<1> QED
  BY <1>11, Invariance, PTL DEF Spec, UserChoiceWins

(* A choice that the user still owes is waited for: no call, and no answer *)
(* that comes late, turns the wait into a search.  A settlement that is    *)
(* current finds the machine busy, and submit is refused meanwhile.        *)
THEOREM ChoiceIsAwaited == Spec => AwaitingNeverSearches
<1> DEFINE Waits == state.phase = "awaiting_mode_selection" => state'.phase # "searching"
<1>1. ASSUME NEW q \in AllQueries, setQuery(q) PROVE Waits
  BY <1>1, ShowFields DEF setQuery
<1>2. ASSUME NEW m \in Modes, selectMode(m) PROVE Waits
  BY <1>2, ReadyFields DEF selectMode
<1>3. ASSUME NEW c \in BOOLEAN, requestSuggestion(c) PROVE Waits
  BY <1>3, ShowFields DEF requestSuggestion
<1>4. ASSUME submit PROVE Waits
  BY <1>4 DEF submit, SubmitIdle, SubmitSelected
<1>5. ASSUME NEW r \in requests, isCurrent(r), IInv PROVE Waits
  BY <1>5 DEF IInv, TypeOK, WaitsForItsRequest, Requests, KindOf, Busy
<1>6. ASSUME IInv, Next PROVE Waits
  <2>1. CASE UserStep
    BY <2>1, <1>1, <1>2, <1>3, <1>4 DEF UserStep, dispose
  <2>2. CASE SettleStep
    BY <2>2, <1>5, <1>6
       DEF SettleStep, SuggestionArrives, ResponseArrives, SelectionRequired, RequestFails,
           StaleSettles
  <2> QED
    BY <1>6, <2>1, <2>2 DEF Next
<1>7. IInv /\ [Next]_vars => [Waits]_vars
  BY <1>6
<1> QED
  BY <1>7, Invariance, PTL DEF Spec, AwaitingNeverSearches

-----------------------------------------------------------------------------
(* Refinement: what the machine shows outside the answered phases.         *)
NothingElseShown == state.phase \notin Answered => state.response = None

LEMMA InitShown == Init => NothingElseShown
  BY ShowFields DEF Init, NothingElseShown

LEMMA StepShown == NothingElseShown /\ [Next]_vars => NothingElseShown'
<1> SUFFICES ASSUME NothingElseShown, [Next]_vars PROVE NothingElseShown'
  OBVIOUS
<1>1. ASSUME NEW c, NEW r, ResponseArrives(r, c) PROVE state'.phase \in Answered
  BY <1>1 DEF ResponseArrives, Show, classifySearchResponse, Answered
<1>2. ASSUME NEW before, NEW settled, startSearch(before, settled) PROVE state'.response = None
  BY <1>2, ShowFields DEF startSearch
<1>3. ASSUME NEW s, NEW about PROVE applySuggestion(s, about).response = None
  BY AwaitingFields, ReadyFields DEF applySuggestion
<1>4. CASE UserStep
  <2>1. ASSUME NEW c, requestSuggestion(c) PROVE state'.response = None
    BY <2>1, ShowFields DEF requestSuggestion
  <2>2. ASSUME submit PROVE state'.response = None
    BY <1>2, <2>1, <2>2 DEF submit, SubmitIdle, SubmitSelected
  <2>3. ASSUME NEW q, setQuery(q) PROVE state'.response = None
    BY <2>3, ShowFields DEF setQuery
  <2>4. ASSUME NEW m, selectMode(m) PROVE state'.response = None
    BY <2>4, ReadyFields DEF selectMode
  <2> QED
    BY <1>4, <2>1, <2>2, <2>3, <2>4 DEF UserStep, dispose, NothingElseShown
<1>5. CASE SettleStep
  <2>1. ASSUME NEW r, NEW s, SuggestionArrives(r, s) PROVE state'.response = None
    BY <1>2, <1>3, <2>1 DEF SuggestionArrives
  <2>2. ASSUME NEW r, NEW d, SelectionRequired(r, d) PROVE state'.response = None
    BY <2>2, AwaitingFields DEF SelectionRequired
  <2>3. ASSUME NEW r, RequestFails(r) PROVE state'.response = None
    BY <2>3, ShowFields DEF RequestFails
  <2> QED
    BY <1>1, <1>5, <2>1, <2>2, <2>3 DEF SettleStep, StaleSettles, NothingElseShown
<1>6. CASE UNCHANGED vars
  BY <1>6 DEF vars, NothingElseShown
<1> QED
  BY <1>4, <1>5, <1>6 DEF Next

LEMMA InitSession == Init => Session!Init
  BY ShowFields DEF Init, Session!Init, Asked, Busy

(* What Asked is in a busy and in any other state.                         *)
LEMMA AskedFacts ==
  /\ (~mounted \/ state.phase \notin Busy) => Asked = None
  /\ mounted /\ state.phase = "searching" =>
       Asked = Session!SearchFor(state.query, state.selectedMode)
  /\ mounted /\ state.phase = "suggesting_mode" =>
       Asked = Session!SuggestionFor(state.query)
  BY DEF Asked, Busy, KindOf, Session!SearchFor, Session!SuggestionFor

LEMMA AskedFactsNext ==
  /\ (~mounted' \/ state'.phase \notin Busy) => Asked' = None
  /\ mounted' /\ state'.phase = "searching" =>
       Asked' = Session!SearchFor(state'.query, state'.selectedMode)
  /\ mounted' /\ state'.phase = "suggesting_mode" =>
       Asked' = Session!SuggestionFor(state'.query)
  BY DEF Asked, Busy, KindOf, Session!SearchFor, Session!SuggestionFor

(* An open question is a record, never None.                               *)
LEMMA QuestionIsReal ==
  ASSUME IInv, mounted, state.phase \in Busy
  PROVE  Asked # None
<1>1. state.query \in AllQueries /\ state.selectedMode \in Modes \cup {None}
  BY DEF IInv, TypeOK, States, OptionalMode
<1>2. Asked \in [kind: {"suggest", "search"}, query: Queries \cup {Blank}, mode: Modes \cup {None}]
  BY <1>1 DEF Asked, KindOf, AllQueries
<1> QED
  BY <1>2, NoneAssumption

LEMMA UserRefines ==
  IInv /\ NothingElseShown /\ UserStep => [Session!Next]_(Session!vars)
<1> SUFFICES ASSUME IInv, NothingElseShown, UserStep PROVE [Session!Next]_(Session!vars)
  OBVIOUS
<1>1. mounted
  BY DEF UserStep
<1>2. ASSUME NEW q \in AllQueries, setQuery(q) PROVE Session!Edit(q)
  <2>1. state'.query = q /\ state'.response = None /\ state'.phase = "idle"
    BY <1>2, ShowFields DEF setQuery
  <2> QED
    BY <2>1, AskedFactsNext DEF Session!Edit, Busy
<1>3. ASSUME NEW m \in Modes, selectMode(m) PROVE Session!Choose
  <2>1. /\ state.phase \notin Busy /\ state'.phase = "ready"
        /\ state'.query = state.query /\ state'.response = None
    BY <1>3, ReadyFields DEF selectMode
  <2>2. Asked = None /\ Asked' = None
    BY <2>1, AskedFacts, AskedFactsNext DEF Busy
  <2> QED
    BY <2>1, <2>2 DEF Session!Choose
<1>4. ASSUME NEW c \in BOOLEAN, requestSuggestion(c) PROVE Session!AskSuggestion
  <2>1. /\ state.phase \notin Busy /\ state'.phase = "suggesting_mode" /\ mounted'
        /\ state'.query = state.query /\ state'.response = None
    BY <1>1, <1>4, ShowFields DEF requestSuggestion
  <2>2. Asked = None /\ Asked' = Session!SuggestionFor(state.query)
    BY <2>1, AskedFacts, AskedFactsNext
  <2> QED
    BY <2>1, <2>2 DEF Session!AskSuggestion
<1>5. ASSUME SubmitSelected PROVE \E m \in Modes : Session!AskSearch(m)
  <2>1. /\ state.phase \notin Busy /\ state'.phase = "searching" /\ mounted'
        /\ state'.query = state.query /\ state'.response = None
        /\ state'.selectedMode = state.selectedMode
    BY <1>1, <1>5, ShowFields DEF SubmitSelected, startSearch
  <2>2. Asked = None /\ Asked' = Session!SearchFor(state.query, state.selectedMode)
    BY <2>1, AskedFacts, AskedFactsNext
  <2>3. state.selectedMode \in Modes
    BY <1>5 DEF SubmitSelected, IInv, TypeOK, States, OptionalMode
  <2> QED
    BY <2>1, <2>2, <2>3 DEF Session!AskSearch
<1>6. ASSUME dispose PROVE Session!Leave
  BY <1>6, AskedFactsNext DEF dispose, Session!Leave
<1>7. \/ \E q \in AllQueries : setQuery(q)
      \/ \E m \in Modes : selectMode(m)
      \/ \E c \in BOOLEAN : requestSuggestion(c)
      \/ SubmitSelected
      \/ dispose
  BY DEF UserStep, submit, SubmitIdle
<1> QED
  BY <1>2, <1>3, <1>4, <1>5, <1>6, <1>7 DEF Session!Next, Session!AllQueries, AllQueries

LEMMA SettleRefines ==
  IInv /\ NothingElseShown /\ SettleStep => [Session!Next]_(Session!vars)
<1> SUFFICES ASSUME IInv, NothingElseShown, NEW r \in requests,
                    \/ r.query \in Queries /\ \E s \in Answers[r.query] : SuggestionArrives(r, s)
                    \/ \E c \in Contents : ResponseArrives(r, c)
                    \/ \E d \in Refusals : SelectionRequired(r, d)
                    \/ RequestFails(r)
                    \/ StaleSettles(r)
             PROVE  [Session!Next]_(Session!vars)
  BY DEF SettleStep
<1>1. CASE StaleSettles(r)
  BY <1>1 DEF StaleSettles, Session!vars, Asked
<1>2. CASE ~StaleSettles(r)
  <2>1. isCurrent(r)
    BY <1>2 DEF SuggestionArrives, ResponseArrives, SelectionRequired, RequestFails
  <2>2. /\ mounted /\ state.phase \in Busy /\ r.query = state.query
        /\ r.kind = KindOf(state.phase) /\ state.response = None /\ Asked # None
    BY <2>1, QuestionIsReal DEF IInv, WaitsForItsRequest, NothingElseShown, Busy, Answered
  <2>3. ASSUME mounted', state'.phase \notin Busy, state'.query = state.query,
               state'.response = None
        PROVE  Session!Next
    BY <2>2, <2>3, AskedFactsNext DEF Session!Next, Session!Settle, Session!Close
  <2>4. ASSUME NEW s \in Answers[r.query], r.query \in Queries, SuggestionArrives(r, s)
        PROVE  Session!Next
    <3> DEFINE after == applySuggestion(s, r.query)
    <3>1. /\ after \in States /\ after.query = state.query
          /\ after.phase \in {"ready", "awaiting_mode_selection"}
          /\ after.phase = "ready" => after.selectedMode # None
      BY <2>2, <2>4, ApplyFacts
    <3>2. state.phase = "suggesting_mode" /\ mounted'
      BY <2>2, <2>4 DEF SuggestionArrives, Busy, KindOf
    <3>3. CASE r.continues /\ after.phase = "ready"
      <4>1. /\ state'.phase = "searching" /\ state'.query = state.query
            /\ state'.selectedMode = after.selectedMode /\ state'.response = None
        BY <2>4, <3>1, <3>3, ShowFields DEF SuggestionArrives, startSearch
      <4>2. /\ Asked = Session!SuggestionFor(state.query)
            /\ Asked' = Session!SearchFor(state.query, after.selectedMode)
        BY <2>2, <3>2, <4>1, AskedFacts, AskedFactsNext
      <4>3. after.selectedMode \in Modes
        BY <3>1, <3>3 DEF States, OptionalMode
      <4>4. Session!GoOn(after.selectedMode)
        BY <2>2, <4>1, <4>2 DEF Session!GoOn, Session!SuggestionFor
      <4> QED
        BY <4>3, <4>4 DEF Session!Next, Session!Settle
    <3>4. CASE ~(r.continues /\ after.phase = "ready")
      <4>1. state' = after
        BY <2>4, <3>4 DEF SuggestionArrives
      <4>2. after.response = None
        BY AwaitingFields, ReadyFields DEF applySuggestion
      <4> QED
        BY <2>3, <3>1, <3>2, <4>1, <4>2 DEF Busy
    <3> QED
      BY <3>3, <3>4
  <2>5. ASSUME NEW c \in Contents, ResponseArrives(r, c) PROVE Session!Next
    <3>1. /\ mounted /\ state.phase = "searching" /\ r.query = state.query
          /\ r.mode = state.selectedMode
      BY <2>1, <2>5, CurrentSearch DEF ResponseArrives
    <3>2. Asked = Session!SearchFor(r.query, r.mode)
      BY <3>1, AskedFacts
    <3>3. /\ state'.phase \notin Busy /\ state'.query = state.query
          /\ state'.response = [query |-> r.query, mode |-> r.mode, content |-> c]
      BY <2>5, <3>1 DEF ResponseArrives, Show, classifySearchResponse, Busy
    <3>4. Session!ShowAnswer(c)
      BY <2>2, <3>2, <3>3, AskedFactsNext
      DEF Session!ShowAnswer, Session!SearchFor, Session!Answer
    <3> QED
      BY <3>4 DEF Session!Next, Session!Settle
  <2>6. ASSUME NEW d \in Refusals, SelectionRequired(r, d) PROVE Session!Next
    BY <2>2, <2>3, <2>6, AwaitingFields DEF SelectionRequired, Busy
  <2>7. ASSUME RequestFails(r) PROVE Session!Next
    BY <2>2, <2>3, <2>7, ShowFields DEF RequestFails, Busy
  <2> QED
    BY <1>2, <2>4, <2>5, <2>6, <2>7
<1> QED
  BY <1>1, <1>2

(* Every behaviour of the machine is, under the mapping, a safe behaviour  *)
(* of the session: at most one open question, about the text on the        *)
(* screen, and only its own answer is ever shown.                          *)
THEOREM SessionImplemented == Spec => Session!Init /\ [][Session!Next]_(Session!vars)
<1>1. IInv /\ NothingElseShown /\ [Next]_vars => [Session!Next]_(Session!vars)
  BY UserRefines, SettleRefines DEF Next, vars, Session!vars, Asked
<1>2. Spec => []NothingElseShown
  BY InitShown, StepShown, PTL DEF Spec
<1> QED
  BY <1>1, <1>2, InitSession, Invariance, PTL DEF Spec

-----------------------------------------------------------------------------
(* The page.  An example is a new query and a choice in one step.          *)
LEMMA DemoIInv ==
  ASSUME IInv, mounted, NEW e \in DemoExamples, applyDemoExample(e)
  PROVE  IInv'
<1>1. e.query \in AllQueries /\ e.mode \in Modes
  BY DemoAssumption DEF AllQueries
<1>2. CASE e.query = state.query /\ selectMode(e.mode)
  BY <1>1, <1>2, SelectModeIInv
<1>3. CASE ~(e.query = state.query /\ selectMode(e.mode))
  <2>1. /\ cancelInFlight /\ state' = Ready(e.query, e.mode, "user", None)
        /\ chosen' = {e.mode} /\ submitted' = FALSE /\ UNCHANGED mounted
    BY <1>3 DEF applyDemoExample
  <2>2. /\ requests' \subseteq Requests /\ inFlight' = None /\ sequence' \in Nat
        /\ \A r \in requests' : r.token < sequence' /\ r.aborted
        /\ TokensIdentify' /\ OnlyInFlightIsLive'
    BY <2>1, CancelIInv
  <2>3. /\ state' \in States /\ state'.phase = "ready" /\ state'.query = e.query
        /\ state'.selectedMode = e.mode /\ state'.modeSource = "user"
        /\ state'.suggestedFor = None
    BY <1>1, <2>1, ReadyType, ReadyFields DEF OptionalMode, OptionalSource
  <2>4. \A r \in requests' : ~isCurrent(r)'
    BY <2>2 DEF isCurrent, Requests
  <2>5. TypeOK'
    BY <1>1, <2>1, <2>2, <2>3 DEF TypeOK, IInv
  <2>6. WaitsForItsRequest' /\ AnswerFitsQuestion' /\ ContinuesSubmit'
    BY <2>3, <2>4
    DEF WaitsForItsRequest, AnswerFitsQuestion, ContinuesSubmit, Busy, Answered
  <2>7. ModeHasOrigin'
    BY <1>1, <2>1, <2>3, NoneAssumption, ModesAssumption DEF ModeHasOrigin, Answered
  <2> QED
    BY <2>2, <2>5, <2>6, <2>7 DEF IInv
<1> QED
  BY <1>2, <1>3

(* Every other step of the page is one of the machine.                     *)
LEMMA PageIsUser ==
  ASSUME PageStep
  PROVE  UserStep \/ (mounted /\ \E e \in DemoExamples : applyDemoExample(e))
  BY DEF PageStep, UserStep, Type, Pick, PressSuggest, PressSubmit, handleSuggestModeSwitch

LEMMA AppStepIInv == IInv /\ [AppNext]_vars => IInv'
  BY PageIsUser, DemoIInv, StepIInv DEF AppNext, Next

(* What a state must offer so that the page can go on from it: a mode that *)
(* is selected when it is ready, two modes to choose from when it waits    *)
(* for a choice, for one of them may be the highlight already.             *)
ReadyHasMode == state.phase = "ready" => state.selectedMode # None

AwaitingOffers ==
  state.phase = "awaiting_mode_selection" => \E m, n \in state.allowedModes : m # n

LEMMA TwoOffered ==
  ASSUME NEW allowed, NEW default,
         allowed = {} \/ \E m, n \in allowed : m # n, \E m, n \in default : m # n
  PROVE  \E m, n \in OrElse(allowed, default) : m # n
  BY DEF OrElse

LEMMA TwoByDefault ==
  (\E m, n \in DefaultModes : m # n) /\ (\E m, n \in Modes : m # n)
<1>1. "timeline" \in DefaultModes /\ "thematic" \in DefaultModes
  BY DEF DefaultModes
<1> QED
  BY <1>1, ModesAssumption

LEMMA AwaitingAllowed ==
  ASSUME NEW query, NEW mode, NEW source, NEW allowed, NEW suggestedFor
  PROVE  Awaiting(query, mode, source, allowed, suggestedFor).allowedModes = allowed
  BY DEF Awaiting, Show

LEMMA InitOffers == Init => ReadyHasMode /\ AwaitingOffers
  BY ShowFields DEF Init, ReadyHasMode, AwaitingOffers

LEMMA UserOffers ==
  ASSUME ReadyHasMode, AwaitingOffers,
         UserStep \/ \E e \in DemoExamples : applyDemoExample(e)
  PROVE  ReadyHasMode' /\ AwaitingOffers'
<1>1. ASSUME NEW m \in Modes, selectMode(m) PROVE ReadyHasMode' /\ AwaitingOffers'
  BY <1>1, ReadyFields, ModesAssumption DEF selectMode, ReadyHasMode, AwaitingOffers
<1>2. ASSUME NEW e \in DemoExamples, applyDemoExample(e)
      PROVE  ReadyHasMode' /\ AwaitingOffers'
  <2>1. e.mode \in Modes
    BY DemoAssumption
  <2>2. CASE state' = Ready(e.query, e.mode, "user", None)
    BY <2>1, <2>2, ReadyFields, ModesAssumption DEF ReadyHasMode, AwaitingOffers
  <2> QED
    BY <1>1, <1>2, <2>1, <2>2 DEF applyDemoExample
<1>3. ASSUME NEW before, NEW settled, startSearch(before, settled)
      PROVE  state'.phase = "searching"
  BY <1>3, ShowFields DEF startSearch
<1>4. ASSUME NEW continues, requestSuggestion(continues) PROVE state'.phase = "suggesting_mode"
  BY <1>4, ShowFields DEF requestSuggestion
<1>5. ASSUME NEW q \in AllQueries, setQuery(q) PROVE state'.phase = "idle"
  BY <1>5, ShowFields DEF setQuery
<1>6. ASSUME submit PROVE state'.phase \in Busy
  BY <1>3, <1>4, <1>6 DEF submit, SubmitIdle, SubmitSelected, Busy
<1>7. state'.phase \in Busy \cup {"idle"} => ReadyHasMode' /\ AwaitingOffers'
  BY DEF ReadyHasMode, AwaitingOffers, Busy
<1>8. dispose => ReadyHasMode' /\ AwaitingOffers'
  BY DEF dispose, ReadyHasMode, AwaitingOffers
<1> QED
  BY <1>1, <1>2, <1>4, <1>5, <1>6, <1>7, <1>8 DEF UserStep, Busy

LEMMA SuggestionOffers ==
  ASSUME IInv, state.query \in Queries, NEW s \in Answers[state.query]
  PROVE  LET after == applySuggestion(s, state.query)
         IN  /\ after.phase = "ready" => after.selectedMode # None
             /\ after.phase = "awaiting_mode_selection" =>
                  \E m, n \in after.allowedModes : m # n
<1> DEFINE after == applySuggestion(s, state.query)
           allowed == OrElse(s.allowed, Modes)
<1>1. s.allowed = {} \/ \E m, n \in s.allowed : m # n
  BY OffersAssumption
<1>2. \E m, n \in allowed : m # n
  BY <1>1, TwoByDefault, TwoOffered
<1> HIDE DEF allowed
<1>3. after.phase = "awaiting_mode_selection" => after.allowedModes = allowed
  BY AwaitingAllowed, ReadyFields DEF applySuggestion, allowed
<1>4. after.phase = "ready" => after.selectedMode # None
  BY ApplyFacts
<1> QED
  BY <1>2, <1>3, <1>4

LEMMA SettleOffers ==
  ASSUME IInv, ReadyHasMode, AwaitingOffers, NEW r \in requests,
         \/ \E q \in Queries : q = r.query /\ \E s \in Answers[q] : SuggestionArrives(r, s)
         \/ \E c \in Contents : ResponseArrives(r, c)
         \/ \E d \in Refusals : SelectionRequired(r, d)
         \/ RequestFails(r)
         \/ StaleSettles(r)
  PROVE  ReadyHasMode' /\ AwaitingOffers'
<1>1. ASSUME r.query \in Queries, NEW s \in Answers[r.query], SuggestionArrives(r, s)
      PROVE  ReadyHasMode' /\ AwaitingOffers'
  <2> DEFINE after == applySuggestion(s, r.query)
  <2>1. r.query = state.query
    BY <1>1 DEF SuggestionArrives, IInv, WaitsForItsRequest
  <2>2. /\ after.phase = "ready" => after.selectedMode # None
        /\ after.phase = "awaiting_mode_selection" =>
             \E m, n \in after.allowedModes : m # n
    BY <1>1, <2>1, SuggestionOffers
  <2> HIDE DEF after
  <2>3. CASE startSearch(after, {r})
    <3>1. state'.phase = "searching"
      BY <2>3, ShowFields DEF startSearch
    <3> QED
      BY <3>1 DEF ReadyHasMode, AwaitingOffers
  <2>4. CASE state' = after
    BY <2>2, <2>4 DEF ReadyHasMode, AwaitingOffers
  <2>5. startSearch(after, {r}) \/ state' = after
    BY <1>1 DEF SuggestionArrives, after
  <2> QED
    BY <2>3, <2>4, <2>5
<1>2. ASSUME NEW c \in Contents, ResponseArrives(r, c) PROVE state'.phase \in Answered
  BY <1>2 DEF ResponseArrives, Show, classifySearchResponse, Answered
<1>3. ASSUME NEW d \in Refusals, SelectionRequired(r, d)
      PROVE  ReadyHasMode' /\ AwaitingOffers'
  <2>1. \E m, n \in OrElse(d, DefaultModes) : m # n
    BY OffersAssumption, TwoByDefault, TwoOffered
  <2>2. state'.phase = "awaiting_mode_selection"
        /\ state'.allowedModes = OrElse(d, DefaultModes)
    BY <1>3, AwaitingFields, AwaitingAllowed DEF SelectionRequired
  <2> QED
    BY <2>1, <2>2 DEF ReadyHasMode, AwaitingOffers
<1>4. ASSUME RequestFails(r) PROVE state'.phase = "error"
  BY <1>4, ShowFields DEF RequestFails
<1>5. StaleSettles(r) => state' = state
  BY DEF StaleSettles
<1> QED
  BY <1>1, <1>2, <1>3, <1>4, <1>5 DEF ReadyHasMode, AwaitingOffers, Answered

LEMMA AppInvariance == AppSpec => [](IInv /\ ReadyHasMode /\ AwaitingOffers)
<1>1. ASSUME IInv, ReadyHasMode, AwaitingOffers, [AppNext]_vars
      PROVE  IInv' /\ ReadyHasMode' /\ AwaitingOffers'
  <2>1. IInv'
    BY <1>1, AppStepIInv
  <2>2. CASE PageStep
    BY <1>1, <2>1, <2>2, PageIsUser, UserOffers
  <2>3. CASE SettleStep
    BY <1>1, <2>1, <2>3, SettleOffers DEF SettleStep
  <2>4. CASE UNCHANGED vars
    BY <1>1, <2>1, <2>4 DEF vars, ReadyHasMode, AwaitingOffers
  <2> QED
    BY <1>1, <2>2, <2>3, <2>4 DEF AppNext
<1> QED
  BY <1>1, InitIInv, InitOffers, PTL DEF AppSpec

(* On the page, with its examples that fill in a query and a mode at once, *)
(* no search runs either that its user did not submit, or in a mode that   *)
(* nobody chose for its query, and no answer meets another question.       *)
THEOREM PageIsSound == AppSpec => [](SearchIsJustified /\ AnswerFitsQuestion)
<1>1. IInv => SearchIsJustified /\ AnswerFitsQuestion
  BY Justified DEF IInv
<1> QED
  BY <1>1, AppInvariance, PTL

(* A submit button that can be pressed starts something: whenever it is    *)
(* enabled the machine is idle, and asks, or has a mode, and searches.     *)
THEOREM ButtonsAct == AppSpec => []EnabledButtonsAct
<1>1. ASSUME IInv, ReadyHasMode PROVE EnabledButtonsAct
  <2>1. state.phase \in Phases
    BY <1>1 DEF IInv, TypeOK, States
  <2>2. state.phase \in Answered => state.selectedMode # None
    BY <1>1 DEF IInv, ModeHasOrigin
  <2> QED
    BY <1>1, <2>1, <2>2 DEF EnabledButtonsAct, canSubmit, busy, awaiting, Phases, ReadyHasMode
<1> QED
  BY <1>1, AppInvariance, PTL

(* The page never leaves its user stuck: when it is not waiting for an     *)
(* answer and has a query, it can be submitted or a mode can be picked.    *)
THEOREM AlwaysAWayOn == AppSpec => []NoDeadEnd
<1>1. ASSUME IInv, AwaitingOffers, ~busy, ~queryEmpty
      PROVE  canSubmit \/ \E m \in Modes : canPick(m)
  <2>1. CASE awaiting
    <3>1. PICK m \in state.allowedModes : m # state.selectedMode
      BY <1>1, <2>1 DEF AwaitingOffers, awaiting
    <3>2. m \in Modes
      BY <1>1 DEF IInv, TypeOK, States
    <3> QED
      BY <1>1, <3>1, <3>2 DEF canPick
  <2>2. CASE ~awaiting /\ state.phase = "error" /\ state.selectedMode = None
    <3>1. \E m \in Modes : m # None
      BY ModesAssumption DEF DefaultModes
    <3> QED
      BY <1>1, <2>2, <3>1 DEF canPick
  <2>3. CASE ~awaiting /\ ~(state.phase = "error" /\ state.selectedMode = None)
    BY <1>1, <2>3 DEF canSubmit
  <2> QED
    BY <2>1, <2>2, <2>3
<1>2. IInv /\ AwaitingOffers => NoDeadEnd
  BY <1>1 DEF NoDeadEnd
<1> QED
  BY <1>2, AppInvariance, PTL
=============================================================================
