---------------------------- MODULE QuerySession ----------------------------
(***************************************************************************)
(* What the query machine promises its user, without tokens, abort signals *)
(* or pending promises: there is at most one open question to the server,  *)
(* it is about the text that is on the screen, and what is shown as a      *)
(* result is the answer to exactly that question.                          *)
(***************************************************************************)
CONSTANTS Queries, Modes, Contents, None, Blank

VARIABLES
  query,   (* the text on the screen                                       *)
  asked,   (* the open question, or None                                   *)
  shown    (* the answer on the screen, or None                            *)

vars == <<query, asked, shown>>

AllQueries == Queries \cup {Blank}
SearchFor(q, m) == [kind |-> "search", query |-> q, mode |-> m]
SuggestionFor(q) == [kind |-> "suggest", query |-> q, mode |-> None]
Answer(question, content) ==
  [query |-> question.query, mode |-> question.mode, content |-> content]

Init == query = Blank /\ asked = None /\ shown = None

(* Typing withdraws the question and clears the answer.                    *)
Edit(q) == query' = q /\ asked' = None /\ shown' = None

(* Choosing a mode, only while nothing is asked.                           *)
Choose == asked = None /\ shown' = None /\ UNCHANGED <<query, asked>>

AskSuggestion ==
  /\ asked = None
  /\ asked' = SuggestionFor(query)
  /\ shown' = None
  /\ UNCHANGED query

AskSearch(m) ==
  /\ asked = None
  /\ asked' = SearchFor(query, m)
  /\ shown' = None
  /\ UNCHANGED query

(* The page goes away: the question is withdrawn for good.                 *)
Leave == asked' = None /\ UNCHANGED <<query, shown>>

ShowAnswer(content) ==
  /\ asked # None /\ asked.kind = "search"
  /\ shown' = Answer(asked, content)
  /\ asked' = None
  /\ UNCHANGED query

(* A suggestion an idle submit waited for turns into the search.           *)
GoOn(m) ==
  /\ asked # None /\ asked.kind = "suggest"
  /\ asked' = SearchFor(query, m)
  /\ UNCHANGED <<query, shown>>

(* A suggestion, a refusal or a failure: nothing to show.                  *)
Close == asked # None /\ asked' = None /\ UNCHANGED <<query, shown>>

Settle ==
  \/ \E c \in Contents : ShowAnswer(c)
  \/ \E m \in Modes : GoOn(m)
  \/ Close

Next ==
  \/ \E q \in AllQueries : Edit(q)
  \/ Choose
  \/ AskSuggestion
  \/ \E m \in Modes : AskSearch(m)
  \/ Leave
  \/ Settle

Spec == Init /\ [][Next]_vars /\ WF_vars(Settle)
=============================================================================
