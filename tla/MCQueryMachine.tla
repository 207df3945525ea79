--------------------------- MODULE MCQueryMachine ---------------------------
(***************************************************************************)
(* The query machine over two queries: "how" is a question, to which the   *)
(* service always answers that the user must choose; "word" is a short     *)
(* term, to which it suggests the exact mode, the timeline mode after a    *)
(* change of the service, or nothing at all.                               *)
(***************************************************************************)
EXTENDS QueryMachine

MCQueries == {"how", "word"}
MCModes == {"exact", "timeline", "thematic"}

Suggests(mode) == [requires |-> FALSE, suggested |-> mode, allowed |-> {"exact"}]

MCAnswers ==
  [q \in MCQueries |->
     IF q = "how"
     THEN {[requires |-> TRUE, suggested |-> None, allowed |-> DefaultModes]}
     ELSE {Suggests("exact"), Suggests("timeline"), [Suggests(None) EXCEPT !.allowed = {}]}]

MCRefusals == {{}, {"exact"}, {"exact", "thematic"}}

MCContents ==
  {[hits |-> TRUE, insufficiency |-> "NONE", warnings |-> FALSE],
   [hits |-> TRUE, insufficiency |-> "OTHER", warnings |-> FALSE],
   [hits |-> FALSE, insufficiency |-> "NO_EXACT_MATCH", warnings |-> FALSE]}
=============================================================================
