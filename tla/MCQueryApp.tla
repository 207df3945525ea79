---------------------------- MODULE MCQueryApp ------------------------------
(***************************************************************************)
(* The page with one question and one short term.  The service answers as  *)
(* query_router.suggest_mode does; a refusal names no modes or two of      *)
(* them.  One demo example, on the question, in a mode the service would   *)
(* not allow.                                                              *)
(***************************************************************************)
EXTENDS QueryApp

MCQueries == {"how", "word"}
MCModes == {"exact", "claim", "timeline", "thematic"}

MCAnswers ==
  [q \in MCQueries |->
     IF q = "how"
     THEN {[requires |-> TRUE, suggested |-> None, allowed |-> DefaultModes]}
     ELSE {[requires |-> FALSE, suggested |-> "exact", allowed |-> {"exact", "claim"}]}]

MCContents ==
  {[hits |-> TRUE, insufficiency |-> "NONE", warnings |-> TRUE],
   [hits |-> FALSE, insufficiency |-> "NO_EXACT_MATCH", warnings |-> FALSE]}

MCRefusals == {{}, {"claim", "timeline"}}
MCDemoExamples == {[query |-> "how", mode |-> "claim"]}
=============================================================================
