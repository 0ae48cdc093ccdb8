------------------------------ MODULE MCTriggerRules ------------------------------
(* Rules with names that resemble one another, alone and in lists, and the *)
(* schedules of days of four minutes, also ones that are refused.          *)
EXTENDS TriggerRules

CONSTANTS a, b, k

Rule == [kind |-> "every_message", aliases |-> {}, words |-> {}, bare |-> TRUE, literal |-> <<>>,
         fuzzy |-> TRUE, minimum |-> 2]
Named(aliases, words, bare, fuzzy) ==
  [Rule EXCEPT !.kind = "direct_address", !.aliases = aliases, !.words = words, !.bare = bare,
               !.fuzzy = fuzzy]
MCRules ==
  {<<Named({<<a, b>>, <<b, a>>}, {}, TRUE, TRUE)>>,
   <<Named({<<a, b, a>>, <<a, b>>, <<a>>}, {<<b>>}, TRUE, TRUE)>>,
   <<Named({<<a, b, b>>, <<b, a, b>>}, {<<a>>, <<a, a>>}, FALSE, TRUE)>>,
   <<Named({<<k, a>>, <<a, k, b>>}, {<<k>>}, TRUE, TRUE)>>,
   <<Named({<<a, b>>}, {<<b>>}, FALSE, FALSE), [Rule EXCEPT !.kind = "reply_to_assistant"]>>,
   <<[Rule EXCEPT !.kind = "literal_prefix", !.literal = <<b>>], Named({<<b, a>>}, {}, TRUE, TRUE)>>,
   <<[Rule EXCEPT !.kind = "literal_prefix", !.literal = <<a, a>>],
     [Rule EXCEPT !.kind = "reaction_invocation"]>>,
   <<[Rule EXCEPT !.kind = "reaction_invocation"], Rule>>}
Always == [enabled |-> FALSE, days |-> {}, start |-> 0, end |-> 0]
MCSchedules ==
  [enabled : {TRUE}, days : {{0}, {6}, {0, 2, 3}, {1, 6}, 0..6}, start : 0..3, end : 0..3]
MCPolicies ==
  [rules : MCRules, participants : {{"peer"}, {"owner", "peer"}}, schedule : {Always}]
  \cup [rules : {<<>>}, participants : {{}}, schedule : MCSchedules]
=============================================================================
