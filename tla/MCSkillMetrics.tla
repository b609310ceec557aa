------------------------- MODULE MCSkillMetrics -------------------------
(* What the Java side holds in the checked instance: two groups on two pages  *)
(* of frequencies, a filter that leaves one of them, an empty endpoint.       *)
EXTENDS Integers, Sequences

Item(g, issues, closed) == [group |-> g, issues |-> issues, closed |-> closed]

MCKinds == <<"frequency", "region", "recurrence", "gaps">>

MCPages ==
  [all |-> [frequency  |-> << <<Item("g1", 2, 1), Item("g2", 1, 0)>>, <<Item("g1", 1, 1)>> >>,
            region     |-> << <<Item("s1", 1, 0)>> >>,
            recurrence |-> << <<Item("i1", 3, 0), Item("i2", 1, 0)>> >>,
            gaps       |-> << <<Item("room", 2, 0)>>, <<Item("room", 3, 0)>> >>],
   one |-> [frequency  |-> << <<Item("g1", 2, 1)>>, <<Item("g1", 1, 1)>> >>,
            region     |-> <<>>,
            recurrence |-> <<>>,
            gaps       |-> <<>>]]

MCMetrics == {"ai_pass_rate", "human_override_rate", "recurrence_rate_30d"}

Rates(pass, override, recurrence) ==
  [ai_pass_rate |-> pass, human_override_rate |-> override, recurrence_rate_30d |-> recurrence]

MCEffects == {<<>>, << <<Rates(100, 10, 10)>> >>, << <<Rates(80, 10, 12)>>, <<Rates(100, 10, 12)>> >>}

MCKeys == {[category |-> "c", area |-> "a", decision |-> "accept"],
           [category |-> "c", area |-> "b", decision |-> "reject"]}

MCQueries == {[category |-> "c", area |-> "b", decision |-> "any"]}

MCReasons == {<<"r2", "r1", "r2">>}
=============================================================================
