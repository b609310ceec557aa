--------------------------- MODULE MCPlanReview ---------------------------
(* Plans for the review of a construction plan: one that passes, what may be  *)
(* different about it, and what may go wrong with it.                         *)
EXTENDS PlanReview

Seen(elements) == [confident |-> TRUE, elements |-> elements]
Keys == {<<"qwen", 1>>, <<"qwen", 2>>, <<"other", 1>>}
Picture(elements, ink) == [answers |-> [k \in Keys |-> Seen(elements)], ink |-> ink]
File(key, pictures) == [key |-> key, deleted |-> FALSE, url |-> "preview", pictures |-> pictures,
                        tries |-> <<"fails", "pictures">>]
Signed(role, hand) == [role |-> role, hand |-> hand, monthDay |-> TRUE]
GoodFacts ==
  [sections |-> [c \in DOMAIN Chapters |->
                   [content |-> "yes", same |-> "yes", renamed |-> FALSE, subs |-> Chapters[c]]],
   tables |-> [r \in {"CP-H1", "CP-H2", "CP-H3", "CP-H4"} |-> "full"], chemicals |-> "no",
   proofreader |-> {"w"}, approver |-> {"q"}, seal |-> "yes", sealText |-> {"co"}, isRed |-> "yes",
   signatures |-> <<Signed("engineer", "yes"), Signed("manager", "yes")>>,
   states |-> [type \in WorkTypes |-> "CHECKED"],
   personnel |-> {[name |-> {"z"}, age |-> {50}, certified |-> "yes", status |-> "allowed"]},
   daily |-> <<[date |-> {1}]>>, format |-> "BY_LINE", emergencySubs |-> Chapters["emergency"],
   emergency |-> {[role |-> role, name |-> {"z"}, phoneOk |-> TRUE] : role \in {"leader", "safety", "member"}},
   typos |-> FALSE]
GoodPlan ==
  [files |-> <<File("a", <<Picture(<<"text">>, "other"), Picture(<<"seal_candidate">>, "red")>>),
               File("b", <<Picture(<<"text">>, "other")>>)>>,
   registered |-> {"qwen", "other"}, providers |-> <<"qwen", "other">>,
   synthesis |-> <<{GoodFacts}, {GoodFacts}>>, vendor |-> {"co"}, workDay |-> {1}, workDates |-> {1, 3}]

Facts(x, f) == [x EXCEPT !.synthesis = <<{f}, {f}>>]
OtherFacts ==
  LET g == GoodFacts IN
  {[g EXCEPT !.sections = <<>>], [g EXCEPT !.sections["overview"].content = "no"],
   [g EXCEPT !.sections["overview"].renamed = TRUE], [g EXCEPT !.tables = <<>>],
   [g EXCEPT !.tables["CP-H1"] = "zero quantity"], [g EXCEPT !.tables["CP-H1"] = "headers missing"],
   [g EXCEPT !.chemicals = "unknown"], [g EXCEPT !.approver = {"w"}], [g EXCEPT !.approver = {}],
   [g EXCEPT !.seal = "no"], [g EXCEPT !.seal = "unknown"], [g EXCEPT !.sealText = {"other"}],
   [g EXCEPT !.isRed = "no"], [g EXCEPT !.isRed = "unknown"], [g EXCEPT !.signatures = <<>>],
   [g EXCEPT !.signatures = Append(@, Signed("manager", "no"))],
   [g EXCEPT !.signatures = <<Signed("engineer", "no")>> \o @],
   [g EXCEPT !.states = [type \in WorkTypes |-> "UNKNOWN"]],
   [g EXCEPT !.personnel = {[p EXCEPT !.age = {58}] : p \in @}],
   [g EXCEPT !.personnel = {[p EXCEPT !.certified = "no", !.age = {58}] : p \in @}],
   [g EXCEPT !.personnel = {[p EXCEPT !.age = {}] : p \in @}],
   [g EXCEPT !.daily = <<>>], [g EXCEPT !.daily[1].date = {5}], [g EXCEPT !.daily[1].date = {}],
   [g EXCEPT !.format = "TABLE"], [g EXCEPT !.emergency = {[r EXCEPT !.name = {"x"}] : r \in @}],
   [g EXCEPT !.emergency = {[r EXCEPT !.phoneOk = FALSE] : r \in @}], [g EXCEPT !.typos = TRUE]}

(* What happens to the pictures, the providers and the agent.                 *)
Answers == {[confident |-> FALSE, elements |-> <<"text">>], Seen(<<>>)}
Mishaps(x) ==
  {x, [x EXCEPT !.files = <<>>], [x EXCEPT !.files[2].deleted = TRUE], [x EXCEPT !.files[2].key = "a"],
   [x EXCEPT !.files[1].tries = <<"fails", "fails">>], [x EXCEPT !.registered = {"other"}],
   [x EXCEPT !.registered = {"qwen"}], [x EXCEPT !.providers = <<"qwen">>],
   [x EXCEPT !.synthesis[1] = {}], [x EXCEPT !.synthesis = <<{}, {}>>],
   [x EXCEPT !.files[1].pictures[2].answers = [k \in Keys |-> Seen(<<"text">>)]]}
  \cup {[x EXCEPT !.files[1].pictures[2].ink = ink] : ink \in {"other", "some red"}}
  \cup {[x EXCEPT !.files[f].pictures[1].answers[k] = a] : f \in {1, 2}, k \in Keys, a \in Answers}
  \cup {[x EXCEPT !.files[f].pictures[1].answers = [k \in Keys |-> a]] : f \in {1, 2}, a \in Answers}

PlanReviewInputs ==
  {Facts(y, f) : y \in Mishaps(GoodPlan), f \in OtherFacts} \cup Mishaps(GoodPlan)
   \cup UNION {Mishaps(y) : y \in {z \in Mishaps(GoodPlan) : Len(z.files) = 2}}
=============================================================================
