------------------------------ MODULE MCTrees ------------------------------
(* Compositions for the model checker: every kind of node, nested.            *)
EXTENDS Naturals, Sequences

Step(id, uses, approval) == [kind |-> "step", id |-> id, uses |-> uses, approval |-> approval]
Seq_(children, approval) == [kind |-> "sequence", children |-> children, approval |-> approval]
Par(children, partial) ==
  [kind |-> "parallel", children |-> children, partial |-> partial, approval |-> "inherit"]

(* Two branches at a time, one of them a choice of a reviewed step.           *)
Branching ==
  Par(<<[kind |-> "condition", id |-> "c", yes |-> Step("a", {}, "before"),
         no |-> Step("b", {}, "none")],
        Step("d", {}, "none")>>, FALSE)

(* A loop whose body may fail in part, then a reviewed step that reads it.    *)
Looping ==
  Seq_(<<[kind |-> "loop", id |-> "l", max |-> 2,
          body |-> Par(<<Step("a", {}, "none"), Step("b", {}, "none")>>, TRUE)],
         Step("r", {"l"}, "inherit")>>, "before")

Supervised ==
  [kind |-> "supervisor", id |-> "s", coordinator |-> "none", approval |-> "delegation",
   rounds |-> 2, members |-> <<Step("m", {}, "inherit"), Step("n", {}, "none")>>]

(* register() refuses it: a branch reads its neighbour.                       *)
Forward == Par(<<Step("a", {"b"}, "none"), Step("b", {}, "none")>>, FALSE)

AllTrees == {Branching, Looping, Supervised, Forward}
SupervisedTrees == {Supervised}
=============================================================================
