---------------------------- MODULE MCCapacity ----------------------------
(* One invocation whose handler makes two requests at once, and another run   *)
(* of the same process; one permit and one slot of each kind.                 *)
EXTENDS Capacity

MCParent == [x \in Requests |-> "p"]
MCRunOf == [x \in Callers \cup Requests |-> IF x = "o" THEN "B" ELSE "A"]
MCLimit == [A |-> 1, B |-> 1, tenant |-> 1, global |-> 1]
=============================================================================
