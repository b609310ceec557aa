---------------------------- MODULE Composition ----------------------------
(* How the kernel walks a composition.  An execution walks the whole tree     *)
(* from its root, each time: what was saved is replayed, what was not happens. *)
(* A walk is a recursive function of the tree whose result is the set of ways *)
(* it may go; the branches of a Parallel have nothing in common but the run,  *)
(* so they are evaluated one after the other.  Agents, leases and cancelling  *)
(* are in AgentRun; here an invocation is one outcome.                        *)
EXTENDS Integers, Sequences, FiniteSets, TLC, FiniteSetsExt, SequencesExt

CONSTANTS Trees,     \* compositions offered to register()
          Default,   \* default_approval of the deployment: "none" or "before"
          MaxWalks,  \* bound: executions of the run
          MaxMemory  \* bound: reviews that change the accepted memories

VARIABLES tree,      \* the composition of the run
          saved,     \* its invocations, reviews and decisions in the store, by path
          run,       \* the status of the run, and why its last walk failed
          memory,    \* which memories are accepted in the namespace of the workflow
          walks

vars == <<tree, saved, run, memory, walks>>

Put(f, key, value) == (key :> value) @@ f

-----------------------------------------------------------------------------
(* validate_composition: the ids a node exports, and whether what it binds is *)
(* available where it stands.                                                 *)
RECURSIVE Exported(_)
Exported(node) ==
  IF node.kind \in {"sequence", "parallel"}
  THEN UNION {Exported(node.children[i]) : i \in DOMAIN node.children}
  ELSE {node.id}

RECURSIVE Valid(_, _)
Valid(node, available) ==
  CASE node.kind = "step" -> node.uses \subseteq available
    [] node.kind = "condition" -> Valid(node.yes, available) /\ Valid(node.no, available)
    [] node.kind = "loop" -> Valid(node.body, available)
    [] node.kind = "supervisor" -> TRUE
    [] OTHER ->
         \A i \in DOMAIN node.children :
           LET before == UNION {Exported(node.children[j]) : j \in 1 .. i - 1}
           IN /\ Exported(node.children[i]) \cap before = {}
              /\ Valid(node.children[i],
                       available \cup IF node.kind = "sequence" THEN before ELSE {})

(* policy.resolve, for the modes that ask before the call.                    *)
Resolved(selected, inherited) ==
  IF selected # "inherit" THEN selected
  ELSE IF inherited # "inherit" THEN inherited
  ELSE Default

-----------------------------------------------------------------------------
(* A way a walk may go: "ok" with a value, an exception ("failed" with its    *)
(* type, "waiting", "unclear"), or "dead": the process is gone.               *)
Went(st, kind, value, outs) == [st |-> st, kind |-> kind, value |-> value, outs |-> outs]
Raised(st, kind, why) == {Went(st, kind, why, <<>>)}

(* A walk met another input than the one saved: history, not in the store.    *)
Changed(st) == [st EXCEPT !.changed = TRUE]

(* _approval: the payload is what was submitted to the reviewer, or Conflict. *)
(* Ask gives {} when the review lets the caller go on.                        *)
Ask(st, path, payload) ==
  IF path \notin DOMAIN st.reviews
  THEN Raised([st EXCEPT !.reviews = Put(@, path, [payload |-> payload, state |-> "pending"])],
              "waiting", "review")
  ELSE LET review == st.reviews[path]
       IN IF review.payload # payload THEN Raised(Changed(st), "failed", "changed")
          ELSE IF review.state = "rejected" THEN Raised(st, "failed", "rejected")
          ELSE IF review.state = "pending" THEN Raised(st, "waiting", "review")
          ELSE {}

(* The attempt itself, the record saved after each of its steps.              *)
Attempt(st, path, input, values) ==
  LET Saved(status, value) ==
        [st EXCEPT !.steps = Put(@, path, [input |-> input, status |-> status, value |-> value])]
  IN {Went(Saved("succeeded", v), "ok", v, <<>>) : v \in values}
     \cup Raised(Saved("failed", "none"), "failed", "error")
     \cup Raised(Saved("uncertain", "none"), "unclear", "handler")
     \cup Raised(Saved("running", "none"), "dead", "crash")
     \cup Raised(st, "dead", "crash")

(* _step: the record is compared with what the walk would pass now before it  *)
(* is read, also the record of an invocation that has succeeded.              *)
Stepped(st, path, approval, input, values) ==
  IF path \in DOMAIN st.steps
  THEN LET record == st.steps[path]
       IN IF record.input # input THEN Raised(Changed(st), "failed", "changed")
          ELSE CASE record.status \in {"succeeded", "output_ready"} ->
                      {Went([st EXCEPT !.steps[path].status = "succeeded"], "ok", record.value, <<>>)}
                 [] record.status = "failed" -> Raised(st, "failed", "again")
                 [] record.status = "pending" -> Attempt(st, path, input, values)
                 [] OTHER -> Raised(st, "unclear", "record")
  ELSE LET asked == IF approval = "before" THEN Ask(st, path, input) ELSE {}
       IN IF asked # {} THEN asked ELSE Attempt(st, path, input, values)

(* A decision of the engineer's predicate is saved before it is acted on.     *)
Decided(st, path) ==
  IF path \in DOMAIN st.decisions
  THEN {[st |-> st, yes |-> st.decisions[path]]}
  ELSE {[st |-> [st EXCEPT !.decisions = Put(@, path, b)], yes |-> b] : b \in BOOLEAN}

(* Mutant: the first exception of the branches is raised.                     *)
Concluded_in_order(partial, st, results, outs) ==
  LET bad == SelectSeq(results, LAMBDA r : r.kind # "ok")
  IN IF bad # <<>> /\ ~partial
     THEN Raised(st, Head(bad).kind, Head(bad).value)
     ELSE {Went(st, "ok", "partial", outs)}

(* The end of a Parallel: a branch that waits or is unclear goes before any   *)
(* that failed, the first of them in the order of the branches.               *)
Concluded(partial, st, results, outs) ==
  LET Of(kinds) == SelectSeq(results, LAMBDA r : r.kind \in kinds)
      failed == Of({"failed"})
      ok == Of({"ok"})
  IN IF Of({"dead"}) # <<>> THEN Raised(st, "dead", "crash")
     ELSE IF Of({"waiting", "unclear"}) # <<>>
     THEN Raised(st, Of({"waiting", "unclear"})[1].kind, "branch")
     ELSE IF failed # <<>> /\ ~partial THEN Raised(st, "failed", failed[1].value)
     ELSE {Went(st, "ok",
                [results |-> [i \in DOMAIN ok |-> ok[i].value],
                 errors |-> [i \in DOMAIN failed |-> failed[i].value]],
                FoldLeft(LAMBDA merged, r : r.outs @@ merged, outs, ok))}

(* _walk.  path names the node, inherited is the approval of the composition  *)
(* around it, outs the outputs it sees.                                       *)
RECURSIVE Walk(_, _, _, _, _, _), InOrder(_, _, _, _, _, _, _), Branches(_, _, _, _, _, _, _),
          Iterate(_, _, _, _, _, _, _), Supervise(_, _, _, _, _, _)

Exporting(ways, id, outs) ==
  {IF w.kind = "ok" THEN [w EXCEPT !.outs = Put(outs, id, w.value)] ELSE w : w \in ways}

Walk(node, path, inherited, inputs, outs, st) ==
  CASE node.kind = "step" ->
         LET input == [u \in node.uses \cup {"input"} |-> IF u = "input" THEN inputs ELSE outs[u]]
         IN Exporting(Stepped(st, Append(path, node.id), Resolved(node.approval, inherited),
                              input, {"done"}), node.id, outs)
    [] node.kind = "sequence" ->
         InOrder(node, path, IF node.approval = "inherit" THEN inherited ELSE node.approval,
                 inputs, outs, Went(st, "ok", inputs, outs), 1)
    [] node.kind = "parallel" ->
         UNION {Concluded(node.partial, b.st, b.results, outs) :
                  b \in Branches(node, path,
                                 IF node.approval = "inherit" THEN inherited ELSE node.approval,
                                 inputs, outs, [st |-> st, results |-> <<>>], 1)}
    [] node.kind = "condition" ->
         Exporting(UNION {Walk(IF d.yes THEN node.yes ELSE node.no, Append(path, node.id),
                               inherited, inputs, outs, d.st)
                            : d \in Decided(st, Append(path, node.id))}, node.id, outs)
    [] node.kind = "loop" ->
         Exporting(Iterate(node, path, inherited, inputs, outs, st, 1), node.id, outs)
    [] OTHER ->
         Exporting(Supervise(node, Append(path, node.id), inputs, <<>>, st, 1), node.id, outs)

InOrder(node, path, inherited, inputs, outs, so_far, i) ==
  IF so_far.kind # "ok" \/ i > Len(node.children) THEN {so_far}
  ELSE UNION {InOrder(node, path, inherited, inputs, outs, w, i + 1) :
                w \in Walk(node.children[i], Append(path, ToString(i)), inherited, inputs,
                           so_far.outs, so_far.st)}

Branches(node, path, inherited, inputs, outs, so_far, i) ==
  IF i > Len(node.children) THEN {so_far}
  ELSE UNION {Branches(node, path, inherited, inputs, outs,
                       [st |-> w.st, results |-> Append(so_far.results, w)], i + 1) :
                w \in Walk(node.children[i], Append(path, ToString(i)), inherited, inputs,
                           outs, so_far.st)}

Iterate(node, path, inherited, value, outs, st, i) ==
  LET here == path \o <<node.id, ToString(i)>>
  IN IF i > node.max THEN Raised(st, "failed", "budget")
     ELSE UNION {
       IF w.kind # "ok" THEN {w}
       ELSE UNION {IF d.yes THEN {[w EXCEPT !.st = d.st]}
                   ELSE Iterate(node, path, inherited, w.value, outs, d.st, i + 1)
                     : d \in Decided(w.st, here)}
         : w \in Walk(node.body, here, inherited, value, outs, st)}

(* _supervise: the coordinator sees the accepted memories of the moment, and  *)
(* neither it nor a member is told what the compositions around it require.   *)
Supervise(node, path, goal, history, st, i) ==
  IF i > node.rounds THEN Raised(st, "failed", "budget")
  ELSE UNION {
    IF d.kind # "ok" \/ d.value = "finish" THEN {d}
    ELSE IF d.value = "empty" THEN Raised(d.st, "failed", "decision")
    ELSE LET asked == IF node.approval = "none" THEN {}
                      ELSE Ask(d.st, path \o <<"dispatch", ToString(i)>>, d.value)
             calls == [kind |-> "parallel", approval |-> "inherit", partial |-> FALSE,
                       children |-> node.members]
         IN IF asked # {} THEN asked
            ELSE IF d.value = "stray" THEN Raised(d.st, "failed", "member")
            ELSE UNION {IF w.kind # "ok" THEN {w}
                        ELSE Supervise(node, path, goal, Append(history, w.value), w.st, i + 1)
                   : w \in Walk(calls, path \o <<"round", ToString(i)>>, "inherit", goal,
                                <<>>, d.st)}
      : d \in Stepped(st, path \o <<"decision", ToString(i)>>,
                      Resolved(node.coordinator, "inherit"),
                      [goal |-> goal, history |-> history, memory |-> memory],
                      {"finish", "delegate", "empty", "stray"})}

-----------------------------------------------------------------------------
Nothing == [steps |-> <<>>, reviews |-> <<>>, decisions |-> <<>>, changed |-> FALSE]

Init == /\ tree \in {t \in Trees : Valid(t, {})}
        /\ saved = Nothing
        /\ run = [status |-> "queued", why |-> "none"]
        /\ memory = 0
        /\ walks = 0

(* execute: one walk, and the status the run gets from how it went.           *)
Execute ==
  /\ walks < MaxWalks
  /\ run.status \notin {"succeeded", "failed"}
  /\ \E w \in Walk(tree, <<>>, "inherit", "in", <<>>, saved) :
       /\ saved' = w.st
       /\ run' = CASE w.kind = "ok"      -> [status |-> "succeeded", why |-> "none"]
                   [] w.kind = "failed"  -> [status |-> "failed", why |-> w.value]
                   [] w.kind = "waiting" -> [status |-> "waiting", why |-> "none"]
                   [] w.kind = "unclear" -> [status |-> "uncertain", why |-> "none"]
                   [] OTHER              -> [status |-> "running", why |-> "none"]
  /\ walks' = walks + 1
  /\ UNCHANGED <<tree, memory>>

Decide(path) ==
  /\ saved.reviews[path].state = "pending"
  /\ \E verdict \in {"approved", "rejected"} :
       saved' = [saved EXCEPT !.reviews[path].state = verdict]
  /\ UNCHANGED <<tree, run, memory, walks>>

(* reconcile, with the output an operator found, or to try again.             *)
Reconcile(path) ==
  /\ saved.steps[path].status \in {"running", "uncertain", "failed"}
  /\ \/ saved' = [saved EXCEPT !.steps[path].status = "output_ready",
                               !.steps[path].value = "done"]
     \/ saved' = [saved EXCEPT !.steps[path].status = "pending"]
  /\ run' = [status |-> "queued", why |-> "none"]
  /\ UNCHANGED <<tree, memory, walks>>

(* A memory of the workflow is accepted, rejected or expires.                 *)
MemoryChanges ==
  /\ memory < MaxMemory
  /\ memory' = memory + 1
  /\ UNCHANGED <<tree, saved, run, walks>>

Next == \/ Execute \/ MemoryChanges
        \/ \E path \in DOMAIN saved.reviews : Decide(path)
        \/ \E path \in DOMAIN saved.steps : Reconcile(path)

Spec == Init /\ [][Next]_vars

-----------------------------------------------------------------------------
(* However the branches of a composition end, together and again after        *)
(* reviews, deaths and reconciliations, the walk that ends the run leaves no  *)
(* invocation unclear and no review open behind, as long as a walk passes     *)
(* every invocation what the walks before it passed.                          *)
EndsSettled ==
  run.status \in {"succeeded", "failed"} /\ ~saved.changed =>
    /\ \A p \in DOMAIN saved.steps : saved.steps[p].status \notin {"running", "uncertain"}
    /\ \A p \in DOMAIN saved.reviews : saved.reviews[p].state # "pending"

(* A node that has finished is read from what was saved when the run goes on  *)
(* ("完成节点只读取持久输出"), so no walk is refused for another input than before. *)
FinishedIsRead == ~saved.changed
=============================================================================
