----------------------------- MODULE AgentLoop -----------------------------
(* The engine of an agent's invocation: model calls with a chain of fallback  *)
(* models, tool calls with guardrails, native interrupts and their resumption *)
(* from the checkpoint, retried attempts, and the gate that holds a degraded  *)
(* output back for a reviewer.                                                *)
EXTENDS Guardrails, Sequences

CONSTANTS Chains,         \* fallback chains: whether each fallback may decide alone
          Modes,          \* guardrail modes
          Calls,          \* tool calls a model may ask for
          Forbidden,      \* tools the deployment's policy denies
          InterruptOn,    \* tools that wait for a person's decision
          Attempts,       \* retry.attempts
          MaxModelCalls, MaxToolCalls

VARIABLES setup,     \* of the definition and the deployment
          record,    \* the invocation as it is stored
          context,   \* context.degraded: the fallback marked last, 0 for none
          thread,    \* the graph's checkpoint of the attempt
          at,        \* where the invocation is
          executed   \* history: the calls handed to their tools

vars == <<setup, record, context, thread, at, executed>>

(* answered and entered are histories: the fallbacks that answered in the     *)
(* attempt, and those that did since its handler was last entered.            *)
NewThread == [models |-> 0, tools |-> 0, answered |-> {}, entered |-> {}]
NoCall == [tool |-> "none"]
At(place) == [place |-> place, call |-> NoCall]

(* A deployment and a definition: a flat chain of fallback profiles, a mode   *)
(* of the guardrails, degrade_policy "block" or "allow", a configuration.     *)
Chain == [fallbacks : Chains]
Guarded == [mode : Modes]
Blocking == [block : BOOLEAN]
Setups == {[fallbacks |-> c.fallbacks, mode |-> m.mode, block |-> b.block, profile |-> "p"] :
             c \in Chain, m \in Guarded, b \in Blocking}

Init == /\ setup \in Setups
        /\ record = [attempt |-> 0, snapshot |-> "none", degraded |-> 0, reviewed |-> FALSE]
        /\ context = 0
        /\ thread = NewThread
        /\ at = At("ready")
        /\ executed = {}

(* An exception ends the attempt: there is another one when attempts are left *)
(* and it is of a kind that is retried.                                       *)
Fails(attempt) == at' \in {At("failed")} \cup (IF attempt < Attempts THEN {At("ready")} ELSE {})
Failed == Fails(record.attempt)

(* The snapshot of a model configuration is kept with the invocation; invoke  *)
(* refuses to go on under another one.                                        *)
snapshot == setup.profile
Unchanged == record.snapshot \in {"none", snapshot}

(* Models, toolkits and the graph are built anew, under a new context; what   *)
(* is missing for them, a credential or a server, fails the attempt.          *)
Enter(place, attempt) ==
  /\ context' = 0
  /\ (Unchanged /\ at' = place) \/ Fails(attempt)

Start ==
  /\ at.place = "ready"
  /\ record' = [record EXCEPT !.attempt = @ + 1, !.snapshot = IF Unchanged THEN snapshot ELSE @]
  /\ thread' = NewThread
  /\ Enter(At("model"), record.attempt + 1)
  /\ UNCHANGED <<setup, executed>>

(* Mutant: a primary that recovers takes the mark back.                       *)
mark_recovered(a) == context' = a

(* The fallback that answered is marked; an answer of the primary leaves the  *)
(* mark as it is.                                                             *)
mark(a) == context' = IF a = 0 THEN context ELSE a

(* What the graph goes on with: a tool that was asked for, after a person's   *)
(* decision where one is due, or its final message.                           *)
Answers == {[place |-> IF c.tool \in InterruptOn THEN "asking" ELSE "tool", call |-> c] : c \in Calls}
           \cup {At("output")}

(* The primary (0) or, one after the other, the fallbacks; an answer may hold *)
(* nothing the agent can return.                                              *)
ModelAnswers(a) ==
  /\ at.place = "model" /\ thread.models < MaxModelCalls
  /\ mark(a)
  /\ thread' = [thread EXCEPT !.models = @ + 1,
                              !.answered = IF a = 0 THEN @ ELSE @ \cup {a},
                              !.entered = IF a = 0 THEN @ ELSE @ \cup {a}]
  /\ at' \in Answers \/ Failed
  /\ UNCHANGED <<setup, record, executed>>

(* All models of the chain failed, or the limit of calls is used up.          *)
ModelFails ==
  /\ at.place = "model"
  /\ Failed
  /\ UNCHANGED <<setup, record, context, thread, executed>>

(* The graph stops for a person: the invocation waits, or fails where the     *)
(* deployment prohibits interrupts.                                           *)
Interrupt ==
  /\ at.place = "asking"
  /\ at' = [at EXCEPT !.place = "interrupted"] \/ Failed
  /\ UNCHANGED <<setup, record, context, thread, executed>>

(* Another process, started since with another model configuration.           *)
Reconfigure ==
  /\ at.place = "interrupted"
  /\ setup' = [setup EXCEPT !.profile = "q"]
  /\ UNCHANGED <<record, context, thread, at, executed>>

(* The reviewer's decision resumes the attempt's checkpoint under a context   *)
(* of its own: the call goes on as it was or edited, or the model is told of  *)
(* the refusal.                                                               *)
Resume ==
  /\ at.place = "interrupted"
  /\ thread' = [thread EXCEPT !.entered = {}]
  /\ \/ \E c \in {c \in Calls : c.tool = at.call.tool} : Enter([place |-> "tool", call |-> c], record.attempt)
     \/ Enter(At("model"), record.attempt)
  /\ UNCHANGED <<setup, record, executed>>

(* The review itself is rejected or expires.                                  *)
Dismiss ==
  /\ at.place = "interrupted"
  /\ at' = At("failed")
  /\ UNCHANGED <<setup, record, context, thread, executed>>

(* Mutant: a call that was reviewed is not held against the rules again.      *)
ToolRejected_trusting(c) == c.tool \notin InterruptOn /\ rejected(setup.mode, c)

ToolRejected(c) == rejected(setup.mode, c)

(* The audit asks the policy, the guardrails look at the arguments; a refused *)
(* call is answered to the model in the tool's place.                         *)
CallTool ==
  LET c == at.call IN
  /\ at.place = "tool"
  /\ c.tool \notin Forbidden /\ thread.tools < MaxToolCalls
  /\ thread' = [thread EXCEPT !.tools = @ + 1]
  /\ IF ToolRejected(c)
     THEN at' = At("model") /\ UNCHANGED executed
     ELSE executed' = executed \cup {c} /\ (at' = At("model") \/ Failed)
  /\ UNCHANGED <<setup, record, context>>

ToolRefused ==
  /\ at.place = "tool"
  /\ at.call.tool \in Forbidden \/ thread.tools >= MaxToolCalls
  /\ Failed
  /\ UNCHANGED <<setup, record, context, thread, executed>>

(* The degrade gate looks at the mark the attempt ended with.                 *)
degrade_gate == setup.block /\ context # 0 /\ ~setup.fallbacks[context]

Ends ==
  /\ at.place = "output"
  /\ record' = [record EXCEPT !.degraded = context]
  /\ at' = At(IF degrade_gate THEN "review" ELSE "succeeded")
  /\ UNCHANGED <<setup, context, thread, executed>>

Reviewed ==
  /\ at.place = "review"
  /\ \/ record' = [record EXCEPT !.reviewed = TRUE] /\ at' = At("succeeded")
     \/ UNCHANGED record /\ at' = At("failed")
  /\ UNCHANGED <<setup, context, thread, executed>>

Next == \/ Start
        \/ \E a \in 0 .. Len(setup.fallbacks) : ModelAnswers(a)
        \/ ModelFails \/ Interrupt \/ Reconfigure \/ Resume \/ Dismiss
        \/ CallTool \/ ToolRefused \/ Ends \/ Reviewed

Spec == Init /\ [][Next]_vars

-----------------------------------------------------------------------------
Weak(answers) == \A a \in answers : ~setup.fallbacks[a]

(* A fallback's answer stays on the record of the invocation, though the      *)
(* primary recovers before the attempt ends: since its handler was entered    *)
(* for the last time, a fallback that answered is noted, and when none of     *)
(* those that did may decide, no result is committed past a reviewer.         *)
DegradedIsNoted ==
  at.place = "succeeded" /\ thread.entered # {} =>
    /\ record.degraded \in thread.entered
    /\ setup.block /\ Weak(thread.entered) => record.reviewed

(* In mode "fail" a tool only ever sees arguments it may rely on, a person's  *)
(* edits of a call included.                                                  *)
OnlyReliableCallsRun == setup.mode = "fail" => \A c \in executed : reliable(c)

(* MODEL-04: the result of an attempt in which a model answered that may not  *)
(* decide alone is handed to a person (degrade_policy "block").  A second     *)
(* fallback that may decide overwrites the mark of the first, and the         *)
(* resumption of an interrupted attempt starts without the mark.              *)
WeakIsReviewed ==
  at.place = "succeeded" /\ setup.block /\ (\E a \in thread.answered : ~setup.fallbacks[a])
    => record.reviewed
=============================================================================
