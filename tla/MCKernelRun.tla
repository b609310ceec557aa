---------------------------- MODULE MCKernelRun ----------------------------
(* A run of one reviewed step implements the contract of KernelRun.        *)
EXTENDS AgentRun, TLC

OneStep == {1}

(* How a client of the kernel sees the run.                                *)
Phase(status) ==
    CASE status \in {"none", "pending"} -> "new"
      [] status = "running" -> "running"
      [] status \in {"failed", "uncertain"} -> "broken"
      [] status = "output_ready" -> "ready"
      [] status = "succeeded" -> "committed"

View ==
    LET a == appr[1]["after"] IN
    [status |-> run.status,
     active |-> \E p \in Procs : Executing(p),
     cancel |-> run.cancel,
     step |-> Phase(inv[1].status),
     value |-> inv[1].out,
     gated |-> 1 \in AfterGated,
     review |-> a.state,
     late |-> a.late,
     verdict |-> a.effective]

Contract == INSTANCE KernelRun WITH
    Values <- Outputs, NoValue <- NoOutput, Contended <- Cardinality(Procs) > 1,
    r <- View

(* Whatever workers, commands, crashes, retries and reconciliations do to  *)
(* a run, its clients see a behaviour of the contract: it is executed by   *)
(* one process at a time, ends with a status the ledger justifies and      *)
(* commits what the reviewer let through.                                  *)
ImplementsContract == Contract!Spec

=============================================================================
