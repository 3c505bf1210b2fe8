------------------------------- MODULE Server -------------------------------
(***************************************************************************)
(* The server's operations on one session: the tasks of TaskQueue, whose   *)
(* fn runs a Start, a Stop or a restart of Ec2Session                      *)
(* (src/src/server/handlers.go:737-810).                                   *)
(*                                                                         *)
(* Ec2Session is about one AWS name in one zone.  Home is the entry of     *)
(* instances.json that has them, alone; tasks of the other entries work on *)
(* resources of other names or zones (src/src/config/instances.go:20-24).  *)
(* The command line, which takes no lock, is not part of this.             *)
(***************************************************************************)
EXTENDS Ec2Session, Sequences

CONSTANTS Sessions,  \* session ids of instances.json
          Home,      \* the one with this AWS name and zone
          MaxTasks, NoTask, NoSession

ASSUME HomeAssumption == Home \in Sessions
ASSUME QueueAssumption ==
    MaxTasks \in Nat /\ NoTask \notin Procs /\ NoSession \notin Sessions

VARIABLES tasks, order, active, session, status, pc, failed

queue == <<tasks, order, active, session, status, pc, failed>>
serverVars == <<vars, queue>>

\* A task and its goroutine are the process that runs the operation.
Queue == INSTANCE TaskQueue WITH TaskIDs <- Procs

ServerInit == Init /\ Queue!Init

----------------------------------------------------------------------------

\* Submissions, the go statement, and both parts of finish.
Submit(t) == /\ \E s \in Sessions : Queue!Create(t, s)
             /\ UNCHANGED vars

Turn(t) == /\ Queue!Run(t) \/ Queue!FinishRelease(t) \/ Queue!FinishStatus(t)
           /\ UNCHANGED vars

\* Run's goroutine enters fn: the operation the handler has chosen, or that of
\* another session on other resources.
EnterFn(t) == /\ Queue!SetRunning(t)
              /\ IF session[t] = Home
                 THEN BeginStart(t) \/ BeginStop(t) \/ BeginRestart(t)
                 ELSE UNCHANGED vars

\* A call of the operation, or its failure.
Operate(t) == /\ OpStep(t) \/ Interrupted(t)
              /\ UNCHANGED queue

\* fn comes back when its operation has, with what that came to.
LeaveFn(t) == /\ Queue!FnReturns(t)
              /\ session[t] = Home => /\ At(t, "idle")
                                      /\ failed'[t] = (op[t].result = "error")
              /\ UNCHANGED vars

Aws == AwsStep /\ UNCHANGED queue

\* The process is killed and started again: what AWS was asked for stands.
Restart == /\ Queue!Restart
           /\ op' = [t \in Procs |-> IF At(t, "idle") THEN op[t]
                                     ELSE [Idle EXCEPT !.result = "error"]]
           /\ UNCHANGED aws

ServerNext ==
    \/ \E t \in Procs : \/ Submit(t) \/ Turn(t)
                        \/ EnterFn(t) \/ Operate(t) \/ LeaveFn(t)
    \/ Aws
    \/ Restart

ServerSpec == ServerInit /\ [][ServerNext]_serverVars

----------------------------------------------------------------------------
(* Properties                                                              *)

\* An operation runs inside its own task's fn.
InsideFn ==
    \A t \in Procs : ~At(t, "idle") => pc[t] = "operating" /\ session[t] = Home

\* No two operations of the session are ever under way together.
OneActive ==
    \A t, u \in Procs : ~At(t, "idle") /\ ~At(u, "idle") => t = u
=============================================================================
