---------------------------- MODULE SessionLock ----------------------------
(***************************************************************************)
(* What the task queue promises to the operations it runs: for each        *)
(* session, one operation at a time.  An operation may start only when no  *)
(* operation of the same session is still in flight, and each operation    *)
(* runs at most once in the life of the process.                           *)
(*                                                                         *)
(* (src/src/tasks/manager.go:1-3: "A per-session lock prevents concurrent  *)
(* destructive ops.")                                                      *)
(***************************************************************************)
CONSTANTS Ops,       \* identities of the operations that may be submitted
          Sessions   \* the EC2 sessions (one instance, volume and ENI each)

VARIABLES running,   \* running[s]: the operations of session s in flight
          ended      \* operations that no longer hold their session

lockVars == <<running, ended>>

Init == /\ running = [s \in Sessions |-> {}]
        /\ ended = {}

Acquire(s, op) ==
    /\ running[s] = {}
    /\ op \notin ended
    /\ \A r \in Sessions : op \notin running[r]
    /\ running' = [running EXCEPT ![s] = {op}]
    /\ UNCHANGED ended

Release(s, op) ==
    /\ op \in running[s]
    /\ running' = [running EXCEPT ![s] = @ \ {op}]
    /\ ended' = ended \cup {op}

\* The process dies: every operation dies with it and its table is empty.
Reset == running' = [s \in Sessions |-> {}] /\ ended' = {}

Next == \/ \E s \in Sessions, op \in Ops : Acquire(s, op) \/ Release(s, op)
        \/ Reset

Spec == Init /\ [][Next]_lockVars
=============================================================================
