----------------------------- MODULE TaskQueue -----------------------------
(***************************************************************************)
(* The server's in-memory task queue (src/src/tasks/manager.go) together   *)
(* with the submitters that feed it (src/src/server/handlers.go:739-810).  *)
(*                                                                         *)
(* Each critical section of Manager.mu, and each of a Task's own mutex, is *)
(* one step; the goroutine of Run and the submitting handler interleave    *)
(* between them.  A task object outlives its removal from the registry, so *)
(* status, session and pc stay after eviction.                             *)
(***************************************************************************)
EXTENDS Naturals, Sequences

CONSTANTS TaskIDs,   \* identities newTaskID may draw
          Sessions,  \* session ids of instances.json
          MaxTasks,  \* Manager.maxTasks
          NoTask,    \* "no entry" in the active map
          NoSession  \* the session of a task that does not exist

ASSUME MaxTasksAssumption == MaxTasks \in Nat
ASSUME NoTaskAssumption == NoTask \notin TaskIDs
ASSUME NoSessionAssumption == NoSession \notin Sessions

VARIABLES tasks,    \* keys of Manager.tasks
          order,    \* Manager.order, oldest first
          active,   \* Manager.active
          session,  \* Task.SessionID
          status,   \* Task.status, "none" before creation
          pc,       \* where the task's submitter or goroutine is
          failed    \* whether fn returned an error

vars == <<tasks, order, active, session, status, pc, failed>>

DoneStatus == {"completed", "failed"}
Statuses == {"none", "pending", "running"} \cup DoneStatus

\* submitted: Create has returned to the handler; spawned: the goroutine
\* exists; operating: inside fn; returned: fn is over, finish not begun;
\* released: finish is between its two critical sections; exited: it is done.
PCs == {"none", "submitted", "spawned", "operating", "returned",
        "released", "exited"}

\* The task still owns its session: its operation has not been given up.
InFlight == {"submitted", "spawned", "operating", "returned"}

TypeOK ==
    /\ tasks \subseteq TaskIDs
    /\ order \in Seq(TaskIDs)
    /\ active \in [Sessions -> TaskIDs \cup {NoTask}]
    /\ session \in [TaskIDs -> Sessions \cup {NoSession}]
    /\ status \in [TaskIDs -> Statuses]
    /\ pc \in [TaskIDs -> PCs]
    /\ failed \in [TaskIDs -> BOOLEAN]

Init ==
    /\ tasks = {}
    /\ order = <<>>
    /\ active = [s \in Sessions |-> NoTask]
    /\ session = [t \in TaskIDs |-> NoSession]
    /\ status = [t \in TaskIDs |-> "none"]
    /\ pc = [t \in TaskIDs |-> "none"]
    /\ failed = [t \in TaskIDs |-> FALSE]

----------------------------------------------------------------------------

IsDone(t) == status[t] \in DoneStatus

\* The lock check at the head of Create, and a variant that forgets that a
\* pending task holds its session too.
LockedByRunning(s) == active[s] \in tasks /\ status[active[s]] = "running"

Locked(s) == active[s] \in tasks /\ ~IsDone(active[s])

\* Variants of evict: without the check for a live head, passing over the head
\* to the next task, and without the delete from the map.
EvictLive(q, reg, st) ==
    LET k == IF Len(q) > MaxTasks THEN Len(q) - MaxTasks ELSE 0 IN
    /\ order' = SubSeq(q, k + 1, Len(q))
    /\ tasks' = reg \ {q[j] : j \in 1..k}

EvictBehindHead(q, reg, st) ==
    LET drop == Len(q) > MaxTasks /\ st[q[2]] \in DoneStatus IN
    /\ order' = IF drop THEN <<q[1]>> \o Tail(Tail(q)) ELSE q
    /\ tasks' = IF drop THEN reg \ {q[2]} ELSE reg

EvictOrderOnly(q, reg, st) ==
    LET drop == Len(q) > MaxTasks /\ st[q[1]] \in DoneStatus IN
    /\ order' = IF drop THEN Tail(q) ELSE q
    /\ tasks' = reg

\* evict's loop, for the queue q and the registry reg: it drops k heads and
\* stops when the queue fits or its head is a registered task still running.
Evict(q, reg, st) ==
    LET Held(t) == t \in reg /\ st[t] \notin DoneStatus IN
    \E k \in 0..Len(q) :
        /\ \A j \in 1..k : ~Held(q[j])
        /\ k > 0 => Len(q) - k >= MaxTasks
        /\ Len(q) - k > MaxTasks => Held(q[k + 1])
        /\ order' = SubSeq(q, k + 1, Len(q))
        /\ tasks' = reg \ {q[j] : j \in 1..k}

----------------------------------------------------------------------------
(* Steps of the submitting handler.                                        *)

Create(t, s) ==
    /\ pc[t] = "none"                      \* newTaskID draws a fresh id
    /\ ~Locked(s)
    /\ session' = [session EXCEPT ![t] = s]
    /\ status' = [status EXCEPT ![t] = "pending"]
    /\ active' = [active EXCEPT ![s] = t]
    /\ pc' = [pc EXCEPT ![t] = "submitted"]
    /\ Evict(Append(order, t), tasks \cup {t}, status')
    /\ UNCHANGED failed

\* The go statement of Run.
Run(t) ==
    /\ pc[t] = "submitted"
    /\ pc' = [pc EXCEPT ![t] = "spawned"]
    /\ UNCHANGED <<tasks, order, active, session, status, failed>>

----------------------------------------------------------------------------
(* Steps of the task's goroutine.                                          *)

SetRunning(t) ==
    /\ pc[t] = "spawned"
    /\ status' = [status EXCEPT ![t] = "running"]
    /\ pc' = [pc EXCEPT ![t] = "operating"]
    /\ UNCHANGED <<tasks, order, active, session, failed>>

FnReturns(t) ==
    /\ pc[t] = "operating"
    /\ \E err \in BOOLEAN : failed' = [failed EXCEPT ![t] = err]
    /\ pc' = [pc EXCEPT ![t] = "returned"]
    /\ UNCHANGED <<tasks, order, active, session, status>>

\* A variant of finish that leaves the entry of active to a later Create.
FinishKeepsEntry(t) ==
    /\ pc[t] = "returned"
    /\ pc' = [pc EXCEPT ![t] = "released"]
    /\ UNCHANGED <<tasks, order, active, session, status, failed>>

\* finish, under Manager.mu
FinishRelease(t) ==
    /\ pc[t] = "returned"
    /\ active' = IF active[session[t]] = t
                 THEN [active EXCEPT ![session[t]] = NoTask]
                 ELSE active
    /\ pc' = [pc EXCEPT ![t] = "released"]
    /\ UNCHANGED <<tasks, order, session, status, failed>>

\* Variants of the end of finish: only a failure is recorded; the error
\* itself is stored as the status.
FinishOnError(t) ==
    /\ pc[t] = "released"
    /\ status' = IF failed[t] THEN [status EXCEPT ![t] = "failed"] ELSE status
    /\ pc' = [pc EXCEPT ![t] = "exited"]
    /\ UNCHANGED <<tasks, order, active, session, failed>>

FinishWithError(t) ==
    /\ pc[t] = "released"
    /\ status' = [status EXCEPT ![t] = IF failed[t] THEN "error"
                                                    ELSE "completed"]
    /\ pc' = [pc EXCEPT ![t] = "exited"]
    /\ UNCHANGED <<tasks, order, active, session, failed>>

\* finish, under the task's own mutex
FinishStatus(t) ==
    /\ pc[t] = "released"
    /\ status' = [status EXCEPT ![t] = IF failed[t] THEN "failed"
                                                    ELSE "completed"]
    /\ pc' = [pc EXCEPT ![t] = "exited"]
    /\ UNCHANGED <<tasks, order, active, session, failed>>

----------------------------------------------------------------------------

\* The server process is killed and started again: NewManager, and no
\* goroutine survives.
Restart ==
    /\ tasks' = {}
    /\ order' = <<>>
    /\ active' = [s \in Sessions |-> NoTask]
    /\ session' = [t \in TaskIDs |-> NoSession]
    /\ status' = [t \in TaskIDs |-> "none"]
    /\ pc' = [t \in TaskIDs |-> "none"]
    /\ failed' = [t \in TaskIDs |-> FALSE]

TaskStep(t) == \/ Run(t) \/ SetRunning(t) \/ FnReturns(t)
               \/ FinishRelease(t) \/ FinishStatus(t)

Next == \/ \E t \in TaskIDs, s \in Sessions : Create(t, s)
        \/ \E t \in TaskIDs : TaskStep(t)
        \/ Restart

\* A submitted task's handler and goroutine keep running.  For FnReturns this
\* is the bound every waiter of the operations carries (at most fifteen
\* minutes each, src/src/ec2/start.go:17, stop.go:15).
Fairness == \A t \in TaskIDs : WF_vars(TaskStep(t))

Spec == Init /\ [][Next]_vars /\ Fairness

----------------------------------------------------------------------------

\* Two operations of one session are never in flight together: the second
\* Create is refused until the first task's fn has returned (manager.go:94).
SessionExclusive ==
    \A t, u \in TaskIDs :
        /\ pc[t] \in InFlight
        /\ pc[u] \in InFlight
        /\ session[t] = session[u]
        => t = u

\* A task that is not finished can be found by id, whatever eviction removed
\* since it was created.  The UI polls tasks by id, and Create takes an
\* unregistered entry of active for a free session (manager.go:98).
LiveRegistered ==
    \A t \in TaskIDs : status[t] \in {"pending", "running"} => t \in tasks

\* The registry and its order name the same tasks, each once, so that List
\* and Get agree and no entry of the map leaks when its position is evicted.
OrderIsRegistry ==
    /\ {order[i] : i \in DOMAIN order} = tasks
    /\ \A i, j \in DOMAIN order : order[i] = order[j] => i = j

\* The lock table is exact: an entry is held by a task in flight for that
\* session, and a task in flight holds its session's entry.  A leftover entry
\* would refuse every later operation of the session (manager.go:97).
LockExact ==
    /\ \A s \in Sessions : active[s] # NoTask =>
           pc[active[s]] \in InFlight /\ session[active[s]] = s
    /\ \A t \in TaskIDs : pc[t] \in InFlight => active[session[t]] = t

\* Eviction forgets only finished tasks, oldest first, and never one of the
\* MaxTasks newest: whatever a step removes has at least MaxTasks newer tasks
\* still registered (manager.go:166).
EvictsOnlyOld ==
    [][\/ Restart
       \/ \A i \in DOMAIN order :
              order[i] \notin tasks' =>
                  /\ IsDone(order[i])
                  /\ Len(order') >= MaxTasks
                  /\ \A j \in 1..i : order[j] \notin tasks']_vars

\* Every session's lock is handed back, unless the process dies first: the
\* task that holds it gets to its finish.
LockIsReturned ==
    \A t \in TaskIDs, s \in Sessions : active[s] = t ~> active[s] # t

\* Every accepted task reaches a final status, which is what ends a client's
\* stream and the UI's polling.
TaskEnds ==
    \A t \in TaskIDs : status[t] = "pending" ~>
                           status[t] \in DoneStatus \cup {"none"}

\* What the operations rely on, stated by SessionLock: the operations in
\* flight are read off the goroutines, not off the active map.
Running == [s \in Sessions |->
               {t \in TaskIDs : pc[t] \in InFlight /\ session[t] = s}]
Ended == {t \in TaskIDs : pc[t] \in {"released", "exited"}}

Lock == INSTANCE SessionLock WITH
            Ops <- TaskIDs, running <- Running, ended <- Ended

\* The queue implements the per-session lock: a task enters only when no task
\* of its session is in flight, and runs once (manager.go:1-3).
ImplementsLock == Lock!Spec
=============================================================================
