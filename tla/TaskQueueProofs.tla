-------------------------- MODULE TaskQueueProofs --------------------------
(***************************************************************************)
(* Proofs about the task queue, for every set of tasks and sessions and    *)
(* every history length.                                                   *)
(*                                                                         *)
(* The argument: LockExact is inductive once it is joined with the shape   *)
(* of a task's life (Life) and with LiveRegistered, which eviction keeps   *)
(* because it drops only finished heads.  A session's entry of active then *)
(* always names the one task in flight for it, so Create's check refuses   *)
(* exactly when a task is in flight.                                       *)
(***************************************************************************)
EXTENDS TaskQueue, TLAPS

\* What a task's program counter says about its other fields.
Life ==
    \A t \in TaskIDs :
        /\ pc[t] \in {"submitted", "spawned"} => status[t] = "pending"
        /\ pc[t] \in {"operating", "returned", "released"} =>
               status[t] = "running"
        /\ pc[t] = "none" => status[t] = "none"
        /\ pc[t] = "exited" => status[t] \in DoneStatus
        /\ pc[t] # "none" => session[t] \in Sessions

IInv == TypeOK /\ Life /\ LiveRegistered /\ LockExact

----------------------------------------------------------------------------
(* Types                                                                   *)

\* evict returns a queue and a registry of task ids.
LEMMA EvictType ==
    ASSUME NEW q \in Seq(TaskIDs), NEW reg \in SUBSET TaskIDs, NEW st,
           Evict(q, reg, st)
    PROVE  order' \in Seq(TaskIDs) /\ tasks' \subseteq TaskIDs
<1>1. PICK k \in 0..Len(q) : /\ order' = SubSeq(q, k + 1, Len(q))
                             /\ tasks' = reg \ {q[j] : j \in 1..k}
  BY DEF Evict
<1>2. QED
  BY <1>1

\* Every step keeps the types.
LEMMA TypeCorrectStep == TypeOK /\ [Next]_vars => TypeOK'
<1> SUFFICES ASSUME TypeOK, [Next]_vars PROVE TypeOK'
  OBVIOUS
<1> USE DEF TypeOK, Statuses, DoneStatus, PCs
<1>1. ASSUME NEW t \in TaskIDs, NEW s \in Sessions, Create(t, s)
      PROVE  TypeOK'
  <2>1. Append(order, t) \in Seq(TaskIDs) /\ tasks \cup {t} \in SUBSET TaskIDs
    OBVIOUS
  <2>2. order' \in Seq(TaskIDs) /\ tasks' \subseteq TaskIDs
    BY <1>1, <2>1, EvictType DEF Create
  <2>3. QED
    BY <1>1, <2>2 DEF Create
<1>2. ASSUME NEW t \in TaskIDs, TaskStep(t) PROVE TypeOK'
  <2>1. CASE Run(t)
    BY <2>1 DEF Run
  <2>2. CASE SetRunning(t)
    BY <2>2 DEF SetRunning
  <2>3. CASE FnReturns(t)
    BY <2>3 DEF FnReturns
  <2>4. CASE FinishRelease(t)
    BY <2>4 DEF FinishRelease
  <2>5. CASE FinishStatus(t)
    BY <2>5 DEF FinishStatus
  <2>6. QED
    BY <1>2, <2>1, <2>2, <2>3, <2>4, <2>5 DEF TaskStep
<1>3. CASE Restart
  BY <1>3 DEF Restart
<1>4. CASE UNCHANGED vars
  BY <1>4 DEF vars
<1>5. QED
  BY <1>1, <1>2, <1>3, <1>4 DEF Next

\* Every variable keeps its type, whatever the history length.
THEOREM TypeCorrect == Spec => []TypeOK
<1>1. Init => TypeOK
  BY DEF Init, TypeOK, Statuses, PCs
<1>2. QED
  BY <1>1, TypeCorrectStep, PTL DEF Spec

----------------------------------------------------------------------------
(* The inductive invariant                                                 *)

\* Eviction removes no task that is registered and not done.
LEMMA EvictKeepsLive ==
    ASSUME NEW q \in Seq(TaskIDs), NEW reg \in SUBSET TaskIDs, NEW st,
           Evict(q, reg, st),
           NEW u \in reg, st[u] \notin DoneStatus
    PROVE  u \in tasks'
<1>1. PICK k \in 0..Len(q) :
          /\ \A j \in 1..k : ~(q[j] \in reg /\ st[q[j]] \notin DoneStatus)
          /\ tasks' = reg \ {q[j] : j \in 1..k}
  BY DEF Evict
<1>2. QED
  BY <1>1

\* The invariant holds of a process that begins.
LEMMA InitIInv == Init => IInv
<1> SUFFICES ASSUME Init PROVE IInv
  OBVIOUS
<1>1. TypeOK
  BY DEF Init, TypeOK, Statuses, PCs
<1>2. Life
  BY DEF Init, Life
<1>3. LiveRegistered
  BY DEF Init, LiveRegistered
<1>4. LockExact
  BY DEF Init, LockExact, InFlight
<1>5. QED
  BY <1>1, <1>2, <1>3, <1>4 DEF IInv

\* Under the invariant Create's check says exactly whether the session has
\* a task in flight.
LEMMA LockedIsInFlight ==
    ASSUME IInv, NEW s \in Sessions, ~Locked(s)
    PROVE  /\ active[s] = NoTask
           /\ \A u \in TaskIDs : session[u] = s => pc[u] \notin InFlight
<1>1. ASSUME active[s] # NoTask PROVE FALSE
  <2>1. active[s] \in TaskIDs
    BY <1>1 DEF IInv, TypeOK
  <2>2. pc[active[s]] \in InFlight
    BY <1>1 DEF IInv, LockExact
  <2>3. status[active[s]] \in {"pending", "running"}
    BY <2>1, <2>2 DEF IInv, Life, InFlight
  <2>4. active[s] \in tasks
    BY <2>1, <2>3 DEF IInv, LiveRegistered
  <2>5. QED
    BY <2>3, <2>4 DEF Locked, IsDone, DoneStatus
<1>2. ASSUME NEW u \in TaskIDs, session[u] = s, pc[u] \in InFlight
      PROVE  FALSE
  BY <1>1, <1>2, NoTaskAssumption DEF IInv, LockExact
<1>3. QED
  BY <1>1, <1>2

\* Create keeps the invariant, with or without evictions.
LEMMA CreateIInv ==
    ASSUME IInv, NEW t \in TaskIDs, NEW s \in Sessions, Create(t, s)
    PROVE  Life' /\ LiveRegistered' /\ LockExact'
<1>1. /\ pc[t] = "none"
      /\ session' = [session EXCEPT ![t] = s]
      /\ status' = [status EXCEPT ![t] = "pending"]
      /\ active' = [active EXCEPT ![s] = t]
      /\ pc' = [pc EXCEPT ![t] = "submitted"]
      /\ Evict(Append(order, t), tasks \cup {t}, status')
  BY DEF Create
<1>2. TypeOK
  BY DEF IInv
<1>3. active[s] = NoTask
      /\ \A u \in TaskIDs : session[u] = s => pc[u] \notin InFlight
  BY LockedIsInFlight DEF Create
<1>4. Life'
  BY <1>1, <1>2 DEF IInv, Life, TypeOK, DoneStatus
<1>5. LiveRegistered'
  <2>1. SUFFICES ASSUME NEW u \in TaskIDs, status'[u] \in {"pending", "running"}
                 PROVE  u \in tasks'
    BY DEF LiveRegistered
  <2>2. u \in tasks \cup {t}
    BY <1>1, <1>2, <2>1 DEF IInv, LiveRegistered, TypeOK
  <2>3. Append(order, t) \in Seq(TaskIDs) /\ tasks \cup {t} \in SUBSET TaskIDs
    BY <1>2 DEF TypeOK
  <2>4. status'[u] \notin DoneStatus
    BY <2>1 DEF DoneStatus
  <2>5. QED
    BY <1>1, <2>2, <2>3, <2>4, EvictKeepsLive
<1>6. LockExact'
  <2>1. ASSUME NEW r \in Sessions, active'[r] # NoTask
        PROVE  pc'[active'[r]] \in InFlight /\ session'[active'[r]] = r
    <3>1. CASE r = s
      BY <1>1, <1>2, <3>1 DEF TypeOK, InFlight
    <3>2. CASE r # s
      <4>1. active'[r] = active[r] /\ active[r] \in TaskIDs
        BY <1>1, <1>2, <2>1, <3>2 DEF TypeOK
      <4>2. pc[active[r]] \in InFlight /\ session[active[r]] = r
        BY <4>1, <2>1 DEF IInv, LockExact
      <4>3. active[r] # t
        BY <1>1, <4>2 DEF InFlight
      <4>4. QED
        BY <1>1, <1>2, <4>1, <4>2, <4>3 DEF TypeOK
    <3>3. QED
      BY <3>1, <3>2
  <2>2. ASSUME NEW u \in TaskIDs, pc'[u] \in InFlight
        PROVE  active'[session'[u]] = u
    <3>1. CASE u = t
      BY <1>1, <1>2, <3>1 DEF TypeOK
    <3>2. CASE u # t
      <4>1. pc[u] \in InFlight /\ session'[u] = session[u]
        BY <1>1, <1>2, <2>2, <3>2 DEF TypeOK
      <4>2. session[u] # s
        BY <1>3, <4>1
      <4>3. active[session[u]] = u
        BY <4>1 DEF IInv, LockExact
      <4>4. QED
        BY <1>1, <1>2, <4>1, <4>2, <4>3 DEF TypeOK
    <3>3. QED
      BY <3>1, <3>2
  <2>3. QED
    BY <2>1, <2>2 DEF LockExact
<1>7. QED
  BY <1>4, <1>5, <1>6

\* A step of a task's own handler or goroutine.
LEMMA TaskStepIInv ==
    ASSUME IInv, NEW t \in TaskIDs, TaskStep(t)
    PROVE  Life' /\ LiveRegistered' /\ LockExact'
<1> USE DEF IInv, TypeOK, Life, LiveRegistered, DoneStatus, InFlight
<1>1. CASE Run(t)
  <2>1. Life' /\ LiveRegistered'
    BY <1>1 DEF Run
  <2>2. LockExact'
    BY <1>1 DEF Run, LockExact
  <2>3. QED
    BY <2>1, <2>2
<1>2. CASE SetRunning(t)
  <2>1. Life' /\ LiveRegistered'
    BY <1>2 DEF SetRunning
  <2>2. LockExact'
    BY <1>2 DEF SetRunning, LockExact
  <2>3. QED
    BY <2>1, <2>2
<1>3. CASE FnReturns(t)
  <2>1. Life' /\ LiveRegistered'
    BY <1>3 DEF FnReturns
  <2>2. LockExact'
    BY <1>3 DEF FnReturns, LockExact
  <2>3. QED
    BY <2>1, <2>2
<1>4. CASE FinishRelease(t)
  <2>1. Life' /\ LiveRegistered'
    BY <1>4 DEF FinishRelease
  <2>2. session[t] \in Sessions /\ active[session[t]] = t
    BY <1>4 DEF FinishRelease, LockExact
  <2>3. /\ active' = [active EXCEPT ![session[t]] = NoTask]
        /\ pc' = [pc EXCEPT ![t] = "released"]
        /\ session' = session
    BY <1>4, <2>2 DEF FinishRelease
  <2>4. ASSUME NEW r \in Sessions, active'[r] # NoTask
        PROVE  pc'[active'[r]] \in InFlight /\ session'[active'[r]] = r
    <3>1. r # session[t] /\ active'[r] = active[r] /\ active[r] \in TaskIDs
      BY <2>2, <2>3, <2>4
    <3>2. pc[active[r]] \in InFlight /\ session[active[r]] = r
      BY <3>1, <2>4 DEF LockExact
    <3>3. QED
      BY <2>3, <3>1, <3>2
  <2>5. ASSUME NEW u \in TaskIDs, pc'[u] \in InFlight
        PROVE  active'[session'[u]] = u
    <3>1. u # t /\ pc[u] \in InFlight
      BY <2>3, <2>5
    <3>2. active[session[u]] = u /\ session[u] # session[t]
      BY <2>2, <3>1 DEF LockExact
    <3>3. QED
      BY <2>3, <3>1, <3>2
  <2>6. QED
    BY <2>1, <2>4, <2>5 DEF LockExact
<1>5. CASE FinishStatus(t)
  <2>1. Life' /\ LiveRegistered'
    BY <1>5 DEF FinishStatus
  <2>2. LockExact'
    BY <1>5 DEF FinishStatus, LockExact
  <2>3. QED
    BY <2>1, <2>2
<1>6. QED
  BY <1>1, <1>2, <1>3, <1>4, <1>5 DEF TaskStep

\* Every step keeps the invariant.
LEMMA NextIInv == IInv /\ [Next]_vars => IInv'
<1> SUFFICES ASSUME IInv, [Next]_vars PROVE IInv'
  OBVIOUS
<1>0. TypeOK'
  BY TypeCorrectStep DEF IInv
<1>1. ASSUME NEW t \in TaskIDs, NEW s \in Sessions, Create(t, s) PROVE IInv'
  BY <1>0, <1>1, CreateIInv DEF IInv
<1>2. ASSUME NEW t \in TaskIDs, TaskStep(t) PROVE IInv'
  BY <1>0, <1>2, TaskStepIInv DEF IInv
<1>3. CASE Restart
  <2>1. Life' /\ LiveRegistered' /\ LockExact'
    BY <1>3 DEF Restart, Life, LiveRegistered, LockExact, InFlight
  <2>2. QED
    BY <1>0, <2>1 DEF IInv
<1>4. CASE UNCHANGED vars
  BY <1>0, <1>4 DEF vars, IInv, Life, LiveRegistered, LockExact, IsDone
<1>5. QED
  BY <1>1, <1>2, <1>3, <1>4 DEF Next

\* The inductive invariant of the queue: the lock table, the task map and what
\* the tasks' goroutines still have to do fit each other (tasks.go, manager).
THEOREM Invariant == Spec => []IInv
BY InitIInv, NextIInv, PTL DEF Spec

----------------------------------------------------------------------------
(* What follows                                                            *)

\* Two operations of one session are never in flight together.
THEOREM Exclusive == Spec => []SessionExclusive
<1>1. IInv => SessionExclusive
  BY DEF IInv, LockExact, SessionExclusive
<1>2. QED
  BY <1>1, Invariant, PTL

\* The lock table names exactly the tasks in flight, so no leftover entry
\* refuses a session's later operations.
THEOREM LockTableExact == Spec => []LockExact
<1>1. IInv => LockExact
  BY DEF IInv
<1>2. QED
  BY <1>1, Invariant, PTL

\* No eviction ever removes a task that has not finished.
THEOREM LiveStayRegistered == Spec => []LiveRegistered
<1>1. IInv => LiveRegistered
  BY DEF IInv
<1>2. QED
  BY <1>1, Invariant, PTL

\* Every step of the queue is a step of SessionLock or leaves it alone.
LEMMA StepImplementsLock == IInv /\ [Next]_vars => [Lock!Next]_Lock!lockVars
<1> SUFFICES ASSUME IInv, [Next]_vars PROVE [Lock!Next]_Lock!lockVars
  OBVIOUS
<1> USE DEF Running, Ended, InFlight
<1>0. TypeOK
  BY DEF IInv
<1>1. ASSUME NEW t \in TaskIDs, NEW s \in Sessions, Create(t, s)
      PROVE  Lock!Next
  <2>1. /\ pc[t] = "none"
        /\ session' = [session EXCEPT ![t] = s]
        /\ pc' = [pc EXCEPT ![t] = "submitted"]
    BY <1>1 DEF Create
  <2>2. \A u \in TaskIDs : session[u] = s => pc[u] \notin InFlight
    BY <1>1, LockedIsInFlight DEF Create
  <2>3. /\ Running[s] = {}
        /\ t \notin Ended
        /\ \A r \in Sessions : t \notin Running[r]
    BY <2>1, <2>2
  <2>4. Running' = [Running EXCEPT ![s] = {t}]
    BY <1>0, <2>1, <2>2 DEF TypeOK
  <2>5. Ended' = Ended
    BY <1>0, <2>1 DEF TypeOK
  <2>6. Lock!Acquire(s, t)
    BY <2>3, <2>4, <2>5 DEF Lock!Acquire
  <2>7. QED
    BY <2>6 DEF Lock!Next
<1>2. ASSUME NEW t \in TaskIDs, FinishRelease(t) PROVE Lock!Next
  <2>1. /\ pc[t] = "returned"
        /\ session' = session
        /\ pc' = [pc EXCEPT ![t] = "released"]
    BY <1>2 DEF FinishRelease
  <2>2. PICK s \in Sessions : s = session[t]
    BY <2>1 DEF IInv, Life
  <2>3. t \in Running[s]
    BY <2>1, <2>2
  <2>4. Running' = [Running EXCEPT ![s] = @ \ {t}]
    BY <1>0, <2>1, <2>2 DEF TypeOK
  <2>5. Ended' = Ended \cup {t}
    BY <1>0, <2>1 DEF TypeOK
  <2>6. Lock!Release(s, t)
    BY <2>3, <2>4, <2>5 DEF Lock!Release
  <2>7. QED
    BY <2>6 DEF Lock!Next
<1>3. ASSUME NEW t \in TaskIDs,
             Run(t) \/ SetRunning(t) \/ FnReturns(t) \/ FinishStatus(t)
      PROVE  UNCHANGED Lock!lockVars
  <2>1. PICK p \in PCs : /\ pc' = [pc EXCEPT ![t] = p]
                         /\ pc[t] \in InFlight <=> p \in InFlight
                         /\ pc[t] \in {"released", "exited"} <=>
                                p \in {"released", "exited"}
                         /\ session' = session
    BY <1>3 DEF Run, SetRunning, FnReturns, FinishStatus, PCs
  <2>2. Running' = Running /\ Ended' = Ended
    BY <1>0, <2>1 DEF TypeOK
  <2>3. QED
    BY <2>2 DEF Lock!lockVars
<1>4. CASE Restart
  <2>1. Running' = [s \in Sessions |-> {}] /\ Ended' = {}
    BY <1>4 DEF Restart
  <2>2. QED
    BY <2>1 DEF Lock!Next, Lock!Reset
<1>5. CASE UNCHANGED vars
  BY <1>5 DEF vars, Lock!lockVars
<1>6. QED
  BY <1>1, <1>2, <1>3, <1>4, <1>5 DEF Next, TaskStep

\* The queue implements the per-session lock the operations are written
\* against.
THEOREM QueueImplementsLock == Spec => ImplementsLock
<1>1. Init => Lock!Init
  <2>1. Init => Running = [s \in Sessions |-> {}] /\ Ended = {}
    BY DEF Init, Running, Ended, InFlight
  <2>2. QED
    BY <2>1 DEF Lock!Init
<1>2. QED
  BY <1>1, Invariant, StepImplementsLock, PTL DEF Spec, ImplementsLock, Lock!Spec

----------------------------------------------------------------------------
(* The order of eviction                                                   *)

\* The registry and the order agree, and a registered id has been drawn.
OrderInv == OrderIsRegistry /\ \A t \in tasks : pc[t] # "none"

\* What one call of evict does to a queue that lists its registry once.
LEMMA EvictCutsPrefix ==
    ASSUME NEW q \in Seq(TaskIDs), NEW reg \in SUBSET TaskIDs, NEW st,
           {q[i] : i \in DOMAIN q} = reg,
           \A i, j \in DOMAIN q : q[i] = q[j] => i = j,
           Evict(q, reg, st)
    PROVE  /\ OrderIsRegistry'
           /\ tasks' \subseteq reg
           /\ \A i \in DOMAIN q : q[i] \notin tasks' =>
                  /\ st[q[i]] \in DoneStatus
                  /\ Len(order') >= MaxTasks
                  /\ \A j \in 1..i : q[j] \notin tasks'
<1>1. PICK k \in 0..Len(q) :
          /\ \A j \in 1..k : ~(q[j] \in reg /\ st[q[j]] \notin DoneStatus)
          /\ k > 0 => Len(q) - k >= MaxTasks
          /\ order' = SubSeq(q, k + 1, Len(q))
          /\ tasks' = reg \ {q[j] : j \in 1..k}
  BY DEF Evict
<1>2. /\ Len(order') = Len(q) - k
      /\ DOMAIN order' = 1..(Len(q) - k)
      /\ \A i \in 1..(Len(q) - k) : order'[i] = q[i + k]
  BY <1>1
<1>3. DOMAIN q = 1..Len(q) /\ Len(q) \in Nat
  OBVIOUS
<1>4. \A i \in DOMAIN q : q[i] \in tasks' <=> i > k
  <2>1. tasks' = reg \ {q[j] : j \in 1..k} /\ k \in Nat /\ k <= Len(q)
    BY <1>1, <1>3
  <2>2. ASSUME NEW i \in DOMAIN q, i > k PROVE q[i] \in tasks'
    <3>1. \A j \in 1..k : j \in DOMAIN q /\ j # i
      BY <1>3, <2>1, <2>2
    <3>2. \A j \in 1..k : q[j] # q[i]
      BY <3>1
    <3>3. QED
      BY <2>1, <3>2
  <2>3. ASSUME NEW i \in DOMAIN q, ~(i > k) PROVE q[i] \notin tasks'
    <3>1. i \in 1..k
      BY <1>3, <2>1, <2>3
    <3>2. QED
      BY <2>1, <3>1
  <2>4. QED
    BY <2>2, <2>3
<1>5. {order'[i] : i \in DOMAIN order'} = tasks'
  <2>1. ASSUME NEW i \in DOMAIN order' PROVE order'[i] \in tasks'
    BY <1>2, <1>3, <1>4
  <2>2. ASSUME NEW t \in tasks' PROVE \E i \in DOMAIN order' : order'[i] = t
    <3>1. PICK i \in DOMAIN q : q[i] = t
      BY <1>1
    <3>2. i > k
      BY <1>4, <3>1
    <3>3. i - k \in 1..(Len(q) - k) /\ (i - k) + k = i
      BY <1>3, <3>2
    <3>4. order'[i - k] = q[i]
      BY <1>2, <3>3
    <3>5. QED
      BY <1>2, <3>1, <3>3, <3>4
  <2>3. QED
    BY <2>1, <2>2
<1>6. ASSUME NEW i \in DOMAIN order', NEW j \in DOMAIN order',
             order'[i] = order'[j]
      PROVE  i = j
  <2>1. i + k \in DOMAIN q /\ j + k \in DOMAIN q /\ i \in Nat /\ j \in Nat
    BY <1>2, <1>3
  <2>2. q[i + k] = q[j + k]
    BY <1>2, <1>6
  <2>3. i + k = j + k
    BY <2>1, <2>2
  <2>4. QED
    BY <2>1, <2>3
<1>7. OrderIsRegistry'
  BY <1>5, <1>6 DEF OrderIsRegistry
<1>8. ASSUME NEW i \in DOMAIN q, q[i] \notin tasks'
      PROVE  /\ st[q[i]] \in DoneStatus
             /\ Len(order') >= MaxTasks
             /\ \A j \in 1..i : q[j] \notin tasks'
  <2>1. i \in 1..k
    BY <1>1, <1>3, <1>4, <1>8
  <2>2. st[q[i]] \in DoneStatus
    BY <1>1, <2>1
  <2>3. Len(order') >= MaxTasks
    BY <1>1, <1>2, <2>1
  <2>4. \A j \in 1..i : q[j] \notin tasks'
    BY <1>1, <1>3, <1>4, <2>1
  <2>5. QED
    BY <2>2, <2>3, <2>4
<1>9. QED
  BY <1>1, <1>7, <1>8

\* The queue Create hands to evict lists its registry once.
LEMMA CreateAppends ==
    ASSUME TypeOK, OrderInv, NEW t \in TaskIDs, pc[t] = "none"
    PROVE  LET q == Append(order, t) IN
           /\ q \in Seq(TaskIDs)
           /\ {q[i] : i \in DOMAIN q} = tasks \cup {t}
           /\ \A i, j \in DOMAIN q : q[i] = q[j] => i = j
           /\ \A i \in DOMAIN order : i \in DOMAIN q /\ q[i] = order[i]
           /\ t \notin tasks
<1> DEFINE q == Append(order, t)
<1>1. /\ q \in Seq(TaskIDs)
      /\ Len(q) = Len(order) + 1
      /\ DOMAIN q = 1..(Len(order) + 1)
      /\ DOMAIN order = 1..Len(order)
      /\ Len(order) \in Nat
      /\ q[Len(order) + 1] = t
      /\ \A i \in 1..Len(order) : q[i] = order[i]
  BY DEF TypeOK
<1>2. t \notin tasks
  BY DEF OrderInv
<1>3. \A i \in 1..Len(order) : order[i] \in tasks
  BY <1>1 DEF OrderInv, OrderIsRegistry
<1> HIDE DEF q
<1>4. {q[i] : i \in DOMAIN q} = tasks \cup {t}
  <2>1. ASSUME NEW i \in DOMAIN q PROVE q[i] \in tasks \cup {t}
    BY <1>1, <1>3
  <2>2. ASSUME NEW u \in tasks \cup {t} PROVE \E i \in DOMAIN q : q[i] = u
    <3>1. CASE u = t
      BY <1>1, <3>1
    <3>2. CASE u \in tasks
      <4>1. PICK i \in DOMAIN order : order[i] = u
        BY <3>2 DEF OrderInv, OrderIsRegistry
      <4>2. QED
        BY <1>1, <4>1
    <3>3. QED
      BY <3>1, <3>2
  <2>3. QED
    BY <2>1, <2>2
<1>5. \A i, j \in DOMAIN q : q[i] = q[j] => i = j
  <2>1. \A i, j \in 1..Len(order) : order[i] = order[j] => i = j
    BY <1>1 DEF OrderInv, OrderIsRegistry
  <2>2. QED
    BY <1>1, <1>2, <1>3, <2>1
<1>6. QED
  BY <1>1, <1>2, <1>4, <1>5 DEF q

\* Every step keeps the map and its order alike.
LEMMA NextOrderInv == IInv /\ OrderInv /\ [Next]_vars => OrderInv'
<1> SUFFICES ASSUME IInv, OrderInv, [Next]_vars PROVE OrderInv'
  OBVIOUS
<1>0. TypeOK
  BY DEF IInv
<1>1. ASSUME NEW t \in TaskIDs, NEW s \in Sessions, Create(t, s)
      PROVE  OrderInv'
  <2>1. /\ pc[t] = "none"
        /\ pc' = [pc EXCEPT ![t] = "submitted"]
        /\ Evict(Append(order, t), tasks \cup {t}, status')
    BY <1>1 DEF Create
  <2> DEFINE q == Append(order, t)
             reg == tasks \cup {t}
  <2>2. /\ q \in Seq(TaskIDs)
        /\ {q[i] : i \in DOMAIN q} = reg
        /\ \A i, j \in DOMAIN q : q[i] = q[j] => i = j
    BY <1>0, <2>1, CreateAppends
  <2>3. reg \in SUBSET TaskIDs /\ Evict(q, reg, status')
    BY <1>0, <2>1 DEF TypeOK
  <2> HIDE DEF q, reg
  <2>4. OrderIsRegistry' /\ tasks' \subseteq reg
    BY <2>2, <2>3, EvictCutsPrefix
  <2>5. QED
    BY <1>0, <2>1, <2>4 DEF OrderInv, TypeOK, reg
<1>2. ASSUME NEW t \in TaskIDs, TaskStep(t) PROVE OrderInv'
  <2>1. PICK p \in PCs \ {"none"} : pc' = [pc EXCEPT ![t] = p]
    BY <1>2 DEF TaskStep, Run, SetRunning, FnReturns, FinishRelease,
                FinishStatus, PCs
  <2>2. tasks' = tasks /\ order' = order
    BY <1>2 DEF TaskStep, Run, SetRunning, FnReturns, FinishRelease,
                FinishStatus
  <2>3. QED
    BY <1>0, <2>1, <2>2 DEF OrderInv, OrderIsRegistry, TypeOK
<1>3. CASE Restart
  BY <1>3 DEF Restart, OrderInv, OrderIsRegistry
<1>4. CASE UNCHANGED vars
  BY <1>4 DEF vars, OrderInv, OrderIsRegistry
<1>5. QED
  BY <1>1, <1>2, <1>3, <1>4 DEF Next

\* An empty map and an empty order are alike.
LEMMA InitOrderInv == Init => OrderInv
BY DEF Init, OrderInv, OrderIsRegistry

\* List and Get agree: the order names exactly the registered tasks, each
\* once, after any number of evictions.
THEOREM RegistryListed == Spec => []OrderIsRegistry
<1>1. IInv /\ OrderInv => OrderIsRegistry
  BY DEF OrderInv
<1>2. QED
  BY <1>1, InitOrderInv, NextOrderInv, Invariant, PTL DEF Spec

\* Eviction takes only finished tasks, oldest first, and leaves at least
\* MaxTasks behind.
THEOREM EvictionOrder == Spec => EvictsOnlyOld
<1> DEFINE Gone(i) == /\ IsDone(order[i])
                      /\ Len(order') >= MaxTasks
                      /\ \A j \in 1..i : order[j] \notin tasks'
           Fair == \A i \in DOMAIN order : order[i] \notin tasks' => Gone(i)
<1>1. IInv /\ OrderInv /\ [Next]_vars => [Restart \/ Fair]_vars
  <2> SUFFICES ASSUME IInv, OrderInv, [Next]_vars, ~Restart, ~UNCHANGED vars
               PROVE  Fair
    OBVIOUS
  <2>0. TypeOK
    BY DEF IInv
  <2>1. ASSUME NEW t \in TaskIDs, NEW s \in Sessions, Create(t, s) PROVE Fair
    <3> DEFINE q == Append(order, t)
               reg == tasks \cup {t}
    <3>1. /\ pc[t] = "none"
          /\ status' = [status EXCEPT ![t] = "pending"]
          /\ Evict(q, reg, status')
      BY <2>1 DEF Create
    <3>2. /\ q \in Seq(TaskIDs)
          /\ reg \in SUBSET TaskIDs
          /\ {q[i] : i \in DOMAIN q} = reg
          /\ \A i, j \in DOMAIN q : q[i] = q[j] => i = j
          /\ \A i \in DOMAIN order : i \in DOMAIN q /\ q[i] = order[i]
          /\ t \notin tasks
      BY <2>0, <3>1, CreateAppends DEF TypeOK
    <3> HIDE DEF q, reg
    <3>3. \A i \in DOMAIN q : q[i] \notin tasks' =>
              /\ status'[q[i]] \in DoneStatus
              /\ Len(order') >= MaxTasks
              /\ \A j \in 1..i : q[j] \notin tasks'
      BY <3>1, <3>2, EvictCutsPrefix
    <3>4. ASSUME NEW i \in DOMAIN order, order[i] \notin tasks' PROVE Gone(i)
      <4>1. q[i] = order[i] /\ order[i] \in tasks /\ i \in DOMAIN q
        BY <3>2 DEF OrderInv, OrderIsRegistry
      <4>2. status'[order[i]] = status[order[i]]
        BY <2>0, <3>1, <3>2, <4>1 DEF TypeOK
      <4>3. \A j \in 1..i : j \in DOMAIN order
        BY <2>0 DEF TypeOK
      <4>4. QED
        BY <3>2, <3>3, <3>4, <4>1, <4>2, <4>3 DEF IsDone
    <3>5. QED
      BY <3>4
  <2>2. ASSUME NEW t \in TaskIDs, TaskStep(t) PROVE Fair
    <3>1. tasks' = tasks
      BY <2>2 DEF TaskStep, Run, SetRunning, FnReturns, FinishRelease,
                  FinishStatus
    <3>2. QED
      BY <3>1 DEF OrderInv, OrderIsRegistry
  <2>3. QED
    BY <2>1, <2>2 DEF Next
<1>2. QED
  BY <1>1, InitOrderInv, NextOrderInv, Invariant, PTL DEF Spec, EvictsOnlyOld,
     IsDone
=============================================================================
