-------------------------- MODULE Ec2SessionProofs --------------------------
(***************************************************************************)
(* Proofs about a session's launches for every number of processes,        *)
(* launches and interfaces: what holds here does not need the session's    *)
(* lock, so it also holds for a command line used beside the server.       *)
(***************************************************************************)
EXTENDS Ec2Session, TLAPS

(* Types                                                                   *)

\* An unused slot and an idle process are of their types.
LEMMA ConstantTypes == Unused \in Launch /\ Idle \in Op
<1>1. Unused \in Launch
  BY DEF Unused, Launch, RequestStates, InstanceStates, Names
<1>2. Idle \in Op
  BY DEF Idle, Op, PCs, Names
<1>3. QED
  BY <1>1, <1>2

\* Typed updates of one launch and of one operation.
LEMMA UpdateTypes ==
    ASSUME TypeOK
    PROVE  /\ \A l \in Launches : launch[l] \in Launch
           /\ \A l \in Launches, r \in Launch :
                  [launch EXCEPT ![l] = r] \in [Launches -> Launch]
           /\ \A p \in Procs : op[p] \in Op
           /\ \A p \in Procs, o \in Op :
                  [op EXCEPT ![p] = o] \in [Procs -> Op]
BY DEF TypeOK

\* Going on to another place keeps the locals.
LEMMA GotoType ==
    ASSUME TypeOK, NEW p \in Procs, NEW pc \in PCs, Goto(p, pc)
    PROVE  op' \in [Procs -> Op]
<1> DEFINE o == [op[p] EXCEPT !.pc = pc]
<1>1. o \in Op
  BY UpdateTypes DEF Op
<1>2. op' = [op EXCEPT ![p] = o]
  BY DEF Goto
<1> HIDE DEF o
<1>3. QED
  BY <1>1, <1>2, UpdateTypes

\* An operation that returns is idle.
LEMMA ReturnType ==
    ASSUME TypeOK, NEW p \in Procs,
           NEW res \in {"started", "already", "stopped", "error"},
           Return(p, res)
    PROVE  op' \in [Procs -> Op]
<1> DEFINE o == [Idle EXCEPT !.result = res]
<1>1. o \in Op
  BY ConstantTypes DEF Op
<1>2. op' = [op EXCEPT ![p] = o]
  BY DEF Return
<1> HIDE DEF o
<1>3. QED
  BY <1>1, <1>2, UpdateTypes

\* What AWS does keeps the types.
LEMMA AwsType == ASSUME TypeOK, AwsStep PROVE TypeOK'
<1>1. ASSUME NEW l \in Launches,
             \/ Fulfil(l) \/ RequestFails(l) \/ Boot(l) \/ Reclaim(l)
             \/ Terminated(l) \/ DetachVolume(l)
      PROVE  launch' \in [Launches -> Launch]
  <2>0. launch[l] \in Launch
    BY UpdateTypes
  <2>1. CASE Fulfil(l)
    <3> DEFINE r == [launch[l] EXCEPT !.req = "active", !.inst = "pending",
                                      !.vol = "there", !.att = l]
    <3>1. r \in Launch
      BY <2>0 DEF Launch, RequestStates, InstanceStates, Live
    <3>2. launch' = [launch EXCEPT ![l] = r]
      BY <2>1 DEF Fulfil, TypeOK
    <3> HIDE DEF r
    <3>3. QED
      BY <3>1, <3>2, UpdateTypes
  <2>2. CASE RequestFails(l)
    BY <2>2 DEF RequestFails, TypeOK, Launch, RequestStates
  <2>3. CASE Boot(l)
    BY <2>3 DEF Boot, TypeOK, Launch, InstanceStates, Live
  <2>4. CASE Reclaim(l)
    BY <2>4 DEF Reclaim, TypeOK, Launch, InstanceStates, RequestStates
  <2>5. CASE Terminated(l)
    <3> DEFINE r == [launch[l] EXCEPT !.inst = "terminated",
                        !.req = IF @ = "active" THEN "closed" ELSE @]
    <3>1. r \in Launch
      BY <2>0 DEF Launch, RequestStates, InstanceStates
    <3>2. launch' = [launch EXCEPT ![l] = r]
      BY <2>5 DEF Terminated, TypeOK
    <3> HIDE DEF r
    <3>3. QED
      BY <3>1, <3>2, UpdateTypes
  <2>6. CASE DetachVolume(l)
    <3> DEFINE r == [launch[l] EXCEPT !.att = None,
                        !.vol = IF launch[l].att = l /\ ~launch[l].keep
                                THEN "deleted" ELSE "there"]
    <3>1. r \in Launch
      BY <2>0 DEF Launch
    <3>2. launch' = [launch EXCEPT ![l] = r]
      BY <2>6 DEF DetachVolume, TypeOK
    <3> HIDE DEF r
    <3>3. QED
      BY <3>1, <3>2, UpdateTypes
  <2>7. QED
    BY <1>1, <2>1, <2>2, <2>3, <2>4, <2>5, <2>6
<1>2. ASSUME NEW l \in Launches,
             \/ Fulfil(l) \/ RequestFails(l) \/ Boot(l) \/ Reclaim(l)
             \/ Terminated(l) \/ DetachVolume(l)
      PROVE  TypeOK'
  <2>1. /\ holder' \in [Enis -> Launches \cup {None}]
        /\ UNCHANGED <<eni, op>>
    BY <1>2 DEF Fulfil, RequestFails, Boot, Reclaim, Terminated, DetachVolume,
                TypeOK
  <2>2. QED
    BY <1>1, <1>2, <2>1 DEF TypeOK
<1>3. ASSUME NEW l \in Launches, Chainload(l) PROVE TypeOK'
  <2> DEFINE v == launch[l].chain
             r == [launch[l] EXCEPT !.inst = "serving"]
             one == [launch EXCEPT ![l] = r]
  <2>1. r \in Launch /\ v \in Launches
    BY <1>3, UpdateTypes DEF Launch, InstanceStates, Live, Chainload
  <2>2. one \in [Launches -> Launch] /\ one[v] \in Launch
    BY <2>1, UpdateTypes
  <2>3. [one[v] EXCEPT !.att = l] \in Launch
    BY <2>2 DEF Launch
  <2>4. \/ launch' = one
        \/ launch' = [one EXCEPT ![v] = [one[v] EXCEPT !.att = l]]
    BY <1>3 DEF Chainload, TypeOK
  <2>5. UNCHANGED <<eni, holder, op>>
    BY <1>3 DEF Chainload
  <2> HIDE DEF one, v
  <2>6. launch' \in [Launches -> Launch]
    BY <2>1, <2>2, <2>3, <2>4
  <2>7. QED
    BY <2>5, <2>6 DEF TypeOK
<1>4. ASSUME NEW l \in Launches, Forget(l) PROVE TypeOK'
  BY <1>4, ConstantTypes, UpdateTypes DEF Forget, TypeOK
<1>5. ASSUME NEW e \in Enis, DetachEni(e) PROVE TypeOK'
  BY <1>5 DEF DetachEni, TypeOK
<1>6. QED
  BY <1>2, <1>3, <1>4, <1>5 DEF AwsStep

\* One operation gets new locals.
LEMMA LocalsType ==
    ASSUME TypeOK, NEW p \in Procs, NEW o \in Op, op' = [op EXCEPT ![p] = o]
    PROVE  op' \in [Procs -> Op]
BY UpdateTypes

\* An operation that begins keeps the types.
LEMMA BeginType ==
    ASSUME TypeOK, NEW p \in Procs,
           BeginStart(p) \/ BeginStop(p) \/ BeginRestart(p)
    PROVE  TypeOK'
<1>1. LiveInstances \in SUBSET Launches
  BY DEF LiveInstances
<1>2. op' \in [Procs -> Op]
  <2>1. CASE BeginStart(p)
    <3>1. PICK n \in InstanceNames :
              op' = [op EXCEPT ![p] = [Idle EXCEPT !.pc = "GetENI",
                                           !.kind = "start", !.name = n]]
      BY <2>1 DEF BeginStart
    <3> DEFINE o == [Idle EXCEPT !.pc = "GetENI", !.kind = "start", !.name = n]
    <3>2. o \in Op
      BY ConstantTypes DEF Op, PCs, Names
    <3> HIDE DEF o
    <3>3. QED
      BY <3>1, <3>2, LocalsType DEF o
  <2>2. CASE BeginStop(p)
    <3> DEFINE o == [Idle EXCEPT !.pc = "stopVolume", !.kind = "stop",
                                 !.seen = LiveInstances]
    <3>1. o \in Op
      BY <1>1, ConstantTypes DEF Op, PCs, StopPCs
    <3>2. op' = [op EXCEPT ![p] = o]
      BY <2>2 DEF BeginStop
    <3> HIDE DEF o
    <3>3. QED
      BY <3>1, <3>2, LocalsType
  <2>3. CASE BeginRestart(p)
    <3>1. PICK n \in InstanceNames :
              op' = [op EXCEPT ![p] = [Idle EXCEPT !.pc = "stopVolume",
                                           !.kind = "restart", !.name = n,
                                           !.seen = LiveInstances]]
      BY <2>3 DEF BeginRestart
    <3> DEFINE o == [Idle EXCEPT !.pc = "stopVolume", !.kind = "restart",
                                 !.name = n, !.seen = LiveInstances]
    <3>2. o \in Op
      BY <1>1, ConstantTypes DEF Op, PCs, StopPCs, Names
    <3>3. op' = [op EXCEPT ![p] = o]
      BY <3>1
    <3> HIDE DEF o
    <3>4. QED
      BY <3>2, <3>3, LocalsType
  <2>4. QED
    BY <2>1, <2>2, <2>3
<1>3. UNCHANGED aws
  BY DEF BeginStart, BeginStop, BeginRestart
<1>4. QED
  BY <1>2, <1>3 DEF aws, TypeOK

\* Typed edits of one field of a launch.
LEMMA EditTypes ==
    ASSUME TypeOK, NEW c, NEW n \in Names
    PROVE  /\ [launch EXCEPT ![c].req = Cancelled(@)] \in [Launches -> Launch]
           /\ [launch EXCEPT ![c].inst = Shut(@)] \in [Launches -> Launch]
           /\ [launch EXCEPT ![c].keep = TRUE] \in [Launches -> Launch]
           /\ [launch EXCEPT ![c].volTag = n] \in [Launches -> Launch]
           /\ [launch EXCEPT ![c].instTag = n] \in [Launches -> Launch]
<1>1. ASSUME c \in Launches
      PROVE  /\ [launch[c] EXCEPT !.req = Cancelled(@)] \in Launch
             /\ [launch[c] EXCEPT !.inst = Shut(@)] \in Launch
             /\ [launch[c] EXCEPT !.keep = TRUE] \in Launch
             /\ [launch[c] EXCEPT !.volTag = n] \in Launch
             /\ [launch[c] EXCEPT !.instTag = n] \in Launch
  <2>1. launch[c] \in Launch
    BY <1>1, UpdateTypes
  <2>2. Cancelled(launch[c].req) \in RequestStates
    BY <2>1 DEF Launch, Cancelled, RequestStates
  <2>3. Shut(launch[c].inst) \in InstanceStates
    BY <2>1 DEF Launch, Shut, InstanceStates
  <2>4. QED
    BY <2>1, <2>2, <2>3 DEF Launch
<1>2. CASE c \in Launches
  BY <1>1, <1>2 DEF TypeOK
<1>3. CASE c \notin Launches
  BY <1>3 DEF TypeOK
<1>4. QED
  BY <1>2, <1>3

\* Steps that only move on or return, and touch nothing of AWS's.
LEMMA MoveType ==
    ASSUME TypeOK, NEW p \in Procs,
           \/ \E pc \in PCs : Goto(p, pc)
           \/ \E res \in {"started", "already", "stopped", "error"} :
                  Return(p, res),
           UNCHANGED aws
    PROVE  TypeOK'
<1>1. op' \in [Procs -> Op]
  BY GotoType, ReturnType
<1>2. QED
  BY <1>1 DEF aws, TypeOK

\* Each step of a Start keeps the types.
LEMMA StartType == ASSUME TypeOK, NEW p \in Procs, StartStep(p) PROVE TypeOK'
<1>0. op[p] \in Op
  BY UpdateTypes
<1> USE DEF PCs, StartPCs, At
<1>1. CASE GetENI(p)
  <2>1. PICK e \in Enis, pc \in {"GetVolume", "tagENI"} :
            /\ op' = [op EXCEPT ![p].eni = e, ![p].pc = pc]
            /\ eni' \in [Enis -> {"none", "bare", "named"}]
            /\ UNCHANGED <<launch, holder>>
    BY <1>1 DEF GetENI, NamedEnis, aws, TypeOK
  <2>2. [op[p] EXCEPT !.eni = e, !.pc = pc] \in Op
    BY <1>0 DEF Op
  <2>3. op' = [op EXCEPT ![p] = [op[p] EXCEPT !.eni = e, !.pc = pc]]
    BY <2>1 DEF TypeOK
  <2>4. op' \in [Procs -> Op]
    BY <2>2, <2>3, LocalsType
  <2>5. QED
    BY <2>1, <2>4 DEF TypeOK
<1>2. CASE TagENI(p)
  <2>1. op' \in [Procs -> Op]
    BY <1>2, GotoType DEF TagENI
  <2>2. QED
    BY <1>2, <2>1 DEF TagENI, TypeOK
<1>3. CASE StartGetVolume(p)
  <2>1. PICK v \in Launches \cup {None} :
            IF v # None /\ launch[v].att # None
            THEN Return(p, "already")
            ELSE op' = [op EXCEPT ![p].vol = v, ![p].temp = (v = None),
                                  ![p].pc = "launch"]
    BY <1>3 DEF StartGetVolume, AnyOf, NamedVolumes
  <2>2. CASE Return(p, "already")
    BY <1>3, <2>2, MoveType DEF StartGetVolume
  <2>3. CASE ~(v # None /\ launch[v].att # None)
    <3> DEFINE o == [op[p] EXCEPT !.vol = v, !.temp = (v = None),
                                  !.pc = "launch"]
    <3>1. o \in Op
      BY <1>0 DEF Op
    <3>2. op' = [op EXCEPT ![p] = o]
      BY <2>1, <2>3 DEF TypeOK
    <3> HIDE DEF o
    <3>3. op' \in [Procs -> Op]
      BY <3>1, <3>2, LocalsType
    <3>4. QED
      BY <1>3, <3>3 DEF StartGetVolume, aws, TypeOK
  <2>4. QED
    BY <2>1, <2>2, <2>3
<1>4. CASE RequestSpot(p)
  <2>1. PICK l \in Launches :
            /\ launch' = [launch EXCEPT ![l].req = "open",
                                        ![l].reqTag = op[p].name,
                                        ![l].eni = op[p].eni,
                                        ![l].chain = op[p].vol]
            /\ op' = [op EXCEPT ![p].cur = l, ![p].pc = "fulfilledWaiter"]
    BY <1>4 DEF RequestSpot, FreeLaunches
  <2> DEFINE r == [launch[l] EXCEPT !.req = "open", !.reqTag = op[p].name,
                                    !.eni = op[p].eni, !.chain = op[p].vol]
             o == [op[p] EXCEPT !.cur = l, !.pc = "fulfilledWaiter"]
  <2>2. r \in Launch
    <3>1. /\ op[p].name \in Names
          /\ op[p].eni \in Enis \cup {None}
          /\ op[p].vol \in Launches \cup {None}
      BY <1>0 DEF Op
    <3>2. launch[l] \in Launch
      BY UpdateTypes
    <3>3. QED
      BY <3>1, <3>2 DEF Launch, RequestStates
  <2>3. o \in Op
    BY <1>0 DEF Op
  <2>4. launch' = [launch EXCEPT ![l] = r] /\ op' = [op EXCEPT ![p] = o]
    BY <2>1 DEF TypeOK
  <2> HIDE DEF r, o
  <2>5. launch' \in [Launches -> Launch] /\ op' \in [Procs -> Op]
    BY <2>2, <2>3, <2>4, UpdateTypes
  <2>6. QED
    BY <1>4, <2>5 DEF RequestSpot, TypeOK
<1>5. CASE RunInstances(p)
  <2>1. PICK l \in Launches :
            /\ launch' = [launch EXCEPT ![l].inst = "pending",
                                        ![l].instTag = op[p].name,
                                        ![l].vol = "there", ![l].att = l,
                                        ![l].volTag = op[p].name,
                                        ![l].eni = op[p].eni,
                                        ![l].chain = op[p].vol]
            /\ holder' = [holder EXCEPT ![op[p].eni] = l]
            /\ op' = [op EXCEPT ![p].cur = l, ![p].pc = "runningWaiter"]
    BY <1>5 DEF RunInstances, FreeLaunches
  <2> DEFINE r == [launch[l] EXCEPT !.inst = "pending", !.instTag = op[p].name,
                                    !.vol = "there", !.att = l,
                                    !.volTag = op[p].name,
                                    !.eni = op[p].eni, !.chain = op[p].vol]
             o == [op[p] EXCEPT !.cur = l, !.pc = "runningWaiter"]
  <2>2. r \in Launch
    <3>1. /\ op[p].name \in Names
          /\ op[p].eni \in Enis \cup {None}
          /\ op[p].vol \in Launches \cup {None}
      BY <1>0 DEF Op
    <3>2. launch[l] \in Launch
      BY UpdateTypes
    <3>3. QED
      BY <3>1, <3>2 DEF Launch, InstanceStates, Live
  <2>3. o \in Op
    BY <1>0 DEF Op
  <2>4. launch' = [launch EXCEPT ![l] = r] /\ op' = [op EXCEPT ![p] = o]
    BY <2>1 DEF TypeOK
  <2>5. holder' \in [Enis -> Launches \cup {None}]
    BY <2>1 DEF TypeOK
  <2> HIDE DEF r, o
  <2>6. launch' \in [Launches -> Launch] /\ op' \in [Procs -> Op]
    BY <2>2, <2>3, <2>4, UpdateTypes
  <2>7. QED
    BY <1>5, <2>5, <2>6 DEF RunInstances, TypeOK
<1>6. CASE LaunchRefused(p)
  BY <1>6, MoveType DEF LaunchRefused
<1>7. CASE \/ AwaitFulfilled(p) \/ FulfilmentFails(p) \/ AwaitRunning(p)
           \/ AwaitStatusOk(p) \/ AwaitInUse(p) \/ VerifyVolumeAttachedTo(p)
  <2>1. \/ \E pc \in PCs : Goto(p, pc)
        \/ \E res \in {"started", "error"} : Return(p, res)
    BY <1>7 DEF AwaitFulfilled, FulfilmentFails, AwaitRunning, AwaitStatusOk,
                AwaitInUse, VerifyVolumeAttachedTo
  <2>2. UNCHANGED aws
    BY <1>7 DEF AwaitFulfilled, FulfilmentFails, AwaitRunning, AwaitStatusOk,
                AwaitInUse, VerifyVolumeAttachedTo
  <2>3. QED
    BY <2>1, <2>2, MoveType
<1>8. CASE CancelUnfulfilled(p)
  <2>1. launch' \in [Launches -> Launch]
    BY <1>8, EditTypes DEF CancelUnfulfilled, Names
  <2>2. op' \in [Procs -> Op]
    BY <1>8, ReturnType DEF CancelUnfulfilled
  <2>3. QED
    BY <1>8, <2>1, <2>2 DEF CancelUnfulfilled, TypeOK
<1>9. CASE TagInstance(p)
  <2>1. launch' \in [Launches -> Launch]
    <3>1. op[p].name \in Names
      BY <1>0 DEF Op
    <3>2. QED
      BY <1>9, <3>1, EditTypes DEF TagInstance
  <2>2. op' \in [Procs -> Op]
    BY <1>9, GotoType DEF TagInstance
  <2>3. QED
    BY <1>9, <2>1, <2>2 DEF TagInstance, TypeOK
<1>10. QED
  BY <1>1, <1>2, <1>3, <1>4, <1>5, <1>6, <1>7, <1>8, <1>9 DEF StartStep

\* Each step of makePersistentVolume keeps the types.
LEMMA PersistType ==
    ASSUME TypeOK, NEW p \in Procs, PersistStep(p) PROVE TypeOK'
<1>0. op[p] \in Op
  BY UpdateTypes
<1> USE DEF PCs, StartPCs, At
<1>1. CASE ModifyInstanceAttribute(p) \/ TagVolume(p) \/ CancelTemp(p)
           \/ TerminateTemp(p)
  <2>0. AWSName \in Names
    BY DEF Names
  <2>1. launch' \in [Launches -> Launch]
    <3> DEFINE c == op[p].cur
    <3>1. CASE ModifyInstanceAttribute(p)
      <4>1. launch' = [launch EXCEPT ![c].keep = TRUE]
        BY <3>1 DEF ModifyInstanceAttribute
      <4> HIDE DEF c
      <4>2. QED
        BY <2>0, <4>1, EditTypes
    <3>2. CASE TagVolume(p)
      <4>1. launch' = [launch EXCEPT ![c].volTag = AWSName]
        BY <3>2 DEF TagVolume
      <4> HIDE DEF c
      <4>2. QED
        BY <2>0, <4>1, EditTypes
    <3>3. CASE CancelTemp(p)
      <4>1. launch' = [launch EXCEPT ![c].req = Cancelled(@)]
        BY <3>3 DEF CancelTemp
      <4> HIDE DEF c
      <4>2. QED
        BY <2>0, <4>1, EditTypes
    <3>4. CASE TerminateTemp(p)
      <4>1. launch' = [launch EXCEPT ![c].inst = Shut(@)]
        BY <3>4 DEF TerminateTemp
      <4> HIDE DEF c
      <4>2. QED
        BY <2>0, <4>1, EditTypes
    <3>5. QED
      BY <1>1, <3>1, <3>2, <3>3, <3>4
  <2>2. \E pc \in PCs : Goto(p, pc)
    BY <1>1 DEF ModifyInstanceAttribute, TagVolume, CancelTemp, TerminateTemp
  <2>3. op' \in [Procs -> Op]
    BY <2>2, GotoType
  <2>4. UNCHANGED <<eni, holder>>
    BY <1>1 DEF ModifyInstanceAttribute, TagVolume, CancelTemp, TerminateTemp
  <2>5. QED
    BY <2>1, <2>3, <2>4 DEF TypeOK
<1>2. CASE PersistFails(p)
  <2> DEFINE o == [op[p] EXCEPT !.persistErr = TRUE, !.pc = "cancelTemp"]
  <2>1. o \in Op
    BY <1>0 DEF Op
  <2>2. op' = [op EXCEPT ![p] = o]
    BY <1>2 DEF PersistFails, TypeOK
  <2> HIDE DEF o
  <2>3. op' \in [Procs -> Op]
    BY <2>1, <2>2, LocalsType
  <2>4. QED
    BY <1>2, <2>3 DEF PersistFails, aws, TypeOK
<1>3. CASE AwaitTempTerminated(p)
  BY <1>3, MoveType DEF AwaitTempTerminated
<1>4. CASE AwaitTempVolume(p)
  <2> DEFINE o == [op[p] EXCEPT !.vol = op[p].cur, !.temp = FALSE,
                                !.pc = "launch"]
  <2>1. o \in Op
    BY <1>0 DEF Op
  <2>2. op' = [op EXCEPT ![p] = o]
    BY <1>4 DEF AwaitTempVolume, TypeOK
  <2> HIDE DEF o
  <2>3. op' \in [Procs -> Op]
    BY <2>1, <2>2, LocalsType
  <2>4. QED
    BY <1>4, <2>3 DEF AwaitTempVolume, aws, TypeOK
<1>5. QED
  BY <1>1, <1>2, <1>3, <1>4 DEF PersistStep

\* Cancelling a set of requests.
LEMMA CancelSetType ==
    ASSUME TypeOK, NEW S
    PROVE  [l \in Launches |-> IF l \in S
                               THEN [launch[l] EXCEPT !.req = Cancelled(@)]
                               ELSE launch[l]] \in [Launches -> Launch]
<1>1. ASSUME NEW l \in Launches
      PROVE  [launch[l] EXCEPT !.req = Cancelled(@)] \in Launch
  <2>1. launch[l] \in Launch
    BY UpdateTypes
  <2>2. Cancelled(launch[l].req) \in RequestStates
    BY <2>1 DEF Launch, Cancelled, RequestStates
  <2>3. QED
    BY <2>1, <2>2 DEF Launch
<1>2. QED
  BY <1>1, UpdateTypes

\* A Stop that returns, or goes on to a restart's Start, keeps the types.
LEMMA StopReturnsType ==
    ASSUME TypeOK, NEW p \in Procs, StopReturns(p)
    PROVE  op' \in [Procs -> Op]
<1>1. op[p] \in Op
  BY UpdateTypes
<1> DEFINE stopped == [Idle EXCEPT !.result = "stopped"]
           again == [Idle EXCEPT !.result = "stopped", !.kind = "restart",
                        !.name = op[p].name, !.pc = "GetENI"]
<1>2. stopped \in Op
  BY ConstantTypes DEF Op
<1>3. again \in Op
  <2>1. op[p].name \in Names
    BY <1>1 DEF Op
  <2>2. QED
    BY <2>1, ConstantTypes DEF Op, PCs
<1>4. op' = [op EXCEPT ![p] = stopped] \/ op' = [op EXCEPT ![p] = again]
  BY DEF StopReturns
<1> HIDE DEF stopped, again
<1>5. QED
  BY <1>2, <1>3, <1>4, LocalsType

\* Each step of a Stop keeps the types.
LEMMA StopType == ASSUME TypeOK, NEW p \in Procs, StopStep(p) PROVE TypeOK'
<1>0. op[p] \in Op
  BY UpdateTypes
<1> USE DEF PCs, StopPCs, At
<1>1. CASE StopGetVolume(p)
  <2>1. PICK v \in Launches \cup {None} :
            op' = [op EXCEPT ![p].vol = v, ![p].pc = "stopENI",
                      ![p].ids = IF v = None THEN {}
                                 ELSE {launch[v].att} \ {None}]
    BY <1>1 DEF StopGetVolume, AnyOf, NamedVolumes
  <2> DEFINE ids == IF v = None THEN {} ELSE {launch[v].att} \ {None}
             o == [op[p] EXCEPT !.vol = v, !.pc = "stopENI", !.ids = ids]
  <2>2. ids \in SUBSET Launches
    BY UpdateTypes DEF Launch
  <2>3. op' = [op EXCEPT ![p] = o]
    BY <2>1 DEF TypeOK
  <2> HIDE DEF ids
  <2>4. o \in Op
    BY <1>0, <2>2 DEF Op
  <2> HIDE DEF o
  <2>5. op' \in [Procs -> Op]
    BY <2>3, <2>4, LocalsType
  <2>6. QED
    BY <1>1, <2>5 DEF StopGetVolume, aws, TypeOK
<1>2. CASE StopGetENI(p)
  <2>1. PICK e \in Enis \cup {None}, pc \in {"findByName", "eniHolder"} :
            op' = [op EXCEPT ![p].eni = e, ![p].pc = pc]
    BY <1>2 DEF StopGetENI, AnyOf, NamedEnis
  <2> DEFINE o == [op[p] EXCEPT !.eni = e, !.pc = pc]
  <2>2. o \in Op
    BY <1>0 DEF Op
  <2>3. op' = [op EXCEPT ![p] = o]
    BY <2>1 DEF TypeOK
  <2> HIDE DEF o
  <2>4. op' \in [Procs -> Op]
    BY <2>2, <2>3, LocalsType
  <2>5. QED
    BY <1>2, <2>4 DEF StopGetENI, aws, TypeOK
<1>3. CASE FindInstancesByName(p) \/ EniHolder(p)
  <2>1. PICK ids \in SUBSET Launches, pc \in {"eniHolder", "openRequests"} :
            op' = [op EXCEPT ![p].ids = ids, ![p].pc = pc]
    <3>1. CASE FindInstancesByName(p)
      BY <3>1 DEF FindInstancesByName, NamedInstances
    <3>2. CASE EniHolder(p)
      <4> DEFINE ids == IF op[p].eni = None THEN op[p].ids
                        ELSE op[p].ids \cup ({holder[op[p].eni]} \ {None})
      <4>1. op' = [op EXCEPT ![p].ids = ids, ![p].pc = "openRequests"]
        BY <3>2 DEF EniHolder, TypeOK
      <4>2. ids \in SUBSET Launches
        BY <1>0 DEF TypeOK, Op
      <4> HIDE DEF ids
      <4>3. QED
        BY <4>1, <4>2
    <3>3. QED
      BY <1>3, <3>1, <3>2
  <2> DEFINE o == [op[p] EXCEPT !.ids = ids, !.pc = pc]
  <2>2. o \in Op
    BY <1>0 DEF Op
  <2>3. op' = [op EXCEPT ![p] = o]
    BY <2>1 DEF TypeOK
  <2> HIDE DEF o
  <2>4. op' \in [Procs -> Op]
    BY <2>2, <2>3, LocalsType
  <2>5. QED
    BY <1>3, <2>4 DEF FindInstancesByName, EniHolder, aws, TypeOK
<1>4. CASE OpenSpotRequests(p)
  <2> DEFINE o == [op[p] EXCEPT !.reqs = OpenRequests, !.looked = TRUE,
                                !.pc = "cancelRequests"]
  <2>1. OpenRequests \in SUBSET Launches
    BY DEF OpenRequests
  <2>2. o \in Op
    BY <1>0, <2>1 DEF Op
  <2>3. op' = [op EXCEPT ![p] = o]
    BY <1>4 DEF OpenSpotRequests, TypeOK
  <2> HIDE DEF o
  <2>4. op' \in [Procs -> Op]
    BY <2>2, <2>3, LocalsType
  <2>5. QED
    BY <1>4, <2>4 DEF OpenSpotRequests, aws, TypeOK
<1>5. CASE OpenSpotRequestsFails(p) \/ AwaitTerminated(p)
           \/ AwaitVolumeAvailable(p)
  BY <1>5, MoveType DEF OpenSpotRequestsFails, AwaitTerminated,
                        AwaitVolumeAvailable
<1>6. CASE CancelSpotRequests(p)
  <2>1. launch' \in [Launches -> Launch]
    BY <1>6, CancelSetType DEF CancelSpotRequests
  <2>2. op' \in [Procs -> Op]
    <3>1. CASE op[p].ids = {}
      BY <1>6, <3>1, StopReturnsType DEF CancelSpotRequests
    <3>2. CASE op[p].ids # {}
      <4> DEFINE o == [op[p] EXCEPT !.left = op[p].ids, !.reqs = {},
                                    !.pc = "nextInstance"]
      <4>1. o \in Op
        BY <1>0 DEF Op
      <4>2. op' = [op EXCEPT ![p] = o]
        BY <1>6, <3>2 DEF CancelSpotRequests, TypeOK
      <4> HIDE DEF o
      <4>3. QED
        BY <4>1, <4>2, LocalsType
    <3>3. QED
      BY <3>1, <3>2
  <2>3. QED
    BY <1>6, <2>1, <2>2 DEF CancelSpotRequests, TypeOK
<1>7. CASE CancelInstanceRequest(p)
  <2>1. PICK l \in Launches :
            /\ launch' = [launch EXCEPT ![l].req = Cancelled(@)]
            /\ op' = [op EXCEPT ![p].cur = l, ![p].pc = "terminate"]
    BY <1>0, <1>7 DEF CancelInstanceRequest, Op
  <2> DEFINE o == [op[p] EXCEPT !.cur = l, !.pc = "terminate"]
  <2>2. o \in Op
    BY <1>0 DEF Op
  <2>3. op' = [op EXCEPT ![p] = o]
    BY <2>1 DEF TypeOK
  <2> HIDE DEF o
  <2>4. op' \in [Procs -> Op]
    BY <2>2, <2>3, LocalsType
  <2>5. launch' \in [Launches -> Launch]
    <3>1. None \in Names
      BY DEF Names
    <3>2. QED
      BY <2>1, <3>1, EditTypes
  <2>6. QED
    BY <1>7, <2>4, <2>5 DEF CancelInstanceRequest, TypeOK
<1>8. CASE TerminateInstance(p)
  <2> DEFINE c == op[p].cur
             L == op[p].left \ {c}
             pc == IF op[p].left = {c} THEN "termWaiter" ELSE "nextInstance"
             o == [op[p] EXCEPT !.left = L, !.cur = None, !.pc = pc]
  <2>0. L \in SUBSET Launches /\ pc \in {"termWaiter", "nextInstance"}
    BY <1>0 DEF Op
  <2> HIDE DEF L, pc
  <2>1. o \in Op
    BY <1>0, <2>0 DEF Op
  <2> USE DEF L, pc
  <2>2. op' = [op EXCEPT ![p] = o]
    BY <1>8 DEF TerminateInstance, TypeOK
  <2>3. launch' = [launch EXCEPT ![c].inst = Shut(@)]
    BY <1>8 DEF TerminateInstance
  <2> HIDE DEF o, c
  <2>4. op' \in [Procs -> Op]
    BY <2>1, <2>2, LocalsType
  <2>5. launch' \in [Launches -> Launch]
    <3>1. None \in Names
      BY DEF Names
    <3>2. QED
      BY <2>3, <3>1, EditTypes
  <2>6. QED
    BY <1>8, <2>4, <2>5 DEF TerminateInstance, TypeOK
<1>9. CASE AwaitEniAvailable(p)
  BY <1>9, StopReturnsType DEF AwaitEniAvailable, aws, TypeOK
<1>10. QED
  BY <1>1, <1>2, <1>3, <1>4, <1>5, <1>6, <1>7, <1>8, <1>9 DEF StopStep

\* Every step keeps the types.
LEMMA TypeStep == ASSUME TypeOK, [Next]_vars PROVE TypeOK'
<1>1. CASE AwsStep
  BY <1>1, AwsType
<1>2. ASSUME NEW p \in Procs,
             BeginStart(p) \/ BeginStop(p) \/ BeginRestart(p)
      PROVE  TypeOK'
  BY <1>2, BeginType
<1>3. ASSUME NEW p \in Procs, WaiterFails(p) \/ Interrupted(p)
      PROVE  TypeOK'
  BY <1>3, MoveType DEF WaiterFails, Interrupted
<1>4. CASE UNCHANGED vars
  BY <1>4 DEF vars, TypeOK
<1>5. QED
  BY <1>1, <1>2, <1>3, <1>4, StartType, PersistType, StopType
     DEF Next, OpStep

\* Nothing is launched and nobody operates at first.
LEMMA TypeInit == Init => TypeOK
BY ConstantTypes DEF Init, TypeOK

\* Every state of a session and of the operations on it is well formed.
THEOREM TypeCorrect == Spec => []TypeOK
BY TypeInit, TypeStep, PTL DEF Spec

----------------------------------------------------------------------------
(* What is running can be found                                            *)

Running(l) == launch[l].inst \in Live \cup {"shutting"}
Wants(l) == launch[l].req = "open" \/ Running(l)

\* A request or an instance was given an interface that bears the session's
\* name, and an instance holds it until it is terminated.
LaunchesNamed ==
    \A l \in Launches :
        /\ Wants(l) => launch[l].eni \in NamedEnis
        /\ Running(l) => holder[launch[l].eni] = l

\* A Start that has its interface has one that is named, or is to be.
StartsNamed ==
    \A p \in Procs :
        /\ op[p].pc \in StartPCs => op[p].eni \in NamedEnis
        /\ op[p].pc = "tagENI" => op[p].eni \in Enis

NamedInv == LaunchesNamed /\ StartsNamed

\* Steps that start nothing: every request and instance was there before, and
\* so was every Start with its interface.
StartsNothing ==
    \A l \in Launches :
        /\ Wants(l)' => Wants(l) /\ launch'[l].eni = launch[l].eni
        /\ Running(l)' => Running(l)
SameStarts ==
    \A p \in Procs :
        /\ op'[p].pc \in StartPCs =>
               op[p].pc \in StartPCs /\ op'[p].eni = op[p].eni
        /\ op'[p].pc = "tagENI" =>
               op[p].pc = "tagENI" /\ op'[p].eni = op[p].eni

\* A step that starts nothing keeps the interfaces as they are tied.
LEMMA QuietStep ==
    ASSUME NamedInv, StartsNothing, SameStarts, UNCHANGED <<eni, holder>>
    PROVE  NamedInv'
<1>1. NamedEnis' = NamedEnis
  BY DEF NamedEnis
<1>2. LaunchesNamed'
  <2>1. ASSUME NEW l \in Launches, Wants(l)'
        PROVE  launch'[l].eni \in NamedEnis
    BY <2>1 DEF NamedInv, LaunchesNamed, StartsNothing
  <2>2. ASSUME NEW l \in Launches, Running(l)'
        PROVE  holder'[launch'[l].eni] = l
    BY <2>2 DEF NamedInv, LaunchesNamed, StartsNothing, Wants
  <2>3. QED
    BY <1>1, <2>1, <2>2 DEF LaunchesNamed
<1>3. StartsNamed'
  BY <1>1 DEF NamedInv, StartsNamed, SameStarts
<1>4. QED
  BY <1>2, <1>3 DEF NamedInv

\* An operation returns, or moves on within a Start or a Stop.
LEMMA SameStartsMove ==
    ASSUME TypeOK, NEW p \in Procs,
           \/ \E res : Return(p, res)
           \/ \E pc \in PCs \ {"tagENI"} :
                  /\ Goto(p, pc)
                  /\ pc \in StartPCs => op[p].pc \in StartPCs
    PROVE  SameStarts
<1>1. op[p] \in Op
  BY UpdateTypes
<1>2. CASE \E res : Return(p, res)
  BY <1>2 DEF Return, SameStarts, TypeOK, Idle, StartPCs
<1>3. CASE \E pc \in PCs \ {"tagENI"} :
              Goto(p, pc) /\ (pc \in StartPCs => op[p].pc \in StartPCs)
  <2>1. PICK pc \in PCs \ {"tagENI"} :
            Goto(p, pc) /\ (pc \in StartPCs => op[p].pc \in StartPCs)
    BY <1>3
  <2>2. op'[p].pc = pc /\ op'[p].eni = op[p].eni
    BY <1>1, <2>1 DEF Goto, TypeOK, Op
  <2>3. \A q \in Procs : q # p => op'[q] = op[q]
    BY <2>1 DEF Goto, TypeOK
  <2>4. QED
    BY <2>1, <2>2, <2>3 DEF SameStarts
<1>4. QED
  BY <1>2, <1>3

\* AWS gives an instance the interface its launch asked for, and takes it
\* away when it is terminated.
LEMMA AwsNamed == ASSUME TypeOK, NamedInv, AwsStep PROVE NamedInv'
<1>0. UNCHANGED op /\ SameStarts
  <2>1. UNCHANGED op
    BY DEF AwsStep, Fulfil, RequestFails, Boot, Chainload, Reclaim, Terminated,
           DetachVolume, Forget, DetachEni
  <2>2. QED
    BY <2>1 DEF SameStarts
<1>1. ASSUME NEW l \in Launches, Fulfil(l) PROVE NamedInv'
  <2> DEFINE e == launch[l].eni
  <2>1. e \in NamedEnis /\ holder[e] = None
    BY <1>1 DEF NamedInv, LaunchesNamed, Wants, Fulfil
  <2>2. /\ launch'[l].eni = e
        /\ \A m \in Launches : m # l => launch'[m] = launch[m]
        /\ holder' = [holder EXCEPT ![e] = l]
        /\ UNCHANGED eni
    BY <1>1, UpdateTypes DEF Fulfil, TypeOK, Launch
  <2>3. NamedEnis' = NamedEnis /\ e \in Enis
    BY <2>1, <2>2 DEF NamedEnis
  <2>4. ASSUME NEW m \in Launches
        PROVE  /\ Wants(m)' => launch'[m].eni \in NamedEnis
               /\ Running(m)' => holder'[launch'[m].eni] = m
    <3>1. CASE m = l
      BY <2>1, <2>2, <2>3, <3>1 DEF TypeOK
    <3>2. CASE m # l
      <4>1. /\ Wants(m)' <=> Wants(m)
            /\ Running(m)' <=> Running(m)
        BY <2>2, <3>2 DEF Wants, Running
      <4>2. Running(m) => launch[m].eni # e
        BY <2>1, NoneAssumption DEF NamedInv, LaunchesNamed
      <4>3. QED
        BY <2>2, <2>3, <3>2, <4>1, <4>2 DEF NamedInv, LaunchesNamed, TypeOK,
                                            NamedEnis, Wants
    <3>3. QED
      BY <3>1, <3>2
  <2>5. StartsNamed'
    BY <1>0, <2>3 DEF NamedInv, StartsNamed
  <2>6. QED
    BY <2>3, <2>4, <2>5 DEF NamedInv, LaunchesNamed
<1>2. ASSUME NEW l \in Launches,
             \/ RequestFails(l) \/ Boot(l) \/ Reclaim(l) \/ Terminated(l)
             \/ DetachVolume(l) \/ Forget(l)
      PROVE  NamedInv'
  <2>1. StartsNothing
    <3>1. \A m \in Launches : m # l => launch'[m] = launch[m]
      BY <1>2 DEF RequestFails, Boot, Reclaim, Terminated, DetachVolume,
                  Forget, TypeOK
    <3>2. /\ Wants(l)' => Wants(l) /\ launch'[l].eni = launch[l].eni
          /\ Running(l)' => Running(l)
      <4>1. CASE RequestFails(l)
        BY <4>1, UpdateTypes DEF RequestFails, TypeOK, Launch, Wants, Running
      <4>2. CASE Boot(l)
        BY <4>2, UpdateTypes DEF Boot, TypeOK, Launch, Wants, Running, Live
      <4>3. CASE Reclaim(l)
        BY <4>3, UpdateTypes
           DEF Reclaim, IsLive, TypeOK, Launch, Wants, Running
      <4>4. CASE Terminated(l)
        BY <4>4, UpdateTypes DEF Terminated, TypeOK, Launch, Wants, Running, Live
      <4>5. CASE DetachVolume(l)
        BY <4>5, UpdateTypes DEF DetachVolume, TypeOK, Launch, Wants, Running
      <4>6. CASE Forget(l)
        BY <4>6 DEF Forget, TypeOK, Wants, Running, Unused, Live
      <4>7. QED
        BY <1>2, <4>1, <4>2, <4>3, <4>4, <4>5, <4>6
    <3>3. QED
      BY <3>1, <3>2 DEF StartsNothing, Wants, Running
  <2>2. UNCHANGED <<eni, holder>>
    BY <1>2 DEF RequestFails, Boot, Reclaim, Terminated, DetachVolume, Forget
  <2>3. QED
    BY <1>0, <2>1, <2>2, QuietStep
<1>3. ASSUME NEW l \in Launches, Chainload(l) PROVE NamedInv'
  <2> DEFINE v == launch[l].chain
             one == [launch EXCEPT ![l].inst = "serving"]
  <2>1. launch' = one \/ launch' = [one EXCEPT ![v].att = l]
    BY <1>3 DEF Chainload
  <2>2. one \in [Launches -> Launch] /\ Running(l)
    BY <1>3, UpdateTypes
       DEF Chainload, TypeOK, Launch, InstanceStates, Live, Running
  <2>3. ASSUME NEW m \in Launches
        PROVE  /\ one[m].req = launch[m].req /\ one[m].eni = launch[m].eni
               /\ one[m].inst = IF m = l THEN "serving" ELSE launch[m].inst
    BY UpdateTypes DEF TypeOK, Launch
  <2> HIDE DEF one
  <2>4. ASSUME NEW m \in Launches
        PROVE  /\ launch'[m].req = one[m].req
               /\ launch'[m].eni = one[m].eni
               /\ launch'[m].inst = one[m].inst
    <3>1. one[m] \in Launch
      BY <2>2
    <3>2. CASE launch' = one
      BY <3>2
    <3>3. CASE launch' = [one EXCEPT ![v].att = l]
      BY <2>2, <3>1, <3>3 DEF Launch
    <3>4. QED
      BY <2>1, <3>2, <3>3
  <2>5. StartsNothing
    BY <2>2, <2>3, <2>4 DEF StartsNothing, Wants, Running
  <2>6. QED
    BY <1>0, <1>3, <2>5, QuietStep DEF Chainload
<1>4. ASSUME NEW e \in Enis, DetachEni(e) PROVE NamedInv'
  <2>1. /\ launch[holder[e]].inst = "terminated"
        /\ holder' = [holder EXCEPT ![e] = None]
        /\ UNCHANGED <<launch, eni>>
    BY <1>4 DEF DetachEni
  <2>2. ASSUME NEW l \in Launches, Running(l)
        PROVE  launch[l].eni # e
    BY <2>1, <2>2 DEF NamedInv, LaunchesNamed, Running, Live
  <2>3. QED
    BY <1>0, <2>1, <2>2 DEF NamedInv, LaunchesNamed, StartsNamed, NamedEnis,
                            Wants, Running, TypeOK
<1>5. QED
  BY <1>1, <1>2, <1>3, <1>4 DEF AwsStep

\* Cancelling, terminating and tagging start nothing.
LEMMA EditsStartNothing ==
    ASSUME TypeOK, NEW c, NEW n,
           \/ UNCHANGED launch
           \/ launch' = [launch EXCEPT ![c].req = Cancelled(@)]
           \/ launch' = [launch EXCEPT ![c].inst = Shut(@)]
           \/ launch' = [launch EXCEPT ![c].keep = TRUE]
           \/ launch' = [launch EXCEPT ![c].volTag = n]
           \/ launch' = [launch EXCEPT ![c].instTag = n]
    PROVE  StartsNothing
<1>1. ASSUME NEW l \in Launches
      PROVE  /\ launch'[l].req \in {launch[l].req, Cancelled(launch[l].req)}
             /\ launch'[l].inst \in {launch[l].inst, Shut(launch[l].inst)}
             /\ launch'[l].eni = launch[l].eni
  <2>0. launch[l] \in Launch
    BY UpdateTypes
  <2>1. CASE UNCHANGED launch
    BY <2>1
  <2>2. CASE launch' = [launch EXCEPT ![c].req = Cancelled(@)]
    BY <2>0, <2>2 DEF TypeOK, Launch
  <2>3. CASE launch' = [launch EXCEPT ![c].inst = Shut(@)]
    BY <2>0, <2>3 DEF TypeOK, Launch
  <2>4. CASE launch' = [launch EXCEPT ![c].keep = TRUE]
    BY <2>0, <2>4 DEF TypeOK, Launch
  <2>5. CASE launch' = [launch EXCEPT ![c].volTag = n]
    BY <2>0, <2>5 DEF TypeOK, Launch
  <2>6. CASE launch' = [launch EXCEPT ![c].instTag = n]
    BY <2>0, <2>6 DEF TypeOK, Launch
  <2>7. QED
    BY <2>1, <2>2, <2>3, <2>4, <2>5, <2>6
<1>2. ASSUME NEW l \in Launches
      PROVE  /\ launch'[l].req = "open" => launch[l].req = "open"
             /\ Running(l)' => Running(l)
  BY <1>1 DEF Cancelled, Shut, Running, Live
<1>3. QED
  BY <1>1, <1>2 DEF StartsNothing, Wants

\* An operation that begins has no interface yet.
LEMMA BeginNamed ==
    ASSUME TypeOK, NamedInv, NEW p \in Procs,
           BeginStart(p) \/ BeginStop(p) \/ BeginRestart(p)
    PROVE  NamedInv'
<1>1. /\ op'[p].pc \in {"GetENI", "stopVolume"}
      /\ \A q \in Procs : q # p => op'[q] = op[q]
      /\ UNCHANGED aws
  BY DEF BeginStart, BeginStop, BeginRestart, TypeOK, Idle
<1>2. SameStarts
  BY <1>1 DEF SameStarts, StartPCs
<1>3. StartsNothing
  BY <1>1 DEF aws, StartsNothing, Wants, Running
<1>4. QED
  BY <1>1, <1>2, <1>3, QuietStep DEF aws

\* A Start gets its interface.
LEMMA EniNamed ==
    ASSUME TypeOK, NamedInv, NEW p \in Procs, GetENI(p) \/ TagENI(p)
    PROVE  NamedInv'
<1>1. /\ NamedEnis \subseteq NamedEnis'
      /\ UNCHANGED <<launch, holder>>
  BY DEF GetENI, TagENI, NamedEnis, aws, TypeOK
<1>2. LaunchesNamed'
  BY <1>1 DEF NamedInv, LaunchesNamed, Wants, Running
<1>3. \A q \in Procs : q # p => op'[q] = op[q]
  BY DEF GetENI, TagENI, Goto, TypeOK
<1>4. /\ op'[p].pc \in StartPCs => op'[p].eni \in NamedEnis'
      /\ op'[p].pc = "tagENI" => op'[p].eni \in Enis
  <2>0. op[p] \in Op
    BY UpdateTypes
  <2>1. CASE GetENI(p)
    <3>1. CASE NamedEnis # {}
      <4>1. PICK e \in NamedEnis :
                op' = [op EXCEPT ![p].eni = e, ![p].pc = "GetVolume"]
        BY <2>1, <3>1 DEF GetENI
      <4>2. op'[p].eni = e /\ op'[p].pc = "GetVolume"
        BY <2>0, <4>1 DEF TypeOK, Op
      <4>3. QED
        BY <1>1, <4>2
    <3>2. CASE NamedEnis = {}
      <4>1. PICK e \in Enis :
                op' = [op EXCEPT ![p].eni = e, ![p].pc = "tagENI"]
        BY <2>1, <3>2 DEF GetENI
      <4>2. op'[p].eni = e /\ op'[p].pc = "tagENI"
        BY <2>0, <4>1 DEF TypeOK, Op
      <4>3. QED
        BY <4>2 DEF StartPCs
    <3>3. QED
      BY <3>1, <3>2
  <2>2. CASE TagENI(p)
    <3>1. op'[p].eni = op[p].eni /\ op'[p].pc = "GetVolume"
      BY <2>0, <2>2 DEF TagENI, Goto, TypeOK, Op
    <3>2. op[p].eni \in Enis
      BY <2>2 DEF TagENI, At, NamedInv, StartsNamed
    <3>3. QED
      BY <2>2, <3>1, <3>2 DEF TagENI, NamedEnis, TypeOK
  <2>3. QED
    BY <2>1, <2>2
<1>5. QED
  BY <1>1, <1>2, <1>3, <1>4 DEF NamedInv, StartsNamed

\* A Start launches with its interface.
LEMMA LaunchNamed ==
    ASSUME TypeOK, NamedInv, NEW p \in Procs,
           RequestSpot(p) \/ RunInstances(p)
    PROVE  NamedInv'
<1>0. op[p] \in Op
  BY UpdateTypes
<1> DEFINE e == op[p].eni
<1>1. At(p, "launch") /\ e \in NamedEnis
  BY DEF RequestSpot, RunInstances, At, NamedInv, StartsNamed, StartPCs
<1>2. PICK l \in FreeLaunches :
          /\ launch'[l].eni = e
          /\ \A m \in Launches : m # l => launch'[m] = launch[m]
          /\ op'[p].eni = e /\ op'[p].pc \in StartPCs
          /\ op'[p].pc # "tagENI"
          /\ \/ launch'[l].inst = launch[l].inst /\ UNCHANGED holder
             \/ holder[e] = None /\ holder' = [holder EXCEPT ![e] = l]
  <2>1. CASE RequestSpot(p)
    <3>1. PICK l \in FreeLaunches :
              /\ launch' = [launch EXCEPT ![l].req = "open",
                                          ![l].reqTag = op[p].name,
                                          ![l].eni = op[p].eni,
                                          ![l].chain = op[p].vol]
              /\ op' = [op EXCEPT ![p].cur = l, ![p].pc = "fulfilledWaiter"]
      BY <2>1 DEF RequestSpot
    <3>2. l \in Launches /\ launch[l] \in Launch
      BY UpdateTypes DEF FreeLaunches
    <3>3. /\ launch'[l].eni = e /\ launch'[l].inst = launch[l].inst
          /\ \A m \in Launches : m # l => launch'[m] = launch[m]
      BY <3>1, <3>2 DEF TypeOK, Launch
    <3>4. op'[p].eni = e /\ op'[p].pc = "fulfilledWaiter"
      BY <1>0, <3>1 DEF TypeOK, Op
    <3>5. QED
      BY <2>1, <3>3, <3>4 DEF RequestSpot, StartPCs
  <2>2. CASE RunInstances(p)
    <3>1. PICK l \in FreeLaunches :
              /\ launch' = [launch EXCEPT ![l].inst = "pending",
                                          ![l].instTag = op[p].name,
                                          ![l].vol = "there", ![l].att = l,
                                          ![l].volTag = op[p].name,
                                          ![l].eni = op[p].eni,
                                          ![l].chain = op[p].vol]
              /\ holder' = [holder EXCEPT ![op[p].eni] = l]
              /\ op' = [op EXCEPT ![p].cur = l, ![p].pc = "runningWaiter"]
      BY <2>2 DEF RunInstances
    <3>2. l \in Launches /\ launch[l] \in Launch
      BY UpdateTypes DEF FreeLaunches
    <3>3. /\ launch'[l].eni = e
          /\ \A m \in Launches : m # l => launch'[m] = launch[m]
      BY <3>1, <3>2 DEF TypeOK, Launch
    <3>4. op'[p].eni = e /\ op'[p].pc = "runningWaiter"
      BY <1>0, <3>1 DEF TypeOK, Op
    <3>5. QED
      BY <2>2, <3>1, <3>3, <3>4 DEF RunInstances, StartPCs
  <2>3. QED
    BY <2>1, <2>2
<1>3. UNCHANGED eni /\ NamedEnis' = NamedEnis /\ e \in Enis
  BY <1>1 DEF RequestSpot, RunInstances, NamedEnis
<1>4. \A q \in Procs : q # p => op'[q] = op[q]
  BY DEF RequestSpot, RunInstances, TypeOK
<1>5. ~Wants(l) /\ ~Running(l) /\ l \in Launches
  BY DEF FreeLaunches, Unused, Wants, Running, Live
<1>6. ASSUME NEW m \in Launches
      PROVE  /\ Wants(m)' => launch'[m].eni \in NamedEnis
             /\ Running(m)' => holder'[launch'[m].eni] = m
  <2>1. CASE m = l
    <3>1. launch'[m].eni = e /\ holder' \in {holder, [holder EXCEPT ![e] = l]}
      BY <1>2, <2>1
    <3>2. Running(m)' => holder'[e] = m
      <4>1. CASE launch'[l].inst = launch[l].inst
        BY <1>5, <2>1, <4>1 DEF Running
      <4>2. CASE holder' = [holder EXCEPT ![e] = l]
        BY <1>3, <2>1, <4>2 DEF TypeOK
      <4>3. QED
        BY <1>2, <4>1, <4>2
    <3>3. QED
      BY <1>1, <3>1, <3>2
  <2>2. CASE m # l
    <3>1. launch'[m] = launch[m]
      BY <1>2, <2>2
    <3>2. (Wants(m)' <=> Wants(m)) /\ (Running(m)' <=> Running(m))
      BY <3>1 DEF Wants, Running
    <3>3. ASSUME Running(m) PROVE holder'[launch[m].eni] = m
      <4>1. /\ launch[m].eni \in Enis
            /\ holder[launch[m].eni] = m
            /\ m # None
        BY <3>3, NoneAssumption DEF NamedInv, LaunchesNamed, Wants, NamedEnis
      <4>2. QED
        BY <1>2, <4>1 DEF TypeOK
    <3>4. QED
      BY <3>1, <3>2, <3>3 DEF NamedInv, LaunchesNamed
  <2>3. QED
    BY <2>1, <2>2
<1>7. StartsNamed'
  BY <1>1, <1>2, <1>3, <1>4 DEF NamedInv, StartsNamed
<1>8. QED
  BY <1>3, <1>6, <1>7 DEF NamedInv, LaunchesNamed

\* Each step of a Start launches with the named interface it has got.
LEMMA StartNamed ==
    ASSUME TypeOK, NamedInv, NEW p \in Procs, StartStep(p)
    PROVE  NamedInv'
<1>1. CASE GetENI(p) \/ TagENI(p)
  BY <1>1, EniNamed
<1>2. CASE RequestSpot(p) \/ RunInstances(p)
  BY <1>2, LaunchNamed
<1>3. CASE StartGetVolume(p)
  <2>1. op[p] \in Op
    BY UpdateTypes
  <2>2. PICK v : IF v # None /\ launch[v].att # None
                 THEN Return(p, "already")
                 ELSE op' = [op EXCEPT ![p].vol = v, ![p].temp = (v = None),
                                       ![p].pc = "launch"]
    BY <1>3 DEF StartGetVolume
  <2>3. /\ \A q \in Procs : q # p => op'[q] = op[q]
        /\ \/ op'[p].pc = "launch" /\ op'[p].eni = op[p].eni
           \/ op'[p].pc = "idle"
    BY <2>1, <2>2 DEF Return, Idle, TypeOK, Op
  <2>4. SameStarts
    BY <1>3, <2>3 DEF SameStarts, StartGetVolume, At, StartPCs
  <2>5. StartsNothing
    BY <1>3 DEF StartGetVolume, aws, StartsNothing, Wants, Running
  <2>6. QED
    BY <1>3, <2>4, <2>5, QuietStep DEF StartGetVolume, aws
<1>4. CASE \/ LaunchRefused(p) \/ AwaitFulfilled(p) \/ FulfilmentFails(p)
           \/ AwaitRunning(p) \/ AwaitStatusOk(p) \/ AwaitInUse(p)
           \/ VerifyVolumeAttachedTo(p)
  <2>1. \/ \E res : Return(p, res)
        \/ \E pc \in PCs \ {"tagENI"} :
              Goto(p, pc) /\ (pc \in StartPCs => op[p].pc \in StartPCs)
    BY <1>4 DEF LaunchRefused, AwaitFulfilled, FulfilmentFails, AwaitRunning,
                AwaitStatusOk, AwaitInUse, VerifyVolumeAttachedTo, At, PCs,
                StartPCs
  <2>2. SameStarts
    BY <2>1, SameStartsMove
  <2>3. UNCHANGED aws
    BY <1>4 DEF LaunchRefused, AwaitFulfilled, FulfilmentFails, AwaitRunning,
                AwaitStatusOk, AwaitInUse, VerifyVolumeAttachedTo
  <2>4. StartsNothing
    BY <2>3 DEF aws, StartsNothing, Wants, Running
  <2>5. QED
    BY <2>2, <2>3, <2>4, QuietStep DEF aws
<1>5. CASE CancelUnfulfilled(p) \/ TagInstance(p)
  <2>1. StartsNothing
    <3> DEFINE c == op[p].cur
    <3>1. \/ launch' = [launch EXCEPT ![c].req = Cancelled(@)]
          \/ launch' = [launch EXCEPT ![c].instTag = op[p].name]
      BY <1>5 DEF CancelUnfulfilled, TagInstance
    <3> HIDE DEF c
    <3>2. QED
      BY <3>1, EditsStartNothing
  <2>2. \/ \E res : Return(p, res)
        \/ \E pc \in PCs \ {"tagENI"} :
              Goto(p, pc) /\ (pc \in StartPCs => op[p].pc \in StartPCs)
    BY <1>5 DEF CancelUnfulfilled, TagInstance, At, PCs, StartPCs
  <2>3. SameStarts
    BY <2>2, SameStartsMove
  <2>4. QED
    BY <1>5, <2>1, <2>3, QuietStep DEF CancelUnfulfilled, TagInstance
<1>6. QED
  BY <1>1, <1>2, <1>3, <1>4, <1>5 DEF StartStep

\* Making the volume persistent ties no interface.
LEMMA PersistNamed ==
    ASSUME TypeOK, NamedInv, NEW p \in Procs, PersistStep(p)
    PROVE  NamedInv'
<1>1. UNCHANGED <<eni, holder>> /\ op[p].pc \in StartPCs
  BY DEF PersistStep, ModifyInstanceAttribute, TagVolume, PersistFails,
         CancelTemp, TerminateTemp, AwaitTempTerminated, AwaitTempVolume, aws,
         At, StartPCs
<1>2. StartsNothing
  <2> DEFINE c == op[p].cur
  <2>1. \/ UNCHANGED launch
        \/ launch' = [launch EXCEPT ![c].req = Cancelled(@)]
        \/ launch' = [launch EXCEPT ![c].inst = Shut(@)]
        \/ launch' = [launch EXCEPT ![c].keep = TRUE]
        \/ launch' = [launch EXCEPT ![c].volTag = AWSName]
    BY DEF PersistStep, ModifyInstanceAttribute, TagVolume, PersistFails,
           CancelTemp, TerminateTemp, AwaitTempTerminated, AwaitTempVolume, aws
  <2> HIDE DEF c
  <2>2. QED
    BY <2>1, EditsStartNothing
<1>3. SameStarts
  <2>1. op[p] \in Op
    BY UpdateTypes
  <2>2. /\ \A q \in Procs : q # p => op'[q] = op[q]
        /\ op'[p].pc # "tagENI"
        /\ op'[p].pc = "idle" \/ op'[p].eni = op[p].eni
    <3>1. CASE PersistFails(p)
      BY <2>1, <3>1 DEF PersistFails, TypeOK, Op
    <3>2. CASE AwaitTempVolume(p)
      BY <2>1, <3>2 DEF AwaitTempVolume, TypeOK, Op
    <3>3. CASE \/ ModifyInstanceAttribute(p) \/ TagVolume(p)
               \/ CancelTemp(p) \/ TerminateTemp(p)
               \/ AwaitTempTerminated(p)
      BY <2>1, <3>3 DEF ModifyInstanceAttribute, TagVolume, CancelTemp,
             TerminateTemp, AwaitTempTerminated, Goto, Return, Idle, TypeOK, Op
    <3>4. QED
      BY <3>1, <3>2, <3>3 DEF PersistStep
  <2>3. QED
    BY <1>1, <2>2 DEF SameStarts, StartPCs
<1>4. QED
  BY <1>1, <1>2, <1>3, QuietStep

\* A step of a Stop goes on to another, or to a restart's Start.
LEMMA StopMoves ==
    ASSUME TypeOK, NEW p \in Procs, StopStep(p)
    PROVE  /\ \A q \in Procs : q # p => op'[q] = op[q]
           /\ op'[p].pc \in StopPCs \cup {"idle", "GetENI"}
<1>0. op[p] \in Op
  BY UpdateTypes
<1>1. CASE StopGetVolume(p) \/ StopGetENI(p)
  <2>1. CASE StopGetVolume(p)
    BY <1>0, <2>1 DEF StopGetVolume, TypeOK, Op, StopPCs
  <2>2. CASE StopGetENI(p)
    BY <1>0, <2>2 DEF StopGetENI, TypeOK, Op, StopPCs
  <2>3. QED
    BY <1>1, <2>1, <2>2
<1>2. CASE FindInstancesByName(p) \/ EniHolder(p)
  BY <1>0, <1>2 DEF FindInstancesByName, EniHolder, TypeOK, Op, StopPCs
<1>3. CASE OpenSpotRequests(p) \/ CancelInstanceRequest(p)
           \/ TerminateInstance(p)
  <2>1. CASE OpenSpotRequests(p)
    BY <1>0, <2>1 DEF OpenSpotRequests, TypeOK, Op, StopPCs
  <2>2. CASE CancelInstanceRequest(p)
    BY <1>0, <2>2 DEF CancelInstanceRequest, TypeOK, Op, StopPCs
  <2>3. CASE TerminateInstance(p)
    BY <1>0, <2>3 DEF TerminateInstance, TypeOK, Op, StopPCs
  <2>4. QED
    BY <1>3, <2>1, <2>2, <2>3
<1>4. CASE OpenSpotRequestsFails(p) \/ AwaitTerminated(p)
           \/ AwaitVolumeAvailable(p)
  BY <1>0, <1>4 DEF OpenSpotRequestsFails, AwaitTerminated,
                    AwaitVolumeAvailable, Goto, TypeOK, Op, StopPCs
<1>5. CASE CancelSpotRequests(p)
  <2>1. CASE StopReturns(p)
    BY <2>1 DEF StopReturns, Idle, TypeOK
  <2>2. CASE op' = [op EXCEPT ![p].left = op[p].ids, ![p].reqs = {},
                              ![p].pc = "nextInstance"]
    BY <1>0, <2>2 DEF TypeOK, Op, StopPCs
  <2>3. QED
    BY <1>5, <2>1, <2>2 DEF CancelSpotRequests
<1>6. CASE AwaitEniAvailable(p)
  BY <1>0, <1>6 DEF AwaitEniAvailable, StopReturns, Idle, TypeOK
<1>7. QED
  BY <1>1, <1>2, <1>3, <1>4, <1>5, <1>6 DEF StopStep

\* A Stop only ends requests and instances.
LEMMA StopNamed ==
    ASSUME TypeOK, NamedInv, NEW p \in Procs, StopStep(p)
    PROVE  NamedInv'
<1>1. UNCHANGED <<eni, holder>>
  BY DEF StopStep, StopGetVolume, StopGetENI, FindInstancesByName, EniHolder,
         OpenSpotRequests, OpenSpotRequestsFails, CancelSpotRequests,
         CancelInstanceRequest, TerminateInstance, AwaitTerminated,
         AwaitVolumeAvailable, AwaitEniAvailable, aws
<1>2. StartsNothing
  <2>1. CASE CancelSpotRequests(p)
    <3>1. ASSUME NEW l \in Launches
          PROVE  \/ launch'[l] = launch[l]
                 \/ launch'[l] = [launch[l] EXCEPT
                                     !.req = Cancelled(launch[l].req)]
      BY <2>1 DEF CancelSpotRequests
    <3>2. ASSUME NEW l \in Launches
          PROVE  /\ launch'[l].req = "open" => launch[l].req = "open"
                 /\ launch'[l].inst = launch[l].inst
                 /\ launch'[l].eni = launch[l].eni
      <4>1. launch[l] \in Launch
        BY UpdateTypes
      <4>2. QED
        BY <3>1, <4>1 DEF Launch, Cancelled
    <3>3. QED
      BY <3>2 DEF StartsNothing, Wants, Running
  <2>2. CASE ~CancelSpotRequests(p)
    <3>1. PICK c : \/ UNCHANGED launch
                   \/ launch' = [launch EXCEPT ![c].req = Cancelled(@)]
                   \/ launch' = [launch EXCEPT ![c].inst = Shut(@)]
      BY <2>2 DEF StopStep, StopGetVolume, StopGetENI, FindInstancesByName,
         EniHolder, OpenSpotRequests, OpenSpotRequestsFails,
         CancelInstanceRequest, TerminateInstance, AwaitTerminated,
         AwaitVolumeAvailable, AwaitEniAvailable, aws
    <3>2. QED
      BY <3>1, EditsStartNothing
  <2>3. QED
    BY <2>1, <2>2
<1>3. SameStarts
  BY StopMoves DEF SameStarts, StartPCs, StopPCs
<1>4. QED
  BY <1>1, <1>2, <1>3, QuietStep

\* Every step keeps live instances tied to named interfaces.
LEMMA NamedStep ==
    ASSUME TypeOK, NamedInv, [Next]_vars
    PROVE  NamedInv'
<1>1. CASE AwsStep
  BY <1>1, AwsNamed
<1>2. ASSUME NEW p \in Procs, WaiterFails(p) \/ Interrupted(p)
      PROVE  NamedInv'
  <2>1. SameStarts
    BY <1>2, SameStartsMove DEF WaiterFails, Interrupted
  <2>2. UNCHANGED aws
    BY <1>2 DEF WaiterFails, Interrupted
  <2>3. StartsNothing
    BY <2>2 DEF aws, StartsNothing, Wants, Running
  <2>4. QED
    BY <2>1, <2>2, <2>3, QuietStep DEF aws
<1>3. CASE UNCHANGED vars
  <2>1. StartsNothing /\ SameStarts
    BY <1>3 DEF vars, StartsNothing, SameStarts, Wants, Running
  <2>2. QED
    BY <1>3, <2>1, QuietStep DEF vars
<1>4. QED
  BY <1>1, <1>2, <1>3, BeginNamed, StartNamed, PersistNamed, StopNamed
     DEF Next, OpStep

\* Whatever was interrupted, a live instance holds an interface that bears the
\* session's name, so Stop finds it, also when it was never tagged: with any
\* number of processes, and whether or not they share the session's lock.
THEOREM OrphansAreReachable == Spec => []OrphanReachable
<1>1. Init => NamedInv
  BY DEF Init, NamedInv, LaunchesNamed, StartsNamed, Wants, Running, Unused,
         Idle, Live, StartPCs
<1>2. NamedInv => OrphanReachable
  BY DEF NamedInv, LaunchesNamed, OrphanReachable, LiveInstances, IsLive,
         Wants, Running
<1>3. QED
  BY <1>1, <1>2, NamedStep, TypeCorrect, PTL DEF Spec

----------------------------------------------------------------------------
(* What an instance chainloads from is kept                                *)

Kept(v) == launch[v].vol = "there" /\ launch[v].keep

\* Only what exists is attached, and a volume that is to go with its instance
\* has not been detached from it.
VolumeOk(v) ==
    /\ launch[v].att # None => launch[v].vol = "there"
    /\ launch[v].vol = "there" /\ ~launch[v].keep => launch[v].att = v

Chains(l) == launch[l].chain # None /\ (launch[l].req = "open" \/ IsLive(l))

\* The volume a Start is about to launch from was free, or freed by it.
PicksKept ==
    \A p \in Procs :
        op[p].pc = "launch" /\ op[p].vol # None => Kept(op[p].vol)

KeptInv ==
    /\ \A v \in Launches : VolumeOk(v)
    /\ \A l \in Launches : Chains(l) => Kept(launch[l].chain)
    /\ PicksKept

\* Steps that keep every kept volume and make no instance need another one.
KeepsVolumes ==
    \A l \in Launches :
        /\ Kept(l) => Kept(l)'
        /\ VolumeOk(l)'
        /\ Chains(l)' => Chains(l) /\ launch'[l].chain = launch[l].chain
SamePicks ==
    \A p \in Procs :
        op'[p].pc = "launch" /\ op'[p].vol # None =>
            op[p].pc = "launch" /\ op'[p].vol = op[p].vol

\* A step that leaves the volumes keeps what instances chainload from.
LEMMA QuietVolumes ==
    ASSUME TypeOK, KeptInv, KeepsVolumes, SamePicks PROVE KeptInv'
<1>1. ASSUME NEW l \in Launches, Chains(l)' PROVE Kept(launch[l].chain)'
  <2>1. Chains(l) /\ launch'[l].chain = launch[l].chain
    BY <1>1 DEF KeepsVolumes
  <2>2. launch[l].chain \in Launches
    BY <2>1, UpdateTypes DEF Chains, Launch
  <2>3. QED
    BY <2>1, <2>2 DEF KeptInv, KeepsVolumes, Kept
<1>2. ASSUME NEW p \in Procs, op'[p].pc = "launch", op'[p].vol # None
      PROVE  Kept(op[p].vol)'
  <2>1. op[p].pc = "launch" /\ op'[p].vol = op[p].vol
    BY <1>2 DEF SamePicks
  <2>2. op[p].vol \in Launches
    BY <1>2, <2>1, UpdateTypes DEF Op
  <2>3. QED
    BY <1>2, <2>1, <2>2 DEF KeptInv, PicksKept, KeepsVolumes, Kept
<1>3. QED
  BY <1>1, <1>2 DEF KeptInv, PicksKept, KeepsVolumes

\* Cancelling, terminating, tagging and keeping volumes lose none.
LEMMA EditsKeepVolumes ==
    ASSUME TypeOK, KeptInv, NEW c, NEW n,
           \/ UNCHANGED launch
           \/ launch' = [launch EXCEPT ![c].req = Cancelled(@)]
           \/ launch' = [launch EXCEPT ![c].inst = Shut(@)]
           \/ launch' = [launch EXCEPT ![c].keep = TRUE]
           \/ launch' = [launch EXCEPT ![c].volTag = n]
           \/ launch' = [launch EXCEPT ![c].instTag = n]
    PROVE  KeepsVolumes
<1>1. ASSUME NEW l \in Launches
      PROVE  /\ launch'[l].req \in {launch[l].req, Cancelled(launch[l].req)}
             /\ launch'[l].inst \in {launch[l].inst, Shut(launch[l].inst)}
             /\ launch'[l].vol = launch[l].vol
             /\ launch'[l].att = launch[l].att
             /\ launch'[l].chain = launch[l].chain
             /\ launch'[l].keep \in {launch[l].keep, TRUE}
  <2>0. launch[l] \in Launch
    BY UpdateTypes
  <2>1. CASE UNCHANGED launch
    BY <2>1
  <2>2. CASE launch' = [launch EXCEPT ![c].req = Cancelled(@)]
    BY <2>0, <2>2 DEF TypeOK, Launch
  <2>3. CASE launch' = [launch EXCEPT ![c].inst = Shut(@)]
    BY <2>0, <2>3 DEF TypeOK, Launch
  <2>4. CASE launch' = [launch EXCEPT ![c].keep = TRUE]
    BY <2>0, <2>4 DEF TypeOK, Launch
  <2>5. CASE launch' = [launch EXCEPT ![c].volTag = n]
    BY <2>0, <2>5 DEF TypeOK, Launch
  <2>6. CASE launch' = [launch EXCEPT ![c].instTag = n]
    BY <2>0, <2>6 DEF TypeOK, Launch
  <2>7. QED
    BY <2>1, <2>2, <2>3, <2>4, <2>5, <2>6
<1>2. ASSUME NEW l \in Launches
      PROVE  /\ Kept(l) => Kept(l)'
             /\ VolumeOk(l)'
             /\ Chains(l)' => Chains(l)
  <2>1. VolumeOk(l)
    BY DEF KeptInv
  <2>2. /\ launch'[l].req = "open" => launch[l].req = "open"
        /\ IsLive(l)' => IsLive(l)
    BY <1>1 DEF Cancelled, Shut, IsLive, Live
  <2>3. QED
    BY <1>1, <2>1, <2>2 DEF Kept, VolumeOk, Chains
<1>3. QED
  BY <1>1, <1>2 DEF KeepsVolumes

\* AWS deletes no volume that is kept.
LEMMA AwsKept == ASSUME TypeOK, KeptInv, AwsStep PROVE KeptInv'
<1>1. SamePicks
  BY DEF AwsStep, Fulfil, RequestFails, Boot, Chainload, Reclaim, Terminated,
         DetachVolume, Forget, DetachEni, SamePicks
<1>2. ASSUME NEW l \in Launches,
             \/ Fulfil(l) \/ RequestFails(l) \/ Boot(l) \/ Reclaim(l)
             \/ Terminated(l) \/ DetachVolume(l)
      PROVE  KeepsVolumes
  <2>0. launch[l] \in Launch
    BY UpdateTypes
  <2>1. \A m \in Launches : m # l => launch'[m] = launch[m]
    BY <1>2 DEF Fulfil, RequestFails, Boot, Reclaim, Terminated, DetachVolume,
                TypeOK
  <2>2. VolumeOk(l)
    BY DEF KeptInv
  <2>3. /\ Kept(l) => Kept(l)'
        /\ VolumeOk(l)'
        /\ Chains(l)' => Chains(l) /\ launch'[l].chain = launch[l].chain
    <3>1. CASE Fulfil(l)
      BY <2>0, <2>2, <3>1
         DEF Fulfil, TypeOK, Launch, Kept, VolumeOk, Chains, IsLive, Live
    <3>2. CASE RequestFails(l)
      BY <2>0, <2>2, <3>2
         DEF RequestFails, TypeOK, Launch, Kept, VolumeOk, Chains, IsLive
    <3>3. CASE Boot(l)
      BY <2>0, <2>2, <3>3
         DEF Boot, TypeOK, Launch, Kept, VolumeOk, Chains, IsLive, Live
    <3>4. CASE Reclaim(l)
      BY <2>0, <2>2, <3>4
         DEF Reclaim, TypeOK, Launch, Kept, VolumeOk, Chains, IsLive, Live
    <3>5. CASE Terminated(l)
      BY <2>0, <2>2, <3>5
         DEF Terminated, TypeOK, Launch, Kept, VolumeOk, Chains, IsLive, Live
    <3>6. CASE DetachVolume(l)
      BY <2>0, <2>2, <3>6
         DEF DetachVolume, TypeOK, Launch, Kept, VolumeOk, Chains, IsLive
    <3>7. QED
      BY <1>2, <3>1, <3>2, <3>3, <3>4, <3>5, <3>6
  <2>4. ASSUME NEW m \in Launches, m # l
        PROVE  /\ Kept(m) => Kept(m)'
               /\ VolumeOk(m)'
               /\ Chains(m)' => Chains(m) /\ launch'[m].chain = launch[m].chain
    BY <2>1, <2>4 DEF KeptInv, Kept, VolumeOk, Chains, IsLive
  <2>5. QED
    BY <2>3, <2>4 DEF KeepsVolumes
<1>3. ASSUME NEW l \in Launches, Chainload(l) PROVE KeepsVolumes
  <2> DEFINE v == launch[l].chain
             one == [launch EXCEPT ![l].inst = "serving"]
  <2>1. \/ launch' = one
        \/ /\ launch' = [one EXCEPT ![v].att = l]
           /\ launch[v].vol = "there" /\ launch[v].att = None
    BY <1>3 DEF Chainload
  <2>2. /\ one \in [Launches -> Launch] /\ IsLive(l)
        /\ v \in Launches /\ launch[l] \in Launch
    BY <1>3, UpdateTypes
       DEF Chainload, TypeOK, Launch, InstanceStates, Live, IsLive
  <2>3. ASSUME NEW m \in Launches
        PROVE  /\ one[m].req = launch[m].req /\ one[m].keep = launch[m].keep
               /\ one[m].vol = launch[m].vol /\ one[m].att = launch[m].att
               /\ one[m].chain = launch[m].chain
               /\ one[m].inst = IF m = l THEN "serving" ELSE launch[m].inst
    BY UpdateTypes DEF TypeOK, Launch
  <2> HIDE DEF one, v
  <2>4. ASSUME NEW m \in Launches
        PROVE  /\ launch'[m].req = launch[m].req
               /\ launch'[m].keep = launch[m].keep
               /\ launch'[m].vol = launch[m].vol
               /\ launch'[m].chain = launch[m].chain
               /\ launch'[m].inst = IF m = l THEN "serving" ELSE launch[m].inst
               /\ \/ launch'[m].att = launch[m].att
                  \/ /\ launch[m].vol = "there" /\ launch[m].att = None
                     /\ launch'[m].att = l
    <3>1. one[m] \in Launch
      BY <2>2
    <3>2. CASE launch' = one
      BY <2>3, <3>2
    <3>3. CASE launch' = [one EXCEPT ![v].att = l] /\ m = v
      BY <2>1, <2>2, <2>3, <3>1, <3>3 DEF Launch
    <3>4. CASE launch' = [one EXCEPT ![v].att = l] /\ m # v
      BY <2>2, <2>3, <3>4
    <3>5. QED
      BY <2>1, <3>2, <3>3, <3>4
  <2>5. ASSUME NEW m \in Launches
        PROVE  /\ Kept(m) => Kept(m)'
               /\ VolumeOk(m)'
               /\ Chains(m)' => Chains(m) /\ launch'[m].chain = launch[m].chain
    <3>1. VolumeOk(m) /\ m # None
      BY NoneAssumption DEF KeptInv
    <3>2. QED
      BY <2>2, <2>4, <3>1 DEF Kept, VolumeOk, Chains, IsLive
  <2>6. QED
    BY <2>5 DEF KeepsVolumes
<1>4. ASSUME NEW l \in Launches, Forget(l) PROVE KeepsVolumes
  BY <1>4 DEF Forget, KeepsVolumes, KeptInv, TypeOK, Unused, Kept, VolumeOk,
              Chains, IsLive, Live
<1>5. ASSUME NEW e \in Enis, DetachEni(e) PROVE KeepsVolumes
  BY <1>5, EditsKeepVolumes DEF DetachEni
<1>6. KeepsVolumes
  BY <1>2, <1>3, <1>4, <1>5 DEF AwsStep
<1>7. QED
  BY <1>1, <1>6, QuietVolumes

\* An operation returns, or goes on to something other than a launch.
LEMMA SamePicksMove ==
    ASSUME TypeOK, NEW p \in Procs,
           \A q \in Procs : q # p => op'[q] = op[q],
           op'[p].pc # "launch"
    PROVE  SamePicks
BY DEF SamePicks

\* A Start launches from a volume that is kept.
LEMMA StartKept ==
    ASSUME TypeOK, KeptInv, NEW p \in Procs, StartStep(p) PROVE KeptInv'
<1>0. op[p] \in Op
  BY UpdateTypes
<1>1. \A q \in Procs : q # p => op'[q] = op[q]
  BY DEF StartStep, GetENI, TagENI, StartGetVolume, RequestSpot, RunInstances,
         LaunchRefused, AwaitFulfilled, FulfilmentFails, CancelUnfulfilled,
         TagInstance, AwaitRunning, AwaitStatusOk, AwaitInUse,
         VerifyVolumeAttachedTo, Goto, Return, TypeOK
<1>2. CASE StartGetVolume(p)
  <2>1. PICK v \in AnyOf(NamedVolumes) :
            IF v # None /\ launch[v].att # None
            THEN Return(p, "already")
            ELSE op' = [op EXCEPT ![p].vol = v, ![p].temp = (v = None),
                                  ![p].pc = "launch"]
    BY <1>2 DEF StartGetVolume
  <2>2. UNCHANGED launch
    BY <1>2 DEF StartGetVolume, aws
  <2>3. CASE v # None /\ launch[v].att # None
    <3>1. op'[p].pc = "idle"
      BY <2>1, <2>3 DEF Return, Idle, TypeOK
    <3>2. QED
      BY <1>1, <2>2, <3>1, SamePicksMove, EditsKeepVolumes, QuietVolumes
  <2>4. CASE ~(v # None /\ launch[v].att # None)
    <3>1. op'[p].vol = v
      BY <1>0, <2>1, <2>4 DEF TypeOK, Op
    <3>2. v # None => Kept(v)
      BY <2>1, <2>4 DEF AnyOf, NamedVolumes, KeptInv, VolumeOk, Kept
    <3>3. PicksKept'
      BY <1>1, <2>2, <3>1, <3>2 DEF KeptInv, PicksKept, Kept
    <3>4. QED
      BY <2>2, <3>3 DEF KeptInv, VolumeOk, Chains, Kept, IsLive
  <2>5. QED
    BY <2>3, <2>4
<1>3. CASE RequestSpot(p) \/ RunInstances(p)
  <2>1. PICK l \in FreeLaunches :
            \/ launch' = [launch EXCEPT ![l].req = "open",
                                        ![l].reqTag = op[p].name,
                                        ![l].eni = op[p].eni,
                                        ![l].chain = op[p].vol]
            \/ launch' = [launch EXCEPT ![l].inst = "pending",
                                        ![l].instTag = op[p].name,
                                        ![l].vol = "there", ![l].att = l,
                                        ![l].volTag = op[p].name,
                                        ![l].eni = op[p].eni,
                                        ![l].chain = op[p].vol]
    BY <1>3 DEF RequestSpot, RunInstances
  <2>2. /\ l \in Launches /\ launch[l] \in Launch /\ launch[l].vol = "none"
        /\ launch[l].att = None
    BY UpdateTypes DEF FreeLaunches, Unused
  <2>3. /\ \A m \in Launches : m # l => launch'[m] = launch[m]
        /\ launch'[l].chain = op[p].vol
        /\ \/ launch'[l].vol = "none" /\ launch'[l].att = None
           \/ launch'[l].vol = "there" /\ launch'[l].att = l
    BY <2>1, <2>2 DEF TypeOK, Launch
  <2>4. op[p].vol # None => Kept(op[p].vol) /\ op[p].vol \in Launches
    BY <1>0, <1>3
       DEF RequestSpot, RunInstances, At, KeptInv, PicksKept, Op
  <2>5. ASSUME NEW v \in Launches, Kept(v) PROVE Kept(v)'
    BY <2>2, <2>3, <2>5 DEF Kept
  <2>6. ASSUME NEW m \in Launches PROVE VolumeOk(m)'
    BY <2>2, <2>3 DEF KeptInv, VolumeOk
  <2>7. ASSUME NEW m \in Launches, Chains(m)'
        PROVE  Kept(launch'[m].chain)
    <3>1. CASE m = l
      BY <2>3, <2>4, <2>7, <3>1 DEF Chains
    <3>2. CASE m # l
      BY <2>3, <2>7, <3>2 DEF KeptInv, Chains, IsLive
    <3>3. QED
      BY <3>1, <3>2
  <2>8. ASSUME NEW m \in Launches, Chains(m)'
        PROVE  launch'[m].chain \in Launches
    <3>1. CASE m = l
      BY <2>3, <2>4, <2>8, <3>1 DEF Chains
    <3>2. CASE m # l
      BY <2>3, <2>8, <3>2, UpdateTypes DEF Chains, Launch
    <3>3. QED
      BY <3>1, <3>2
  <2>9. op'[p].pc # "launch"
    <3>1. PICK m \in Launches, pc \in {"fulfilledWaiter", "runningWaiter"} :
              op' = [op EXCEPT ![p].cur = m, ![p].pc = pc]
      BY <1>3 DEF RequestSpot, RunInstances, FreeLaunches
    <3>2. QED
      BY <1>0, <3>1 DEF TypeOK, Op
  <2>10. ASSUME NEW q \in Procs, op'[q].pc = "launch", op'[q].vol # None
         PROVE  Kept(op[q].vol)' /\ op'[q].vol = op[q].vol
    <3>1. q # p /\ op'[q] = op[q] /\ op[q] \in Op
      BY <1>1, <2>9, <2>10, UpdateTypes
    <3>2. Kept(op[q].vol) /\ op[q].vol \in Launches
      BY <2>10, <3>1 DEF KeptInv, PicksKept, Op
    <3>3. QED
      BY <2>5, <3>1, <3>2
  <2>11. \A m \in Launches : Chains(m)' => Kept(launch[m].chain)'
    BY <2>5, <2>7, <2>8 DEF Kept
  <2>12. PicksKept'
    BY <2>10 DEF PicksKept, Kept
  <2>13. QED
    BY <2>6, <2>11, <2>12 DEF KeptInv
<1>4. CASE CancelUnfulfilled(p) \/ TagInstance(p)
  <2>1. KeepsVolumes
    <3> DEFINE c == op[p].cur
    <3>1. \/ launch' = [launch EXCEPT ![c].req = Cancelled(@)]
          \/ launch' = [launch EXCEPT ![c].instTag = op[p].name]
      BY <1>4 DEF CancelUnfulfilled, TagInstance
    <3> HIDE DEF c
    <3>2. QED
      BY <3>1, EditsKeepVolumes
  <2>2. op'[p].pc # "launch"
    BY <1>0, <1>4 DEF CancelUnfulfilled, TagInstance, Return, Goto, Idle,
                      TypeOK, Op
  <2>3. QED
    BY <1>1, <2>1, <2>2, SamePicksMove, QuietVolumes
<1>5. CASE \/ GetENI(p) \/ TagENI(p) \/ LaunchRefused(p) \/ AwaitFulfilled(p)
           \/ FulfilmentFails(p) \/ AwaitRunning(p) \/ AwaitStatusOk(p)
           \/ AwaitInUse(p) \/ VerifyVolumeAttachedTo(p)
  <2>1. UNCHANGED launch
    BY <1>5 DEF GetENI, TagENI, LaunchRefused, AwaitFulfilled, FulfilmentFails,
                AwaitRunning, AwaitStatusOk, AwaitInUse,
                VerifyVolumeAttachedTo, aws
  <2>2. op'[p].pc # "launch"
    <3>1. CASE GetENI(p) \/ TagENI(p)
      <4>1. CASE GetENI(p)
        <5>1. PICK e \in Enis, pc \in {"GetVolume", "tagENI"} :
                  op' = [op EXCEPT ![p].eni = e, ![p].pc = pc]
          BY <4>1 DEF GetENI, NamedEnis
        <5>2. QED
          BY <1>0, <5>1 DEF TypeOK, Op
      <4>2. CASE TagENI(p)
        BY <1>0, <4>2 DEF TagENI, Goto, TypeOK, Op
      <4>3. QED
        BY <3>1, <4>1, <4>2
    <3>2. CASE LaunchRefused(p) \/ VerifyVolumeAttachedTo(p)
      BY <3>2 DEF LaunchRefused, VerifyVolumeAttachedTo, Return, Idle, TypeOK
    <3>3. CASE \/ AwaitFulfilled(p) \/ FulfilmentFails(p) \/ AwaitRunning(p)
               \/ AwaitStatusOk(p) \/ AwaitInUse(p)
      <4>1. PICK pc \in PCs \ {"launch"} : Goto(p, pc)
        BY <3>3 DEF AwaitFulfilled, FulfilmentFails, AwaitRunning,
                    AwaitStatusOk, AwaitInUse, PCs, StartPCs
      <4>2. QED
        BY <1>0, <4>1 DEF Goto, TypeOK, Op
    <3>4. QED
      BY <1>5, <3>1, <3>2, <3>3
  <2>3. QED
    BY <1>1, <2>1, <2>2, SamePicksMove, EditsKeepVolumes, QuietVolumes
<1>6. QED
  BY <1>2, <1>3, <1>4, <1>5 DEF StartStep

\* The volume handed on is one whose DeleteOnTermination is off.
LEMMA PersistKept ==
    ASSUME TypeOK, KeptInv, NEW p \in Procs, PersistStep(p) PROVE KeptInv'
<1>0. op[p] \in Op
  BY UpdateTypes
<1>1. KeepsVolumes
  <2> DEFINE c == op[p].cur
  <2>1. \/ UNCHANGED launch
        \/ launch' = [launch EXCEPT ![c].req = Cancelled(@)]
        \/ launch' = [launch EXCEPT ![c].inst = Shut(@)]
        \/ launch' = [launch EXCEPT ![c].keep = TRUE]
        \/ launch' = [launch EXCEPT ![c].volTag = AWSName]
    BY DEF PersistStep, ModifyInstanceAttribute, TagVolume, PersistFails,
           CancelTemp, TerminateTemp, AwaitTempTerminated, AwaitTempVolume, aws
  <2> HIDE DEF c
  <2>2. QED
    BY <2>1, EditsKeepVolumes
<1>2. \A q \in Procs : q # p => op'[q] = op[q]
  BY DEF PersistStep, ModifyInstanceAttribute, TagVolume, PersistFails,
         CancelTemp, TerminateTemp, AwaitTempTerminated, AwaitTempVolume,
         Goto, Return, TypeOK
<1>3. CASE AwaitTempVolume(p)
  <2>1. UNCHANGED launch /\ op'[p].vol = op[p].cur
    BY <1>0, <1>3 DEF AwaitTempVolume, aws, TypeOK, Op
  <2>2. op[p].cur # None => Kept(op[p].cur)
    <3>1. SUFFICES ASSUME op[p].cur \in Launches PROVE Kept(op[p].cur)
      BY <1>0 DEF Op
    <3>2. QED
      BY <1>3, <3>1, NoneAssumption
         DEF AwaitTempVolume, KeptInv, VolumeOk, Kept, TypeOK, Launch
  <2>3. PicksKept'
    BY <1>2, <2>1, <2>2 DEF KeptInv, PicksKept, Kept
  <2>4. QED
    BY <2>1, <2>3 DEF KeptInv, VolumeOk, Chains, Kept, IsLive
<1>4. CASE ~AwaitTempVolume(p)
  <2>1. op'[p].pc # "launch"
    <3>1. CASE PersistFails(p)
      BY <1>0, <3>1 DEF PersistFails, TypeOK, Op
    <3>2. CASE AwaitTempTerminated(p)
      <4>1. CASE Return(p, "error")
        BY <4>1 DEF Return, Idle, TypeOK
      <4>2. CASE Goto(p, "tempVolWaiter")
        BY <1>0, <4>2 DEF Goto, TypeOK, Op
      <4>3. QED
        BY <3>2, <4>1, <4>2 DEF AwaitTempTerminated
    <3>3. CASE \/ ModifyInstanceAttribute(p) \/ TagVolume(p)
               \/ CancelTemp(p) \/ TerminateTemp(p)
      <4>1. PICK pc \in {"tagVolume", "cancelTemp", "terminateTemp",
                        "tempTermWaiter"} : Goto(p, pc)
        BY <3>3 DEF ModifyInstanceAttribute, TagVolume, CancelTemp,
                    TerminateTemp
      <4>2. QED
        BY <1>0, <4>1 DEF Goto, TypeOK, Op
    <3>4. QED
      BY <1>4, <3>1, <3>2, <3>3 DEF PersistStep
  <2>2. QED
    BY <1>1, <1>2, <2>1, SamePicksMove, QuietVolumes
<1>5. QED
  BY <1>3, <1>4

\* A Stop deletes no volume.
LEMMA StopKept ==
    ASSUME TypeOK, KeptInv, NEW p \in Procs, StopStep(p) PROVE KeptInv'
<1>1. KeepsVolumes
  <2>1. CASE CancelSpotRequests(p)
    <3>1. ASSUME NEW l \in Launches
          PROVE  \/ launch'[l] = launch[l]
                 \/ launch'[l] = [launch[l] EXCEPT
                                     !.req = Cancelled(launch[l].req)]
      BY <2>1 DEF CancelSpotRequests
    <3>2. ASSUME NEW l \in Launches
          PROVE  /\ launch'[l].req = "open" => launch[l].req = "open"
                 /\ launch'[l].inst = launch[l].inst
                 /\ launch'[l].vol = launch[l].vol
                 /\ launch'[l].att = launch[l].att
                 /\ launch'[l].keep = launch[l].keep
                 /\ launch'[l].chain = launch[l].chain
      <4>1. launch[l] \in Launch
        BY UpdateTypes
      <4>2. QED
        BY <3>1, <4>1 DEF Launch, Cancelled
    <3>3. QED
      BY <3>2 DEF KeepsVolumes, KeptInv, Kept, VolumeOk, Chains, IsLive
  <2>2. CASE ~CancelSpotRequests(p)
    <3>1. PICK c : \/ UNCHANGED launch
                   \/ launch' = [launch EXCEPT ![c].req = Cancelled(@)]
                   \/ launch' = [launch EXCEPT ![c].inst = Shut(@)]
      BY <2>2 DEF StopStep, StopGetVolume, StopGetENI, FindInstancesByName,
         EniHolder, OpenSpotRequests, OpenSpotRequestsFails,
         CancelInstanceRequest, TerminateInstance, AwaitTerminated,
         AwaitVolumeAvailable, AwaitEniAvailable, aws
    <3>2. QED
      BY <3>1, EditsKeepVolumes
  <2>3. QED
    BY <2>1, <2>2
<1>2. /\ \A q \in Procs : q # p => op'[q] = op[q]
      /\ op'[p].pc \in StopPCs \cup {"idle", "GetENI"}
  BY StopMoves
<1>3. SamePicks
  BY <1>2, SamePicksMove DEF StopPCs
<1>4. QED
  BY <1>1, <1>3, QuietVolumes

\* Every step keeps what instances chainload from.
LEMMA KeptStep == ASSUME TypeOK, KeptInv, [Next]_vars PROVE KeptInv'
<1>1. CASE AwsStep
  BY <1>1, AwsKept
<1>2. ASSUME NEW p \in Procs,
             \/ BeginStart(p) \/ BeginStop(p) \/ BeginRestart(p)
             \/ WaiterFails(p) \/ Interrupted(p)
      PROVE  KeptInv'
  <2>1. /\ op'[p].pc # "launch"
        /\ \A q \in Procs : q # p => op'[q] = op[q]
        /\ UNCHANGED launch
    BY <1>2 DEF BeginStart, BeginStop, BeginRestart, WaiterFails, Interrupted,
                Return, Idle, aws, TypeOK
  <2>2. QED
    BY <2>1, SamePicksMove, EditsKeepVolumes, QuietVolumes
<1>3. CASE UNCHANGED vars
  <2>1. SamePicks /\ UNCHANGED launch
    BY <1>3 DEF vars, SamePicks
  <2>2. QED
    BY <2>1, EditsKeepVolumes, QuietVolumes
<1>4. QED
  BY <1>1, <1>2, <1>3, StartKept, PersistKept, StopKept DEF Next, OpStep

\* The root file system an instance chainloads from exists and is kept for as
\* long as a request or an instance of the session refers to it, with any
\* number of processes and without the session's lock.
THEOREM ChainTargetsAreKept == Spec => []ChainTargetKept
<1>1. Init => KeptInv
  BY DEF Init, KeptInv, PicksKept, VolumeOk, Chains, IsLive, Kept, Unused,
         Idle, Live
<1>2. KeptInv => ChainTargetKept
  BY DEF KeptInv, ChainTargetKept, Chains, Kept
<1>3. QED
  BY <1>1, <1>2, KeptStep, TypeCorrect, PTL DEF Spec
=============================================================================
