-------------------------- MODULE Ec2AloneProofs --------------------------
(***************************************************************************)
(* Proofs about a session whose operations do not overlap, whoever runs    *)
(* them, for every number of processes, launches and interfaces; and that  *)
(* the server's per-session lock makes its operations such (Server).       *)
(***************************************************************************)
EXTENDS Ec2SessionProofs, Server, FiniteSetTheorems

----------------------------------------------------------------------------
(* Who acts, acts alone                                                    *)

\* A step of p's.
ActsOn(p) == \/ BeginStart(p) \/ BeginStop(p) \/ BeginRestart(p)
             \/ OpStep(p) \/ Interrupted(p)

\* Everybody else is idle and stays so.
Others(p) == \A q \in Procs \ {p} : op'[q] = op[q] /\ At(q, "idle")

\* An operation changes its own locals.
LEMMA OthersStay ==
    ASSUME TypeOK, NEW p \in Procs, ActsOn(p)
    PROVE  \A q \in Procs \ {p} : op'[q] = op[q]
PROOF
  <1>0. op \in [Procs -> Op]
    BY DEF TypeOK
  <1>1. CASE BeginStart(p)
    BY <1>0, <1>1 DEF BeginStart
  <1>2. CASE \/ BeginStop(p) \/ Interrupted(p) \/ WaiterFails(p)
    BY <1>0, <1>2 DEF BeginStop, Interrupted, WaiterFails, Return
  <1>3. CASE BeginRestart(p)
    BY <1>0, <1>3 DEF BeginRestart
  <1>4. CASE StopStep(p)
    BY <1>4, StopMoves
  <1>5. CASE GetENI(p)
    <2>1. CASE NamedEnis # {}
      BY <1>0, <1>5, <2>1 DEF GetENI
    <2>2. CASE NamedEnis = {}
      BY <1>0, <1>5, <2>2 DEF GetENI
    <2> QED
      BY <2>1, <2>2
  <1>6. CASE StartGetVolume(p)
    BY <1>0, <1>6 DEF StartGetVolume, Return
  <1>7. CASE RequestSpot(p) \/ RunInstances(p)
    <2>1. PICK l \in FreeLaunches :
              \/ op' = [op EXCEPT ![p].cur = l, ![p].pc = "fulfilledWaiter"]
              \/ op' = [op EXCEPT ![p].cur = l, ![p].pc = "runningWaiter"]
      <3>1. CASE RequestSpot(p)
        BY <3>1, Zenon DEF RequestSpot
      <3>2. CASE RunInstances(p)
        BY <3>2, Zenon DEF RunInstances
      <3> QED
        BY <1>7, <3>1, <3>2
    <2> QED
      BY <1>0, <2>1
  <1>8. CASE \/ LaunchRefused(p) \/ AwaitFulfilled(p) \/ FulfilmentFails(p)
             \/ CancelUnfulfilled(p) \/ TagInstance(p) \/ AwaitRunning(p)
             \/ AwaitStatusOk(p) \/ AwaitInUse(p) \/ VerifyVolumeAttachedTo(p)
             \/ TagENI(p)
    BY <1>0, <1>8 DEF LaunchRefused, AwaitFulfilled, FulfilmentFails,
         CancelUnfulfilled, TagInstance, AwaitRunning, AwaitStatusOk, AwaitInUse,
         VerifyVolumeAttachedTo, TagENI, Return, Goto
  <1>9. CASE PersistStep(p)
    BY <1>0, <1>9 DEF PersistStep, ModifyInstanceAttribute, TagVolume,
         PersistFails, CancelTemp, TerminateTemp, AwaitTempTerminated,
         AwaitTempVolume, Return, Goto
  <1> QED
    BY <1>1, <1>2, <1>3, <1>4, <1>5, <1>6, <1>7, <1>8, <1>9
       DEF ActsOn, OpStep, StartStep

\* Only an operation under way goes on.
LEMMA OpNotIdle ==
    ASSUME NEW p \in Procs, OpStep(p) \/ Interrupted(p)
    PROVE  ~At(p, "idle")
PROOF
  <1>1. CASE Interrupted(p) \/ WaiterFails(p)
    BY <1>1 DEF Interrupted, WaiterFails, Waits, At
  <1>2. CASE StartStep(p)
    BY <1>2 DEF StartStep, GetENI, TagENI, StartGetVolume, RequestSpot,
         RunInstances, LaunchRefused, AwaitFulfilled, FulfilmentFails,
         CancelUnfulfilled, TagInstance, AwaitRunning, AwaitStatusOk, AwaitInUse,
         VerifyVolumeAttachedTo, At
  <1>3. CASE PersistStep(p)
    BY <1>3 DEF PersistStep, ModifyInstanceAttribute, TagVolume, PersistFails,
         CancelTemp, TerminateTemp, AwaitTempTerminated, AwaitTempVolume, At
  <1>4. CASE StopStep(p)
    BY <1>4 DEF StopStep, StopGetVolume, StopGetENI, FindInstancesByName,
         EniHolder, OpenSpotRequests, OpenSpotRequestsFails, CancelSpotRequests,
         CancelInstanceRequest, TerminateInstance, AwaitTerminated,
         AwaitVolumeAvailable, AwaitEniAvailable, At
  <1> QED
    BY <1>1, <1>2, <1>3, <1>4 DEF OpStep

\* Who acts is under way before the step, or after it.
LEMMA ActorIsActive ==
    ASSUME TypeOK, NEW p \in Procs, ActsOn(p)
    PROVE  ~At(p, "idle") \/ ~At(p, "idle")'
PROOF
  <1>0. op[p] \in Op /\ op \in [Procs -> Op]
    BY UpdateTypes DEF TypeOK
  <1>1. CASE BeginStart(p) \/ BeginStop(p) \/ BeginRestart(p)
    <2>1. op'[p].pc \in {"GetENI", "stopVolume"}
      BY <1>0, <1>1 DEF BeginStart, BeginStop, BeginRestart, Idle
    <2> QED
      BY <2>1 DEF At
  <1> QED
    BY <1>1, OpNotIdle DEF ActsOn

\* Without overlap everybody else is idle meanwhile.
LEMMA ActorIsAlone ==
    ASSUME TypeOK, OneActive, OneActive', NEW p \in Procs, ActsOn(p)
    PROVE  Others(p)
PROOF
  <1> SUFFICES ASSUME NEW q \in Procs \ {p} PROVE op'[q] = op[q] /\ At(q, "idle")
    BY DEF Others
  <1>1. op'[q] = op[q]
    BY OthersStay
  <1>2. ~At(p, "idle") \/ ~At(p, "idle")'
    BY ActorIsActive
  <1> QED
    BY <1>1, <1>2 DEF OneActive, At

----------------------------------------------------------------------------
(* One interface, one instance                                             *)

\* The session has one interface, and none while its first is to be tagged.
OneEni ==
    /\ \A e, f \in NamedEnis : e = f
    /\ \A p \in Procs : At(p, "tagENI") => NamedEnis = {}

\* An operation that begins, ends or goes on comes to tag an interface only
\* from GetENI.
LEMMA NoTagStep ==
    ASSUME TypeOK, NEW p \in Procs,
           \/ BeginStart(p) \/ BeginStop(p) \/ BeginRestart(p) \/ Interrupted(p)
           \/ OpStep(p) /\ ~GetENI(p) /\ ~TagENI(p)
    PROVE  eni' = eni /\ op'[p].pc # "tagENI"
PROOF
  <1>0. op[p] \in Op /\ op \in [Procs -> Op]
    BY UpdateTypes DEF TypeOK
  <1>1. CASE BeginStart(p) \/ BeginStop(p) \/ BeginRestart(p) \/ Interrupted(p)
    BY <1>0, <1>1 DEF BeginStart, BeginStop, BeginRestart, Interrupted, Return,
                      Idle, aws
  <1>2. CASE StartStep(p) /\ ~GetENI(p) /\ ~TagENI(p)
    <2>1. CASE StartGetVolume(p)
      BY <1>0, <2>1 DEF StartGetVolume, Return, Idle, aws, Op
    <2>2. CASE RequestSpot(p) \/ RunInstances(p)
      <3>1. PICK l \in FreeLaunches :
                \/ op' = [op EXCEPT ![p].cur = l, ![p].pc = "fulfilledWaiter"]
                \/ op' = [op EXCEPT ![p].cur = l, ![p].pc = "runningWaiter"]
        <4>1. CASE RequestSpot(p)
          BY <4>1, Zenon DEF RequestSpot
        <4>2. CASE RunInstances(p)
          BY <4>2, Zenon DEF RunInstances
        <4> QED
          BY <2>2, <4>1, <4>2
      <3>2. op'[p].pc \in {"fulfilledWaiter", "runningWaiter"}
        BY <1>0, <3>1 DEF Op
      <3>3. eni' = eni
        BY <2>2 DEF RequestSpot, RunInstances
      <3> QED
        BY <3>2, <3>3
    <2>3. CASE \/ LaunchRefused(p) \/ AwaitFulfilled(p) \/ FulfilmentFails(p)
               \/ CancelUnfulfilled(p) \/ TagInstance(p) \/ AwaitRunning(p)
               \/ AwaitStatusOk(p) \/ AwaitInUse(p) \/ VerifyVolumeAttachedTo(p)
      BY <1>0, <2>3 DEF LaunchRefused, AwaitFulfilled, FulfilmentFails,
           CancelUnfulfilled, TagInstance, AwaitRunning, AwaitStatusOk,
           AwaitInUse, VerifyVolumeAttachedTo, Return, Goto, Idle, aws, Op
    <2> QED
      BY <1>2, <2>1, <2>2, <2>3 DEF StartStep
  <1>3. CASE PersistStep(p)
    BY <1>0, <1>3 DEF PersistStep, ModifyInstanceAttribute, TagVolume,
         PersistFails, CancelTemp, TerminateTemp, AwaitTempTerminated,
         AwaitTempVolume, Return, Goto, Idle, aws, Op
  <1>4. CASE StopStep(p)
    <2>1. op'[p].pc # "tagENI"
      BY <1>4, StopMoves DEF StopPCs
    <2> QED
      BY <1>4, <2>1
         DEF StopStep, StopGetVolume, StopGetENI, FindInstancesByName, EniHolder,
             OpenSpotRequests, OpenSpotRequestsFails, CancelSpotRequests,
             CancelInstanceRequest, TerminateInstance, AwaitTerminated,
             AwaitVolumeAvailable, AwaitEniAvailable, aws
  <1>5. CASE WaiterFails(p)
    BY <1>0, <1>5 DEF WaiterFails, Return, Idle, aws
  <1> QED
    BY <1>1, <1>2, <1>3, <1>4, <1>5 DEF OpStep

\* An interface is made only when there is none, and one operation makes it.
LEMMA OneEniStep ==
    ASSUME OneActive, OneActive', TypeOK, OneEni, [Next]_vars
    PROVE  OneEni'
PROOF
  <1>1. CASE AwsStep \/ UNCHANGED vars
    <2>1. UNCHANGED <<eni, op>>
      BY <1>1 DEF AwsStep, Fulfil, RequestFails, Boot, Chainload, Reclaim,
           Terminated, DetachVolume, Forget, DetachEni, vars
    <2> QED
      BY <2>1 DEF OneEni, NamedEnis, At
  <1>2. ASSUME NEW p \in Procs, GetENI(p) PROVE OneEni'
    <2>0. op[p] \in Op /\ op \in [Procs -> Op] /\ Others(p)
      BY <1>2, ActorIsAlone, UpdateTypes DEF TypeOK, ActsOn, OpStep, StartStep
    <2>1. NamedEnis' = NamedEnis
      <3>1. CASE NamedEnis # {}
        BY <1>2, <3>1 DEF GetENI, NamedEnis, aws
      <3>2. CASE NamedEnis = {}
        <4>1. PICK e \in Enis : eni[e] = "none" /\ eni' = [eni EXCEPT ![e] = "bare"]
          BY <1>2, <3>2 DEF GetENI
        <4> QED
          BY <4>1 DEF NamedEnis, TypeOK
      <3> QED
        BY <3>1, <3>2
    <2>2. op'[p].pc = "tagENI" => NamedEnis = {}
      <3> SUFFICES ASSUME NamedEnis # {} PROVE op'[p].pc # "tagENI"
        OBVIOUS
      <3>1. PICK e \in NamedEnis :
                op' = [op EXCEPT ![p].eni = e, ![p].pc = "GetVolume"]
        BY <1>2, Zenon DEF GetENI
      <3> QED
        BY <2>0, <3>1 DEF Op
    <2> QED
      BY <2>0, <2>1, <2>2 DEF OneEni, At, Others
  <1>3. ASSUME NEW p \in Procs, TagENI(p) PROVE OneEni'
    <2>0. op[p] \in Op /\ op \in [Procs -> Op] /\ Others(p)
      BY <1>3, ActorIsAlone, UpdateTypes DEF TypeOK, ActsOn, OpStep, StartStep
    <2>1. NamedEnis = {} /\ op'[p].pc # "tagENI"
      <3>1. At(p, "tagENI") /\ op' = [op EXCEPT ![p].pc = "GetVolume"]
        BY <1>3 DEF TagENI, Goto
      <3> QED
        BY <2>0, <3>1 DEF OneEni, Op
    <2>2. NamedEnis' \subseteq {op[p].eni}
      BY <1>3, <2>1 DEF TagENI, NamedEnis, TypeOK
    <2> QED
      BY <2>0, <2>1, <2>2 DEF OneEni, At, Others
  <1>4. ASSUME NEW p \in Procs,
               \/ BeginStart(p) \/ BeginStop(p) \/ BeginRestart(p) \/ Interrupted(p)
               \/ OpStep(p) /\ ~GetENI(p) /\ ~TagENI(p)
        PROVE  OneEni'
    <2>1. eni' = eni /\ op'[p].pc # "tagENI"
      BY <1>4, NoTagStep
    <2>2. Others(p)
      BY <1>4, ActorIsAlone DEF ActsOn
    <2> QED
      BY <2>1, <2>2 DEF OneEni, NamedEnis, At, Others
  <1> QED
    BY <1>1, <1>2, <1>3, <1>4 DEF Next

\* The interface is one, and so is the instance that can hold it.
LEMMA OneEniOneInstance == ASSUME NamedInv, OneEni PROVE OneInstance
PROOF
  <1>1. \A l, m \in LiveInstances : l = m
    BY DEF NamedInv, LaunchesNamed, LiveInstances, IsLive, Wants, Running, OneEni
  <1>2. CASE LiveInstances = {}
    BY <1>2, FS_EmptySet DEF OneInstance
  <1>3. CASE LiveInstances # {}
    <2>1. PICK l \in LiveInstances : TRUE
      BY <1>3
    <2>2. LiveInstances = {l}
      BY <1>1, <2>1
    <2>3. Cardinality({l}) = 1
      BY FS_Singleton
    <2> QED
      BY <2>2, <2>3 DEF OneInstance
  <1> QED
    BY <1>2, <1>3

\* At first there is neither interface nor instance.
LEMMA EniInit == Init => TypeOK /\ NamedInv /\ OneEni
PROOF
  <1>1. Init => TypeOK
    BY TypeInit
  <1>2. Init => NamedInv /\ OneEni
    BY DEF Init, OneEni, NamedEnis, At, Idle, NamedInv, LaunchesNamed,
           StartsNamed, Wants, Running, Unused, Live, StartPCs
  <1> QED
    BY <1>1, <1>2

\* Without overlap the session never has two live instances, whatever was
\* interrupted and retried: each holds the session's interface, and there is
\* one.  Two processes at once may make two, and then have two instances.
THEOREM OneAtATime ==
    Init /\ [][Next]_vars /\ []OneActive => []OneInstance
BY EniInit, TypeStep, NamedStep, OneEniStep, OneEniOneInstance, PTL

----------------------------------------------------------------------------
(* What a step leaves of requests and instances                            *)

\* No request is opened, and an instance comes from an open request alone.
NothingNew ==
    \A l \in Launches :
        /\ launch'[l].req = "open" =>
               /\ launch[l].req = "open"
               /\ launch'[l].reqTag = launch[l].reqTag
               /\ launch'[l].inst = launch[l].inst
        /\ launch'[l].inst \in Live =>
               launch[l].inst \in Live \/ launch[l].req = "open"

\* No slot is used again of an instance that a Stop has seen.
KeepsSeen ==
    \A p \in Procs, l \in Launches :
        l \in op[p].seen /\ launch[l].inst # "none" => launch'[l].inst # "none"

\* An open request has no instance yet.
Unfulfilled ==
    \A l \in Launches : launch[l].req = "open" => launch[l].inst = "none"

\* What AWS does opens no request; it forgets nothing that a Stop has seen.
LEMMA AwsNothingNew ==
    ASSUME TypeOK, Unfulfilled, AwsStep
    PROVE  NothingNew /\ KeepsSeen
PROOF
  <1>0. \A l \in Launches : launch[l] \in Launch
    BY UpdateTypes
  <1>1. ASSUME NEW l \in Launches, Fulfil(l) PROVE NothingNew /\ KeepsSeen
    <2>1. /\ launch'[l].req = "active" /\ launch'[l].inst = "pending"
          /\ launch[l].req = "open"
          /\ \A m \in Launches \ {l} : launch'[m] = launch[m]
      BY <1>0, <1>1 DEF Fulfil, TypeOK, Launch
    <2> QED
      BY <2>1 DEF NothingNew, KeepsSeen
  <1>2. ASSUME NEW l \in Launches, RequestFails(l) PROVE NothingNew /\ KeepsSeen
    <2>1. /\ launch'[l].req = "failed" /\ launch'[l].inst = launch[l].inst
          /\ \A m \in Launches \ {l} : launch'[m] = launch[m]
      BY <1>0, <1>2 DEF RequestFails, TypeOK, Launch
    <2> QED
      BY <2>1 DEF NothingNew, KeepsSeen
  <1>3. ASSUME NEW l \in Launches, Boot(l) PROVE NothingNew /\ KeepsSeen
    <2>1. /\ launch[l].inst = "pending" /\ launch'[l].inst = "running"
          /\ launch'[l].req = launch[l].req
          /\ \A m \in Launches \ {l} : launch'[m] = launch[m]
      BY <1>0, <1>3 DEF Boot, TypeOK, Launch
    <2> QED
      BY <2>1 DEF NothingNew, KeepsSeen, Unfulfilled, Live
  <1>4. ASSUME NEW l \in Launches, Chainload(l) PROVE NothingNew /\ KeepsSeen
    <2>1. /\ launch[l].inst = "running" /\ launch'[l].inst = "serving"
          /\ launch'[l].req = launch[l].req
          /\ \A m \in Launches \ {l} : /\ launch'[m].inst = launch[m].inst
                                       /\ launch'[m].req = launch[m].req
                                       /\ launch'[m].reqTag = launch[m].reqTag
      <3> DEFINE v == launch[l].chain
      <3>1. launch[l].inst = "running"
        BY <1>4 DEF Chainload
      <3>2. CASE launch' = [launch EXCEPT ![l].inst = "serving", ![v].att = l]
        <4> HIDE DEF v
        <4> QED
          BY <1>0, <3>1, <3>2 DEF TypeOK, Launch
      <3>3. CASE launch' = [launch EXCEPT ![l].inst = "serving"]
        BY <1>0, <3>1, <3>3 DEF TypeOK, Launch
      <3> QED
        BY <1>4, <3>2, <3>3 DEF Chainload
    <2> QED
      BY <2>1 DEF NothingNew, KeepsSeen, Unfulfilled, Live
  <1>5. ASSUME NEW l \in Launches, Reclaim(l) \/ Terminated(l)
        PROVE  NothingNew /\ KeepsSeen
    <2>1. /\ launch'[l].inst \in {"shutting", "terminated"}
          /\ launch'[l].req \in {"closed", launch[l].req}
          /\ launch[l].inst # "none"
          /\ \A m \in Launches \ {l} : launch'[m] = launch[m]
      <3>1. CASE Reclaim(l)
        BY <1>0, <3>1 DEF Reclaim, IsLive, Live, TypeOK, Launch
      <3>2. CASE Terminated(l)
        BY <1>0, <3>2 DEF Terminated, TypeOK, Launch
      <3> QED
        BY <1>5, <3>1, <3>2
    <2> QED
      BY <2>1 DEF NothingNew, KeepsSeen, Unfulfilled, Live
  <1>6. ASSUME NEW v \in Launches, DetachVolume(v) PROVE NothingNew /\ KeepsSeen
    <2>1. \A m \in Launches : /\ launch'[m].inst = launch[m].inst
                              /\ launch'[m].req = launch[m].req
                              /\ launch'[m].reqTag = launch[m].reqTag
      <3>1. PICK s : launch' = [launch EXCEPT ![v].att = None, ![v].vol = s]
        BY <1>6 DEF DetachVolume
      <3> QED
        BY <1>0, <3>1 DEF TypeOK, Launch
    <2> QED
      BY <2>1 DEF NothingNew, KeepsSeen
  <1>7. ASSUME NEW l \in Launches, Forget(l) PROVE NothingNew /\ KeepsSeen
    <2>1. /\ launch'[l] = Unused
          /\ \A m \in Launches \ {l} : launch'[m] = launch[m]
          /\ \A p \in Procs : l \notin op[p].seen
      BY <1>7 DEF Forget, TypeOK
    <2> QED
      BY <2>1 DEF NothingNew, KeepsSeen, Unused, Live
  <1>8. ASSUME NEW e \in Enis, DetachEni(e) PROVE NothingNew /\ KeepsSeen
    BY <1>8 DEF DetachEni, NothingNew, KeepsSeen
  <1> QED
    BY <1>1, <1>2, <1>3, <1>4, <1>5, <1>6, <1>7, <1>8 DEF AwsStep

\* Cancelling, terminating and tagging make nothing new.
LEMMA EditsNothingNew ==
    ASSUME TypeOK, Unfulfilled, NEW c, NEW n,
           \/ UNCHANGED launch
           \/ launch' = [launch EXCEPT ![c].req = Cancelled(@)]
           \/ launch' = [launch EXCEPT ![c].inst = Shut(@)]
           \/ launch' = [launch EXCEPT ![c].keep = TRUE]
           \/ launch' = [launch EXCEPT ![c].volTag = n]
           \/ launch' = [launch EXCEPT ![c].instTag = n]
    PROVE  NothingNew /\ KeepsSeen
PROOF
  <1>1. ASSUME NEW l \in Launches
        PROVE  /\ launch'[l].req \in {launch[l].req, Cancelled(launch[l].req)}
               /\ launch'[l].inst \in {launch[l].inst, Shut(launch[l].inst)}
               /\ launch'[l].reqTag = launch[l].reqTag
    <2>0. launch[l] \in Launch
      BY UpdateTypes
    <2>1. CASE UNCHANGED launch
      BY <2>1
    <2>2. CASE launch' = [launch EXCEPT ![c].req = Cancelled(@)]
      BY <2>0, <2>2 DEF TypeOK, Launch
    <2>3. CASE launch' = [launch EXCEPT ![c].inst = Shut(@)]
      BY <2>0, <2>3 DEF TypeOK, Launch
    <2>4. CASE launch' = [launch EXCEPT ![c].keep = TRUE]
      BY <2>0, <2>4 DEF TypeOK, Launch
    <2>5. CASE launch' = [launch EXCEPT ![c].volTag = n]
      BY <2>0, <2>5 DEF TypeOK, Launch
    <2>6. CASE launch' = [launch EXCEPT ![c].instTag = n]
      BY <2>0, <2>6 DEF TypeOK, Launch
    <2> QED
      BY <2>1, <2>2, <2>3, <2>4, <2>5, <2>6
  <1> QED
    BY <1>1 DEF NothingNew, KeepsSeen, Unfulfilled, Cancelled, Shut, Live

\* Nor does a Start but where it launches, nor a Stop.
LEMMA OpNothingNew ==
    ASSUME TypeOK, Unfulfilled, NEW p \in Procs,
           \/ BeginStart(p) \/ BeginStop(p) \/ BeginRestart(p) \/ Interrupted(p)
           \/ OpStep(p) /\ ~RequestSpot(p) /\ ~RunInstances(p)
    PROVE  NothingNew /\ KeepsSeen
PROOF
  <1>1. CASE CancelSpotRequests(p)
    <2>1. ASSUME NEW l \in Launches
          PROVE  /\ launch'[l].req = "open" => launch[l].req = "open"
                 /\ launch'[l].inst = launch[l].inst
                 /\ launch'[l].reqTag = launch[l].reqTag
      <3>1. launch[l] \in Launch
        BY UpdateTypes
      <3> QED
        BY <1>1, <3>1 DEF CancelSpotRequests, Launch, Cancelled
    <2> QED
      BY <2>1 DEF NothingNew, KeepsSeen
  <1>2. CASE ~CancelSpotRequests(p)
    <2>1. PICK c, n : \/ UNCHANGED launch
                      \/ launch' = [launch EXCEPT ![c].req = Cancelled(@)]
                      \/ launch' = [launch EXCEPT ![c].inst = Shut(@)]
                      \/ launch' = [launch EXCEPT ![c].keep = TRUE]
                      \/ launch' = [launch EXCEPT ![c].volTag = n]
                      \/ launch' = [launch EXCEPT ![c].instTag = n]
      <3>1. CASE \/ BeginStart(p) \/ BeginStop(p) \/ BeginRestart(p)
                 \/ Interrupted(p) \/ WaiterFails(p)
        BY <3>1 DEF BeginStart, BeginStop, BeginRestart, Interrupted, WaiterFails,
                    aws
      <3>2. CASE StartStep(p) /\ ~RequestSpot(p) /\ ~RunInstances(p)
        <4>1. CASE GetENI(p)
          BY <4>1 DEF GetENI, aws
        <4> QED
          BY <3>2, <4>1
             DEF StartStep, TagENI, StartGetVolume, LaunchRefused,
                 AwaitFulfilled, FulfilmentFails, CancelUnfulfilled, TagInstance,
                 AwaitRunning, AwaitStatusOk, AwaitInUse, VerifyVolumeAttachedTo,
                 aws
      <3>3. CASE PersistStep(p)
        BY <3>3 DEF PersistStep, ModifyInstanceAttribute, TagVolume, PersistFails,
               CancelTemp, TerminateTemp, AwaitTempTerminated, AwaitTempVolume,
               aws
      <3>4. CASE StopStep(p)
        BY <1>2, <3>4 DEF StopStep, StopGetVolume, StopGetENI,
               FindInstancesByName, EniHolder, OpenSpotRequests,
               OpenSpotRequestsFails, CancelInstanceRequest, TerminateInstance,
               AwaitTerminated, AwaitVolumeAvailable, AwaitEniAvailable, aws
      <3> QED
        BY <3>1, <3>2, <3>3, <3>4 DEF OpStep
    <2> QED
      BY <2>1, EditsNothingNew
  <1> QED
    BY <1>1, <1>2

\* A launch opens a request, with its operation's name and no instance, or an
\* instance; its slot was free.
LEMMA LaunchNew ==
    ASSUME TypeOK, NEW p \in Procs, RequestSpot(p) \/ RunInstances(p)
    PROVE  \E l \in Launches :
              /\ launch[l] = Unused
              /\ \A m \in Launches \ {l} : launch'[m] = launch[m]
              /\ launch'[l].req = "open" =>
                     launch'[l].inst = "none" /\ launch'[l].reqTag = op[p].name
PROOF
  <1>0. \A l \in Launches : launch[l] \in Launch
    BY UpdateTypes
  <1>1. CASE RequestSpot(p)
    <2>1. PICK l \in FreeLaunches :
              launch' = [launch EXCEPT ![l].req = "open",
                                       ![l].reqTag = op[p].name,
                                       ![l].eni = op[p].eni,
                                       ![l].chain = op[p].vol]
      BY <1>1, Zenon DEF RequestSpot
    <2>2. l \in Launches /\ launch[l] = Unused
      BY DEF FreeLaunches
    <2>3. /\ \A m \in Launches \ {l} : launch'[m] = launch[m]
          /\ launch'[l].inst = "none" /\ launch'[l].reqTag = op[p].name
      BY <1>0, <2>1, <2>2 DEF TypeOK, Launch, Unused
    <2> QED
      BY <2>2, <2>3
  <1>2. CASE RunInstances(p)
    <2>1. PICK l \in FreeLaunches :
              launch' = [launch EXCEPT ![l].inst = "pending",
                                       ![l].instTag = op[p].name,
                                       ![l].vol = "there", ![l].att = l,
                                       ![l].volTag = op[p].name,
                                       ![l].eni = op[p].eni,
                                       ![l].chain = op[p].vol]
      BY <1>2, Zenon DEF RunInstances
    <2>2. l \in Launches /\ launch[l] = Unused
      BY DEF FreeLaunches
    <2>3. /\ \A m \in Launches \ {l} : launch'[m] = launch[m]
          /\ launch'[l].req = "none"
      BY <1>0, <2>1, <2>2 DEF TypeOK, Launch, Unused
    <2> QED
      BY <2>2, <2>3
  <1> QED
    BY <1>1, <1>2
----------------------------------------------------------------------------
(* What a step does to its operation                                       *)

\* The places of a Stop once it has looked for requests.
Ending == {"nextInstance", "terminate", "termWaiter", "volWaiter", "eniWaiter"}

\* A step of a Stop that does not return: what it learns, by its place.
StopGoes(p) ==
    LET o == op[p]
        n == op'[p]
    IN  /\ n.result = o.result /\ n.seen = o.seen
        /\ n.kind = o.kind /\ n.name = o.name
        /\ \/ o.pc = "stopVolume" /\ n.pc = "stopENI" /\ n.looked = o.looked
           \/ /\ o.pc = "stopENI" /\ n.pc \in {"findByName", "eniHolder"}
              /\ n.eni \in AnyOf(NamedEnis) /\ n.looked = o.looked
           \/ /\ o.pc = "findByName" /\ n.pc = "eniHolder"
              /\ n.eni = o.eni /\ n.looked = o.looked
           \/ /\ o.pc = "eniHolder" /\ n.pc = "openRequests"
              /\ o.eni # None => holder[o.eni] \in n.ids \cup {None}
              /\ n.looked = o.looked
           \/ /\ o.pc = "openRequests" /\ n.pc = "cancelRequests"
              /\ n.ids = o.ids
              /\ n.looked = o.looked \/ n.reqs = OpenRequests
              /\ UNCHANGED launch
           \/ /\ CancelSpotRequests(p) /\ n.pc = "nextInstance"
              /\ n.ids = o.ids /\ n.looked = o.looked
           \/ /\ o.pc \in {"nextInstance", "terminate"}
              /\ n.pc \in {"nextInstance", "terminate", "termWaiter"}
              /\ n.ids = o.ids /\ n.looked = o.looked
           \/ /\ o.pc = "termWaiter" /\ n.pc = "volWaiter"
              /\ \A l \in o.ids : launch[l].inst = "terminated"
              /\ n.looked = o.looked
           \/ o.pc = "volWaiter" /\ n.pc = "eniWaiter" /\ n.looked = o.looked

\* A Stop ends where there is nothing to terminate, or after its last wait.
StopEnds(p) ==
    /\ StopReturns(p)
    /\ \/ CancelSpotRequests(p) /\ op[p].ids = {}
       \/ AwaitEniAvailable(p)

\* These are the two ways of a Stop's step.
LEMMA StopGoesOrEnds ==
    ASSUME TypeOK, NEW p \in Procs, StopStep(p)
    PROVE  StopGoes(p) \/ StopEnds(p)
PROOF
  <1>0. op[p] \in Op /\ op \in [Procs -> Op]
    BY UpdateTypes DEF TypeOK
  <1>1. CASE StopGetVolume(p)
    BY <1>0, <1>1 DEF StopGetVolume, StopGoes, At, Op
  <1>2. CASE StopGetENI(p)
    <2>1. PICK e \in AnyOf(NamedEnis), force \in {FALSE, op[p].kind = "stop"} :
              op' = [op EXCEPT ![p].eni = e,
                        ![p].pc = IF op[p].ids = {} /\ force
                                  THEN "findByName" ELSE "eniHolder"]
      BY <1>2 DEF StopGetENI
    <2>2. op'[p].eni = e /\ op'[p].pc \in {"findByName", "eniHolder"}
      BY <1>0, <2>1 DEF Op
    <2>3. /\ op'[p].result = op[p].result /\ op'[p].seen = op[p].seen
          /\ op'[p].kind = op[p].kind /\ op'[p].name = op[p].name
          /\ op'[p].looked = op[p].looked
      BY <1>0, <2>1 DEF Op
    <2> QED
      BY <1>2, <2>2, <2>3 DEF StopGetENI, StopGoes, At
  <1>3. CASE FindInstancesByName(p)
    BY <1>0, <1>3 DEF FindInstancesByName, StopGoes, At, Op
  <1>4. CASE EniHolder(p)
    BY <1>0, <1>4 DEF EniHolder, StopGoes, At, Op
  <1>5. CASE OpenSpotRequests(p)
    BY <1>0, <1>5 DEF OpenSpotRequests, StopGoes, At, Op, aws
  <1>6. CASE OpenSpotRequestsFails(p)
    BY <1>0, <1>6 DEF OpenSpotRequestsFails, Goto, StopGoes, At, Op, aws
  <1>7. CASE CancelSpotRequests(p)
    <2>1. CASE op[p].ids = {}
      BY <1>7, <2>1 DEF CancelSpotRequests, StopEnds
    <2>2. CASE op[p].ids # {}
      <3>1. op' = [op EXCEPT ![p].left = op[p].ids, ![p].reqs = {},
                             ![p].pc = "nextInstance"]
        BY <1>7, <2>2 DEF CancelSpotRequests
      <3>2. /\ op'[p].result = op[p].result /\ op'[p].seen = op[p].seen
            /\ op'[p].kind = op[p].kind /\ op'[p].name = op[p].name
            /\ op'[p].pc = "nextInstance" /\ op'[p].ids = op[p].ids
            /\ op'[p].looked = op[p].looked
        BY <1>0, <3>1 DEF Op
      <3> QED
        BY <1>7, <3>2 DEF StopGoes
    <2> QED
      BY <2>1, <2>2
  <1>8. CASE CancelInstanceRequest(p)
    BY <1>0, <1>8 DEF CancelInstanceRequest, StopGoes, At, Op
  <1>9. CASE TerminateInstance(p)
    BY <1>0, <1>9 DEF TerminateInstance, StopGoes, At, Op
  <1>10. CASE AwaitTerminated(p) \/ AwaitVolumeAvailable(p)
    BY <1>0, <1>10 DEF AwaitTerminated, AwaitVolumeAvailable, Goto, StopGoes, At, Op
  <1>11. CASE AwaitEniAvailable(p)
    BY <1>11 DEF AwaitEniAvailable, StopEnds
  <1> QED
    BY <1>1, <1>2, <1>3, <1>4, <1>5, <1>6, <1>7, <1>8, <1>9, <1>10, <1>11
       DEF StopStep

\* An operation that begins has seen at most what is live, and one that goes on
\* after its Stop, or returns, has seen nothing.
Begun(p) ==
    /\ op'[p].pc \in {"idle", "GetENI", "stopVolume"}
    /\ op'[p].seen # {} => /\ op'[p].seen \subseteq LiveInstances
                          /\ UNCHANGED launch /\ op'[p].pc # "idle"
    /\ ~op'[p].looked
    /\ op'[p].pc # "idle" /\ (op'[p].pc # "stopVolume" \/ op'[p].kind # "stop") =>
           op'[p].name \in InstanceNames

\* A step of a Start keeps its place among those of a Start.
StartGoes(p) ==
    /\ {op[p].pc, op'[p].pc} \cap (StopPCs \cup {"idle"}) = {}
    /\ op'[p].result = op[p].result /\ op'[p].seen = op[p].seen
    /\ op'[p].name = op[p].name /\ op'[p].looked = op[p].looked

\* Beginning and returning start over.
LEMMA BeginIsBegun ==
    ASSUME TypeOK, NEW p \in Procs,
           \/ BeginStart(p) \/ BeginStop(p) \/ BeginRestart(p)
           \/ \E res : Return(p, res)
    PROVE  Begun(p)
PROOF
  <1>0. op[p] \in Op /\ op \in [Procs -> Op]
    BY UpdateTypes DEF TypeOK
  <1>1. CASE BeginStart(p)
    BY <1>0, <1>1 DEF BeginStart, Begun, Idle, aws
  <1>2. CASE BeginStop(p)
    BY <1>0, <1>2 DEF BeginStop, Begun, Idle, aws
  <1>3. CASE BeginRestart(p)
    BY <1>0, <1>3 DEF BeginRestart, Begun, Idle, aws
  <1>4. CASE \E res : Return(p, res)
    BY <1>0, <1>4 DEF Return, Begun, Idle
  <1> QED
    BY <1>1, <1>2, <1>3, <1>4

\* A Start goes on or returns, and never as a Stop does.
LEMMA StartGoesOrReturns ==
    ASSUME TypeOK, NEW p \in Procs, StartStep(p) \/ PersistStep(p)
    PROVE  StartGoes(p) \/ \E res \in {"started", "already", "error"} : Return(p, res)
PROOF
  <1>0. op[p] \in Op /\ op \in [Procs -> Op]
    BY UpdateTypes DEF TypeOK
  <1>1. ASSUME NEW to \in {"tagENI"} \cup StartPCs, Goto(p, to),
               op[p].pc \in {"GetENI", "tagENI"} \cup StartPCs
        PROVE  StartGoes(p)
    BY <1>0, <1>1 DEF Goto, StartGoes, Op, StartPCs, StopPCs
  <1>2. CASE GetENI(p)
    <2>1. PICK e \in Enis, to \in {"GetVolume", "tagENI"} :
              op' = [op EXCEPT ![p].eni = e, ![p].pc = to]
      <3>1. CASE NamedEnis # {}
        <4>1. \E e \in NamedEnis :
                  op' = [op EXCEPT ![p].eni = e, ![p].pc = "GetVolume"]
          BY <1>2, <3>1, Zenon DEF GetENI
        <4> QED
          BY <4>1, Zenon DEF NamedEnis
      <3>2. CASE NamedEnis = {}
        <4>1. \E e \in Enis : op' = [op EXCEPT ![p].eni = e, ![p].pc = "tagENI"]
          BY <1>2, <3>2, Zenon DEF GetENI
        <4> QED
          BY <4>1, Zenon
      <3> QED
        BY <3>1, <3>2
    <2>2. op'[p].pc = to /\ op[p].pc = "GetENI"
      BY <1>0, <1>2, <2>1 DEF GetENI, At, Op
    <2>3. /\ op'[p].result = op[p].result /\ op'[p].seen = op[p].seen
          /\ op'[p].name = op[p].name /\ op'[p].looked = op[p].looked
      BY <1>0, <2>1 DEF Op
    <2> QED
      BY <2>2, <2>3 DEF StartGoes, StopPCs
  <1>3. CASE StartGetVolume(p)
    <2>1. PICK v \in AnyOf(NamedVolumes) :
              IF v # None /\ launch[v].att # None
              THEN Return(p, "already")
              ELSE op' = [op EXCEPT ![p].vol = v, ![p].temp = (v = None),
                                    ![p].pc = "launch"]
      BY <1>3 DEF StartGetVolume
    <2>2. CASE op' = [op EXCEPT ![p].vol = v, ![p].temp = (v = None),
                                ![p].pc = "launch"]
      <3>1. /\ op'[p].result = op[p].result /\ op'[p].seen = op[p].seen
            /\ op'[p].name = op[p].name /\ op'[p].looked = op[p].looked
            /\ op'[p].pc = "launch"
        BY <1>0, <2>2 DEF Op
      <3> QED
        BY <1>3, <3>1 DEF StartGetVolume, At, StartGoes, StopPCs
    <2> QED
      BY <2>1, <2>2
  <1>4. CASE RequestSpot(p) \/ RunInstances(p)
    <2>1. PICK l \in FreeLaunches, to \in {"fulfilledWaiter", "runningWaiter"} :
              op' = [op EXCEPT ![p].cur = l, ![p].pc = to]
      <3>1. CASE RequestSpot(p)
        <4>1. \E l \in FreeLaunches :
                  op' = [op EXCEPT ![p].cur = l, ![p].pc = "fulfilledWaiter"]
          BY <3>1, Zenon DEF RequestSpot
        <4> QED
          BY <4>1, Zenon
      <3>2. CASE RunInstances(p)
        <4>1. \E l \in FreeLaunches :
                  op' = [op EXCEPT ![p].cur = l, ![p].pc = "runningWaiter"]
          BY <3>2, Zenon DEF RunInstances
        <4> QED
          BY <4>1, Zenon
      <3> QED
        BY <1>4, <3>1, <3>2
    <2>2. /\ op'[p].result = op[p].result /\ op'[p].seen = op[p].seen
          /\ op'[p].name = op[p].name /\ op'[p].looked = op[p].looked
          /\ op'[p].pc = to
      BY <1>0, <2>1 DEF Op
    <2> QED
      BY <1>4, <2>2 DEF RequestSpot, RunInstances, At, StartGoes, StopPCs
  <1>5. CASE \/ LaunchRefused(p) \/ AwaitFulfilled(p) \/ FulfilmentFails(p)
             \/ CancelUnfulfilled(p) \/ TagInstance(p) \/ AwaitRunning(p)
             \/ AwaitStatusOk(p) \/ AwaitInUse(p) \/ VerifyVolumeAttachedTo(p)
             \/ TagENI(p)
    <2>1. \/ \E res \in {"started", "already", "error"} : Return(p, res)
          \/ /\ op[p].pc \in {"GetENI", "tagENI"} \cup StartPCs
             /\ \E to \in {"tagENI"} \cup StartPCs : Goto(p, to)
      BY <1>5 DEF LaunchRefused, AwaitFulfilled, FulfilmentFails,
             CancelUnfulfilled, TagInstance, AwaitRunning, AwaitStatusOk,
             AwaitInUse, VerifyVolumeAttachedTo, TagENI, At, StartPCs
    <2> QED
      BY <1>1, <2>1
  <1>6. CASE PersistFails(p) \/ AwaitTempVolume(p)
    <2>1. CASE PersistFails(p)
      BY <1>0, <2>1 DEF PersistFails, StartGoes, StopPCs, Op
    <2>2. CASE AwaitTempVolume(p)
      BY <1>0, <2>2 DEF AwaitTempVolume, At, StartGoes, StopPCs, Op
    <2> QED
      BY <1>6, <2>1, <2>2
  <1>7. CASE \/ ModifyInstanceAttribute(p) \/ TagVolume(p) \/ CancelTemp(p)
             \/ TerminateTemp(p) \/ AwaitTempTerminated(p)
    <2>1. \/ \E res \in {"started", "already", "error"} : Return(p, res)
          \/ /\ op[p].pc \in {"GetENI", "tagENI"} \cup StartPCs
             /\ \E to \in {"tagENI"} \cup StartPCs : Goto(p, to)
      BY <1>7 DEF ModifyInstanceAttribute, TagVolume, CancelTemp, TerminateTemp,
             AwaitTempTerminated, At, StartPCs
    <2> QED
      BY <1>1, <2>1
  <1> QED
    BY <1>2, <1>3, <1>4, <1>5, <1>6, <1>7 DEF StartStep, PersistStep

\* A Stop that is done has forgotten what it saw and goes on as a restart, or
\* not at all.
LEMMA ReturnsBegun ==
    ASSUME TypeOK, NEW p \in Procs, StopReturns(p)
    PROVE  /\ op'[p].pc \in {"idle", "GetENI"} /\ op'[p].seen = {}
           /\ ~op'[p].looked
           /\ op'[p].pc = "GetENI" => op[p].kind # "stop" /\ op'[p].name = op[p].name
PROOF
  <1>0. op[p] \in Op /\ op \in [Procs -> Op]
    BY UpdateTypes DEF TypeOK
  <1>1. CASE op[p].kind = "stop"
    BY <1>0, <1>1 DEF StopReturns, Idle
  <1>2. CASE op[p].kind # "stop"
    BY <1>0, <1>2 DEF StopReturns, Idle
  <1> QED
    BY <1>1, <1>2

\* What a step of an operation comes to.
Acts(p) ==
    \/ NothingNew /\ KeepsSeen /\ Begun(p)
    \/ /\ StartGoes(p)
       /\ \/ NothingNew /\ KeepsSeen
          \/ RequestSpot(p) \/ RunInstances(p)
    \/ NothingNew /\ KeepsSeen /\ StopGoes(p) /\ eni' = eni
    \/ NothingNew /\ KeepsSeen /\ StopEnds(p)

\* Every step of an operation is one of these.
LEMMA ActsSteps ==
    ASSUME TypeOK, Unfulfilled, NEW p \in Procs, ActsOn(p)
    PROVE  Acts(p)
PROOF
  <1>1. CASE \/ BeginStart(p) \/ BeginStop(p) \/ BeginRestart(p)
             \/ Interrupted(p) \/ WaiterFails(p)
    <2>1. Begun(p)
      BY <1>1, BeginIsBegun DEF Interrupted, WaiterFails
    <2>2. UNCHANGED launch
      BY <1>1 DEF BeginStart, BeginStop, BeginRestart, Interrupted, WaiterFails, aws
    <2> QED
      BY <2>1, <2>2 DEF NothingNew, KeepsSeen, Acts
  <1>2. CASE StartStep(p) \/ PersistStep(p)
    <2>1. StartGoes(p) \/ Begun(p)
      BY <1>2, StartGoesOrReturns, BeginIsBegun
    <2>2. CASE ~RequestSpot(p) /\ ~RunInstances(p)
      BY <1>2, <2>1, <2>2, OpNothingNew DEF OpStep, Acts
    <2>3. CASE RequestSpot(p) \/ RunInstances(p)
      <3>1. StartGoes(p)
        <4>1. op'[p].pc \in {"fulfilledWaiter", "runningWaiter"}
          <5>0. op[p] \in Op /\ op \in [Procs -> Op]
            BY UpdateTypes DEF TypeOK
          <5>1. CASE RequestSpot(p)
            <6>1. \E l \in FreeLaunches :
                     op' = [op EXCEPT ![p].cur = l, ![p].pc = "fulfilledWaiter"]
              BY <5>1, Zenon DEF RequestSpot
            <6> QED
              BY <5>0, <6>1 DEF Op
          <5>2. CASE RunInstances(p)
            <6>1. \E l \in FreeLaunches :
                     op' = [op EXCEPT ![p].cur = l, ![p].pc = "runningWaiter"]
              BY <5>2, Zenon DEF RunInstances
            <6> QED
              BY <5>0, <6>1 DEF Op
          <5> QED
            BY <2>3, <5>1, <5>2
        <4> QED
          BY <2>1, <4>1 DEF Begun
      <3> QED
        BY <2>3, <3>1 DEF Acts
    <2> QED
      BY <2>2, <2>3
  <1>3. CASE StopStep(p)
    <2>1. StopGoes(p) \/ StopEnds(p)
      BY <1>3, StopGoesOrEnds
    <2>2. eni' = eni /\ ~RequestSpot(p) /\ ~RunInstances(p)
      <3>1. eni' = eni /\ op[p].pc \in StopPCs
        BY <1>3 DEF StopStep, StopGetVolume, StopGetENI, FindInstancesByName,
           EniHolder, OpenSpotRequests, OpenSpotRequestsFails,
           CancelSpotRequests, CancelInstanceRequest, TerminateInstance,
           AwaitTerminated, AwaitVolumeAvailable, AwaitEniAvailable, aws, At,
           StopPCs
      <3> QED
        BY <3>1 DEF RequestSpot, RunInstances, At, StopPCs
    <2> QED
      BY <1>3, <2>1, <2>2, OpNothingNew DEF OpStep, Acts
  <1> QED
    BY <1>1, <1>2, <1>3 DEF ActsOn, OpStep

\* The steps of the session: no operation's, or the only operation's.
LEMMA AloneSteps ==
    ASSUME OneActive, OneActive', TypeOK, Unfulfilled, [Next]_vars
    PROVE  \/ NothingNew /\ KeepsSeen /\ UNCHANGED <<op, eni>>
           \/ \E p \in Procs : Others(p) /\ Acts(p)
PROOF
  <1>1. CASE AwsStep
    <2>1. UNCHANGED <<op, eni>>
      BY <1>1 DEF AwsStep, Fulfil, RequestFails, Boot, Chainload, Reclaim,
           Terminated, DetachVolume, Forget, DetachEni
    <2> QED
      BY <1>1, <2>1, AwsNothingNew
  <1>2. CASE UNCHANGED vars
    BY <1>2 DEF vars, NothingNew, KeepsSeen
  <1>3. CASE \E p \in Procs : ActsOn(p)
    BY <1>3, ActorIsAlone, ActsSteps
  <1> QED
    BY <1>1, <1>2, <1>3 DEF Next, ActsOn

\* Only a Stop that ends reports success.
LEMMA SuccessIsEnd ==
    ASSUME TypeOK, NEW p \in Procs, [Next]_vars, StopSucceeds(p)
    PROVE  StopEnds(p)
PROOF
  <1>0. op[p] \in Op /\ op \in [Procs -> Op]
    BY UpdateTypes DEF TypeOK
  <1>1. ~AwsStep /\ ~UNCHANGED vars
    BY DEF AwsStep, Fulfil, RequestFails, Boot, Chainload, Reclaim, Terminated,
           DetachVolume, Forget, DetachEni, vars, StopSucceeds
  <1>2. ActsOn(p)
    <2>1. PICK q \in Procs : ActsOn(q)
      BY <1>1 DEF Next, ActsOn
    <2>2. q = p
      BY <2>1, OthersStay DEF StopSucceeds
    <2> QED
      BY <2>1, <2>2
  <1>3. ~(BeginStart(p) \/ BeginStop(p) \/ BeginRestart(p))
    BY <1>0 DEF BeginStart, BeginStop, BeginRestart, Idle, StopSucceeds
  <1>4. \A res \in {"started", "already", "error"} : ~Return(p, res)
    BY <1>0 DEF Return, Idle, StopSucceeds
  <1>5. ~StartGoes(p) /\ ~StopGoes(p)
    BY DEF StartGoes, StopGoes, StopSucceeds
  <1> QED
    BY <1>2, <1>3, <1>4, <1>5, StartGoesOrReturns, StopGoesOrEnds
       DEF ActsOn, OpStep, Interrupted, WaiterFails

----------------------------------------------------------------------------
(* What a Stop has seen                                                    *)

\* What was live when the operation began is found by the time it looks for
\* requests: it is the instance that holds the session's interface.  Once the
\* instances found are waited for, it is live no more.
Finds(p) ==
    LET o == op[p]
    IN  /\ \A l \in o.seen : launch[l].inst # "none"
        /\ o.pc = "idle" => o.seen = {}
        /\ o.pc \in {"findByName", "eniHolder"} => o.eni \in AnyOf(NamedEnis)
        /\ o.pc \in {"openRequests", "cancelRequests", "nextInstance", "terminate",
                     "termWaiter"} => \A l \in o.seen : IsLive(l) => l \in o.ids
        /\ o.pc \in {"volWaiter", "eniWaiter"} => \A l \in o.seen : ~IsLive(l)

SeenInv == Unfulfilled /\ \A p \in Procs : Finds(p)

\* Nobody has seen anything yet.
LEMMA SeenInit == Init => SeenInv
BY DEF Init, SeenInv, Unfulfilled, Finds, Unused, Idle

\* What has been seen does not come to live, and what is not open has no need to.
LEMMA SeenStays ==
    ASSUME TypeOK, SeenInv, NEW p \in Procs,
           \/ NothingNew /\ KeepsSeen
           \/ RequestSpot(p) \/ RunInstances(p)
    PROVE  /\ Unfulfilled'
           /\ \A l \in op[p].seen : /\ launch'[l].inst # "none"
                                    /\ IsLive(l)' => IsLive(l)
PROOF
  <1>0. op[p].seen \subseteq Launches
    BY UpdateTypes DEF Op
  <1>1. CASE NothingNew /\ KeepsSeen
    BY <1>0, <1>1 DEF NothingNew, KeepsSeen, SeenInv, Unfulfilled, Finds, IsLive
  <1>2. CASE RequestSpot(p) \/ RunInstances(p)
    <2>1. PICK l \in Launches :
              /\ launch[l] = Unused
              /\ \A m \in Launches \ {l} : launch'[m] = launch[m]
              /\ launch'[l].req = "open" => launch'[l].inst = "none"
      BY <1>2, LaunchNew
    <2>2. l \notin op[p].seen
      BY <2>1 DEF Unused, SeenInv, Finds
    <2> QED
      BY <1>0, <2>1, <2>2 DEF SeenInv, Unfulfilled, Finds, IsLive
  <1> QED
    BY <1>1, <1>2

\* The operation finds what it has seen.
LEMMA SeenStep ==
    ASSUME OneActive, OneActive', TypeOK, NamedInv, OneEni, SeenInv, [Next]_vars
    PROVE  SeenInv'
PROOF
  <1> DEFINE Stays(p) == \A l \in op[p].seen : /\ launch'[l].inst # "none"
                                               /\ IsLive(l)' => IsLive(l)
  <1>0. ASSUME NEW p \in Procs, Others(p), Unfulfilled', Finds(p)'
        PROVE  SeenInv'
    BY <1>0 DEF Others, At, SeenInv, Finds
  <1>1. CASE NothingNew /\ KeepsSeen /\ UNCHANGED <<op, eni>>
    <2>1. \A p \in Procs : Stays(p)
      BY <1>1, SeenStays
    <2>2. Unfulfilled'
      BY <1>1 DEF SeenInv, Unfulfilled, NothingNew
    <2> QED
      BY <1>1, <2>1, <2>2 DEF SeenInv, Finds, NamedEnis, AnyOf
  <1>2. ASSUME NEW p \in Procs, Others(p), NothingNew, KeepsSeen, Begun(p)
        PROVE  SeenInv'
    <2>1. Unfulfilled'
      BY <1>2, SeenStays
    <2>2. \A l \in op'[p].seen : launch'[l].inst # "none"
      BY <1>2 DEF Begun, LiveInstances, IsLive, Live
    <2> QED
      BY <1>0, <1>2, <2>1, <2>2 DEF Finds, Begun
  <1>3. ASSUME NEW p \in Procs, Others(p), StartGoes(p),
               \/ NothingNew /\ KeepsSeen
               \/ RequestSpot(p) \/ RunInstances(p)
        PROVE  SeenInv'
    <2>1. Unfulfilled' /\ Stays(p)
      BY <1>3, SeenStays
    <2> QED
      BY <1>0, <1>3, <2>1 DEF Finds, StartGoes, StopPCs
  <1>4. ASSUME NEW p \in Procs, Others(p),
               NothingNew, KeepsSeen, StopGoes(p), eni' = eni
        PROVE  SeenInv'
    <2>1. Unfulfilled' /\ Stays(p)
      BY <1>4, SeenStays
    <2>2. AnyOf(NamedEnis)' = AnyOf(NamedEnis)
      BY <1>4 DEF NamedEnis, AnyOf
    <2>3. ASSUME op[p].pc = "eniHolder", op'[p].pc = "openRequests",
                 op[p].eni # None => holder[op[p].eni] \in op'[p].ids \cup {None}
          PROVE  \A l \in op[p].seen : IsLive(l) => l \in op'[p].ids
      <3> SUFFICES ASSUME NEW l \in op[p].seen, IsLive(l) PROVE l \in op'[p].ids
        OBVIOUS
      <3>1. l \in Launches /\ l # None
        BY UpdateTypes, NoneAssumption DEF Op
      <3>2. launch[l].eni \in NamedEnis /\ holder[launch[l].eni] = l
        BY <3>1 DEF NamedInv, LaunchesNamed, IsLive, Wants, Running
      <3>3. op[p].eni \in NamedEnis
        BY <2>3, <3>2 DEF SeenInv, Finds, AnyOf
      <3>4. op[p].eni = launch[l].eni /\ op[p].eni # None
        BY <3>2, <3>3, NoneAssumption DEF OneEni, NamedEnis
      <3> QED
        BY <2>3, <3>1, <3>2, <3>4
    <2>4. Finds(p)
      BY DEF SeenInv
    <2>5. op'[p].seen = op[p].seen
      BY <1>4 DEF StopGoes
    <2>6. ASSUME op[p].pc \in {"stopVolume", "stopENI", "findByName"}
          PROVE  Finds(p)'
      BY <1>4, <2>1, <2>2, <2>4, <2>5, <2>6 DEF Finds, StopGoes, CancelSpotRequests, At
    <2>7. ASSUME op[p].pc = "eniHolder"
          PROVE  Finds(p)'
      BY <1>4, <2>1, <2>3, <2>5, <2>7 DEF Finds, StopGoes, CancelSpotRequests, At
    <2>8. ASSUME op[p].pc \in {"openRequests", "cancelRequests", "nextInstance",
                               "terminate"}
          PROVE  Finds(p)'
      <3>1. /\ op'[p].pc \in {"cancelRequests", "nextInstance", "terminate",
                              "termWaiter"}
            /\ op'[p].ids = op[p].ids
        BY <1>4, <2>8 DEF StopGoes, CancelSpotRequests, At
      <3> QED
        BY <2>1, <2>4, <2>5, <2>8, <3>1 DEF Finds
    <2>9. ASSUME op[p].pc \in {"termWaiter", "volWaiter"}
          PROVE  Finds(p)'
      <3>1. /\ op'[p].pc \in {"volWaiter", "eniWaiter"}
            /\ op[p].pc = "termWaiter" =>
                   \A l \in op[p].ids : launch[l].inst = "terminated"
        BY <1>4, <2>9 DEF StopGoes, CancelSpotRequests, At
      <3>2. \A l \in op[p].seen : ~IsLive(l)
        BY <2>4, <2>9, <3>1 DEF Finds, IsLive, Live
      <3> QED
        BY <2>1, <2>4, <2>5, <3>1, <3>2 DEF Finds
    <2>10. Finds(p)'
      BY <1>4, <2>6, <2>7, <2>8, <2>9 DEF StopGoes, CancelSpotRequests, At
    <2> QED
      BY <1>0, <1>4, <2>1, <2>10
  <1>5. ASSUME NEW p \in Procs, Others(p), NothingNew, KeepsSeen, StopEnds(p)
        PROVE  SeenInv'
    <2>1. Unfulfilled'
      BY <1>5, SeenStays
    <2>2. op'[p].pc \in {"idle", "GetENI"} /\ op'[p].seen = {}
      BY <1>5, ReturnsBegun DEF StopEnds
    <2> QED
      BY <1>0, <1>5, <2>1, <2>2 DEF Finds
  <1> QED
    BY <1>1, <1>2, <1>3, <1>4, <1>5, AloneSteps DEF SeenInv, Acts

\* Without overlap, a Stop that reports success has ended every instance that
\* was live when it began, found by the volume, by the name or by the interface.
THEOREM StopEndsRunning ==
    Init /\ [][Next]_vars /\ []OneActive => StopEndsWhatRan
PROOF
  <1>1. Init => SeenInv
    BY SeenInit
  <1>2. TypeOK /\ SeenInv /\ [Next]_vars =>
          [\A p \in Procs : StopSucceeds(p) =>
             \A l \in op[p].seen : launch'[l].inst \notin Live]_vars
    <2> SUFFICES ASSUME TypeOK, SeenInv, [Next]_vars,
                        NEW p \in Procs, StopSucceeds(p), NEW l \in op[p].seen
                 PROVE  launch'[l].inst \notin Live
      OBVIOUS
    <2>1. StopEnds(p)
      BY SuccessIsEnd
    <2>2. ~IsLive(l)
      BY <2>1 DEF StopEnds, CancelSpotRequests, AwaitEniAvailable, At, SeenInv, Finds
    <2>3. launch'[l].inst = launch[l].inst
      <3>1. l \in Launches /\ launch[l] \in Launch
        BY UpdateTypes DEF Op
      <3>2. CASE CancelSpotRequests(p)
        BY <3>1, <3>2 DEF CancelSpotRequests, Launch
      <3>3. CASE AwaitEniAvailable(p)
        BY <3>3 DEF AwaitEniAvailable, aws
      <3> QED
        BY <2>1, <3>2, <3>3 DEF StopEnds
    <2> QED
      BY <2>2, <2>3 DEF IsLive
  <1> QED
    BY <1>1, <1>2, EniInit, TypeStep, NamedStep, OneEniStep, SeenStep, PTL
       DEF StopEndsWhatRan

----------------------------------------------------------------------------
(* What a Stop has cancelled                                               *)

\* Launches bear the session's own name.
OwnName == InstanceNames = {AWSName}

Tagged == \A l \in Launches : launch[l].req = "open" => launch[l].reqTag = AWSName

\* A Stop that could look has found every open request, and then ended them.
Cancels(p) ==
    LET o == op[p]
    IN  /\ o.looked => o.pc \in {"cancelRequests"} \cup Ending
        /\ o.looked /\ o.pc = "cancelRequests" =>
               \A l \in Launches : launch[l].req = "open" => l \in o.reqs
        /\ o.looked /\ o.pc \in Ending => \A l \in Launches : launch[l].req # "open"
        /\ o.pc # "idle" /\ (o.pc \notin StopPCs \/ o.kind # "stop") =>
               o.name = AWSName

RequestsInv == Tagged /\ \A p \in Procs : Cancels(p)

\* The operation opens no request once it has looked, and only with its name.
LEMMA RequestsStep ==
    ASSUME OwnName, OneActive, OneActive', TypeOK, Unfulfilled, RequestsInv,
           [Next]_vars
    PROVE  RequestsInv'
PROOF
  <1>0. ASSUME NEW p \in Procs, Others(p), Tagged', Cancels(p)'
        PROVE  RequestsInv'
    BY <1>0 DEF Others, At, RequestsInv, Cancels, Ending
  <1>1. Tagged /\ \A p \in Procs : Cancels(p)
    BY DEF RequestsInv
  <1>2. ASSUME NothingNew
        PROVE  /\ Tagged'
               /\ \A l \in Launches : launch'[l].req = "open" => launch[l].req = "open"
    BY <1>1, <1>2 DEF NothingNew, Tagged
  <1>3. CASE NothingNew /\ UNCHANGED op
    BY <1>1, <1>2, <1>3 DEF RequestsInv, Cancels
  <1>4. ASSUME NEW p \in Procs, Others(p), NothingNew, Begun(p)
        PROVE  RequestsInv'
    <2>1. Cancels(p)'
      BY <1>4 DEF Cancels, Begun, OwnName, StopPCs
    <2> QED
      BY <1>0, <1>2, <1>4, <2>1
  <1>5. ASSUME NEW p \in Procs, Others(p), NothingNew, StartGoes(p)
        PROVE  RequestsInv'
    <2>1. Cancels(p)'
      BY <1>1, <1>5 DEF Cancels, StartGoes, StopPCs, Ending
    <2> QED
      BY <1>0, <1>2, <1>5, <2>1
  <1>6. ASSUME NEW p \in Procs, Others(p), NothingNew, StopGoes(p)
        PROVE  RequestsInv'
    <2>0. Cancels(p)
      BY <1>1
    <2>1. op[p].pc \in StopPCs /\ op'[p].pc \in StopPCs
      BY <1>6 DEF StopGoes, StopPCs, CancelSpotRequests, At
    <2>2. op'[p].kind # "stop" => op'[p].name = AWSName
      BY <1>6, <2>0, <2>1 DEF Cancels, StopGoes, StopPCs
    <2>3. ASSUME op[p].pc \in {"stopVolume", "stopENI", "findByName", "eniHolder"}
          PROVE  Cancels(p)'
      <3>1. ~op'[p].looked
        BY <1>6, <2>0, <2>3 DEF Cancels, StopGoes, CancelSpotRequests, At, Ending
      <3> QED
        BY <2>1, <2>2, <3>1 DEF Cancels
    <2>4. ASSUME op[p].pc = "openRequests"
          PROVE  Cancels(p)'
      <3>1. /\ op'[p].pc = "cancelRequests" /\ launch' = launch
            /\ op'[p].looked => op'[p].reqs = OpenRequests
        BY <1>6, <2>0, <2>4 DEF Cancels, StopGoes, CancelSpotRequests, At, Ending
      <3> QED
        BY <1>1, <2>1, <2>2, <3>1 DEF Cancels, Tagged, OpenRequests, Ending
    <2>5. ASSUME op[p].pc = "cancelRequests"
          PROVE  Cancels(p)'
      <3>1. /\ op'[p].pc = "nextInstance" /\ op'[p].looked = op[p].looked
            /\ CancelSpotRequests(p)
        BY <1>6, <2>5 DEF StopGoes
      <3>2. \A l \in op[p].reqs \cap Launches : launch'[l].req # "open"
        BY <3>1, UpdateTypes DEF CancelSpotRequests, Cancelled, Launch
      <3> QED
        BY <1>2, <1>6, <2>0, <2>1, <2>2, <2>5, <3>1, <3>2 DEF Cancels, Ending
    <2>6. ASSUME op[p].pc \in Ending
          PROVE  Cancels(p)'
      <3>1. op'[p].pc \in Ending /\ op'[p].looked = op[p].looked
        BY <1>6, <2>6 DEF StopGoes, CancelSpotRequests, At, Ending
      <3> QED
        BY <1>2, <1>6, <2>0, <2>1, <2>2, <2>6, <3>1 DEF Cancels, Ending
    <2>7. Cancels(p)'
      BY <1>6, <2>1, <2>3, <2>4, <2>5, <2>6 DEF StopPCs, Ending
    <2> QED
      BY <1>0, <1>2, <1>6, <2>7
  <1>7. ASSUME NEW p \in Procs, Others(p), NothingNew, StopEnds(p)
        PROVE  RequestsInv'
    <2>1. /\ op'[p].pc \in {"idle", "GetENI"} /\ ~op'[p].looked
          /\ op'[p].pc = "GetENI" => op[p].kind # "stop" /\ op'[p].name = op[p].name
      BY <1>7, ReturnsBegun DEF StopEnds
    <2>2. op[p].pc \in {"cancelRequests", "eniWaiter"}
      BY <1>7 DEF StopEnds, CancelSpotRequests, AwaitEniAvailable, At
    <2>3. Cancels(p)'
      BY <1>1, <2>1, <2>2 DEF Cancels
    <2> QED
      BY <1>0, <1>2, <1>7, <2>3
  <1>8. ASSUME NEW p \in Procs, Others(p), StartGoes(p),
               RequestSpot(p) \/ RunInstances(p)
        PROVE  RequestsInv'
    <2>1. op[p].name = AWSName
      BY <1>1, <1>8 DEF Cancels, StartGoes
    <2>2. Tagged'
      <3>1. PICK l \in Launches :
                /\ \A m \in Launches \ {l} : launch'[m] = launch[m]
                /\ launch'[l].req = "open" => launch'[l].reqTag = op[p].name
        BY <1>8, LaunchNew
      <3> QED
        BY <1>1, <2>1, <3>1 DEF Tagged
    <2>3. Cancels(p)'
      BY <1>1, <1>8, <2>1 DEF Cancels, StartGoes, StopPCs, Ending
    <2> QED
      BY <1>0, <1>8, <2>2, <2>3
  <1> QED
    BY <1>3, <1>4, <1>5, <1>6, <1>7, <1>8, AloneSteps DEF Acts

\* Without overlap and with the session's own name on every launch, a Stop that
\* reports success and could look the requests up leaves none that may fulfil.
THEOREM StopCancelsRequests ==
    ASSUME OwnName
    PROVE  Init /\ [][Next]_vars /\ []OneActive => StopEndsRequests
PROOF
  <1>1. Init => RequestsInv
    BY DEF Init, Unused, Idle, RequestsInv, Tagged, Cancels, Ending
  <1>2. TypeOK /\ RequestsInv /\ [Next]_vars =>
          [\A p \in Procs : StopSucceeds(p) /\ op[p].looked =>
             \A l \in Launches : launch'[l].req # "open"]_vars
    <2> SUFFICES ASSUME TypeOK, RequestsInv, [Next]_vars,
                        NEW p \in Procs, StopSucceeds(p), op[p].looked,
                        NEW l \in Launches
                 PROVE  launch'[l].req # "open"
      OBVIOUS
    <2>1. StopEnds(p)
      BY SuccessIsEnd
    <2>2. CASE CancelSpotRequests(p)
      <3>1. launch[l].req = "open" => l \in op[p].reqs
        BY <2>2 DEF RequestsInv, Cancels, CancelSpotRequests, At
      <3>2. launch[l] \in Launch
        BY UpdateTypes
      <3> QED
        BY <2>2, <3>1, <3>2 DEF CancelSpotRequests, Cancelled, Launch
    <2>3. CASE AwaitEniAvailable(p)
      BY <2>3 DEF AwaitEniAvailable, At, aws, RequestsInv, Cancels, Ending
    <2> QED
      BY <2>1, <2>2, <2>3 DEF StopEnds
  <1>3. SeenInv => Unfulfilled
    BY DEF SeenInv
  <1>4. OneActive /\ OneActive' /\ TypeOK /\ Unfulfilled /\ RequestsInv
            /\ [Next]_vars => RequestsInv'
    BY RequestsStep
  <1> QED
    BY <1>1, <1>2, <1>3, <1>4, EniInit, SeenInit, TypeStep, NamedStep,
       OneEniStep, SeenStep, PTL DEF StopEndsRequests

----------------------------------------------------------------------------
(* One root file system                                                    *)

Named(v) == launch[v].volTag = AWSName

\* Where an operation stands in making or choosing the root: it makes one only
\* when there is none, and launches from one that bears the name.
RootPlace(p) ==
    LET o == op[p]
    IN  /\ o.pc \in StartPCs \ {"GetVolume", "launch"} => o.cur \in Launches
        /\ o.pc = "launch" => IF o.temp THEN o.vol = None
                              ELSE o.vol \in Launches /\ Named(o.vol)
        /\ /\ o.temp
           /\ o.pc \in {"launch", "fulfilledWaiter", "tagInstance", "runningWaiter"}
           => Roots = {}
        /\ o.pc \in {"modifyAttribute", "tagVolume"} => Roots \subseteq {o.cur}
        /\ \/ /\ o.pc \in {"cancelTemp", "terminateTemp", "tempTermWaiter"}
              /\ ~o.persistErr
           \/ o.pc = "tempVolWaiter"
           => Named(o.cur)

RootInv ==
    /\ \A v, w \in Roots : v = w
    /\ \A l \in Launches : launch[l].inst = "none" => ~launch[l].keep
    /\ \A l \in Launches : Chains(l) => Named(launch[l].chain)
    /\ \A p \in Procs : RootPlace(p)

\* Steps that make no root and let none that is in use go.
KeepsRoots ==
    /\ Roots' \subseteq Roots
    /\ \A l \in Launches :
           /\ launch'[l].inst = "none" => ~launch'[l].keep
           /\ Chains(l)' => Chains(l) /\ Named(launch[l].chain)'
    /\ \A p \in Procs, l \in Launches :
           l \in {op[p].cur, op[p].vol} /\ Named(l) => Named(l)'

\* A step that keeps the tags and the kept volumes of all launches is such.
LEMMA SameVolumes ==
    ASSUME TypeOK, RootInv,
           \A l \in Launches :
               /\ launch'[l].volTag = launch[l].volTag
               /\ launch'[l].keep = launch[l].keep
               /\ launch'[l].chain = launch[l].chain
               /\ launch'[l].keep /\ launch'[l].vol = "there" =>
                      launch[l].vol = "there"
               /\ launch'[l].inst = "none" => launch[l].inst = "none"
               /\ Chains(l)' => Chains(l)
    PROVE  KeepsRoots
PROOF
  <1>1. Roots' \subseteq Roots
    BY DEF Roots, NamedVolumes
  <1>2. ASSUME NEW l \in Launches
        PROVE  /\ launch'[l].inst = "none" => ~launch'[l].keep
               /\ Chains(l)' => Chains(l) /\ Named(launch[l].chain)'
    <2>1. launch'[l].inst = "none" => ~launch'[l].keep
      BY DEF RootInv
    <2>2. ASSUME Chains(l)' PROVE Chains(l) /\ Named(launch[l].chain)'
      <3>1. Chains(l) /\ launch[l].chain \in Launches /\ Named(launch[l].chain)
        BY <2>2, UpdateTypes DEF Chains, Launch, RootInv
      <3> QED
        BY <3>1 DEF Named
    <2> QED
      BY <2>1, <2>2
  <1> QED
    BY <1>1, <1>2 DEF KeepsRoots, Named

\* AWS makes no root, and forgets none that is in use.
LEMMA AwsKeepsRoots ==
    ASSUME TypeOK, KeptInv, Unfulfilled, RootInv, AwsStep PROVE KeepsRoots
PROOF
  <1> DEFINE Same(l) == /\ launch'[l].volTag = launch[l].volTag
                        /\ launch'[l].keep = launch[l].keep
                        /\ launch'[l].chain = launch[l].chain
                        /\ launch'[l].keep /\ launch'[l].vol = "there" =>
                               launch[l].vol = "there"
                        /\ launch'[l].inst = "none" => launch[l].inst = "none"
                        /\ Chains(l)' => Chains(l)
  <1>0. \A l \in Launches : launch[l] \in Launch
    BY UpdateTypes
  <1>1. ASSUME NEW l \in Launches,
               \/ Fulfil(l) \/ RequestFails(l) \/ Boot(l) \/ Reclaim(l)
               \/ Terminated(l) \/ DetachVolume(l)
        PROVE  KeepsRoots
    <2>1. \A m \in Launches \ {l} : launch'[m] = launch[m]
      BY <1>1 DEF Fulfil, RequestFails, Boot, Reclaim, Terminated, DetachVolume,
           TypeOK
    <2>2. Same(l)
      <3>1. CASE Fulfil(l)
        BY <1>0, <3>1 DEF Fulfil, Unfulfilled, RootInv, TypeOK, Launch, Chains, IsLive
      <3>2. CASE RequestFails(l)
        BY <1>0, <3>2 DEF RequestFails, TypeOK, Launch, Chains, IsLive
      <3>3. CASE Boot(l)
        BY <1>0, <3>3 DEF Boot, TypeOK, Launch, Chains, IsLive, Live
      <3>4. CASE Reclaim(l)
        BY <1>0, <3>4 DEF Reclaim, TypeOK, Launch, Chains, IsLive, Live
      <3>5. CASE Terminated(l)
        BY <1>0, <3>5 DEF Terminated, TypeOK, Launch, Chains, IsLive, Live
      <3>6. CASE DetachVolume(l)
        BY <1>0, <3>6 DEF DetachVolume, KeptInv, VolumeOk, TypeOK, Launch, Chains,
                          IsLive
      <3> QED
        BY <1>1, <3>1, <3>2, <3>3, <3>4, <3>5, <3>6
    <2>3. \A m \in Launches : Same(m)
      BY <2>1, <2>2 DEF Chains, IsLive
    <2> QED
      BY <2>3, SameVolumes
  <1>2. ASSUME NEW l \in Launches, Chainload(l) PROVE KeepsRoots
    <2> DEFINE v == launch[l].chain
    <2>1. PICK a : \/ launch' = [launch EXCEPT ![l].inst = "serving", ![v].att = a]
                   \/ launch' = [launch EXCEPT ![l].inst = "serving"]
      BY <1>2 DEF Chainload
    <2>2. launch[l].inst = "running"
      BY <1>2 DEF Chainload
    <2> HIDE DEF v
    <2>3. ASSUME NEW m \in Launches
          PROVE  /\ launch'[m].volTag = launch[m].volTag
                 /\ launch'[m].keep = launch[m].keep
                 /\ launch'[m].chain = launch[m].chain
                 /\ launch'[m].vol = launch[m].vol
                 /\ launch'[m].req = launch[m].req
                 /\ launch'[m].inst = IF m = l THEN "serving" ELSE launch[m].inst
      BY <1>0, <2>1 DEF TypeOK, Launch
    <2>4. \A m \in Launches : Same(m)
      BY <2>2, <2>3 DEF Chains, IsLive, Live
    <2> QED
      BY <2>4, SameVolumes
  <1>3. ASSUME NEW l \in Launches, Forget(l) PROVE KeepsRoots
    <2>1. /\ launch'[l] = Unused
          /\ \A m \in Launches \ {l} : launch'[m] = launch[m] /\ launch[m].chain # l
          /\ \A p \in Procs : l \notin {op[p].cur, op[p].vol}
      BY <1>3 DEF Forget, TypeOK
    <2>2. Roots' \subseteq Roots
      BY <2>1 DEF Roots, NamedVolumes, Unused
    <2>3. ASSUME NEW m \in Launches
          PROVE  /\ launch'[m].inst = "none" => ~launch'[m].keep
                 /\ Chains(m)' => Chains(m) /\ Named(launch[m].chain)'
      <3>1. CASE m = l
        BY <2>1, <3>1 DEF Unused, Chains
      <3>2. CASE m # l
        <4>1. launch'[m] = launch[m] /\ launch[m].chain # l
          BY <2>1, <3>2
        <4>2. Chains(m) => launch[m].chain \in Launches \ {l}
          BY <1>0, <4>1 DEF Chains, Launch
        <4> QED
          BY <2>1, <4>1, <4>2 DEF RootInv, Chains, IsLive, Named
      <3> QED
        BY <3>1, <3>2
    <2>4. ASSUME NEW p \in Procs, NEW m \in Launches,
                 m \in {op[p].cur, op[p].vol}, Named(m)
          PROVE  Named(m)'
      BY <2>1, <2>4 DEF Named
    <2> QED
      BY <2>2, <2>3, <2>4 DEF KeepsRoots
  <1>4. ASSUME NEW e \in Enis, DetachEni(e) PROVE KeepsRoots
    BY <1>4, SameVolumes DEF DetachEni, Chains, IsLive
  <1> QED
    BY <1>1, <1>2, <1>3, <1>4 DEF AwsStep

\* Cancelling, terminating and tagging instances make no root.
LEMMA EditsKeepRoots ==
    ASSUME TypeOK, RootInv, NEW c, NEW n,
           \/ UNCHANGED launch
           \/ launch' = [launch EXCEPT ![c].req = Cancelled(@)]
           \/ launch' = [launch EXCEPT ![c].inst = Shut(@)]
           \/ launch' = [launch EXCEPT ![c].instTag = n]
    PROVE  KeepsRoots
PROOF
  <1>1. ASSUME NEW l \in Launches
        PROVE  /\ launch'[l].volTag = launch[l].volTag
               /\ launch'[l].keep = launch[l].keep
               /\ launch'[l].chain = launch[l].chain
               /\ launch'[l].vol = launch[l].vol
               /\ launch'[l].req \in {launch[l].req, Cancelled(launch[l].req)}
               /\ launch'[l].inst \in {launch[l].inst, Shut(launch[l].inst)}
    <2>0. launch[l] \in Launch
      BY UpdateTypes
    <2>1. CASE UNCHANGED launch
      BY <2>1
    <2>2. CASE launch' = [launch EXCEPT ![c].req = Cancelled(@)]
      BY <2>0, <2>2 DEF TypeOK, Launch
    <2>3. CASE launch' = [launch EXCEPT ![c].inst = Shut(@)]
      BY <2>0, <2>3 DEF TypeOK, Launch
    <2>4. CASE launch' = [launch EXCEPT ![c].instTag = n]
      BY <2>0, <2>4 DEF TypeOK, Launch
    <2> QED
      BY <2>1, <2>2, <2>3, <2>4
  <1>2. ASSUME NEW l \in Launches
        PROVE  /\ launch'[l].inst = "none" => launch[l].inst = "none"
               /\ Chains(l)' => Chains(l)
    BY <1>1 DEF Cancelled, Shut, Chains, IsLive, Live
  <1> QED
    BY <1>1, <1>2, SameVolumes

\* A launch makes no root; what it launches from bears the name.
LEMMA LaunchKeepsRoots ==
    ASSUME TypeOK, KeptInv, RootInv, NEW p \in Procs, Others(p),
           RequestSpot(p) \/ RunInstances(p)
    PROVE  /\ Roots' \subseteq Roots
           /\ \A l \in Launches : launch'[l].inst = "none" => ~launch'[l].keep
           /\ \A l \in Launches : Chains(l)' => Named(launch[l].chain)'
           /\ op'[p].temp = op[p].temp /\ op'[p].cur \in Launches
           /\ op'[p].pc \in {"fulfilledWaiter", "runningWaiter"}
PROOF
  <1>0. op[p] \in Op /\ op \in [Procs -> Op]
    BY UpdateTypes DEF TypeOK
  <1>1. PICK l \in FreeLaunches :
            /\ \/ launch' = [launch EXCEPT ![l].req = "open",
                                           ![l].reqTag = op[p].name,
                                           ![l].eni = op[p].eni,
                                           ![l].chain = op[p].vol]
               \/ launch' = [launch EXCEPT ![l].inst = "pending",
                                           ![l].instTag = op[p].name,
                                           ![l].vol = "there", ![l].att = l,
                                           ![l].volTag = op[p].name,
                                           ![l].eni = op[p].eni,
                                           ![l].chain = op[p].vol]
            /\ \/ op' = [op EXCEPT ![p].cur = l, ![p].pc = "fulfilledWaiter"]
               \/ op' = [op EXCEPT ![p].cur = l, ![p].pc = "runningWaiter"]
    <2>1. CASE RequestSpot(p)
      BY <2>1, Zenon DEF RequestSpot
    <2>2. CASE RunInstances(p)
      BY <2>2, Zenon DEF RunInstances
    <2> QED
      BY <2>1, <2>2
  <1>2. /\ l \in Launches /\ launch[l] = Unused /\ launch[l] \in Launch
        /\ launch \in [Launches -> Launch]
    BY UpdateTypes DEF FreeLaunches, TypeOK
  <1>3. /\ \A m \in Launches \ {l} : launch'[m] = launch[m]
        /\ launch'[l].chain = op[p].vol /\ ~launch'[l].keep
    BY <1>1, <1>2 DEF Launch, Unused
  <1>4. Roots' \subseteq Roots
    BY <1>3 DEF Roots, NamedVolumes
  <1>5. \A m \in Launches : launch'[m].inst = "none" => ~launch'[m].keep
    BY <1>3 DEF RootInv
  <1>6. ASSUME NEW v \in Launches, Kept(v), Named(v) PROVE Named(v)'
    BY <1>2, <1>3, <1>6 DEF Named, Kept, Unused
  <1>7. ASSUME NEW m \in Launches, Chains(m)' PROVE Named(launch[m].chain)'
    <2>1. CASE m = l
      <3>1. op[p].vol # None /\ op[p].vol \in Launches
        BY <1>0, <1>3, <1>7, <2>1 DEF Chains, Op
      <3>2. Kept(op[p].vol) /\ Named(op[p].vol)
        <4>1. At(p, "launch")
          BY DEF RequestSpot, RunInstances
        <4> QED
          BY <3>1, <4>1 DEF At, KeptInv, PicksKept, RootInv, RootPlace
      <3> QED
        BY <1>3, <1>6, <2>1, <3>1, <3>2
    <2>2. CASE m # l
      <3>1. Chains(m) /\ launch'[m].chain = launch[m].chain
        BY <1>3, <1>7, <2>2 DEF Chains, IsLive
      <3>2. launch[m].chain \in Launches
        BY <3>1, UpdateTypes DEF Chains, Launch
      <3>3. Kept(launch[m].chain) /\ Named(launch[m].chain)
        BY <3>1 DEF KeptInv, RootInv
      <3> QED
        BY <1>6, <3>1, <3>2, <3>3
    <2> QED
      BY <2>1, <2>2
  <1>8. /\ op'[p].temp = op[p].temp /\ op'[p].cur = l
        /\ op'[p].pc \in {"fulfilledWaiter", "runningWaiter"}
    BY <1>0, <1>1 DEF Op
  <1> QED
    BY <1>2, <1>4, <1>5, <1>7, <1>8

\* Keeping and naming the throwaway spot's volume make at most that one a root.
LEMMA PersistRoot ==
    ASSUME TypeOK, RootInv, NEW p \in Procs,
           ModifyInstanceAttribute(p) \/ TagVolume(p)
    PROVE  /\ op[p].cur \in Launches /\ Roots' \subseteq {op[p].cur}
           /\ \A l \in Launches : launch'[l].inst = "none" => ~launch'[l].keep
           /\ \A l \in Launches : Chains(l)' => Named(launch[l].chain)'
           /\ TagVolume(p) => launch'[op[p].cur].volTag = AWSName
PROOF
  <1> DEFINE c == op[p].cur
  <1>1. /\ c \in Launches /\ Roots \subseteq {c}
    BY DEF ModifyInstanceAttribute, TagVolume, At, RootInv, RootPlace, StartPCs
  <1>2. /\ launch' \in {[launch EXCEPT ![c].keep = TRUE],
                        [launch EXCEPT ![c].volTag = AWSName]}
        /\ ModifyInstanceAttribute(p) => IsLive(c)
        /\ TagVolume(p) => launch' = [launch EXCEPT ![c].volTag = AWSName]
    BY DEF ModifyInstanceAttribute, TagVolume
  <1> HIDE DEF c
  <1>3. ASSUME NEW m \in Launches
        PROVE  /\ m # c => launch'[m] = launch[m]
               /\ launch'[m].inst = launch[m].inst
               /\ launch'[m].req = launch[m].req
               /\ launch'[m].chain = launch[m].chain
               /\ Named(m) => Named(m)'
               /\ launch'[m].keep => launch[m].keep \/ launch[m].inst # "none"
    <2>0. launch[m] \in Launch /\ launch[c] \in Launch /\ launch \in [Launches -> Launch]
      BY <1>1, UpdateTypes DEF TypeOK
    <2>1. CASE TagVolume(p)
      BY <1>1, <1>2, <2>0, <2>1 DEF Launch, Named
    <2>2. CASE ModifyInstanceAttribute(p) /\ launch' = [launch EXCEPT ![c].keep = TRUE]
      BY <1>1, <1>2, <2>0, <2>2 DEF Launch, Named, IsLive, Live
    <2>3. ModifyInstanceAttribute(p) => launch' = [launch EXCEPT ![c].keep = TRUE]
      BY DEF ModifyInstanceAttribute, c
    <2> QED
      BY <2>1, <2>2, <2>3
  <1>4. Roots' \subseteq {c}
    BY <1>1, <1>3 DEF Roots, NamedVolumes
  <1>5. ASSUME NEW m \in Launches, Chains(m)' PROVE Named(launch[m].chain)'
    <2>1. Chains(m) /\ launch[m].chain \in Launches
      BY <1>3, <1>5, UpdateTypes DEF Chains, IsLive, Launch
    <2>2. Named(launch[m].chain)'
      <3> DEFINE v == launch[m].chain
      <3>1. v \in Launches /\ Named(v)
        BY <2>1 DEF RootInv
      <3>2. launch'[m].chain = v
        BY <1>3
      <3> HIDE DEF v
      <3>3. launch'[v].volTag = AWSName
        BY <1>3, <3>1 DEF Named
      <3> QED
        BY <3>2, <3>3 DEF Named
    <2> QED
      BY <2>2
  <1>6. TagVolume(p) => launch'[c].volTag = AWSName
    <2>1. launch[c] \in Launch /\ launch \in [Launches -> Launch]
      BY <1>1, UpdateTypes DEF TypeOK
    <2> QED
      BY <1>1, <1>2, <2>1 DEF Launch
  <1> QED
    BY <1>1, <1>3, <1>4, <1>5, <1>6 DEF RootInv, c

\* No other step of an operation makes a root.
LEMMA OpKeepsRoots ==
    ASSUME TypeOK, RootInv, NEW p \in Procs, ActsOn(p),
           ~(RequestSpot(p) \/ RunInstances(p)),
           ~(ModifyInstanceAttribute(p) \/ TagVolume(p))
    PROVE  KeepsRoots
PROOF
  <1>1. CASE CancelSpotRequests(p)
    <2>1. ASSUME NEW l \in Launches
          PROVE  /\ launch'[l].req = "open" => launch[l].req = "open"
                 /\ launch'[l].inst = launch[l].inst
                 /\ launch'[l].vol = launch[l].vol
                 /\ launch'[l].volTag = launch[l].volTag
                 /\ launch'[l].keep = launch[l].keep
                 /\ launch'[l].chain = launch[l].chain
      <3>1. launch[l] \in Launch
        BY UpdateTypes
      <3> QED
        BY <1>1, <3>1 DEF CancelSpotRequests, Launch, Cancelled
    <2>2. \A l \in Launches : Chains(l)' => Chains(l)
      BY <2>1 DEF Chains, IsLive
    <2> QED
      BY <2>1, <2>2, SameVolumes
  <1>2. CASE ~CancelSpotRequests(p)
    <2>1. PICK c, n : \/ UNCHANGED launch
                      \/ launch' = [launch EXCEPT ![c].req = Cancelled(@)]
                      \/ launch' = [launch EXCEPT ![c].inst = Shut(@)]
                      \/ launch' = [launch EXCEPT ![c].instTag = n]
      <3>1. CASE \/ BeginStart(p) \/ BeginStop(p) \/ BeginRestart(p)
                 \/ Interrupted(p) \/ WaiterFails(p)
        BY <3>1 DEF BeginStart, BeginStop, BeginRestart, Interrupted, WaiterFails,
                    aws
      <3>2. CASE StartStep(p)
        <4>1. CASE GetENI(p)
          BY <4>1 DEF GetENI, aws
        <4> QED
          BY <3>2, <4>1
             DEF StartStep, TagENI, StartGetVolume, LaunchRefused,
                 AwaitFulfilled, FulfilmentFails, CancelUnfulfilled, TagInstance,
                 AwaitRunning, AwaitStatusOk, AwaitInUse, VerifyVolumeAttachedTo,
                 aws
      <3>3. CASE PersistStep(p)
        BY <3>3 DEF PersistStep, PersistFails, CancelTemp, TerminateTemp,
               AwaitTempTerminated, AwaitTempVolume, aws
      <3>4. CASE StopStep(p)
        BY <1>2, <3>4 DEF StopStep, StopGetVolume, StopGetENI,
               FindInstancesByName, EniHolder, OpenSpotRequests,
               OpenSpotRequestsFails, CancelInstanceRequest, TerminateInstance,
               AwaitTerminated, AwaitVolumeAvailable, AwaitEniAvailable, aws
      <3> QED
        BY <3>1, <3>2, <3>3, <3>4 DEF ActsOn, OpStep
    <2> QED
      BY <2>1, EditsKeepRoots
  <1> QED
    BY <1>1, <1>2

\* A Start that makes no root stands where it may.
LEMMA StartPlace ==
    ASSUME TypeOK, RootInv, KeepsRoots, NEW p \in Procs,
           StartStep(p) \/ PersistStep(p),
           ~(RequestSpot(p) \/ RunInstances(p)),
           ~(ModifyInstanceAttribute(p) \/ TagVolume(p))
    PROVE  RootPlace(p)'
PROOF
  <1>0. op[p] \in Op /\ op \in [Procs -> Op] /\ RootPlace(p)
    BY UpdateTypes DEF TypeOK, RootInv
  <1>1. ASSUME op'[p].pc \notin StartPCs PROVE RootPlace(p)'
    BY <1>1 DEF RootPlace, StartPCs
  <1>2. ASSUME NEW res, Return(p, res) PROVE RootPlace(p)'
    <2>1. op'[p].pc = "idle"
      BY <1>0, <1>2 DEF Return, Idle
    <2> QED
      BY <1>1, <2>1 DEF StartPCs
  <1>3. /\ Roots = {} => Roots' = {}
        /\ \A l \in Launches : l \in {op[p].cur, op[p].vol} /\ Named(l) => Named(l)'
    BY DEF KeepsRoots
  <1>4. ASSUME NEW to, Goto(p, to),
               \/ /\ op[p].pc \in {"fulfilledWaiter", "tagInstance"}
                  /\ to \in {"tagInstance", "runningWaiter", "cancelUnfulfilled"}
               \/ /\ op[p].pc = "runningWaiter"
                  /\ to = IF op[p].temp THEN "modifyAttribute" ELSE "statusWaiter"
               \/ /\ op[p].pc \in {"statusWaiter", "inUseWaiter"}
                  /\ to \in {"inUseWaiter", "verify"}
               \/ /\ op[p].pc \in {"cancelTemp", "terminateTemp"}
                  /\ to \in {"terminateTemp", "tempTermWaiter"}
               \/ /\ op[p].pc = "tempTermWaiter" /\ ~op[p].persistErr
                  /\ to = "tempVolWaiter"
        PROVE  RootPlace(p)'
    <2>1. /\ op'[p].pc = to /\ op'[p].cur = op[p].cur
          /\ op'[p].temp = op[p].temp /\ op'[p].persistErr = op[p].persistErr
      BY <1>0, <1>4 DEF Goto, Op
    <2>2. op[p].pc \in StartPCs \ {"GetVolume", "launch"} /\ op[p].cur \in Launches
      BY <1>0, <1>4 DEF RootPlace, StartPCs
    <2>3. /\ to \in {"cancelUnfulfilled", "statusWaiter", "inUseWaiter", "verify"}
             => RootPlace(p)'
          /\ to \in {"tagInstance", "runningWaiter", "modifyAttribute"}
             => RootPlace(p)'
      BY <1>0, <1>3, <1>4, <2>1, <2>2 DEF RootPlace
    <2>4. to \in {"terminateTemp", "tempTermWaiter", "tempVolWaiter"} => RootPlace(p)'
      <3>1. to \in {"terminateTemp", "tempTermWaiter", "tempVolWaiter"} /\ ~op[p].persistErr
            => Named(op[p].cur)
        BY <1>0, <1>4 DEF RootPlace
      <3>2. to \in {"terminateTemp", "tempTermWaiter", "tempVolWaiter"} /\ ~op[p].persistErr
            => launch'[op[p].cur].volTag = AWSName
        BY <1>3, <2>2, <3>1 DEF Named
      <3>3. to = "tempVolWaiter" => ~op[p].persistErr
        BY <1>4
      <3> QED
        BY <2>1, <2>2, <3>2, <3>3 DEF RootPlace, Named
    <2> QED
      BY <1>4, <2>3, <2>4
  <1>5. CASE GetENI(p) \/ TagENI(p)
    <2>1. op'[p].pc \in {"tagENI", "GetVolume"}
      <3>1. CASE GetENI(p)
        <4>1. PICK e \in Enis, to \in {"GetVolume", "tagENI"} :
                  op' = [op EXCEPT ![p].eni = e, ![p].pc = to]
          BY <3>1 DEF GetENI, NamedEnis
        <4> QED
          BY <1>0, <4>1 DEF Op
      <3>2. CASE TagENI(p)
        BY <1>0, <3>2 DEF TagENI, Goto, Op
      <3> QED
        BY <1>5, <3>1, <3>2
    <2> QED
      BY <2>1 DEF RootPlace, StartPCs
  <1>6. CASE StartGetVolume(p)
    <2>1. PICK v \in AnyOf(NamedVolumes) :
              IF v # None /\ launch[v].att # None
              THEN Return(p, "already")
              ELSE op' = [op EXCEPT ![p].vol = v, ![p].temp = (v = None),
                                    ![p].pc = "launch"]
      BY <1>6 DEF StartGetVolume
    <2>2. ASSUME op' = [op EXCEPT ![p].vol = v, ![p].temp = (v = None),
                                  ![p].pc = "launch"]
          PROVE  RootPlace(p)'
      <3>1. op'[p].vol = v /\ op'[p].temp = (v = None) /\ op'[p].pc = "launch"
        BY <1>0, <2>2 DEF Op
      <3>2. UNCHANGED launch
        BY <1>6 DEF StartGetVolume, aws
      <3>3. CASE NamedVolumes = {}
        <4>1. v = None /\ Roots' = {}
          BY <3>2, <3>3 DEF AnyOf, Roots, NamedVolumes
        <4> QED
          BY <3>1, <4>1 DEF RootPlace
      <3>4. CASE NamedVolumes # {}
        <4>1. v \in Launches /\ v # None /\ launch[v].volTag = AWSName
          BY <3>4, NoneAssumption DEF AnyOf, NamedVolumes
        <4> QED
          BY <3>1, <3>2, <4>1 DEF RootPlace, Named
      <3> QED
        BY <3>3, <3>4
    <2> QED
      BY <1>2, <2>1, <2>2
  <1>7. CASE \/ LaunchRefused(p) \/ AwaitFulfilled(p) \/ FulfilmentFails(p)
             \/ CancelUnfulfilled(p) \/ TagInstance(p) \/ AwaitRunning(p)
             \/ AwaitStatusOk(p) \/ AwaitInUse(p) \/ VerifyVolumeAttachedTo(p)
    BY <1>2, <1>4, <1>7
       DEF LaunchRefused, AwaitFulfilled, FulfilmentFails, CancelUnfulfilled,
           TagInstance, AwaitRunning, AwaitStatusOk, AwaitInUse,
           VerifyVolumeAttachedTo, At
  <1>8. CASE CancelTemp(p) \/ TerminateTemp(p) \/ AwaitTempTerminated(p)
    BY <1>2, <1>4, <1>8 DEF CancelTemp, TerminateTemp, AwaitTempTerminated, At
  <1>9. CASE PersistFails(p)
    <2>1. /\ op'[p].pc = "cancelTemp" /\ op'[p].persistErr
          /\ op'[p].cur = op[p].cur
          /\ op[p].pc \in StartPCs \ {"GetVolume", "launch"}
      BY <1>0, <1>9 DEF PersistFails, Op, StartPCs
    <2> QED
      BY <1>0, <2>1 DEF RootPlace
  <1>10. CASE AwaitTempVolume(p)
    <2>1. /\ op'[p].pc = "launch" /\ ~op'[p].temp /\ op'[p].vol = op[p].cur
          /\ op[p].pc = "tempVolWaiter" /\ UNCHANGED launch
      BY <1>0, <1>10 DEF AwaitTempVolume, At, aws, Op
    <2>2. op[p].cur \in Launches /\ launch[op[p].cur].volTag = AWSName
      BY <1>0, <2>1 DEF RootPlace, StartPCs, Named
    <2> QED
      BY <2>1, <2>2 DEF RootPlace, Named
  <1> QED
    BY <1>5, <1>6, <1>7, <1>8, <1>9, <1>10 DEF StartStep, PersistStep

\* Every step without overlap keeps the root one.
LEMMA RootStep ==
    ASSUME OneActive, OneActive', TypeOK, KeptInv, Unfulfilled, RootInv,
           [Next]_vars
    PROVE  RootInv'
PROOF
  <1>1. ASSUME NEW p \in Procs, Others(p), RootPlace(p)',
               \A v, w \in Roots' : v = w,
               \A l \in Launches : launch'[l].inst = "none" => ~launch'[l].keep,
               \A l \in Launches : Chains(l)' => Named(launch[l].chain)'
        PROVE  RootInv'
    <2>1. ASSUME NEW q \in Procs \ {p} PROVE RootPlace(q)'
      <3>1. op'[q].pc = "idle"
        BY <1>1 DEF Others, At
      <3> QED
        BY <3>1 DEF RootPlace, StartPCs
    <2> QED
      BY <1>1, <2>1 DEF RootInv
  <1>2. ASSUME KeepsRoots
        PROVE  /\ \A v, w \in Roots' : v = w
               /\ \A l \in Launches : launch'[l].inst = "none" => ~launch'[l].keep
               /\ \A l \in Launches : Chains(l)' => Named(launch[l].chain)'
    BY <1>2 DEF KeepsRoots, RootInv
  <1>3. CASE AwsStep \/ UNCHANGED vars
    <2>1. UNCHANGED op
      BY <1>3 DEF AwsStep, Fulfil, RequestFails, Boot, Chainload, Reclaim,
           Terminated, DetachVolume, Forget, DetachEni, vars
    <2>2. KeepsRoots
      BY <1>3, AwsKeepsRoots, EditsKeepRoots DEF vars
    <2>3. ASSUME NEW p \in Procs PROVE RootPlace(p)'
      <3>1. \A l \in Launches :
                l \in {op[p].cur, op[p].vol} /\ Named(l) => launch'[l].volTag = AWSName
        BY <2>2 DEF KeepsRoots, Named
      <3>2. RootPlace(p) /\ Roots' \subseteq Roots
        BY <2>2 DEF RootInv, KeepsRoots
      <3>3. op'[p] = op[p]
        BY <2>1
      <3> QED
        BY <3>1, <3>2, <3>3 DEF RootPlace, StartPCs, Named
    <2> QED
      BY <1>2, <2>2, <2>3 DEF RootInv
  <1>4. ASSUME NEW p \in Procs, RequestSpot(p) \/ RunInstances(p) PROVE RootInv'
    <2>1. Others(p)
      BY <1>4, ActorIsAlone DEF ActsOn, OpStep, StartStep
    <2>2. /\ Roots' \subseteq Roots
          /\ \A l \in Launches : launch'[l].inst = "none" => ~launch'[l].keep
          /\ \A l \in Launches : Chains(l)' => Named(launch[l].chain)'
          /\ op'[p].temp = op[p].temp /\ op'[p].cur \in Launches
          /\ op'[p].pc \in {"fulfilledWaiter", "runningWaiter"}
      BY <1>4, <2>1, LaunchKeepsRoots
    <2>3. op[p].pc = "launch" /\ RootPlace(p)
      BY <1>4 DEF RequestSpot, RunInstances, At, RootInv
    <2>4. RootPlace(p)'
      BY <2>2, <2>3 DEF RootPlace
    <2> QED
      BY <1>1, <2>1, <2>2, <2>4 DEF RootInv
  <1>5. ASSUME NEW p \in Procs, ModifyInstanceAttribute(p) \/ TagVolume(p)
        PROVE  RootInv'
    <2>1. Others(p)
      BY <1>5, ActorIsAlone DEF ActsOn, OpStep, PersistStep
    <2>2. /\ op[p].cur \in Launches /\ Roots' \subseteq {op[p].cur}
          /\ \A l \in Launches : launch'[l].inst = "none" => ~launch'[l].keep
          /\ \A l \in Launches : Chains(l)' => Named(launch[l].chain)'
          /\ TagVolume(p) => launch'[op[p].cur].volTag = AWSName
      BY <1>5, PersistRoot
    <2>3. /\ op'[p].cur = op[p].cur
          /\ op'[p].pc = IF TagVolume(p) THEN "cancelTemp" ELSE "tagVolume"
      <3>1. op[p] \in Op /\ op \in [Procs -> Op]
        BY UpdateTypes DEF TypeOK
      <3>2. CASE TagVolume(p)
        BY <3>1, <3>2 DEF TagVolume, Goto, Op
      <3>3. CASE ~TagVolume(p)
        BY <1>5, <3>1, <3>3 DEF ModifyInstanceAttribute, Goto, Op
      <3> QED
        BY <3>2, <3>3
    <2>4. RootPlace(p)'
      BY <2>2, <2>3 DEF RootPlace, Named
    <2> QED
      BY <1>1, <2>1, <2>2, <2>4
  <1>6. ASSUME NEW p \in Procs, ActsOn(p), ~(RequestSpot(p) \/ RunInstances(p)),
               ~(ModifyInstanceAttribute(p) \/ TagVolume(p))
        PROVE  RootInv'
    <2>1. KeepsRoots /\ Others(p)
      BY <1>6, OpKeepsRoots, ActorIsAlone
    <2>2. CASE StartStep(p) \/ PersistStep(p)
      BY <1>1, <1>2, <1>6, <2>1, <2>2, StartPlace
    <2>3. CASE ~(StartStep(p) \/ PersistStep(p))
      <3>1. op'[p].pc \in StopPCs \cup {"idle", "GetENI"}
        <4>1. CASE StopStep(p)
          BY <4>1, StopMoves
        <4>2. CASE ~StopStep(p)
          <5>1. Begun(p)
            BY <1>6, <2>3, <4>2, BeginIsBegun
               DEF ActsOn, OpStep, Interrupted, WaiterFails
          <5> QED
            BY <5>1 DEF Begun, StopPCs
        <4> QED
          BY <4>1, <4>2
      <3>2. RootPlace(p)'
        BY <3>1 DEF RootPlace, StartPCs, StopPCs
      <3> QED
        BY <1>1, <1>2, <2>1, <3>2
    <2> QED
      BY <2>2, <2>3
  <1> QED
    BY <1>3, <1>4, <1>5, <1>6 DEF Next, ActsOn

\* Without overlap the session has one root file system: making it is begun
\* only when there is none, however often it was cut short, and whatever is
\* launched from a volume is launched from that one.
THEOREM OneRootAtATime ==
    Init /\ [][Next]_vars /\ []OneActive => []OneRoot
PROOF
  <1>1. Init => KeptInv /\ RootInv
    BY DEF Init, KeptInv, PicksKept, VolumeOk, Chains, IsLive, Kept, Unused, Idle,
           Live, RootInv, RootPlace, Roots, NamedVolumes, StartPCs
  <1>2. TypeOK /\ KeptInv /\ RootInv => OneRoot
    <2> SUFFICES ASSUME TypeOK, KeptInv, RootInv, NEW l \in Launches, Chains(l)
                 PROVE  launch[l].chain \in Roots
      BY DEF OneRoot, RootInv, Chains
    <2>1. /\ Kept(launch[l].chain) /\ Named(launch[l].chain)
          /\ launch[l].chain \in Launches
      BY UpdateTypes DEF KeptInv, RootInv, Chains, Launch
    <2> QED
      BY <2>1 DEF Kept, Named, Roots, NamedVolumes
  <1>3. SeenInv => Unfulfilled
    BY DEF SeenInv
  <1>4. OneActive /\ OneActive' /\ TypeOK /\ KeptInv /\ Unfulfilled /\ RootInv
            /\ [Next]_vars => RootInv'
    BY RootStep
  <1> QED
    BY <1>1, <1>2, <1>3, <1>4, EniInit, SeenInit, TypeStep, NamedStep,
       OneEniStep, SeenStep, KeptStep, PTL

----------------------------------------------------------------------------
(* The server's operations do not overlap                                  *)

QP == INSTANCE TaskQueueProofs WITH TaskIDs <- Procs

ServerInv == TypeOK /\ QP!IInv /\ InsideFn

\* The server starts with an empty queue, and nobody operates.
LEMMA ServerInvInit == ServerInit => ServerInv
PROOF
  <1> SUFFICES ASSUME ServerInit PROVE ServerInv
    OBVIOUS
  <1>1. TypeOK
    BY TypeInit DEF ServerInit
  <1>2. QP!Init
    BY DEF ServerInit, Queue!Init, QP!Init
  <1>3. QP!IInv
    BY <1>2, QP!InitIInv, QueueAssumption
  <1>4. InsideFn
    BY DEF ServerInit, Init, InsideFn, At, Idle
  <1> QED
    BY <1>1, <1>3, <1>4 DEF ServerInv

\* What the server does to its queue is what the queue does.
LEMMA QueueStep == ASSUME [ServerNext]_serverVars PROVE [QP!Next]_(QP!vars)
PROOF
  <1>1. ASSUME NEW t \in Procs, Submit(t) PROVE QP!Next
    <2>1. PICK s \in Sessions : Queue!Create(t, s)
      BY <1>1 DEF Submit
    <2>2. QP!Create(t, s)
      BY <2>1 DEF Queue!Create, QP!Create, Queue!Locked, QP!Locked, Queue!IsDone,
           QP!IsDone, Queue!Evict, QP!Evict, Queue!DoneStatus, QP!DoneStatus
    <2> QED
      BY <2>2 DEF QP!Next
  <1>2. ASSUME NEW t \in Procs, Turn(t) \/ EnterFn(t) \/ LeaveFn(t) PROVE QP!Next
    <2>1. QP!TaskStep(t)
      BY <1>2 DEF Turn, EnterFn, LeaveFn, Queue!Run, QP!Run, Queue!SetRunning,
           QP!SetRunning, Queue!FnReturns, QP!FnReturns, Queue!FinishRelease,
           QP!FinishRelease, Queue!FinishStatus, QP!FinishStatus, QP!TaskStep
    <2> QED
      BY <2>1 DEF QP!Next
  <1>3. CASE Restart
    BY <1>3 DEF Restart, Queue!Restart, QP!Restart, QP!Next
  <1>4. ASSUME Aws \/ (\E t \in Procs : Operate(t)) \/ UNCHANGED serverVars
        PROVE  UNCHANGED QP!vars
    BY <1>4 DEF Aws, Operate, queue, serverVars, QP!vars
  <1> QED
    BY <1>1, <1>2, <1>3, <1>4 DEF ServerNext

\* Operations under way are inside the fn of a task that holds the session's
\* lock, so there is one.
LEMMA LockExcludes == ASSUME ServerInv PROVE OneActive
PROOF
  <1> SUFFICES ASSUME NEW t \in Procs, NEW u \in Procs,
                      ~At(t, "idle"), ~At(u, "idle")
               PROVE  t = u
    BY DEF OneActive
  <1>1. /\ pc[t] = "operating" /\ session[t] = Home
        /\ pc[u] = "operating" /\ session[u] = Home
    BY DEF ServerInv, InsideFn
  <1>2. active[Home] = t /\ active[Home] = u
    BY <1>1 DEF ServerInv, QP!IInv, QP!LockExact, QP!InFlight
  <1> QED
    BY <1>2

\* A step of the server is one of the session's, or none.  A restart of the
\* server cuts the one operation short that is under way.
LEMMA SessionStep ==
    ASSUME ServerInv, [ServerNext]_serverVars PROVE [Next]_vars
PROOF
  <1>0. op \in [Procs -> Op]
    BY DEF ServerInv, TypeOK
  <1>1. ASSUME NEW t \in Procs, Submit(t) \/ Turn(t) \/ LeaveFn(t)
        PROVE  UNCHANGED vars
    BY <1>1 DEF Submit, Turn, LeaveFn
  <1>2. ASSUME NEW t \in Procs, EnterFn(t) PROVE [Next]_vars
    BY <1>2 DEF EnterFn, Next
  <1>3. ASSUME NEW t \in Procs, Operate(t) PROVE Next
    BY <1>3 DEF Operate, Next
  <1>4. CASE Aws
    BY <1>4 DEF Aws, Next
  <1>5. CASE Restart
    <2>1. CASE \A t \in Procs : At(t, "idle")
      <3>1. op' = op
        BY <1>0, <1>5, <2>1 DEF Restart
      <3> QED
        BY <1>5, <3>1 DEF Restart, aws, vars
    <2>2. ASSUME NEW t \in Procs, ~At(t, "idle") PROVE Next
      <3>1. \A u \in Procs \ {t} : At(u, "idle")
        BY <2>2, LockExcludes DEF OneActive
      <3>2. op' = [op EXCEPT ![t] = [Idle EXCEPT !.result = "error"]]
        BY <1>0, <1>5, <2>2, <3>1 DEF Restart
      <3>3. Interrupted(t)
        BY <1>5, <2>2, <3>2 DEF Restart, Interrupted, Return
      <3> QED
        BY <3>3 DEF Next
    <2> QED
      BY <2>1, <2>2
  <1>6. CASE UNCHANGED serverVars
    BY <1>6 DEF serverVars, vars
  <1> QED
    BY <1>1, <1>2, <1>3, <1>4, <1>5, <1>6 DEF ServerNext

\* A task's operation begins when its fn is entered and is over when it is left.
LEMMA InsideFnStep ==
    ASSUME ServerInv, [ServerNext]_serverVars PROVE InsideFn'
PROOF
  <1>0. /\ op \in [Procs -> Op] /\ TypeOK /\ InsideFn
        /\ pc \in [Procs -> QP!PCs] /\ session \in [Procs -> Sessions \cup {NoSession}]
    BY DEF ServerInv, TypeOK, QP!IInv, QP!TypeOK
  <1>1. ASSUME NEW t \in Procs, Submit(t) PROVE InsideFn'
    <2>1. PICK s \in Sessions : Queue!Create(t, s)
      BY <1>1 DEF Submit
    <2>2. /\ pc[t] = "none" /\ op' = op
          /\ \A u \in Procs \ {t} : pc'[u] = pc[u] /\ session'[u] = session[u]
      BY <1>0, <1>1, <2>1 DEF Queue!Create, Submit, vars
    <2> QED
      BY <1>0, <2>2 DEF InsideFn, At
  <1>2. ASSUME NEW t \in Procs, Turn(t) PROVE InsideFn'
    <2>1. /\ pc[t] # "operating" /\ op' = op /\ session' = session
          /\ \A u \in Procs \ {t} : pc'[u] = pc[u]
      BY <1>0, <1>2 DEF Turn, Queue!Run, Queue!FinishRelease, Queue!FinishStatus, vars
    <2> QED
      BY <1>0, <2>1 DEF InsideFn, At
  <1>3. ASSUME NEW t \in Procs, EnterFn(t) PROVE InsideFn'
    <2>1. /\ pc[t] = "spawned" /\ pc'[t] = "operating" /\ session' = session
          /\ \A u \in Procs \ {t} : pc'[u] = pc[u]
      BY <1>0, <1>3 DEF EnterFn, Queue!SetRunning
    <2>2. \A u \in Procs \ {t} : op'[u] = op[u]
      <3>1. CASE session[t] = Home
        BY <1>0, <1>3, <3>1, OthersStay DEF EnterFn, ActsOn
      <3>2. CASE session[t] # Home
        BY <1>3, <3>2 DEF EnterFn, vars
      <3> QED
        BY <3>1, <3>2
    <2>3. session[t] # Home => At(t, "idle")'
      <3>1. At(t, "idle")
        BY <1>0, <2>1 DEF InsideFn
      <3> QED
        BY <1>3, <3>1 DEF EnterFn, vars, At
    <2> QED
      BY <1>0, <2>1, <2>2, <2>3 DEF InsideFn, At
  <1>4. ASSUME NEW t \in Procs, Operate(t) PROVE InsideFn'
    <2>1. UNCHANGED <<pc, session>> /\ \A u \in Procs \ {t} : op'[u] = op[u]
      BY <1>0, <1>4, OthersStay DEF Operate, ActsOn, queue
    <2>2. ~At(t, "idle")
      BY <1>4, <1>0, OpNotIdle DEF Operate
    <2> QED
      BY <1>0, <2>1, <2>2 DEF InsideFn, At
  <1>5. ASSUME NEW t \in Procs, LeaveFn(t) PROVE InsideFn'
    <2>1. /\ op' = op /\ session' = session /\ (session[t] = Home => At(t, "idle"))
          /\ \A u \in Procs \ {t} : pc'[u] = pc[u]
      BY <1>0, <1>5 DEF LeaveFn, Queue!FnReturns, vars
    <2> QED
      BY <1>0, <2>1 DEF InsideFn, At
  <1>6. CASE Aws \/ UNCHANGED serverVars
    <2>1. UNCHANGED <<op, pc, session>>
      BY <1>6 DEF Aws, AwsStep, Fulfil, RequestFails, Boot, Chainload, Reclaim,
           Terminated, DetachVolume, Forget, DetachEni, vars, serverVars, queue
    <2> QED
      BY <1>0, <2>1 DEF InsideFn, At
  <1>7. CASE Restart
    <2>1. \A t \in Procs : op'[t].pc = "idle"
      BY <1>7 DEF Restart, At, Idle
    <2> QED
      BY <2>1 DEF InsideFn, At
  <1> QED
    BY <1>1, <1>2, <1>3, <1>4, <1>5, <1>6, <1>7 DEF ServerNext

\* Every step of the server keeps the two apart.
LEMMA ServerInvStep ==
    ASSUME ServerInv, [ServerNext]_serverVars PROVE ServerInv'
PROOF
  <1>1. TypeOK'
    BY SessionStep, TypeStep DEF ServerInv
  <1>2. QP!IInv'
    BY QueueStep, QP!NextIInv, QueueAssumption DEF ServerInv
  <1>3. InsideFn'
    BY InsideFnStep
  <1> QED
    BY <1>1, <1>2, <1>3 DEF ServerInv

\* With every operation behind the per-session lock, what the server does to a
\* session is a behaviour of Ec2Session in which no two operations are ever
\* under way together, across restarts of the server too.
THEOREM ServerRunsOneAtATime ==
    ServerSpec => Init /\ [][Next]_vars /\ []OneActive
PROOF
  <1>1. ServerInit => Init
    BY DEF ServerInit
  <1> QED
    BY <1>1, ServerInvInit, ServerInvStep, SessionStep, LockExcludes, PTL
       DEF ServerSpec

\* So the server never runs two instances of a session ...
THEOREM ServerOneInstance == ServerSpec => []OneInstance
BY ServerRunsOneAtATime, OneAtATime, PTL

\* ... keeps its root file system one ...
THEOREM ServerOneRoot == ServerSpec => []OneRoot
BY ServerRunsOneAtATime, OneRootAtATime, PTL

\* ... its Stop ends what ran ...
THEOREM ServerStopEndsRunning == ServerSpec => StopEndsWhatRan
BY ServerRunsOneAtATime, StopEndsRunning, PTL

\* ... and, with the session's own name on every launch, the requests.
THEOREM ServerStopCancelsRequests ==
    ASSUME OwnName PROVE ServerSpec => StopEndsRequests
BY ServerRunsOneAtATime, StopCancelsRequests, PTL
=============================================================================
