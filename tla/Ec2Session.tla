----------------------------- MODULE Ec2Session -----------------------------
(***************************************************************************)
(* Starting, stopping and restarting one session (src/src/ec2/start.go,    *)
(* stop.go, and the lookups of aws.go) against the EC2 API.                *)
(*                                                                         *)
(* One step is one API call of an operation or one event inside AWS, so    *)
(* everything AWS does (fulfilment, termination, detachment, reclaim)      *)
(* interleaves with the calls, and an operation may be cut short between   *)
(* any two of them.  The session is one AWS name in one availability zone. *)
(*                                                                         *)
(* A launch is one attempt to get an instance: its spot request (if any),  *)
(* its instance and the root volume created with it share an identity.     *)
(***************************************************************************)
EXTENDS Naturals, FiniteSets

CONSTANTS Procs,         \* processes that run operations on this session
          Launches,      \* slots for launches, the account's limit
          Enis,          \* slots for network interfaces, ditto
          RequestTypes,  \* request types in use, of "spot" and "ondemand"
          AWSName,       \* LaunchParams.AWSName, the Name tag of lookups
          InstanceNames, \* values LaunchParams.InstanceName may take
          None

ASSUME RequestTypesAssumption == RequestTypes \subseteq {"spot", "ondemand"}
ASSUME NoneAssumption ==
    None \notin Launches \cup Enis \cup InstanceNames \cup {AWSName}

VARIABLES launch,  \* per launch: request, instance, root volume and tags
          eni,     \* per interface: "none", "bare" (untagged) or "named"
          holder,  \* per interface: the launch whose instance it is attached to
          op       \* per process: the operation it is in and its locals

aws == <<launch, eni, holder>>
vars == <<launch, eni, holder, op>>

----------------------------------------------------------------------------
(* State                                                                   *)

RequestStates == {"none", "open", "active", "cancelled", "failed", "closed"}
\* "serving" is a running instance whose chainload script has run.
Live == {"pending", "running", "serving"}
InstanceStates == {"none", "shutting", "terminated"} \cup Live

Names == InstanceNames \cup {AWSName, None}

Launch == [req: RequestStates, reqTag: Names,
           inst: InstanceStates, instTag: Names,
           vol: {"none", "there", "deleted"}, volTag: Names, keep: BOOLEAN,
           att: Launches \cup {None},       \* the volume's attachment
           chain: Launches \cup {None},     \* VOLUME_ID in the user data
           eni: Enis \cup {None}]           \* the interface of the spec

Unused == [req |-> "none", reqTag |-> None, inst |-> "none", instTag |-> None,
           vol |-> "none", volTag |-> None, keep |-> FALSE, att |-> None,
           chain |-> None, eni |-> None]

\* Waits of Start and Stop: pcs at which a waiter polls until its deadline.
Waits == {"runningWaiter", "statusWaiter", "inUseWaiter", "tempTermWaiter",
          "tempVolWaiter", "termWaiter", "volWaiter", "eniWaiter"}
\* Where a Start is once it has the session's interface.
StartPCs == {"GetVolume", "launch", "fulfilledWaiter", "cancelUnfulfilled",
             "tagInstance", "runningWaiter", "statusWaiter", "inUseWaiter",
             "verify", "modifyAttribute", "tagVolume", "cancelTemp",
             "terminateTemp", "tempTermWaiter", "tempVolWaiter"}
StopPCs == {"stopVolume", "stopENI", "findByName", "eniHolder",
            "openRequests", "cancelRequests", "nextInstance", "terminate",
            "termWaiter", "volWaiter", "eniWaiter"}
PCs == {"idle", "GetENI", "tagENI"} \cup StartPCs \cup StopPCs

Op == [pc: PCs, kind: {"none", "start", "stop", "restart"},
       result: {"none", "started", "already", "stopped", "error"},
       name: Names,                    \* LaunchParams.InstanceName
       eni: Enis \cup {None}, vol: Launches \cup {None},
       cur: Launches \cup {None},      \* the launch being waited for
       temp: BOOLEAN,                  \* cur is the throwaway spot
       persistErr: BOOLEAN,
       ids: SUBSET Launches,           \* Stop's instanceIDs
       left: SUBSET Launches,          \* those not yet terminated
       reqs: SUBSET Launches,          \* Stop's reqIDs
       seen: SUBSET Launches,          \* live when the Stop began (history)
       looked: BOOLEAN]                \* openSpotRequests answered (history)

Idle == [pc |-> "idle", kind |-> "none", result |-> "none",
         name |-> None, eni |-> None, vol |-> None,
         cur |-> None, temp |-> FALSE, persistErr |-> FALSE, ids |-> {},
         left |-> {}, reqs |-> {}, seen |-> {}, looked |-> FALSE]

TypeOK ==
    /\ launch \in [Launches -> Launch]
    /\ eni \in [Enis -> {"none", "bare", "named"}]
    /\ holder \in [Enis -> Launches \cup {None}]
    /\ op \in [Procs -> Op]

Init ==
    /\ launch = [l \in Launches |-> Unused]
    /\ eni = [e \in Enis |-> "none"]
    /\ holder = [e \in Enis |-> None]
    /\ op = [p \in Procs |-> Idle]

IsLive(l) == launch[l].inst \in Live
LiveInstances == {l \in Launches : IsLive(l)}
FreeLaunches == {l \in Launches : launch[l] = Unused}

\* What the lookups of aws.go can return.
NamedVolumes ==
    {v \in Launches : launch[v].vol = "there" /\ launch[v].volTag = AWSName}
NamedEnis == {e \in Enis : eni[e] = "named"}
NamedInstances ==
    {l \in Launches : /\ launch[l].instTag = AWSName
                      /\ launch[l].inst \in Live \cup {"shutting"}}
OpenRequests ==
    {l \in Launches : /\ launch[l].reqTag = AWSName
                      /\ launch[l].req \in {"open", "active"}}

\* The first element of an API answer, whose order is unspecified.
AnyOf(S) == IF S = {} THEN {None} ELSE S

----------------------------------------------------------------------------
(* AWS                                                                     *)

\* The interface goes to the new instance, and its root volume is created.
Fulfil(l) ==
    /\ launch[l].req = "open"
    /\ holder[launch[l].eni] = None
    /\ launch' = [launch EXCEPT ![l].req = "active", ![l].inst = "pending",
                                ![l].vol = "there", ![l].att = l]
    /\ holder' = [holder EXCEPT ![launch[l].eni] = l]
    /\ UNCHANGED <<eni, op>>

\* Bad parameters, an interface in use, a price too low.
RequestFails(l) ==
    /\ launch[l].req = "open"
    /\ launch' = [launch EXCEPT ![l].req = "failed"]
    /\ UNCHANGED <<eni, holder, op>>

Boot(l) ==
    /\ launch[l].inst = "pending"
    /\ launch' = [launch EXCEPT ![l].inst = "running"]
    /\ UNCHANGED <<eni, holder, op>>

\* user-data-chainload.sh: one attach-volume, or exit 1.
Chainload(l) ==
    LET v == launch[l].chain IN
    /\ launch[l].inst = "running"
    /\ v # None
    /\ launch' =
         IF launch[v].vol = "there" /\ launch[v].att = None
         THEN [launch EXCEPT ![l].inst = "serving", ![v].att = l]
         ELSE [launch EXCEPT ![l].inst = "serving"]
    /\ UNCHANGED <<eni, holder, op>>

\* A spot instance is interrupted.
Reclaim(l) ==
    /\ IsLive(l)
    /\ launch[l].req = "active"
    /\ launch' = [launch EXCEPT ![l].inst = "shutting", ![l].req = "closed"]
    /\ UNCHANGED <<eni, holder, op>>

Terminated(l) ==
    /\ launch[l].inst = "shutting"
    /\ launch' = [launch EXCEPT ![l].inst = "terminated",
                                ![l].req = IF @ = "active" THEN "closed" ELSE @]
    /\ UNCHANGED <<eni, holder, op>>

DetachEni(e) ==
    /\ holder[e] # None
    /\ launch[holder[e]].inst = "terminated"
    /\ holder' = [holder EXCEPT ![e] = None]
    /\ UNCHANGED <<launch, eni, op>>

\* A root volume goes with its instance unless DeleteOnTermination is off.
DetachVolume(v) ==
    /\ launch[v].att # None
    /\ launch[launch[v].att].inst = "terminated"
    /\ launch' = [launch EXCEPT ![v].att = None,
                     ![v].vol = IF launch[v].att = v /\ ~launch[v].keep
                                THEN "deleted" ELSE "there"]
    /\ UNCHANGED <<eni, holder, op>>

\* Nothing is left of the launch: AWS forgets it and its slot is free again.
Forget(l) ==
    /\ launch[l] # Unused
    /\ launch[l].req \notin {"open", "active"}
    /\ launch[l].inst \in {"none", "terminated"}
    /\ launch[l].vol # "there"
    /\ \A e \in Enis : holder[e] # l
    /\ \A m \in Launches : launch[m].att # l /\ (m # l => launch[m].chain # l)
    /\ \A p \in Procs : /\ l \notin op[p].ids \cup op[p].reqs \cup op[p].seen
                        /\ l \notin {op[p].cur, op[p].vol}
    /\ launch' = [launch EXCEPT ![l] = Unused]
    /\ UNCHANGED <<eni, holder, op>>

AwsStep == \/ \E l \in Launches : \/ Fulfil(l) \/ RequestFails(l) \/ Boot(l)
                                  \/ Chainload(l) \/ Reclaim(l)
                                  \/ Terminated(l) \/ DetachVolume(l)
                                  \/ Forget(l)
           \/ \E e \in Enis : DetachEni(e)

----------------------------------------------------------------------------
(* Operations: a step of process p                                         *)

At(p, pc) == op[p].pc = pc
Goto(p, pc) == op' = [op EXCEPT ![p].pc = pc]
Return(p, result) == op' = [op EXCEPT ![p] = [Idle EXCEPT !.result = result]]

BeginStart(p) ==
    /\ At(p, "idle")
    /\ \E n \in InstanceNames :
           op' = [op EXCEPT ![p] = [Idle EXCEPT !.pc = "GetENI",
                                        !.kind = "start", !.name = n]]
    /\ UNCHANGED aws

BeginStop(p) ==
    /\ At(p, "idle")
    /\ op' = [op EXCEPT ![p] = [Idle EXCEPT !.pc = "stopVolume",
                                    !.kind = "stop", !.seen = LiveInstances]]
    /\ UNCHANGED aws

\* handleRestartSubmit and the restart command: Stop without force, then
\* Start unless Stop failed.
BeginRestart(p) ==
    /\ At(p, "idle")
    /\ \E n \in InstanceNames :
           op' = [op EXCEPT ![p] = [Idle EXCEPT !.pc = "stopVolume",
                                        !.kind = "restart", !.name = n,
                                        !.seen = LiveInstances]]
    /\ UNCHANGED aws

----------------------------------------------------------------------------
(* Start                                                                   *)

\* A variant that leaves a created interface without its Name tag.
GetENIUntagged(p) ==
    /\ At(p, "GetENI")
    /\ \E e \in Enis :
        /\ IF NamedEnis # {} THEN e \in NamedEnis ELSE eni[e] = "none"
        /\ eni' = [eni EXCEPT ![e] = IF @ = "none" THEN "bare" ELSE @]
        /\ op' = [op EXCEPT ![p].eni = e, ![p].pc = "GetVolume"]
    /\ UNCHANGED <<launch, holder>>

\* GetOrCreateENI, up to the create call.
GetENI(p) ==
    /\ At(p, "GetENI")
    /\ IF NamedEnis # {}
       THEN /\ \E e \in NamedEnis :
                   op' = [op EXCEPT ![p].eni = e, ![p].pc = "GetVolume"]
            /\ UNCHANGED aws
       ELSE \E e \in Enis :
               /\ eni[e] = "none"
               /\ eni' = [eni EXCEPT ![e] = "bare"]
               /\ op' = [op EXCEPT ![p].eni = e, ![p].pc = "tagENI"]
               /\ UNCHANGED <<launch, holder>>

\* createENI's CreateTags.
TagENI(p) ==
    /\ At(p, "tagENI")
    /\ eni' = [eni EXCEPT ![op[p].eni] = "named"]
    /\ Goto(p, "GetVolume")
    /\ UNCHANGED <<launch, holder>>

\* A variant that forgets the attachment.
StartGetAnyVolume(p) ==
    /\ At(p, "GetVolume")
    /\ \E v \in AnyOf(NamedVolumes) :
           op' = [op EXCEPT ![p].vol = v, ![p].temp = (v = None),
                            ![p].pc = "launch"]
    /\ UNCHANGED aws

\* A variant that looks for an available volume only.
StartGetFreeVolume(p) ==
    /\ At(p, "GetVolume")
    /\ \E v \in AnyOf({w \in NamedVolumes : launch[w].att = None}) :
           op' = [op EXCEPT ![p].vol = v, ![p].temp = (v = None),
                            ![p].pc = "launch"]
    /\ UNCHANGED aws

\* Attached: "already running".  No volume: launch the throwaway spot first.
StartGetVolume(p) ==
    /\ At(p, "GetVolume")
    /\ \E v \in AnyOf(NamedVolumes) :
           IF v # None /\ launch[v].att # None
           THEN Return(p, "already")
           ELSE op' = [op EXCEPT ![p].vol = v, ![p].temp = (v = None),
                                 ![p].pc = "launch"]
    /\ UNCHANGED aws

\* submitSpotRequest's first call, for the throwaway spot or the instance.
\* The request type is drawn here, where Start first reads it.
RequestSpot(p) ==
    /\ At(p, "launch")
    /\ op[p].temp \/ "spot" \in RequestTypes
    /\ \E l \in FreeLaunches :
        /\ launch' = [launch EXCEPT ![l].req = "open",
                                    ![l].reqTag = op[p].name,
                                    ![l].eni = op[p].eni,
                                    ![l].chain = op[p].vol]
        /\ op' = [op EXCEPT ![p].cur = l, ![p].pc = "fulfilledWaiter"]
    /\ UNCHANGED <<eni, holder>>

\* requestOnDemand's RunInstances: instance and root volume tagged at launch.
RunInstances(p) ==
    /\ At(p, "launch")
    /\ ~op[p].temp /\ "ondemand" \in RequestTypes
    /\ holder[op[p].eni] = None
    /\ \E l \in FreeLaunches :
        /\ launch' = [launch EXCEPT ![l].inst = "pending",
                                    ![l].instTag = op[p].name,
                                    ![l].vol = "there", ![l].att = l,
                                    ![l].volTag = op[p].name,
                                    ![l].eni = op[p].eni,
                                    ![l].chain = op[p].vol]
        /\ holder' = [holder EXCEPT ![op[p].eni] = l]
        /\ op' = [op EXCEPT ![p].cur = l, ![p].pc = "runningWaiter"]
    /\ UNCHANGED eni

\* The account's limits, and InvalidNetworkInterface.InUse.
LaunchRefused(p) ==
    /\ \/ At(p, "GetENI") /\ NamedEnis = {} /\ \A e \in Enis : eni[e] # "none"
       \/ At(p, "launch") /\ FreeLaunches = {}
       \/ /\ At(p, "launch") /\ ~op[p].temp /\ "ondemand" \in RequestTypes
          /\ holder[op[p].eni] # None
    /\ Return(p, "error")
    /\ UNCHANGED aws

\* The fulfilled waiter also accepts a request cancelled with its instance
\* running.
AwaitFulfilled(p) ==
    /\ At(p, "fulfilledWaiter")
    /\ \/ launch[op[p].cur].req = "active"
       \/ launch[op[p].cur].req = "cancelled" /\ IsLive(op[p].cur)
    /\ Goto(p, "tagInstance")
    /\ UNCHANGED aws

\* The request failed, or fifteen minutes have passed.
FulfilmentFails(p) ==
    /\ At(p, "fulfilledWaiter")
    /\ Goto(p, "cancelUnfulfilled")
    /\ UNCHANGED aws

\* CancelSpotInstanceRequests on one request.
Cancelled(r) == IF r \in {"open", "active"} THEN "cancelled" ELSE r

\* Best effort: its error is dropped, and Start returns one either way.
CancelUnfulfilled(p) ==
    /\ At(p, "cancelUnfulfilled")
    /\ launch' = [launch EXCEPT ![op[p].cur].req = Cancelled(@)]
    /\ Return(p, "error")
    /\ UNCHANGED <<eni, holder>>

TagInstance(p) ==
    /\ At(p, "tagInstance")
    /\ launch' = [launch EXCEPT ![op[p].cur].instTag = op[p].name]
    /\ Goto(p, "runningWaiter")
    /\ UNCHANGED <<eni, holder>>

AwaitRunning(p) ==
    /\ At(p, "runningWaiter")
    /\ launch[op[p].cur].inst \in {"running", "serving"}
    /\ Goto(p, IF op[p].temp THEN "modifyAttribute" ELSE "statusWaiter")
    /\ UNCHANGED aws

AwaitStatusOk(p) ==
    /\ At(p, "statusWaiter")
    /\ launch[op[p].cur].inst \in {"running", "serving"}
    /\ Goto(p, "inUseWaiter")
    /\ UNCHANGED aws

AwaitInUse(p) ==
    /\ At(p, "inUseWaiter")
    /\ launch[op[p].vol].vol = "there" /\ launch[op[p].vol].att # None
    /\ Goto(p, "verify")
    /\ UNCHANGED aws

VerifyVolumeAttachedTo(p) ==
    /\ At(p, "verify")
    /\ Return(p, IF launch[op[p].vol].att = op[p].cur THEN "started"
                                                      ELSE "error")
    /\ UNCHANGED aws

----------------------------------------------------------------------------
(* makePersistentVolume, once the throwaway spot runs                      *)

\* persistRootVolume: DeleteOnTermination off.
ModifyInstanceAttribute(p) ==
    /\ At(p, "modifyAttribute")
    /\ IsLive(op[p].cur)
    /\ launch' = [launch EXCEPT ![op[p].cur].keep = TRUE]
    /\ Goto(p, "tagVolume")
    /\ UNCHANGED <<eni, holder>>

\* persistRootVolume: find the root volume and give it the session's name.
TagVolume(p) ==
    /\ At(p, "tagVolume")
    /\ launch[op[p].cur].att = op[p].cur
    /\ launch' = [launch EXCEPT ![op[p].cur].volTag = AWSName]
    /\ Goto(p, "cancelTemp")
    /\ UNCHANGED <<eni, holder>>

\* persistRootVolume fails: the throwaway spot is torn down all the same.
PersistFails(p) ==
    /\ op[p].pc \in {"modifyAttribute", "tagVolume"}
    /\ op' = [op EXCEPT ![p].persistErr = TRUE, ![p].pc = "cancelTemp"]
    /\ UNCHANGED aws

\* terminateSpot
CancelTemp(p) ==
    /\ At(p, "cancelTemp")
    /\ launch' = [launch EXCEPT ![op[p].cur].req = Cancelled(@)]
    /\ Goto(p, "terminateTemp")
    /\ UNCHANGED <<eni, holder>>

Shut(i) == IF i \in Live THEN "shutting" ELSE i

TerminateTemp(p) ==
    /\ At(p, "terminateTemp")
    /\ launch' = [launch EXCEPT ![op[p].cur].inst = Shut(@)]
    /\ Goto(p, "tempTermWaiter")
    /\ UNCHANGED <<eni, holder>>

AwaitTempTerminated(p) ==
    /\ At(p, "tempTermWaiter")
    /\ launch[op[p].cur].inst = "terminated"
    /\ IF op[p].persistErr THEN Return(p, "error") ELSE Goto(p, "tempVolWaiter")
    /\ UNCHANGED aws

\* The volume is free: Start goes on to launch the instance from it.
AwaitTempVolume(p) ==
    /\ At(p, "tempVolWaiter")
    /\ launch[op[p].cur].vol = "there" /\ launch[op[p].cur].att = None
    /\ op' = [op EXCEPT ![p].vol = op[p].cur, ![p].temp = FALSE,
                        ![p].pc = "launch"]
    /\ UNCHANGED aws

----------------------------------------------------------------------------
(* Stop                                                                    *)

\* A variant that takes the empty id of a detached volume for an instance.
StopGetVolumeUnchecked(p) ==
    /\ At(p, "stopVolume")
    /\ \E v \in AnyOf(NamedVolumes) :
           op' = [op EXCEPT ![p].vol = v, ![p].pc = "stopENI",
                     ![p].ids = IF v = None THEN {} ELSE {launch[v].att}]
    /\ UNCHANGED aws

StopGetVolume(p) ==
    /\ At(p, "stopVolume")
    /\ \E v \in AnyOf(NamedVolumes) :
           op' = [op EXCEPT ![p].vol = v, ![p].pc = "stopENI",
                     ![p].ids = IF v = None THEN {}
                                ELSE {launch[v].att} \ {None}]
    /\ UNCHANGED aws

\* With force, a Stop that found no attachment goes by the Name tag next;
\* force is drawn here, where it is first read.
StopGetENI(p) ==
    /\ At(p, "stopENI")
    /\ \E e \in AnyOf(NamedEnis), force \in {FALSE, op[p].kind = "stop"} :
           op' = [op EXCEPT ![p].eni = e,
                     ![p].pc = IF op[p].ids = {} /\ force
                               THEN "findByName" ELSE "eniHolder"]
    /\ UNCHANGED aws

\* The CLI may ask for confirmation here; a refusal returns an error.
FindInstancesByName(p) ==
    /\ At(p, "findByName")
    /\ op' = [op EXCEPT ![p].ids = NamedInstances, ![p].pc = "eniHolder"]
    /\ UNCHANGED aws

\* A variant that goes by the volume and the Name tag alone.
NoEniHolder(p) ==
    /\ At(p, "eniHolder")
    /\ Goto(p, "openRequests")
    /\ UNCHANGED aws

\* eniAttachedInstance: whatever holds the interface is the session's.
EniHolder(p) ==
    /\ At(p, "eniHolder")
    /\ op' = [op EXCEPT ![p].pc = "openRequests",
                 ![p].ids = IF op[p].eni = None THEN @
                            ELSE @ \cup ({holder[op[p].eni]} \ {None})]
    /\ UNCHANGED aws

OpenSpotRequests(p) ==
    /\ At(p, "openRequests")
    /\ op' = [op EXCEPT ![p].reqs = OpenRequests, ![p].looked = TRUE,
                        ![p].pc = "cancelRequests"]
    /\ UNCHANGED aws

\* A failed lookup of the requests is logged and passed over.
OpenSpotRequestsFails(p) ==
    /\ At(p, "openRequests")
    /\ Goto(p, "cancelRequests")
    /\ UNCHANGED aws

\* Stop has nothing more to do.  A restart goes on to its Start.
StopReturns(p) ==
    op' = [op EXCEPT ![p] =
              IF op[p].kind = "stop" THEN [Idle EXCEPT !.result = "stopped"]
              ELSE [Idle EXCEPT !.result = "stopped", !.kind = "restart",
                        !.name = op[p].name, !.pc = "GetENI"]]

\* A variant that returns early when there is nothing to terminate.
CancelIfTerminating(p) ==
    /\ At(p, "cancelRequests")
    /\ IF op[p].ids = {} THEN StopReturns(p) /\ UNCHANGED launch
       ELSE /\ launch' = [l \in Launches |->
                              IF l \in op[p].reqs
                              THEN [launch[l] EXCEPT !.req = Cancelled(@)]
                              ELSE launch[l]]
            /\ op' = [op EXCEPT ![p].left = op[p].ids, ![p].reqs = {},
                                ![p].pc = "nextInstance"]
    /\ UNCHANGED <<eni, holder>>

\* Cancel what was found; with no instance to terminate Stop is done.
CancelSpotRequests(p) ==
    /\ At(p, "cancelRequests")
    /\ launch' = [l \in Launches |->
                     IF l \in op[p].reqs
                     THEN [launch[l] EXCEPT !.req = Cancelled(@)]
                     ELSE launch[l]]
    /\ IF op[p].ids = {} THEN StopReturns(p)
       ELSE op' = [op EXCEPT ![p].left = op[p].ids, ![p].reqs = {},
                             ![p].pc = "nextInstance"]
    /\ UNCHANGED <<eni, holder>>

\* getSpotRequestID and the cancellation it asks for, for the next instance.
CancelInstanceRequest(p) ==
    /\ At(p, "nextInstance")
    /\ \E l \in op[p].left :
        /\ launch' = [launch EXCEPT ![l].req = Cancelled(@)]
        /\ op' = [op EXCEPT ![p].cur = l, ![p].pc = "terminate"]
    /\ UNCHANGED <<eni, holder>>

TerminateInstance(p) ==
    /\ At(p, "terminate")
    /\ launch' = [launch EXCEPT ![op[p].cur].inst = Shut(@)]
    /\ op' = [op EXCEPT ![p].left = @ \ {op[p].cur}, ![p].cur = None,
                 ![p].pc = IF op[p].left = {op[p].cur} THEN "termWaiter"
                           ELSE "nextInstance"]
    /\ UNCHANGED <<eni, holder>>

AwaitTerminated(p) ==
    /\ At(p, "termWaiter")
    /\ \A l \in op[p].ids : launch[l].inst = "terminated"
    /\ Goto(p, "volWaiter")
    /\ UNCHANGED aws

AwaitVolumeAvailable(p) ==
    /\ At(p, "volWaiter")
    /\ op[p].vol # None => /\ launch[op[p].vol].vol = "there"
                           /\ launch[op[p].vol].att = None
    /\ Goto(p, "eniWaiter")
    /\ UNCHANGED aws

AwaitEniAvailable(p) ==
    /\ At(p, "eniWaiter")
    /\ op[p].eni # None => holder[op[p].eni] = None
    /\ StopReturns(p)
    /\ UNCHANGED aws

----------------------------------------------------------------------------

\* A variant whose wait for the interface has no deadline.
WaiterFailsButEni(p) ==
    /\ op[p].pc \in Waits \ {"eniWaiter"}
    /\ Return(p, "error")
    /\ UNCHANGED aws

\* A waiter gives up: ten or fifteen minutes, or a state that cannot become
\* the awaited one.
WaiterFails(p) ==
    /\ op[p].pc \in Waits
    /\ Return(p, "error")
    /\ UNCHANGED aws

\* The call this step would make fails and the operation returns its error,
\* or the process dies.  A call whose answer is lost has had its effect.
Interrupted(p) ==
    /\ ~At(p, "idle")
    /\ Return(p, "error")
    /\ UNCHANGED aws

StartStep(p) ==
    \/ GetENI(p) \/ TagENI(p) \/ StartGetVolume(p) \/ RequestSpot(p)
    \/ RunInstances(p) \/ LaunchRefused(p) \/ AwaitFulfilled(p)
    \/ FulfilmentFails(p) \/ CancelUnfulfilled(p) \/ TagInstance(p)
    \/ AwaitRunning(p) \/ AwaitStatusOk(p) \/ AwaitInUse(p)
    \/ VerifyVolumeAttachedTo(p)
PersistStep(p) ==
    \/ ModifyInstanceAttribute(p) \/ TagVolume(p) \/ PersistFails(p)
    \/ CancelTemp(p) \/ TerminateTemp(p) \/ AwaitTempTerminated(p)
    \/ AwaitTempVolume(p)
StopStep(p) ==
    \/ StopGetVolume(p) \/ StopGetENI(p) \/ FindInstancesByName(p)
    \/ EniHolder(p) \/ OpenSpotRequests(p) \/ OpenSpotRequestsFails(p)
    \/ CancelSpotRequests(p) \/ CancelInstanceRequest(p)
    \/ TerminateInstance(p) \/ AwaitTerminated(p) \/ AwaitVolumeAvailable(p)
    \/ AwaitEniAvailable(p)

OpStep(p) == StartStep(p) \/ PersistStep(p) \/ StopStep(p) \/ WaiterFails(p)

Next == \/ AwsStep
        \/ \E p \in Procs : \/ BeginStart(p) \/ BeginStop(p) \/ BeginRestart(p)
                            \/ OpStep(p) \/ Interrupted(p)

\* An operation goes on: the SDK's calls return and every waiter has a
\* deadline (launchWaitDuration, waitMaxDuration).  Nothing is assumed of AWS.
Spec == Init /\ [][Next]_vars /\ \A p \in Procs : WF_vars(OpStep(p))

----------------------------------------------------------------------------
(* Properties                                                              *)

\* Whatever an interrupted operation left running can be found: every live
\* instance of the session, tagged or not, holds the session's named
\* interface, which is what Stop looks at (stop.go:63-66, aws.go:92-99).
OrphanReachable ==
    \A l \in LiveInstances : \E e \in NamedEnis : holder[e] = l

\* The session never has two live instances, whatever was interrupted and
\* retried before: a leftover spot request or instance excludes the next.
OneInstance == Cardinality(LiveInstances) <= 1

\* The root file system an instance chainloads from outlives it: the volume
\* exists and has DeleteOnTermination off for as long as a request or an
\* instance refers to it (start.go:126-128).
ChainTargetKept ==
    \A l \in Launches :
        /\ launch[l].chain # None
        /\ launch[l].req = "open" \/ IsLive(l)
        => /\ launch[launch[l].chain].vol = "there"
           /\ launch[launch[l].chain].keep

Roots == {v \in NamedVolumes : launch[v].keep}

\* The session has one root file system: however often making it is cut short
\* and retried, at most one kept volume comes to bear the session's name, and
\* every request or instance that launches from a volume launches from that
\* one, never from a second home that an earlier attempt or a throwaway spot
\* has left behind (start.go:49-68, :129-217).
OneRoot ==
    /\ \A v, w \in Roots : v = w
    /\ \A l \in Launches :
           /\ launch[l].chain # None
           /\ launch[l].req = "open" \/ IsLive(l)
           => launch[l].chain \in Roots

StopSucceeds(p) == op[p].result # "stopped" /\ op'[p].result = "stopped"

\* A Stop that reports success has ended every instance that was live when it
\* began, with or without force, tagged or not.
StopEndsWhatRan ==
    [][\A p \in Procs : StopSucceeds(p) =>
           \A l \in op[p].seen : launch'[l].inst \notin Live]_vars

\* A Stop that could look the requests up leaves none that may still fulfil,
\* also when there was no instance to terminate (stop.go:78-80).
StopEndsRequests ==
    [][\A p \in Procs : StopSucceeds(p) /\ op[p].looked =>
           \A l \in Launches : launch'[l].req # "open"]_vars

\* After a Stop that reports success no instance of the session is live:
\* "an orphaned request can fulfil later and hand us an instance no one is
\* watching" is what stop.go:78-80 means to exclude.
StopLeavesNothing ==
    [][\A p \in Procs : StopSucceeds(p) /\ op[p].looked =>
           \A l \in Launches : launch'[l].inst \notin Live]_vars

\* Every operation ends: no chain of waits keeps the session's task, and its
\* lock, for ever.
OpEnds == \A p \in Procs : ~At(p, "idle") ~> At(p, "idle")
=============================================================================
