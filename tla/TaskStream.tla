----------------------------- MODULE TaskStream -----------------------------
(***************************************************************************)
(* What a client sees of a task: the tailing stream and the one-shot       *)
(* answer of src/src/server/tasks.go, over the tasks of TaskQueue and the  *)
(* output buffer each of them keeps (src/src/tasks/manager.go:40-60).      *)
(*                                                                         *)
(* Handlers hold on to the task they looked up, so a stream goes on after  *)
(* its task has left the registry.  A snapshot is taken under the task's   *)
(* mutex and is one step; what a handler sends, it sends of its snapshot.  *)
(***************************************************************************)
EXTENDS TaskQueue

CONSTANTS Clients,   \* requests to the task endpoints at a time
          Lines,     \* what an operation may write
          MaxOutput  \* bound on the writes of a task

VARIABLES output,  \* Task.output
          client   \* per request: its handler's locals and what was sent

streamVars == <<output, client>>
allVars == <<vars, streamVars>>

\* tailing: in the stream's loop; ended: the server closed the stream;
\* fields, answered: a GET after its first and its second snapshot;
\* gone: the client or the server went away.
ClientPCs == {"none", "tailing", "ended", "fields", "answered", "gone"}

\* A request before it has sent anything.
Fresh(p, t, fin) == [pc |-> p, task |-> t, offset |-> 0, sent |-> <<>>,
                     final |-> fin, error |-> FALSE]

StreamTypeOK ==
    /\ output \in [TaskIDs -> Seq(Lines)]
    /\ client \in [Clients ->
           [pc: ClientPCs, task: TaskIDs \cup {NoTask}, offset: Nat,
            sent: Seq(Lines),
            final: BOOLEAN,     \* "final" of the answer
            error: BOOLEAN]]    \* the ERROR line was sent

StreamInit ==
    /\ Init
    /\ output = [t \in TaskIDs |-> <<>>]
    /\ client = [c \in Clients |-> Fresh("none", NoTask, FALSE)]

----------------------------------------------------------------------------

\* Task.Write, called by fn.
Write(t) ==
    /\ pc[t] = "operating"
    /\ Len(output[t]) < MaxOutput
    /\ \E x \in Lines : output' = [output EXCEPT ![t] = Append(@, x)]
    /\ UNCHANGED <<vars, client>>

\* Snapshot's data, and its isFinal with two variants of it.
Past(t, offset) == SubSeq(output[t], offset + 1, Len(output[t]))

FinalNotRunning(t) == status[t] # "running"
FinalIfFailed(t) == status[t] = "failed"
Final(t) == IsDone(t)

\* lookupTask: the task is registered and its instance readable.  The lookup is
\* one step with what follows: only a finished task is evicted in between, and
\* that one does not change any more.
Open(c, t, p, fin) ==
    /\ client[c].pc \in {"none", "ended", "answered", "gone"}
    /\ t \in tasks
    /\ client' = [client EXCEPT ![c] = Fresh(p, t, fin)]
    /\ UNCHANGED <<vars, output>>

Stream(c, t) == Open(c, t, "tailing", FALSE)

\* handleTaskGet's taskFields; the output is read by a second snapshot.
GetFields(c, t) == Open(c, t, "fields", Final(t))

GetOutput(c) ==
    /\ client[c].pc = "fields"
    /\ client' = [client EXCEPT ![c].pc = "answered",
                                ![c].sent = Past(client[c].task, 0)]
    /\ UNCHANGED <<vars, output>>

\* Variants of the loop: the offset stays behind; the end is read apart from
\* the data; the offset is that of the last byte sent.
PollSameOffset(c) ==
    LET t == client[c].task IN
    /\ client[c].pc = "tailing"
    /\ client' = [client EXCEPT ![c].sent = @ \o Past(t, client[c].offset),
                     ![c].error = Final(t) /\ status[t] = "failed",
                     ![c].pc = IF Final(t) THEN "ended" ELSE @]
    /\ UNCHANGED <<vars, output>>

PollTwice(c) ==
    LET t == client[c].task IN
    /\ client[c].pc = "tailing"
    /\ \/ client' = [client EXCEPT ![c].sent = @ \o Past(t, client[c].offset),
                                   ![c].offset = Len(output[t])]
       \/ /\ Final(t)
          /\ client' = [client EXCEPT ![c].error = status[t] = "failed",
                                      ![c].pc = "ended"]
    /\ UNCHANGED <<vars, output>>

PollLast(c) ==
    LET t == client[c].task IN
    /\ client[c].pc = "tailing"
    /\ client' = [client EXCEPT ![c].sent = @ \o Past(t, client[c].offset),
                     ![c].offset = Len(output[t]) - 1,
                     ![c].error = Final(t) /\ status[t] = "failed",
                     ![c].pc = IF Final(t) THEN "ended" ELSE @]
    /\ UNCHANGED <<vars, output>>

\* One turn of handleTaskStream's loop: data, status and error come from one
\* snapshot.  Heartbeats are bytes the client drops.
Poll(c) ==
    LET t == client[c].task IN
    /\ client[c].pc = "tailing"
    /\ client' = [client EXCEPT ![c].sent = @ \o Past(t, client[c].offset),
                     ![c].offset = @ + Len(Past(t, @)),
                     ![c].error = Final(t) /\ status[t] = "failed",
                     ![c].pc = IF Final(t) THEN "ended" ELSE @]
    /\ UNCHANGED <<vars, output>>

Disconnect(c) ==
    /\ client[c].pc \in {"tailing", "fields"}
    /\ client' = [client EXCEPT ![c].pc = "gone"]
    /\ UNCHANGED <<vars, output>>

\* The queue goes on; a restart takes outputs and connections with it.
QueueStep ==
    \/ /\ \/ \E t \in TaskIDs, s \in Sessions : Create(t, s)
          \/ \E t \in TaskIDs : TaskStep(t)
       /\ UNCHANGED streamVars
    \/ /\ Restart
       /\ output' = [t \in TaskIDs |-> <<>>]
       /\ client' = [c \in Clients |-> Fresh("gone", NoTask, FALSE)]

StreamNext ==
    \/ QueueStep
    \/ \E t \in TaskIDs : Write(t)
    \/ \E c \in Clients : \/ \E t \in TaskIDs : Stream(c, t) \/ GetFields(c, t)
                          \/ GetOutput(c) \/ Poll(c) \/ Disconnect(c)

\* The queue's fairness, and each handler's loop keeps turning (every 250 ms).
StreamSpec ==
    /\ StreamInit /\ [][StreamNext]_allVars
    /\ \A t \in TaskIDs : WF_allVars(TaskStep(t) /\ UNCHANGED streamVars)
    /\ \A c \in Clients : WF_allVars(Poll(c))

----------------------------------------------------------------------------

\* What a stream has sent is what the task wrote first, nothing lost, repeated
\* or out of order at any of the joins between snapshots (tasks.go:122-127).
SentIsPrefix ==
    \A c \in Clients : client[c].pc \in {"tailing", "ended"} =>
        /\ client[c].offset <= Len(output[client[c].task])
        /\ client[c].sent = SubSeq(output[client[c].task], 1, client[c].offset)

\* A stream the server closes has sent the whole output, also what was written
\* just before the task finished, and the ERROR line exactly if it failed.
EndedIsWhole ==
    \A c \in Clients : client[c].pc = "ended" =>
        /\ client[c].sent = output[client[c].task]
        /\ status[client[c].task] \in DoneStatus
        /\ client[c].error <=> status[client[c].task] = "failed"

\* An answer that says the task is final carries all of its output, although
\* the two are read by different snapshots (tasks.go:92-94).
FinalAnswerIsWhole ==
    \A c \in Clients : client[c].pc = "answered" /\ client[c].final =>
        /\ client[c].sent = output[client[c].task]
        /\ status[client[c].task] \in DoneStatus

\* Every stream ends, so the browser is not left tailing a finished task.
StreamEnds ==
    \A c \in Clients : client[c].pc = "tailing" ~> client[c].pc # "tailing"
=============================================================================
