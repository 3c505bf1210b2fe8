-------------------------- MODULE TaskStreamProofs --------------------------
(***************************************************************************)
(* Proofs about what clients see of tasks, for every set of tasks, clients *)
(* and lines, and every length of output.                                  *)
(*                                                                         *)
(* The argument: a task that is done stays as it is, in its output as in   *)
(* its status, because only a task inside fn writes and the queue's        *)
(* invariant says that such a task is running.  The rest is how a turn of  *)
(* the stream's loop joins two pieces of the output.                       *)
(***************************************************************************)
EXTENDS TaskStream, TaskQueueProofs, SequenceTheorems

\* The task a handler works on, and what it knows of it between two snapshots.
HandlersOk ==
    \A c \in Clients :
        /\ client[c].pc \in {"tailing", "ended", "fields", "answered"} =>
               client[c].task \in TaskIDs
        /\ client[c].pc = "fields" /\ client[c].final =>
               status[client[c].task] \in DoneStatus

StreamInv ==
    /\ IInv /\ StreamTypeOK
    /\ HandlersOk /\ SentIsPrefix /\ EndedIsWhole /\ FinalAnswerIsWhole

----------------------------------------------------------------------------
(* Sequences                                                               *)

\* A sequence is its beginning and the rest of it.
LEMMA BeginningAndRest ==
    ASSUME NEW S, NEW s \in Seq(S), NEW k \in Nat, k <= Len(s)
    PROVE  /\ SubSeq(s, 1, k) \o SubSeq(s, k + 1, Len(s)) = s
           /\ Len(SubSeq(s, k + 1, Len(s))) = Len(s) - k
           /\ SubSeq(s, k + 1, Len(s)) \in Seq(S)
           /\ SubSeq(s, 1, Len(s)) = s
<1>1. SubSeq(s, 1, Len(s)) = s
  BY SubSeqFull
<1>2. SubSeq(s, 1, k) \o SubSeq(s, k + 1, Len(s)) = SubSeq(s, 1, Len(s))
  <2>1. /\ 1 \in 1 .. Len(s) + 1 /\ k \in 1 - 1 .. Len(s)
        /\ Len(s) \in k .. Len(s)
    OBVIOUS
  <2>2. QED
    BY <2>1, ConcatAdjacentSubSeq
<1>3. /\ Len(SubSeq(s, k + 1, Len(s))) = Len(s) - k
      /\ SubSeq(s, k + 1, Len(s)) \in Seq(S)
  <2>1. k + 1 \in Int /\ Len(s) \in Int
        /\ \A i \in k + 1 .. Len(s) : s[i] \in S
    OBVIOUS
  <2>2. /\ SubSeq(s, k + 1, Len(s)) \in Seq(S)
        /\ Len(SubSeq(s, k + 1, Len(s))) =
               IF k + 1 <= Len(s) THEN Len(s) - (k + 1) + 1 ELSE 0
    BY <2>1, SubSeqProperties
  <2>3. QED
    BY <2>2
<1>4. QED
  BY <1>1, <1>2, <1>3

\* The beginning of a sequence survives what is appended to it.
LEMMA BeginningOfAppend ==
    ASSUME NEW S, NEW s \in Seq(S), NEW x \in S, NEW k \in Nat, k <= Len(s)
    PROVE  SubSeq(Append(s, x), 1, k) = SubSeq(s, 1, k)
  OBVIOUS

----------------------------------------------------------------------------
(* The queue's steps                                                       *)

\* A step of the composition is a step of the queue.
LEMMA StreamStepIsQueueStep == [StreamNext]_allVars => [Next]_vars
  BY DEF StreamNext, allVars, QueueStep, Next, Write, Stream, GetFields, Open,
         GetOutput, Poll, Disconnect

\* What is done stays done: no step but a restart changes the status of a task
\* that has finished.
LEMMA DoneIsFinal ==
    ASSUME IInv,
           \/ \E t \in TaskIDs, s \in Sessions : Create(t, s)
           \/ \E t \in TaskIDs : TaskStep(t),
           NEW u \in TaskIDs, status[u] \in DoneStatus
    PROVE  status'[u] = status[u]
<1> USE DEF IInv, TypeOK, Life, DoneStatus
<1>1. ASSUME NEW t \in TaskIDs, NEW s \in Sessions, Create(t, s)
      PROVE  status'[u] = status[u]
  BY <1>1 DEF Create
<1>2. ASSUME NEW t \in TaskIDs, TaskStep(t) PROVE status'[u] = status[u]
  BY <1>2 DEF TaskStep, Run, SetRunning, FnReturns, FinishRelease, FinishStatus
<1>3. QED
  BY <1>1, <1>2

----------------------------------------------------------------------------
(* The inductive invariant                                                 *)

\* The invariant holds before any client has come.
LEMMA InitStreamInv == StreamInit => StreamInv
<1> SUFFICES ASSUME StreamInit PROVE StreamInv
  OBVIOUS
<1>1. IInv
  BY InitIInv DEF StreamInit
<1>2. StreamTypeOK
  BY DEF StreamInit, StreamTypeOK, Fresh, ClientPCs
<1>3. HandlersOk /\ SentIsPrefix /\ EndedIsWhole /\ FinalAnswerIsWhole
  BY DEF StreamInit, Fresh, HandlersOk, SentIsPrefix, EndedIsWhole,
         FinalAnswerIsWhole
<1>4. QED
  BY <1>1, <1>2, <1>3 DEF StreamInv

\* A step of the queue keeps what a client has read a part of the output.
LEMMA QueueStepInv ==
    ASSUME StreamInv, QueueStep
    PROVE  /\ StreamTypeOK' /\ HandlersOk' /\ SentIsPrefix'
           /\ EndedIsWhole' /\ FinalAnswerIsWhole'
<1>1. CASE /\ \/ \E t \in TaskIDs, s \in Sessions : Create(t, s)
              \/ \E t \in TaskIDs : TaskStep(t)
           /\ UNCHANGED streamVars
  <2>1. output' = output /\ client' = client
    BY <1>1 DEF streamVars
  <2>2. \A u \in TaskIDs :
            status[u] \in DoneStatus => status'[u] = status[u]
    BY <1>1, DoneIsFinal DEF StreamInv
  <2>3. StreamTypeOK' /\ SentIsPrefix'
    BY <2>1 DEF StreamInv, StreamTypeOK, SentIsPrefix
  <2>4. HandlersOk' /\ EndedIsWhole' /\ FinalAnswerIsWhole'
    BY <2>1, <2>2 DEF StreamInv, HandlersOk, EndedIsWhole, FinalAnswerIsWhole
  <2>5. QED
    BY <2>3, <2>4
<1>2. CASE /\ Restart
           /\ output' = [t \in TaskIDs |-> <<>>]
           /\ client' = [c \in Clients |-> Fresh("gone", NoTask, FALSE)]
  <2>1. StreamTypeOK'
    <3>1. Fresh("gone", NoTask, FALSE) \in
              [pc: ClientPCs, task: TaskIDs \cup {NoTask}, offset: Nat,
               sent: Seq(Lines), final: BOOLEAN, error: BOOLEAN]
      BY DEF Fresh, ClientPCs
    <3>2. [t \in TaskIDs |-> <<>>] \in [TaskIDs -> Seq(Lines)]
      OBVIOUS
    <3>3. QED
      BY <1>2, <3>1, <3>2 DEF StreamTypeOK
  <2>2. \A c \in Clients : client'[c].pc = "gone"
    BY <1>2 DEF Fresh
  <2>3. HandlersOk' /\ SentIsPrefix' /\ EndedIsWhole' /\ FinalAnswerIsWhole'
    BY <2>2 DEF HandlersOk, SentIsPrefix, EndedIsWhole, FinalAnswerIsWhole
  <2>4. QED
    BY <2>1, <2>3
<1>3. QED
  BY <1>1, <1>2 DEF QueueStep

\* Only a running task writes, so nothing is added to what was sent whole.
LEMMA WriteInv ==
    ASSUME StreamInv, NEW t \in TaskIDs, Write(t)
    PROVE  /\ StreamTypeOK' /\ HandlersOk' /\ SentIsPrefix'
           /\ EndedIsWhole' /\ FinalAnswerIsWhole'
<1>1. PICK x \in Lines : output' = [output EXCEPT ![t] = Append(@, x)]
  BY DEF Write
<1>2. client' = client /\ status' = status
  BY DEF Write, vars
<1>3. status[t] \notin DoneStatus
  BY DEF Write, StreamInv, IInv, Life, DoneStatus
<1>4. StreamTypeOK'
  BY <1>1, <1>2 DEF StreamInv, StreamTypeOK
<1>5. HandlersOk'
  BY <1>2 DEF StreamInv, HandlersOk
<1>6. SentIsPrefix'
  <2>1. SUFFICES ASSUME NEW c \in Clients,
                        client[c].pc \in {"tailing", "ended"}
                 PROVE  /\ client[c].offset <= Len(output'[client[c].task])
                        /\ client[c].sent = SubSeq(output'[client[c].task], 1,
                                                   client[c].offset)
    BY <1>2 DEF SentIsPrefix
  <2>2. /\ client[c].task \in TaskIDs /\ client[c].offset \in Nat
        /\ output[t] \in Seq(Lines)
    BY <2>1 DEF StreamInv, HandlersOk, StreamTypeOK
  <2>3. /\ client[c].offset <= Len(output[client[c].task])
        /\ client[c].sent =
               SubSeq(output[client[c].task], 1, client[c].offset)
    BY <2>1 DEF StreamInv, SentIsPrefix
  <2>4. CASE client[c].task = t
    <3>1. output'[t] = Append(output[t], x)
      BY <1>1 DEF StreamInv, StreamTypeOK
    <3>2. Len(Append(output[t], x)) = Len(output[t]) + 1
      BY <2>2
    <3>3. SubSeq(Append(output[t], x), 1, client[c].offset) =
              SubSeq(output[t], 1, client[c].offset)
      BY <2>2, <2>3, <2>4, BeginningOfAppend
    <3>4. QED
      BY <2>2, <2>3, <2>4, <3>1, <3>2, <3>3
  <2>5. CASE client[c].task # t
    BY <1>1, <2>2, <2>3, <2>5 DEF StreamInv, StreamTypeOK
  <2>6. QED
    BY <2>4, <2>5
<1>7. EndedIsWhole' /\ FinalAnswerIsWhole'
  <2>1. ASSUME NEW u \in TaskIDs, status[u] \in DoneStatus
        PROVE  output'[u] = output[u]
    BY <1>1, <1>3, <2>1 DEF StreamInv, StreamTypeOK
  <2>2. QED
    BY <1>2, <2>1 DEF StreamInv, HandlersOk, EndedIsWhole, FinalAnswerIsWhole
<1>8. QED
  BY <1>4, <1>5, <1>6, <1>7

----------------------------------------------------------------------------
(* The handlers' steps                                                     *)

Request == [pc: ClientPCs, task: TaskIDs \cup {NoTask}, offset: Nat,
            sent: Seq(Lines), final: BOOLEAN, error: BOOLEAN]

\* What the invariant says of one request.
RequestOk(r) ==
    /\ r.pc \in {"tailing", "ended", "fields", "answered"} => r.task \in TaskIDs
    /\ r.pc = "fields" /\ r.final => status[r.task] \in DoneStatus
    /\ r.pc \in {"tailing", "ended"} =>
           /\ r.offset <= Len(output[r.task])
           /\ r.sent = SubSeq(output[r.task], 1, r.offset)
    /\ r.pc = "ended" => /\ r.sent = output[r.task]
                         /\ status[r.task] \in DoneStatus
                         /\ r.error <=> status[r.task] = "failed"
    /\ r.pc = "answered" /\ r.final => /\ r.sent = output[r.task]
                                       /\ status[r.task] \in DoneStatus

\* A step of one request need only be looked at for that request.
LEMMA OneRequest ==
    ASSUME StreamInv, NEW c \in Clients, NEW r \in Request, RequestOk(r),
           client' = [client EXCEPT ![c] = r],
           output' = output, status' = status
    PROVE  /\ StreamTypeOK' /\ HandlersOk' /\ SentIsPrefix'
           /\ EndedIsWhole' /\ FinalAnswerIsWhole'
<1>1. /\ client'[c] = r
      /\ \A d \in Clients \ {c} : client'[d] = client[d]
  BY DEF StreamInv, StreamTypeOK
<1>2. StreamTypeOK'
  BY DEF StreamInv, StreamTypeOK, Request
<1>3. HandlersOk'
  BY <1>1 DEF StreamInv, HandlersOk, RequestOk
<1>4. SentIsPrefix'
  BY <1>1 DEF StreamInv, SentIsPrefix, RequestOk
<1>5. EndedIsWhole'
  BY <1>1 DEF StreamInv, EndedIsWhole, RequestOk
<1>6. FinalAnswerIsWhole'
  BY <1>1 DEF StreamInv, FinalAnswerIsWhole, RequestOk
<1>7. QED
  BY <1>2, <1>3, <1>4, <1>5, <1>6

\* A client that connects has read nothing.
LEMMA OpenInv ==
    ASSUME StreamInv, NEW c \in Clients, NEW t \in TaskIDs,
           Stream(c, t) \/ GetFields(c, t)
    PROVE  /\ StreamTypeOK' /\ HandlersOk' /\ SentIsPrefix'
           /\ EndedIsWhole' /\ FinalAnswerIsWhole'
<1>1. PICK p \in {"tailing", "fields"}, fin \in BOOLEAN :
          Open(c, t, p, fin) /\ (fin => status[t] \in DoneStatus)
  <2>1. ASSUME Stream(c, t)
        PROVE  "tailing" \in {"tailing", "fields"}
               /\ Open(c, t, "tailing", FALSE)
    BY <2>1 DEF Stream
  <2>2. ASSUME GetFields(c, t)
        PROVE  /\ Open(c, t, "fields", Final(t))
               /\ Final(t) \in BOOLEAN
               /\ Final(t) => status[t] \in DoneStatus
    BY <2>2 DEF GetFields, Final, IsDone
  <2>3. QED
    BY <2>1, <2>2
<1> DEFINE r == Fresh(p, t, fin)
<1>2. /\ client' = [client EXCEPT ![c] = r]
      /\ output' = output /\ status' = status
  BY <1>1 DEF Open, vars
<1>3. r \in Request
  BY DEF Fresh, Request, ClientPCs
<1>4. RequestOk(r)
  <2>1. 0 <= Len(output[t]) /\ SubSeq(output[t], 1, 0) = <<>>
    BY DEF StreamInv, StreamTypeOK
  <2>2. QED
    BY <1>1, <2>1 DEF Fresh, RequestOk
<1> HIDE DEF r
<1>5. QED
  BY <1>2, <1>3, <1>4, OneRequest

\* Reading the output keeps the invariant.
LEMMA GetOutputInv ==
    ASSUME StreamInv, NEW c \in Clients, GetOutput(c)
    PROVE  /\ StreamTypeOK' /\ HandlersOk' /\ SentIsPrefix'
           /\ EndedIsWhole' /\ FinalAnswerIsWhole'
<1>1. PICK t : t = client[c].task
  OBVIOUS
<1>2. /\ client[c] \in Request /\ client[c].pc = "fields"
      /\ t \in TaskIDs /\ output[t] \in Seq(Lines)
      /\ client[c].final => status[t] \in DoneStatus
  BY <1>1 DEF GetOutput, StreamInv, HandlersOk, StreamTypeOK, Request
<1>3. Past(t, 0) = output[t]
  BY <1>2, BeginningAndRest DEF Past
<1> DEFINE r == [client[c] EXCEPT !.pc = "answered", !.sent = output[t]]
<1>4. /\ client' = [client EXCEPT ![c] = r]
      /\ output' = output /\ status' = status
  BY <1>1, <1>3 DEF GetOutput, vars
<1>5. r \in Request
  BY <1>2 DEF Request, ClientPCs
<1>6. RequestOk(r)
  <2>1. /\ r.pc = "answered" /\ r.sent = output[t] /\ r.task = t
        /\ r.final = client[c].final
    BY <1>1, <1>2 DEF Request
  <2> HIDE DEF r
  <2>2. QED
    BY <1>2, <2>1 DEF RequestOk
<1> HIDE DEF r
<1>7. QED
  BY <1>4, <1>5, <1>6, OneRequest

\* A turn of the loop joins what was sent to the rest of the output.
LEMMA PollInv ==
    ASSUME StreamInv, NEW c \in Clients, Poll(c)
    PROVE  /\ StreamTypeOK' /\ HandlersOk' /\ SentIsPrefix'
           /\ EndedIsWhole' /\ FinalAnswerIsWhole'
<1>1. PICK t, o, k : /\ t = client[c].task /\ o = output[t]
                     /\ k = client[c].offset
  OBVIOUS
<1>2. /\ client[c] \in Request /\ client[c].pc = "tailing"
      /\ t \in TaskIDs /\ o \in Seq(Lines) /\ k \in Nat
  BY <1>1 DEF Poll, StreamInv, HandlersOk, StreamTypeOK, Request
<1>3. k <= Len(o) /\ client[c].sent = SubSeq(o, 1, k)
  BY <1>1, <1>2 DEF StreamInv, SentIsPrefix
<1>4. /\ Past(t, k) = SubSeq(o, k + 1, Len(o))
      /\ Len(o) \in Nat
  BY <1>1, <1>2 DEF Past
<1>5. /\ client[c].sent \o Past(t, k) = o
      /\ Len(Past(t, k)) = Len(o) - k
      /\ SubSeq(o, 1, Len(o)) = o
  BY <1>2, <1>3, <1>4, BeginningAndRest
<1>6. k + Len(Past(t, k)) = Len(o)
  BY <1>2, <1>4, <1>5
<1> DEFINE last == IF Final(t) THEN "ended" ELSE "tailing"
           err == Final(t) /\ status[t] = "failed"
           r == [client[c] EXCEPT !.sent = o, !.offset = Len(o),
                                  !.error = err, !.pc = last]
<1>7. /\ client' = [client EXCEPT ![c].sent = client[c].sent \o Past(t, k),
                        ![c].offset = k + Len(Past(t, k)),
                        ![c].error = err, ![c].pc = last]
      /\ output' = output /\ status' = status
  BY <1>1, <1>2 DEF Poll, vars
<1>8. /\ last \in {"ended", "tailing"} /\ err \in BOOLEAN
      /\ last = "ended" =>
             status[t] \in DoneStatus /\ (err <=> status[t] = "failed")
  BY DEF Final, IsDone
<1> HIDE DEF last, err
<1>9. client' = [client EXCEPT ![c] = r]
  BY <1>5, <1>6, <1>7
<1>10. r \in Request
  BY <1>2, <1>4, <1>8 DEF Request, ClientPCs
<1>11. RequestOk(r)
  <2>1. /\ r.pc = last /\ r.sent = o /\ r.offset = Len(o)
        /\ r.error = err /\ r.task = t
    BY <1>1, <1>2 DEF Request
  <2> HIDE DEF r
  <2>2. QED
    BY <1>1, <1>2, <1>4, <1>5, <1>8, <2>1 DEF RequestOk
<1> HIDE DEF r
<1>12. QED
  BY <1>7, <1>9, <1>10, <1>11, OneRequest

\* A lost connection keeps the invariant.
LEMMA DisconnectInv ==
    ASSUME StreamInv, NEW c \in Clients, Disconnect(c)
    PROVE  /\ StreamTypeOK' /\ HandlersOk' /\ SentIsPrefix'
           /\ EndedIsWhole' /\ FinalAnswerIsWhole'
<1> DEFINE r == [client[c] EXCEPT !.pc = "gone"]
<1>1. /\ client' = [client EXCEPT ![c] = r]
      /\ output' = output /\ status' = status
  BY DEF Disconnect, vars
<1>2. client[c] \in Request
  BY DEF StreamInv, StreamTypeOK, Request
<1>3. r \in Request /\ r.pc = "gone"
  BY <1>2 DEF Request, ClientPCs
<1> HIDE DEF r
<1>4. RequestOk(r)
  BY <1>3 DEF RequestOk
<1>5. QED
  BY <1>1, <1>3, <1>4, OneRequest

\* Every step keeps the invariant.
LEMMA NextStreamInv == StreamInv /\ [StreamNext]_allVars => StreamInv'
<1> SUFFICES ASSUME StreamInv, [StreamNext]_allVars PROVE StreamInv'
  OBVIOUS
<1>0. IInv'
  BY StreamStepIsQueueStep, NextIInv DEF StreamInv
<1>1. CASE QueueStep
  BY <1>0, <1>1, QueueStepInv DEF StreamInv
<1>2. ASSUME NEW t \in TaskIDs, Write(t) PROVE StreamInv'
  BY <1>0, <1>2, WriteInv DEF StreamInv
<1>3. ASSUME NEW c \in Clients, NEW t \in TaskIDs,
             Stream(c, t) \/ GetFields(c, t)
      PROVE  StreamInv'
  BY <1>0, <1>3, OpenInv DEF StreamInv
<1>4. ASSUME NEW c \in Clients, GetOutput(c) PROVE StreamInv'
  BY <1>0, <1>4, GetOutputInv DEF StreamInv
<1>5. ASSUME NEW c \in Clients, Poll(c) PROVE StreamInv'
  BY <1>0, <1>5, PollInv DEF StreamInv
<1>6. ASSUME NEW c \in Clients, Disconnect(c) PROVE StreamInv'
  BY <1>0, <1>6, DisconnectInv DEF StreamInv
<1>7. CASE UNCHANGED allVars
  BY <1>0, <1>7 DEF allVars, vars, streamVars, StreamInv, StreamTypeOK,
                   HandlersOk, SentIsPrefix, EndedIsWhole, FinalAnswerIsWhole
<1>8. QED
  BY <1>1, <1>2, <1>3, <1>4, <1>5, <1>6, <1>7 DEF StreamNext

\* The inductive invariant of streaming: what a client has read is a part of
\* what its task has written, and the last of it once it was told the end.
THEOREM StreamInvariant == StreamSpec => []StreamInv
BY InitStreamInv, NextStreamInv, PTL DEF StreamSpec

----------------------------------------------------------------------------
(* What follows                                                            *)

\* Handlers' locals and buffers keep their type, however long the output.
THEOREM StreamTypeCorrect == StreamSpec => []StreamTypeOK
<1>1. StreamInv => StreamTypeOK
  BY DEF StreamInv
<1>2. QED
  BY <1>1, StreamInvariant, PTL

\* A stream never loses, repeats or reorders a byte.
THEOREM StreamsSendPrefixes == StreamSpec => []SentIsPrefix
<1>1. StreamInv => SentIsPrefix
  BY DEF StreamInv
<1>2. QED
  BY <1>1, StreamInvariant, PTL

\* A stream the server closes was complete, and says truly whether the task
\* failed.
THEOREM StreamsEndWhole == StreamSpec => []EndedIsWhole
<1>1. StreamInv => EndedIsWhole
  BY DEF StreamInv
<1>2. QED
  BY <1>1, StreamInvariant, PTL

\* An answer that calls its task final holds all of its output.
THEOREM FinalAnswersAreWhole == StreamSpec => []FinalAnswerIsWhole
<1>1. StreamInv => FinalAnswerIsWhole
  BY DEF StreamInv
<1>2. QED
  BY <1>1, StreamInvariant, PTL
=============================================================================
