-------------------------- MODULE StatusCacheProofs --------------------------
(* Proofs about the status cache, for any number of sessions.               *)
EXTENDS StatusCache, TLAPS

Fetches == Sessions \X Kinds

SweepType == [pc: {"load", "list", "fetch", "save", "wait"},
              listed: SUBSET Sessions, todo: SUBSET Sessions]

----------------------------------------------------------------------------
(* Types                                                                   *)

\* The ledger stays within its bound, and a new cause is one.
LEMMA LedgerCounts ==
    ASSUME NEW n \in 0..Many
    PROVE  OneMore(n) \in 0..Many /\ OneMore(n) > 0 /\ OneLess(n) \in 0..Many
  BY ManyAssumption DEF OneMore, OneLess

\* No fetch is one, and so is what a fetch makes of its answer.
LEMMA FetchTypes ==
    ASSUME fetch \in [Fetches -> Fetch]
    PROVE  /\ NoFetch \in Fetch
           /\ \A f \in Fetches : Begin(f) \in [Fetches -> Fetch]
           /\ \A f \in Fetches, snap \in Snapshot \ {"unknown"} :
                 Ready(f, snap) \in [Fetches -> Fetch]
  BY DEF NoFetch, Fetch, Begin, Ready, Snapshot

\* The fetches of a sweep, after a step that changes those of one session.
LEMMA SweptAfter ==
    ASSUME NEW f \in Fetches,
           \A g \in Fetches \ {f} : fetch'[g].pc = "idle" <=> fetch[g].pc = "idle"
    PROVE  /\ f[2] # "sweep" => Swept' = Swept
           /\ fetch'[f].pc # "idle" => Swept' \subseteq Swept \cup {f[1]}
           /\ fetch[f].pc # "idle" => Swept' \subseteq Swept
           /\ fetch'[f].pc = "idle" => Swept' \subseteq Swept
PROOF
  <1>1. \A s \in Sessions : <<s, "sweep">> \in Fetches
    BY DEF Fetches, Kinds
  <1>2. \A s \in Sessions : <<s, "sweep">> = f => s = f[1] /\ f[2] = "sweep"
    OBVIOUS
  <1>3. f[2] = "sweep" => f = <<f[1], "sweep">> /\ f[1] \in Sessions
    BY DEF Fetches
  <1> QED
    BY <1>1, <1>2, <1>3 DEF Swept

\* TypeOK, with what a proof looks at first.
LEMMA Typed ==
    ASSUME TypeOK
    PROVE  /\ fetch \in [Fetches -> Fetch] /\ causes \in [Sessions -> 0..Many]
           /\ snaps \in [Sessions -> Snapshot] /\ saved \in [Sessions -> Snapshot]
           /\ sweep \in SweepType /\ insts \subseteq Sessions /\ aws \subseteq Sessions
           /\ client \in BOOLEAN
           /\ sweep.todo \subseteq sweep.listed
           /\ Swept # {} => sweep.pc = "fetch"
           /\ Swept \subseteq sweep.listed \ sweep.todo
  BY DEF TypeOK, Fetches, SweepType

\* The world changes under the program; nothing else does.
LEMMA WorldType ==
    ASSUME TypeOK, NEW s \in Sessions, Start(s) \/ Stop(s) \/ EditInsts(s)
    PROVE  TypeOK'
PROOF
  <1>1. UNCHANGED <<client, snaps, saved, sweep, fetch>> /\ Swept' = Swept
    BY DEF Start, Stop, EditInsts, Swept
  <1>2. aws' \subseteq Sessions /\ insts' \subseteq Sessions
    BY DEF TypeOK, Start, Stop, EditInsts
  <1>3. causes' \in [Sessions -> 0..Many]
    BY LedgerCounts DEF TypeOK, Start, Stop, EditInsts
  <1> QED
    BY <1>1, <1>2, <1>3 DEF TypeOK

\* A fetch goes through its places.
LEMMA FetchStepType ==
    ASSUME TypeOK, NEW f \in Fetches, FetchStep(f)
    PROVE  TypeOK'
PROOF
  <1>0. fetch \in [Fetches -> Fetch] /\ f[1] \in Sessions
    BY Typed DEF Fetches
  <1>1. CASE ReadVolume(f) \/ Describe(f)
    <2>1. fetch[f].pc # "idle"
      BY <1>1 DEF ReadVolume, Describe
    <2>2. \/ \E snap \in Snapshot \ {"unknown"} : fetch' = Ready(f, snap)
          \/ fetch' = [fetch EXCEPT ![f].pc = "describe"]
      <3> DEFINE answer == IF f[1] \in aws THEN "running" ELSE "down"
      <3>1. \/ fetch' = Ready(f, "error") \/ fetch' = Ready(f, "down")
            \/ fetch' = Ready(f, answer)
            \/ fetch' = [fetch EXCEPT ![f].pc = "describe"]
        BY <1>1 DEF ReadVolume, Describe
      <3>2. {"error", "down", answer} \subseteq Snapshot \ {"unknown"}
        BY DEF Snapshot
      <3> HIDE DEF answer
      <3> QED
        BY <3>1, <3>2
    <2>3. fetch' \in [Fetches -> Fetch]
      <3>1. [fetch[f] EXCEPT !.pc = "describe"] \in Fetch
        BY <1>0 DEF Fetch
      <3>2. [fetch EXCEPT ![f].pc = "describe"] \in [Fetches -> Fetch]
        BY <1>0, <3>1
      <3> QED
        BY <1>0, <2>2, <3>2, FetchTypes
    <2>4. \A g \in Fetches \ {f} : fetch'[g] = fetch[g]
      BY <1>0, <2>2 DEF Ready
    <2>5. Swept' \subseteq Swept
      BY <2>1, <2>4, SweptAfter
    <2>6. UNCHANGED <<aws, insts, client, snaps, saved, sweep, causes>>
      BY <1>1 DEF ReadVolume, Describe
    <2> QED
      BY <2>3, <2>5, <2>6 DEF TypeOK, Fetches
  <1>2. CASE Store(f)
    <2> DEFINE mark(g) == [fetch[g] EXCEPT !.overtaken = TRUE]
    <2>1. \A g \in Fetches : mark(g) \in Fetch /\ mark(g).pc = fetch[g].pc
      BY <1>0 DEF Fetch
    <2>2. fetch' = [g \in Fetches |->
                      IF g = f THEN NoFetch
                      ELSE IF g[1] = f[1] /\ fetch[g].pc # "idle" THEN mark(g)
                           ELSE fetch[g]]
      BY <1>2 DEF Store, Fetches
    <2> HIDE DEF mark
    <2>3. fetch' \in [Fetches -> Fetch]
      BY <1>0, <2>1, <2>2, FetchTypes
    <2>4. \A g \in Fetches \ {f} : fetch'[g].pc = fetch[g].pc
      BY <2>1, <2>2
    <2>5. fetch[f].pc # "idle"
      BY <1>2 DEF Store
    <2>6. Swept' \subseteq Swept
      BY <2>4, <2>5, SweptAfter
    <2>7. causes' \in [Sessions -> 0..Many]
      <3> DEFINE given == IF fetch[f].snap = "error" \/ Overtakes(f)
                          THEN OneMore(causes[f[1]]) ELSE causes[f[1]]
                 left == IF fetch[f].snap = "running" /\ snaps[f[1]] # "running"
                         THEN OneLess(given) ELSE given
      <3>1. given \in 0..Many
        BY <1>0, Typed, LedgerCounts
      <3> HIDE DEF given
      <3>2. left \in 0..Many
        BY <3>1, LedgerCounts
      <3> HIDE DEF left
      <3>3. causes' = [causes EXCEPT ![f[1]] = left]
        BY <1>2 DEF Store, Ledger, left, given
      <3> QED
        BY <3>2, <3>3, Typed
    <2>8. snaps' \in [Sessions -> Snapshot]
      BY <1>0, <1>2, Typed DEF Store, Fetch
    <2>9. UNCHANGED <<aws, insts, client, saved, sweep>>
      BY <1>2 DEF Store
    <2> QED
      BY <2>3, <2>6, <2>7, <2>8, <2>9 DEF TypeOK, Fetches
  <1> QED
    BY <1>1, <1>2 DEF FetchStep

\* A fetch begins, for the sweep or after a task.
LEMMA BeginType ==
    ASSUME TypeOK, NEW s \in Sessions, BeginListed(s) \/ Refresh(s)
    PROVE  TypeOK'
PROOF
  <1>1. ASSUME NEW f \in Fetches, fetch' = Begin(f)
        PROVE  /\ fetch' \in [Fetches -> Fetch]
               /\ \A g \in Fetches \ {f} : fetch'[g] = fetch[g]
               /\ fetch'[f].pc = "volume"
    BY <1>1, FetchTypes, Typed DEF Begin, NoFetch
  <1>2. CASE BeginListed(s)
    <2>1. <<s, "sweep">> \in Fetches /\ fetch' = Begin(<<s, "sweep">>)
      BY <1>2 DEF BeginListed, Fetches, Kinds
    <2>2. Swept' \subseteq Swept \cup {s}
      BY <1>1, <2>1, SweptAfter
    <2>3. /\ sweep' \in SweepType /\ sweep'.pc = "fetch"
          /\ sweep'.listed = sweep.listed /\ sweep'.todo = sweep.todo \ {s}
          /\ s \in sweep.todo
      BY <1>2, Typed DEF BeginListed, SweepType
    <2>4. Swept' \subseteq sweep'.listed \ sweep'.todo
      BY <2>2, <2>3, Typed
    <2>5. UNCHANGED <<aws, insts, client, snaps, saved, causes>>
      BY <1>2 DEF BeginListed
    <2> QED
      BY <1>1, <2>1, <2>3, <2>4, <2>5, Typed DEF TypeOK, Fetches, SweepType
  <1>3. CASE Refresh(s)
    <2>1. <<s, "refresh">> \in Fetches
      BY DEF Fetches, Kinds
    <2>2. client' \in BOOLEAN /\ UNCHANGED <<aws, insts, snaps, saved, sweep, causes>>
      BY <1>3 DEF Refresh, Client
    <2>3. fetch' \in [Fetches -> Fetch] /\ Swept' = Swept
      <3>1. CASE fetch' = fetch
        BY <3>1, Typed DEF Swept
      <3>2. CASE fetch' = Begin(<<s, "refresh">>)
        BY <1>1, <2>1, <3>2, SweptAfter
      <3> QED
        BY <1>3, <3>1, <3>2 DEF Refresh
    <2> QED
      BY <2>2, <2>3, Typed DEF TypeOK, Fetches
  <1> QED
    BY <1>2, <1>3

\* The sweep goes round.
LEMMA SweepStepType ==
    ASSUME TypeOK, LoadState \/ List \/ Drop \/ SaveState \/ Tick
    PROVE  TypeOK'
PROOF
  <1>1. CASE LoadState
    <2> DEFINE mark(f) == [fetch[f] EXCEPT !.overtaken = TRUE]
    <2>1. \A f \in Fetches : mark(f) \in Fetch /\ mark(f).pc = fetch[f].pc
      BY Typed DEF Fetch
    <2>2. /\ DOMAIN fetch' = Fetches
          /\ fetch' = [f \in Fetches |-> fetch'[f]]
          /\ \A f \in Fetches : fetch'[f] = mark(f) \/ fetch'[f] = fetch[f]
      BY <1>1 DEF LoadState, Fetches
    <2> HIDE DEF mark
    <2>3. fetch' \in [Fetches -> Fetch] /\ \A f \in Fetches : fetch'[f].pc = fetch[f].pc
      BY <2>1, <2>2, Typed
    <2>4. \A s \in Sessions : <<s, "sweep">> \in Fetches
      BY DEF Fetches, Kinds
    <2>5. Swept' = Swept
      BY <2>3, <2>4 DEF Swept
    <2>6. snaps' \in [Sessions -> Snapshot]
      BY <1>1, Typed DEF LoadState
    <2>7. causes' \in [Sessions -> 0..Many]
      BY <1>1, Typed, LedgerCounts DEF LoadState
    <2>8. sweep.pc = "load" /\ sweep' = [sweep EXCEPT !.pc = "list"]
          /\ UNCHANGED <<aws, insts, client, saved>>
      BY <1>1 DEF LoadState
    <2> QED
      BY <2>3, <2>5, <2>6, <2>7, <2>8, Typed DEF TypeOK, Fetches, SweepType
  <1>2. CASE ~LoadState
    <2>1. Swept' = Swept /\ UNCHANGED <<aws, insts, fetch>>
      BY <1>2 DEF List, Drop, SaveState, Tick, Swept
    <2>2. snaps' \in [Sessions -> Snapshot] /\ saved' \in [Sessions -> Snapshot]
      BY <1>2, Typed DEF List, Drop, SaveState, Tick, Snapshot
    <2>3. causes' \in [Sessions -> 0..Many]
      BY <1>2, Typed, LedgerCounts DEF List, Drop, SaveState, Tick
    <2>4. client' \in BOOLEAN
      BY <1>2, Typed DEF List, Drop, SaveState, Tick, Client
    <2>5. Swept = {}
      BY <1>2, Typed DEF List, Drop, SaveState, Tick, AllFetched
    <2>6. sweep' \in SweepType /\ sweep'.todo \subseteq sweep'.listed
      BY <1>2, Typed DEF List, Drop, SaveState, Tick, SweepType
    <2> QED
      BY <2>1, <2>2, <2>3, <2>4, <2>5, <2>6 DEF TypeOK, Fetches, SweepType
  <1> QED
    BY <1>1, <1>2

\* The end of the process keeps the types.
LEMMA RestartType == ASSUME TypeOK, Restart PROVE TypeOK'
PROOF
  <1>1. fetch' = [f \in Fetches |-> NoFetch] /\ NoFetch \in Fetch
    BY DEF Restart, Fetches, NoFetch, Fetch, Snapshot
  <1>2. Swept' = {}
    BY <1>1 DEF Swept, Fetches, Kinds, NoFetch
  <1>3. causes' \in [Sessions -> 0..Many]
    BY Typed, LedgerCounts DEF Restart
  <1> QED
    BY <1>1, <1>2, <1>3, Typed DEF Restart, TypeOK, Fresh, Snapshot, Fetches

\* The types hold, and a sweep has fetches under way only of what it has listed
\* and while it waits for them, for any number of sessions and any fanout.
THEOREM TypeCorrect == Spec => []TypeOK
PROOF
  <1>1. Init => TypeOK
    <2> SUFFICES ASSUME Init PROVE TypeOK
      OBVIOUS
    <2>1. Swept = {}
      BY DEF Init, Swept, Kinds, NoFetch
    <2>2. fetch \in [Sessions \X Kinds -> Fetch]
      BY DEF Init, NoFetch, Fetch, Snapshot
    <2>3. causes \in [Sessions -> 0..Many]
      BY ManyAssumption DEF Init
    <2>4. snaps \in [Sessions -> Snapshot] /\ saved \in [Sessions -> Snapshot]
      BY DEF Init, Snapshot
    <2> QED
      BY <2>1, <2>2, <2>3, <2>4 DEF Init, TypeOK, Fresh
  <1>2. TypeOK /\ [Next]_vars => TypeOK'
    <2> SUFFICES ASSUME TypeOK, [Next]_vars PROVE TypeOK'
      OBVIOUS
    <2>1. CASE UNCHANGED vars
      BY <2>1 DEF TypeOK, Swept, vars
    <2>2. CASE Next
      BY <2>2, WorldType, BeginType, FetchStepType, SweepStepType, RestartType
         DEF Next, SweepStep, Fetches
    <2> QED
      BY <2>1, <2>2
  <1> QED
    BY <1>1, <1>2, PTL DEF Spec

----------------------------------------------------------------------------
(* Causes                                                                  *)

\* A fetch that will turn the snapshot to running, or make a running instance
\* look stopped, without being overtaken or failing.
Pending(f) ==
    /\ fetch[f].pc = "store" /\ ~fetch[f].overtaken
    /\ \/ fetch[f].snap = "running" /\ snaps[f[1]] # "running"
       \/ fetch[f].snap \notin {"running", "error"} /\ f[1] \in aws

\* A turn to running that can come has its cause in the ledger already.
CausesLeft ==
    /\ \A s \in Sessions : s \in aws /\ snaps[s] # "running" => causes[s] > 0
    /\ \A f \in Fetches : Pending(f) => causes[f[1]] > 0

\* A start is a cause, and nothing else in the world asks for one.
LEMMA WorldCauses ==
    ASSUME TypeOK, CausesLeft, NEW s \in Sessions,
           Start(s) \/ Stop(s) \/ EditInsts(s)
    PROVE  CausesLeft'
PROOF
  <1>1. UNCHANGED <<snaps, fetch>>
    BY DEF Start, Stop, EditInsts
  <1>2. \A f \in Fetches : f[1] \in Sessions
    BY DEF Fetches
  <1>3. CASE Start(s)
    <2>1. aws' = aws \cup {s} /\ causes' = [causes EXCEPT ![s] = OneMore(@)]
      BY <1>3 DEF Start
    <2>2. causes'[s] > 0 /\ \A t \in Sessions \ {s} : causes'[t] = causes[t]
      BY <2>1, Typed, LedgerCounts
    <2> QED
      BY <1>1, <1>2, <2>1, <2>2 DEF CausesLeft, Pending
  <1>4. CASE Stop(s) \/ EditInsts(s)
    <2>1. aws' \subseteq aws /\ causes' = causes
      BY <1>4 DEF Stop, EditInsts
    <2> QED
      BY <1>1, <2>1 DEF CausesLeft, Pending
  <1> QED
    BY <1>3, <1>4

\* A fetch that begins has no answer yet.
LEMMA BeginCauses ==
    ASSUME TypeOK, CausesLeft, NEW s \in Sessions, BeginListed(s) \/ Refresh(s)
    PROVE  CausesLeft'
PROOF
  <1>1. UNCHANGED <<aws, snaps, causes>>
    BY DEF BeginListed, Refresh
  <1>2. fetch' = fetch \/ \E g \in Fetches : fetch' = Begin(g)
    BY DEF BeginListed, Refresh, Fetches, Kinds
  <1>3. \A f \in Fetches : fetch'[f] = fetch[f] \/ fetch'[f].pc = "volume"
    BY <1>2, Typed DEF Begin, NoFetch
  <1> QED
    BY <1>1, <1>3 DEF CausesLeft, Pending

\* What a fetch reads is so when it reads it.
LEMMA ReadCauses ==
    ASSUME TypeOK, CausesLeft, NEW f \in Fetches, ReadVolume(f) \/ Describe(f)
    PROVE  CausesLeft'
PROOF
  <1>1. UNCHANGED <<aws, snaps, causes>>
    BY DEF ReadVolume, Describe
  <1>2. fetch \in [Fetches -> Fetch] /\ f[1] \in Sessions
    BY Typed DEF Fetches
  <1>3. \A g \in Fetches \ {f} : fetch'[g] = fetch[g]
    BY <1>2 DEF ReadVolume, Describe, Ready
  <1>4. fetch'[f].pc = "store" =>
           \/ fetch'[f].snap = "error"
           \/ fetch'[f].snap = "down" /\ f[1] \notin aws
           \/ fetch'[f].snap = "running" /\ f[1] \in aws
    <2> DEFINE answer == IF f[1] \in aws THEN "running" ELSE "down"
    <2>1. \/ fetch' = Ready(f, "error")
          \/ fetch' = Ready(f, "down") /\ f[1] \notin aws
          \/ fetch' = Ready(f, answer)
          \/ fetch' = [fetch EXCEPT ![f].pc = "describe"]
      BY DEF ReadVolume, Describe
    <2>2. \A snap : fetch' = Ready(f, snap) => fetch'[f].snap = snap
      BY <1>2 DEF Ready, Fetch
    <2>3. fetch' = [fetch EXCEPT ![f].pc = "describe"] => fetch'[f].pc = "describe"
      BY <1>2 DEF Fetch
    <2> QED
      BY <2>1, <2>2, <2>3
  <1>5. \A g \in Fetches \ {f} : Pending(g)' <=> Pending(g)
    BY <1>1, <1>3 DEF Pending
  <1>6. Pending(f)' => causes[f[1]] > 0
    BY <1>1, <1>2, <1>4 DEF Pending, CausesLeft
  <1> QED
    BY <1>1, <1>5, <1>6 DEF CausesLeft

\* What a Store leaves of the causes.
LEMMA LedgerLeft ==
    ASSUME TypeOK, NEW f \in Fetches, Store(f)
    PROVE  /\ \A s \in Sessions \ {f[1]} : causes'[s] = causes[s]
           /\ causes'[f[1]] \in Nat
           /\ fetch[f].snap # "running" => causes'[f[1]] >= causes[f[1]]
           /\ fetch[f].snap # "running" /\ (fetch[f].snap = "error" \/ fetch[f].overtaken)
                => causes'[f[1]] > 0
PROOF
  <1> DEFINE given == IF fetch[f].snap = "error" \/ Overtakes(f)
                      THEN OneMore(causes[f[1]]) ELSE causes[f[1]]
             left == IF fetch[f].snap = "running" /\ snaps[f[1]] # "running"
                     THEN OneLess(given) ELSE given
  <1>1. f[1] \in Sessions /\ causes[f[1]] \in 0..Many
    BY Typed DEF Fetches
  <1>2. given >= causes[f[1]]
    BY <1>1, ManyAssumption DEF OneMore
  <1>3. fetch[f].snap = "error" \/ fetch[f].overtaken => given > 0
    BY <1>1, LedgerCounts DEF Store, Overtakes
  <1>6. given \in 0..Many
    BY <1>1, LedgerCounts
  <1> HIDE DEF given
  <1>4. /\ fetch[f].snap # "running" => left = given
        /\ left \in Nat
    BY <1>6, LedgerCounts, ManyAssumption
  <1> HIDE DEF left
  <1>5. causes' = [causes EXCEPT ![f[1]] = left]
    BY DEF Store, Ledger, left, given
  <1> QED
    BY <1>1, <1>2, <1>3, <1>4, <1>5, Typed

\* A store uses its own cause up, and overtakes the other fetches.
LEMMA StoreCauses ==
    ASSUME TypeOK, CausesLeft, NEW f \in Fetches, Store(f)
    PROVE  CausesLeft'
PROOF
  <1> DEFINE mark(g) == [fetch[g] EXCEPT !.overtaken = TRUE]
  <1>0. /\ fetch \in [Fetches -> Fetch] /\ f[1] \in Sessions
        /\ \A g \in Fetches : g[1] \in Sessions
        /\ snaps \in [Sessions -> Snapshot]
    BY Typed DEF Fetches
  <1>1. aws' = aws /\ fetch[f].pc = "store"
        /\ snaps' = [snaps EXCEPT ![f[1]] = fetch[f].snap]
    BY DEF Store
  <1>2. \A g \in Fetches : mark(g).overtaken
    BY <1>0 DEF Fetch
  <1>3. fetch' = [g \in Fetches |->
                    IF g = f THEN NoFetch
                    ELSE IF g[1] = f[1] /\ fetch[g].pc # "idle" THEN mark(g)
                         ELSE fetch[g]]
    BY DEF Store, Fetches
  <1> HIDE DEF mark
  <1>4. \A g \in Fetches : g[1] = f[1] =>
           fetch'[g].pc = "idle" \/ fetch'[g].overtaken
    BY <1>2, <1>3 DEF NoFetch
  <1>5. \A g \in Fetches : g[1] # f[1] => fetch'[g] = fetch[g]
    BY <1>3
  <1>6. f[1] \in aws /\ snaps'[f[1]] # "running" => causes'[f[1]] > 0
    <2> SUFFICES ASSUME f[1] \in aws, fetch[f].snap # "running"
                 PROVE  causes'[f[1]] > 0
      BY <1>0, <1>1
    <2>1. CASE fetch[f].snap = "error" \/ fetch[f].overtaken
      BY <2>1, LedgerLeft
    <2>2. CASE ~(fetch[f].snap = "error" \/ fetch[f].overtaken)
      <3>1. fetch[f].overtaken \in BOOLEAN
        BY <1>0 DEF Fetch
      <3>2. Pending(f)
        BY <1>1, <2>2, <3>1 DEF Pending
      <3>3. causes[f[1]] > 0
        BY <3>2 DEF CausesLeft
      <3>4. causes[f[1]] \in Nat /\ causes'[f[1]] \in Nat
        BY <1>0, Typed, LedgerLeft, ManyAssumption
      <3> QED
        BY <3>3, <3>4, LedgerLeft
    <2> QED
      BY <2>1, <2>2
  <1>7. \A s \in Sessions \ {f[1]} : snaps'[s] = snaps[s] /\ causes'[s] = causes[s]
    BY <1>0, <1>1, LedgerLeft
  <1>8. \A g \in Fetches : Pending(g)' => g[1] # f[1] /\ Pending(g)
    BY <1>0, <1>1, <1>4, <1>5, <1>7 DEF Pending
  <1> QED
    BY <1>0, <1>1, <1>6, <1>7, <1>8 DEF CausesLeft

\* The old snapshots and the drop of one that is no longer listed are causes.
LEMMA SweepCauses ==
    ASSUME TypeOK, CausesLeft, LoadState \/ List \/ Drop \/ SaveState \/ Tick
    PROVE  CausesLeft'
PROOF
  <1>0. \A f \in Fetches : f[1] \in Sessions
    BY DEF Fetches
  <1>1. CASE LoadState
    <2> DEFINE loaded == {s \in Sessions : saved[s] # "unknown"}
               mark(f) == [fetch[f] EXCEPT !.overtaken = TRUE]
    <2>1. \A f \in Fetches : mark(f).overtaken
      BY Typed DEF Fetch
    <2>2. fetch' = [f \in Fetches |->
                      IF f[1] \in loaded /\ fetch[f].pc # "idle"
                      THEN mark(f) ELSE fetch[f]]
      BY <1>1 DEF LoadState, Fetches
    <2>3. \A s \in Sessions : /\ s \in loaded => causes'[s] > 0
                              /\ s \notin loaded => causes'[s] = causes[s]
                                                    /\ snaps'[s] = snaps[s]
      BY <1>1, Typed, LedgerCounts DEF LoadState
    <2>4. aws' = aws
      BY <1>1 DEF LoadState
    <2> HIDE DEF mark, loaded
    <2>5. \A f \in Fetches : f[1] \notin loaded => fetch'[f] = fetch[f]
      BY <2>2
    <2>6. \A f \in Fetches : f[1] \notin loaded => (Pending(f)' <=> Pending(f))
      BY <1>0, <2>3, <2>4, <2>5 DEF Pending
    <2> QED
      BY <1>0, <2>3, <2>4, <2>6 DEF CausesLeft
  <1>2. CASE Drop
    <2>1. \A s \in Sessions : \/ snaps'[s] = snaps[s] /\ causes'[s] = causes[s]
                              \/ causes'[s] > 0
      BY <1>2, Typed, LedgerCounts DEF Drop
    <2>2. UNCHANGED <<aws, fetch>>
      BY <1>2 DEF Drop
    <2> QED
      BY <1>0, <2>1, <2>2 DEF CausesLeft, Pending
  <1>3. CASE List \/ SaveState \/ Tick
    <2>1. UNCHANGED <<aws, fetch, snaps, causes>>
      BY <1>3 DEF List, SaveState, Tick
    <2> QED
      BY <2>1 DEF CausesLeft, Pending
  <1> QED
    BY <1>1, <1>2, <1>3

\* A restart is a cause for every session.
LEMMA RestartCauses == ASSUME TypeOK, Restart PROVE CausesLeft'
PROOF
  <1>1. \A s \in Sessions : causes'[s] > 0
    BY Typed, LedgerCounts DEF Restart
  <1> QED
    BY <1>1 DEF CausesLeft, Fetches

\* A store that is not of an older answer has its cause in the ledger.
LEMMA StoreTurns ==
    ASSUME TypeOK, CausesLeft, NEW f \in Fetches, Store(f),
           snaps[f[1]] # "running", snaps'[f[1]] = "running", ~Overtakes(f)
    PROVE  causes[f[1]] > 0
PROOF
  <1>1. f[1] \in Sessions /\ snaps \in [Sessions -> Snapshot]
    BY Typed DEF Fetches
  <1>2. fetch[f].pc = "store" /\ fetch[f].snap = "running" /\ ~fetch[f].overtaken
    BY <1>1 DEF Store, Overtakes
  <1>3. Pending(f)
    BY <1>2 DEF Pending
  <1> QED
    BY <1>3 DEF CausesLeft

\* A snapshot turns to running only for a cause, each for one turn, for any
\* number of sessions and fetches that overlap.
THEOREM TurnsForCauses == Spec => TurnsHaveCauses
PROOF
  <1>1. Init => CausesLeft
    BY DEF Init, CausesLeft, Fetches
  <1>2. TypeOK /\ CausesLeft /\ [Next]_vars => CausesLeft'
    <2> SUFFICES ASSUME TypeOK, CausesLeft, [Next]_vars PROVE CausesLeft'
      OBVIOUS
    <2>1. CASE UNCHANGED vars
      BY <2>1 DEF CausesLeft, Pending, vars
    <2>2. CASE Next
      BY <2>2, WorldCauses, BeginCauses, ReadCauses, StoreCauses, SweepCauses,
         RestartCauses
         DEF Next, SweepStep, FetchStep, Fetches
    <2> QED
      BY <2>1, <2>2
  <1>3. ASSUME TypeOK, CausesLeft, Next, NEW s \in Sessions,
               snaps[s] # "running", snaps'[s] = "running"
        PROVE  \/ causes[s] > 0
               \/ LoadState
               \/ \E k \in Kinds : Overtakes(<<s, k>>) /\ Store(<<s, k>>)
    <2>1. CASE \E f \in Fetches : Store(f)
      <3>1. PICK f \in Fetches : Store(f)
        BY <2>1
      <3>2. s = f[1] /\ f[2] \in Kinds /\ f = <<s, f[2]>>
        BY <1>3, <3>1, Typed DEF Store, Fetches
      <3> QED
        BY <1>3, <3>1, <3>2, StoreTurns
    <2>2. CASE LoadState
      BY <2>2
    <2>3. CASE Drop \/ Restart
      BY <1>3, <2>3, Typed DEF Drop, Restart
    <2>4. CASE ~(Drop \/ Restart \/ LoadState \/ \E f \in Fetches : Store(f))
      <3>1. UNCHANGED snaps
        BY <1>3, <2>4
           DEF Next, Start, Stop, EditInsts, Refresh, FetchStep, ReadVolume,
               Describe, SweepStep, List, BeginListed, SaveState, Tick, Fetches
      <3> QED
        BY <1>3, <3>1
    <2> QED
      BY <2>1, <2>2, <2>3, <2>4
  <1>4. TypeOK /\ CausesLeft /\ [Next]_vars =>
           [\A s \in Sessions :
              snaps[s] # "running" /\ snaps'[s] = "running" =>
                  \/ causes[s] > 0
                  \/ LoadState
                  \/ \E k \in Kinds : Overtakes(<<s, k>>) /\ Store(<<s, k>>)]_vars
    BY <1>3
  <1> QED
    BY <1>1, <1>2, <1>4, TypeCorrect, PTL DEF Spec, TurnsHaveCauses
=============================================================================
