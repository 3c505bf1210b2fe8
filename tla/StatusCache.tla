---------------------------- MODULE StatusCache ----------------------------
(***************************************************************************)
(* The status cache (src/src/ec2/cache.go, snapshot.go): the snapshots a   *)
(* background sweep of every session and the refresh after each task       *)
(* (src/src/server/handlers.go:754, :777, :802) store for the UI and the   *)
(* cost meter, mirrored to a file.                                         *)
(*                                                                         *)
(* AWS is reduced to whether the session's instance runs with its volume   *)
(* attached.  Each read of AWS is a step; so is each hold of the mutex.    *)
(* A failed lookup of the interface, which leaves the rest of a snapshot   *)
(* as it is, is not told apart.  History: whether another store of its     *)
(* session has overtaken a fetch, and a ledger of what may make a snapshot *)
(* turn to running.                                                        *)
(***************************************************************************)
EXTENDS Naturals, FiniteSets

CONSTANTS Sessions,  \* session ids
          Fanout,    \* fetches a sweep makes at a time
          Many       \* a bound: the ledger counts up to there

ASSUME FanoutAssumption == Fanout \in Nat \ {0}
ASSUME ManyAssumption == Many \in Nat \ {0}

VARIABLES aws,      \* sessions whose instance runs
          insts,    \* sessions in instances.json
          client,   \* the AWS client has been built
          snaps,    \* snapshots: per session, Unknown or a Snapshot
          saved,    \* the state file
          sweep,    \* Cache.Run: where it is, what is listed and to be fetched
          fetch,    \* per session and kind, the fetch under way
          causes    \* history: causes to turn to running, not used up yet

vars == <<aws, insts, client, snaps, saved, sweep, fetch, causes>>

----------------------------------------------------------------------------
Kinds == {"sweep", "refresh"}

\* A Snapshot's Instance is running, or it is none or not running, or FetchErr
\* is set and it is nil; "unknown" is no snapshot.
Snapshot == {"running", "down", "error", "unknown"}

Fetch == [pc: {"idle", "volume", "describe", "store"},
          snap: Snapshot, overtaken: BOOLEAN]
NoFetch == [pc |-> "idle", snap |-> "unknown", overtaken |-> FALSE]

\* The sessions the sweep is fetching.
Swept == {s \in Sessions : fetch[<<s, "sweep">>].pc # "idle"}

TypeOK ==
    /\ aws \subseteq Sessions
    /\ insts \subseteq Sessions
    /\ client \in BOOLEAN
    /\ snaps \in [Sessions -> Snapshot]
    /\ saved \in [Sessions -> Snapshot]
    /\ sweep \in [pc: {"load", "list", "fetch", "save", "wait"},
                  listed: SUBSET Sessions, todo: SUBSET Sessions]
    /\ sweep.todo \subseteq sweep.listed
    /\ fetch \in [Sessions \X Kinds -> Fetch]
    /\ causes \in [Sessions -> 0..Many]
    /\ Swept # {} => sweep.pc = "fetch"
    /\ Swept \subseteq sweep.listed \ sweep.todo

Fresh == [pc |-> "load", listed |-> {}, todo |-> {}]

\* The state file is one an earlier run has left, about whatever was so then.
Init ==
    /\ aws \in SUBSET Sessions
    /\ insts \in SUBSET Sessions
    /\ client = FALSE
    /\ snaps = [s \in Sessions |-> "unknown"]
    /\ saved \in [Sessions -> Snapshot]
    /\ sweep = Fresh
    /\ fetch = [f \in Sessions \X Kinds |-> NoFetch]
    /\ causes = [s \in Sessions |-> 1]

----------------------------------------------------------------------------
(* The world                                                               *)

\* Many is no more counted down.
OneMore(n) == IF n = Many THEN Many ELSE n + 1
OneLess(n) == IF n \in {0, Many} THEN n ELSE n - 1

Start(s) == /\ s \notin aws
            /\ aws' = aws \cup {s}
            /\ causes' = [causes EXCEPT ![s] = OneMore(@)]
            /\ UNCHANGED <<insts, client, snaps, saved, sweep, fetch>>

Stop(s) == /\ s \in aws
           /\ aws' = aws \ {s}
           /\ UNCHANGED <<insts, client, snaps, saved, sweep, fetch, causes>>

\* An entry is added through the UI, or taken out by hand.
EditInsts(s) ==
    /\ insts' = IF s \in insts THEN insts \ {s} ELSE insts \cup {s}
    /\ UNCHANGED <<aws, client, snaps, saved, sweep, fetch, causes>>

----------------------------------------------------------------------------
(* refreshOne: Fetch, then set                                             *)

\* getClient: built on first use; a failure leaves it for the next call.
Client(ok) == /\ client => ok
              /\ client' = ok

Begin(f) == [fetch EXCEPT ![f] = [NoFetch EXCEPT !.pc = "volume"]]

\* Of a sweep, as soon as one of the fanout's slots is free.
BeginListed(s) ==
    /\ sweep.pc = "fetch"
    /\ s \in sweep.todo
    /\ Cardinality(Swept) < Fanout
    /\ sweep' = [sweep EXCEPT !.todo = @ \ {s}]
    /\ fetch' = Begin(<<s, "sweep">>)
    /\ UNCHANGED <<aws, insts, client, snaps, saved, causes>>

\* Refresh, at the end of a task; the task holds its session, so it is alone.
\* A session that is not listed, and a client that cannot be built, leave the
\* cache as it is.
Refresh(s) ==
    /\ fetch[<<s, "refresh">>].pc = "idle"
    /\ s \in insts
    /\ \E ok \in BOOLEAN :
          /\ Client(ok)
          /\ fetch' = IF ok THEN Begin(<<s, "refresh">>) ELSE fetch
    /\ UNCHANGED <<aws, insts, snaps, saved, sweep, causes>>

\* A variant that tells a failure as an instance that is not there.
ReadyDown(f, snap) ==
    [fetch EXCEPT ![f].pc = "store",
                  ![f].snap = IF snap = "error" THEN "down" ELSE snap]

Ready(f, snap) == [fetch EXCEPT ![f].pc = "store", ![f].snap = snap]

\* The lookups of subnet and volume.
ReadVolume(f) ==
    /\ fetch[f].pc = "volume"
    /\ \/ fetch' = Ready(f, "error")
       \/ fetch' = IF f[1] \in aws THEN [fetch EXCEPT ![f].pc = "describe"]
                                   ELSE Ready(f, "down")
    /\ UNCHANGED <<aws, insts, client, snaps, saved, sweep, causes>>

Describe(f) ==
    /\ fetch[f].pc = "describe"
    /\ \/ fetch' = Ready(f, "error")
       \/ fetch' = Ready(f, IF f[1] \in aws THEN "running" ELSE "down")
    /\ UNCHANGED <<aws, insts, client, snaps, saved, sweep, causes>>

\* An older answer is stored over one that was stored since it was asked for.
Overtakes(f) == fetch[f].pc = "store" /\ fetch[f].overtaken

\* What a Store leaves of the causes: an error and an older answer are causes,
\* and a turn to running uses one up.
Ledger(f) ==
    LET s == f[1]
        given == IF fetch[f].snap = "error" \/ Overtakes(f)
                 THEN OneMore(causes[s]) ELSE causes[s]
    IN  [causes EXCEPT ![s] =
           IF fetch[f].snap = "running" /\ snaps[s] # "running"
           THEN OneLess(given) ELSE given]

Store(f) ==
    LET s == f[1]
    IN  /\ fetch[f].pc = "store"
        /\ snaps' = [snaps EXCEPT ![s] = fetch[f].snap]
        /\ fetch' = [g \in Sessions \X Kinds |->
                       IF g = f THEN NoFetch
                       ELSE IF g[1] = s /\ fetch[g].pc # "idle"
                            THEN [fetch[g] EXCEPT !.overtaken = TRUE]
                            ELSE fetch[g]]
        /\ causes' = Ledger(f)
        /\ UNCHANGED <<aws, insts, client, saved, sweep>>

----------------------------------------------------------------------------
(* Cache.Run                                                               *)

\* A task may have been there first: what it has stored is overtaken.
LoadState ==
    LET loaded == {s \in Sessions : saved[s] # "unknown"}
    IN  /\ sweep.pc = "load"
        /\ snaps' = [s \in Sessions |-> IF s \in loaded THEN saved[s]
                                                        ELSE snaps[s]]
        /\ fetch' = [f \in Sessions \X Kinds |->
                       IF f[1] \in loaded /\ fetch[f].pc # "idle"
                       THEN [fetch[f] EXCEPT !.overtaken = TRUE] ELSE fetch[f]]
        /\ causes' = [s \in Sessions |-> IF s \in loaded THEN OneMore(causes[s])
                                                         ELSE causes[s]]
        /\ sweep' = [sweep EXCEPT !.pc = "list"]
        /\ UNCHANGED <<aws, insts, client, saved>>

\* refreshAll ends here when instances.json cannot be read, or the client not
\* be built.
List ==
    /\ sweep.pc = "list"
    /\ \E readable, ok \in BOOLEAN :
          /\ IF readable THEN Client(ok) ELSE UNCHANGED client
          /\ sweep' = IF readable /\ ok
                      THEN [pc |-> "fetch", listed |-> insts, todo |-> insts]
                      ELSE [sweep EXCEPT !.pc = "save"]
    /\ UNCHANGED <<aws, insts, snaps, saved, fetch, causes>>

\* The snapshots a finished sweep keeps, and a variant that keeps them all.
KeepsAll(listed) == Sessions
Keeps(listed) == listed

\* wg.Wait, and a variant that lets the fetches go on.
NotWaited == TRUE
AllFetched == sweep.todo = {} /\ Swept = {}

Drop ==
    /\ sweep.pc = "fetch"
    /\ AllFetched
    /\ snaps' = [s \in Sessions |->
                   IF s \in Keeps(sweep.listed) THEN snaps[s] ELSE "unknown"]
    /\ causes' = [s \in Sessions |->
                    IF s \in Keeps(sweep.listed) \/ snaps[s] = "unknown"
                    THEN causes[s] ELSE OneMore(causes[s])]
    /\ sweep' = [pc |-> "save", listed |-> {}, todo |-> {}]
    /\ UNCHANGED <<aws, insts, client, saved, fetch>>

\* saveState, and the wait for the ticker; a failed write is only logged.
SaveState ==
    /\ sweep.pc = "save"
    /\ saved' \in {saved, snaps}
    /\ sweep' = [sweep EXCEPT !.pc = "wait"]
    /\ UNCHANGED <<aws, insts, client, snaps, fetch, causes>>

Tick ==
    /\ sweep.pc = "wait"
    /\ sweep' = [sweep EXCEPT !.pc = "list"]
    /\ UNCHANGED <<aws, insts, client, snaps, saved, fetch, causes>>

\* The process ends, between any two steps, and is started again.
Restart ==
    /\ client' = FALSE
    /\ snaps' = [s \in Sessions |-> "unknown"]
    /\ sweep' = Fresh
    /\ fetch' = [f \in Sessions \X Kinds |-> NoFetch]
    /\ causes' = [s \in Sessions |-> OneMore(causes[s])]
    /\ UNCHANGED <<aws, insts, saved>>

----------------------------------------------------------------------------
FetchStep(f) == ReadVolume(f) \/ Describe(f) \/ Store(f)

SweepStep == LoadState \/ List \/ (\E s \in Sessions : BeginListed(s))
               \/ Drop \/ SaveState \/ Tick

Next == \/ \E s \in Sessions : Start(s) \/ Stop(s) \/ EditInsts(s) \/ Refresh(s)
        \/ \E f \in Sessions \X Kinds : FetchStep(f)
        \/ SweepStep
        \/ Restart

\* The goroutines run on, and their calls of AWS return.
Fairness == /\ \A f \in Sessions \X Kinds : WF_vars(FetchStep(f))
            /\ WF_vars(SweepStep)

Spec == Init /\ [][Next]_vars /\ Fairness

----------------------------------------------------------------------------
(* Properties                                                              *)

\* A snapshot turns to running for a start of the instance, or after something
\* that made a running instance look stopped, or a stopped one running, for a
\* while: a restart of the process, a fetch that failed, an older answer stored
\* over a newer one, a snapshot dropped by a sweep whose list was older; and
\* each of these accounts for one turn (cache.go:110-202).
TurnsHaveCauses ==
    [][\A s \in Sessions :
         snaps[s] # "running" /\ snaps'[s] = "running" =>
             \/ causes[s] > 0
             \/ LoadState
             \/ \E k \in Kinds : Overtakes(<<s, k>>) /\ Store(<<s, k>>)]_vars

\* The file is readable and the client can be built, again and again.
Sweeps == <>[]client /\ []<>(sweep.pc = "fetch")

\* When the world stays as it is, the cache comes to show it and stays so,
\* whatever fetches overlap: a session that is listed has a snapshot that is
\* right or tells an error, one that is not has none (cache.go:91-202).
CacheConverges ==
    Sweeps => \A s \in Sessions :
        /\ <>[](s \in insts /\ s \in aws) => <>[](snaps[s] \in {"running", "error"})
        /\ <>[](s \in insts /\ s \notin aws) => <>[](snaps[s] \in {"down", "error"})
        /\ <>[](s \notin insts) => <>[](snaps[s] = "unknown")
=============================================================================
