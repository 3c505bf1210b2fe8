----------------------------- MODULE CostMeter -----------------------------
(***************************************************************************)
(* The cost meter (src/src/server/metrics.go), which turns the status      *)
(* cache's snapshots into counters, and the memo of prices it shares with  *)
(* the price pages (src/src/ec2/memo.go, src/src/server/handlers.go:606).  *)
(*                                                                         *)
(* The status cache is what metrics.go:61 asks of it: whether a session's  *)
(* snapshot runs, which StatusCache tells how it comes about.  A tick is   *)
(* split where it lets go of the mutex: for each session, the look at the  *)
(* cache, the price lookup and the charge.  Seconds are counted in ticks;  *)
(* the cost follows them, and it and the labels are no state here.  All    *)
(* instances are of one type and zone, so there is one pair of prices.     *)
(***************************************************************************)
EXTENDS Naturals

CONSTANTS Sessions,    \* session ids
          Pages,       \* requests for the price at a time
          MaxSeconds,  \* bounds: the counters stop there
          MaxSessions,
          NoAccount,
          TheMeter     \* the meter, among those that look the price up

ASSUME CapsAssumption == MaxSeconds \in Nat /\ MaxSessions \in Nat
ASSUME NoAccountAssumption == NoAccount \notin Sessions
ASSUME TheMeterAssumption == TheMeter \notin Pages

VARIABLES insts,    \* sessions in instances.json
          running,  \* sessions whose cached snapshot runs
          rises,    \* history: sessions that have risen, or been lost sight of,
                    \* and not been counted since
          accts,    \* per session, NoAccount or its meterAccount
          file,     \* the accounts in the meter file
          shown,    \* history: the totals last published, but for those of a
                    \* process that ended after a save that had failed
          meter,    \* Run and tick: where it is, and its locals
          memo,     \* priceCache: the pair of prices
          pages,    \* requests that look the price up
          late      \* history: lookups under way when the pair was stored

world == <<insts, running>>
prices == <<memo, pages, late>>
vars == <<world, rises, accts, file, shown, meter, prices>>

----------------------------------------------------------------------------
Account == [running: BOOLEAN, seconds: 0..MaxSeconds, sessions: 0..MaxSessions]
NewAccount == [running |-> FALSE, seconds |-> 0, sessions |-> 0]

ASSUME AccountAssumption == NoAccount \notin Account

\* A pair of prices: one side may be empty, since its lookup has failed.
Pair == {"half", "whole"}

Meter == [pc: {"load", "begin", "list", "look", "price", "charge", "save",
               "wait"},
          ticked: BOOLEAN,               \* lastTick is set
          saves: BOOLEAN,                \* this tick is followed by save
          elapsed: {0, 1},
          listed: SUBSET Sessions, todo: SUBSET Sessions,
          id: Sessions \cup {NoAccount}, \* the account looked at
          running: BOOLEAN,
          due: BOOLEAN,                  \* history: a rise to be counted
          lost: BOOLEAN]                 \* history: the last save has failed

Started == [pc |-> "load", ticked |-> FALSE, saves |-> FALSE, elapsed |-> 0,
            listed |-> {}, todo |-> {}, id |-> NoAccount, running |-> FALSE,
            due |-> FALSE, lost |-> FALSE]

TypeOK ==
    /\ insts \subseteq Sessions /\ running \subseteq Sessions
    /\ rises \subseteq Sessions
    /\ accts \in [Sessions -> Account \cup {NoAccount}]
    /\ file \in [Sessions -> Account \cup {NoAccount}]
    /\ shown \in [Sessions -> Account]
    /\ meter \in Meter
    /\ meter.todo \subseteq meter.listed
    /\ meter.pc \in {"price", "charge"} =>
           meter.id \in meter.listed /\ accts[meter.id] # NoAccount
    /\ memo \in Pair \cup {"none"}
    /\ pages \subseteq Pages
    /\ late \subseteq Pages \cup {TheMeter}

Init ==
    /\ insts \in SUBSET Sessions
    /\ running \in SUBSET Sessions
    /\ rises = Sessions
    /\ accts = [s \in Sessions |-> NoAccount]
    /\ file = [s \in Sessions |-> NoAccount]
    /\ shown = [s \in Sessions |-> NewAccount]
    /\ meter = Started
    /\ memo = "none"
    /\ pages = {}
    /\ late = {}

----------------------------------------------------------------------------
(* What the meter reads                                                    *)

\* The cache gets a snapshot that runs, or one that does not, or none.
Show(s) ==
    /\ running' = IF s \in running THEN running \ {s} ELSE running \cup {s}
    /\ rises' = rises \cup ({s} \cap running')
    /\ UNCHANGED <<insts, accts, file, shown, meter, prices>>

\* An entry is added through the UI, or taken out by hand.
EditInsts(s) ==
    /\ insts' = IF s \in insts THEN insts \ {s} ELSE insts \cup {s}
    /\ UNCHANGED <<running, rises, accts, file, shown, meter, prices>>

----------------------------------------------------------------------------
(* The price: pricesFor's Memo                                             *)

\* Whether the memo has the pair, and a variant that always asks again.
AskedAgain == FALSE
Known == memo # "none"

\* What a lookup under way stores: nothing when both sides have failed.
Stored(who, answer) ==
    IF answer = "error"
    THEN memo' = memo /\ late' = late \ {who}
    ELSE /\ memo' = answer
         /\ late' = IF Known THEN late \ {who}
                    ELSE (pages \cup IF meter.pc = "price" THEN {TheMeter} ELSE {})
                             \ {who}

PageAsks(p) ==
    /\ p \notin pages
    /\ ~Known
    /\ pages' = pages \cup {p}
    /\ UNCHANGED <<world, rises, accts, file, shown, meter, memo, late>>

PageStores(p) ==
    /\ p \in pages
    /\ \E answer \in Pair \cup {"error"} : Stored(p, answer)
    /\ pages' = pages \ {p}
    /\ UNCHANGED <<world, rises, accts, file, shown, meter>>

----------------------------------------------------------------------------
(* costMeter.Run                                                           *)

\* A variant of load that starts the totals over.
Restarted(a) == IF a = NoAccount THEN NoAccount ELSE NewAccount

\* load: the totals carry over, whether it runs is the next tick's business.
Restored(a) == IF a = NoAccount THEN NoAccount
               ELSE [a EXCEPT !.running = FALSE]

Load ==
    /\ meter.pc = "load"
    /\ accts' = [s \in Sessions |-> Restored(file[s])]
    /\ meter' = [meter EXCEPT !.pc = "begin"]
    /\ UNCHANGED <<world, rises, file, shown, prices>>

\* The first tick, and one after a gap of four intervals, charge nothing.
BeginTick ==
    /\ meter.pc = "begin"
    /\ \E elapsed \in {0, 1} :
          /\ ~meter.ticked => elapsed = 0
          /\ meter' = [meter EXCEPT !.pc = "list", !.ticked = TRUE,
                                    !.elapsed = elapsed,
                                    !.saves = meter.ticked]
    /\ UNCHANGED <<world, rises, accts, file, shown, prices>>

AfterTick == IF meter.saves THEN "save" ELSE "wait"

\* LoadInstances; without it the tick ends.
ListInstances ==
    /\ meter.pc = "list"
    /\ \E readable \in BOOLEAN :
          meter' = IF readable
                   THEN [meter EXCEPT !.pc = "look", !.listed = insts,
                                      !.todo = insts]
                   ELSE [meter EXCEPT !.pc = AfterTick]
    /\ UNCHANGED <<world, rises, accts, file, shown, prices>>

\* account, and a variant that does not keep the one it makes.
NotMade(a) == a
Opened(a) == IF a = NoAccount THEN NewAccount ELSE a

\* The account exists from here on.  A look that sees a risen session run is
\* the one that has to count it.
Look ==
    /\ meter.pc = "look"
    /\ \E s \in meter.todo :
          /\ accts' = [accts EXCEPT ![s] = Opened(@)]
          /\ meter' = [meter EXCEPT
                 !.pc = IF s \in running /\ ~Known THEN "price" ELSE "charge",
                 !.id = s, !.todo = @ \ {s},
                 !.running = s \in running,
                 !.due = s \in running \cap rises]
          /\ rises' = IF s \in running THEN rises \ {s} ELSE rises
    /\ UNCHANGED <<world, file, shown, prices>>

\* rateFor; its error charges at no rate.
Price ==
    /\ meter.pc = "price"
    /\ \E answer \in Pair \cup {"error"} : Stored(TheMeter, answer)
    /\ meter' = [meter EXCEPT !.pc = "charge"]
    /\ UNCHANGED <<world, rises, accts, file, shown, pages>>

Upto(max, n) == IF n > max THEN max ELSE n

\* What a tick makes of an account, and a variant that counts every tick that
\* sees it run.
CountedEachTick(a) ==
    IF ~meter.running THEN [a EXCEPT !.running = FALSE]
    ELSE [running |-> TRUE,
          seconds |-> Upto(MaxSeconds, a.seconds + meter.elapsed),
          sessions |-> Upto(MaxSessions, a.sessions + 1)]

Charged(a) ==
    IF ~meter.running THEN [a EXCEPT !.running = FALSE]
    ELSE [running |-> TRUE,
          seconds |-> Upto(MaxSeconds, a.seconds + meter.elapsed),
          sessions |-> IF a.running THEN a.sessions
                       ELSE Upto(MaxSessions, a.sessions + 1)]

Charge ==
    /\ meter.pc = "charge"
    /\ accts' = [accts EXCEPT ![meter.id] = Charged(@)]
    /\ shown' = [shown EXCEPT ![meter.id] = accts'[meter.id]]
    /\ meter' = [meter EXCEPT !.pc = "look", !.id = NoAccount,
                              !.running = FALSE, !.due = FALSE]
    /\ UNCHANGED <<world, rises, file, prices>>

\* The accounts a tick keeps, and a variant that keeps them all.
KeepsAll == Sessions
Kept == meter.listed

\* Accounts of sessions that were not listed are forgotten.
Forget ==
    /\ meter.pc = "look"
    /\ meter.todo = {}
    /\ accts' = [s \in Sessions |-> IF s \in Kept THEN accts[s] ELSE NoAccount]
    /\ shown' = [s \in Sessions |-> IF s \in Kept THEN shown[s] ELSE NewAccount]
    /\ rises' = rises \cup (Sessions \ Kept)
    /\ meter' = [meter EXCEPT !.pc = AfterTick, !.listed = {}]
    /\ UNCHANGED <<world, file, prices>>

\* save, whose failure is only logged: the file is as it was, or cut short,
\* which load takes for no file.
Save ==
    /\ meter.pc = "save"
    /\ \/ /\ file' = accts
          /\ meter' = [meter EXCEPT !.pc = "wait", !.lost = FALSE]
       \/ /\ file' \in {file, [s \in Sessions |-> NoAccount]}
          /\ meter' = [meter EXCEPT !.pc = "wait", !.lost = TRUE]
    /\ UNCHANGED <<world, rises, accts, shown, prices>>

NextTick ==
    /\ meter.pc = "wait"
    /\ meter' = [meter EXCEPT !.pc = "begin"]
    /\ UNCHANGED <<world, rises, accts, file, shown, prices>>

MeterStep == Load \/ BeginTick \/ ListInstances \/ Look \/ Price \/ Charge
               \/ Forget \/ Save \/ NextTick

\* The process ends, between any two steps, and is started again; told to end
\* while it waits, it may save, or not get to it.
Restart ==
    /\ accts' = [s \in Sessions |-> NoAccount]
    /\ file' \in IF meter.pc = "wait" THEN {file, accts} ELSE {file}
    /\ meter' = Started
    /\ shown' = [s \in Sessions |-> IF meter.lost THEN NewAccount ELSE shown[s]]
    /\ rises' = Sessions
    /\ memo' = "none"
    /\ pages' = {}
    /\ late' = {}
    /\ UNCHANGED world

----------------------------------------------------------------------------
Next == \/ \E s \in Sessions : Show(s) \/ EditInsts(s)
        \/ \E p \in Pages : PageAsks(p) \/ PageStores(p)
        \/ MeterStep
        \/ Restart

\* The meter's goroutine runs on, and its calls return.
Spec == Init /\ [][Next]_vars /\ WF_vars(MeterStep)

----------------------------------------------------------------------------
(* Properties                                                              *)

\* A session is counted only when the meter looks at an instance that has come
\* to run since it was last counted, or that a restart of the process or a gap
\* in instances.json has made the meter lose sight of; neither a tick that ends
\* early nor a slow price lookup between the look and the charge counts one
\* twice (metrics.go:191-200).
SessionsAreRises ==
    [][meter.pc = "charge" /\ meter'.pc = "look"
         /\ accts'[meter.id].sessions > accts[meter.id].sessions => meter.due]_vars

\* What a crash takes from the totals published last is at most one tick's
\* seconds and one session, unless the meter file could not be written; a
\* session that stays listed keeps its totals (metrics.go:84-143).
LittleIsLost ==
    \A s \in Sessions :
        accts[s] # NoAccount =>
            /\ shown[s].seconds <= accts[s].seconds + 1
            /\ shown[s].sessions <= accts[s].sessions + 1

\* A pair of prices once kept is the one every later lookup gets: only a lookup
\* that was already under way when it was stored can replace it (memo.go:9-21).
PriceIsKept ==
    [][memo # "none" /\ memo' \notin {memo, "none"} =>
         \/ meter.pc = "price" /\ meter'.pc = "charge" /\ TheMeter \in late
         \/ \E p \in late \cap pages : pages' = pages \ {p}]_vars

\* The meter is not restarted again and again, and can read instances.json.
Meters == <>[]meter.ticked /\ []<>(meter.pc = "look")

\* When instances.json and the cache stay as they are, the accounts come to
\* follow them and stay so (metrics.go:147-213): none that is down goes on
\* being charged, none that runs is left out, none is kept that is not listed.
MeterConverges ==
    Meters => \A s \in Sessions :
        /\ <>[](s \in insts /\ s \notin running) =>
               <>[](accts[s] # NoAccount /\ ~accts[s].running)
        /\ <>[](s \in insts /\ s \in running) =>
               <>[](accts[s] # NoAccount /\ accts[s].running)
        /\ <>[](s \notin insts) => <>[](accts[s] = NoAccount)
=============================================================================
