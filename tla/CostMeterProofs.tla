--------------------------- MODULE CostMeterProofs ---------------------------
(* Proofs about the cost meter, for any number of sessions and pages and    *)
(* wherever the counters stop.                                              *)
EXTENDS CostMeter, TLAPS

Held == Account \cup {NoAccount}

----------------------------------------------------------------------------
(* Accounts                                                                *)

\* A new account is one, and none is not.
LEMMA NewIsAccount ==
    /\ NewAccount \in Account /\ NewAccount # NoAccount
    /\ ~NewAccount.running /\ NewAccount.seconds = 0 /\ NewAccount.sessions = 0
PROOF
  <1>1. 0 \in 0..MaxSeconds /\ 0 \in 0..MaxSessions
    BY CapsAssumption
  <1>2. NewAccount \in Account
    BY <1>1 DEF NewAccount, Account
  <1>3. NewAccount # NoAccount
    BY <1>2, AccountAssumption
  <1> QED
    BY <1>2, <1>3 DEF NewAccount

\* load keeps the totals.
LEMMA RestoredAccount ==
    ASSUME NEW a \in Held
    PROVE  /\ Restored(a) \in Held
           /\ Restored(a) = NoAccount <=> a = NoAccount
           /\ a # NoAccount => /\ ~Restored(a).running
                               /\ Restored(a).seconds = a.seconds
                               /\ Restored(a).sessions = a.sessions
  BY AccountAssumption DEF Restored, Held, Account

\* account makes an account that is not there.
LEMMA OpenedAccount ==
    ASSUME NEW a \in Held
    PROVE  /\ Opened(a) \in Account /\ Opened(a) # NoAccount
           /\ a # NoAccount => Opened(a) = a
           /\ a = NoAccount => Opened(a) = NewAccount
  BY NewIsAccount, AccountAssumption DEF Opened, Held

\* A tick adds its seconds to an account that runs, and a session to one that
\* did not.
LEMMA ChargedAccount ==
    ASSUME meter \in Meter, NEW a \in Account
    PROVE  /\ Charged(a) \in Account /\ Charged(a) # NoAccount
           /\ Charged(a).running = meter.running
           /\ Charged(a).seconds <= a.seconds + meter.elapsed
           /\ Charged(a).sessions <= a.sessions + 1
           /\ a.running \/ ~meter.running => Charged(a).sessions = a.sessions
PROOF
  <1>0. meter.elapsed \in {0, 1} /\ meter.running \in BOOLEAN
    BY DEF Meter
  <1>1. /\ a.seconds \in 0..MaxSeconds /\ a.sessions \in 0..MaxSessions
        /\ a.running \in BOOLEAN
    BY DEF Account
  <1>2. ASSUME NEW max \in Nat, NEW n \in Nat
        PROVE  Upto(max, n) \in 0..max /\ Upto(max, n) <= n
    BY DEF Upto
  <1>3. CASE ~meter.running
    <2>1. Charged(a) = [a EXCEPT !.running = FALSE]
      BY <1>3 DEF Charged
    <2>2. Charged(a) \in Account
      BY <2>1 DEF Account
    <2>3. /\ Charged(a).running = FALSE /\ Charged(a).seconds = a.seconds
          /\ Charged(a).sessions = a.sessions
      BY <2>1 DEF Account
    <2>4. a.seconds <= a.seconds + meter.elapsed /\ a.sessions <= a.sessions + 1
      <3>1. a.seconds \in Nat /\ a.sessions \in Nat
        BY <1>1, CapsAssumption
      <3> QED
        BY <1>0, <3>1
    <2>5. Charged(a) # NoAccount
      BY <2>2, AccountAssumption
    <2> QED
      BY <1>0, <1>3, <2>2, <2>3, <2>4, <2>5
  <1>4. CASE meter.running
    <2> DEFINE sec == Upto(MaxSeconds, a.seconds + meter.elapsed)
               ses == IF a.running THEN a.sessions
                      ELSE Upto(MaxSessions, a.sessions + 1)
    <2>1. Charged(a) = [running |-> TRUE, seconds |-> sec, sessions |-> ses]
      BY <1>4 DEF Charged
    <2>2. sec \in 0..MaxSeconds /\ sec <= a.seconds + meter.elapsed
      <3>1. a.seconds + meter.elapsed \in Nat
        BY <1>0, <1>1, CapsAssumption
      <3> QED
        BY <1>2, <3>1, CapsAssumption
    <2>3. /\ ses \in 0..MaxSessions /\ ses <= a.sessions + 1
          /\ a.running => ses = a.sessions
      <3>1. a.sessions + 1 \in Nat /\ a.sessions \in Nat /\ a.sessions <= a.sessions + 1
        BY <1>1, CapsAssumption
      <3>2. /\ Upto(MaxSessions, a.sessions + 1) \in 0..MaxSessions
            /\ Upto(MaxSessions, a.sessions + 1) <= a.sessions + 1
        BY <1>2, <3>1, CapsAssumption
      <3> QED
        BY <1>1, <3>1, <3>2
    <2> HIDE DEF sec, ses
    <2>4. Charged(a) \in Account
      BY <2>1, <2>2, <2>3 DEF Account
    <2>5. Charged(a) # NoAccount
      BY <2>4, AccountAssumption
    <2>6. /\ Charged(a).running = TRUE /\ Charged(a).seconds = sec
          /\ Charged(a).sessions = ses
      BY <2>1
    <2> QED
      BY <1>4, <2>2, <2>3, <2>4, <2>5, <2>6
  <1> QED
    BY <1>0, <1>3, <1>4

----------------------------------------------------------------------------
(* Types                                                                   *)

\* What TypeOK says, with what a proof looks at first.
LEMMA Typed ==
    ASSUME TypeOK
    PROVE  /\ accts \in [Sessions -> Held] /\ file \in [Sessions -> Held]
           /\ shown \in [Sessions -> Account]
           /\ meter \in Meter /\ meter.todo \subseteq meter.listed
           /\ meter.listed \subseteq Sessions
           /\ meter.pc \in {"price", "charge"} =>
                 /\ meter.id \in Sessions /\ meter.id \in meter.listed
                 /\ accts[meter.id] # NoAccount /\ accts[meter.id] \in Account
  BY DEF TypeOK, Meter, Held

\* The world and the pages leave the meter alone.
LEMMA OutsideType ==
    ASSUME TypeOK,
           \/ \E s \in Sessions : Show(s) \/ EditInsts(s)
           \/ \E p \in Pages : PageAsks(p) \/ PageStores(p)
    PROVE  TypeOK'
PROOF
  <1>1. UNCHANGED <<accts, file, shown, meter>>
    BY DEF Show, EditInsts, PageAsks, PageStores
  <1>2. /\ insts' \subseteq Sessions /\ running' \subseteq Sessions
        /\ rises' \subseteq Sessions
    BY DEF TypeOK, Show, EditInsts, PageAsks, PageStores, world
  <1>3. /\ memo' \in Pair \cup {"none"} /\ pages' \subseteq Pages
        /\ late' \subseteq Pages \cup {TheMeter}
    BY DEF TypeOK, Show, EditInsts, PageAsks, PageStores, prices, Stored
  <1> QED
    BY <1>1, <1>2, <1>3 DEF TypeOK

\* A restart begins anew.
LEMMA RestartType == ASSUME TypeOK, Restart PROVE TypeOK'
PROOF
  <1>1. meter' \in Meter /\ meter'.pc = "load" /\ meter'.todo \subseteq meter'.listed
    BY DEF Restart, Started, Meter
  <1>2. accts' \in [Sessions -> Held] /\ file' \in [Sessions -> Held]
    BY Typed DEF Restart, Held
  <1>3. shown' \in [Sessions -> Account]
    BY Typed, NewIsAccount DEF Restart
  <1> QED
    BY <1>1, <1>2, <1>3 DEF Restart, TypeOK, world, Held

\* A look at a session, at that session.
LookAt(s) ==
    /\ accts' = [accts EXCEPT ![s] = Opened(@)]
    /\ meter' = [meter EXCEPT
           !.pc = IF s \in running /\ ~Known THEN "price" ELSE "charge",
           !.id = s, !.todo = @ \ {s},
           !.running = s \in running,
           !.due = s \in running \cap rises]
    /\ rises' = IF s \in running THEN rises \ {s} ELSE rises

\* What a look makes of the meter.
LEMMA LookMeter ==
    ASSUME meter \in Meter, NEW s \in Sessions, LookAt(s)
    PROVE  /\ meter' \in Meter
           /\ meter'.pc \in {"price", "charge"} /\ (Known => meter'.pc = "charge")
           /\ meter'.id = s /\ meter'.todo = meter.todo \ {s}
           /\ meter'.running = (s \in running)
           /\ meter'.due = (s \in running \cap rises)
           /\ meter'.listed = meter.listed /\ meter'.saves = meter.saves
           /\ meter'.ticked = meter.ticked /\ meter'.elapsed = meter.elapsed
           /\ meter'.lost = meter.lost
PROOF
  <1> DEFINE pc == IF s \in running /\ ~Known THEN "price" ELSE "charge"
             todo == meter.todo \ {s}
             runs == s \in running
             due == s \in running \cap rises
             m1 == [meter EXCEPT !.pc = pc]
             m2 == [m1 EXCEPT !.id = s]
             m3 == [m2 EXCEPT !.todo = todo]
             m4 == [m3 EXCEPT !.running = runs]
             m5 == [m4 EXCEPT !.due = due]
  <1>1. /\ pc \in {"price", "charge"} /\ (Known => pc = "charge")
        /\ todo \in SUBSET Sessions /\ runs \in BOOLEAN /\ due \in BOOLEAN
    BY DEF Meter
  <1>2. meter' = m5
    BY DEF LookAt, Meter
  <1> HIDE DEF pc, todo, runs, due
  <1>3. m1 \in Meter /\ m2 \in Meter /\ m3 \in Meter /\ m4 \in Meter /\ m5 \in Meter
    BY <1>1 DEF Meter
  <1>4. /\ m5.pc = pc /\ m5.id = s /\ m5.todo = todo /\ m5.running = runs
        /\ m5.due = due /\ m5.listed = meter.listed /\ m5.saves = meter.saves
        /\ m5.ticked = meter.ticked /\ m5.elapsed = meter.elapsed
        /\ m5.lost = meter.lost
    BY DEF Meter
  <1> HIDE DEF m5
  <1> QED
    BY <1>1, <1>2, <1>3, <1>4 DEF todo, runs, due

\* What the steps of a tick make of the meter.
LEMMA MeterAfter ==
    ASSUME meter \in Meter, insts \subseteq Sessions, MeterStep
    PROVE  meter' \in Meter
PROOF
  <1>1. CASE Load \/ NextTick \/ Price
    BY <1>1 DEF Load, NextTick, Price, Meter
  <1>6. CASE Forget
    BY <1>6 DEF Forget, Meter, AfterTick
  <1>7. CASE Save
    BY <1>7 DEF Save, Meter
  <1>2. CASE BeginTick
    BY <1>2 DEF BeginTick, Meter
  <1>3. CASE ListInstances
    BY <1>3 DEF ListInstances, Meter, AfterTick
  <1>4. CASE Look
    <2>1. PICK s \in meter.todo : LookAt(s)
      BY <1>4 DEF Look, LookAt
    <2>2. s \in Sessions
      BY DEF Meter
    <2> QED
      BY <2>1, <2>2, LookMeter
  <1>5. CASE Charge
    BY <1>5 DEF Charge, Meter
  <1> QED
    BY <1>1, <1>2, <1>3, <1>4, <1>5, <1>6, <1>7 DEF MeterStep

\* What a lookup of the price makes of the memo.
LEMMA StoredType ==
    ASSUME TypeOK, NEW who, NEW answer \in Pair \cup {"error"}, Stored(who, answer)
    PROVE  memo' \in Pair \cup {"none"} /\ late' \subseteq Pages \cup {TheMeter}
  BY DEF TypeOK, Stored

\* Load, and the steps that do not touch the accounts.
LEMMA ListType ==
    ASSUME TypeOK, Load \/ BeginTick \/ ListInstances \/ Price \/ Save \/ NextTick
    PROVE  TypeOK'
PROOF
  <1>1. meter' \in Meter
    BY Typed, MeterAfter DEF TypeOK, MeterStep
  <1>2. UNCHANGED <<insts, running, rises, shown, pages>>
    BY DEF Load, BeginTick, ListInstances, Price, Save, NextTick, world, prices
  <1>3. accts' \in [Sessions -> Held]
    BY Typed, RestoredAccount
       DEF Load, BeginTick, ListInstances, Price, Save, NextTick, prices
  <1>4. file' \in [Sessions -> Held]
    BY Typed DEF Load, BeginTick, ListInstances, Price, Save, NextTick, Held
  <1>5. memo' \in Pair \cup {"none"} /\ late' \subseteq Pages \cup {TheMeter}
    BY StoredType DEF Load, BeginTick, ListInstances, Price, Save, NextTick, prices, TypeOK
  <1>6. meter'.todo \subseteq meter'.listed
    <2>1. CASE Load \/ BeginTick \/ NextTick \/ Price
      BY <2>1, Typed DEF Load, BeginTick, NextTick, Price, Meter
    <2>2. CASE ListInstances
      BY <2>2, Typed DEF ListInstances, Meter
    <2>3. CASE Save
      BY <2>3, Typed DEF Save, Meter
    <2> QED
      BY <2>1, <2>2, <2>3
  <1>7. meter'.pc \in {"price", "charge"} =>
            meter'.id \in meter'.listed /\ accts'[meter'.id] # NoAccount
    <2>1. CASE Price
      BY <2>1, Typed DEF Price, Meter
    <2>2. CASE Load \/ BeginTick \/ NextTick
      BY <2>2, Typed DEF Load, BeginTick, NextTick, Meter
    <2>3. CASE ListInstances
      BY <2>3, Typed DEF ListInstances, Meter, AfterTick
    <2>4. CASE Save
      BY <2>4, Typed DEF Save, Meter
    <2> QED
      BY <2>1, <2>2, <2>3, <2>4
  <1> QED
    BY <1>1, <1>2, <1>3, <1>4, <1>5, <1>6, <1>7 DEF TypeOK, Held

\* A look, a charge, and the end of a tick.
LEMMA AccountsType ==
    ASSUME TypeOK, Look \/ Charge \/ Forget
    PROVE  TypeOK'
PROOF
  <1>1. meter' \in Meter
    BY Typed, MeterAfter DEF TypeOK, MeterStep
  <1>2. UNCHANGED <<insts, running, file, memo, pages, late>>
    BY DEF Look, Charge, Forget, world, prices
  <1>3. CASE Look
    <2>1. PICK s \in meter.todo : LookAt(s)
      BY <1>3 DEF Look, LookAt
    <2>2. s \in Sessions /\ s \in meter.listed
      BY <2>1, Typed
    <2>3. accts' \in [Sessions -> Held] /\ accts'[s] # NoAccount
      BY <2>1, <2>2, Typed, OpenedAccount DEF LookAt, Held
    <2>4. rises' \subseteq Sessions /\ shown' = shown
      BY <1>3, <2>1 DEF TypeOK, LookAt, Look
    <2>5. meter'.id = s /\ meter'.listed = meter.listed /\ meter'.todo = meter.todo \ {s}
      BY <2>1, <2>2, Typed, LookMeter
    <2> QED
      BY <1>1, <1>2, <2>2, <2>3, <2>4, <2>5, Typed DEF TypeOK, Held
  <1>4. CASE Charge
    <2>1. meter.pc = "charge" /\ meter.id \in Sessions /\ accts[meter.id] \in Account
      BY <1>4, Typed DEF Charge
    <2>2. Charged(accts[meter.id]) \in Account
      BY <2>1, Typed, ChargedAccount
    <2>3. accts' = [accts EXCEPT ![meter.id] = Charged(accts[meter.id])]
          /\ shown' = [shown EXCEPT ![meter.id] = Charged(accts[meter.id])]
      BY <1>4, <2>1, Typed DEF Charge
    <2>4. accts' \in [Sessions -> Held] /\ shown' \in [Sessions -> Account]
      BY <2>2, <2>3, Typed DEF Held
    <2>5. meter'.todo \subseteq meter'.listed /\ meter'.pc = "look" /\ rises' = rises
      BY <1>4, Typed DEF Charge, Meter
    <2> QED
      BY <1>1, <1>2, <2>4, <2>5 DEF TypeOK, Held
  <1>5. CASE Forget
    <2>1. accts' \in [Sessions -> Held] /\ shown' \in [Sessions -> Account]
      BY <1>5, Typed, NewIsAccount DEF Forget, Held
    <2>2. meter'.todo \subseteq meter'.listed /\ meter'.pc \in {"save", "wait"}
      BY <1>5, Typed DEF Forget, Meter, AfterTick
    <2>3. rises' \subseteq Sessions
      BY <1>5 DEF Forget, TypeOK
    <2> QED
      BY <1>1, <1>2, <2>1, <2>2, <2>3 DEF TypeOK, Held
  <1> QED
    BY <1>3, <1>4, <1>5

\* The types hold, and an account that a tick prices or charges is there and
\* its session listed, for any number of sessions and pages.
THEOREM TypeCorrect == Spec => []TypeOK
PROOF
  <1>1. Init => TypeOK
    <2> SUFFICES ASSUME Init PROVE TypeOK
      OBVIOUS
    <2>1. meter \in Meter /\ meter.pc = "load" /\ meter.todo \subseteq meter.listed
      BY DEF Init, Started, Meter
    <2>2. /\ accts \in [Sessions -> Held] /\ file \in [Sessions -> Held]
          /\ shown \in [Sessions -> Account]
      BY NewIsAccount DEF Init, Held
    <2> QED
      BY <2>1, <2>2 DEF Init, TypeOK, Held
  <1>2. TypeOK /\ [Next]_vars => TypeOK'
    <2> SUFFICES ASSUME TypeOK, [Next]_vars PROVE TypeOK'
      OBVIOUS
    <2>1. CASE UNCHANGED vars
      BY <2>1 DEF TypeOK, vars, world, prices
    <2>2. CASE Next
      BY <2>2, OutsideType, RestartType, ListType, AccountsType DEF Next, MeterStep
    <2> QED
      BY <2>1, <2>2
  <1> QED
    BY <1>1, <1>2, PTL DEF Spec

----------------------------------------------------------------------------
(* Sessions counted                                                        *)

\* An account that the next charge of a running instance counts a session for.
Uncounted(a) == a = NoAccount \/ ~a.running

\* A running instance that would be counted has risen, but for the one looked
\* at, of which the look has taken note.
RisesKept ==
    /\ meter.pc \in {"price", "charge"} <=> meter.id # NoAccount
    /\ \A s \in Sessions \ {meter.id} :
          Uncounted(accts[s]) /\ s \in running => s \in rises
    /\ meter.pc \in {"price", "charge"} =>
          /\ ~meter.running /\ meter.id \in running => meter.id \in rises
          /\ meter.running /\ Uncounted(accts[meter.id]) => meter.due

\* What comes to run has risen.
LEMMA OutsideRises ==
    ASSUME TypeOK, RisesKept,
           \/ \E s \in Sessions : Show(s) \/ EditInsts(s)
           \/ \E p \in Pages : PageAsks(p) \/ PageStores(p)
    PROVE  RisesKept'
PROOF
  <1>1. UNCHANGED <<accts, meter>>
    BY DEF Show, EditInsts, PageAsks, PageStores
  <1>2. \A s \in Sessions : \/ s \in running' => s \in rises'
                            \/ /\ s \in running' => s \in running
                               /\ s \in rises => s \in rises'
    BY DEF TypeOK, Show, EditInsts, PageAsks, PageStores, world
  <1> QED
    BY <1>1, <1>2, Typed DEF RisesKept, Uncounted

\* The steps of a tick lose no rise.
LEMMA MeterRises ==
    ASSUME TypeOK, RisesKept, MeterStep, meter.pc = "load" => rises = Sessions
    PROVE  RisesKept'
PROOF
  <1>1. meter \in Meter /\ running' = running
    BY Typed DEF MeterStep, Load, BeginTick, ListInstances, Look, Price, Charge,
                 Forget, Save, NextTick, world
  <1>2. CASE Load
    <2>1. rises' = Sessions /\ meter'.pc = "begin" /\ meter'.id = meter.id
      BY <1>1, <1>2 DEF Load, Meter
    <2>2. meter'.id = NoAccount
      BY <1>2, <2>1 DEF Load, RisesKept
    <2> QED
      BY <2>1, <2>2 DEF RisesKept
  <1>3. CASE BeginTick \/ ListInstances \/ Save \/ NextTick
    <2>1. /\ meter'.pc \notin {"price", "charge"} /\ meter.pc \notin {"price", "charge"}
          /\ meter'.id = meter.id
      BY <1>1, <1>3 DEF BeginTick, ListInstances, Save, NextTick, Meter, AfterTick
    <2>2. UNCHANGED <<accts, rises>>
      BY <1>3 DEF BeginTick, ListInstances, Save, NextTick
    <2> QED
      BY <1>1, <2>1, <2>2 DEF RisesKept
  <1>4. CASE Price
    <2>1. /\ meter'.pc = "charge" /\ meter.pc = "price" /\ meter'.id = meter.id
          /\ meter'.running = meter.running /\ meter'.due = meter.due
      BY <1>1, <1>4 DEF Price, Meter
    <2>2. UNCHANGED <<accts, rises>>
      BY <1>4 DEF Price
    <2> QED
      BY <1>1, <2>1, <2>2 DEF RisesKept
  <1>5. CASE Look
    <2>1. PICK s \in meter.todo : LookAt(s)
      BY <1>5 DEF Look, LookAt
    <2>2. s \in Sessions /\ meter.pc = "look"
      BY <1>5, <2>1, Typed DEF Look
    <2>3. /\ meter'.pc \in {"price", "charge"} /\ meter'.id = s
          /\ meter'.running = (s \in running)
          /\ meter'.due = (s \in running \cap rises)
      BY <1>1, <2>1, <2>2, LookMeter
    <2>4. meter.id = NoAccount
      BY <2>2 DEF RisesKept
    <2>5. \A t \in Sessions \ {s} : accts'[t] = accts[t] /\ (t \in rises <=> t \in rises')
      BY <2>1, <2>2, Typed DEF LookAt
    <2>6. Uncounted(accts'[s]) => Uncounted(accts[s])
      <3>1. accts'[s] = Opened(accts[s])
        BY <2>1, <2>2, Typed DEF LookAt
      <3> QED
        BY <2>2, <3>1, Typed, OpenedAccount DEF Uncounted
    <2>7. s # NoAccount /\ s # meter.id
      BY <2>2, <2>4, NoAccountAssumption
    <2>8. Uncounted(accts'[s]) /\ s \in running => s \in rises
      BY <2>2, <2>6, <2>7 DEF RisesKept
    <2>9. \A t \in Sessions \ {s} : Uncounted(accts'[t]) /\ t \in running => t \in rises'
      BY <2>4, <2>5, NoAccountAssumption DEF RisesKept
    <2> QED
      BY <1>1, <2>3, <2>7, <2>8, <2>9 DEF RisesKept
  <1>6. CASE Charge
    <2>1. meter.pc = "charge" /\ meter.id \in Sessions /\ accts[meter.id] \in Account
      BY <1>6, Typed DEF Charge
    <2>2. accts' = [accts EXCEPT ![meter.id] = Charged(@)] /\ rises' = rises
      BY <1>6 DEF Charge
    <2>3. meter'.pc = "look" /\ meter'.id = NoAccount
      BY <1>1, <1>6 DEF Charge, Meter
    <2>4. accts'[meter.id] = Charged(accts[meter.id])
      BY <2>1, <2>2, Typed
    <2>5. Uncounted(accts'[meter.id]) => ~meter.running
      BY <1>1, <2>1, <2>4, ChargedAccount DEF Uncounted
    <2>6. \A t \in Sessions \ {meter.id} : accts'[t] = accts[t]
      BY <2>1, <2>2, Typed
    <2>7. \A t \in Sessions : Uncounted(accts'[t]) /\ t \in running => t \in rises'
      BY <2>1, <2>2, <2>5, <2>6 DEF RisesKept
    <2> QED
      BY <1>1, <2>3, <2>7 DEF RisesKept
  <1>7. CASE Forget
    <2>1. /\ meter'.pc \notin {"price", "charge"} /\ meter.pc = "look"
          /\ meter'.id = meter.id
      BY <1>1, <1>7 DEF Forget, Meter, AfterTick
    <2>2. \A t \in Sessions : t \in rises' \/ (accts'[t] = accts[t] /\ rises \subseteq rises')
      BY <1>7 DEF Forget
    <2> QED
      BY <1>1, <2>1, <2>2 DEF RisesKept
  <1> QED
    BY <1>2, <1>3, <1>4, <1>5, <1>6, <1>7 DEF MeterStep

\* A process that begins has lost sight of every session.
BlindAtFirst == meter.pc = "load" => rises = Sessions

\* A tick does not end in load.
LEMMA MeterBegun == ASSUME TypeOK, MeterStep PROVE meter'.pc # "load"
PROOF
  <1>1. meter \in Meter
    BY Typed
  <1>2. CASE Look
    <2>1. PICK s \in meter.todo : LookAt(s)
      BY <1>2 DEF Look, LookAt
    <2> QED
      BY <1>1, <2>1, Typed, LookMeter
  <1>3. CASE ~Look
    BY <1>1, <1>3 DEF MeterStep, Load, BeginTick, ListInstances, Price, Charge,
                      Forget, Save, NextTick, Meter, AfterTick
  <1> QED
    BY <1>2, <1>3

\* A look at an instance that the next charge counts finds that it has risen.
LEMMA RisesAlways == Spec => [](RisesKept /\ BlindAtFirst)
PROOF
  <1>1. Init => RisesKept /\ BlindAtFirst
    BY DEF Init, RisesKept, BlindAtFirst, Started
  <1>2. TypeOK /\ RisesKept /\ BlindAtFirst /\ [Next]_vars =>
           (RisesKept /\ BlindAtFirst)'
    <2> SUFFICES ASSUME TypeOK, RisesKept, BlindAtFirst, [Next]_vars
                 PROVE  (RisesKept /\ BlindAtFirst)'
      OBVIOUS
    <2>1. CASE UNCHANGED vars
      BY <2>1 DEF RisesKept, BlindAtFirst, Uncounted, vars, world
    <2>2. CASE \/ \E s \in Sessions : Show(s) \/ EditInsts(s)
               \/ \E p \in Pages : PageAsks(p) \/ PageStores(p)
      <3>1. meter' = meter /\ rises \subseteq rises' /\ rises' \subseteq Sessions
        BY <2>2 DEF Show, EditInsts, PageAsks, PageStores, TypeOK
      <3> QED
        BY <2>2, <3>1, OutsideRises DEF BlindAtFirst
    <2>3. CASE MeterStep
      BY <2>3, MeterRises, MeterBegun DEF BlindAtFirst
    <2>4. CASE Restart
      BY <2>4 DEF Restart, Started, RisesKept, BlindAtFirst
    <2> QED
      BY <2>1, <2>2, <2>3, <2>4 DEF Next
  <1> QED
    BY <1>1, <1>2, TypeCorrect, PTL DEF Spec

\* A session is counted only for an instance that has come to run since, or
\* that the meter has lost sight of, whatever happens between a look and its
\* charge, for any number of sessions.
THEOREM CountedForRises == Spec => SessionsAreRises
PROOF
  <1>1. ASSUME TypeOK, RisesKept, Next,
               meter.pc = "charge", meter'.pc = "look",
               accts'[meter.id].sessions > accts[meter.id].sessions
        PROVE  meter.due
    <2>1. meter \in Meter /\ meter.id \in Sessions /\ accts[meter.id] \in Account
      BY <1>1, Typed
    <2>2. CASE Charge
      <3>1. accts'[meter.id] = Charged(accts[meter.id])
        BY <1>1, <2>1, <2>2, Typed DEF Charge
      <3>2. accts[meter.id].sessions \in Nat
        BY <2>1, CapsAssumption DEF Account
      <3>3. accts[meter.id].running \/ ~meter.running =>
               accts'[meter.id].sessions = accts[meter.id].sessions
        BY <2>1, <3>1, ChargedAccount
      <3>4. meter.running /\ ~accts[meter.id].running
        BY <1>1, <3>2, <3>3
      <3> QED
        BY <1>1, <3>4 DEF RisesKept, Uncounted
    <2>3. CASE ~Charge
      <3>1. meter' = meter \/ Restart
        BY <1>1, <2>3 DEF Next, Show, EditInsts, PageAsks, PageStores, MeterStep,
             Load, BeginTick, ListInstances, Look, Price, Forget, Save, NextTick
      <3> QED
        BY <1>1, <3>1 DEF Restart, Started
    <2> QED
      BY <2>2, <2>3
  <1>2. ASSUME UNCHANGED vars PROVE accts' = accts /\ meter' = meter
    BY <1>2 DEF vars
  <1>3. TypeOK /\ RisesKept /\ [Next]_vars =>
           [meter.pc = "charge" /\ meter'.pc = "look"
              /\ accts'[meter.id].sessions > accts[meter.id].sessions => meter.due]_vars
    BY <1>1
  <1> QED
    BY <1>3, RisesAlways, TypeCorrect, PTL DEF Spec, SessionsAreRises

----------------------------------------------------------------------------
(* The memo                                                                *)

\* Whoever looks up a price that is already kept was at it when it was stored.
LateOnly ==
    Known => /\ pages \subseteq late
             /\ meter.pc = "price" => TheMeter \in late

\* A lookup that stores makes those under way late, and is done itself.
LEMMA StoredLate ==
    ASSUME LateOnly, NEW who, NEW answer \in Pair \cup {"error"}, Stored(who, answer)
    PROVE  Known' => /\ pages \ {who} \subseteq late'
                     /\ meter.pc = "price" /\ who # TheMeter => TheMeter \in late'
  BY DEF LateOnly, Stored, Known, Pair

\* No step begins a lookup of what is kept.
LEMMA NextLate == ASSUME TypeOK, LateOnly, [Next]_vars PROVE LateOnly'
PROOF
  <1>0. meter \in Meter /\ pages \subseteq Pages
    BY Typed DEF TypeOK
  <1>1. CASE Restart
    BY <1>1 DEF Restart, LateOnly, Known
  <1>2. CASE \E p \in Pages : PageStores(p)
    <2>1. PICK p \in Pages : PageStores(p)
      BY <1>2
    <2> QED
      BY <2>1, StoredLate, TheMeterAssumption DEF PageStores, LateOnly
  <1>3. CASE Price
    <2>1. meter'.pc = "charge" /\ pages' = pages
      BY <1>0, <1>3 DEF Price, Meter
    <2>2. Known' => pages \ {TheMeter} \subseteq late'
      BY <1>3, StoredLate DEF Price
    <2> QED
      BY <1>0, <2>1, <2>2, TheMeterAssumption DEF LateOnly
  <1>4. CASE Look
    <2>1. PICK s \in meter.todo : LookAt(s)
      BY <1>4 DEF Look, LookAt
    <2>2. Known => meter'.pc = "charge"
      BY <1>0, <2>1, Typed, LookMeter
    <2> QED
      BY <1>4, <2>2 DEF Look, LateOnly, prices, Known
  <1>5. CASE Load \/ BeginTick \/ ListInstances \/ Charge \/ Forget \/ Save \/ NextTick
    <2>1. meter'.pc # "price"
      BY <1>0, <1>5 DEF Load, BeginTick, ListInstances, Charge, Forget, Save,
                        NextTick, Meter, AfterTick
    <2>2. UNCHANGED <<memo, pages, late>>
      BY <1>5 DEF Load, BeginTick, ListInstances, Charge, Forget, Save, NextTick,
                  prices
    <2> QED
      BY <2>1, <2>2 DEF LateOnly, Known
  <1>6. CASE \/ UNCHANGED vars
             \/ \E s \in Sessions : Show(s) \/ EditInsts(s)
             \/ \E p \in Pages : PageAsks(p)
    BY <1>6 DEF vars, Show, EditInsts, PageAsks, prices, LateOnly, Known
  <1> QED
    BY <1>1, <1>2, <1>3, <1>4, <1>5, <1>6 DEF Next, MeterStep

\* A pair of prices that is kept gives way only to a lookup that was under way
\* when it was stored, for any number of lookups.
THEOREM PricesStay == Spec => PriceIsKept
PROOF
  <1>1. Init => LateOnly
    BY DEF Init, LateOnly, Known
  <1>2. ASSUME TypeOK, LateOnly, Next, memo # "none", memo' \notin {memo, "none"}
        PROVE  \/ meter.pc = "price" /\ meter'.pc = "charge" /\ TheMeter \in late
               \/ \E p \in late \cap pages : pages' = pages \ {p}
    <2>1. CASE Price
      <3>1. meter.pc = "price" /\ meter'.pc = "charge"
        BY <2>1, Typed DEF Price, Meter
      <3> QED
        BY <1>2, <3>1 DEF LateOnly, Known
    <2>2. CASE \E p \in Pages : PageStores(p)
      BY <1>2, <2>2 DEF PageStores, LateOnly, Known
    <2>3. CASE Restart
      BY <1>2, <2>3 DEF Restart
    <2>4. CASE ~(Price \/ Restart \/ \E p \in Pages : PageStores(p))
      BY <1>2, <2>4 DEF Next, Show, EditInsts, PageAsks, MeterStep, Load,
           BeginTick, ListInstances, Look, Charge, Forget, Save, NextTick, prices
    <2> QED
      BY <2>1, <2>2, <2>3, <2>4
  <1>3. TypeOK /\ LateOnly /\ [Next]_vars =>
           [memo # "none" /\ memo' \notin {memo, "none"} =>
               \/ meter.pc = "price" /\ meter'.pc = "charge" /\ TheMeter \in late
               \/ \E p \in late \cap pages : pages' = pages \ {p}]_vars
    BY <1>2
  <1> QED
    BY <1>1, <1>3, NextLate, TypeCorrect, PTL DEF Spec, PriceIsKept

----------------------------------------------------------------------------
(* What a crash takes                                                      *)

\* Ahead by at most one tick's seconds and one session.
ATickAhead(a, b) == a.seconds <= b.seconds + 1 /\ a.sessions <= b.sessions + 1

\* The next charge leaves a at most that far ahead of b.
NotAhead(a, b) ==
    /\ a.seconds <= b.seconds
    /\ a.sessions <= b.sessions + 1
    /\ ~a.running => a.sessions <= b.sessions

\* What a crash leaves of a session.
Left(s) == IF file[s] = NoAccount THEN NewAccount ELSE file[s]

InTick == meter.pc \in {"look", "price", "charge"}

\* The session is not charged since the meter file was last written, or, when
\* the tick is the first, since the process began.
Uncharged(s) ==
    \/ meter.pc \in {"begin", "list", "wait"}
    \/ InTick /\ (s \in meter.todo \/ s \notin meter.listed \/ s = meter.id)

\* The first tick, which is not followed by a save.
FirstTick == \/ meter.pc = "begin" /\ ~meter.ticked
             \/ (meter.pc = "list" \/ InTick) /\ ~meter.saves

\* One charge of a session, and no more, comes between two saves: this bounds
\* how far an account is ahead of the file, and what is shown of both.
Behind(s) ==
    /\ accts[s] # NoAccount => ATickAhead(shown[s], accts[s])
    /\ meter.pc # "load" /\ accts[s] = NoAccount => ATickAhead(shown[s], NewAccount)
    /\ ~meter.lost => ATickAhead(shown[s], Left(s))
    /\ ~meter.lost /\ accts[s] # NoAccount =>
          /\ ATickAhead(accts[s], Left(s))
          /\ Uncharged(s) \/ ~meter.saves => NotAhead(accts[s], Left(s))
    /\ FirstTick /\ Uncharged(s) /\ accts[s] # NoAccount => ~accts[s].running

\* The first tick charges no seconds, and none charges a session twice.
TicksOnce ==
    /\ meter.pc = "load" => ~meter.lost /\ ~meter.ticked
    /\ meter.pc \notin {"load", "begin"} => meter.ticked
    /\ (meter.pc = "list" \/ InTick) /\ ~meter.saves => meter.elapsed = 0
    /\ meter.pc \in {"price", "charge"} => meter.id \notin meter.todo

SavesKept == TicksOnce /\ \A s \in Sessions : Behind(s)

\* Relations of accounts, without what they hold.
LEMMA AheadFacts ==
    ASSUME NEW a \in Account, NEW b \in Account
    PROVE  /\ NotAhead(a, b) => ATickAhead(a, b)
           /\ ATickAhead(a, a) /\ NotAhead(a, a) /\ NotAhead(NewAccount, b)
           /\ ATickAhead(NewAccount, b)
PROOF
  <1>1. /\ a.seconds \in Nat /\ a.sessions \in Nat
        /\ b.seconds \in Nat /\ b.sessions \in Nat
    BY CapsAssumption DEF Account
  <1> QED
    BY <1>1, NewIsAccount DEF NotAhead, ATickAhead

\* A charge takes an account that is not ahead a tick ahead; the first tick's
\* charge leaves it not ahead.
LEMMA ChargedAhead ==
    ASSUME meter \in Meter, NEW a \in Account, NEW b \in Account, NotAhead(a, b)
    PROVE  /\ ATickAhead(Charged(a), b)
           /\ meter.elapsed = 0 /\ ~a.running => NotAhead(Charged(a), b)
PROOF
  <1>1. /\ a.seconds \in Nat /\ a.sessions \in Nat
        /\ b.seconds \in Nat /\ b.sessions \in Nat
        /\ Charged(a).seconds \in Nat /\ Charged(a).sessions \in Nat
    BY ChargedAccount, CapsAssumption DEF Account
  <1>2. meter.elapsed \in {0, 1}
    BY DEF Meter
  <1>3. /\ Charged(a).seconds <= a.seconds + meter.elapsed
        /\ Charged(a).sessions <= a.sessions + 1
        /\ Charged(a).running = meter.running
        /\ a.running \/ ~meter.running => Charged(a).sessions = a.sessions
    BY ChargedAccount
  <1> QED
    BY <1>1, <1>2, <1>3 DEF NotAhead, ATickAhead

\* load takes the totals as they are.
LEMMA RestoredAhead ==
    ASSUME NEW a \in Account, NEW b \in Account
    PROVE  /\ Restored(a) \in Account /\ ~Restored(a).running
           /\ Restored(a) # NoAccount
           /\ NotAhead(Restored(a), a)
           /\ ATickAhead(b, a) => ATickAhead(b, Restored(a))
PROOF
  <1>1. a.seconds \in Nat /\ a.sessions \in Nat /\ a # NoAccount /\ a \in Held
    BY CapsAssumption, AccountAssumption DEF Account, Held
  <1> QED
    BY <1>1, RestoredAccount DEF NotAhead, ATickAhead, Held

\* What a crash leaves is an account.
LEMMA LeftIsAccount == ASSUME TypeOK PROVE \A s \in Sessions : Left(s) \in Account
  BY Typed, NewIsAccount DEF Left, Held

\* Load takes what the file holds, for sessions of which nothing more was shown.
LEMMA SavesLoad == ASSUME TypeOK, SavesKept, Load PROVE SavesKept'
PROOF
  <1>1. /\ meter.pc = "load" /\ meter'.pc = "begin" /\ ~meter'.ticked /\ ~meter'.lost
        /\ meter'.lost = meter.lost
    BY Typed DEF Load, Meter, SavesKept, TicksOnce
  <1>2. UNCHANGED <<shown, file>>
    BY DEF Load
  <1>3. ASSUME NEW s \in Sessions PROVE Behind(s)'
    <2>1. accts'[s] = Restored(file[s]) /\ file[s] \in Held /\ shown[s] \in Account
      BY Typed DEF Load
    <2>2. ATickAhead(shown[s], Left(s))
      BY <1>1 DEF SavesKept, Behind
    <2>3. CASE file[s] = NoAccount
      <3>1. accts'[s] = NoAccount
        BY <2>1, <2>3, RestoredAccount
      <3> QED
        BY <1>2, <2>2, <2>3, <3>1 DEF Behind, Left
    <2>4. CASE file[s] \in Account
      <3>1. /\ accts'[s] \in Account /\ ~accts'[s].running
            /\ accts'[s] # NoAccount
            /\ NotAhead(accts'[s], file[s])
            /\ ATickAhead(shown[s], file[s]) => ATickAhead(shown[s], accts'[s])
        BY <2>1, <2>4, RestoredAhead
      <3>2. ATickAhead(accts'[s], file[s])
        BY <2>4, <3>1, AheadFacts
      <3>3. Left(s) = file[s]
        BY <2>4, AccountAssumption DEF Left
      <3> QED
        BY <1>2, <2>2, <3>1, <3>2, <3>3 DEF Behind, Left
    <2> QED
      BY <2>1, <2>3, <2>4 DEF Held
  <1> QED
    BY <1>1, <1>3 DEF SavesKept, TicksOnce, InTick

\* Steps that leave the accounts, the file and what is shown, and do not make a
\* session one to be charged.
LEMMA SavesFramed ==
    ASSUME TypeOK, SavesKept, UNCHANGED <<accts, file, shown>>, TicksOnce',
           meter'.lost = meter.lost, meter.pc # "load",
           \A s \in Sessions :
              /\ (Uncharged(s) \/ ~meter.saves)' => Uncharged(s) \/ ~meter.saves
              /\ (FirstTick /\ Uncharged(s))' => FirstTick /\ Uncharged(s)
    PROVE  SavesKept'
  BY DEF SavesKept, Behind, Left

\* A tick begins, and lists the instances; or the price is looked up.
LEMMA SavesList ==
    ASSUME TypeOK, SavesKept, BeginTick \/ ListInstances \/ Price \/ NextTick
    PROVE  SavesKept'
PROOF
  <1>0. meter \in Meter /\ meter.ticked \in BOOLEAN
    BY Typed DEF Meter
  <1>1. CASE BeginTick
    <2>1. /\ meter.pc = "begin" /\ meter'.pc = "list" /\ meter'.saves = meter.ticked
          /\ meter'.lost = meter.lost /\ (~meter.ticked => meter'.elapsed = 0)
          /\ meter'.ticked
      BY <1>0, <1>1 DEF BeginTick, Meter
    <2>2. UNCHANGED <<accts, file, shown>>
      BY <1>1 DEF BeginTick
    <2> QED
      BY <2>1, <2>2, SavesFramed DEF TicksOnce, InTick, Uncharged, FirstTick
  <1>2. CASE ListInstances
    <2>1. /\ meter.pc = "list" /\ meter'.saves = meter.saves
          /\ meter'.lost = meter.lost /\ meter'.elapsed = meter.elapsed
          /\ meter'.ticked = meter.ticked
          /\ \/ meter'.pc = "look" /\ meter'.todo = meter'.listed
             \/ meter'.pc = "save" /\ meter.saves
             \/ meter'.pc = "wait"
      BY <1>0, <1>2 DEF ListInstances, Meter, AfterTick
    <2>2. UNCHANGED <<accts, file, shown>>
      BY <1>2 DEF ListInstances
    <2> QED
      BY <2>1, <2>2, SavesFramed
         DEF SavesKept, TicksOnce, InTick, Uncharged, FirstTick
  <1>3. CASE Price
    <2>1. /\ meter.pc = "price" /\ meter'.pc = "charge" /\ meter'.saves = meter.saves
          /\ meter'.lost = meter.lost /\ meter'.elapsed = meter.elapsed
          /\ meter'.todo = meter.todo /\ meter'.listed = meter.listed
          /\ meter'.id = meter.id /\ meter'.ticked = meter.ticked
      BY <1>0, <1>3 DEF Price, Meter
    <2>2. UNCHANGED <<accts, file, shown>>
      BY <1>3 DEF Price
    <2> QED
      BY <2>1, <2>2, SavesFramed
         DEF SavesKept, TicksOnce, InTick, Uncharged, FirstTick
  <1>4. CASE NextTick
    <2>1. /\ meter.pc = "wait" /\ meter'.pc = "begin" /\ meter'.saves = meter.saves
          /\ meter'.lost = meter.lost /\ meter'.ticked = meter.ticked
      BY <1>0, <1>4 DEF NextTick, Meter
    <2>2. UNCHANGED <<accts, file, shown>>
      BY <1>4 DEF NextTick
    <2> QED
      BY <2>1, <2>2, SavesFramed
         DEF SavesKept, TicksOnce, InTick, Uncharged, FirstTick
  <1> QED
    BY <1>1, <1>2, <1>3, <1>4

\* A look opens an account for a session whose totals shown are next to none.
LEMMA SavesLook == ASSUME TypeOK, SavesKept, Look PROVE SavesKept'
PROOF
  <1>1. PICK s \in meter.todo : LookAt(s)
    BY DEF Look, LookAt
  <1>2. s \in Sessions /\ meter.pc = "look" /\ meter \in Meter
    BY <1>1, Typed DEF Look
  <1>3. /\ meter'.pc \in {"price", "charge"}
        /\ meter'.id = s /\ meter'.todo = meter.todo \ {s}
        /\ meter'.listed = meter.listed /\ meter'.saves = meter.saves
        /\ meter'.ticked = meter.ticked /\ meter'.elapsed = meter.elapsed
        /\ meter'.lost = meter.lost
    BY <1>1, <1>2, LookMeter
  <1>4. UNCHANGED <<file, shown>>
    BY DEF Look
  <1>5. TicksOnce'
    BY <1>2, <1>3 DEF SavesKept, TicksOnce, InTick
  <1>6. /\ FirstTick' <=> FirstTick
        /\ \A t \in Sessions : Uncharged(t)' => Uncharged(t)
    BY <1>1, <1>2, <1>3 DEF FirstTick, Uncharged, InTick
  <1>7. ASSUME NEW t \in Sessions \ {s} PROVE Behind(t)'
    <2>1. accts'[t] = accts[t]
      BY <1>1, <1>2, Typed DEF LookAt
    <2> QED
      BY <1>2, <1>3, <1>4, <1>6, <2>1 DEF SavesKept, Behind, Left
  <1>8. Behind(s)'
    <2>1. accts'[s] = Opened(accts[s]) /\ accts[s] \in Held
      BY <1>1, <1>2, Typed DEF LookAt
    <2>2. Behind(s) /\ Uncharged(s)
      BY <1>1, <1>2 DEF SavesKept, Uncharged, InTick
    <2>3. CASE accts[s] # NoAccount
      <3>1. accts'[s] = accts[s]
        BY <2>1, <2>3, OpenedAccount
      <3> QED
        BY <1>2, <1>3, <1>4, <1>6, <2>2, <2>3, <3>1 DEF Behind, Left
    <2>4. CASE accts[s] = NoAccount
      <3>1. accts'[s] = NewAccount /\ NewAccount # NoAccount /\ ~NewAccount.running
        BY <2>1, <2>4, OpenedAccount, NewIsAccount
      <3>2. NotAhead(NewAccount, Left(s)) /\ ATickAhead(NewAccount, Left(s))
        BY <1>2, LeftIsAccount, NewIsAccount, AheadFacts
      <3>3. ATickAhead(shown[s], NewAccount)
        BY <1>2, <2>2, <2>4 DEF Behind
      <3>4. Left(s)' = Left(s)
        BY <1>4 DEF Left
      <3>5. ~meter.lost => ATickAhead(shown[s], Left(s))
        BY <2>2 DEF Behind
      <3> QED
        BY <1>3, <1>4, <3>1, <3>2, <3>3, <3>4, <3>5 DEF Behind
    <2> QED
      BY <2>3, <2>4
  <1> QED
    BY <1>5, <1>7, <1>8 DEF SavesKept

\* A charge shows what it leaves, a tick ahead of the file.
LEMMA SavesCharge == ASSUME TypeOK, SavesKept, Charge PROVE SavesKept'
PROOF
  <1>0. meter.pc = "charge" /\ meter.id \in Sessions
    BY Typed DEF Charge
  <1> PICK s \in Sessions : s = meter.id
    BY <1>0
  <1>1. /\ meter \in Meter /\ meter.pc = "charge"
        /\ s \in Sessions /\ s \in meter.listed /\ accts[s] \in Account
    BY Typed DEF Charge
  <1>2. /\ meter'.pc = "look" /\ meter'.id = NoAccount
        /\ meter'.todo = meter.todo /\ meter'.listed = meter.listed
        /\ meter'.saves = meter.saves /\ meter'.ticked = meter.ticked
        /\ meter'.elapsed = meter.elapsed /\ meter'.lost = meter.lost
    BY <1>1 DEF Charge, Meter
  <1>3. /\ accts' = [accts EXCEPT ![s] = Charged(accts[s])]
        /\ shown' = [shown EXCEPT ![s] = Charged(accts[s])]
        /\ file' = file
    BY <1>1, Typed DEF Charge
  <1>4. TicksOnce'
    BY <1>1, <1>2 DEF SavesKept, TicksOnce, InTick
  <1>5. /\ FirstTick' <=> FirstTick
        /\ FirstTick <=> ~meter.saves
        /\ \A t \in Sessions : Uncharged(t)' => Uncharged(t)
        /\ ~Uncharged(s)' /\ Uncharged(s)
    <2>1. meter.id \notin meter.todo /\ s # NoAccount
      BY <1>1, NoAccountAssumption DEF SavesKept, TicksOnce
    <2>2. (FirstTick' <=> FirstTick) /\ (FirstTick <=> ~meter.saves)
      BY <1>1, <1>2 DEF FirstTick, InTick
    <2>3. Uncharged(s) /\ ~Uncharged(s)'
      BY <1>1, <1>2, <2>1 DEF Uncharged, InTick
    <2>4. \A t \in Sessions : Uncharged(t)' => Uncharged(t)
      BY <1>1, <1>2, NoAccountAssumption DEF Uncharged, InTick
    <2> QED
      BY <2>2, <2>3, <2>4
  <1>6. ASSUME NEW t \in Sessions \ {s} PROVE Behind(t)'
    <2>1. accts'[t] = accts[t] /\ shown'[t] = shown[t]
      BY <1>1, <1>3, Typed
    <2> QED
      BY <1>1, <1>2, <1>3, <1>5, <2>1 DEF SavesKept, Behind, Left
  <1>7. Behind(s)'
    <2>1. /\ accts'[s] = Charged(accts[s]) /\ shown'[s] = Charged(accts[s])
          /\ Charged(accts[s]) \in Account /\ Charged(accts[s]) # NoAccount
      BY <1>1, <1>3, Typed, ChargedAccount
    <2>2. ATickAhead(shown'[s], accts'[s])
      BY <2>1, AheadFacts
    <2>3. Behind(s) /\ accts[s] # NoAccount
      BY <1>1, AccountAssumption DEF SavesKept
    <2>4. ~meter.lost => /\ ATickAhead(Charged(accts[s]), Left(s))
                         /\ ~meter.saves => NotAhead(Charged(accts[s]), Left(s))
      <3> SUFFICES ASSUME ~meter.lost
                   PROVE  /\ ATickAhead(Charged(accts[s]), Left(s))
                          /\ ~meter.saves => NotAhead(Charged(accts[s]), Left(s))
        OBVIOUS
      <3>1. NotAhead(accts[s], Left(s)) /\ Left(s) \in Account
        BY <1>1, <1>5, <2>3, LeftIsAccount DEF Behind
      <3>2. ~meter.saves => meter.elapsed = 0 /\ ~accts[s].running
        BY <1>1, <1>5, <2>3 DEF Behind, SavesKept, TicksOnce, InTick
      <3> QED
        BY <1>1, <3>1, <3>2, ChargedAhead
    <2>5. Left(s)' = Left(s)
      BY <1>3 DEF Left
    <2> QED
      BY <1>2, <1>5, <2>1, <2>2, <2>4, <2>5 DEF Behind
  <1> QED
    BY <1>4, <1>6, <1>7 DEF SavesKept

\* A session that was not listed starts over, in what is shown of it too.
LEMMA SavesForget == ASSUME TypeOK, SavesKept, Forget PROVE SavesKept'
PROOF
  <1>1. /\ meter.pc = "look" /\ meter'.saves = meter.saves /\ meter'.lost = meter.lost
        /\ meter'.ticked = meter.ticked
        /\ \/ meter'.pc = "save" /\ meter.saves
           \/ meter'.pc = "wait" /\ ~meter.saves
    BY Typed DEF Forget, AfterTick, Meter
  <1>2. TicksOnce' /\ ~FirstTick'
    BY <1>1 DEF SavesKept, TicksOnce, FirstTick, InTick
  <1>3. \A s \in Sessions : Uncharged(s)' => ~meter.saves
    BY <1>1 DEF Uncharged, InTick
  <1>4. file' = file
    BY DEF Forget
  <1>5. ASSUME NEW s \in Sessions PROVE Behind(s)'
    <2>1. CASE s \in Kept
      <3>1. accts'[s] = accts[s] /\ shown'[s] = shown[s]
        BY <2>1, Typed DEF Forget
      <3> QED
        BY <1>1, <1>2, <1>3, <1>4, <3>1 DEF SavesKept, Behind, Left
    <2>2. CASE s \notin Kept
      <3>1. accts'[s] = NoAccount /\ shown'[s] = NewAccount
        BY <2>2 DEF Forget
      <3>2. ATickAhead(NewAccount, NewAccount) /\ ATickAhead(NewAccount, Left(s))
        BY LeftIsAccount, NewIsAccount, AheadFacts
      <3>3. Left(s)' = Left(s)
        BY <1>4 DEF Left
      <3> QED
        BY <3>1, <3>2, <3>3 DEF Behind
    <2> QED
      BY <2>1, <2>2
  <1> QED
    BY <1>2, <1>5 DEF SavesKept

\* A save that succeeds leaves nothing to lose; one that fails promises nothing.
LEMMA SavesSave == ASSUME TypeOK, SavesKept, Save PROVE SavesKept'
PROOF
  <1>1. /\ meter.pc = "save" /\ meter'.pc = "wait" /\ meter'.ticked = meter.ticked
        /\ file' = accts \/ meter'.lost
    BY Typed DEF Save, Meter
  <1>2. TicksOnce' /\ ~FirstTick'
    BY <1>1 DEF SavesKept, TicksOnce, FirstTick, InTick
  <1>3. UNCHANGED <<accts, shown>>
    BY DEF Save
  <1>4. ASSUME NEW s \in Sessions PROVE Behind(s)'
    <2>1. /\ accts[s] # NoAccount => ATickAhead(shown[s], accts[s])
          /\ accts[s] = NoAccount => ATickAhead(shown[s], NewAccount)
      BY <1>1 DEF SavesKept, Behind
    <2>2. accts[s] # NoAccount =>
             ATickAhead(accts[s], accts[s]) /\ NotAhead(accts[s], accts[s])
      BY Typed, AheadFacts DEF Held
    <2>3. file' = accts => Left(s)' = IF accts[s] = NoAccount THEN NewAccount
                                                              ELSE accts[s]
      BY DEF Left
    <2> QED
      BY <1>1, <1>2, <1>3, <2>1, <2>2, <2>3 DEF Behind
  <1> QED
    BY <1>2, <1>4 DEF SavesKept

\* A crash leaves what the file holds, which what was shown is a tick ahead of.
LEMMA SavesRestart == ASSUME TypeOK, SavesKept, Restart PROVE SavesKept'
PROOF
  <1>1. /\ meter'.pc = "load" /\ ~meter'.ticked /\ ~meter'.lost
    BY DEF Restart, Started
  <1>2. TicksOnce' /\ ~FirstTick'
    BY <1>1 DEF TicksOnce, FirstTick, InTick
  <1>3. ASSUME NEW s \in Sessions PROVE Behind(s)'
    <2>1. /\ accts'[s] = NoAccount
          /\ shown'[s] = IF meter.lost THEN NewAccount ELSE shown[s]
          /\ file' = file \/ (meter.pc = "wait" /\ file' = accts)
      BY DEF Restart
    <2>2. ATickAhead(shown'[s], Left(s)')
      <3>1. CASE meter.lost
        <4>1. Left(s)' \in Account
          BY RestartType, Typed, NewIsAccount DEF Left, Restart, Held
        <4> QED
          BY <2>1, <3>1, <4>1, NewIsAccount, AheadFacts
      <3>2. CASE ~meter.lost /\ file' = file
        BY <2>1, <3>2 DEF SavesKept, Behind, Left
      <3>3. CASE ~meter.lost /\ meter.pc = "wait" /\ file' = accts
        BY <2>1, <3>3 DEF SavesKept, Behind, Left
      <3> QED
        BY <2>1, <3>1, <3>2, <3>3
    <2> QED
      BY <1>1, <1>2, <2>1, <2>2 DEF Behind
  <1> QED
    BY <1>2, <1>3 DEF SavesKept

\* What a crash takes of the totals shown is at most a tick's seconds and one
\* session, unless a save has failed, for any number of sessions.
THEOREM CrashTakesLittle == Spec => []LittleIsLost
PROOF
  <1>1. Init => SavesKept
    <2> SUFFICES ASSUME Init PROVE SavesKept
      OBVIOUS
    <2>1. ATickAhead(NewAccount, NewAccount)
      BY NewIsAccount, AheadFacts
    <2>2. /\ meter.pc = "load" /\ ~meter.lost /\ ~meter.ticked
          /\ \A s \in Sessions : /\ accts[s] = NoAccount /\ shown[s] = NewAccount
                                 /\ Left(s) = NewAccount
      BY DEF Init, Started, Left
    <2> QED
      BY <2>1, <2>2 DEF SavesKept, TicksOnce, Behind, FirstTick, InTick
  <1>2. TypeOK /\ SavesKept /\ [Next]_vars => SavesKept'
    <2> SUFFICES ASSUME TypeOK, SavesKept, [Next]_vars PROVE SavesKept'
      OBVIOUS
    <2>1. CASE \/ UNCHANGED vars
               \/ \E s \in Sessions : Show(s) \/ EditInsts(s)
               \/ \E p \in Pages : PageAsks(p) \/ PageStores(p)
      <3>1. UNCHANGED <<accts, file, shown, meter>>
        BY <2>1 DEF vars, Show, EditInsts, PageAsks, PageStores
      <3> QED
        BY <3>1 DEF SavesKept, TicksOnce, Behind, Left, Uncharged, FirstTick, InTick
    <2>2. CASE MeterStep
      BY <2>2, SavesLoad, SavesList, SavesLook, SavesCharge, SavesForget, SavesSave
         DEF MeterStep
    <2>3. CASE Restart
      BY <2>3, SavesRestart
    <2> QED
      BY <2>1, <2>2, <2>3 DEF Next
  <1>3. SavesKept => LittleIsLost
    BY DEF SavesKept, Behind, LittleIsLost, ATickAhead
  <1> QED
    BY <1>1, <1>2, <1>3, TypeCorrect, PTL DEF Spec
=============================================================================
