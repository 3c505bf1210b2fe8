--------------------------- MODULE RegistryProofs ---------------------------
(* Proofs about the registries.                                             *)
EXTENDS Registry, TLAPS

\* Where a request holds the mutex of users.json, and of instances.json.
HoldsUsers(r) == \/ r.pc \in {"writeUsers", "fillUsers"}
                 \/ r.pc \in {"insts", "writeInsts", "fillInsts"} /\ r.kind = "patch"
HoldsInsts(r) == r.pc \in {"writeInsts", "fillInsts"}

Locks == \A p \in Requests : /\ usersMu = p <=> HoldsUsers(req[p])
                             /\ instMu = p <=> HoldsInsts(req[p])

\* What a request has in its locals, by its kind and place.
UsersPlaces == {"users", "writeUsers", "fillUsers"}
InstsPlaces == {"insts", "writeInsts", "fillInsts"}

Shape(r) ==
    /\ r.pc = "idle" \/ r.kind # "none"
    /\ r.pc # "idle" /\ r.kind \in AdminKinds \cup {"signin"} =>
           r.who \in Users /\ r.by \in Users
    /\ r.pc # "idle" /\ r.kind = "patch" =>
           /\ "rename" \in r.todo => r.to \in Users /\ r.to # r.who
           /\ r.todo # {}
    /\ r.pc \in {"stat", "check"} \cup UsersPlaces => r.by \in Users
    /\ r.pc \in UsersPlaces => r.kind \in AdminKinds \cup {"signin"}
    /\ r.pc \in InstsPlaces => \/ r.kind \in {"create", "update"}
                               \/ r.kind = "patch" /\ Renames(r)
    /\ r.pc = "stat" => r.kind = "update"
    /\ r.pc = "check" => r.kind # "signin"
    /\ r.pc # "idle" /\ r.kind \in {"create", "update"} => r.inst \in Insts

Shapes == \A p \in Requests : Shape(req[p])

Inv == TypeOK /\ Locks /\ Shapes

----------------------------------------------------------------------------
(* Types of what the operators make                                         *)

\* A record of no request is one.
LEMMA IdleIsRequest == Idle \in Request
  BY DEF Idle, Request, NoData, UserData, NoConfig, Config, AdminKinds

\* Stat gives a request.
LEMMA StattedIsRequest ==
    ASSUME NEW r \in Request, users.admin \subseteq Users, users.stamp \in Stamps
    PROVE  Statted(r) \in Request
PROOF
  <1> DEFINE a == [r EXCEPT !.pc = "check"]
             b == [a EXCEPT !.stamp = CurrentStamp]
             c == [b EXCEPT !.seen = {users.admin}]
  <1>1. a \in Request
    BY DEF Request
  <1> HIDE DEF a
  <1>2. b \in Request
    BY <1>1 DEF Request, CurrentStamp
  <1> HIDE DEF b
  <1>3. c \in Request
    BY <1>2 DEF Request
  <1>4. Statted(r) = c
    BY DEF Statted, a, b, c
  <1> QED
    BY <1>3, <1>4

\* The refresh gives a cache.
Cache == [loaded: BOOLEAN, set: SUBSET Users, stamp: Stamps \cup {Gone, None}]

\* A refreshed cache of flags is one.
LEMMA RefreshedIsCache ==
    ASSUME cache \in Cache, users.admin \subseteq Users,
           NEW stamp \in Stamps \cup {Gone, None}
    PROVE  Refreshed(stamp) \in Cache
  BY DEF Refreshed, Cache

\* The identity a request acts as has a name, or is the sender's.
LEMMA ReaderIsUser ==
    ASSUME NEW user, NEW as \in Users \cup {None}, NEW flags, user \in Users \cup {None}
    PROVE  /\ Reader(user, as, flags) \in Users \cup {None}
           /\ user \in Users => Reader(user, as, flags) \in Users
  BY DEF Reader

\* So does what a request does with its check.
LEMMA OnwardIsRequest ==
    ASSUME NEW r \in Request
    PROVE  Onward(r) \in Request
  BY IdleIsRequest DEF Onward, Request

\* A check that ends leaves a request.
LEMMA DoneIsRequest ==
    ASSUME NEW r \in Request, NEW ent \in BOOLEAN
    PROVE  [r EXCEPT !.stamp = None, !.seen = {}, !.entitled = ent] \in Request
PROOF
  <1> DEFINE a == [r EXCEPT !.stamp = None]
             b == [a EXCEPT !.seen = {}]
             c == [b EXCEPT !.entitled = ent]
  <1>1. a \in Request
    BY DEF Request
  <1> HIDE DEF a
  <1>2. b \in Request
    BY <1>1 DEF Request
  <1> HIDE DEF b
  <1>3. c \in Request
    BY <1>2 DEF Request
  <1> QED
    BY <1>3 DEF a, b

\* The answer of a check leaves a request.
LEMMA CheckedIsRequest ==
    ASSUME NEW r \in Request, NEW flags
    PROVE  Checked(r, flags) \in Request
PROOF
  <1> DEFINE user == Reader(r.by, r.as, flags)
             isAdmin == IsAdmin(user, flags)
             ent == Entitled(r)
             done == [r EXCEPT !.stamp = None, !.seen = {}, !.entitled = ent]
             yes == TRUE
  <1>a. ent \in BOOLEAN /\ yes \in BOOLEAN
    BY DEF Entitled
  <1> HIDE DEF ent, yes
  <1>1. user \in Users \cup {None}
    BY ReaderIsUser DEF Request
  <1>2. isAdmin \in BOOLEAN
    BY DEF IsAdmin
  <1>3. done \in Request
    BY <1>a, DoneIsRequest
  <1> HIDE DEF done
  <1>4. Onward(done) \in Request
    BY <1>3, OnwardIsRequest
  <1>5. [done EXCEPT !.pc = "stat", !.guarded = yes, !.entry = None] \in Request
    <2> DEFINE a == [done EXCEPT !.pc = "stat"]
               b == [a EXCEPT !.guarded = yes]
               c == [b EXCEPT !.entry = None]
    <2>1. a \in Request
      BY <1>3 DEF Request
    <2> HIDE DEF a
    <2>2. b \in Request
      BY <2>1, <1>a DEF Request
    <2> HIDE DEF b
    <2>3. c \in Request
      BY <2>2 DEF Request
    <2> QED
      BY <2>3 DEF a, b
  <1>6. [done EXCEPT !.pc = "insts", !.by = None, !.as = None,
                     !.user = user, !.isAdmin = isAdmin] \in Request
    <2> DEFINE a == [done EXCEPT !.pc = "insts"]
               b == [a EXCEPT !.by = None]
               c == [b EXCEPT !.as = None]
               d == [c EXCEPT !.user = user]
               e == [d EXCEPT !.isAdmin = isAdmin]
    <2> HIDE DEF user, isAdmin
    <2>1. a \in Request
      BY <1>3 DEF Request
    <2> HIDE DEF a
    <2>2. b \in Request
      BY <2>1 DEF Request
    <2> HIDE DEF b
    <2>3. c \in Request
      BY <2>2 DEF Request
    <2> HIDE DEF c
    <2>4. d \in Request
      BY <2>3, <1>1 DEF Request
    <2> HIDE DEF d
    <2>5. e \in Request
      BY <2>4, <1>2 DEF Request
    <2> QED
      BY <2>5 DEF a, b, c, d
  <1> HIDE DEF user, isAdmin, done
  <1> QED
    BY <1>4, <1>5, <1>6, IdleIsRequest DEF Checked, user, isAdmin, done, ent, yes

\* What a request makes of the registry it has loaded is a registry.
LEMMA ChangedUsersType ==
    ASSUME NEW r \in Request, Shape(r), r.pc = "users", NEW now \in UserData
    PROVE  ChangedUsers(r, now) \in UserData
PROOF
  <1>1. r.who \in Users
    BY DEF Shape, UsersPlaces
  <1>2. Renames(r) => r.to \in Users
    BY DEF Shape, Renames, NextPart
  <1>3. now.known \subseteq Users /\ now.admin \subseteq Users
    BY DEF UserData
  <1>4. CASE r.kind \in {"signin", "add"}
    <2> DEFINE K == now.known \cup {r.who}
    <2>1. K \in SUBSET Users
      BY <1>1, <1>3
    <2>2. ChangedUsers(r, now) = [now EXCEPT !.known = K]
      BY <1>4 DEF ChangedUsers, Renames
    <2> HIDE DEF K
    <2> QED
      BY <2>1, <2>2 DEF UserData
  <1>5. CASE r.kind = "delete"
    <2> DEFINE K == now.known \ {r.who}
               A == now.admin \ {r.who}
    <2>1. K \in SUBSET Users /\ A \in SUBSET Users
      BY <1>3
    <2>2. ChangedUsers(r, now) = [known |-> K, admin |-> A]
      BY <1>5 DEF ChangedUsers, Renames
    <2> HIDE DEF K, A
    <2> QED
      BY <2>1, <2>2 DEF UserData
  <1>6. CASE Renames(r)
    <2> DEFINE K == RenameIn(now.known, r.who, r.to)
               A == RenameIn(now.admin, r.who, r.to)
    <2>1. K \in SUBSET Users /\ A \in SUBSET Users
      BY <1>2, <1>3, <1>6 DEF RenameIn
    <2>2. ChangedUsers(r, now) = [known |-> K, admin |-> A]
      BY <1>6 DEF ChangedUsers, Renames
    <2> HIDE DEF K, A
    <2> QED
      BY <2>1, <2>2 DEF UserData
  <1>7. CASE r.kind = "patch" /\ ~Renames(r)
    BY <1>1, <1>3, <1>7 DEF ChangedUsers, UserData
  <1> QED
    BY <1>4, <1>5, <1>6, <1>7 DEF Shape, UsersPlaces, AdminKinds

\* ... and what it makes of the entries are entries.
LEMMA ChangedInstsType ==
    ASSUME NEW r \in Request, Shape(r), r.pc = "insts", insts.cfg \in Config,
           r.kind = "update" => insts.cfg[r.inst] # None
    PROVE  ChangedInsts(r) \in Config
PROOF
  <1>1. CASE r.kind = "create"
    <2>1. CreatedEntry(r.readers, r.user) \in Entry
      BY DEF CreatedEntry, Entry, Request
    <2> QED
      BY <1>1, <2>1 DEF ChangedInsts, Config
  <1>2. CASE r.kind = "update"
    <2>1. insts.cfg[r.inst] \in Entry
      BY <1>2 DEF Config, Shape
    <2>2. KeptReaders(r.readers, r.user, r.isAdmin) \in SUBSET (Users \cup {Public})
      BY DEF KeptReaders, Request
    <2>3. UpdatedEntry(r, insts.cfg[r.inst]) \in Entry
      BY <2>1, <2>2 DEF UpdatedEntry, Entry, Request
    <2> QED
      BY <1>2, <2>3 DEF ChangedInsts, Config
  <1>3. CASE r.kind = "patch"
    <2>1. r.who \in Users /\ r.to \in Users
      BY <1>3 DEF Shape, InstsPlaces, AdminKinds, Renames, NextPart
    <2>2. ASSUME NEW i \in Insts
          PROVE  RenamedEntry(insts.cfg[i], r.who, r.to) \in Entry \cup {None}
      <3>1. insts.cfg[i] = None \/ insts.cfg[i] \in Entry
        BY DEF Config
      <3> QED
        BY <2>1, <3>1 DEF RenamedEntry, RenameIn, Entry
    <2> QED
      BY <1>3, <2>2 DEF ChangedInsts, Config
  <1> QED
    BY <1>1, <1>2, <1>3 DEF Shape, InstsPlaces

----------------------------------------------------------------------------
(* What a step needs to show                                               *)

UsersFile == [state: {"whole", "half", "missing"}, known: SUBSET Users,
              admin: SUBSET Users, stamp: Stamps]
InstsFile == [state: {"whole", "half"}, cfg: Config]

\* Another request is where it was, with the locals that Shape is about.
Same(s, r) == /\ s.pc = r.pc /\ s.kind = r.kind /\ s.by = r.by
              /\ s.who = r.who /\ s.to = r.to /\ s.todo = r.todo
              /\ s.inst = r.inst

\* Requests alike in their places hold the same mutexes.
LEMMA SameKeeps ==
    ASSUME NEW r, NEW s, Same(s, r)
    PROVE  /\ Shape(r) => Shape(s)
           /\ HoldsUsers(s) <=> HoldsUsers(r)
           /\ HoldsInsts(s) <=> HoldsInsts(r)
  BY DEF Same, Shape, HoldsUsers, HoldsInsts, Renames, NextPart

\* The mutexes follow the places: a step of p that takes a mutex finds it free
\* or its own, one that does not leaves it to the others.
MutexOf(mu, p, holds) == IF holds THEN p ELSE Released(mu, p)

\* A step that moves one request, with the mutexes following its place,
\* keeps the invariant.
LEMMA InvFramed ==
    ASSUME Inv, NEW p \in Requests, NEW r \in Request, Shape(r),
           req' \in [Requests -> Request], req'[p] = r,
           \A q \in Requests \ {p} : Same(req'[q], req[q]),
           users' \in UsersFile, insts' \in InstsFile, cache' \in Cache,
           HoldsUsers(r) => usersMu \in {p, None},
           HoldsInsts(r) => instMu \in {p, None},
           usersMu' = MutexOf(usersMu, p, HoldsUsers(r)),
           instMu' = MutexOf(instMu, p, HoldsInsts(r))
    PROVE  Inv'
PROOF
  <1>1. Shapes'
    <2> SUFFICES ASSUME NEW q \in Requests PROVE Shape(req'[q])
      BY DEF Shapes
    <2>1. CASE q = p
      BY <2>1
    <2>2. CASE q # p
      BY <2>2, SameKeeps DEF Inv, Shapes
    <2> QED
      BY <2>1, <2>2
  <1>2. None \notin Requests
    BY RequestsAssumption
  <1>3. Locks'
    <2> SUFFICES ASSUME NEW q \in Requests
                 PROVE  /\ usersMu' = q <=> HoldsUsers(req'[q])
                        /\ instMu' = q <=> HoldsInsts(req'[q])
      BY DEF Locks
    <2>1. CASE q = p
      BY <1>2, <2>1 DEF MutexOf, Released
    <2>2. CASE q # p
      <3>1. /\ usersMu' = q <=> usersMu = q
            /\ instMu' = q <=> instMu = q
        BY <1>2, <2>2 DEF MutexOf, Released
      <3>2. /\ HoldsUsers(req'[q]) <=> HoldsUsers(req[q])
            /\ HoldsInsts(req'[q]) <=> HoldsInsts(req[q])
        BY <2>2, SameKeeps
      <3> QED
        BY <3>1, <3>2 DEF Inv, Locks
    <2> QED
      BY <2>1, <2>2
  <1>4. TypeOK'
    <2>1. /\ usersMu' \in Requests \cup {None}
          /\ instMu' \in Requests \cup {None}
      BY DEF Inv, TypeOK, MutexOf, Released
    <2>2. \A q \in Requests :
             /\ usersMu' = q => req'[q].pc \notin {"idle", "stat", "check", "users"}
             /\ instMu' = q => req'[q].pc \in {"writeInsts", "fillInsts"}
      BY <1>3 DEF Locks, HoldsUsers, HoldsInsts
    <2> QED
      BY <2>1, <2>2 DEF TypeOK, UsersFile, InstsFile, Cache
  <1> QED
    BY <1>1, <1>3, <1>4 DEF Inv

\* The case of most steps: p's record alone changes, the files do not, and p
\* holds no mutex afterwards.
LEMMA InvAside ==
    ASSUME Inv, NEW p \in Requests, NEW r \in Request, Shape(r),
           ~HoldsUsers(r), ~HoldsInsts(r),
           req' = [req EXCEPT ![p] = r], UNCHANGED <<users, insts>>,
           cache' \in Cache,
           usersMu' = Released(usersMu, p), instMu' = Released(instMu, p)
    PROVE  Inv'
PROOF
  <1>1. /\ req \in [Requests -> Request]
        /\ users \in UsersFile /\ insts \in InstsFile
    BY DEF Inv, TypeOK, UsersFile, InstsFile
  <1>2. req' \in [Requests -> Request] /\ req'[p] = r
    BY <1>1
  <1>3. \A q \in Requests \ {p} : Same(req'[q], req[q])
    BY <1>1 DEF Same
  <1>4. /\ usersMu' = MutexOf(usersMu, p, HoldsUsers(r))
        /\ instMu' = MutexOf(instMu, p, HoldsInsts(r))
    BY DEF MutexOf
  <1> QED
    BY <1>1, <1>2, <1>3, <1>4, InvFramed

\* A mutex that p does not hold is as released by it.
LEMMA NotHeld ==
    ASSUME Inv, NEW p \in Requests
    PROVE  /\ ~HoldsUsers(req[p]) => Released(usersMu, p) = usersMu
           /\ ~HoldsInsts(req[p]) => Released(instMu, p) = instMu
  BY DEF Inv, Locks, Released

\* No request at all.
LEMMA IdleShape == Shape(Idle) /\ ~HoldsUsers(Idle) /\ ~HoldsInsts(Idle)
  BY DEF Shape, Idle, HoldsUsers, HoldsInsts, UsersPlaces, InstsPlaces

----------------------------------------------------------------------------
(* Init and the requests                                                   *)

\* The invariant holds of a process that begins.
LEMMA InitInv == Init => Inv
PROOF
  <1> SUFFICES ASSUME Init PROVE Inv
    OBVIOUS
  <1>1. insts \in InstsFile
    <2>1. ASSUME NEW l \in ReaderLists, NEW u \in users.known
          PROVE  CreatedEntry(l, u) \in Entry
      <3>1. l \in SUBSET (Users \cup {Public}) /\ u \in Users
        BY ReaderListsAssumption DEF Init
      <3> QED
        BY <3>1 DEF CreatedEntry, Entry
    <2>2. {CreatedEntry(l, u) : l \in ReaderLists, u \in users.known} \subseteq Entry
      BY <2>1
    <2> QED
      BY <2>2 DEF Init, InstsFile, Config
  <1>2. users \in UsersFile
    BY DEF Init, UsersFile
  <1>3. cache \in Cache
    BY DEF Init, NoCache, Cache
  <1>4. req \in [Requests -> Request] /\ \A p \in Requests : req[p] = Idle
    BY IdleIsRequest DEF Init
  <1>5. usersMu = None /\ instMu = None /\ None \notin Requests
    BY RequestsAssumption DEF Init
  <1>6. Locks /\ Shapes
    BY <1>4, <1>5, IdleShape DEF Locks, Shapes
  <1>7. TypeOK
    BY <1>1, <1>2, <1>3, <1>4, <1>5 DEF TypeOK, UsersFile, InstsFile, Cache
  <1> QED
    BY <1>6, <1>7 DEF Inv

\* What a request has when it comes to an admin check.
Asked(r) ==
    /\ r.kind \in AdminKinds \cup {"create", "update"}
    /\ r.by \in Users
    /\ r.kind \in AdminKinds => r.who \in Users
    /\ r.kind = "patch" => /\ "rename" \in r.todo => r.to \in Users /\ r.to # r.who
                           /\ r.todo # {}
    /\ r.kind \in {"create", "update"} => r.inst \in Insts

\* Stat changes neither what it asks nor who asks.
LEMMA StattedFields ==
    ASSUME NEW r \in Request
    PROVE  LET s == Statted(r)
           IN  /\ s.pc = "check" /\ s.kind = r.kind /\ s.by = r.by /\ s.as = r.as
               /\ s.who = r.who /\ s.to = r.to /\ s.todo = r.todo
               /\ s.inst = r.inst /\ s.entitled = r.entitled
               /\ s.stamp = CurrentStamp /\ s.seen = {users.admin}
  BY DEF Statted, Request

\* A request whose rights are asked for holds no mutex.
LEMMA StattedShape ==
    ASSUME NEW r \in Request, Asked(r)
    PROVE  Shape(Statted(r)) /\ ~HoldsUsers(Statted(r)) /\ ~HoldsInsts(Statted(r))
  BY StattedFields DEF Shape, Asked, HoldsUsers, HoldsInsts, UsersPlaces,
                       InstsPlaces, AdminKinds

\* A request that comes holds nothing.
LEMMA InvArrived ==
    ASSUME Inv, NEW p \in Requests, ~HoldsUsers(req[p]), ~HoldsInsts(req[p]),
           NEW r \in Request, Shape(r), ~HoldsUsers(r), ~HoldsInsts(r), Set(p, r),
           UNCHANGED <<users, insts, usersMu, instMu>>, cache' \in Cache
    PROVE  Inv'
  BY NotHeld, InvAside DEF Set

\* It has not looked at users.json yet, or just now; only a sign-in goes there
\* at once.
New(r) == /\ r \in Request /\ Shape(r) /\ ~HoldsUsers(r) /\ ~HoldsInsts(r)
          /\ r.pc \in {"check", "stat"} \/ (r.pc = "users" /\ r.kind = "signin")
          /\ r.pc = "check" => r.stamp = CurrentStamp /\ r.seen = {users.admin}

\* Every request that comes is a new one.
LEMMA Arrived ==
    ASSUME Inv, NEW p \in Requests, Arrive(p)
    PROVE  \E r : New(r) /\ Set(p, r)
PROOF
  <1>t. users.admin \subseteq Users /\ users.stamp \in Stamps
    BY DEF Inv, TypeOK
  <1>2. ASSUME NEW x \in Request, Asked(x), Set(p, Statted(x))
        PROVE  \E r : New(r) /\ Set(p, r)
    BY <1>2, <1>t, StattedIsRequest, StattedShape, StattedFields DEF New
  <1>3. CASE SignIn(p)
    <2>1. PICK u \in Users : Set(p, [Idle EXCEPT !.pc = "users", !.kind = "signin",
                                                !.by = u, !.who = u])
      BY <1>3 DEF SignIn
    <2> DEFINE r == [Idle EXCEPT !.pc = "users", !.kind = "signin", !.by = u, !.who = u]
    <2>2. r \in Request
      BY DEF Idle, Request, NoData, UserData, NoConfig, Config, AdminKinds
    <2>3. /\ r.pc = "users" /\ r.kind = "signin" /\ r.by = u /\ r.who = u
      BY DEF Idle
    <2> HIDE DEF r
    <2>4. Shape(r) /\ ~HoldsUsers(r) /\ ~HoldsInsts(r)
      BY <2>3 DEF Shape, HoldsUsers, HoldsInsts, UsersPlaces, InstsPlaces, AdminKinds
    <2> QED
      BY <2>1, <2>2, <2>3, <2>4 DEF New, r
  <1>4. CASE AddUser(p) \/ DeleteUser(p)
    <2>1. PICK k \in {"add", "delete"}, s \in Sessions, u \in Users :
             Set(p, Statted([Idle EXCEPT !.kind = k, !.by = s[1], !.who = u]))
      BY <1>4 DEF AddUser, DeleteUser
    <2> DEFINE r == [Idle EXCEPT !.kind = k, !.by = s[1], !.who = u]
    <2>2. s[1] \in Users
      BY SessionsAssumption
    <2>3. r \in Request
      BY <2>2 DEF Idle, Request, NoData, UserData, NoConfig, Config, AdminKinds
    <2>4. Asked(r)
      BY <2>2 DEF Asked, Idle, AdminKinds
    <2> HIDE DEF r
    <2> QED
      BY <1>2, <2>1, <2>3, <2>4 DEF r
  <1>5. CASE PatchUser(p)
    <2>1. PICK s \in Sessions, u \in Users, to \in Users, todo \in Patches,
               flag \in BOOLEAN :
            /\ to # u <=> "rename" \in todo
            /\ Set(p, Statted([Idle EXCEPT !.kind = "patch", !.by = s[1], !.who = u,
                                          !.to = to, !.todo = todo, !.flag = flag]))
      BY <1>5 DEF PatchUser
    <2> DEFINE r == [Idle EXCEPT !.kind = "patch", !.by = s[1], !.who = u,
                                 !.to = to, !.todo = todo, !.flag = flag]
    <2>2. s[1] \in Users /\ todo \in SUBSET Parts /\ todo # {}
      BY SessionsAssumption, PatchesAssumption DEF Parts
    <2>3. r \in Request
      BY <2>2 DEF Idle, Request, NoData, UserData, NoConfig, Config, AdminKinds
    <2>4. Asked(r)
      BY <2>1, <2>2 DEF Asked, Idle, AdminKinds
    <2> HIDE DEF r
    <2> QED
      BY <1>2, <2>1, <2>3, <2>4 DEF r
  <1>6. CASE CreateInstance(p)
    <2>1. PICK s \in Sessions, i \in Insts, l \in ReaderLists :
            Set(p, Statted([Idle EXCEPT !.kind = "create", !.by = s[1], !.as = s[2],
                                        !.inst = i, !.readers = l]))
      BY <1>6 DEF CreateInstance
    <2> DEFINE r == [Idle EXCEPT !.kind = "create", !.by = s[1], !.as = s[2],
                                 !.inst = i, !.readers = l]
    <2>2. s[1] \in Users /\ s[2] \in Users \cup {None}
          /\ l \in SUBSET (Users \cup {Public})
      BY SessionsAssumption, ReaderListsAssumption
    <2>3. r \in Request
      BY <2>2 DEF Idle, Request, NoData, UserData, NoConfig, Config, AdminKinds
    <2>4. Asked(r)
      BY <2>2 DEF Asked, Idle, AdminKinds
    <2> HIDE DEF r
    <2> QED
      BY <1>2, <2>1, <2>3, <2>4 DEF r
  <1>7. CASE UpdateInstance(p)
    <2>1. PICK s \in Sessions, i \in Insts, sent \in Updates, o \in Users,
               l \in ReaderLists :
            LET entry == IF insts.state = "whole" THEN insts.cfg[i] ELSE None
            IN  Set(p, [Idle EXCEPT !.pc = "stat", !.kind = "update", !.by = s[1],
                          !.as = s[2], !.inst = i, !.entry = entry, !.sent = sent,
                          !.guarded = entry = None,
                          !.owner = IF "owner" \in sent THEN o ELSE None,
                          !.readers = IF "readers" \in sent THEN l ELSE {}])
      BY <1>7 DEF UpdateInstance
    <2> DEFINE entry == IF insts.state = "whole" THEN insts.cfg[i] ELSE None
               none == entry = None
               owner == IF "owner" \in sent THEN o ELSE None
               readers == IF "readers" \in sent THEN l ELSE {}
               r == [Idle EXCEPT !.pc = "stat", !.kind = "update", !.by = s[1],
                          !.as = s[2], !.inst = i, !.entry = entry, !.sent = sent,
                          !.guarded = none, !.owner = owner, !.readers = readers]
    <2>2. s[1] \in Users /\ s[2] \in Users \cup {None}
          /\ sent \in SUBSET {"owner", "readers"}
      BY SessionsAssumption, UpdatesAssumption
    <2>3. entry \in Entry \cup {None}
      BY DEF Inv, TypeOK, Config
    <2>4. none \in BOOLEAN
      OBVIOUS
    <2>5. owner \in Users \cup {None} /\ readers \in SUBSET (Users \cup {Public})
      BY ReaderListsAssumption
    <2>6. Set(p, r)
      BY <2>1
    <2> HIDE DEF entry, none, owner, readers
    <2>7. r \in Request
      BY <2>2, <2>3, <2>4, <2>5
         DEF Idle, Request, NoData, UserData, NoConfig, Config, AdminKinds
    <2>8. r.pc = "stat" /\ r.kind = "update" /\ r.by \in Users /\ r.inst \in Insts
      BY <2>2 DEF Idle
    <2> HIDE DEF r
    <2>9. Shape(r) /\ ~HoldsUsers(r) /\ ~HoldsInsts(r)
      BY <2>8 DEF Shape, HoldsUsers, HoldsInsts, UsersPlaces, InstsPlaces, AdminKinds
    <2> QED
      BY <2>6, <2>7, <2>8, <2>9 DEF New
  <1> QED
    BY <1>3, <1>4, <1>5, <1>6, <1>7 DEF Arrive

\* A request that arrives keeps the invariant.
LEMMA InvArrive == ASSUME Inv, NEW p \in Requests, Arrive(p) PROVE Inv'
PROOF
  <1>1. /\ ~HoldsUsers(req[p]) /\ ~HoldsInsts(req[p])
        /\ UNCHANGED <<users, insts, usersMu, instMu>> /\ cache' \in Cache
    BY DEF Arrive, HoldsUsers, HoldsInsts, Inv, TypeOK, Cache
  <1>2. PICK r : New(r) /\ Set(p, r)
    BY Arrived
  <1> QED
    BY <1>1, <1>2, InvArrived DEF New

\* A further look at the stamp keeps the invariant.
LEMMA InvStat == ASSUME Inv, NEW p \in Requests, Stat(p) PROVE Inv'
PROOF
  <1>1. req[p] \in Request /\ Shape(req[p]) /\ req[p].pc = "stat"
    BY DEF Inv, TypeOK, Shapes, Stat
  <1>2. Asked(req[p]) /\ ~HoldsUsers(req[p]) /\ ~HoldsInsts(req[p])
    BY <1>1 DEF Shape, Asked, HoldsUsers, HoldsInsts, AdminKinds
  <1>3. users.admin \subseteq Users /\ users.stamp \in Stamps /\ cache \in Cache
    BY DEF Inv, TypeOK, Cache
  <1>4. Set(p, Statted(req[p])) /\ UNCHANGED <<users, insts, usersMu, instMu, cache>>
    BY DEF Stat
  <1>5. Statted(req[p]) \in Request /\ Shape(Statted(req[p]))
        /\ ~HoldsUsers(Statted(req[p])) /\ ~HoldsInsts(Statted(req[p]))
    BY <1>1, <1>2, <1>3, StattedIsRequest, StattedShape
  <1> QED
    BY <1>2, <1>3, <1>4, <1>5, InvArrived

----------------------------------------------------------------------------
(* The check                                                               *)

\* Onward changes the place alone.
LEMMA OnwardFields ==
    ASSUME NEW r \in Request
    PROVE  LET s == Onward(r)
           IN  \/ s = Idle
              \/ /\ s.pc = "users" /\ s.kind = r.kind /\ s.by = r.by
                 /\ s.who = r.who /\ s.to = r.to /\ s.todo = r.todo
                 /\ s.flag = r.flag /\ s.inst = r.inst
                 /\ s.entitled = r.entitled /\ s.seen = r.seen
                 /\ ~(r.kind = "patch" /\ r.todo = {}) /\ ~Refused(r)
  BY DEF Onward, Request

\* A request goes on to users.json only when an administrator has sent it and
\* nothing refuses it; the other requests go on to another check or to
\* instances.json.
LEMMA CheckedFields ==
    ASSUME NEW r \in Request, NEW flags, r.kind # "none"
    PROVE  LET s == Checked(r, flags)
               user == Reader(r.by, r.as, flags)
           IN  \/ s = Idle
              \/ /\ r.kind \in AdminKinds
                 /\ IsAdmin(r.by, flags)
                 /\ s.pc = "users" /\ s.kind = r.kind /\ s.by = r.by
                 /\ s.who = r.who /\ s.to = r.to /\ s.todo = r.todo
                 /\ s.flag = r.flag /\ s.inst = r.inst
                 /\ s.entitled = Entitled(r)
                 /\ ~(r.kind = "patch" /\ r.todo = {}) /\ ~Refused(r)
              \/ /\ r.kind = "update" /\ s.pc = "stat" /\ s.kind = "update"
                 /\ s.by = r.by /\ s.inst = r.inst
              \/ /\ r.kind \notin AdminKinds /\ s.pc = "insts"
                 /\ s.kind = r.kind /\ s.inst = r.inst
                 /\ s.user = user /\ s.isAdmin = IsAdmin(user, flags)
PROOF
  <1> DEFINE ent == Entitled(r)
             done == [r EXCEPT !.stamp = None, !.seen = {}, !.entitled = ent]
             user == Reader(r.by, r.as, flags)
             isAdmin == IsAdmin(user, flags)
  <1> HIDE DEF ent
  <1>1. done \in Request
    <2>1. ent \in BOOLEAN
      BY DEF ent, Entitled
    <2> QED
      BY <2>1, DoneIsRequest
  <1>2. /\ done.kind = r.kind /\ done.by = r.by /\ done.who = r.who
        /\ done.to = r.to /\ done.todo = r.todo /\ done.flag = r.flag
        /\ done.inst = r.inst /\ done.entitled = ent
    BY DEF Request
  <1> HIDE DEF done, user, isAdmin
  <1>3. Refused(done) <=> Refused(r)
    BY <1>2 DEF Refused, OwnOrEnv, NextPart
  <1>4. CASE r.kind \in AdminKinds
    <2>1. Checked(r, flags) = IF IsAdmin(r.by, flags) /\ ~CannotList(r)
                              THEN Onward(done) ELSE Idle
      BY <1>4 DEF Checked, done, ent, AdminKinds
    <2>2. CASE IsAdmin(r.by, flags) /\ ~CannotList(r)
      BY <1>1, <1>2, <1>3, <1>4, <2>1, <2>2, OnwardFields DEF ent
    <2>3. CASE ~(IsAdmin(r.by, flags) /\ ~CannotList(r))
      BY <2>1, <2>3
    <2> QED
      BY <2>2, <2>3
  <1>5. CASE r.kind = "update" /\ ~r.guarded
    <2> DEFINE s == [done EXCEPT !.pc = "stat", !.guarded = TRUE, !.entry = None]
    <2>1. Checked(r, flags) = IF AdmitsInstance(r.entry, user, isAdmin)
                              THEN s ELSE Idle
      BY <1>5 DEF Checked, done, ent, user, isAdmin, AdminKinds
    <2>2. s.pc = "stat" /\ s.kind = r.kind /\ s.by = r.by /\ s.inst = r.inst
      BY <1>1, <1>2 DEF Request
    <2> HIDE DEF s
    <2> QED
      BY <1>5, <2>1, <2>2
  <1>6. CASE r.kind \notin AdminKinds /\ ~(r.kind = "update" /\ ~r.guarded)
    <2> DEFINE s == [done EXCEPT !.pc = "insts", !.by = None, !.as = None,
                                 !.user = user, !.isAdmin = isAdmin]
    <2>1. Checked(r, flags) = s
      BY <1>6 DEF Checked, done, ent, user, isAdmin
    <2>2. s.pc = "insts" /\ s.kind = r.kind /\ s.inst = r.inst
          /\ s.user = user /\ s.isAdmin = isAdmin
      BY <1>1, <1>2 DEF Request
    <2> HIDE DEF s
    <2> QED
      BY <1>6, <2>1, <2>2 DEF user, isAdmin
  <1> QED
    BY <1>4, <1>5, <1>6

\* The answer of a check keeps the invariant.
LEMMA InvCheck == ASSUME Inv, NEW p \in Requests, Check(p) PROVE Inv'
PROOF
  <1> DEFINE r == req[p]
             s == Checked(r, cache'.set)
  <1>1. r \in Request /\ Shape(r) /\ r.pc = "check"
    BY DEF Inv, TypeOK, Shapes, Check
  <1>2. ~HoldsUsers(r) /\ ~HoldsInsts(r) /\ r.kind \notin {"none", "signin"}
    BY <1>1 DEF Shape, HoldsUsers, HoldsInsts
  <1>3. cache' \in Cache
    <2>1. r.stamp \in Stamps \cup {Gone, None} /\ cache \in Cache /\ users.admin \subseteq Users
      BY <1>1 DEF Request, Inv, TypeOK, Cache
    <2> QED
      BY <2>1, RefreshedIsCache DEF Check
  <1>4. s \in Request
    BY <1>1, CheckedIsRequest
  <1>5. Shape(s) /\ ~HoldsUsers(s) /\ ~HoldsInsts(s)
    <2>1. CASE s = Idle
      BY <2>1, IdleShape
    <2>2. CASE s # Idle /\ r.kind \in AdminKinds
      <3>1. /\ s.pc = "users" /\ s.kind = r.kind /\ s.by = r.by
            /\ s.who = r.who /\ s.to = r.to /\ s.todo = r.todo
        BY <1>1, <1>2, <2>2, CheckedFields DEF AdminKinds
      <3> QED
        BY <1>1, <2>2, <3>1 DEF Shape, HoldsUsers, HoldsInsts, UsersPlaces,
                                InstsPlaces, AdminKinds
    <2>3. CASE s # Idle /\ r.kind \notin AdminKinds
      <3>0. r.kind \in {"create", "update"}
        BY <1>1, <1>2, <2>3 DEF Request
      <3>1. /\ s.kind = r.kind /\ s.inst = r.inst
            /\ s.pc = "insts" \/ (s.pc = "stat" /\ s.kind = "update" /\ s.by = r.by)
        BY <1>1, <1>2, <2>3, CheckedFields
      <3> QED
        BY <1>1, <3>0, <3>1 DEF Shape, HoldsUsers, HoldsInsts, UsersPlaces,
                                InstsPlaces, AdminKinds
    <2> QED
      BY <2>1, <2>2, <2>3
  <1>6. Set(p, s) /\ UNCHANGED <<users, insts, usersMu, instMu>>
    BY DEF Check
  <1> QED
    BY <1>2, <1>3, <1>4, <1>5, <1>6, InvArrived

----------------------------------------------------------------------------
(* The writes                                                              *)

\* What the invariant says of one request and of the files.
LEMMA Typed ==
    ASSUME Inv, NEW p \in Requests
    PROVE  /\ req \in [Requests -> Request] /\ req[p] \in Request /\ Shape(req[p])
           /\ users \in UsersFile /\ insts \in InstsFile /\ cache \in Cache
           /\ usersMu = p <=> HoldsUsers(req[p])
           /\ instMu = p <=> HoldsInsts(req[p])
  BY DEF Inv, TypeOK, Shapes, Locks, UsersFile, InstsFile, Cache

\* Taking the mutex of users.json keeps the invariant.
LEMMA InvLockUsers == ASSUME Inv, NEW p \in Requests, LockUsers(p) PROVE Inv'
PROOF
  <1> DEFINE r == req[p]
             now == IF users.state = "whole"
                    THEN [known |-> users.known, admin |-> users.admin] ELSE NoData
             changed == ChangedUsers(r, now)
             place == IF Renames(r) THEN "insts" ELSE "writeUsers"
             carried == IF ~Renames(r) THEN {} ELSE
                          {i \in Insts : Names(insts.cfg[i], r.who)}
             locked == [r EXCEPT !.pc = place, !.newUsers = changed,
                                 !.carried = carried]
  <1>1. r \in Request /\ Shape(r) /\ r.pc = "users"
    BY Typed DEF LockUsers
  <1>2. ~HoldsUsers(r) /\ ~HoldsInsts(r) /\ usersMu = None
    BY <1>1 DEF HoldsUsers, HoldsInsts, LockUsers, Free
  <1>3. cache \in Cache /\ UNCHANGED <<users, insts, instMu, cache>>
    BY Typed DEF LockUsers
  <1>4. \/ Set(p, Idle) /\ UNCHANGED usersMu
        \/ Set(p, locked) /\ usersMu' = p
    BY DEF LockUsers
  <1>5. CASE Set(p, Idle) /\ UNCHANGED usersMu
    BY <1>2, <1>3, <1>5, IdleIsRequest, IdleShape, InvArrived
  <1>6. CASE Set(p, locked) /\ usersMu' = p
    <2>1. now \in UserData
      BY Typed DEF UsersFile, UserData, NoData
    <2>2. changed \in UserData
      BY <1>1, <2>1, ChangedUsersType
    <2>3. carried \in SUBSET Insts
      OBVIOUS
    <2>4. place \in {"insts", "writeUsers"}
      OBVIOUS
    <2>5. place = "insts" <=> Renames(r)
      OBVIOUS
    <2> HIDE DEF changed, carried, place
    <2>6. locked \in Request
      <3> DEFINE a == [r EXCEPT !.pc = place]
                 b == [a EXCEPT !.newUsers = changed]
                 c == [b EXCEPT !.carried = carried]
      <3>1. a \in Request
        BY <1>1, <2>4 DEF Request
      <3> HIDE DEF a
      <3>2. b \in Request
        BY <2>2, <3>1 DEF Request
      <3> HIDE DEF b
      <3>3. c \in Request
        BY <2>3, <3>2 DEF Request
      <3> QED
        BY <3>3 DEF a, b
    <2>7. /\ locked.pc = place /\ locked.kind = r.kind /\ locked.by = r.by
          /\ locked.who = r.who /\ locked.to = r.to /\ locked.todo = r.todo
      BY <1>1 DEF Request
    <2> HIDE DEF locked
    <2>8. Shape(locked) /\ HoldsUsers(locked) /\ ~HoldsInsts(locked)
      BY <1>1, <2>4, <2>5, <2>7
         DEF Shape, HoldsUsers, HoldsInsts, UsersPlaces, InstsPlaces, AdminKinds,
             Renames, NextPart
    <2>9. req' \in [Requests -> Request] /\ req'[p] = locked
          /\ \A q \in Requests \ {p} : Same(req'[q], req[q])
      BY <1>6, <2>6, Typed DEF Set, Same
    <2>10. instMu' = Released(instMu, p)
      BY <1>2, <1>3, NotHeld
    <2> QED
      BY <1>2, <1>3, <1>6, <2>6, <2>8, <2>9, <2>10, Typed, InvFramed DEF MutexOf
  <1> QED
    BY <1>4, <1>5, <1>6

\* A change of users.json that is written keeps the invariant.
LEMMA InvUsersWritten ==
    ASSUME Inv, NEW p \in Requests, req[p].pc \in {"writeUsers", "fillUsers"},
           UsersWritten(p)
    PROVE  Inv'
PROOF
  <1> DEFINE r == req[p]
             todo == r.todo \ {NextPart(r)}
             who == IF Renames(r) THEN r.to ELSE r.who
             rest == [r EXCEPT !.todo = todo, !.newUsers = NoData,
                               !.carried = {}, !.who = who]
             s == IF r.kind = "patch" THEN Onward(rest) ELSE Idle
  <1>1. r \in Request /\ Shape(r)
    BY Typed
  <1>2. todo \in SUBSET Parts
    BY <1>1 DEF Request
  <1>3. who \in Users \cup {None}
    BY <1>1 DEF Request
  <1>4. rest \in Request
    <2> DEFINE a == [r EXCEPT !.todo = todo]
               b == [a EXCEPT !.newUsers = NoData]
               c == [b EXCEPT !.carried = {}]
               d == [c EXCEPT !.who = who]
    <2> HIDE DEF todo, who
    <2>1. a \in Request
      BY <1>1, <1>2 DEF Request
    <2> HIDE DEF a
    <2>2. b \in Request
      BY <2>1 DEF Request, NoData, UserData
    <2> HIDE DEF b
    <2>3. c \in Request
      BY <2>2 DEF Request
    <2> HIDE DEF c
    <2>4. d \in Request
      BY <1>3, <2>3 DEF Request
    <2> QED
      BY <2>4 DEF a, b, c
  <1>5. /\ rest.kind = r.kind /\ rest.by = r.by /\ rest.who = who
        /\ rest.to = r.to /\ rest.todo = todo /\ rest.inst = r.inst
    <2> HIDE DEF todo, who
    <2> QED
      BY <1>1 DEF Request
  <1>6. s \in Request /\ Shape(s) /\ ~HoldsUsers(s) /\ ~HoldsInsts(s)
    <2>1. CASE s = Idle
      BY <2>1, IdleIsRequest, IdleShape
    <2>2. CASE s # Idle
      <3>1. r.kind = "patch" /\ s = Onward(rest)
        BY <2>2
      <3>2. r.who \in Users /\ (Renames(r) => r.to \in Users)
            /\ ("rename" \in r.todo => r.to \in Users /\ r.to # r.who)
            /\ r.by \in Users
        BY <1>1, <3>1 DEF Shape, AdminKinds, Renames, NextPart, UsersPlaces
      <3>3. who \in Users
            /\ ("rename" \in todo => r.to \in Users /\ r.to # who)
        BY <3>1, <3>2 DEF Renames
      <3>4. /\ s.pc = "users" /\ s.kind = "patch" /\ s.by = r.by
            /\ s.who = who /\ s.to = r.to /\ s.todo = todo /\ todo # {}
        <4> HIDE DEF todo, who, rest, s
        <4>1. \/ s = Idle
              \/ /\ s.pc = "users" /\ s.kind = rest.kind /\ s.by = rest.by
                 /\ s.who = rest.who /\ s.to = rest.to /\ s.todo = rest.todo
                 /\ ~(rest.kind = "patch" /\ rest.todo = {})
          BY <1>4, <3>1, OnwardFields
        <4> QED
          BY <1>5, <2>2, <3>1, <4>1
      <3>5. s \in Request
        BY <1>4, <3>1, OnwardIsRequest
      <3> HIDE DEF s, todo, who
      <3>6. Shape(s) /\ ~HoldsUsers(s) /\ ~HoldsInsts(s)
        BY <3>2, <3>3, <3>4 DEF Shape, HoldsUsers, HoldsInsts, UsersPlaces,
                           InstsPlaces, AdminKinds
      <3> QED
        BY <3>5, <3>6
    <2> QED
      BY <2>1, <2>2
  <1>7. PICK new \in Stamps :
           users' = [state |-> "whole", known |-> r.newUsers.known,
                     admin |-> r.newUsers.admin, stamp |-> new]
    BY DEF UsersWritten
  <1>8. r.newUsers \in UserData
    BY <1>1 DEF Request
  <1>9. users' \in UsersFile
    BY <1>7, <1>8 DEF UsersFile, UserData
  <1>10. Witnessed(p, r.newUsers.admin, s)
    BY DEF UsersWritten
  <1> HIDE DEF s
  <1>11. req'[p] = s /\ req' \in [Requests -> Request]
         /\ \A q \in Requests \ {p} : Same(req'[q], req[q])
    <2>1. ASSUME NEW q \in Requests \ {p}
          PROVE  LET t == [req[q] EXCEPT !.seen = @ \cup {r.newUsers.admin}]
                 IN  t \in Request /\ Same(t, req[q])
      <3>1. req[q] \in Request
        BY Typed
      <3> DEFINE seen == req[q].seen \cup {r.newUsers.admin}
                 t == [req[q] EXCEPT !.seen = seen]
      <3>2. seen \in SUBSET SUBSET Users
        BY <1>8, <3>1 DEF Request, UserData
      <3> HIDE DEF seen
      <3>3. t \in Request
        BY <3>1, <3>2 DEF Request
      <3>4. Same(t, req[q])
        BY <3>1 DEF Request, Same
      <3> QED
        BY <3>3, <3>4 DEF seen
    <2>2. ASSUME NEW q \in Requests \ {p}
          PROVE  req'[q] \in Request /\ Same(req'[q], req[q])
      BY <1>10, <2>1, Typed DEF Witnessed, Same
    <2>3. req'[p] = s
      BY <1>10 DEF Witnessed
    <2>4. DOMAIN req' = Requests /\ req' = [q \in Requests |-> req'[q]]
      BY <1>10 DEF Witnessed
    <2> QED
      BY <1>6, <2>2, <2>3, <2>4
  <1>12. usersMu' = Released(usersMu, p) /\ UNCHANGED <<insts, instMu, cache>>
    BY DEF UsersWritten
  <1>13. instMu' = Released(instMu, p)
    BY <1>12, NotHeld DEF HoldsInsts
  <1> QED
    BY <1>6, <1>9, <1>11, <1>12, <1>13, Typed, InvFramed DEF MutexOf

\* A step that moves p from one place where it holds what it holds to another.
LEMMA InvMoved ==
    ASSUME Inv, NEW p \in Requests, NEW place, Set(p, [req[p] EXCEPT !.pc = place]),
           \/ req[p].pc = "writeUsers" /\ place = "fillUsers"
           \/ req[p].pc = "writeInsts" /\ place = "fillInsts",
           users' \in UsersFile, insts' \in InstsFile,
           UNCHANGED <<usersMu, instMu, cache>>
    PROVE  Inv'
PROOF
  <1> DEFINE r == [req[p] EXCEPT !.pc = place]
  <1>1. req[p] \in Request /\ Shape(req[p])
    BY Typed
  <1>2. r \in Request
    BY <1>1 DEF Request
  <1>3. /\ r.pc = place /\ r.kind = req[p].kind /\ r.by = req[p].by
        /\ r.who = req[p].who /\ r.to = req[p].to /\ r.todo = req[p].todo
        /\ r.inst = req[p].inst
    BY <1>1 DEF Request
  <1> HIDE DEF r
  <1>4. Shape(r) /\ (HoldsUsers(r) <=> HoldsUsers(req[p]))
                 /\ (HoldsInsts(r) <=> HoldsInsts(req[p]))
    BY <1>1, <1>3 DEF Shape, HoldsUsers, HoldsInsts, UsersPlaces, InstsPlaces,
                      AdminKinds, Renames, NextPart
  <1>5. req' \in [Requests -> Request] /\ req'[p] = r
        /\ \A q \in Requests \ {p} : Same(req'[q], req[q])
    BY <1>2, Typed DEF Set, Same, r
  <1>6. /\ usersMu' = MutexOf(usersMu, p, HoldsUsers(r))
        /\ instMu' = MutexOf(instMu, p, HoldsInsts(r))
    BY <1>4, Typed, NotHeld DEF MutexOf
  <1>7. /\ HoldsUsers(r) => usersMu \in {p, None}
        /\ HoldsInsts(r) => instMu \in {p, None}
    BY <1>4, Typed
  <1> QED
    BY <1>2, <1>4, <1>5, <1>6, <1>7, Typed, InvFramed

\* Each way of writing users.json keeps the invariant.
LEMMA InvWriteUsers ==
    ASSUME Inv, NEW p \in Requests, WriteUsers(p) \/ TruncateUsers(p) \/ FillUsers(p)
    PROVE  Inv'
PROOF
  <1>1. CASE WriteUsers(p) \/ FillUsers(p)
    BY <1>1, InvUsersWritten DEF WriteUsers, FillUsers
  <1>2. CASE TruncateUsers(p)
    <2>1. PICK s \in Stamps : users' = [users EXCEPT !.state = "half", !.stamp = s]
      BY <1>2 DEF TruncateUsers
    <2>2. users' \in UsersFile
      BY <2>1, Typed DEF UsersFile
    <2>3. insts' \in InstsFile
      BY <1>2, Typed DEF TruncateUsers
    <2> QED
      BY <1>2, <2>2, <2>3, InvMoved DEF TruncateUsers
  <1> QED
    BY <1>1, <1>2

\* Taking the mutex of instances.json keeps the invariant.
LEMMA InvLockInsts == ASSUME Inv, NEW p \in Requests, LockInsts(p) PROVE Inv'
PROOF
  <1> DEFINE r == req[p]
             changed == ChangedInsts(r)
             skipped == [r EXCEPT !.pc = "writeUsers"]
             locked == [r EXCEPT !.pc = "writeInsts", !.newInsts = changed]
  <1>1. r \in Request /\ Shape(r) /\ r.pc = "insts" /\ ~HoldsInsts(r)
    BY Typed DEF LockInsts, HoldsInsts
  <1>2. instMu = None /\ None \notin Requests
    BY RequestsAssumption DEF LockInsts, Free
  <1>3. UNCHANGED <<users, insts, cache>>
    BY DEF LockInsts
  <1>4. \/ Set(p, Idle) /\ usersMu' = Released(usersMu, p) /\ UNCHANGED instMu
        \/ Set(p, skipped) /\ r.kind = "patch" /\ UNCHANGED <<usersMu, instMu>>
        \/ /\ Set(p, locked) /\ instMu' = p /\ UNCHANGED usersMu
           /\ r.kind = "update" => insts.cfg[r.inst] # None
    BY DEF LockInsts
  <1>5. CASE Set(p, Idle) /\ usersMu' = Released(usersMu, p) /\ UNCHANGED instMu
    <2>1. instMu' = Released(instMu, p)
      BY <1>1, <1>5, NotHeld
    <2> QED
      BY <1>3, <1>5, <2>1, IdleIsRequest, IdleShape, Typed, InvAside DEF Set
  <1>6. CASE Set(p, skipped) /\ r.kind = "patch" /\ UNCHANGED <<usersMu, instMu>>
    <2>1. skipped \in Request
      BY <1>1 DEF Request
    <2>2. /\ skipped.pc = "writeUsers" /\ skipped.kind = r.kind /\ skipped.by = r.by
          /\ skipped.who = r.who /\ skipped.to = r.to /\ skipped.todo = r.todo
      BY <1>1 DEF Request
    <2> HIDE DEF skipped
    <2>3. HoldsUsers(r) /\ HoldsUsers(skipped) /\ ~HoldsInsts(skipped) /\ usersMu = p
      BY <1>1, <1>6, <2>2, Typed DEF HoldsUsers, HoldsInsts
    <2>4. Shape(skipped)
      BY <1>1, <1>6, <2>2 DEF Shape, UsersPlaces, InstsPlaces, AdminKinds, Renames,
                              NextPart
    <2>5. req' \in [Requests -> Request] /\ req'[p] = skipped
          /\ \A q \in Requests \ {p} : Same(req'[q], req[q])
      BY <1>6, <2>1, Typed DEF Set, Same
    <2>6. instMu' = Released(instMu, p)
      BY <1>1, <1>6, NotHeld
    <2> QED
      BY <1>3, <1>6, <2>1, <2>3, <2>4, <2>5, <2>6, Typed, InvFramed DEF MutexOf
  <1>7. CASE /\ Set(p, locked) /\ instMu' = p /\ UNCHANGED usersMu
             /\ r.kind = "update" => insts.cfg[r.inst] # None
    <2>1. changed \in Config
      BY <1>1, <1>7, Typed, ChangedInstsType DEF InstsFile
    <2> HIDE DEF changed
    <2>2. locked \in Request
      <3> DEFINE a == [r EXCEPT !.pc = "writeInsts"]
                 b == [a EXCEPT !.newInsts = changed]
      <3>1. a \in Request
        BY <1>1 DEF Request
      <3> HIDE DEF a
      <3>2. b \in Request
        BY <2>1, <3>1 DEF Request
      <3> QED
        BY <3>2 DEF a
    <2>3. /\ locked.pc = "writeInsts" /\ locked.kind = r.kind /\ locked.by = r.by
          /\ locked.who = r.who /\ locked.to = r.to /\ locked.todo = r.todo
          /\ locked.inst = r.inst
      BY <1>1 DEF Request
    <2> HIDE DEF locked
    <2>4. (HoldsUsers(locked) <=> HoldsUsers(r)) /\ HoldsInsts(locked)
      BY <1>1, <2>3 DEF HoldsUsers, HoldsInsts
    <2>5. Shape(locked)
      BY <1>1, <2>3 DEF Shape, UsersPlaces, InstsPlaces, AdminKinds, Renames, NextPart
    <2>6. req' \in [Requests -> Request] /\ req'[p] = locked
          /\ \A q \in Requests \ {p} : Same(req'[q], req[q])
      BY <1>7, <2>2, Typed DEF Set, Same
    <2>7. usersMu' = MutexOf(usersMu, p, HoldsUsers(locked))
          /\ (HoldsUsers(locked) => usersMu = p)
      BY <1>7, <2>4, Typed, NotHeld DEF MutexOf
    <2> QED
      BY <1>2, <1>3, <1>7, <2>2, <2>4, <2>5, <2>6, <2>7, Typed, InvFramed DEF MutexOf
  <1> QED
    BY <1>4, <1>5, <1>6, <1>7

\* A change of instances.json that is written keeps the invariant.
LEMMA InvInstsWritten ==
    ASSUME Inv, NEW p \in Requests, req[p].pc \in {"writeInsts", "fillInsts"},
           InstsWritten(p)
    PROVE  Inv'
PROOF
  <1> DEFINE r == req[p]
             renamed == [r EXCEPT !.pc = "writeUsers", !.newInsts = NoConfig]
             s == IF r.kind = "patch" THEN renamed ELSE Idle
  <1>1. r \in Request /\ Shape(r)
    BY Typed
  <1>2. renamed \in Request
    <2> DEFINE a == [r EXCEPT !.pc = "writeUsers"]
               b == [a EXCEPT !.newInsts = NoConfig]
    <2>1. a \in Request
      BY <1>1 DEF Request
    <2> HIDE DEF a
    <2>2. b \in Request
      BY <2>1 DEF Request, NoConfig, Config
    <2> QED
      BY <2>2 DEF a
  <1>3. /\ renamed.pc = "writeUsers" /\ renamed.kind = r.kind /\ renamed.by = r.by
        /\ renamed.who = r.who /\ renamed.to = r.to /\ renamed.todo = r.todo
    BY <1>1 DEF Request
  <1> HIDE DEF renamed
  <1>4. s \in Request /\ Shape(s) /\ ~HoldsInsts(s)
        /\ (HoldsUsers(s) <=> HoldsUsers(r))
    <2>1. CASE r.kind = "patch"
      <3>1. Shape(renamed) /\ HoldsUsers(renamed) /\ HoldsUsers(r) /\ ~HoldsInsts(renamed)
        BY <1>1, <1>3, <2>1 DEF Shape, HoldsUsers, HoldsInsts, UsersPlaces, InstsPlaces,
                                AdminKinds, Renames, NextPart
      <3> QED
        BY <1>2, <2>1, <3>1
    <2>2. CASE r.kind # "patch"
      BY <2>2, IdleIsRequest, IdleShape DEF HoldsUsers
    <2> QED
      BY <2>1, <2>2
  <1>5. insts' \in InstsFile /\ UNCHANGED <<users, usersMu, cache>>
        /\ instMu' = Released(instMu, p)
    BY <1>1 DEF InstsWritten, InstsFile, Request
  <1>6. Uncarried(p, s)
    BY DEF InstsWritten, renamed
  <1> HIDE DEF s
  <1>7. req'[p] = s /\ req' \in [Requests -> Request]
        /\ \A q \in Requests \ {p} : Same(req'[q], req[q])
    <2>1. ASSUME NEW q \in Requests \ {p}
          PROVE  req'[q] \in Request /\ Same(req'[q], req[q])
      <3>1. req[q] \in Request
        BY Typed
      <3> DEFINE carried == req[q].carried \ {req[p].inst}
                 t == [req[q] EXCEPT !.carried = carried]
      <3>2. carried \in SUBSET Insts
        BY <3>1 DEF Request
      <3> HIDE DEF carried
      <3>3. t \in Request
        BY <3>1, <3>2 DEF Request
      <3>4. Same(t, req[q])
        BY <3>1 DEF Request, Same
      <3>5. req'[q] = t
        BY <1>6 DEF Uncarried, carried
      <3> QED
        BY <3>3, <3>4, <3>5
    <2>2. req'[p] = s
      BY <1>6 DEF Uncarried
    <2>3. req' = [q \in Requests |-> req'[q]]
      BY <1>6 DEF Uncarried
    <2> QED
      BY <1>4, <2>1, <2>2, <2>3
  <1>8. usersMu' = MutexOf(usersMu, p, HoldsUsers(s)) /\ (HoldsUsers(s) => usersMu = p)
    BY <1>4, <1>5, Typed, NotHeld DEF MutexOf
  <1> QED
    BY <1>4, <1>5, <1>7, <1>8, Typed, InvFramed DEF MutexOf

\* Each way of writing instances.json keeps the invariant.
LEMMA InvWriteInsts ==
    ASSUME Inv, NEW p \in Requests, WriteInsts(p) \/ TruncateInsts(p) \/ FillInsts(p)
    PROVE  Inv'
PROOF
  <1>1. CASE WriteInsts(p) \/ FillInsts(p)
    BY <1>1, InvInstsWritten DEF WriteInsts, FillInsts
  <1>2. CASE TruncateInsts(p)
    <2>1. insts' \in InstsFile /\ users' \in UsersFile
      BY <1>2, Typed DEF TruncateInsts, InstsFile
    <2> QED
      BY <1>2, <2>1, InvMoved DEF TruncateInsts
  <1> QED
    BY <1>1, <1>2

\* A write that fails gives its mutexes back.
LEMMA InvWriteFails == ASSUME Inv, NEW p \in Requests, WriteFails(p) PROVE Inv'
  BY IdleIsRequest, IdleShape, Typed, InvAside DEF WriteFails, Set

\* A restart frees the mutexes along with the requests.
LEMMA InvRestart == ASSUME Inv, Restart PROVE Inv'
PROOF
  <1>1. req' \in [Requests -> Request] /\ \A p \in Requests : req'[p] = Idle
    BY IdleIsRequest DEF Restart
  <1>2. usersMu' = None /\ instMu' = None /\ None \notin Requests
    BY RequestsAssumption DEF Restart
  <1>3. Locks' /\ Shapes'
    BY <1>1, <1>2, IdleShape DEF Locks, Shapes
  <1>4. cache' \in Cache
    BY DEF Restart, NoCache, Cache
  <1>5. TypeOK'
    BY <1>1, <1>2, <1>4 DEF TypeOK, Inv, Restart, Cache
  <1> QED
    BY <1>3, <1>5 DEF Inv

\* Every step keeps the invariant.
LEMMA InvNext == Inv /\ [Next]_vars => Inv'
PROOF
  <1> SUFFICES ASSUME Inv, [Next]_vars PROVE Inv'
    OBVIOUS
  <1>1. CASE UNCHANGED vars
    BY <1>1 DEF Inv, TypeOK, Locks, Shapes, vars
  <1>2. ASSUME NEW p \in Requests, Arrive(p) \/ Stat(p) \/ Check(p)
        PROVE  Inv'
    BY <1>2, InvArrive, InvStat, InvCheck
  <1>3. ASSUME NEW p \in Requests, LockUsers(p) \/ LockInsts(p) \/ Write(p)
                                     \/ WriteFails(p)
        PROVE  Inv'
    BY <1>3, InvLockUsers, InvLockInsts, InvWriteUsers, InvWriteInsts, InvWriteFails
       DEF Write
  <1> QED
    BY <1>1, <1>2, <1>3, InvRestart DEF Next

\* The invariant always holds.
LEMMA InvAlways == Spec => []Inv
  BY InitInv, InvNext, PTL DEF Spec

\* The registries' state keeps its type, and the holder of a file's mutex is a
\* request that has loaded the file and has still to write it.
THEOREM TypeCorrect == Spec => []TypeOK
  BY InvAlways, PTL DEF Inv
----------------------------------------------------------------------------
(* The admin check answers with flags of its time                          *)

\* The flags the file holds are among those each check has seen, and so is the
\* cached set whose stamp a check, or the file, has.
Current ==
    /\ users.state = "missing" => users.admin = {}
    /\ cache.stamp = CurrentStamp => cache.set = users.admin
    /\ \A p \in Requests : req[p].pc = "check" =>
          /\ users.admin \in req[p].seen
          /\ req[p].stamp # None
          /\ cache.stamp = req[p].stamp => cache.set \in req[p].seen

\* No file has the stamp of a cache that has never been loaded.
LEMMA StampIsSome == ASSUME Inv PROVE CurrentStamp # None
  BY StampsAssumption DEF Inv, TypeOK, CurrentStamp

\* The program starts without a cache and without requests.
LEMMA CurrentInit == Init => Current
PROOF
  <1> SUFFICES ASSUME Init PROVE Current
    OBVIOUS
  <1>1. \A p \in Requests : req[p].pc = "idle"
    BY DEF Init, Idle
  <1>2. cache.stamp = None /\ CurrentStamp # None
    BY InitInv, StampIsSome DEF Init, NoCache
  <1>3. users.state = "missing" => users.admin = {}
    BY DEF Init
  <1> QED
    BY <1>1, <1>2, <1>3 DEF Current

\* Most steps change a record alone, and one that comes to a check has just
\* looked at the file.
LEMMA CurrentAside ==
    ASSUME Inv, Current, NEW p \in Requests, NEW r, Set(p, r),
           UNCHANGED <<users, cache>>,
           r.pc = "check" => r.stamp = CurrentStamp /\ r.seen = {users.admin}
    PROVE  Current'
PROOF
  <1>1. CurrentStamp' = CurrentStamp /\ CurrentStamp # None
    BY StampIsSome DEF CurrentStamp
  <1>2. req'[p] = r /\ \A q \in Requests \ {p} : req'[q] = req[q]
    BY Typed DEF Set
  <1>3. ASSUME NEW q \in Requests, req'[q].pc = "check"
        PROVE  /\ users'.admin \in req'[q].seen
               /\ req'[q].stamp # None
               /\ cache'.stamp = req'[q].stamp => cache'.set \in req'[q].seen
    <2>1. CASE q = p
      BY <1>1, <1>2, <1>3, <2>1 DEF Current
    <2>2. CASE q # p
      BY <1>2, <1>3, <2>2 DEF Current
    <2> QED
      BY <2>1, <2>2
  <1> QED
    BY <1>1, <1>3 DEF Current

\* An admin check leaves the cache with the flags of the file, or with what it
\* held.
LEMMA CheckAnswers ==
    ASSUME Inv, Current, NEW p \in Requests, Check(p)
    PROVE  /\ users.state # "half" => cache'.set \in req[p].seen
           /\ \/ cache'.set = cache.set /\ cache'.stamp = cache.stamp
              \/ cache'.set = users.admin /\ cache'.stamp = req[p].stamp
PROOF
  <1>1. req[p].pc = "check" /\ cache' = Refreshed(req[p].stamp) /\ cache \in Cache
    BY Typed DEF Check
  <1>2. users.admin \in req[p].seen
        /\ (cache.stamp = req[p].stamp => cache.set \in req[p].seen)
    BY <1>1 DEF Current
  <1> QED
    BY <1>1, <1>2 DEF Refreshed, Cache, Current

\* A check answers from flags as new as its look at the stamp.
LEMMA CurrentCheck ==
    ASSUME Inv, Current, NEW p \in Requests, Check(p) PROVE Current'
PROOF
  <1> DEFINE s == Checked(req[p], cache'.set)
  <1>1. /\ req[p] \in Request /\ req[p].kind # "none"
        /\ Set(p, s) /\ UNCHANGED users
    BY Typed DEF Check, Shape
  <1>2. s.pc # "check"
    <2>1. Idle.pc # "check"
      BY DEF Idle
    <2> QED
      BY <1>1, <2>1, CheckedFields
  <1> HIDE DEF s
  <1>3. CurrentStamp' = CurrentStamp
    BY <1>1 DEF CurrentStamp
  <1>4. req'[p] = s /\ \A q \in Requests \ {p} : req'[q] = req[q]
    BY <1>1, Typed DEF Set
  <1>5. cache'.stamp = CurrentStamp => cache'.set = users.admin
    BY CheckAnswers DEF Current
  <1>6. ASSUME NEW q \in Requests, req'[q].pc = "check"
        PROVE  /\ users'.admin \in req'[q].seen
               /\ req'[q].stamp # None
               /\ cache'.stamp = req'[q].stamp => cache'.set \in req'[q].seen
    <2>1. q # p /\ req'[q] = req[q]
      BY <1>2, <1>4, <1>6
    <2> QED
      BY <1>1, <1>6, <2>1, CheckAnswers DEF Current
  <1> QED
    BY <1>1, <1>3, <1>5, <1>6 DEF Current

\* A write gives the file a stamp that nobody has, and shows every check the
\* new flags.
LEMMA CurrentUsersWritten ==
    ASSUME Inv, Current, NEW p \in Requests, req[p].pc \in {"writeUsers", "fillUsers"},
           UsersWritten(p)
    PROVE  Current'
PROOF
  <1> DEFINE flags == req[p].newUsers.admin
  <1>1. PICK new \in Stamps :
           /\ Fresh(new)
           /\ users' = [state |-> "whole", known |-> req[p].newUsers.known,
                        admin |-> flags, stamp |-> new]
    BY DEF UsersWritten
  <1>2. UNCHANGED cache /\ CurrentStamp' = new /\ cache.stamp # new
    BY <1>1 DEF UsersWritten, CurrentStamp, Fresh
  <1>3. PICK s : /\ Witnessed(p, flags, s)
                 /\ s = Idle \/ s.pc = "users"
    <2> DEFINE r == req[p]
               rest == [r EXCEPT !.todo = @ \ {NextPart(r)}, !.newUsers = NoData,
                            !.carried = {}, !.who = IF Renames(r) THEN r.to ELSE @]
               s == IF r.kind = "patch" THEN Onward(rest) ELSE Idle
    <2>1. Witnessed(p, flags, s)
      BY DEF UsersWritten
    <2>2. rest.kind = r.kind /\ DOMAIN rest = DOMAIN r
      BY Typed DEF Request
    <2>3. "pc" \in DOMAIN rest
      BY <2>2, Typed DEF Request
    <2> HIDE DEF rest
    <2>4. s = Idle \/ s.pc = "users"
      BY <2>3 DEF Onward
    <2> QED
      BY <2>1, <2>4
  <1>4. s.pc # "check"
    BY <1>3 DEF Idle
  <1>5. ASSUME NEW q \in Requests, req'[q].pc = "check"
        PROVE  /\ users'.admin \in req'[q].seen
               /\ req'[q].stamp # None
               /\ cache'.stamp = req'[q].stamp => cache'.set \in req'[q].seen
    <2>1. q # p
      BY <1>3, <1>4, <1>5 DEF Witnessed
    <2>2. req[q].pc = "check" /\ req'[q] = [req[q] EXCEPT !.seen = @ \cup {flags}]
      BY <1>3, <1>5, <2>1, Typed DEF Witnessed, Request
    <2>3. req'[q].stamp = req[q].stamp /\ req'[q].seen = req[q].seen \cup {flags}
      BY <2>2, Typed DEF Request
    <2> QED
      BY <1>1, <1>2, <2>2, <2>3 DEF Current
  <1> QED
    BY <1>1, <1>2, <1>5 DEF Current

\* Emptying the file gives it a stamp nobody has seen.
LEMMA CurrentTruncate ==
    ASSUME Inv, Current, NEW p \in Requests, TruncateUsers(p) PROVE Current'
PROOF
  <1>1. PICK new \in Stamps :
           Fresh(new) /\ users' = [users EXCEPT !.state = "half", !.stamp = new]
    BY DEF TruncateUsers
  <1>2. users'.state = "half" /\ users'.admin = users.admin /\ users'.stamp = new
    BY <1>1, Typed DEF UsersFile
  <1>3. UNCHANGED cache /\ CurrentStamp' = new /\ cache.stamp # new
    BY <1>1, <1>2 DEF TruncateUsers, CurrentStamp, Fresh
  <1>4. \A q \in Requests : req'[q].pc = "check" => req'[q] = req[q]
    BY Typed DEF TruncateUsers, Set, Request
  <1> QED
    BY <1>2, <1>3, <1>4 DEF Current

\* Writing instances.json leaves the flags alone.
LEMMA CurrentInstsWritten ==
    ASSUME Inv, Current, NEW p \in Requests, InstsWritten(p),
           req[p].pc \in {"writeInsts", "fillInsts"}
    PROVE  Current'
PROOF
  <1>1. UNCHANGED <<users, cache>>
    BY DEF InstsWritten
  <1>2. PICK s : Uncarried(p, s) /\ s.pc # "check"
    <2>1. [req[p] EXCEPT !.pc = "writeUsers", !.newInsts = NoConfig].pc # "check"
      BY Typed DEF Request
    <2>2. Idle.pc # "check"
      BY DEF Idle
    <2> QED
      BY <2>1, <2>2 DEF InstsWritten
  <1>3. ASSUME NEW q \in Requests, req'[q].pc = "check"
        PROVE  /\ req[q].pc = "check" /\ req'[q].stamp = req[q].stamp
               /\ req'[q].seen = req[q].seen
    <2>1. req'[q] = [req[q] EXCEPT !.carried = @ \ {req[p].inst}]
      BY <1>2, <1>3 DEF Uncarried
    <2> QED
      BY <1>3, <2>1, Typed DEF Request
  <1> QED
    BY <1>1, <1>3 DEF Current, CurrentStamp

\* A restart forgets the flags.
LEMMA CurrentRestart == ASSUME Inv, Current, Restart PROVE Current'
PROOF
  <1>1. \A p \in Requests : req'[p].pc = "idle"
    BY DEF Restart, Idle
  <1>2. cache'.stamp = None /\ UNCHANGED users
    BY DEF Restart, NoCache
  <1>3. CurrentStamp' = CurrentStamp /\ CurrentStamp # None
    BY <1>2, StampIsSome DEF CurrentStamp
  <1> QED
    BY <1>1, <1>2, <1>3 DEF Current

\* Where the steps that change a record alone lead.
LEMMA NotToCheck ==
    ASSUME Inv, NEW p \in Requests,
           LockUsers(p) \/ LockInsts(p) \/ TruncateInsts(p) \/ WriteFails(p)
    PROVE  (\E r : Set(p, r) /\ r.pc # "check") /\ UNCHANGED <<users, cache>>
PROOF
  <1>1. req[p] \in Request /\ Idle.pc # "check"
    BY Typed DEF Idle
  <1>2. CASE LockUsers(p)
    <2> DEFINE r == req[p]
    <2>1. \/ Set(p, Idle)
          \/ \E place \in {"insts", "writeUsers"} : \E new, carried :
                Set(p, [r EXCEPT !.pc = place, !.newUsers = new, !.carried = carried])
      BY <1>2 DEF LockUsers
    <2>2. ASSUME NEW place \in {"insts", "writeUsers"}, NEW new, NEW carried
          PROVE  [r EXCEPT !.pc = place, !.newUsers = new, !.carried = carried].pc
                    # "check"
      BY <1>1 DEF Request
    <2>3. UNCHANGED <<users, cache>>
      BY <1>2 DEF LockUsers
    <2>4. \E s : Set(p, s) /\ s.pc # "check"
      BY <1>1, <2>1, <2>2
    <2> QED
      BY <2>3, <2>4
  <1>3. CASE LockInsts(p)
    <2>1. [req[p] EXCEPT !.pc = "writeUsers"].pc # "check"
      BY <1>1 DEF Request
    <2>2. [req[p] EXCEPT !.pc = "writeInsts", !.newInsts = ChangedInsts(req[p])].pc
             # "check"
      BY <1>1 DEF Request
    <2> QED
      BY <1>1, <1>3, <2>1, <2>2 DEF LockInsts
  <1>4. CASE TruncateInsts(p)
    <2>1. [req[p] EXCEPT !.pc = "fillInsts"].pc # "check"
      BY <1>1 DEF Request
    <2> QED
      BY <1>4, <2>1 DEF TruncateInsts
  <1>5. CASE WriteFails(p)
    BY <1>1, <1>5 DEF WriteFails
  <1> QED
    BY <1>2, <1>3, <1>4, <1>5

\* Every step keeps the flags as new as their stamp.
LEMMA CurrentNext == Inv /\ Current /\ [Next]_vars => Current'
PROOF
  <1> SUFFICES ASSUME Inv, Current, [Next]_vars PROVE Current'
    OBVIOUS
  <1>1. CASE UNCHANGED vars
    BY <1>1 DEF Current, CurrentStamp, vars
  <1>2. ASSUME NEW p \in Requests, Arrive(p) \/ Stat(p) PROVE Current'
    <2>1. CASE Arrive(p)
      BY <2>1, Arrived, CurrentAside DEF Arrive, New
    <2>2. CASE Stat(p)
      <3>1. Set(p, Statted(req[p])) /\ UNCHANGED <<users, cache>>
            /\ Statted(req[p]).stamp = CurrentStamp
            /\ Statted(req[p]).seen = {users.admin}
        BY <2>2, Typed, StattedFields DEF Stat
      <3> QED
        BY <3>1, CurrentAside
    <2> QED
      BY <1>2, <2>1, <2>2
  <1>3. ASSUME NEW p \in Requests, LockUsers(p) \/ LockInsts(p) \/ TruncateInsts(p)
                                     \/ WriteFails(p)
        PROVE  Current'
    BY <1>3, NotToCheck, CurrentAside
  <1>4. ASSUME NEW p \in Requests, WriteUsers(p) \/ FillUsers(p) \/ TruncateUsers(p)
                                     \/ WriteInsts(p) \/ FillInsts(p)
        PROVE  Current'
    BY <1>4, CurrentUsersWritten, CurrentTruncate, CurrentInstsWritten
       DEF WriteUsers, FillUsers, WriteInsts, FillInsts
  <1> QED
    BY <1>1, <1>2, <1>3, <1>4, CurrentCheck, CurrentRestart DEF Next, Write

\* Only its own check, or the end of the process, takes a request out of one.
LEMMA LeavesCheck ==
    ASSUME Inv, Next, NEW p \in Requests, req[p].pc = "check", req'[p].pc # "check"
    PROVE  Check(p) \/ Restart
PROOF
  <1>1. ASSUME NEW q \in Requests, q # p,
               \E r : Set(q, r) \/ Uncarried(q, r) \/ (\E f : Witnessed(q, f, r))
        PROVE  FALSE
    BY <1>1, Typed DEF Set, Uncarried, Witnessed, Request
  <1>2. ASSUME NEW q \in Requests, q # p,
               \/ Arrive(q) \/ Stat(q) \/ Check(q) \/ LockUsers(q) \/ LockInsts(q)
               \/ Write(q) \/ WriteFails(q)
        PROVE  FALSE
    <2>1. CASE Arrive(q)
      BY <1>1, <1>2, <2>1, Arrived
    <2>2. CASE LockUsers(q) \/ LockInsts(q) \/ TruncateInsts(q) \/ WriteFails(q)
      BY <1>1, <1>2, <2>2, NotToCheck
    <2>3. CASE Stat(q) \/ Check(q) \/ TruncateUsers(q)
      BY <1>1, <1>2, <2>3 DEF Stat, Check, TruncateUsers
    <2>4. CASE WriteUsers(q) \/ FillUsers(q)
      BY <1>1, <1>2, <2>4 DEF WriteUsers, FillUsers, UsersWritten
    <2>5. CASE WriteInsts(q) \/ FillInsts(q)
      BY <1>1, <1>2, <2>5 DEF WriteInsts, FillInsts, InstsWritten
    <2> QED
      BY <1>2, <2>1, <2>2, <2>3, <2>4, <2>5 DEF Write
  <1>3. \/ Check(p) \/ Restart
        \/ Arrive(p) \/ Stat(p) \/ LockUsers(p) \/ LockInsts(p) \/ Write(p)
        \/ WriteFails(p)
    BY <1>2 DEF Next
  <1> QED
    BY <1>3 DEF Arrive, Stat, LockUsers, LockInsts, Write, WriteUsers, TruncateUsers,
                FillUsers, WriteInsts, TruncateInsts, FillInsts, WriteFails

\* An admin check answers with flags that users.json held at a moment of that
\* check, whatever is written meanwhile and whichever check has filled the cache.
THEOREM ChecksAreCurrent == Spec => CheckIsCurrent
PROOF
  <1>1. Inv /\ Current /\ [Next]_vars =>
          [\A p \in Requests :
             (/\ req[p].pc = "check" /\ req'[p].pc # "check"
              /\ cache'.loaded
              /\ users.state # "half") => cache'.set \in req[p].seen]_vars
    <2> SUFFICES ASSUME Inv, Current, Next, NEW p \in Requests,
                        req[p].pc = "check", req'[p].pc # "check",
                        cache'.loaded, users.state # "half"
                 PROVE  cache'.set \in req[p].seen
      OBVIOUS
    <2>1. CASE Check(p)
      BY <2>1, CheckAnswers
    <2>2. CASE Restart
      BY <2>2 DEF Restart, NoCache
    <2> QED
      BY <2>1, <2>2, LeavesCheck
  <1>2. Spec => []Current
    BY InvAlways, CurrentInit, CurrentNext, PTL DEF Spec
  <1> QED
    BY <1>1, <1>2, InvAlways, PTL DEF Spec, CheckIsCurrent

=============================================================================
