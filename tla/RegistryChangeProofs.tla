------------------------ MODULE RegistryChangeProofs ------------------------
(* Proofs about what the requests make of the two registries.               *)
EXTENDS RegistryProofs

\* A step of one request.
Step(q) == \/ Arrive(q) \/ Stat(q) \/ Check(q) \/ LockUsers(q) \/ LockInsts(q)
           \/ Write(q) \/ WriteFails(q)

----------------------------------------------------------------------------
(* What a step leaves alone                                                *)

\* Another request has all it has, but for what it has seen, and it has no more
\* to carry.
Untouched(s, r) ==
    /\ Same(s, r)
    /\ s.flag = r.flag /\ s.entitled = r.entitled /\ s.newUsers = r.newUsers
    /\ s.newInsts = r.newInsts /\ s.user = r.user /\ s.isAdmin = r.isAdmin
    /\ s.sent = r.sent /\ s.owner = r.owner /\ s.readers = r.readers
    /\ s.carried \subseteq r.carried

\* No step of one request changes what another asks, or what it has read.
LEMMA OthersUntouched ==
    ASSUME Inv, NEW q \in Requests, Step(q), NEW p \in Requests, p # q
    PROVE  Untouched(req'[p], req[p])
PROOF
  <1>1. ASSUME NEW r, Set(q, r) PROVE Untouched(req'[p], req[p])
    BY <1>1, Typed DEF Set, Untouched, Same
  <1>2. ASSUME NEW r, NEW f, Witnessed(q, f, r) PROVE Untouched(req'[p], req[p])
    <2>1. \/ req'[p] = req[p]
          \/ req'[p] = [req[p] EXCEPT !.seen = @ \cup {f}]
      BY <1>2 DEF Witnessed
    <2> QED
      BY <2>1, Typed DEF Untouched, Same, Request
  <1>3. ASSUME NEW r, Uncarried(q, r) PROVE Untouched(req'[p], req[p])
    <2>1. req'[p] = [req[p] EXCEPT !.carried = @ \ {req[q].inst}]
      BY <1>3 DEF Uncarried
    <2> QED
      BY <2>1, Typed DEF Untouched, Same, Request
  <1>4. CASE Arrive(q)
    BY <1>1, <1>4, Arrived
  <1>5. CASE LockUsers(q) \/ LockInsts(q) \/ TruncateInsts(q) \/ WriteFails(q)
    BY <1>1, <1>5, NotToCheck
  <1>6. CASE Stat(q) \/ Check(q) \/ TruncateUsers(q)
    BY <1>1, <1>6 DEF Stat, Check, TruncateUsers
  <1>7. CASE WriteUsers(q) \/ FillUsers(q)
    BY <1>2, <1>7 DEF WriteUsers, FillUsers, UsersWritten
  <1>8. CASE WriteInsts(q) \/ FillInsts(q)
    BY <1>3, <1>8 DEF WriteInsts, FillInsts, InstsWritten
  <1> QED
    BY <1>4, <1>5, <1>6, <1>7, <1>8 DEF Step, Write

\* Two requests do not hold the same mutex.
LEMMA Exclusive ==
    ASSUME Inv, NEW p \in Requests, NEW q \in Requests
    PROVE  /\ HoldsUsers(req[p]) /\ HoldsUsers(req[q]) => p = q
           /\ HoldsInsts(req[p]) /\ HoldsInsts(req[q]) => p = q
  BY DEF Inv, Locks

\* A request that holds the mutex of users.json after its step has just taken
\* it, or goes on with what it asks and what it has loaded.
Goes(s, r) == /\ s.kind = r.kind /\ s.by = r.by /\ s.who = r.who /\ s.to = r.to
              /\ s.todo = r.todo /\ s.flag = r.flag /\ s.entitled = r.entitled
              /\ s.newUsers = r.newUsers /\ s.carried = r.carried

\* The record a write of users.json leaves behind.
Rest(r) == [r EXCEPT !.todo = @ \ {NextPart(r)}, !.newUsers = NoData, !.carried = {},
                     !.who = IF Renames(r) THEN r.to ELSE @]

After(r) == IF r.kind = "patch" THEN Onward(Rest(r)) ELSE Idle

\* It is a request, with the same sender.
LEMMA RestFields ==
    ASSUME NEW r \in Request
    PROVE  LET s == Rest(r)
           IN  /\ s \in Request
               /\ s.kind = r.kind /\ s.by = r.by /\ s.to = r.to
               /\ s.flag = r.flag /\ s.entitled = r.entitled
PROOF
  <1> DEFINE todo == r.todo \ {NextPart(r)}
             who == IF Renames(r) THEN r.to ELSE r.who
             a == [r EXCEPT !.todo = todo]
             b == [a EXCEPT !.newUsers = NoData]
             c == [b EXCEPT !.carried = {}]
             d == [c EXCEPT !.who = who]
             Ask(s) == /\ s.kind = r.kind /\ s.by = r.by /\ s.to = r.to
                       /\ s.flag = r.flag /\ s.entitled = r.entitled
  <1>1. todo \in SUBSET Parts /\ who \in Users \cup {None}
    BY DEF Request
  <1>2. Rest(r) = d
    BY DEF Rest
  <1> HIDE DEF todo, who
  <1>3. a \in Request /\ Ask(a)
    BY <1>1 DEF Request
  <1> HIDE DEF a
  <1>4. b \in Request /\ Ask(b)
    BY <1>3 DEF Request, NoData, UserData
  <1> HIDE DEF b
  <1>5. c \in Request /\ Ask(c)
    BY <1>4 DEF Request
  <1> HIDE DEF c
  <1>6. d \in Request /\ Ask(d)
    BY <1>1, <1>5 DEF Request
  <1> QED
    BY <1>2, <1>6

\* After its write a request lets go of users.json; it comes back only for what
\* nothing refuses.
LEMMA AfterFields ==
    ASSUME NEW r \in Request
    PROVE  LET s == After(r)
           IN  \/ s = Idle
              \/ /\ s.pc = "users" /\ r.kind = "patch" /\ s.kind = r.kind
                 /\ s.by = r.by /\ s.entitled = r.entitled /\ ~Refused(s)
PROOF
  <1>1. CASE r.kind # "patch"
    BY <1>1 DEF After
  <1>2. CASE r.kind = "patch"
    <2> DEFINE d == Rest(r)
               s == Onward(d)
    <2>1. d \in Request /\ d.kind = r.kind /\ d.by = r.by /\ d.entitled = r.entitled
      BY RestFields
    <2>2. After(r) = s
      BY <1>2 DEF After
    <2> HIDE DEF d
    <2>3. \/ s = Idle
          \/ /\ s.pc = "users" /\ s.kind = d.kind /\ s.by = d.by /\ s.who = d.who
             /\ s.todo = d.todo /\ s.flag = d.flag /\ s.entitled = d.entitled
             /\ ~Refused(d)
      BY <2>1, OnwardFields
    <2>4. CASE s = Idle
      BY <2>2, <2>4
    <2>5. CASE s # Idle
      <3> HIDE DEF s
      <3>1. ~Refused(s)
        BY <2>3, <2>5 DEF Refused, OwnOrEnv, NextPart
      <3> QED
        BY <1>2, <2>1, <2>2, <2>3, <2>5, <3>1
    <2> QED
      BY <2>4, <2>5
  <1> QED
    BY <1>1, <1>2

\* Where a step of p leads that holds the mutex of users.json afterwards.
LEMMA HolderGoes ==
    ASSUME Inv, NEW p \in Requests, Step(p), HoldsUsers(req'[p])
    PROVE  \/ LockUsers(p)
           \/ /\ HoldsUsers(req[p]) /\ Goes(req'[p], req[p])
              /\ \/ UNCHANGED users /\ "fillUsers" \notin {req[p].pc, req'[p].pc}
                 \/ TruncateUsers(p)
PROOF
  <1>1. req[p] \in Request /\ Shape(req[p]) /\ ~HoldsUsers(Idle)
    BY Typed, IdleShape
  <1>2. ASSUME NEW r, Set(p, r) PROVE req'[p] = r
    BY <1>2, Typed DEF Set
  <1>3. CASE Arrive(p)
    BY <1>2, <1>3, Arrived DEF New
  <1>4. CASE Stat(p)
    <2>1. Statted(req[p]).pc = "check"
      BY <1>1, StattedFields
    <2> QED
      BY <1>2, <1>4, <2>1 DEF Stat, HoldsUsers
  <1>5. CASE Check(p)
    <2> DEFINE r == req[p]
               s == Checked(r, cache'.set)
    <2>1. req'[p] = s /\ r.kind # "none"
      BY <1>1, <1>2, <1>5 DEF Check, Shape
    <2>2. \/ s = Idle \/ s.pc = "users" \/ s.pc = "stat"
          \/ s.pc = "insts" /\ s.kind = r.kind /\ r.kind \notin AdminKinds
      BY <1>1, <2>1, CheckedFields
    <2> HIDE DEF s
    <2> QED
      BY <1>1, <2>1, <2>2 DEF HoldsUsers, AdminKinds
  <1>6. CASE LockInsts(p)
    <2> DEFINE r == req[p]
               s == [r EXCEPT !.pc = "writeUsers"]
               t == [r EXCEPT !.pc = "writeInsts", !.newInsts = ChangedInsts(r)]
    <2>1. r.pc = "insts" /\ (req'[p] = Idle \/ req'[p] = t
             \/ (r.kind = "patch" /\ req'[p] = s)) /\ UNCHANGED users
      BY <1>2, <1>6 DEF LockInsts
    <2>2. Goes(s, r) /\ Goes(t, r) /\ s.pc = "writeUsers" /\ t.pc = "writeInsts"
      BY <1>1 DEF Request, Goes
    <2> HIDE DEF s, t
    <2> QED
      BY <1>1, <2>1, <2>2 DEF HoldsUsers, Goes
  <1>7. CASE WriteUsers(p) \/ FillUsers(p)
    <2>1. req'[p] = After(req[p])
      BY <1>7 DEF WriteUsers, FillUsers, UsersWritten, Witnessed, After, Rest
    <2> QED
      BY <1>1, <2>1, AfterFields DEF HoldsUsers
  <1>8. CASE TruncateUsers(p)
    <2> DEFINE s == [req[p] EXCEPT !.pc = "fillUsers"]
    <2>1. req'[p] = s /\ req[p].pc = "writeUsers"
      BY <1>2, <1>8 DEF TruncateUsers
    <2>2. Goes(s, req[p])
      BY <1>1 DEF Request, Goes
    <2> QED
      BY <1>8, <2>1, <2>2 DEF HoldsUsers
  <1>9. CASE WriteInsts(p) \/ FillInsts(p)
    <2> DEFINE r == req[p]
               s == [r EXCEPT !.pc = "writeUsers", !.newInsts = NoConfig]
    <2>1. /\ r.pc \in {"writeInsts", "fillInsts"} /\ UNCHANGED users
          /\ req'[p] = IF r.kind = "patch" THEN s ELSE Idle
      BY <1>9 DEF WriteInsts, FillInsts, InstsWritten, Uncarried
    <2>2. Goes(s, r) /\ s.pc = "writeUsers"
      BY <1>1 DEF Request, Goes
    <2> HIDE DEF s
    <2> QED
      BY <1>1, <2>1, <2>2 DEF HoldsUsers
  <1>10. CASE TruncateInsts(p)
    <2> DEFINE s == [req[p] EXCEPT !.pc = "fillInsts"]
    <2>1. req'[p] = s /\ req[p].pc = "writeInsts" /\ UNCHANGED users
      BY <1>2, <1>10 DEF TruncateInsts
    <2>2. Goes(s, req[p]) /\ s.pc = "fillInsts"
      BY <1>1 DEF Request, Goes
    <2> HIDE DEF s
    <2> QED
      BY <2>1, <2>2 DEF HoldsUsers, Goes
  <1>11. CASE WriteFails(p)
    BY <1>1, <1>2, <1>11 DEF WriteFails
  <1> QED
    BY <1>3, <1>4, <1>5, <1>6, <1>7, <1>8, <1>9, <1>10, <1>11 DEF Step, Write

\* users.json changes only when a request that holds its mutex writes it.
LEMMA WhoWritesUsers ==
    ASSUME Inv, NEW p \in Requests, Step(p), users' # users
    PROVE  /\ HoldsUsers(req[p])
           /\ \/ TruncateUsers(p)
              \/ req[p].pc \in {"writeUsers", "fillUsers"} /\ UsersWritten(p)
  BY DEF Step, Write, Arrive, Stat, Check, LockUsers, LockInsts, WriteUsers,
         TruncateUsers, FillUsers, WriteInsts, TruncateInsts, FillInsts,
         InstsWritten, WriteFails, HoldsUsers

\* So does instances.json.
LEMMA WhoWritesInsts ==
    ASSUME Inv, NEW p \in Requests, Step(p), insts' # insts
    PROVE  /\ HoldsInsts(req[p])
           /\ TruncateInsts(p) \/ InstsWritten(p)
  BY DEF Step, Write, Arrive, Stat, Check, LockUsers, LockInsts, WriteUsers,
         TruncateUsers, FillUsers, UsersWritten, WriteInsts, TruncateInsts, FillInsts,
         WriteFails, HoldsInsts

\* What a request has once it has taken the mutex of users.json.
LEMMA LockedUsers ==
    ASSUME Inv, NEW p \in Requests, LockUsers(p), req'[p] # Idle
    PROVE  LET r == req[p]
               s == req'[p]
               now == IF users.state = "whole"
                      THEN [known |-> users.known, admin |-> users.admin]
                      ELSE NoData
           IN  /\ r.pc = "users"
               /\ s.pc = IF Renames(r) THEN "insts" ELSE "writeUsers"
               /\ s.kind = r.kind /\ s.by = r.by /\ s.who = r.who /\ s.to = r.to
               /\ s.todo = r.todo /\ s.flag = r.flag /\ s.entitled = r.entitled
               /\ s.newUsers = ChangedUsers(r, now)
               /\ s.carried = IF ~Renames(r) THEN {} ELSE
                                {i \in Insts : Names(insts.cfg[i], r.who)}
               /\ r.kind \in {"signin", "add"} \/ r.who \in now.known
               /\ Renames(r) => r.to \notin now.known
PROOF
  <1> DEFINE r == req[p]
             now == IF users.state = "whole"
                    THEN [known |-> users.known, admin |-> users.admin] ELSE NoData
             changed == ChangedUsers(r, now)
             place == IF Renames(r) THEN "insts" ELSE "writeUsers"
             carried == IF ~Renames(r) THEN {} ELSE
                          {i \in Insts : Names(insts.cfg[i], r.who)}
             s == [r EXCEPT !.pc = place, !.newUsers = changed, !.carried = carried]
  <1>1. /\ r.pc = "users" /\ Set(p, s)
        /\ r.kind \in {"signin", "add"} \/ r.who \in now.known
        /\ Renames(r) => r.to \notin now.known
    BY Typed DEF LockUsers, Set
  <1>2. req'[p] = s /\ r \in Request
    BY <1>1, Typed DEF Set
  <1> HIDE DEF changed, place, carried
  <1>3. /\ s.pc = place /\ s.newUsers = changed /\ s.carried = carried
        /\ s.kind = r.kind /\ s.by = r.by /\ s.who = r.who /\ s.to = r.to
        /\ s.todo = r.todo /\ s.flag = r.flag /\ s.entitled = r.entitled
    BY <1>2 DEF Request
  <1> HIDE DEF s
  <1> QED
    BY <1>1, <1>2, <1>3 DEF changed, place, carried

\* Where the steps behind that one lead: never back in front of it.
LEMMA NeverBack ==
    ASSUME Inv, NEW p \in Requests,
           \/ Stat(p) \/ LockUsers(p) \/ LockInsts(p) \/ TruncateUsers(p)
           \/ TruncateInsts(p) \/ WriteInsts(p) \/ FillInsts(p) \/ WriteFails(p)
    PROVE  req'[p].pc # "users"
PROOF
  <1>1. req[p] \in Request /\ Idle.pc # "users"
    BY Typed DEF Idle
  <1>2. ASSUME NEW r, Set(p, r) PROVE req'[p] = r
    BY <1>2, Typed DEF Set
  <1>3. ASSUME NEW pc, pc # "users"
        PROVE  /\ [req[p] EXCEPT !.pc = pc].pc # "users"
               /\ \A c : [req[p] EXCEPT !.pc = pc, !.newInsts = c].pc # "users"
    BY <1>1, <1>3 DEF Request
  <1>4. CASE Stat(p)
    BY <1>1, <1>2, <1>4, StattedFields DEF Stat
  <1>5. CASE LockUsers(p)
    BY <1>1, <1>5, LockedUsers
  <1>6. CASE LockInsts(p)
    <2> DEFINE s == [req[p] EXCEPT !.pc = "writeUsers"]
               t == [req[p] EXCEPT !.pc = "writeInsts", !.newInsts = ChangedInsts(req[p])]
    <2>1. s.pc # "users" /\ t.pc # "users"
      BY <1>3
    <2>2. Set(p, Idle) \/ Set(p, s) \/ Set(p, t)
      BY <1>6 DEF LockInsts
    <2> HIDE DEF s, t
    <2> QED
      BY <1>1, <1>2, <2>1, <2>2
  <1>7. CASE TruncateUsers(p) \/ TruncateInsts(p) \/ WriteFails(p)
    BY <1>1, <1>2, <1>3, <1>7 DEF TruncateUsers, TruncateInsts, WriteFails
  <1>8. CASE WriteInsts(p) \/ FillInsts(p)
    <2> DEFINE s == [req[p] EXCEPT !.pc = "writeUsers", !.newInsts = NoConfig]
    <2>1. req'[p] = s \/ req'[p] = Idle
      BY <1>8 DEF WriteInsts, FillInsts, InstsWritten, Uncarried
    <2>2. s.pc # "users"
      BY <1>3
    <2> QED
      BY <1>1, <2>1, <2>2
  <1> QED
    BY <1>4, <1>5, <1>6, <1>7, <1>8

----------------------------------------------------------------------------
(* users.json                                                               *)

\* What the file holds, or held before it was cut short: its admins are users
\* it knows.
Registered ==
    /\ users.state = "missing" => users.known = {}
    /\ users.admin \subseteq users.known

OnFile == [known |-> users.known, admin |-> users.admin]

\* What a request that goes to users.json, or is there, has been granted.
AtUsers(r) == r.pc = "users" \/ HoldsUsers(r)

Granted(r) == AtUsers(r) /\ r.kind # "signin" => r.entitled /\ ~Refused(r)

\* A request that holds the mutex is about to write what it makes of the file
\* as it is, and the file still has what it looked for ...
OfFile(r) ==
    /\ r.newUsers = ChangedUsers(r, OnFile)
    /\ r.kind \in {"signin", "add"} \/ r.who \in users.known
    /\ Renames(r) => r.to \notin users.known

\* ... or starts over from a file it could not decode.
Loaded(r) ==
    HoldsUsers(r) =>
        \/ OfFile(r) /\ (users.state = "half" => r.pc = "fillUsers")
        \/ StartsOver(r) /\ users.state = "half"

UsersInv == /\ Registered
            /\ \A p \in Requests : Granted(req[p]) /\ Loaded(req[p])

\* A grant depends on what is asked alone.
LEMMA GrantedSame ==
    ASSUME NEW r, NEW s, s.kind = r.kind, s.who = r.who, s.by = r.by, s.todo = r.todo,
           s.flag = r.flag, s.entitled = r.entitled,
           AtUsers(s) => AtUsers(r), Granted(r)
    PROVE  Granted(s)
  BY DEF Granted, Refused, OwnOrEnv, NextPart

\* So does what a request makes of the file.
LEMMA LoadedSame ==
    ASSUME NEW r, NEW s, s.kind = r.kind, s.who = r.who, s.to = r.to,
           s.todo = r.todo, s.flag = r.flag, s.newUsers = r.newUsers,
           HoldsUsers(s) => HoldsUsers(r), Loaded(r),
           r.pc = "fillUsers" => s.pc = "fillUsers"
    PROVE  Loaded(s)
  BY DEF Loaded, OfFile, StartsOver, ChangedUsers, Renames, NextPart

\* A request that is not there has nothing to show.
LEMMA IdleGranted == Granted(Idle) /\ Loaded(Idle)
  BY IdleShape DEF Granted, Loaded, AtUsers, Idle

\* A step of p grants p nothing that its check has not found.
LEMMA GrantedStep ==
    ASSUME Inv, Current, UsersInv, NEW p \in Requests, Step(p)
    PROVE  Granted(req'[p])
PROOF
  <1>1. req[p] \in Request /\ Shape(req[p]) /\ Granted(req[p])
    BY Typed DEF UsersInv
  <1>2. ASSUME NEW r, Set(p, r) PROVE req'[p] = r
    BY <1>2, Typed DEF Set
  <1>3. CASE Arrive(p)
    BY <1>2, <1>3, Arrived DEF New, Granted, AtUsers, HoldsUsers
  <1>4. CASE Check(p)
    <2> DEFINE r == req[p]
               s == Checked(r, cache'.set)
    <2>1. /\ req'[p] = s /\ r.kind # "none" /\ r.kind # "signin"
          /\ users.state # "half" => cache'.set \in r.seen
      BY <1>1, <1>2, <1>4, CheckAnswers DEF Check, Shape
    <2>2. \/ s = Idle
          \/ /\ r.kind \in AdminKinds /\ IsAdmin(r.by, cache'.set)
             /\ s.kind = r.kind /\ s.by = r.by /\ s.who = r.who /\ s.todo = r.todo
             /\ s.flag = r.flag /\ ~Refused(r)
             /\ s.entitled = Entitled(r)
          \/ s.pc = "stat"
          \/ r.kind \notin AdminKinds /\ s.pc = "insts" /\ s.kind = r.kind
      BY <1>1, <2>1, CheckedFields
    <2> HIDE DEF s
    <2>3. CASE s = Idle
      BY <2>1, <2>3, IdleGranted
    <2>4. CASE /\ r.kind \in AdminKinds /\ IsAdmin(r.by, cache'.set)
               /\ s.kind = r.kind /\ s.by = r.by /\ s.who = r.who /\ s.todo = r.todo
               /\ s.flag = r.flag /\ ~Refused(r)
               /\ s.entitled = Entitled(r)
      <3>1. s.entitled
        BY <2>1, <2>4 DEF Entitled
      <3>2. ~Refused(s)
        BY <2>4 DEF Refused, OwnOrEnv, NextPart
      <3> QED
        BY <2>1, <3>1, <3>2 DEF Granted
    <2>5. CASE s.pc = "stat" \/ (r.kind \notin AdminKinds /\ s.pc = "insts"
                                   /\ s.kind = r.kind)
      BY <2>1, <2>5 DEF Granted, AtUsers, HoldsUsers, AdminKinds
    <2> QED
      BY <2>2, <2>3, <2>4, <2>5
  <1>5. CASE WriteUsers(p) \/ FillUsers(p)
    <2>1. req'[p] = After(req[p]) /\ req[p].pc \in {"writeUsers", "fillUsers"}
      BY <1>5 DEF WriteUsers, FillUsers, UsersWritten, Witnessed, After, Rest
    <2>2. AtUsers(req[p])
      BY <2>1 DEF AtUsers, HoldsUsers
    <2>3. \/ req'[p] = Idle
          \/ /\ req[p].kind = "patch" /\ req'[p].kind = req[p].kind
             /\ req'[p].entitled = req[p].entitled /\ ~Refused(req'[p])
      BY <1>1, <2>1, AfterFields
    <2> QED
      BY <1>1, <2>2, <2>3, IdleGranted DEF Granted
  <1>6. CASE ~(Arrive(p) \/ Check(p) \/ WriteUsers(p) \/ FillUsers(p))
             /\ AtUsers(req'[p])
    <2>1. HoldsUsers(req'[p])
      BY <1>6, NeverBack DEF AtUsers, Step, Write
    <2>2. CASE LockUsers(p)
      <3>1. CASE req'[p] = Idle
        BY <3>1, IdleGranted
      <3>2. CASE req'[p] # Idle
        BY <1>1, <2>2, <3>2, LockedUsers, GrantedSame DEF AtUsers
      <3> QED
        BY <3>1, <3>2
    <2>3. CASE ~LockUsers(p)
      <3>1. HoldsUsers(req[p]) /\ Goes(req'[p], req[p])
        BY <2>1, <2>3, HolderGoes
      <3> QED
        BY <1>1, <3>1, GrantedSame DEF Goes, AtUsers
    <2> QED
      BY <2>2, <2>3
  <1>7. CASE ~AtUsers(req'[p])
    BY <1>7 DEF Granted
  <1> QED
    BY <1>3, <1>4, <1>5, <1>6, <1>7

\* What a write makes of the file.
Written(r, now, new) ==
    LET about == IF Renames(r) THEN {r.who, r.to} ELSE {r.who}
    IN  /\ Changes(now.known, new.known) \subseteq about
        /\ Changes(now.admin, new.admin) \subseteq about
        /\ new.admin \subseteq new.known
        /\ r.kind \in {"signin", "add"} => new.admin = now.admin
        /\ Renames(r) => (r.to \in new.admin <=> r.who \in now.admin)
        /\ ~Refused(r) /\ now.admin # {} /\ new.admin = {} => r.by \notin now.admin

\* A write changes the user it is about alone, and takes the last administrator
\* away only for somebody else.
LEMMA ChangedAbout ==
    ASSUME NEW r \in Request, NEW now \in UserData, now.admin \subseteq now.known,
           r.kind \in AdminKinds \cup {"signin"},
           r.kind \in {"signin", "add"} \/ r.who \in now.known,
           Renames(r) => r.to \notin now.known /\ r.to # r.who
    PROVE  Written(r, now, ChangedUsers(r, now))
PROOF
  <1> DEFINE K == now.known
             A == now.admin
             K2 == ChangedUsers(r, now).known
             A2 == ChangedUsers(r, now).admin
             about == IF Renames(r) THEN {r.who, r.to} ELSE {r.who}
  <1>0. SUFFICES /\ Changes(K, K2) \subseteq about
                 /\ Changes(A, A2) \subseteq about
                 /\ A2 \subseteq K2
                 /\ r.kind \in {"signin", "add"} => A2 = A
                 /\ Renames(r) => (r.to \in A2 <=> r.who \in A)
                 /\ ~Refused(r) /\ r.by \in A => A2 # {}
    BY Zenon DEF Written
  <1>1. CASE r.kind \in {"signin", "add"}
    <2>1. K2 = K \cup {r.who} /\ A2 = A
      BY <1>1 DEF ChangedUsers, Renames, UserData
    <2>2. ~Renames(r) /\ about = {r.who}
      BY <1>1 DEF Renames
    <2> HIDE DEF K, A, K2, A2, about
    <2> QED
      BY <2>1, <2>2 DEF Changes, K, A
  <1>2. CASE r.kind = "delete"
    <2>1. K2 = K \ {r.who} /\ A2 = A \ {r.who}
      BY <1>2 DEF ChangedUsers, Renames
    <2>2. ~Renames(r) /\ about = {r.who} /\ r.kind \notin {"signin", "add"}
      BY <1>2 DEF Renames
    <2>3. ~Refused(r) => r.by # r.who
      BY <1>2 DEF Refused, OwnOrEnv
    <2> HIDE DEF K2, A2, about
    <2> QED
      BY <2>1, <2>2, <2>3 DEF Changes
  <1>3. CASE Renames(r)
    <2>1. K2 = RenameIn(K, r.who, r.to) /\ A2 = RenameIn(A, r.who, r.to)
      BY <1>3 DEF ChangedUsers, Renames
    <2>2. about = {r.who, r.to} /\ r.kind \notin {"signin", "add"}
      BY <1>3 DEF Renames
    <2>3. r.who \in K /\ r.to \notin K /\ r.to \notin A /\ r.to # r.who
      BY <1>3, <2>2
    <2> HIDE DEF K2, A2, about
    <2>4. K2 = (K \ {r.who}) \cup {r.to}
      BY <2>1, <2>3 DEF RenameIn
    <2>5. CASE r.who \in A
      <3>1. A2 = (A \ {r.who}) \cup {r.to}
        BY <2>1, <2>5 DEF RenameIn
      <3> QED
        BY <1>3, <2>2, <2>3, <2>4, <2>5, <3>1 DEF Changes
    <2>6. CASE r.who \notin A
      <3>1. A2 = A
        BY <2>1, <2>6 DEF RenameIn
      <3> QED
        BY <1>3, <2>2, <2>3, <2>4, <2>6, <3>1 DEF Changes
    <2> QED
      BY <2>5, <2>6
  <1>4. CASE r.kind = "patch" /\ ~Renames(r)
    <2>1. K2 = K
      BY <1>4 DEF ChangedUsers, UserData
    <2>2. about = {r.who} /\ r.kind \notin {"signin", "add"} /\ r.who \in K
      BY <1>4
    <2>3. \/ NextPart(r) = "admin" /\ r.flag /\ A2 = A \cup {r.who}
          \/ NextPart(r) = "admin" /\ ~r.flag /\ A2 = A \ {r.who}
          \/ A2 = A
      BY <1>4 DEF ChangedUsers, UserData
    <2>4. ~Refused(r) /\ NextPart(r) = "admin" /\ ~r.flag => r.by # r.who
      BY <1>4 DEF Refused, OwnOrEnv
    <2> HIDE DEF K2, A2, about
    <2> QED
      BY <1>4, <2>1, <2>2, <2>3, <2>4 DEF Changes
  <1> QED
    BY <1>1, <1>2, <1>3, <1>4 DEF AdminKinds

\* What is about to be written is about the user of the request, unless the
\* file is lost.
LEMMA HolderWrites ==
    ASSUME Inv, UsersInv, NEW p \in Requests, HoldsUsers(req[p]), OfFile(req[p])
    PROVE  Written(req[p], OnFile, req[p].newUsers)
PROOF
  <1> DEFINE r == req[p]
  <1>1. r \in Request /\ Shape(r) /\ Registered
    BY Typed DEF UsersInv
  <1>2. r.kind \in AdminKinds \cup {"signin"}
    BY <1>1 DEF Shape, HoldsUsers, UsersPlaces, AdminKinds
  <1>3. Renames(r) => r.to # r.who
    BY <1>1 DEF Shape, HoldsUsers, Renames, NextPart
  <1>4. OnFile \in UserData /\ OnFile.known = users.known
        /\ OnFile.admin = users.admin
    BY Typed DEF OnFile, UserData, UsersFile
  <1> HIDE DEF r
  <1> QED
    BY <1>1, <1>2, <1>3, <1>4, ChangedAbout DEF OfFile, Registered, r

\* A holder that does not write what it makes of the file starts it over, and
\* the file is lost.
LEMMA OrLost ==
    ASSUME Inv, UsersInv, NEW p \in Requests, HoldsUsers(req[p])
    PROVE  /\ OfFile(req[p]) \/ StartsOver(req[p])
           /\ StartsOver(req[p]) /\ users.state = "half" => UsersLost
           /\ ~UsersLost => OfFile(req[p])
PROOF
  <1>1. ASSUME NEW q \in Requests, req[q].pc = "fillUsers" PROVE q = p
    BY <1>1, Exclusive DEF HoldsUsers
  <1>2. Loaded(req[p])
    BY DEF UsersInv
  <1> QED
    BY <1>1, <1>2 DEF Loaded, UsersLost

\* Nobody has begun anything.
LEMMA UsersInit == Init => UsersInv
PROOF
  <1> SUFFICES ASSUME Init PROVE UsersInv
    OBVIOUS
  <1>1. \A p \in Requests : req[p] = Idle
    BY DEF Init
  <1>2. Registered
    BY DEF Init, Registered
  <1> QED
    BY <1>1, <1>2, IdleGranted DEF UsersInv

\* What a request has loaded once it holds the mutex.
LEMMA LoadedByLock ==
    ASSUME Inv, UsersInv, NEW p \in Requests, LockUsers(p), HoldsUsers(req'[p])
    PROVE  Loaded(req'[p])
PROOF
  <1> DEFINE r == req[p]
             s == req'[p]
             now == IF users.state = "whole"
                    THEN [known |-> users.known, admin |-> users.admin]
                    ELSE NoData
  <1>1. req'[p] # Idle
    BY IdleShape
  <1>2. /\ s.kind = r.kind /\ s.who = r.who /\ s.to = r.to
        /\ s.todo = r.todo /\ s.flag = r.flag
        /\ s.newUsers = ChangedUsers(r, now)
        /\ r.kind \in {"signin", "add"} \/ r.who \in now.known
        /\ Renames(r) => r.to \notin now.known
    BY <1>1, LockedUsers
  <1>3. ChangedUsers(s, now) = ChangedUsers(r, now) /\ (Renames(s) <=> Renames(r))
    BY <1>2 DEF ChangedUsers, Renames, NextPart
  <1>4. CASE users.state # "half"
    <2>1. now = OnFile /\ now.known = users.known
      BY <1>4, Typed DEF UsersFile, UsersInv, Registered, NoData, OnFile
    <2> HIDE DEF now, r, s
    <2> QED
      BY <1>2, <1>3, <1>4, <2>1 DEF Loaded, OfFile, s
  <1>5. CASE users.state = "half"
    <2>1. now = NoData /\ now.known = {}
      BY <1>5 DEF NoData
    <2>2. r.kind \in {"signin", "add"}
      BY <1>2, <2>1
    <2>3. ChangedUsers(r, NoData) = [NoData EXCEPT !.known = @ \cup {r.who}]
      BY <2>2 DEF ChangedUsers, Renames
    <2>4. ChangedUsers(r, NoData) = [known |-> {r.who}, admin |-> {}]
      BY <2>3 DEF NoData
    <2> QED
      BY <1>2, <1>5, <2>1, <2>2, <2>4 DEF Loaded, StartsOver
  <1> QED
    BY <1>4, <1>5

\* Only a request that holds the mutex changes what the file holds.
LEMMA UsersStep ==
    ASSUME Inv, Current, UsersInv, NEW p \in Requests, Step(p)
    PROVE  UsersInv'
PROOF
  <1>1. ASSUME NEW q \in Requests \ {p} PROVE Granted(req'[q])
    <2>1. Untouched(req'[q], req[q]) /\ Granted(req[q])
      BY OthersUntouched DEF UsersInv
    <2>2. AtUsers(req'[q]) <=> AtUsers(req[q])
      BY <2>1, SameKeeps DEF Untouched, Same, AtUsers
    <2> QED
      BY <2>1, <2>2, GrantedSame DEF Untouched, Same
  <1>2. \A q \in Requests : Granted(req'[q])
    BY <1>1, GrantedStep
  <1>3. CASE users' = users
    <2>1. Registered'
      BY <1>3 DEF UsersInv, Registered
    <2>2. ASSUME NEW q \in Requests \ {p} PROVE Loaded(req'[q])
      <3>1. Untouched(req'[q], req[q]) /\ Loaded(req[q])
        BY OthersUntouched DEF UsersInv
      <3>2. HoldsUsers(req'[q]) <=> HoldsUsers(req[q])
        BY <3>1, SameKeeps DEF Untouched
      <3> QED
        BY <3>1, <3>2, LoadedSame DEF Untouched, Same
    <2>3. Loaded(req'[p])
      <3>1. CASE ~HoldsUsers(req'[p])
        BY <3>1 DEF Loaded
      <3>2. CASE HoldsUsers(req'[p]) /\ LockUsers(p)
        BY <3>2, LoadedByLock
      <3>3. CASE HoldsUsers(req'[p]) /\ ~LockUsers(p)
        <4>1. HoldsUsers(req[p]) /\ Goes(req'[p], req[p]) /\ Loaded(req[p])
          BY <3>3, HolderGoes DEF UsersInv
        <4>2. req[p].pc # "fillUsers" \/ TruncateUsers(p)
          BY <3>3, HolderGoes
        <4>3. req[p].pc # "fillUsers"
          BY <4>2 DEF TruncateUsers
        <4> QED
          BY <4>1, <4>3, LoadedSame DEF Goes
      <3> QED
        BY <3>1, <3>2, <3>3
    <2>4. \A q \in Requests : Loaded(req'[q])
      BY <2>2, <2>3
    <2> QED
      BY <1>2, <1>3, <2>1, <2>4 DEF UsersInv, Loaded, OfFile, OnFile
  <1>4. ASSUME users' # users, NEW q \in Requests \ {p} PROVE ~HoldsUsers(req'[q])
    BY <1>4, OthersUntouched, WhoWritesUsers, Exclusive, SameKeeps DEF Untouched
  <1>5. ASSUME users' # users, TruncateUsers(p) PROVE UsersInv'
    <2>1. /\ users'.state = "half" /\ users'.known = users.known
          /\ users'.admin = users.admin
      <3>1. PICK t : users' = [users EXCEPT !.state = "half", !.stamp = t]
        BY <1>5 DEF TruncateUsers
      <3> QED
        BY <3>1, Typed DEF UsersFile
    <2>2. Registered'
      BY <2>1 DEF UsersInv, Registered
    <2> DEFINE s == [req[p] EXCEPT !.pc = "fillUsers"]
    <2>3. req'[p] = s /\ HoldsUsers(req[p])
      BY <1>5, Typed DEF TruncateUsers, Set, HoldsUsers
    <2>4. s.pc = "fillUsers" /\ Goes(s, req[p])
      BY Typed DEF Request, Goes
    <2>5. OfFile(req[p]) \/ StartsOver(req[p])
      BY <2>3, OrLost
    <2>6. req'[p].pc = "fillUsers" /\ Goes(req'[p], req[p])
      BY <2>3, <2>4
    <2> HIDE DEF s
    <2>7. Loaded(req[p])'
      <3>1. CASE OfFile(req[p])
        BY <2>1, <2>6, <3>1 DEF Goes, Loaded, OfFile, OnFile, ChangedUsers, Renames,
                                NextPart
      <3>2. CASE StartsOver(req[p])
        BY <2>1, <2>6, <3>2 DEF Goes, Loaded, StartsOver
      <3> QED
        BY <2>5, <3>1, <3>2
    <2>8. \A q \in Requests : Loaded(req[q])'
      BY <1>4, <1>5, <2>7 DEF Loaded
    <2> QED
      BY <1>2, <2>2, <2>8 DEF UsersInv
  <1>6. ASSUME users' # users, ~TruncateUsers(p) PROVE UsersInv'
    <2>1. HoldsUsers(req[p]) /\ UsersWritten(p)
      BY <1>6, WhoWritesUsers
    <2>2. users'.state = "whole" /\ users'.known = req[p].newUsers.known
          /\ users'.admin = req[p].newUsers.admin
      BY <2>1 DEF UsersWritten
    <2>3. ASSUME OfFile(req[p]) PROVE Registered'
      BY <2>1, <2>2, <2>3, HolderWrites DEF Written, Registered
    <2>4. ASSUME StartsOver(req[p]) PROVE Registered'
      BY <2>2, <2>4 DEF StartsOver, Registered
    <2>5. ~HoldsUsers(req'[p])
      <3>1. req'[p] = After(req[p])
        BY <2>1 DEF UsersWritten, Witnessed, After, Rest
      <3> QED
        BY <3>1, AfterFields, IdleShape, Typed DEF HoldsUsers
    <2>6. \A q \in Requests : ~HoldsUsers(req'[q])
      BY <1>4, <1>6, <2>5
    <2>7. Registered'
      BY <2>1, <2>3, <2>4, OrLost
    <2> QED
      BY <1>2, <2>6, <2>7 DEF UsersInv, Loaded
  <1> QED
    BY <1>3, <1>5, <1>6

\* What nobody writes stays as it is, and the end of the process ends every
\* request.
LEMMA UsersNext == Inv /\ Current /\ UsersInv /\ [Next]_vars => UsersInv'
PROOF
  <1> SUFFICES ASSUME Inv, Current, UsersInv, [Next]_vars PROVE UsersInv'
    OBVIOUS
  <1>1. CASE UNCHANGED vars
    BY <1>1 DEF UsersInv, Registered, Loaded, OfFile, OnFile, vars
  <1>2. CASE Restart
    <2>1. \A p \in Requests : req'[p] = Idle
      BY <1>2 DEF Restart
    <2>2. Registered'
      BY <1>2 DEF Restart, UsersInv, Registered
    <2>3. Granted(Idle) /\ ~HoldsUsers(Idle)
      BY IdleGranted, IdleShape
    <2> QED
      BY <2>1, <2>2, <2>3 DEF UsersInv, Loaded
  <1>3. CASE \E p \in Requests : Step(p)
    BY <1>3, UsersStep
  <1> QED
    BY <1>1, <1>2, <1>3 DEF Next, Step

\* What users.json holds is what the registrations and removals have made.
LEMMA UsersAlways == Spec => []UsersInv
PROOF
  <1>1. Spec => []Current
    BY InvAlways, CurrentInit, CurrentNext, PTL DEF Spec
  <1> QED
    BY <1>1, UsersInit, UsersNext, InvAlways, PTL DEF Spec

\* The write a request is credited with is its own.
LEMMA OwnWrite ==
    ASSUME Inv, UsersInv, Next, NEW p \in Requests, WritesUsers(p), ~UsersLost
    PROVE  /\ Written(req[p], OnFile, req[p].newUsers) /\ Granted(req[p])
           /\ AtUsers(req[p])
           /\ users'.known = req[p].newUsers.known
           /\ users'.admin = req[p].newUsers.admin
PROOF
  <1>1. HoldsUsers(req[p]) /\ users' # users /\ users'.state = "whole"
    BY DEF WritesUsers, HoldsUsers
  <1>2. ~Restart
    BY <1>1 DEF Restart
  <1>3. PICK q \in Requests : Step(q)
    BY <1>2 DEF Next, Step
  <1>4. ~TruncateUsers(q)
    BY <1>1, Typed DEF TruncateUsers, UsersFile
  <1>5. HoldsUsers(req[q]) /\ UsersWritten(q)
    BY <1>1, <1>3, <1>4, WhoWritesUsers
  <1>6. q = p
    BY <1>1, <1>5, Exclusive
  <1>7. Written(req[p], OnFile, req[p].newUsers) /\ Granted(req[p])
    BY <1>1, OrLost, HolderWrites DEF UsersInv
  <1> QED
    BY <1>1, <1>5, <1>6, <1>7 DEF UsersWritten, AtUsers

\* Wherever the file is and whatever its disk does, a request changes the user
\* it is about alone, it was sent by an administrator, and it undoes nothing
\* another request has written, unless the file has been lost.
THEOREM UsersChangeOnRequest == Spec => UsersChangeByRequest
PROOF
  <1>1. Inv /\ UsersInv /\ [Next]_vars =>
          [\A p \in Requests : WritesUsers(p) /\ ~UsersLost =>
             LET r == req[p]
                 about == IF Renames(r) THEN {r.who, r.to} ELSE {r.who}
             IN  /\ Changes(users.known, users'.known) \subseteq about
                 /\ Changes(users.admin, users'.admin) \subseteq about
                 /\ r.kind = "signin" \/ r.entitled
                 /\ r.kind \in {"signin", "add"} => users'.admin = users.admin
                 /\ Renames(r) => (r.to \in users'.admin <=> r.who \in users.admin)
          ]_vars
    <2> SUFFICES ASSUME Inv, UsersInv, Next, NEW p \in Requests, WritesUsers(p),
                        ~UsersLost
                 PROVE  LET r == req[p]
                            about == IF Renames(r) THEN {r.who, r.to} ELSE {r.who}
                        IN  /\ Changes(users.known, users'.known) \subseteq about
                            /\ Changes(users.admin, users'.admin) \subseteq about
                            /\ r.kind = "signin" \/ r.entitled
                            /\ r.kind \in {"signin", "add"} => users'.admin = users.admin
                            /\ Renames(r) => (r.to \in users'.admin <=> r.who \in users.admin)
      OBVIOUS
    <2>1. Written(req[p], OnFile, req[p].newUsers)
      BY OwnWrite
    <2>2. req[p].kind = "signin" \/ req[p].entitled
      BY OwnWrite DEF Granted
    <2> QED
      BY <2>1, <2>2, OwnWrite DEF Written, OnFile
  <1> QED
    BY <1>1, UsersAlways, InvAlways, PTL DEF Spec, UsersChangeByRequest

\* Nobody takes themselves away as the last administrator of the registry,
\* whatever the requests of others have done since the guards looked.
THEOREM LastAdminStays == Spec => LastAdminNeverLeaves
PROOF
  <1>1. Inv /\ UsersInv /\ [Next]_vars =>
          [\A p \in Requests : WritesUsers(p) /\ ~UsersLost =>
             (users.admin # {} /\ users'.admin = {} => req[p].by \notin users.admin)
          ]_vars
    <2> SUFFICES ASSUME Inv, UsersInv, Next, NEW p \in Requests, WritesUsers(p),
                        ~UsersLost, users.admin # {}, users'.admin = {}
                 PROVE  req[p].by \notin users.admin
      OBVIOUS
    <2>1. Written(req[p], OnFile, req[p].newUsers)
      BY OwnWrite
    <2>2. req[p].kind # "signin"
      BY <2>1, OwnWrite DEF Written, OnFile
    <2>3. ~Refused(req[p])
      BY <2>2, OwnWrite DEF Granted
    <2> QED
      BY <2>1, <2>3, OwnWrite DEF Written, OnFile
  <1> QED
    BY <1>1, UsersAlways, InvAlways, PTL DEF Spec, LastAdminNeverLeaves

----------------------------------------------------------------------------
(* instances.json                                                           *)

\* A request that changes an entry acts as somebody, and one that holds the
\* mutex of instances.json is about to write what it makes of the file as it is.
LoadedInsts(r) ==
    /\ r.pc \in InstsPlaces /\ r.kind # "patch" => r.user \in Users
    /\ HoldsInsts(r) => /\ r.newInsts = ChangedInsts(r)
                        /\ r.kind = "create" => insts.cfg[r.inst] = None
                        /\ r.kind = "update" => insts.cfg[r.inst] # None

\* What a rename has to carry names the old name until its entries are written,
\* and from then on the new one alone.
Carries(r) ==
    HoldsUsers(r) /\ Renames(r) =>
        \A i \in r.carried :
            IF r.pc \in InstsPlaces THEN Names(insts.cfg[i], r.who)
            ELSE Names(insts.cfg[i], r.to) /\ ~Names(insts.cfg[i], r.who)

InstsInv == \A p \in Requests : LoadedInsts(req[p]) /\ Carries(req[p])

\* What a request makes of the entries depends on what it asks, and as whom.
LEMMA LoadedInstsSame ==
    ASSUME NEW r, NEW s, Untouched(s, r), LoadedInsts(r)
    PROVE  LoadedInsts(s)
  BY DEF LoadedInsts, HoldsInsts, Untouched, Same, ChangedInsts, UpdatedEntry,
         InstsPlaces

\* What it has to carry only shrinks.
LEMMA CarriesSame ==
    ASSUME NEW r, NEW s, s.pc = r.pc, s.kind = r.kind, s.who = r.who, s.to = r.to,
           s.todo = r.todo, s.carried \subseteq r.carried, Carries(r)
    PROVE  Carries(s)
  BY DEF Carries, HoldsUsers, Renames, NextPart

\* A request that is nowhere has nothing to show.
LEMMA IdleInsts == LoadedInsts(Idle) /\ Carries(Idle)
  BY IdleShape DEF LoadedInsts, Carries, Idle, InstsPlaces

\* Renaming somebody in an entry that names them leaves it naming the new name
\* alone; any other entry is left as it is.
LEMMA RenamedNames ==
    ASSUME NEW c \in Entry \cup {None}, NEW old \in Users, NEW new \in Users, old # new
    PROVE  /\ ~Names(RenamedEntry(c, old, new), old)
           /\ Names(c, old) => Names(RenamedEntry(c, old, new), new)
           /\ ~Names(c, old) => RenamedEntry(c, old, new) = c
           /\ c # None => RenamedEntry(c, old, new) # None
PROOF
  <1>1. CASE c = None
    BY <1>1 DEF RenamedEntry, Names
  <1>2. CASE c # None
    <2> DEFINE owner == IF c.owner = old THEN new ELSE c.owner
               readers == RenameIn(c.readers, old, new)
               d == [owner |-> owner, readers |-> readers]
    <2>1. c \in Entry /\ c = [owner |-> c.owner, readers |-> c.readers]
      BY <1>2 DEF Entry
    <2>2. owner \in Users \cup {None} /\ readers \in SUBSET (Users \cup {Public})
      BY <2>1 DEF Entry, RenameIn
    <2>3. RenamedEntry(c, old, new) = d
      BY <1>2 DEF RenamedEntry
    <2>4. d \in Entry
      <3> HIDE DEF owner, readers
      <3> QED
        BY <2>2 DEF Entry
    <2>5. d # None
      BY <2>4, EntryAssumption
    <2>6. d.owner = owner /\ d.readers = readers
      OBVIOUS
    <2> HIDE DEF d
    <2>7. ~Names(d, old)
      BY <2>5, <2>6 DEF Names, RenameIn
    <2>8. Names(c, old) => Names(d, new)
      BY <2>5, <2>6 DEF Names, RenameIn
    <2>9. ~Names(c, old) => owner = c.owner /\ readers = c.readers
      BY <1>2 DEF Names, RenameIn
    <2> QED
      BY <2>1, <2>3, <2>5, <2>7, <2>8, <2>9 DEF d
  <1> QED
    BY <1>1, <1>2

\* A request that goes on has all it had but its place, its stamp and its flags.
Onwards(s, r) ==
    /\ s.kind = r.kind /\ s.by = r.by /\ s.who = r.who /\ s.to = r.to
    /\ s.todo = r.todo /\ s.inst = r.inst /\ s.user = r.user /\ s.isAdmin = r.isAdmin
    /\ s.sent = r.sent /\ s.owner = r.owner /\ s.readers = r.readers
    /\ s.carried = r.carried

\* What a request has once it has taken the mutex of instances.json, or has seen
\* that a rename has nothing to write there.
LEMMA LockedInsts ==
    ASSUME Inv, NEW p \in Requests, LockInsts(p), req'[p] # Idle
    PROVE  LET r == req[p]
               s == req'[p]
           IN  /\ r.pc = "insts" /\ Onwards(s, r)
               /\ r.kind = "create" => insts.cfg[r.inst] = None
               /\ r.kind = "update" => insts.cfg[r.inst] # None
               /\ \/ /\ s.pc = "writeUsers" /\ r.kind = "patch"
                     /\ ChangedInsts(r) = insts.cfg
                  \/ s.pc = "writeInsts" /\ s.newInsts = ChangedInsts(r)
PROOF
  <1> DEFINE r == req[p]
             changed == ChangedInsts(r)
             a == [r EXCEPT !.pc = "writeUsers"]
             b == [r EXCEPT !.pc = "writeInsts", !.newInsts = changed]
  <1>1. r \in Request
    BY Typed
  <1>2. ASSUME NEW s, Set(p, s) PROVE req'[p] = s
    BY <1>2, Typed DEF Set
  <1>3. a.pc = "writeUsers" /\ Onwards(a, r)
    BY <1>1 DEF Request, Onwards
  <1>4. b.pc = "writeInsts" /\ b.newInsts = changed /\ Onwards(b, r)
    <2> HIDE DEF changed
    <2> QED
      BY <1>1 DEF Request, Onwards
  <1>5. /\ r.pc = "insts"
        /\ r.kind = "create" => insts.cfg[r.inst] = None
        /\ r.kind = "update" => insts.cfg[r.inst] # None
        /\ \/ Set(p, a) /\ r.kind = "patch" /\ changed = insts.cfg
           \/ Set(p, b)
    BY <1>2 DEF LockInsts
  <1> HIDE DEF a, b, changed
  <1> QED
    BY <1>2, <1>3, <1>4, <1>5 DEF changed

\* The steps that do not write instances.json keep what each request is to make
\* of it.
LEMMA InstsOwn ==
    ASSUME Inv, InstsInv, NEW p \in Requests, Step(p), ~WriteInsts(p), ~FillInsts(p)
    PROVE  LoadedInsts(req'[p]) /\ Carries(req'[p])
PROOF
  <1>1. /\ req[p] \in Request /\ Shape(req[p])
        /\ LoadedInsts(req[p]) /\ Carries(req[p])
    BY Typed DEF InstsInv
  <1>2. ASSUME NEW r, Set(p, r) PROVE req'[p] = r
    BY <1>2, Typed DEF Set
  <1>3. ASSUME req'[p].pc \in {"idle", "check", "stat", "users"}
        PROVE  LoadedInsts(req'[p]) /\ Carries(req'[p])
    BY <1>3 DEF LoadedInsts, Carries, HoldsUsers, HoldsInsts, InstsPlaces
  <1>4. CASE req'[p] = Idle
    BY <1>4, IdleInsts
  <1>5. CASE Arrive(p)
    BY <1>2, <1>3, <1>5, Arrived DEF New
  <1>6. CASE Stat(p)
    BY <1>1, <1>2, <1>3, <1>6, StattedFields DEF Stat
  <1>7. CASE Check(p)
    <2> DEFINE r == req[p]
               s == Checked(r, cache'.set)
               user == Reader(r.by, r.as, cache'.set)
    <2>1. req'[p] = s /\ r.kind # "none" /\ r.by \in Users
      BY <1>1, <1>2, <1>7 DEF Check, Shape
    <2>2. user \in Users
      BY <1>1, <2>1, ReaderIsUser DEF Request
    <2>3. \/ s = Idle \/ s.pc \in {"users", "stat"}
          \/ /\ r.kind \notin AdminKinds /\ s.pc = "insts" /\ s.kind = r.kind
             /\ s.user = user
      BY <1>1, <2>1, CheckedFields
    <2> HIDE DEF s, user
    <2> QED
      BY <1>3, <1>4, <2>1, <2>2, <2>3
         DEF LoadedInsts, Carries, HoldsUsers, HoldsInsts, AdminKinds
  <1>8. CASE LockUsers(p) /\ req'[p] # Idle
    <2>1. LET r == req[p]
              s == req'[p]
          IN  /\ s.pc = IF Renames(r) THEN "insts" ELSE "writeUsers"
              /\ s.kind = r.kind /\ s.who = r.who /\ s.todo = r.todo
              /\ s.carried = IF ~Renames(r) THEN {} ELSE
                               {i \in Insts : Names(insts.cfg[i], r.who)}
      BY <1>8, LockedUsers
    <2>2. LoadedInsts(req'[p])
      BY <2>1 DEF LoadedInsts, HoldsInsts, InstsPlaces, Renames
    <2>3. Carries(req'[p])
      BY <2>1 DEF Carries, InstsPlaces, Renames, NextPart
    <2> QED
      BY <2>2, <2>3
  <1>9. CASE LockInsts(p) /\ req'[p] # Idle
    <2> DEFINE r == req[p]
               s == req'[p]
    <2>1. /\ r.pc = "insts" /\ Onwards(s, r)
          /\ r.kind = "create" => insts.cfg[r.inst] = None
          /\ r.kind = "update" => insts.cfg[r.inst] # None
          /\ \/ /\ s.pc = "writeUsers" /\ r.kind = "patch"
                /\ ChangedInsts(r) = insts.cfg
             \/ s.pc = "writeInsts" /\ s.newInsts = ChangedInsts(r)
      BY <1>9, LockedInsts
    <2>2. LoadedInsts(s)
      BY <1>1, <2>1 DEF LoadedInsts, HoldsInsts, InstsPlaces, Onwards, ChangedInsts,
                        UpdatedEntry
    <2>3. Carries(s)
      <3>1. CASE s.pc = "writeInsts"
        BY <1>1, <2>1, <3>1 DEF Carries, HoldsUsers, Onwards, Renames, NextPart,
                                InstsPlaces
      <3>2. CASE s.pc = "writeUsers"
        <4>1. /\ r.who \in Users /\ r.to \in Users /\ r.who # r.to
              /\ HoldsUsers(r) /\ Renames(r) /\ r.kind = "patch"
          BY <1>1, <2>1, <3>2 DEF Shape, InstsPlaces, AdminKinds, Renames, NextPart,
                                  HoldsUsers
        <4>2. ASSUME NEW i \in r.carried PROVE FALSE
          <5>1. i \in Insts /\ Names(insts.cfg[i], r.who)
            BY <1>1, <2>1, <4>1 DEF Carries, InstsPlaces, Request
          <5>2. insts.cfg[i] \in Entry \cup {None}
            BY <5>1, Typed DEF InstsFile, Config
          <5>3. insts.cfg[i] = RenamedEntry(insts.cfg[i], r.who, r.to)
            BY <2>1, <3>2, <4>1, <5>1 DEF ChangedInsts
          <5> QED
            BY <4>1, <5>1, <5>2, <5>3, RenamedNames
        <4> QED
          BY <2>1, <4>2 DEF Carries, Onwards
      <3> QED
        BY <2>1, <3>1, <3>2
    <2> QED
      BY <2>2, <2>3
  <1>10. CASE WriteUsers(p) \/ FillUsers(p)
    <2>1. req'[p] = After(req[p])
      BY <1>10 DEF WriteUsers, FillUsers, UsersWritten, Witnessed, After, Rest
    <2> QED
      BY <1>1, <1>3, <1>4, <2>1, AfterFields
  <1>11. CASE TruncateUsers(p)
    <2> DEFINE s == [req[p] EXCEPT !.pc = "fillUsers"]
    <2>1. req'[p] = s /\ req[p].pc = "writeUsers"
      BY <1>2, <1>11 DEF TruncateUsers
    <2>2. Onwards(s, req[p]) /\ s.pc = "fillUsers"
      BY <1>1 DEF Request, Onwards
    <2> HIDE DEF s
    <2> QED
      BY <1>1, <2>1, <2>2 DEF LoadedInsts, Carries, HoldsInsts, HoldsUsers, InstsPlaces,
                              Onwards, Renames, NextPart
  <1>12. CASE TruncateInsts(p)
    <2> DEFINE s == [req[p] EXCEPT !.pc = "fillInsts"]
    <2>1. req'[p] = s /\ req[p].pc = "writeInsts"
      BY <1>2, <1>12 DEF TruncateInsts
    <2>2. Onwards(s, req[p]) /\ s.pc = "fillInsts" /\ s.newInsts = req[p].newInsts
      BY <1>1 DEF Request, Onwards
    <2> HIDE DEF s
    <2>3. LoadedInsts(s)
      BY <1>1, <2>1, <2>2 DEF LoadedInsts, HoldsInsts, InstsPlaces, Onwards,
                              ChangedInsts, UpdatedEntry
    <2>4. Carries(s)
      BY <1>1, <2>1, <2>2 DEF Carries, HoldsUsers, InstsPlaces, Onwards, Renames,
                              NextPart
    <2> QED
      BY <2>1, <2>3, <2>4
  <1>13. CASE WriteFails(p)
    BY <1>2, <1>4, <1>13 DEF WriteFails
  <1> QED
    BY <1>4, <1>5, <1>6, <1>7, <1>8, <1>9, <1>10, <1>11, <1>12, <1>13 DEF Step, Write

\* What a request writes differs from what the file holds where it is meant to.
InstWritten(r, i, old, new) ==
    /\ new # None
    /\ CASE r.kind = "create" -> i = r.inst /\ old = None
         [] r.kind = "patch" -> Names(old, r.who)
         [] OTHER -> /\ i = r.inst /\ old # None
                     /\ "owner" \notin r.sent => new.owner = old.owner
                     /\ "readers" \notin r.sent => new.readers = old.readers

\* The kind of a request that holds the mutex, and what a rename is between.
LEMMA InstsHolder ==
    ASSUME Inv, InstsInv, NEW p \in Requests, HoldsInsts(req[p])
    PROVE  LET r == req[p]
           IN  /\ r \in Request /\ r.kind \in {"create", "update", "patch"}
               /\ r.newInsts = ChangedInsts(r)
               /\ r.kind # "patch" => r.inst \in Insts /\ r.user \in Users
               /\ r.kind = "create" => insts.cfg[r.inst] = None
               /\ r.kind = "update" => insts.cfg[r.inst] # None
               /\ r.kind = "patch" => /\ HoldsUsers(r) /\ Renames(r)
                                      /\ r.who \in Users /\ r.to \in Users
                                      /\ r.who # r.to
               /\ insts.cfg \in Config
PROOF
  <1> DEFINE r == req[p]
  <1>1. r \in Request /\ Shape(r) /\ LoadedInsts(r) /\ insts.cfg \in Config
    BY Typed DEF InstsInv, InstsFile
  <1>2. r.pc \in {"writeInsts", "fillInsts"}
    BY DEF HoldsInsts
  <1>3. r.kind \in {"create", "update"} \/ (r.kind = "patch" /\ Renames(r))
    BY <1>1, <1>2 DEF Shape, InstsPlaces
  <1>4. r.kind = "patch" => r.who \in Users /\ r.to \in Users /\ r.who # r.to
                             /\ HoldsUsers(r)
    BY <1>1, <1>2, <1>3 DEF Shape, AdminKinds, Renames, NextPart, HoldsUsers
  <1> QED
    BY <1>1, <1>2, <1>3, <1>4 DEF LoadedInsts, HoldsInsts, InstsPlaces, Shape

\* A create fills the place of no entry, an update changes what it sends in the
\* entry it names, and a rename the entries that name the user.
LEMMA InstsChanged ==
    ASSUME Inv, InstsInv, NEW p \in Requests, HoldsInsts(req[p]),
           NEW i \in Insts, req[p].newInsts[i] # insts.cfg[i]
    PROVE  InstWritten(req[p], i, insts.cfg[i], req[p].newInsts[i])
PROOF
  <1> DEFINE r == req[p]
             old == insts.cfg[i]
             new == r.newInsts[i]
  <1>1. /\ r \in Request /\ r.newInsts = ChangedInsts(r) /\ insts.cfg \in Config
        /\ r.kind \in {"create", "update", "patch"}
    BY InstsHolder
  <1>2. old \in Entry \cup {None}
    BY <1>1 DEF Config
  <1>3. CASE r.kind = "create"
    <2>1. new = [insts.cfg EXCEPT ![r.inst] = CreatedEntry(r.readers, r.user)][i]
      BY <1>1, <1>3 DEF ChangedInsts
    <2>2. i = r.inst /\ new = CreatedEntry(r.readers, r.user)
      BY <1>1, <2>1 DEF Config
    <2>3. CreatedEntry(r.readers, r.user) \in Entry
      BY <1>1 DEF CreatedEntry, Entry, Request
    <2>4. new # None /\ old = None
      BY <1>3, <2>2, <2>3, EntryAssumption, InstsHolder
    <2> QED
      BY <1>3, <2>2, <2>4 DEF InstWritten
  <1>4. CASE r.kind = "update"
    <2>1. new = [insts.cfg EXCEPT ![r.inst] = UpdatedEntry(r, @)][i]
      BY <1>1, <1>4 DEF ChangedInsts
    <2>2. i = r.inst /\ new = UpdatedEntry(r, old)
      BY <1>1, <2>1 DEF Config
    <2>3. old \in Entry
      BY <1>2, <1>4, <2>2, InstsHolder
    <2>4. KeptReaders(r.readers, r.user, r.isAdmin) \in SUBSET (Users \cup {Public})
      BY <1>1, <1>4, InstsHolder DEF KeptReaders, Request
    <2>5. new \in Entry
      BY <1>1, <2>2, <2>3, <2>4 DEF UpdatedEntry, Entry, Request
    <2>6. new # None /\ old # None
      BY <2>3, <2>5, EntryAssumption
    <2>7. /\ "owner" \notin r.sent => new.owner = old.owner
          /\ "readers" \notin r.sent => new.readers = old.readers
      BY <2>2 DEF UpdatedEntry
    <2> QED
      BY <1>4, <2>2, <2>6, <2>7 DEF InstWritten
  <1>5. CASE r.kind = "patch"
    <2>1. r.who \in Users /\ r.to \in Users /\ r.who # r.to
      BY <1>5, InstsHolder
    <2>2. new = RenamedEntry(old, r.who, r.to)
      BY <1>1, <1>5 DEF ChangedInsts
    <2>3. Names(old, r.who) /\ old # None
      BY <1>2, <2>1, <2>2, RenamedNames DEF Names
    <2>4. new # None
      BY <1>2, <2>1, <2>2, <2>3, RenamedNames
    <2> QED
      BY <1>5, <2>3, <2>4 DEF InstWritten
  <1> QED
    BY <1>1, <1>3, <1>4, <1>5

\* A write of instances.json takes what it touches off what others carry, and a
\* rename has carried what it had to.
LEMMA InstsWrittenStep ==
    ASSUME Inv, InstsInv, NEW p \in Requests, WriteInsts(p) \/ FillInsts(p)
    PROVE  InstsInv'
PROOF
  <1> DEFINE r == req[p]
             go == [r EXCEPT !.pc = "writeUsers", !.newInsts = NoConfig]
  <1>1. /\ r.pc \in {"writeInsts", "fillInsts"} /\ insts'.cfg = r.newInsts
        /\ req' = [q \in Requests |->
                     IF q = p THEN (IF r.kind = "patch" THEN go ELSE Idle)
                     ELSE [req[q] EXCEPT !.carried = @ \ {r.inst}]]
    BY DEF WriteInsts, FillInsts, InstsWritten, Uncarried
  <1>2. HoldsInsts(r) /\ Step(p)
    BY <1>1 DEF HoldsInsts, Step, Write
  <1>3. /\ r \in Request /\ Carries(r) /\ insts.cfg \in Config
        /\ r.newInsts = ChangedInsts(r) /\ r.kind \in {"create", "update", "patch"}
    BY <1>2, InstsHolder DEF InstsInv
  <1>4. go.pc = "writeUsers" /\ Onwards(go, r)
    BY <1>3 DEF Request, Onwards
  <1> HIDE DEF go
  <1>5. LoadedInsts(req[p])' /\ Carries(req[p])'
    <2>1. CASE r.kind # "patch"
      <3>1. req'[p] = Idle
        BY <1>1, <2>1
      <3> QED
        BY <3>1, IdleShape DEF LoadedInsts, Carries, Idle, InstsPlaces
    <2>2. CASE r.kind = "patch"
      <3>1. req'[p] = go
        BY <1>1, <2>2
      <3>2. /\ r.who \in Users /\ r.to \in Users /\ r.who # r.to
            /\ HoldsUsers(r) /\ Renames(r)
        BY <1>2, <2>2, InstsHolder
      <3>3. ASSUME NEW i \in r.carried
            PROVE  Names(insts'.cfg[i], r.to) /\ ~Names(insts'.cfg[i], r.who)
        <4>1. i \in Insts /\ Names(insts.cfg[i], r.who)
          BY <1>1, <1>3, <3>2 DEF Carries, InstsPlaces, Request
        <4>2. insts.cfg[i] \in Entry \cup {None}
          BY <1>3, <4>1 DEF Config
        <4>3. insts'.cfg[i] = RenamedEntry(insts.cfg[i], r.who, r.to)
          BY <1>1, <1>3, <2>2, <4>1 DEF ChangedInsts
        <4> QED
          BY <3>2, <4>1, <4>2, <4>3, RenamedNames
      <3> QED
        BY <1>4, <3>1, <3>3 DEF LoadedInsts, Carries, HoldsInsts, InstsPlaces, Onwards
    <2> QED
      BY <2>1, <2>2
  <1>6. ASSUME NEW q \in Requests \ {p}
        PROVE  LoadedInsts(req[q])' /\ Carries(req[q])'
    <2>1. Untouched(req'[q], req[q]) /\ LoadedInsts(req[q]) /\ Carries(req[q])
          /\ req[q] \in Request
      BY <1>2, OthersUntouched, Typed DEF InstsInv
    <2>2. req'[q].carried = req[q].carried \ {r.inst}
      BY <1>1, <2>1 DEF Request
    <2>3. ~HoldsInsts(req[q])
      BY <1>2, Exclusive
    <2>4. LoadedInsts(req[q])'
      BY <2>1, <2>3 DEF LoadedInsts, Untouched, Same, HoldsInsts
    <2>5. CASE r.kind = "patch"
      <3>1. ~HoldsUsers(req[q])
        BY <1>2, <2>5, InstsHolder, Exclusive
      <3>2. Carries(req[q])'
        BY <2>1, <3>1 DEF Carries, Untouched, Same, HoldsUsers
      <3> QED
        BY <2>4, <3>2
    <2>6. CASE r.kind # "patch"
      <3>1. \A i \in req'[q].carried : insts'.cfg[i] = insts.cfg[i]
        BY <1>1, <1>3, <2>1, <2>2, <2>6 DEF ChangedInsts, Config, Request
      <3>2. Carries(req[q])'
        BY <2>1, <2>2, <3>1 DEF Carries, Untouched, Same, HoldsUsers, Renames, NextPart
      <3> QED
        BY <2>4, <3>2
    <2> QED
      BY <2>5, <2>6
  <1> QED
    BY <1>5, <1>6 DEF InstsInv

\* The files start with nobody at them.
LEMMA InstsInit == Init => InstsInv
  BY IdleInsts DEF Init, InstsInv

\* Every step keeps what the requests are to make of instances.json.
LEMMA InstsNext == Inv /\ InstsInv /\ [Next]_vars => InstsInv'
PROOF
  <1> SUFFICES ASSUME Inv, InstsInv, [Next]_vars PROVE InstsInv'
    OBVIOUS
  <1>1. CASE UNCHANGED vars
    BY <1>1 DEF InstsInv, LoadedInsts, Carries, ChangedInsts, vars
  <1>2. CASE Restart
    <2>1. \A p \in Requests : req'[p] = Idle
      BY <1>2 DEF Restart
    <2> QED
      BY <2>1, IdleShape DEF InstsInv, LoadedInsts, Carries, Idle, InstsPlaces
  <1>3. ASSUME NEW p \in Requests, Step(p) PROVE InstsInv'
    <2>1. CASE WriteInsts(p) \/ FillInsts(p)
      BY <2>1, InstsWrittenStep
    <2>2. CASE ~WriteInsts(p) /\ ~FillInsts(p)
      <3>1. insts'.cfg = insts.cfg
        BY <1>3, <2>2, Typed
           DEF Step, Write, Arrive, Stat, Check, LockUsers, LockInsts, WriteUsers,
               TruncateUsers, FillUsers, UsersWritten, TruncateInsts, WriteFails,
               InstsFile
      <3>2. LoadedInsts(req'[p]) /\ Carries(req'[p])
        BY <1>3, <2>2, InstsOwn
      <3>3. ASSUME NEW q \in Requests \ {p}
            PROVE  LoadedInsts(req'[q]) /\ Carries(req'[q])
        BY <1>3, OthersUntouched, LoadedInstsSame, CarriesSame
           DEF InstsInv, Untouched, Same
      <3> QED
        BY <3>1, <3>2, <3>3 DEF InstsInv, LoadedInsts, Carries, ChangedInsts
    <2> QED
      BY <2>1, <2>2
  <1> QED
    BY <1>1, <1>2, <1>3 DEF Next, Step

\* What instances.json holds carries over what a rename found.
LEMMA InstsAlways == Spec => []InstsInv
  BY InstsInit, InstsNext, InvAlways, PTL DEF Spec

\* The write of instances.json a request is credited with is its own.
LEMMA OwnInstsWrite ==
    ASSUME Inv, Next, NEW p \in Requests, WritesInsts(p)
    PROVE  HoldsInsts(req[p]) /\ insts'.cfg = req[p].newInsts
PROOF
  <1>1. /\ HoldsInsts(req[p]) /\ insts' # insts /\ insts'.state = "whole"
    BY DEF WritesInsts, HoldsInsts
  <1>2. ~Restart
    BY <1>1 DEF Restart
  <1>3. PICK q \in Requests : Step(q)
    BY <1>2 DEF Next, Step
  <1>4. HoldsInsts(req[q]) /\ (TruncateInsts(q) \/ InstsWritten(q))
    BY <1>1, <1>3, WhoWritesInsts
  <1>5. q = p
    BY <1>1, <1>4, Exclusive
  <1>6. ~TruncateInsts(q)
    BY <1>1, Typed DEF TruncateInsts, InstsFile
  <1> QED
    BY <1>1, <1>4, <1>5, <1>6 DEF InstsWritten

\* An entry changes only in what a request sends for the instance it names, or
\* where it names the user a rename is about, and no write undoes another:
\* whether the file is replaced or written in place, and if the disk fills up.
THEOREM InstancesChangeOnRequest == Spec => InstancesChangeByRequest
PROOF
  <1>1. Inv /\ InstsInv /\ [Next]_vars =>
          [\A p \in Requests : WritesInsts(p) =>
             \A i \in Insts : insts'.cfg[i] # insts.cfg[i] =>
                InstWritten(req[p], i, insts.cfg[i], insts'.cfg[i])]_vars
    BY OwnInstsWrite, InstsChanged
  <1>2. InstancesChangeByRequest <=>
          [][\A p \in Requests : WritesInsts(p) =>
               \A i \in Insts : insts'.cfg[i] # insts.cfg[i] =>
                  InstWritten(req[p], i, insts.cfg[i], insts'.cfg[i])]_vars
    BY DEF InstancesChangeByRequest, InstWritten
  <1> QED
    BY <1>1, <1>2, InstsAlways, InvAlways, PTL DEF Spec

\* When a rename reaches users.json, what named the old name when it began names
\* the new one alone, but for what has been configured since.
THEOREM RenameCarriesOver == Spec => RenameCarriesAccess
PROOF
  <1>1. Inv /\ InstsInv /\ [Next]_vars =>
          [\A p \in Requests :
             (WritesUsers(p) /\ Renames(req[p]) /\ insts.state = "whole") =>
                 \A i \in req[p].carried : /\ Names(insts.cfg[i], req[p].to)
                                           /\ ~Names(insts.cfg[i], req[p].who)]_vars
    BY DEF WritesUsers, InstsInv, Carries, HoldsUsers, InstsPlaces
  <1> QED
    BY <1>1, InstsAlways, InvAlways, PTL DEF Spec, RenameCarriesAccess

\* A readers list sent by somebody who is no administrator lets them read.
THEOREM ReadersStay == Spec => ReadersKeepAccess
PROOF
  <1>1. Inv /\ InstsInv /\ [Next]_vars =>
          [\A p \in Requests : WritesInsts(p) =>
             LET r == req[p]
             IN  r.kind = "update" /\ "readers" \in r.sent /\ ~r.isAdmin =>
                     CanRead(insts'.cfg[r.inst], r.user, FALSE)]_vars
    <2> SUFFICES ASSUME Inv, InstsInv, Next, NEW p \in Requests, WritesInsts(p),
                        req[p].kind = "update", "readers" \in req[p].sent,
                        ~req[p].isAdmin
                 PROVE  CanRead(insts'.cfg[req[p].inst], req[p].user, FALSE)
      OBVIOUS
    <2> DEFINE r == req[p]
    <2>1. HoldsInsts(r) /\ insts'.cfg = r.newInsts
      BY OwnInstsWrite
    <2>2. /\ r.newInsts = ChangedInsts(r) /\ r.inst \in Insts /\ r.user \in Users
          /\ insts.cfg \in Config
      BY <2>1, InstsHolder
    <2>3. insts'.cfg[r.inst] = UpdatedEntry(r, insts.cfg[r.inst])
      BY <2>1, <2>2 DEF ChangedInsts, Config
    <2>4. insts'.cfg[r.inst].readers = KeptReaders(r.readers, r.user, r.isAdmin)
      BY <2>3 DEF UpdatedEntry
    <2>5. r.user # None
      BY <2>2, NamesAssumption
    <2> QED
      BY <2>4, <2>5 DEF KeptReaders, CanRead
  <1> QED
    BY <1>1, InstsAlways, InvAlways, PTL DEF Spec, ReadersKeepAccess

\* Whatever the entries and the flags are, an administrator who views as
\* somebody is shown nothing more.
THEOREM ViewingAsNarrows == Spec => []ImpersonationNarrows
PROOF
  <1>1. TypeOK => ImpersonationNarrows
    <2> SUFFICES ASSUME NEW user \in Users, NEW as \in Users \cup {None}
                 PROVE  LET seenAs == Reader(user, as, users.admin)
                        IN  Visible(insts.cfg, seenAs, IsAdmin(seenAs, users.admin))
                              \subseteq Visible(insts.cfg, user,
                                                IsAdmin(user, users.admin))
      BY DEF ImpersonationNarrows
    <2>1. CASE IsAdmin(user, users.admin)
      BY <2>1 DEF Visible, CanRead
    <2>2. CASE ~IsAdmin(user, users.admin)
      BY <2>2 DEF Reader
    <2> QED
      BY <2>1, <2>2
  <1> QED
    BY <1>1, TypeCorrect, PTL

----------------------------------------------------------------------------
(* The directory                                                            *)

\* A file is in pieces only where it may be lost, and nobody is about to write
\* instances.json anew while it is.
Piecewise ==
    /\ users.state = "half" => "users" \in Perishable
    /\ insts.state = "half" => "insts" \in Perishable
    /\ \A p \in Requests : req[p].pc = "writeInsts" => insts.state = "whole"

\* Nobody gets to write instances.json but by taking its mutex.
LEMMA ToWriteInsts ==
    ASSUME Inv, NEW p \in Requests, Step(p), req'[p].pc = "writeInsts"
    PROVE  LockInsts(p) /\ insts.state = "whole" /\ UNCHANGED insts
PROOF
  <1>1. req[p] \in Request /\ Shape(req[p]) /\ insts \in InstsFile
    BY Typed
  <1>2. ASSUME NEW r, Set(p, r) PROVE req'[p] = r
    BY <1>2, Typed DEF Set
  <1>3. ~Arrive(p)
    BY <1>2, Arrived DEF New, HoldsInsts
  <1>4. ~Stat(p)
    <2>1. Statted(req[p]).pc = "check"
      BY <1>1, StattedFields
    <2> QED
      BY <1>2, <2>1 DEF Stat
  <1>5. ~Check(p)
    <2>1. ASSUME Check(p) PROVE FALSE
      <3> DEFINE s == Checked(req[p], cache'.set)
      <3>1. req'[p] = s /\ req[p].kind # "none"
        BY <1>1, <1>2, <2>1 DEF Check, Shape
      <3>2. s.pc # "writeInsts"
        BY <1>1, <3>1, CheckedFields, IdleShape DEF HoldsInsts
      <3> QED
        BY <3>1, <3>2
    <2> QED
      BY <2>1
  <1>6. ~LockUsers(p)
    <2>1. ASSUME LockUsers(p), req'[p] # Idle
          PROVE  req'[p].pc = IF Renames(req[p]) THEN "insts" ELSE "writeUsers"
      BY <2>1, LockedUsers
    <2>2. Idle.pc = "idle"
      BY DEF Idle
    <2> QED
      BY <2>1, <2>2
  <1>7. ~(WriteUsers(p) \/ FillUsers(p))
    <2>1. ASSUME UsersWritten(p) PROVE req'[p] = After(req[p])
      BY <2>1 DEF UsersWritten, Witnessed, After, Rest
    <2>2. req[p].pc \in {"writeUsers", "fillUsers"} => After(req[p]).pc # "writeInsts"
      BY <1>1, AfterFields DEF Idle
    <2> QED
      BY <2>1, <2>2 DEF WriteUsers, FillUsers
  <1>8. ~TruncateUsers(p) /\ ~TruncateInsts(p) /\ ~WriteFails(p)
    <2> DEFINE s == [req[p] EXCEPT !.pc = "fillUsers"]
               t == [req[p] EXCEPT !.pc = "fillInsts"]
    <2>1. s.pc = "fillUsers" /\ t.pc = "fillInsts" /\ Idle.pc = "idle"
      BY <1>1 DEF Request, Idle
    <2>2. /\ TruncateUsers(p) => Set(p, s)
          /\ TruncateInsts(p) => Set(p, t)
          /\ WriteFails(p) => Set(p, Idle)
      BY DEF TruncateUsers, TruncateInsts, WriteFails
    <2> HIDE DEF s, t
    <2> QED
      BY <1>2, <2>1, <2>2
  <1>9. ~(WriteInsts(p) \/ FillInsts(p))
    <2> DEFINE s == [req[p] EXCEPT !.pc = "writeUsers", !.newInsts = NoConfig]
    <2>1. s.pc = "writeUsers"
      BY <1>1 DEF Request
    <2>2. ASSUME InstsWritten(p) PROVE req'[p] = s \/ req'[p] = Idle
      BY <2>2 DEF InstsWritten, Uncarried
    <2> HIDE DEF s
    <2> QED
      BY <2>1, <2>2 DEF WriteInsts, FillInsts, Idle
  <1>10. LockInsts(p)
    BY <1>3, <1>4, <1>5, <1>6, <1>7, <1>8, <1>9 DEF Step, Write
  <1>11. ASSUME insts.state = "half" PROVE FALSE
    <2>1. Set(p, Idle)
      BY <1>10, <1>11 DEF LockInsts
    <2> QED
      BY <1>2, <2>1 DEF Idle
  <1> QED
    BY <1>1, <1>10, <1>11 DEF LockInsts, InstsFile

\* The files start whole.
LEMMA PiecewiseInit == Init => Piecewise
  BY DEF Init, Piecewise, Idle

\* A file comes to pieces where a rename onto it does not work.
LEMMA PiecewiseNext == Inv /\ Piecewise /\ [Next]_vars => Piecewise'
PROOF
  <1> SUFFICES ASSUME Inv, Piecewise, [Next]_vars PROVE Piecewise'
    OBVIOUS
  <1>1. CASE UNCHANGED vars
    BY <1>1 DEF Piecewise, vars
  <1>2. CASE Restart
    BY <1>2 DEF Restart, Piecewise, Idle
  <1>3. ASSUME NEW p \in Requests, Step(p) PROVE Piecewise'
    <2>1. users'.state = "half" => "users" \in Perishable
      <3>1. CASE users' = users
        BY <3>1 DEF Piecewise
      <3>2. CASE TruncateUsers(p)
        BY <3>2 DEF TruncateUsers, Perishable
      <3>3. CASE UsersWritten(p)
        BY <3>3 DEF UsersWritten
      <3> QED
        BY <1>3, <3>1, <3>2, <3>3, WhoWritesUsers
    <2>2. insts'.state = "half" => "insts" \in Perishable
      <3>1. CASE insts' = insts
        BY <3>1 DEF Piecewise
      <3>2. CASE TruncateInsts(p)
        BY <3>2 DEF TruncateInsts, Perishable
      <3>3. CASE InstsWritten(p)
        BY <3>3 DEF InstsWritten
      <3> QED
        BY <1>3, <3>1, <3>2, <3>3, WhoWritesInsts
    <2>3. ASSUME NEW q \in Requests, req'[q].pc = "writeInsts"
          PROVE  insts'.state = "whole"
      <3>1. CASE q = p
        BY <1>3, <2>3, <3>1, ToWriteInsts
      <3>2. CASE q # p
        <4>1. req[q].pc = "writeInsts"
          BY <1>3, <2>3, <3>2, OthersUntouched DEF Untouched, Same
        <4>2. ~HoldsInsts(req[p])
          BY <3>2, <4>1, Exclusive DEF HoldsInsts
        <4>3. insts' = insts
          BY <1>3, <4>2, WhoWritesInsts
        <4> QED
          BY <4>1, <4>3 DEF Piecewise
      <3> QED
        BY <3>1, <3>2
    <2> QED
      BY <2>1, <2>2, <2>3 DEF Piecewise
  <1> QED
    BY <1>1, <1>2, <1>3 DEF Next, Step

\* The other requests do not look at users.json or instances.json as lost for
\* what p does.
LEMMA OthersFill ==
    ASSUME Inv, NEW p \in Requests, Step(p), NEW q \in Requests \ {p}
    PROVE  /\ req'[q].pc = req[q].pc
           /\ StartsOver(req'[q]) <=> StartsOver(req[q])
  BY OthersUntouched DEF Untouched, Same, StartsOver

\* Renaming in a set is renaming each.
LEMMA RenamedSet ==
    ASSUME NEW S, NEW u, NEW v
    PROVE  {Promise!Renamed(u, v, x) : x \in S} = RenameIn(S, u, v)
PROOF
  <1>1. CASE u \in S
    BY <1>1 DEF Promise!Renamed, RenameIn
  <1>2. CASE u \notin S
    BY <1>2 DEF Promise!Renamed, RenameIn
  <1> QED
    BY <1>1, <1>2

\* What a write makes of a file that is not lost is one operation on it.
LEMMA UsersOperation ==
    ASSUME Inv, UsersInv, NEW p \in Requests, HoldsUsers(req[p]), OfFile(req[p]),
           ~UsersLost, Lost' = Lost, UNCHANGED insts,
           users'.known = req[p].newUsers.known, users'.admin = req[p].newUsers.admin
    PROVE  Promise!ChangeUsers \/ UNCHANGED Promise!directoryVars
PROOF
  <1> DEFINE r == req[p]
  <1>1. /\ r \in Request /\ r.who \in Users
        /\ r.kind \in AdminKinds \cup {"signin"}
        /\ Renames(r) => r.to \in Users
    BY Typed DEF Shape, HoldsUsers, UsersPlaces, AdminKinds, Renames, NextPart
  <1>2. /\ r.newUsers = ChangedUsers(r, OnFile)
        /\ r.kind \in {"signin", "add"} \/ r.who \in users.known
        /\ Renames(r) => r.to \notin users.known
        /\ OnFile.known = users.known /\ OnFile.admin = users.admin
        /\ OnFile \in UserData
    BY Typed DEF OfFile, OnFile, UserData, UsersFile
  <1>3. "users" \notin Lost
    BY DEF Lost
  <1> HIDE DEF r
  <1>4. CASE r.kind \in {"signin", "add"}
    <2>1. users'.known = users.known \cup {r.who} /\ users'.admin = users.admin
      BY <1>2, <1>4 DEF ChangedUsers, Renames, UserData, r
    <2>2. Promise!Register(r.who)
      BY <2>1 DEF Promise!Register
    <2> QED
      BY <1>1, <1>3, <2>2 DEF Promise!ChangeUsers
  <1>5. CASE r.kind = "delete"
    <2>1. /\ users'.known = users.known \ {r.who}
          /\ users'.admin = users.admin \ {r.who}
      BY <1>2, <1>5 DEF ChangedUsers, Renames, r
    <2>2. Promise!Remove(r.who)
      BY <1>2, <1>5, <2>1 DEF Promise!Remove
    <2> QED
      BY <1>1, <1>3, <2>2 DEF Promise!ChangeUsers
  <1>6. CASE Renames(r)
    <2>1. /\ users'.known = RenameIn(users.known, r.who, r.to)
          /\ users'.admin = RenameIn(users.admin, r.who, r.to)
      BY <1>2, <1>6 DEF ChangedUsers, Renames, r
    <2>2. r.who \in users.known /\ r.to \notin users.known
      BY <1>2, <1>6 DEF Renames
    <2>3. Promise!Rename(r.who, r.to)
      BY <2>1, <2>2, RenamedSet DEF Promise!Rename, Promise!Renameable
    <2> QED
      BY <1>1, <1>3, <1>6, <2>3 DEF Promise!ChangeUsers
  <1>7. CASE r.kind = "patch" /\ ~Renames(r)
    <2>1. users'.known = users.known
      BY <1>2, <1>7 DEF ChangedUsers, UserData, r
    <2>2. \/ users'.admin = users.admin \cup {r.who}
          \/ users'.admin = users.admin \ {r.who}
          \/ users'.admin = users.admin
      BY <1>2, <1>7 DEF ChangedUsers, UserData, r
    <2>3. CASE users'.admin = users.admin
      BY <2>1, <2>3 DEF Promise!directoryVars
    <2>4. CASE users'.admin # users.admin
      <3>1. Promise!SetAdmin(r.who)
        BY <1>2, <1>7, <2>1, <2>2, <2>4 DEF Promise!SetAdmin
      <3> QED
        BY <1>1, <1>3, <3>1 DEF Promise!ChangeUsers
    <2> QED
      BY <2>3, <2>4
  <1> QED
    BY <1>1, <1>4, <1>5, <1>6, <1>7 DEF AdminKinds

\* A write of users.json is an operation of the directory, or starts it over.
LEMMA UsersWriteIsOperation ==
    ASSUME Inv, UsersInv, NEW p \in Requests, WriteUsers(p) \/ FillUsers(p)
    PROVE  Promise!Next \/ UNCHANGED Promise!directoryVars
PROOF
  <1>1. /\ req[p].pc \in {"writeUsers", "fillUsers"} /\ HoldsUsers(req[p]) /\ Step(p)
        /\ users'.state = "whole" /\ UNCHANGED insts
        /\ users'.known = req[p].newUsers.known
        /\ users'.admin = req[p].newUsers.admin
        /\ req'[p] = After(req[p])
    BY DEF WriteUsers, FillUsers, UsersWritten, HoldsUsers, Step, Write, Witnessed,
           After, Rest
  <1>2. ~UsersLost'
    BY <1>1 DEF UsersLost
  <1>3. InstsLost' <=> InstsLost
    <2>1. req'[p].pc # "fillInsts"
      BY <1>1, AfterFields, Typed DEF Idle
    <2> QED
      BY <1>1, <2>1, OthersFill DEF InstsLost
  <1>4. CASE UsersLost
    <2>1. StartsOver(req[p]) /\ req[p].who \in Users
      BY <1>1, <1>4, Typed DEF UsersLost, UsersInv, Loaded, StartsOver, Shape,
                               UsersPlaces, AdminKinds
    <2>2. users'.known = {req[p].who} /\ users'.admin = {}
      BY <1>1, <2>1 DEF StartsOver
    <2>3. "users" \in Lost /\ Lost' = Lost \ {"users"}
      BY <1>2, <1>3, <1>4 DEF Lost
    <2>4. Promise!StartOver(req[p].who)
      BY <1>1, <2>2, <2>3 DEF Promise!StartOver
    <2> QED
      BY <2>1, <2>4 DEF Promise!Next
  <1>5. CASE ~UsersLost
    <2>1. Lost' = Lost
      BY <1>2, <1>3, <1>5 DEF Lost
    <2>2. OfFile(req[p])
      BY <1>1, <1>5, OrLost
    <2> QED
      BY <1>1, <1>5, <2>1, <2>2, UsersOperation DEF Promise!Next
  <1> QED
    BY <1>4, <1>5

\* A write of instances.json is one, too: nobody has changed the file, or the
\* names a rename is between, since it was read.
LEMMA InstsWriteIsOperation ==
    ASSUME Inv, UsersInv, InstsInv, Piecewise, NEW p \in Requests,
           WriteInsts(p) \/ FillInsts(p)
    PROVE  Promise!Next
PROOF
  <1> DEFINE r == req[p]
             go == [r EXCEPT !.pc = "writeUsers", !.newInsts = NoConfig]
  <1>1. /\ r.pc \in {"writeInsts", "fillInsts"} /\ HoldsInsts(r) /\ Step(p)
        /\ insts'.state = "whole" /\ insts'.cfg = r.newInsts /\ UNCHANGED users
        /\ req'[p] = IF r.kind = "patch" THEN go ELSE Idle
    BY DEF WriteInsts, FillInsts, InstsWritten, HoldsInsts, Step, Write, Uncarried
  <1>2. /\ r \in Request /\ r.kind \in {"create", "update", "patch"}
        /\ r.newInsts = ChangedInsts(r)
        /\ r.kind # "patch" => r.inst \in Insts /\ r.user \in Users
        /\ r.kind = "update" => insts.cfg[r.inst] # None
        /\ r.kind = "patch" => /\ HoldsUsers(r) /\ Renames(r)
                               /\ r.who \in Users /\ r.to \in Users
        /\ insts.cfg \in Config
    BY <1>1, InstsHolder
  <1>3. ~InstsLost /\ ~InstsLost'
    <2>1. ~InstsLost'
      BY <1>1 DEF InstsLost
    <2>2. ~InstsLost
      BY <1>1 DEF InstsLost, Piecewise
    <2> QED
      BY <2>1, <2>2
  <1>4. UsersLost' <=> UsersLost
    <2>1. go.pc = "writeUsers" /\ Idle.pc = "idle"
      BY <1>2 DEF Request, Idle
    <2>2. req'[p].pc # "fillUsers" /\ r.pc # "fillUsers"
      BY <1>1, <2>1
    <2>3. \A q \in Requests \ {p} : /\ req'[q].pc = req[q].pc
                                    /\ StartsOver(req'[q]) <=> StartsOver(req[q])
      BY <1>1, OthersFill
    <2> HIDE DEF go
    <2> QED
      BY <1>1, <2>2, <2>3 DEF UsersLost, StartsOver
  <1>5. "insts" \notin Lost /\ Lost' = Lost
    BY <1>3, <1>4 DEF Lost
  <1> HIDE DEF go
  <1>6. ASSUME r.kind # "patch", NEW e \in Entry,
               insts'.cfg = [insts.cfg EXCEPT ![r.inst] = e]
        PROVE  Promise!Next
    <2>1. Promise!Configure(r.inst)
      BY <1>6 DEF Promise!Configure, Promise!Entry, Entry
    <2> QED
      BY <1>1, <1>2, <1>5, <1>6, <2>1 DEF Promise!Next, Promise!ChangeInsts
  <1>7. CASE r.kind = "create"
    <2>1. CreatedEntry(r.readers, r.user) \in Entry
      BY <1>2 DEF CreatedEntry, Entry, Request
    <2>2. insts'.cfg = [insts.cfg EXCEPT ![r.inst] = CreatedEntry(r.readers, r.user)]
      BY <1>1, <1>2, <1>7 DEF ChangedInsts
    <2> QED
      BY <1>6, <1>7, <2>1, <2>2
  <1>8. CASE r.kind = "update"
    <2>1. insts.cfg[r.inst] \in Entry
      BY <1>2, <1>8 DEF Config
    <2>2. KeptReaders(r.readers, r.user, r.isAdmin) \in SUBSET (Users \cup {Public})
      BY <1>2, <1>8 DEF KeptReaders, Request
    <2>3. UpdatedEntry(r, insts.cfg[r.inst]) \in Entry
      BY <1>2, <2>1, <2>2 DEF UpdatedEntry, Entry, Request
    <2>4. insts'.cfg = [insts.cfg EXCEPT ![r.inst] = UpdatedEntry(r, insts.cfg[r.inst])]
      BY <1>1, <1>2, <1>8 DEF ChangedInsts
    <2> QED
      BY <1>6, <1>8, <2>3, <2>4
  <1>9. CASE r.kind = "patch"
    <2>1. OfFile(r) /\ users.state # "half"
      BY <1>1, <1>2, <1>9 DEF UsersInv, Loaded, StartsOver
    <2>2. r.who \in users.known /\ r.to \notin users.known
      BY <1>2, <1>9, <2>1 DEF OfFile
    <2>3. "users" \notin Lost
      BY <2>1 DEF Lost, UsersLost
    <2>4. insts'.cfg = [i \in Insts |-> RenamedEntry(insts.cfg[i], r.who, r.to)]
      BY <1>1, <1>2, <1>9 DEF ChangedInsts
    <2>5. \A c : RenamedEntry(c, r.who, r.to) =
                   IF c = None THEN None
                   ELSE [owner |-> Promise!Renamed(r.who, r.to, c.owner),
                         readers |-> {Promise!Renamed(r.who, r.to, x) : x \in c.readers}]
      <3>1. \A S : {Promise!Renamed(r.who, r.to, x) : x \in S}
                     = RenameIn(S, r.who, r.to)
        BY RenamedSet
      <3> QED
        BY <3>1 DEF RenamedEntry, Promise!Renamed
    <2>6. Promise!RenameReferences(r.who, r.to)
      BY <2>2, <2>3, <2>4, <2>5 DEF Promise!RenameReferences, Promise!Renameable
    <2> QED
      BY <1>1, <1>2, <1>5, <1>9, <2>6 DEF Promise!Next, Promise!ChangeInsts
  <1> QED
    BY <1>2, <1>7, <1>8, <1>9

\* Nobody gets to fill instances.json but by emptying it while it was whole.
LEMMA ToFillInsts ==
    ASSUME Inv, Piecewise, NEW p \in Requests, Step(p),
           ~WriteUsers(p), ~FillUsers(p), ~WriteInsts(p), ~FillInsts(p),
           req'[p].pc = "fillInsts"
    PROVE  insts.state = "whole"
PROOF
  <1>1. req[p] \in Request /\ Shape(req[p])
    BY Typed
  <1>2. ASSUME NEW r, Set(p, r) PROVE req'[p] = r
    BY <1>2, Typed DEF Set
  <1>3. ~Arrive(p)
    BY <1>2, Arrived DEF New, HoldsInsts
  <1>4. ~Stat(p)
    <2>1. Statted(req[p]).pc = "check"
      BY <1>1, StattedFields
    <2> QED
      BY <1>2, <2>1 DEF Stat
  <1>5. ~Check(p)
    <2>1. ASSUME Check(p) PROVE FALSE
      <3> DEFINE s == Checked(req[p], cache'.set)
      <3>1. req'[p] = s /\ req[p].kind # "none"
        BY <1>1, <1>2, <2>1 DEF Check, Shape
      <3>2. s.pc # "fillInsts"
        BY <1>1, <3>1, CheckedFields, IdleShape DEF HoldsInsts
      <3> QED
        BY <3>1, <3>2
    <2> QED
      BY <2>1
  <1>6. ~LockUsers(p)
    <2>1. ASSUME LockUsers(p), req'[p] # Idle
          PROVE  req'[p].pc = IF Renames(req[p]) THEN "insts" ELSE "writeUsers"
      BY <2>1, LockedUsers
    <2>2. Idle.pc = "idle"
      BY DEF Idle
    <2> QED
      BY <2>1, <2>2
  <1>7. ~LockInsts(p)
    <2>1. ASSUME LockInsts(p), req'[p] # Idle
          PROVE  req'[p].pc \in {"writeUsers", "writeInsts"}
      BY <2>1, LockedInsts
    <2>2. Idle.pc = "idle"
      BY DEF Idle
    <2> QED
      BY <2>1, <2>2
  <1>8. ~TruncateUsers(p) /\ ~WriteFails(p)
    <2> DEFINE s == [req[p] EXCEPT !.pc = "fillUsers"]
    <2>1. s.pc = "fillUsers" /\ Idle.pc = "idle"
      BY <1>1 DEF Request, Idle
    <2>2. /\ TruncateUsers(p) => Set(p, s)
          /\ WriteFails(p) => Set(p, Idle)
      BY DEF TruncateUsers, WriteFails
    <2> HIDE DEF s
    <2> QED
      BY <1>2, <2>1, <2>2
  <1> QED
    BY <1>3, <1>4, <1>5, <1>6, <1>7, <1>8 DEF Step, Write, TruncateInsts, Piecewise

\* A step that writes neither file whole may lose one, and does nothing else to
\* the directory; what is lost stays so.
LEMMA OtherStepsLose ==
    ASSUME Inv, UsersInv, Piecewise, Piecewise', NEW p \in Requests, Step(p),
           ~WriteUsers(p), ~FillUsers(p), ~WriteInsts(p), ~FillInsts(p)
    PROVE  Promise!Lose
PROOF
  <1>1. UNCHANGED users \/ TruncateUsers(p)
    BY DEF Step, Write, Arrive, Stat, Check, LockUsers, LockInsts, TruncateInsts,
           WriteFails
  <1>2. UNCHANGED insts \/ TruncateInsts(p)
    BY DEF Step, Write, Arrive, Stat, Check, LockUsers, LockInsts, TruncateUsers,
           WriteFails
  <1>3. users'.known = users.known /\ users'.admin = users.admin
    BY <1>1, Typed DEF TruncateUsers, UsersFile
  <1>4. insts'.cfg = insts.cfg
    BY <1>2, Typed DEF TruncateInsts, InstsFile
  <1>5. users.state = "half" => users'.state = "half"
    BY <1>1, Typed DEF TruncateUsers, UsersFile
  <1>6. insts.state = "half" => insts'.state = "half"
    BY <1>2, Typed DEF TruncateInsts, InstsFile
  <1>7. ASSUME UsersLost PROVE UsersLost'
    <2>1. ASSUME req'[p].pc = "fillUsers" PROVE StartsOver(req'[p])
      <3>1. HoldsUsers(req'[p])
        BY <2>1 DEF HoldsUsers
      <3>2. ~LockUsers(p)
        <4>1. Idle.pc = "idle"
          BY DEF Idle
        <4> QED
          BY <2>1, <4>1, LockedUsers
      <3>3. TruncateUsers(p) /\ HoldsUsers(req[p]) /\ Goes(req'[p], req[p])
        BY <2>1, <3>1, <3>2, HolderGoes
      <3>4. StartsOver(req[p])
        BY <1>7, <3>3 DEF UsersLost, UsersInv, Loaded, TruncateUsers
      <3> QED
        BY <3>3, <3>4 DEF Goes, StartsOver
    <2>2. ASSUME NEW q \in Requests, req'[q].pc = "fillUsers"
          PROVE  StartsOver(req'[q])
      BY <1>7, <2>1, <2>2, OthersFill DEF UsersLost
    <2> QED
      BY <1>5, <1>7, <2>2 DEF UsersLost, StartsOver
  <1>8. ASSUME InstsLost PROVE InstsLost'
    <2>1. req'[p].pc # "fillInsts"
      BY <1>8, ToFillInsts DEF InstsLost
    <2>2. ASSUME NEW q \in Requests PROVE req'[q].pc # "fillInsts"
      BY <1>8, <2>1, OthersFill DEF InstsLost
    <2> QED
      BY <1>6, <1>8, <2>2 DEF InstsLost
  <1>9. Lost' \subseteq Perishable
    BY DEF Lost, UsersLost, InstsLost, Piecewise
  <1>10. Lost' = Lost \cup Lost'
    BY <1>7, <1>8 DEF Lost
  <1> QED
    BY <1>3, <1>4, <1>9, <1>10 DEF Promise!Lose

\* The end of the process loses the files that it leaves in pieces.
LEMMA RestartLoses ==
    ASSUME Inv, Piecewise, Piecewise', Restart
    PROVE  Promise!Lose
PROOF
  <1>1. \A q \in Requests : req'[q].pc = "idle"
    BY DEF Restart, Idle
  <1>2. UNCHANGED <<users, insts>>
    BY DEF Restart
  <1>3. Lost' \subseteq Perishable
    BY DEF Lost, UsersLost, InstsLost, Piecewise
  <1>4. Lost' = Lost \cup Lost'
    BY <1>1, <1>2 DEF Lost, UsersLost, InstsLost
  <1> QED
    BY <1>2, <1>3, <1>4 DEF Promise!Lose

\* The files as they are found are a directory.
LEMMA DirectoryInit == Init => Promise!Init
PROOF
  <1> SUFFICES ASSUME Init PROVE Promise!Init
    OBVIOUS
  <1>1. insts.cfg \in Config /\ users.known \in SUBSET Users
    BY InitInv DEF Inv, TypeOK
  <1>2. users.admin \in SUBSET users.known
    BY DEF Init
  <1>3. users.state # "half" /\ insts.state = "whole"
    BY DEF Init
  <1>4. Lost = {}
    BY <1>3 DEF Lost, UsersLost, InstsLost
  <1> QED
    BY <1>1, <1>2, <1>4 DEF Promise!Init, Promise!Entry, Config, Entry

\* Every step is one of the directory's, or none.
LEMMA DirectoryNext ==
    Inv /\ UsersInv /\ InstsInv /\ Piecewise /\ Piecewise' /\ [Next]_vars
        => [Promise!Next]_(Promise!directoryVars)
PROOF
  <1> SUFFICES ASSUME Inv, UsersInv, InstsInv, Piecewise, Piecewise', [Next]_vars
               PROVE  [Promise!Next]_(Promise!directoryVars)
    OBVIOUS
  <1>1. CASE UNCHANGED vars
    <2>1. UNCHANGED <<users, insts, req>>
      BY <1>1 DEF vars
    <2>2. Lost' = Lost
      BY <2>1 DEF Lost, UsersLost, InstsLost, StartsOver
    <2> QED
      BY <2>1, <2>2 DEF Promise!directoryVars
  <1>2. CASE Restart
    BY <1>2, RestartLoses DEF Promise!Next
  <1>3. ASSUME NEW p \in Requests, Step(p)
        PROVE  [Promise!Next]_(Promise!directoryVars)
    <2>1. CASE WriteUsers(p) \/ FillUsers(p)
      BY <2>1, UsersWriteIsOperation
    <2>2. CASE WriteInsts(p) \/ FillInsts(p)
      BY <2>2, InstsWriteIsOperation
    <2>3. CASE ~(WriteUsers(p) \/ FillUsers(p) \/ WriteInsts(p) \/ FillInsts(p))
      BY <1>3, <2>3, OtherStepsLose DEF Promise!Next
    <2> QED
      BY <2>1, <2>2, <2>3
  <1> QED
    BY <1>1, <1>2, <1>3 DEF Next, Step

\* No file is in pieces that may not be.
LEMMA PiecewiseAlways == Spec => []Piecewise
  BY PiecewiseInit, PiecewiseNext, InvAlways, PTL DEF Spec

\* The two files, their locks, their fallbacks and the crashes in between
\* implement the directory, wherever the files are and whatever their disk does:
\* a request is one operation on what a file holds at that moment, or none.
THEOREM RegistryImplementsDirectory == Spec => ImplementsDirectory
PROOF
  <1>1. Init => Promise!Init
    BY DirectoryInit
  <1>2. Inv /\ UsersInv /\ InstsInv /\ Piecewise /\ Piecewise' /\ [Next]_vars
          => [Promise!Next]_(Promise!directoryVars)
    BY DirectoryNext
  <1> QED
    BY <1>1, <1>2, PiecewiseAlways, UsersAlways, InstsAlways, InvAlways, PTL
       DEF Spec, ImplementsDirectory, Promise!Spec

\* Whoever is deleted and signs in again, or takes a name that was given up, is
\* no administrator by it: users.json never holds a flag without its user.
THEOREM FlagsHaveUsers == Spec => []Promise!AdminsAreKnown
PROOF
  <1>1. UsersInv => Promise!AdminsAreKnown
    BY DEF UsersInv, Registered, Promise!AdminsAreKnown
  <1> QED
    BY <1>1, UsersAlways, PTL
=============================================================================
