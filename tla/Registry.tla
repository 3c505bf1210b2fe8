------------------------------ MODULE Registry ------------------------------
(***************************************************************************)
(* The user and instance registries: users.json and instances.json         *)
(* (src/src/config/users.go, instances.go), the requests that change them  *)
(* (src/src/server/handlers.go, auth.go) and the cache of admin flags      *)
(* every guarded request reads (auth.go:286-322).                          *)
(*                                                                         *)
(* A request is one goroutine.  It is split where another may come in:     *)
(* Stat and the load of users.json behind the admin check, the load and    *)
(* the write of each file, the truncation and the filling of a file that   *)
(* is written in place.  Readers take no lock; writers hold their file's.  *)
(* What is in front of a request's first read is no state.                 *)
(***************************************************************************)
EXTENDS Access, FiniteSets

CONSTANTS Insts,        \* session ids instances.json may have
          Requests,     \* requests in progress at a time
          Stamps,       \* size and modification time of users.json
          Gone,         \* the stamp of a missing users.json
          Kinds,        \* the requests in use
          Sessions,     \* <<user, view-as>> of the requests
          Patches,      \* the parts a change of a user may have
          Updates,      \* the fields of an entry an update may send
          ReaderLists,  \* the readers lists it may send
          InPlace,      \* files on a mount point: no rename onto them
          MayFill       \* the disk may fill up

ASSUME StampsAssumption == Gone \notin Stamps /\ None \notin Stamps \cup {Gone}
ASSUME UpdatesAssumption == Updates \subseteq SUBSET {"owner", "readers"}
ASSUME SessionsAssumption == Sessions \subseteq Users \X (Users \cup {None})
ASSUME RequestsAssumption == None \notin Requests
ASSUME ReaderListsAssumption == ReaderLists \subseteq SUBSET (Users \cup {Public})
ASSUME DiskAssumption == InPlace \subseteq {"users", "insts"} /\ MayFill \in BOOLEAN
ASSUME PatchesAssumption == \A todo \in Patches :
                               todo # {} /\ todo \subseteq {"email", "rename", "admin"}

VARIABLES users,    \* users.json: its state, content and stamp
          insts,    \* instances.json: its state and content
          usersMu,  \* the holder of each file's mutex
          instMu,
          cache,    \* adminCacheSet and adminCacheStat
          req       \* per request: what it asks, its locals, its history

vars == <<users, insts, usersMu, instMu, cache, req>>

----------------------------------------------------------------------------
(* State.  A file that is not "whole" is empty or cut short; its content is  *)
(* then what it held before, which nobody can read.                         *)

Config == [Insts -> Entry \cup {None}]
UserData == [known: SUBSET Users, admin: SUBSET Users]
NoData == [known |-> {}, admin |-> {}]

AdminKinds == {"add", "patch", "delete"}
Parts == {"email", "rename", "admin"}

Request ==
    [pc: {"idle", "stat", "check", "users", "writeUsers", "fillUsers",
          "insts", "writeInsts", "fillInsts"},
     kind: {"none", "signin", "create", "update"} \cup AdminKinds,
     by: Users \cup {None}, as: Users \cup {None},  \* session and view-as
     who: Users \cup {None}, to: Users \cup {None}, \* the user and a new name
     todo: SUBSET Parts, flag: BOOLEAN,             \* what a patch still does
     inst: Insts \cup {None}, entry: Entry \cup {None},
     sent: SUBSET {"owner", "readers"},
     owner: Users \cup {None}, readers: SUBSET (Users \cup {Public}),
     guarded: BOOLEAN,                              \* the guard has passed it
     stamp: Stamps \cup {Gone, None},
     user: Users \cup {None}, isAdmin: BOOLEAN,     \* the identity acted as
     newUsers: UserData, newInsts: Config,          \* what is to be written
     seen: SUBSET SUBSET Users,     \* history: the flags since Stat
     entitled: BOOLEAN,             \* history: Entitled at the last check
     carried: SUBSET Insts]         \* history: what a rename has to carry

NoConfig == [i \in Insts |-> None]

Idle == [pc |-> "idle", kind |-> "none", by |-> None, as |-> None,
         who |-> None, to |-> None, todo |-> {}, flag |-> FALSE,
         inst |-> None, entry |-> None, sent |-> {}, owner |-> None,
         readers |-> {}, guarded |-> FALSE, stamp |-> None, user |-> None,
         isAdmin |-> FALSE, newUsers |-> NoData, newInsts |-> NoConfig,
         seen |-> {}, entitled |-> FALSE, carried |-> {}]

TypeOK ==
    /\ users \in [state: {"whole", "half", "missing"}, known: SUBSET Users,
                  admin: SUBSET Users, stamp: Stamps]
    /\ insts \in [state: {"whole", "half"}, cfg: Config]
    /\ usersMu \in Requests \cup {None}
    /\ instMu \in Requests \cup {None}
    /\ \A p \in Requests :
           /\ usersMu = p => req[p].pc \notin {"idle", "stat", "check", "users"}
           /\ instMu = p => req[p].pc \in {"writeInsts", "fillInsts"}
    /\ cache \in [loaded: BOOLEAN, set: SUBSET Users,
                  stamp: Stamps \cup {Gone, None}]
    /\ req \in [Requests -> Request]

NoCache == [loaded |-> FALSE, set |-> {}, stamp |-> None]

\* The files are as earlier runs of the program left them: every entry is one
\* a create has made, by someone who was known then.  Before anyone has signed
\* in there is no users.json.
Init ==
    /\ users \in [state: {"whole", "missing"}, known: SUBSET Users,
                  admin: SUBSET Users, stamp: Stamps]
    /\ users.admin \subseteq users.known
    /\ users.state = "missing" => users.known = {}
    /\ insts \in [state: {"whole"},
                  cfg: [Insts -> {CreatedEntry(readers, u) :
                             readers \in ReaderLists, u \in users.known}
                                 \cup {None}]]
    /\ usersMu = None
    /\ instMu = None
    /\ cache = NoCache
    /\ req = [p \in Requests |-> Idle]

----------------------------------------------------------------------------
(* Requests                                                                *)

Set(p, r) == req' = [req EXCEPT ![p] = r]

CurrentStamp == IF users.state = "missing" THEN Gone ELSE users.stamp

\* os.Stat in registryAdmins.
Statted(r) == [r EXCEPT !.pc = "check", !.stamp = CurrentStamp,
                        !.seen = {users.admin}]

\* handleLoginPost and handleOAuthCallback, up to RecordUser.
SignIn(p) == \E u \in Users :
    Set(p, [Idle EXCEPT !.pc = "users", !.kind = "signin", !.by = u, !.who = u])

\* The requests behind requireAdmin, up to isAdmin's Stat.
AddUser(p) == \E s \in Sessions, u \in Users :
    Set(p, Statted([Idle EXCEPT !.kind = "add", !.by = s[1], !.who = u]))

PatchUser(p) ==
    \E s \in Sessions, u, to \in Users, todo \in Patches, flag \in BOOLEAN :
        /\ to # u <=> "rename" \in todo
        /\ "admin" \notin todo => ~flag
        /\ Set(p, Statted([Idle EXCEPT !.kind = "patch", !.by = s[1], !.who = u,
                                       !.to = to, !.todo = todo, !.flag = flag]))

DeleteUser(p) == \E s \in Sessions, u \in Users :
    Set(p, Statted([Idle EXCEPT !.kind = "delete", !.by = s[1], !.who = u]))

\* handleInstanceCreate, up to reader's Stat.
CreateInstance(p) ==
    \E s \in Sessions, i \in Insts, l \in ReaderLists :
        Set(p, Statted([Idle EXCEPT !.kind = "create", !.by = s[1], !.as = s[2],
                                    !.inst = i, !.readers = l]))

\* RequireInstanceAccess's LoadInstances in front of handleInstanceUpdate.
\* When it finds no entry, the guard asks nothing.
UpdateInstance(p) ==
    \E s \in Sessions, i \in Insts, sent \in Updates, o \in Users,
       l \in ReaderLists :
        LET entry == IF insts.state = "whole" THEN insts.cfg[i] ELSE None
        IN  Set(p, [Idle EXCEPT !.pc = "stat", !.kind = "update", !.by = s[1],
                        !.as = s[2], !.inst = i, !.entry = entry, !.sent = sent,
                        !.guarded = entry = None,
                        !.owner = IF "owner" \in sent THEN o ELSE None,
                        !.readers = IF "readers" \in sent THEN l ELSE {}])

Arrive(p) ==
    /\ req[p].pc = "idle"
    /\ \/ "signin" \in Kinds /\ SignIn(p)
       \/ "add" \in Kinds /\ AddUser(p)
       \/ "patch" \in Kinds /\ PatchUser(p)
       \/ "delete" \in Kinds /\ DeleteUser(p)
       \/ "create" \in Kinds /\ CreateInstance(p)
       \/ "update" \in Kinds /\ UpdateInstance(p)
    /\ UNCHANGED <<users, insts, usersMu, instMu, cache>>

Stat(p) ==
    /\ req[p].pc = "stat"
    /\ Set(p, Statted(req[p]))
    /\ UNCHANGED <<users, insts, usersMu, instMu, cache>>

----------------------------------------------------------------------------
(* The admin check                                                         *)

\* The set as it was at the first request.
NeverRefreshed(stamp) ==
    IF cache.loaded THEN cache
    ELSE [loaded |-> TRUE, set |-> users.admin, stamp |-> stamp]

\* registryAdmins behind adminCacheMu.  LoadUsers reads a missing file as an
\* empty registry; a file it cannot decode leaves the set as it was.
Refreshed(stamp) ==
    IF cache.loaded /\ stamp = cache.stamp THEN cache
    ELSE CASE users.state = "half" -> [cache EXCEPT !.loaded = TRUE]
           [] users.state = "missing" ->
                  [loaded |-> TRUE, set |-> {}, stamp |-> stamp]
           [] OTHER -> [loaded |-> TRUE, set |-> users.admin, stamp |-> stamp]

\* handleUserAdmin's order.
NextPart(r) == CASE "email" \in r.todo -> "email"
                 [] "email" \notin r.todo /\ "rename" \in r.todo -> "rename"
                 [] OTHER -> "admin"

\* handleUserAdmin and handleUserDelete refuse this before they touch a file.
OwnOrEnv(r) == r.who = r.by \/ r.who \in EnvAdmins

NeverRefused(r) == FALSE

Refused(r) ==
    CASE r.kind = "delete" -> OwnOrEnv(r)
      [] r.kind = "patch" ->
             \/ NextPart(r) = "rename" /\ OwnOrEnv(r)
             \/ NextPart(r) = "admin" /\ ~r.flag /\ OwnOrEnv(r)
      [] OTHER -> FALSE

\* On to the next file a request changes, or to its end.
Onward(r) ==
    IF r.kind = "patch" /\ r.todo = {} THEN Idle
    ELSE IF Refused(r) THEN Idle ELSE [r EXCEPT !.pc = "users"]

\* UserReferences lists what a deleted user is still named by, and its error
\* ends the request.
CannotList(r) == r.kind = "delete" /\ insts.state = "half"

\* The sender has been an administrator since Stat, or nobody can tell.
Entitled(r) == \/ users.state = "half"
               \/ \E s \in r.seen : IsAdmin(r.by, s)

Checked(r, flags) ==
    LET user == Reader(r.by, r.as, flags)
        isAdmin == IsAdmin(user, flags)
        done == [r EXCEPT !.stamp = None, !.seen = {},
                          !.entitled = Entitled(r)]
    IN  CASE r.kind \in AdminKinds ->
                 IF IsAdmin(r.by, flags) /\ ~CannotList(r)
                 THEN Onward(done) ELSE Idle
          [] r.kind = "update" /\ ~r.guarded ->
                 IF AdmitsInstance(r.entry, user, isAdmin)
                 THEN [done EXCEPT !.pc = "stat", !.guarded = TRUE,
                                   !.entry = None]
                 ELSE Idle
          [] OTHER -> [done EXCEPT !.pc = "insts", !.by = None, !.as = None,
                                   !.user = user, !.isAdmin = isAdmin]

\* isAdmin, or reader, whose two or three isAdmin calls are taken as one; what
\* requireAdmin, RequireInstanceAccess or the handler does with the answer.
Check(p) ==
    /\ req[p].pc = "check"
    /\ cache' = Refreshed(req[p].stamp)
    /\ Set(p, Checked(req[p], cache'.set))
    /\ UNCHANGED <<users, insts, usersMu, instMu>>

----------------------------------------------------------------------------
(* users.json                                                              *)

\* sync.Mutex, and two variants: without it, and without the deferred Unlock.
AlwaysFree(mu) == TRUE
Free(mu) == mu = None

StillHeld(mu, p) == mu
Released(mu, p) == IF mu = p THEN None ELSE mu

Renames(r) == r.kind = "patch" /\ NextPart(r) = "rename"

\* RenameUser on a set of names, and a variant that forgets the delete.
CopiedIn(S, old, new) == IF old \in S THEN S \cup {new} ELSE S

RenameIn(S, old, new) == IF old \in S THEN (S \ {old}) \cup {new} ELSE S

\* What each operation of users.go makes of the registry it has loaded.
ChangedUsers(r, now) ==
    CASE r.kind \in {"signin", "add"} -> [now EXCEPT !.known = @ \cup {r.who}]
      [] r.kind = "delete" -> [known |-> now.known \ {r.who},
                               admin |-> now.admin \ {r.who}]
      [] Renames(r) -> [known |-> RenameIn(now.known, r.who, r.to),
                        admin |-> RenameIn(now.admin, r.who, r.to)]
      [] r.kind = "patch" /\ NextPart(r) = "admin" ->
             [now EXCEPT !.admin = IF r.flag THEN @ \cup {r.who}
                                             ELSE @ \ {r.who}]
      [] OTHER -> now

Names(entry, u) == entry # None /\ (u = entry.owner \/ u \in entry.readers)

\* Lock and load: RecordUser, SetUserEmail, RenameUser, SetUserAdmin,
\* DeleteUser.  Only RecordUser starts over from a file it cannot decode.
LockUsers(p) ==
    LET r == req[p]
        upserts == r.kind \in {"signin", "add"}
        now == IF users.state = "whole"
               THEN [known |-> users.known, admin |-> users.admin] ELSE NoData
        refused == \/ ~upserts /\ users.state = "half"
                   \/ ~upserts /\ r.who \notin now.known
                   \/ Renames(r) /\ r.to \in now.known
    IN  /\ r.pc = "users"
        /\ Free(usersMu)
        /\ \/ /\ refused
              /\ Set(p, Idle)
              /\ UNCHANGED usersMu
           \/ /\ ~refused
              /\ usersMu' = p
              /\ Set(p, [r EXCEPT
                     !.pc = IF Renames(r) THEN "insts" ELSE "writeUsers",
                     !.newUsers = ChangedUsers(r, now),
                     !.carried = IF ~Renames(r) THEN {} ELSE
                         {i \in Insts : Names(insts.cfg[i], r.who)}])
        /\ UNCHANGED <<users, insts, instMu, cache>>

\* A stamp nobody remembers: the modification time moves on.
Fresh(s) == s \notin {users.stamp, cache.stamp}
                       \cup {req[q].stamp : q \in Requests}

\* The write is seen by every check under way.
Witnessed(p, flags, r) ==
    req' = [q \in Requests |->
              IF q = p THEN r
              ELSE IF req[q].pc = "check"
                   THEN [req[q] EXCEPT !.seen = @ \cup {flags}]
                   ELSE req[q]]

\* The new content is in place and the lock released; a patch goes on.
UsersWritten(p) ==
    LET r == req[p]
        rest == [r EXCEPT !.todo = @ \ {NextPart(r)}, !.newUsers = NoData,
                          !.carried = {}, !.who = IF Renames(r) THEN r.to ELSE @]
    IN  /\ \E s \in Stamps :
               /\ Fresh(s)
               /\ users' = [state |-> "whole", known |-> r.newUsers.known,
                            admin |-> r.newUsers.admin, stamp |-> s]
        /\ Witnessed(p, r.newUsers.admin,
                     IF r.kind = "patch" THEN Onward(rest) ELSE Idle)
        /\ usersMu' = Released(usersMu, p)
        /\ UNCHANGED <<insts, instMu, cache>>

WriteUsers(p) ==
    /\ req[p].pc = "writeUsers"
    /\ "users" \notin InPlace
    /\ UsersWritten(p)

\* writeAtomic has failed, on a mount point or on a full disk: WriteFileAtomic
\* opens the file itself, which empties it, ...
TruncateUsers(p) ==
    /\ req[p].pc = "writeUsers"
    /\ "users" \in InPlace \/ MayFill
    /\ \E s \in Stamps : Fresh(s) /\ users' = [users EXCEPT !.state = "half",
                                                            !.stamp = s]
    /\ Set(p, [req[p] EXCEPT !.pc = "fillUsers"])
    /\ UNCHANGED <<insts, usersMu, instMu, cache>>

\* ... and fills it.
FillUsers(p) == req[p].pc = "fillUsers" /\ UsersWritten(p)

----------------------------------------------------------------------------
(* instances.json                                                          *)

\* renameInstanceReferences on one entry, and a variant that forgets readers.
OwnerRenamed(c, old, new) ==
    IF c = None THEN None
    ELSE [c EXCEPT !.owner = IF @ = old THEN new ELSE @]

RenamedEntry(c, old, new) ==
    IF c = None THEN None
    ELSE [owner |-> IF c.owner = old THEN new ELSE c.owner,
          readers |-> RenameIn(c.readers, old, new)]

\* What handleInstanceUpdate's callback makes of an entry, and a variant that
\* writes what was not sent.
WholeEntry(r, c) ==
    [owner |-> r.owner, readers |-> KeptReaders(r.readers, r.user, r.isAdmin)]

UpdatedEntry(r, c) ==
    [owner |-> IF "owner" \in r.sent THEN r.owner ELSE c.owner,
     readers |-> IF "readers" \in r.sent
                 THEN KeptReaders(r.readers, r.user, r.isAdmin)
                 ELSE c.readers]

ChangedInsts(r) ==
    CASE r.kind = "create" ->
             [insts.cfg EXCEPT ![r.inst] = CreatedEntry(r.readers, r.user)]
      [] r.kind = "update" ->
             [insts.cfg EXCEPT ![r.inst] = UpdatedEntry(r, @)]
      [] OTHER -> [i \in Insts |-> RenamedEntry(insts.cfg[i], r.who, r.to)]

\* Lock and load: AddInstance, UpdateInstance, renameInstanceReferences, which
\* writes nothing when it has touched nothing.
LockInsts(p) ==
    LET r == req[p]
        refused == \/ insts.state = "half"
                   \/ r.kind = "create" /\ insts.cfg[r.inst] # None
                   \/ r.kind = "update" /\ insts.cfg[r.inst] = None
        untouched == r.kind = "patch" /\ ChangedInsts(r) = insts.cfg
    IN  /\ r.pc = "insts"
        /\ Free(instMu)
        /\ \/ /\ refused
              /\ Set(p, Idle)
              /\ usersMu' = Released(usersMu, p)
              /\ UNCHANGED instMu
           \/ /\ ~refused /\ untouched
              /\ Set(p, [r EXCEPT !.pc = "writeUsers"])
              /\ UNCHANGED <<usersMu, instMu>>
           \/ /\ ~refused /\ ~untouched
              /\ Set(p, [r EXCEPT !.pc = "writeInsts",
                                  !.newInsts = ChangedInsts(r)])
              /\ instMu' = p
              /\ UNCHANGED usersMu
        /\ UNCHANGED <<users, insts, cache>>

\* What others still have to carry for a rename after p has rewritten p's entry.
Uncarried(p, r) ==
    req' = [q \in Requests |->
              IF q = p THEN r
              ELSE [req[q] EXCEPT !.carried = @ \ {req[p].inst}]]

InstsWritten(p) ==
    /\ insts' = [state |-> "whole", cfg |-> req[p].newInsts]
    /\ Uncarried(p, IF req[p].kind = "patch"
                    THEN [req[p] EXCEPT !.pc = "writeUsers",
                                        !.newInsts = NoConfig]
                    ELSE Idle)
    /\ instMu' = Released(instMu, p)
    /\ UNCHANGED <<users, usersMu, cache>>

WriteInsts(p) ==
    /\ req[p].pc = "writeInsts"
    /\ "insts" \notin InPlace
    /\ InstsWritten(p)

TruncateInsts(p) ==
    /\ req[p].pc = "writeInsts"
    /\ "insts" \in InPlace \/ MayFill
    /\ insts' = [insts EXCEPT !.state = "half"]
    /\ Set(p, [req[p] EXCEPT !.pc = "fillInsts"])
    /\ UNCHANGED <<users, usersMu, instMu, cache>>

FillInsts(p) == req[p].pc = "fillInsts" /\ InstsWritten(p)

----------------------------------------------------------------------------
(* Failures                                                                *)

\* The file cannot be opened for writing, or there is no space to fill it: the
\* request ends with an error and its locks are released.
WriteFails(p) ==
    /\ \/ req[p].pc \in {"writeUsers", "writeInsts"}
       \/ req[p].pc \in {"fillUsers", "fillInsts"} /\ MayFill
    /\ Set(p, Idle)
    /\ usersMu' = Released(usersMu, p)
    /\ instMu' = Released(instMu, p)
    /\ UNCHANGED <<users, insts, cache>>

\* The process ends, between any two steps, and is started again.
Restart ==
    /\ req' = [p \in Requests |-> Idle]
    /\ usersMu' = None
    /\ instMu' = None
    /\ cache' = NoCache
    /\ UNCHANGED <<users, insts>>

----------------------------------------------------------------------------
(* The specification                                                       *)

Write(p) == \/ WriteUsers(p) \/ TruncateUsers(p) \/ FillUsers(p)
            \/ WriteInsts(p) \/ TruncateInsts(p) \/ FillInsts(p)

Next ==
    \/ \E p \in Requests : \/ Arrive(p) \/ Stat(p) \/ Check(p)
                           \/ LockUsers(p) \/ LockInsts(p)
                           \/ Write(p) \/ WriteFails(p)
    \/ Restart

Spec == Init /\ [][Next]_vars

\* A goroutine that can run does; a sync.Mutex that is released again and again
\* is got in the end (it hands over to a waiter that has starved).
Fairness ==
    \A p \in Requests : /\ WF_vars(Stat(p) \/ Check(p) \/ Write(p))
                        /\ SF_vars(LockUsers(p))
                        /\ SF_vars(LockInsts(p))

FairSpec == Spec /\ Fairness

----------------------------------------------------------------------------
(* Properties                                                              *)

\* A file is lost when nobody can decode it and nobody is about to fill it with
\* what it held: users.json is then only ever started over.
StartsOver(r) == /\ r.kind \in {"signin", "add"}
                 /\ r.newUsers = [known |-> {r.who}, admin |-> {}]

UsersLost == /\ users.state = "half"
             /\ \A p \in Requests : req[p].pc = "fillUsers" => StartsOver(req[p])
InstsLost == /\ insts.state = "half"
             /\ \A p \in Requests : req[p].pc # "fillInsts"

\* p's request has written the file whole.
WritesUsers(p) == /\ req[p].pc \in {"writeUsers", "fillUsers"}
                  /\ req'[p] # req[p] /\ users' # users
                  /\ users'.state = "whole"

WritesInsts(p) == /\ req[p].pc \in {"writeInsts", "fillInsts"}
                  /\ req'[p] # req[p] /\ insts' # insts
                  /\ insts'.state = "whole"

Changes(S, T) == (S \ T) \cup (T \ S)

\* The flags an admin check answers with are flags users.json held at a moment
\* of that check: neither the cache, nor its stamp taken outside the lock, nor
\* a write in between makes it answer with older ones (auth.go:297-331).  A
\* file that cannot be decoded at that moment is excepted: the code then
\* answers with what it last knew.
CheckIsCurrent ==
    [][\A p \in Requests :
         (/\ req[p].pc = "check" /\ req'[p].pc # "check"
          /\ cache'.loaded
          /\ users.state # "half") => cache'.set \in req[p].seen]_vars

\* Nobody is added, removed or renamed, and no flag is set or cleared, but for
\* the user a request is about; a change other than signing in is made by a
\* request whose sender was an administrator, as far as the file could be
\* decoded; and no change made by another request since is undone (users.go).
\* Only a file that is lost has nothing left to keep.
UsersChangeByRequest ==
    [][\A p \in Requests : WritesUsers(p) /\ ~UsersLost =>
         LET r == req[p]
             about == IF Renames(r) THEN {r.who, r.to} ELSE {r.who}
         IN  /\ Changes(users.known, users'.known) \subseteq about
             /\ Changes(users.admin, users'.admin) \subseteq about
             /\ r.kind = "signin" \/ r.entitled
             /\ r.kind \in {"signin", "add"} => users'.admin = users.admin
             /\ Renames(r) => (r.to \in users'.admin <=> r.who \in users.admin)
      ]_vars

\* The registry loses its last administrator only to someone who, by then, is
\* not one by the registry: the guards look at the sender alone, so two
\* administrators can revoke each other, but nobody can end up alone and
\* remove themselves, not even by renaming first (handlers.go:216, :241, :272).
LastAdminNeverLeaves ==
    [][\A p \in Requests : WritesUsers(p) /\ ~UsersLost =>
         (users.admin # {} /\ users'.admin = {} => req[p].by \notin users.admin)
      ]_vars

\* An entry of instances.json changes only in the fields a request sends, for
\* the instance it names; a rename changes only entries that name the user, and
\* no update made by another request since is undone (instances.go).
InstancesChangeByRequest ==
    [][\A p \in Requests : WritesInsts(p) =>
         \A i \in Insts : insts'.cfg[i] # insts.cfg[i] =>
             LET r == req[p]
                 old == insts.cfg[i]
                 new == insts'.cfg[i]
             IN  /\ new # None
                 /\ CASE r.kind = "create" -> i = r.inst /\ old = None
                      [] r.kind = "patch" -> Names(old, r.who)
                      [] OTHER ->
                             /\ i = r.inst /\ old # None
                             /\ "owner" \notin r.sent => new.owner = old.owner
                             /\ "readers" \notin r.sent =>
                                    new.readers = old.readers]_vars

\* When a rename reaches users.json, every instance that named the user when
\* it began names the new name and no longer the old one, unless someone has
\* configured that instance since (users.go:196-235).
RenameCarriesAccess ==
    [][\A p \in Requests :
         (WritesUsers(p) /\ Renames(req[p]) /\ insts.state = "whole") =>
             \A i \in req[p].carried : /\ Names(insts.cfg[i], req[p].to)
                                       /\ ~Names(insts.cfg[i], req[p].who)]_vars

\* A readers list sent by somebody who is not an administrator leaves them
\* able to read, whatever happened to their rights or to the entry since the
\* guard admitted them (handlers.go:449-458).
ReadersKeepAccess ==
    [][\A p \in Requests : WritesInsts(p) =>
         LET r == req[p]
         IN  r.kind = "update" /\ "readers" \in r.sent /\ ~r.isAdmin =>
                 CanRead(insts'.cfg[r.inst], r.user, FALSE)]_vars

\* Viewing as someone shows no instance that the administrator would not see
\* without it, with the entries and flags of any moment (auth.go:354-373).
ImpersonationNarrows ==
    \A user \in Users, as \in Users \cup {None} :
        LET seenAs == Reader(user, as, users.admin)
        IN  Visible(insts.cfg, seenAs, IsAdmin(seenAs, users.admin))
              \subseteq Visible(insts.cfg, user, IsAdmin(user, users.admin))

\* When no request is under way, every owner named by instances.json is a user
\* the registry knows: what users.go:196-200 says of a crash between the two
\* writes of a rename.
NoOwnerOrphaned ==
    (\A p \in Requests : req[p].pc = "idle") =>
        \A i \in Insts : insts.cfg[i] # None => insts.cfg[i].owner \in users.known

\* Every request is answered: no order of the two files' locks, no refusal and
\* no failed write leaves one waiting (users.go, instances.go).
RequestsEnd == \A p \in Requests : req[p].pc # "idle" ~> req[p].pc = "idle"

Lost == (IF UsersLost THEN {"users"} ELSE {}) \cup (IF InstsLost THEN {"insts"} ELSE {})
Perishable == IF MayFill THEN {"users", "insts"} ELSE InPlace

Promise == INSTANCE Directory WITH
    known <- users.known, admin <- users.admin, cfg <- insts.cfg, lost <- Lost

\* The files, their locks and their fallbacks implement the directory: every
\* write is one operation on what the file holds at that moment, and only a
\* sign-in to a users.json that was cut short starts it over
\* (users.go:127-131).
ImplementsDirectory == Promise!Spec
=============================================================================
