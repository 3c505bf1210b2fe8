------------------------------- MODULE Access -------------------------------
(***************************************************************************)
(* Who may do what (src/src/server/auth.go, the ACL of                     *)
(* src/src/config/instances.go, and the rules of src/src/server/handlers.go *)
(* that keep a requester's own access), for a server with a sign-in method *)
(* configured.  A readers list is a set of usernames, possibly Public.     *)
(***************************************************************************)
CONSTANTS Users,      \* usernames, normalised
          EnvAdmins,  \* EC2CP_ADMINS
          Public,     \* ReadersPublic
          None        \* "", nobody

ASSUME NamesAssumption == /\ EnvAdmins \subseteq Users
                          /\ Public \notin Users
                          /\ None \notin Users \cup {Public}

\* InstanceConfig, without its launch defaults.
Entry == [owner: Users \cup {None}, readers: SUBSET (Users \cup {Public})]

ASSUME EntryAssumption == None \notin Entry

\* isAdmin, given the registry's admin flags.
IsAdmin(user, flags) == user \in EnvAdmins \cup flags

\* A variant of reader that honours the view-as cookie for anyone.
ReaderForAnyone(user, as, flags) == IF as # None THEN as ELSE user

\* reader: the identity a request acts as.  Its privileges are those of that
\* identity.
Reader(user, as, flags) ==
    IF IsAdmin(user, flags) /\ as # None THEN as ELSE user

CanRead(c, user, isAdmin) ==
    \/ isAdmin
    \/ user # None /\ user = c.owner
    \/ Public \in c.readers
    \/ user \in c.readers

\* What the lists of instances, statuses and tasks show, for the entries cfg.
Visible(cfg, user, isAdmin) ==
    {i \in DOMAIN cfg : cfg[i] # None /\ CanRead(cfg[i], user, isAdmin)}

\* RequireInstanceAccess: an instance that is not in the file, or a file that
\* cannot be read, is left to the handler to refuse.
AdmitsInstance(entry, user, isAdmin) ==
    entry # None => CanRead(entry, user, isAdmin)

\* handleInstanceCreate's entry.
CreatedEntry(readers, creator) ==
    [owner |-> creator,
     readers |-> IF readers = {} \/ Public \in readers \/ creator = None
                 THEN readers ELSE readers \cup {creator}]

\* A variant of handleInstanceUpdate that takes the readers sent as they are.
ReadersAsSent(readers, user, isAdmin) == readers

\* handleInstanceUpdate's list for the readers sent.
KeptReaders(readers, user, isAdmin) ==
    IF isAdmin \/ user = None \/ Public \in readers
    THEN readers ELSE readers \cup {user}
=============================================================================
