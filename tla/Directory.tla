----------------------------- MODULE Directory -----------------------------
(***************************************************************************)
(* What the registries promise to the requests that change them: each      *)
(* change is one operation on the content as it then is, whole or not at   *)
(* all, in some order (src/src/config/users.go:34, instances.go:18).       *)
(*                                                                         *)
(* A file that cannot be replaced by a rename may be lost in a change that *)
(* is cut short.  Then nothing changes it any more but, for users.json, a  *)
(* sign-in that starts it over (users.go:127-131).                         *)
(***************************************************************************)
CONSTANTS Users, Public, None,
          Insts,
          Perishable   \* the files that may be lost

VARIABLES known,   \* the users
          admin,   \* those with the admin flag
          cfg,     \* the entries of the instances
          lost     \* the files that nobody can decode

directoryVars == <<known, admin, cfg, lost>>

Entry == [owner: Users \cup {None}, readers: SUBSET (Users \cup {Public})]

Init == /\ known \in SUBSET Users
        /\ admin \in SUBSET known
        /\ cfg \in [Insts -> Entry \cup {None}]
        /\ lost = {}

\* A sign-in, or an administrator's addition, of somebody known or not.
Register(u) == /\ known' = known \cup {u}
               /\ UNCHANGED admin

SetAdmin(u) == /\ u \in known
               /\ admin' \in {admin \cup {u}, admin \ {u}}
               /\ UNCHANGED known

Remove(u) == /\ u \in known
             /\ known' = known \ {u}
             /\ admin' = admin \ {u}

Renameable(u, v) == u \in known /\ v \notin known

Renamed(u, v, x) == IF x = u THEN v ELSE x

Rename(u, v) == /\ Renameable(u, v)
                /\ known' = {Renamed(u, v, x) : x \in known}
                /\ admin' = {Renamed(u, v, x) : x \in admin}

ChangeUsers == /\ "users" \notin lost
               /\ \E u \in Users : \/ Register(u) \/ SetAdmin(u) \/ Remove(u)
                                   \/ \E v \in Users : Rename(u, v)
               /\ UNCHANGED <<cfg, lost>>

StartOver(u) == /\ "users" \in lost
                /\ known' = {u}
                /\ admin' = {}
                /\ lost' = lost \ {"users"}
                /\ UNCHANGED cfg

\* An entry is made or updated.
Configure(i) == \E e \in Entry : cfg' = [cfg EXCEPT ![i] = e]

\* A rename's first half, which somebody else's Configure may follow before
\* the second, Rename, does: the same names, in every entry at once.
RenameReferences(u, v) ==
    /\ "users" \notin lost
    /\ Renameable(u, v)
    /\ cfg' = [i \in Insts |->
                 IF cfg[i] = None THEN None
                 ELSE [owner |-> Renamed(u, v, cfg[i].owner),
                       readers |-> {Renamed(u, v, x) : x \in cfg[i].readers}]]

ChangeInsts == /\ "insts" \notin lost
               /\ \/ \E i \in Insts : Configure(i)
                  \/ \E u, v \in Users : RenameReferences(u, v)
               /\ UNCHANGED <<known, admin, lost>>

Lose == /\ \E F \in SUBSET Perishable : lost' = lost \cup F
        /\ UNCHANGED <<known, admin, cfg>>

Next == \/ ChangeUsers
        \/ ChangeInsts
        \/ \E u \in Users : StartOver(u)
        \/ Lose

Spec == Init /\ [][Next]_directoryVars

\* A flag does not outlive its user: whoever is deleted and signs in again, or
\* takes a name that was given up, is no administrator by it.
AdminsAreKnown == admin \subseteq known
=============================================================================
