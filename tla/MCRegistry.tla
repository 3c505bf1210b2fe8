----------------------------- MODULE MCRegistry -----------------------------
(* Instances of Registry for TLC.                                           *)
EXTENDS Registry, TLC

CONSTANTS a, b, s1

Symmetry == Permutations(Requests) \cup Permutations(Stamps)
              \cup Permutations(Users \ EnvAdmins)

Everyone == Users \X {None}

\* The administrator b viewing as a.
ViewingAs == {<<b, a>>}

\* a has signed in before and is no administrator; b, who is one by the
\* environment, never has, so that a can be renamed to b.
OneKnown == /\ Init
            /\ users.known = {a}
            /\ users.admin = {}
            /\ users.stamp = s1

OneKnownSpec == OneKnown /\ [][Next]_vars /\ Fairness
=============================================================================
