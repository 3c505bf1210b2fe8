\* Two sessions and three tasks of which the history keeps one: every order of
\* creations, completions and evictions, a live head that blocks eviction, and
\* a restart of the server anywhere.  No symmetry, for the liveness properties.
SPECIFICATION Spec
CONSTANTS
    TaskIDs = {t1, t2, t3}
    Sessions = {s1, s2}
    MaxTasks = 1
    NoTask = NoTask
    NoSession = NoSession
INVARIANTS TypeOK SessionExclusive LiveRegistered OrderIsRegistry LockExact
PROPERTIES EvictsOnlyOld ImplementsLock LockIsReturned TaskEnds
