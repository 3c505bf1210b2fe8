\* Two tasks, so that one may be submitted while the other runs, with a history
\* of one; two interfaces, which is what two instances would take.
SPECIFICATION ServerSpec
CONSTANTS
    Procs = {t1, t2}
    Sessions = {home}
    Home = home
    MaxTasks = 1
    NoTask = NoTask
    NoSession = NoSession
    Launches = {l1, l2}
    Enis = {e1, e2}
    RequestTypes = {"spot", "ondemand"}
    AWSName = AWSName
    InstanceNames = {AWSName}
    None = None
SYMMETRY Symmetry
INVARIANTS OneInstance
