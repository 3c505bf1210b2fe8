\* Two interfaces, so that one may be left untagged; no symmetry, since
\* OpEnds is a liveness property.
SPECIFICATION Spec
CONSTANTS
    Procs = {p}
    Launches = {l1, l2}
    Enis = {e1, e2}
    RequestTypes = {"spot", "ondemand"}
    AWSName = AWSName
    InstanceNames = {AWSName}
    None = None
INVARIANTS OrphanReachable
PROPERTIES OpEnds
