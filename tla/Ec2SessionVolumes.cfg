\* Three launches are what it takes to have the persistent volume, an
\* instance and the request of another launch at once.
SPECIFICATION Spec
CONSTANTS
    Procs = {p}
    Launches = {l1, l2, l3}
    Enis = {e1}
    RequestTypes = {"spot", "ondemand"}
    AWSName = AWSName
    InstanceNames = {AWSName}
    None = None
SYMMETRY Symmetry
INVARIANTS TypeOK ChainTargetKept 
PROPERTIES StopEndsWhatRan StopEndsRequests
