\* Launches with --instance-name (instanceName in the query).
SPECIFICATION Spec
CONSTANTS
    Procs = {p}
    Launches = {l1, l2}
    Enis = {e1}
    RequestTypes = {"spot", "ondemand"}
    AWSName = AWSName
    InstanceNames = {AWSName, OtherName}
    None = None
PROPERTIES StopEndsRequests
