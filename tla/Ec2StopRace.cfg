\* A request left by an interrupted Start fulfils while Stop looks around.
SPECIFICATION Spec
CONSTANTS
    Procs = {p}
    Launches = {l1, l2}
    Enis = {e1}
    RequestTypes = {"spot", "ondemand"}
    AWSName = AWSName
    InstanceNames = {AWSName}
    None = None
PROPERTIES StopLeavesNothing
