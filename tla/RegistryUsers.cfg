\* Two requests about users: the races of the check, the guards and the writes.
SPECIFICATION Spec
CONSTANTS
    a = a
    b = b
    s1 = s1
    Users = {a, b}
    EnvAdmins = {}
    Public = Public
    None = None
    Insts = {}
    Requests = {r1, r2}
    Stamps = {s1, s2, s3, s4}
    Gone = Gone
    Kinds = {"signin", "add", "patch", "delete"}
    Sessions <- Everyone
    Patches = {{"email"}, {"admin"}, {"rename", "admin"}}
    Updates = {{"owner"}, {"readers"}}
    ReaderLists = {}
    InPlace = {"insts"}
    MayFill = TRUE
SYMMETRY Symmetry
INVARIANTS TypeOK
    
