\* A rename and nothing else, with instances.json on its mount point.
SPECIFICATION Spec
CONSTANTS
    a = a
    b = b
    s1 = s1
    Users = {a, b}
    EnvAdmins = {b}
    Public = Public
    None = None
    Insts = {i}
    Requests = {r1}
    Stamps = {s1, s2, s3}
    Gone = Gone
    Kinds = {"patch"}
    Sessions <- Everyone
    Patches = {{"rename"}}
    Updates = {}
    ReaderLists = {{}}
    InPlace = {"insts"}
    MayFill = FALSE
INVARIANTS NoOwnerOrphaned
