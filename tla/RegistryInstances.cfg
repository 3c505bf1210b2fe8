\* Two requests about one instance and its users, on a disk that may fill up,
\* which makes both files written in place; no symmetry, since RequestsEnd is a
\* liveness property.
SPECIFICATION OneKnownSpec
CONSTANTS
    a = a
    b = b
    s1 = s1
    Users = {a, b}
    EnvAdmins = {b}
    Public = Public
    None = None
    Insts = {i}
    Requests = {r1, r2}
    Stamps = {s1, s2, s3}
    Gone = Gone
    Kinds = {"patch", "create", "update"}
    Sessions <- ViewingAs
    Patches = {{"rename"}}
    Updates = {{"owner"}, {"readers"}}
    ReaderLists = {{b}}
    InPlace = {}
    MayFill = TRUE
 
PROPERTIES  RenameCarriesAccess ReadersKeepAccess RequestsEnd
