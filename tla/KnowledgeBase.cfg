SPECIFICATION Spec
CONSTANTS
    User = {u1, u2}
    NoUser = NoUser
    Kb = {k1}
    NoKb = NoKb
    Doc = {d1, d2}
    Call = {c1, c2, c3}
    Grantable = {"viewer", "admin"}
    MaxIds = 3
    MaxChunks = 1
SYMMETRY KbSymmetry
INVARIANTS
    MembershipsSound
    SearchesAllowed
PROPERTIES
    FreshUnlessLate
    
CHECK_DEADLOCK FALSE
CONSTRAINT MembersOrDocuments
