CONSTANTS
    ann = ann  bob = bob  p = p  s1 = s1
    Null = null
    Users = {ann, bob}
    Roles = {"global_admin", "event_admin"}
    Passwords = {p, q}
    Sessions = {s1, s2, s3}
    Tokens = {k1, k2, k3}
    Handlers = {h1, h2}
    Plans <- Everything
    MaxVersion = 4
SYMMETRY Symmetry
SPECIFICATION Spec
INVARIANTS TypeOK SessionProvesPassword
PROPERTIES RevivedOnlyUnbumped AdminsRunOutOnlyInARace
CHECK_DEADLOCK FALSE
