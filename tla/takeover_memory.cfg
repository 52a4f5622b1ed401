\* alice and bob compete for s1 through messages and a control method; memory repository.
CONSTANTS
    a = a
    b = b
    c = c
    alice = alice
    bob = bob
    s1 = s1
    s2 = s2
    plain = plain
    dir = dir
    k1 = k1
    k2 = k2
    None = None
    Identities = {alice, bob}
    Sessions = {s1}
    Backend = "memory"
    Existing = {s1}
    KindOf <- ControlC
    IdentityOf <- BobIsB
    ContextOf <- InPlain
    PreferredOf <- EveryoneNames
    KeyOf <- OwnKeys
    Streaming = {}
    Requests = {a, b, c}
    Keys = {k1, k2}
    Contexts = {plain}
    KeyContext <- KeysArePlain
SPECIFICATION Spec
INVARIANTS ClaimsHaveClaimants
CHECK_DEADLOCK FALSE
