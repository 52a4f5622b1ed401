\* alice and bob compete for s1, by name, by creating it and by forking; database repository.
CONSTANTS
    a = a
    b = b
    c = c
    alice = alice
    bob = bob
    s1 = s1
    s2 = s2
    plain = plain
    dir = dir
    k1 = k1
    k2 = k2
    None = None
    Identities = {alice, bob}
    Sessions = {s1, s2}
    Backend = "database"
    Existing = {}
    KindOf <- ForkC
    IdentityOf <- BobIsB
    ContextOf <- InPlain
    PreferredOf <- OthersName
    KeyOf <- OwnKeys
    Streaming = {}
    Requests = {a, b, c}
    Keys = {k1, k2}
    Contexts = {plain}
    KeyContext <- KeysArePlain
SPECIFICATION Spec
INVARIANTS BindingsAreOwned OnlyOwnersDrive
PROPERTIES OwnersStay SessionsAreInCustody
CHECK_DEADLOCK FALSE
