\* Three executions of alice queue for the lock of s1; memory repository.
CONSTANTS
    a = a
    b = b
    c = c
    alice = alice
    bob = bob
    s1 = s1
    s2 = s2
    plain = plain
    dir = dir
    k1 = k1
    k2 = k2
    None = None
    Identities = {alice}
    Sessions = {s1}
    Backend = "memory"
    Existing = {s1}
    KindOf <- SendersOnly
    IdentityOf <- AllAlice
    ContextOf <- InPlain
    PreferredOf <- EveryoneNames
    KeyOf <- OneKey
    Streaming = {b}
    Requests = {a, b, c}
    Keys = {k1}
    Contexts = {plain}
    KeyContext <- KeysArePlain
SPECIFICATION Spec
INVARIANTS MutexUnlessRobbed LocksHaveHolders EndedLeavesNothing
SYMMETRY AandC
CHECK_DEADLOCK FALSE
