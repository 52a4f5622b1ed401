\* Two first messages of one conversation, the second a stream, with cancels; memory repository.
CONSTANTS
    a = a
    b = b
    c = c
    alice = alice
    bob = bob
    s1 = s1
    s2 = s2
    plain = plain
    dir = dir
    k1 = k1
    k2 = k2
    None = None
    Identities = {alice}
    Sessions = {s1}
    Backend = "memory"
    Existing = {}
    KindOf <- SendersOnly
    IdentityOf <- AllAlice
    ContextOf <- InPlain
    PreferredOf <- NobodyNames
    KeyOf <- OneKey
    Streaming = {b}
    Requests = {a, b}
    Keys = {k1}
    Contexts = {plain}
    KeyContext <- KeysArePlain
SPECIFICATION FairSpec

INVARIANTS StrayCreatesAreDoomed
PROPERTIES EveryRequestEnds
CHECK_DEADLOCK FALSE
