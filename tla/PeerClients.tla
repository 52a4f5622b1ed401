------------------------------ MODULE PeerClients ------------------------------
(***************************************************************************)
(* The cache of clients for remote agents (A2AClientManager).  A caller    *)
(* borrows the client of a URL and returns it; clients that are expired or *)
(* too many are taken out of the cache, under a lock that nothing awaits   *)
(* in, and then closed outside of it.  Closing may raise, or the caller    *)
(* may be cancelled in it.  A client is busy only while it is borrowed.    *)
(***************************************************************************)
EXTENDS Integers, FiniteSets, Sequences
CONSTANTS Callers,
          Urls,
          MaxSize,     \* a2a_client_cache_maxsize, which caches nothing if 0
          Ttl,         \* a2a_client_cache_ttl_seconds
          MaxTime,     \* bound of the clock
          MaxBorrows,  \* bound: times a client is borrowed
          NoEntry      \* no cache entry

ASSUME CacheAssumption == MaxSize \in Nat \ {0} /\ Ttl \in Nat \ {0}
ASSUME BoundsAssumption == MaxTime \in Nat /\ MaxBorrows \in Nat
ASSUME CallersAssumption == IsFiniteSet(Callers) /\ Urls # {}

VARIABLES clock,
          entries,   \* clients: url -> entry or NoEntry
          uses,      \* borrows and returns so far: the order of last_used
          at,        \* caller -> "idle", "entering", "using" or "returning"
          url,       \* caller -> the URL it borrowed last
          holds,     \* caller -> the client it holds, 0 for none
          toClose,   \* caller -> clients it has taken out and must close
          made,      \* clients created: 1..made
          closed,    \* clients closed
          lost,      \* clients taken out, whose closing was given up
          leaked,    \* history: clients whose borrow was never given back
          shut       \* close_all has been called

peerVars == <<clock, entries, uses, at, url, holds, toClose, made, closed, lost,
              leaked, shut>>

Clients == 1..MaxBorrows
Entry == [client : Clients, used : Nat, expires : Nat, borrows : Nat, pending : BOOLEAN]
ASSUME NoEntryIsNone == NoEntry \notin Entry

PeerInit ==
    /\ clock = 0 /\ uses = 0 /\ made = 0
    /\ entries = [u \in Urls |-> NoEntry]
    /\ at = [c \in Callers |-> "idle"]
    /\ url \in [Callers -> {CHOOSE u \in Urls : TRUE}]
    /\ holds = [c \in Callers |-> 0]
    /\ toClose = [c \in Callers |-> {}]
    /\ closed = {} /\ lost = {} /\ leaked = {} /\ shut = FALSE

-------------------------------------------------------------------------------
Cached(es) == {u \in Urls : es[u] # NoEntry}
Expired(e) == e.expires <= clock
Without(es, us) == [u \in Urls |-> IF u \in us THEN NoEntry ELSE es[u]]
ClientsOf(es, us) == {es[u].client : u \in us}
Mark(es, us) == [u \in Urls |-> IF u \in us THEN [es[u] EXCEPT !.pending = TRUE] ELSE es[u]]

(* mutant: an expired client is taken out although it is borrowed *)
IdleUnprotected(es, protected) == Cached(es) \ protected

IdleEntries(es, protected) == {u \in Cached(es) \ protected : es[u].borrows = 0}

(* What is expired or marked goes, or is marked if it is in use.           *)
DropDue(es, protected) ==
    LET due == {u \in Cached(es) : Expired(es[u]) \/ es[u].pending}
    IN  Mark(Without(es, due \cap IdleEntries(es, protected)),
             due \ IdleEntries(es, protected))

(* What exceeds the size goes, the least recently used first; entries in   *)
(* use that come before the last to go are marked.  While any is marked    *)
(* already, nothing goes.                                                  *)
DropExcess(es, protected) ==
    LET excess == Cardinality(Cached(es)) - MaxSize
        idle   == IdleEntries(es, protected)
        first  == {u \in Cached(es) \ protected :
                     Cardinality({v \in idle : es[v].used < es[u].used}) < excess}
    IN  IF \E u \in Cached(es) : es[u].pending THEN es
        ELSE Mark(Without(es, first \cap idle), first \ idle)

(* _evict_locked                                                           *)
Evict(es, protected) == DropExcess(DropDue(es, protected), protected)

Removed(from, to) == ClientsOf(from, Cached(from)) \ ClientsOf(to, Cached(to))

-------------------------------------------------------------------------------
(* An expired client nobody uses is replaced; one in use is kept.          *)
Refreshes(u) ==
    IF entries[u] # NoEntry /\ Expired(entries[u]) /\ entries[u].borrows = 0
    THEN [es |-> Without(entries, {u}), out |-> {entries[u].client}]
    ELSE [es |-> entries, out |-> {}]

(* Borrowing an entry and giving it back put off its expiry.               *)
Used(e, borrows) ==
    [e EXCEPT !.used = uses, !.expires = clock + Ttl, !.borrows = borrows]

(* borrow_client, up to the closing of what was evicted.                   *)
Borrow(c, u) ==
    LET fresh  == Refreshes(u)
        before == Evict(fresh.es, {u})
        entry  == IF before[u] = NoEntry
                  THEN [client |-> made + 1, used |-> uses, expires |-> clock + Ttl,
                        borrows |-> 1, pending |-> FALSE]
                  ELSE [Used(before[u], before[u].borrows + 1) EXCEPT !.pending = FALSE]
        with   == [before EXCEPT ![u] = entry]
    IN  /\ at[c] = "idle" /\ uses < 2 * MaxBorrows /\ made < MaxBorrows
        /\ entries' = Evict(with, {u})
        /\ made' = IF before[u] = NoEntry THEN made + 1 ELSE made
        /\ toClose' = [toClose EXCEPT ![c] = fresh.out \cup Removed(fresh.es, before)
                                             \cup Removed(with, entries')]
        /\ holds' = [holds EXCEPT ![c] = entry.client]
        /\ url' = [url EXCEPT ![c] = u]
        /\ at' = [at EXCEPT ![c] = "entering"]
        /\ uses' = uses + 1
        /\ UNCHANGED <<clock, closed, lost, leaked, shut>>

CloseNext(c) ==
    /\ at[c] \in {"entering", "returning"}
    /\ \E k \in toClose[c] :
          /\ toClose' = [toClose EXCEPT ![c] = @ \ {k}]
          /\ closed' = closed \cup {k}
    /\ UNCHANGED <<clock, entries, uses, at, url, holds, made, lost, leaked, shut>>

(* Closing raises or is cancelled: the rest is not closed, and a caller    *)
(* that was entering leaves without the code that gives the client back.   *)
CloseFails(c) ==
    /\ at[c] \in {"entering", "returning"} /\ toClose[c] # {}
    /\ lost' = lost \cup toClose[c]
    /\ toClose' = [toClose EXCEPT ![c] = {}]
    /\ leaked' = IF at[c] = "entering" THEN leaked \cup {<<c, uses, holds[c]>>} ELSE leaked
    /\ holds' = [holds EXCEPT ![c] = 0]
    /\ at' = [at EXCEPT ![c] = "idle"]
    /\ UNCHANGED <<clock, entries, uses, url, made, closed, shut>>

Enter(c) ==
    /\ at[c] = "entering" /\ toClose[c] = {}
    /\ at' = [at EXCEPT ![c] = "using"]
    /\ UNCHANGED <<clock, entries, uses, url, holds, toClose, made, closed, lost,
                   leaked, shut>>

(* mutant: whatever entry the URL has now is taken to be the borrowed one *)
OwnEntryByUrl(c) == entries[url[c]] # NoEntry

OwnEntry(c) == entries[url[c]] # NoEntry /\ entries[url[c]].client = holds[c]

(* The caller is done, or an error or a cancellation ends its use.         *)
Return(c) ==
    LET mine  == entries[url[c]]
        given == IF OwnEntry(c)
                 THEN [entries EXCEPT ![url[c]] =
                         Used(mine, IF mine.borrows > 0 THEN mine.borrows - 1 ELSE 0)]
                 ELSE entries
    IN  /\ at[c] = "using"
        /\ entries' = Evict(given, {})
        /\ toClose' = [toClose EXCEPT ![c] = Removed(given, entries')]
        /\ holds' = [holds EXCEPT ![c] = 0]
        /\ at' = [at EXCEPT ![c] = "returning"]
        /\ uses' = uses + 1
        /\ UNCHANGED <<clock, url, made, closed, lost, leaked, shut>>

Leave(c) ==
    /\ at[c] = "returning" /\ toClose[c] = {}
    /\ at' = [at EXCEPT ![c] = "idle"]
    /\ UNCHANGED <<clock, entries, uses, url, holds, toClose, made, closed, lost,
                   leaked, shut>>

(* The service stops: executions that still run lose their clients. One of *)
(* them may raise when it is closed, and what comes after it is lost.      *)
CloseAll ==
    /\ ~shut /\ shut' = TRUE
    /\ entries' = [u \in Urls |-> NoEntry]
    /\ \E k \in SUBSET ClientsOf(entries, Cached(entries)) :
          /\ closed' = closed \cup k
          /\ lost' = lost \cup (ClientsOf(entries, Cached(entries)) \ k)
    /\ UNCHANGED <<clock, uses, at, url, holds, toClose, made, leaked>>

TimePasses ==
    /\ clock < MaxTime /\ clock' = clock + 1
    /\ UNCHANGED <<entries, uses, at, url, holds, toClose, made, closed, lost, leaked, shut>>

-------------------------------------------------------------------------------
PeerTypeOK ==
    /\ clock \in 0..MaxTime /\ uses \in Nat /\ made \in 0..MaxBorrows
    /\ entries \in [Urls -> Entry \cup {NoEntry}]
    /\ at \in [Callers -> {"idle", "entering", "using", "returning"}]
    /\ holds \in [Callers -> Clients \cup {0}]
    /\ toClose \in [Callers -> SUBSET Clients]
    /\ closed \subseteq Clients /\ lost \subseteq Clients

Holders(k) == {c \in Callers : holds[c] = k}
Leaks(k) == {l \in leaked : l[3] = k}

(* However callers, evictions and expiries interleave, a client in use has *)
(* not been closed and nobody is about to close it, until the service      *)
(* stops.                                                                  *)
InUseIsOpen ==
    ~shut => \A c \in Callers :
       holds[c] # 0 => /\ holds[c] \notin closed \cup lost
                       /\ \A d \in Callers : holds[c] \notin toClose[d]

(* The borrow count of an entry is the number of callers that hold its     *)
(* client and of those that failed to give it back.                        *)
BorrowsAreHeld ==
    \A u \in Cached(entries) :
       entries[u].borrows = Cardinality(Holders(entries[u].client))
                            + Cardinality(Leaks(entries[u].client))

(* Every client is cached, held, about to be closed, closed, or lost in a  *)
(* failure to close it or another one.                                     *)
NoClientForgotten ==
    \A k \in 1..made :
       \/ k \in closed \cup lost \cup ClientsOf(entries, Cached(entries))
       \/ \E c \in Callers : k \in toClose[c] \cup {holds[c]}

(* Eviction that had to wait for a borrower is made up for: when nobody    *)
(* uses a client and none was leaked, the cache is within its size.        *)
SettledCacheIsBounded ==
    (\A c \in Callers : at[c] = "idle") /\ leaked = {}
       => Cardinality(Cached(entries)) <= MaxSize

(* The books of the cache are right: borrows are counted, no client is     *)
(* forgotten, and a settled cache is within its bound.                     *)
CacheInv == BorrowsAreHeld /\ NoClientForgotten /\ SettledCacheIsBounded
===============================================================================
