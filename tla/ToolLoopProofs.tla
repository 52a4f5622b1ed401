---------------------------- MODULE ToolLoopProofs ----------------------------
(***************************************************************************)
(* Proofs about PeerClients and ToolLoop, for any executions, URLs, limits *)
(* and sizes: borrows are counted, a client in use stays open and none is  *)
(* forgotten; a settled cache is within its size; budgets count the        *)
(* permits in use.                                                         *)
(***************************************************************************)
EXTENDS ToolLoop, FiniteSetTheorems, TLAPS

(* What the callers do to the cache.                                       *)
PeerStep ==
    \/ \E c \in Callers :
          \/ \E u \in Urls : Borrow(c, u)
          \/ CloseNext(c) \/ CloseFails(c) \/ Enter(c) \/ Return(c) \/ Leave(c)
    \/ CloseAll \/ TimePasses

Entries == [Urls -> Entry \cup {NoEntry}]

-------------------------------------------------------------------------------
(* Eviction.                                                               *)

(* Both passes of an eviction leave a part of the entries, some of them    *)
(* marked, and never take out one that is protected or borrowed.           *)
Thinned(es, fewer, protected) ==
    /\ fewer \in Entries
    /\ \A u \in Urls :
          /\ fewer[u] # NoEntry => /\ es[u] # NoEntry
                                   /\ fewer[u].client = es[u].client
                                   /\ fewer[u].borrows = es[u].borrows
          /\ es[u] # NoEntry /\ (u \in protected \/ es[u].borrows # 0)
                => fewer[u] # NoEntry

LEMMA MarkTyped ==
    ASSUME NEW es \in Entries, NEW us \in SUBSET Cached(es)
    PROVE  Mark(es, us) \in Entries
<1> SUFFICES ASSUME NEW u \in us PROVE [es[u] EXCEPT !.pending = TRUE] \in Entry
  BY DEF Mark, Entries, Cached
<1>1. es[u] \in Entry
  BY DEF Cached, Entries
<1> QED
  BY <1>1 DEF Entry

(* What is taken out is idle and what is marked is cached.                 *)
LEMMA PassThins ==
    ASSUME NEW es \in Entries, NEW protected,
           NEW gone \in SUBSET IdleEntries(es, protected),
           NEW marked \in SUBSET Cached(es), gone \cap marked = {}
    PROVE  Thinned(es, Mark(Without(es, gone), marked), protected)
<1> DEFINE less == Without(es, gone)
<1>1. less \in Entries /\ marked \subseteq Cached(less)
  BY DEF Without, Entries, Cached
<1>2. Mark(less, marked) \in Entries
  BY <1>1, MarkTyped
<1>3. ASSUME NEW u \in Urls, Mark(less, marked)[u] # NoEntry
      PROVE  /\ es[u] # NoEntry
             /\ Mark(less, marked)[u].client = es[u].client
             /\ Mark(less, marked)[u].borrows = es[u].borrows
  <2>1. CASE u \in marked
    <3>1. es[u] \in Entry /\ less[u] = es[u]
      BY <2>1 DEF Cached, Entries, Without
    <3>2. Mark(less, marked)[u] = [es[u] EXCEPT !.pending = TRUE]
      BY <2>1, <3>1 DEF Mark
    <3> QED
      BY <3>1, <3>2, NoEntryIsNone DEF Entry
  <2>2. CASE u \notin marked
    BY <1>3, <2>2 DEF Mark, Without
  <2> QED
    BY <2>1, <2>2
<1>4. ASSUME NEW u \in Urls, es[u] # NoEntry, u \in protected \/ es[u].borrows # 0
      PROVE  Mark(less, marked)[u] # NoEntry
  <2>1. less[u] = es[u] /\ es[u] \in Entry
    BY <1>4 DEF IdleEntries, Without, Entries
  <2>2. [es[u] EXCEPT !.pending = TRUE] \in Entry
    BY <2>1 DEF Entry
  <2> QED
    BY <1>4, <2>1, <2>2, NoEntryIsNone DEF Mark
<1> QED
  BY <1>2, <1>3, <1>4 DEF Thinned

LEMMA DueThins ==
    ASSUME NEW es \in Entries, NEW protected
    PROVE  Thinned(es, DropDue(es, protected), protected)
<1> DEFINE due == {u \in Cached(es) : Expired(es[u]) \/ es[u].pending}
           gone == due \cap IdleEntries(es, protected)
           marked == due \ IdleEntries(es, protected)
<1>1. gone \subseteq IdleEntries(es, protected)
  OBVIOUS
<1>2. marked \subseteq Cached(es) /\ gone \cap marked = {}
  OBVIOUS
<1>3. DropDue(es, protected) = Mark(Without(es, gone), marked)
  BY DEF DropDue
<1> HIDE DEF gone, marked
<1> QED
  BY <1>1, <1>2, <1>3, PassThins

LEMMA ExcessThins ==
    ASSUME NEW es \in Entries, NEW protected
    PROVE  Thinned(es, DropExcess(es, protected), protected)
<1> DEFINE unused == IdleEntries(es, protected)
           first == {u \in Cached(es) \ protected :
                       Cardinality({v \in unused : es[v].used < es[u].used})
                         < Cardinality(Cached(es)) - MaxSize}
           gone == first \cap unused
           marked == first \ unused
<1>1. gone \subseteq IdleEntries(es, protected)
  OBVIOUS
<1>2. marked \subseteq Cached(es) /\ gone \cap marked = {}
  OBVIOUS
<1>3. \/ DropExcess(es, protected) = es
      \/ DropExcess(es, protected) = Mark(Without(es, gone), marked)
  BY DEF DropExcess
<1>4. Thinned(es, es, protected)
  BY DEF Thinned
<1> HIDE DEF gone, marked
<1> QED
  BY <1>1, <1>2, <1>3, <1>4, PassThins

LEMMA EvictThins ==
    ASSUME NEW es \in Entries, NEW protected
    PROVE  Thinned(es, Evict(es, protected), protected)
<1> DEFINE middle == DropDue(es, protected)
           end == DropExcess(middle, protected)
<1>1. Thinned(es, middle, protected)
  BY DueThins
<1>2. middle \in Entries
  BY <1>1 DEF Thinned
<1> HIDE DEF middle
<1>3. Thinned(middle, end, protected)
  BY <1>2, ExcessThins
<1>4. Evict(es, protected) = end
  BY DEF Evict, middle
<1> HIDE DEF end
<1> QED
  BY <1>1, <1>3, <1>4 DEF Thinned
-------------------------------------------------------------------------------
(* The inductive invariant.                                                *)

(* A caller holds a client while it enters or uses one; whoever is named   *)
(* somewhere has been made.                                                *)
RolesInv ==
    /\ PeerTypeOK
    /\ url \in [Callers -> Urls]
    /\ \A c \in Callers :
          /\ at[c] \in {"idle", "returning"} <=> holds[c] = 0
          /\ holds[c] <= made
          /\ toClose[c] \subseteq 1..made
    /\ closed \cup lost \subseteq 1..made

(* Two entries never share a client, and who holds a client that is cached *)
(* borrowed it under its URL.                                              *)
EntriesInv ==
    /\ \A u \in Cached(entries) : entries[u].client <= made
    /\ \A u \in Cached(entries), c \in Callers : holds[c] = entries[u].client => url[c] = u
    /\ \A u, v \in Cached(entries) : entries[u].client = entries[v].client => u = v

(* Each leak is another one: the use it ended is never seen again.         *)
LeakInv ==
    /\ IsFiniteSet(leaked)
    /\ \A l \in leaked : /\ l[1] \in Callers /\ l[2] \in Nat /\ l[3] \in 1..made
                         /\ l[2] <= uses
                         /\ at[l[1]] = "entering" => l[2] < uses

(* Until the service stops, who holds a client finds it in the cache, and  *)
(* what is cached is neither closed nor about to be.                       *)
HoldInv ==
    ~shut =>
       /\ \A c \in Callers : holds[c] # 0 =>
             url[c] \in Cached(entries) /\ entries[url[c]].client = holds[c]
       /\ \A u \in Cached(entries) :
             /\ entries[u].client \notin closed \cup lost
             /\ \A d \in Callers : entries[u].client \notin toClose[d]

PeerInv == RolesInv /\ EntriesInv /\ LeakInv /\ BorrowsAreHeld /\ HoldInv

LEMMA PeerInitInv == PeerInit => PeerInv
<1> SUFFICES ASSUME PeerInit PROVE PeerInv
  OBVIOUS
<1> USE DEF PeerInit
<1>1. RolesInv
  BY BoundsAssumption, CallersAssumption DEF RolesInv, PeerTypeOK
<1>2. Cached(entries) = {}
  BY DEF Cached
<1>3. LeakInv
  BY FS_EmptySet DEF LeakInv
<1> QED
  BY <1>1, <1>2, <1>3 DEF PeerInv, EntriesInv, BorrowsAreHeld, HoldInv

-------------------------------------------------------------------------------
(* What borrowing and returning do to the cache.                           *)

LEMMA UsedEntry ==
    ASSUME NEW e \in Entry, NEW k \in Nat, uses \in Nat, clock + Ttl \in Nat
    PROVE  Used(e, k) \in Entry /\ Used(e, k).client = e.client /\ Used(e, k).borrows = k
<1> DEFINE t == clock + Ttl
<1> HIDE DEF t
<1>1. t \in Nat
  BY DEF t
<1>2. Used(e, k) = [e EXCEPT !.used = uses, !.expires = t, !.borrows = k]
  BY DEF Used, t
<1> QED
  BY <1>1, <1>2 DEF Entry

(* The client of an entry v went: it was not borrowed, and nothing in the  *)
(* new cache has it.                                                       *)
Gone(k) ==
    /\ k \in 1..made
    /\ \E v \in Cached(entries) : entries[v].client = k
    /\ \A v \in Cached(entries) : entries[v].client = k => entries[v].borrows = 0
    /\ \A v \in Cached(entries') : entries'[v].client # k

(* The entry of a URL stays as it was, up to its marks.                    *)
Stays(v) ==
    /\ entries'[v] # NoEntry => /\ entries[v] # NoEntry
                                /\ entries'[v].client = entries[v].client
                                /\ entries'[v].borrows = entries[v].borrows
    /\ entries[v] # NoEntry /\ entries[v].borrows # 0 => entries'[v] # NoEntry

Borrowed(u) ==
    \/ /\ entries[u] # NoEntry /\ made' = made
       /\ entries'[u].client = entries[u].client
       /\ entries'[u].borrows = entries[u].borrows + 1
    \/ /\ entries[u] = NoEntry \/ entries[u].borrows = 0
       /\ made' = made + 1
       /\ entries'[u].client = made + 1
       /\ entries'[u].borrows = 1

(* A client that was cached still is, or the caller is about to close it.  *)
Accounted(c) ==
    \A v \in Cached(entries) :
       \/ entries[v].client \in toClose'[c]
       \/ \E w \in Cached(entries') : entries'[w].client = entries[v].client

(* The cache is what an eviction leaves of one that has at most a new entry *)
(* for what is protected, and there one in use.                            *)
Evicts(protected) ==
    \E es \in Entries :
       /\ entries' = Evict(es, protected)
       /\ Cached(es) \subseteq Cached(entries) \cup protected
       /\ \A u \in protected : es[u] # NoEntry => es[u].borrows # 0

LEMMA BorrowEffect ==
    ASSUME RolesInv, EntriesInv, NEW c \in Callers, NEW u \in Urls, Borrow(c, u)
    PROVE  /\ entries' \in Entries /\ entries'[u] # NoEntry
           /\ made' \in 0..MaxBorrows
           /\ Borrowed(u)
           /\ \A v \in Urls \ {u} : Stays(v)
           /\ holds' = [holds EXCEPT ![c] = entries'[u].client]
           /\ toClose' = [toClose EXCEPT ![c] = toClose'[c]]
           /\ \A k \in toClose'[c] : Gone(k)
           /\ Accounted(c) /\ Evicts({u})
<1> DEFINE fresh  == Refreshes(u)
           before == Evict(fresh.es, {u})
           entry  == IF before[u] = NoEntry
                     THEN [client |-> made + 1, used |-> uses, expires |-> clock + Ttl,
                           borrows |-> 1, pending |-> FALSE]
                     ELSE [Used(before[u], before[u].borrows + 1) EXCEPT !.pending = FALSE]
           with   == [before EXCEPT ![u] = entry]
<1>1. /\ entries \in Entries /\ clock \in Nat /\ uses \in Nat /\ made \in 0..MaxBorrows
      /\ toClose \in [Callers -> SUBSET Clients]
  BY BoundsAssumption DEF RolesInv, PeerTypeOK, Entries
<1>2. /\ Thinned(entries, fresh.es, {})
      /\ fresh.es \in Entries
      /\ \A k \in fresh.out : /\ entries[u] # NoEntry /\ k = entries[u].client
                              /\ entries[u].borrows = 0 /\ fresh.es[u] = NoEntry
  BY <1>1 DEF Refreshes, Without, Thinned, Entries
<1>3. Thinned(fresh.es, before, {u}) /\ before \in Entries
  <2>1. Thinned(fresh.es, before, {u})
    BY <1>2, EvictThins
  <2> QED
    BY <2>1 DEF Thinned
<1>4. /\ made < MaxBorrows
      /\ entries' = Evict(with, {u})
      /\ made' = IF before[u] = NoEntry THEN made + 1 ELSE made
      /\ toClose' = [toClose EXCEPT ![c] = fresh.out \cup Removed(fresh.es, before)
                                             \cup Removed(with, entries')]
      /\ holds' = [holds EXCEPT ![c] = entry.client]
  BY DEF Borrow
<1> HIDE DEF fresh, before
<1>5. /\ entry \in Entry
      /\ before[u] = NoEntry => entry.client = made + 1 /\ entry.borrows = 1
      /\ before[u] # NoEntry => /\ entry.client = before[u].client
                                /\ entry.borrows = before[u].borrows + 1
  <2>1. clock + Ttl \in Nat
    BY <1>1, CacheAssumption
  <2>2. CASE before[u] = NoEntry
    BY <1>1, <1>4, <2>1, <2>2, BoundsAssumption DEF Entry, Clients
  <2>3. CASE before[u] # NoEntry
    <3> DEFINE e == before[u]
               k == e.borrows + 1
    <3>1. e \in Entry /\ k \in Nat
      BY <1>3, <2>3 DEF Entries, Entry
    <3>2. entry = [Used(e, k) EXCEPT !.pending = FALSE]
      BY <2>3
    <3> HIDE DEF entry, e, k
    <3>3. Used(e, k) \in Entry /\ Used(e, k).client = e.client /\ Used(e, k).borrows = k
      BY <1>1, <2>1, <3>1, UsedEntry
    <3> QED
      BY <2>3, <3>2, <3>3 DEF Entry, e, k
  <2> QED
    BY <2>2, <2>3
<1> HIDE DEF entry
<1>6. /\ with \in Entries /\ with[u] = entry /\ entry # NoEntry
      /\ \A v \in Urls \ {u} : with[v] = before[v]
  BY <1>3, <1>5, NoEntryIsNone DEF Entries
<1> HIDE DEF with
<1>7. Thinned(with, entries', {u}) /\ entries' \in Entries
  <2>1. Thinned(with, entries', {u})
    BY <1>4, <1>6, EvictThins
  <2> QED
    BY <2>1 DEF Thinned
<1>8. /\ entries'[u] # NoEntry
      /\ entries'[u].client = entry.client /\ entries'[u].borrows = entry.borrows
  BY <1>6, <1>7 DEF Thinned
<1>9. /\ before[u] # NoEntry => /\ entries[u] # NoEntry
                                /\ before[u].client = entries[u].client
                                /\ before[u].borrows = entries[u].borrows
      /\ before[u] = NoEntry => entries[u] = NoEntry \/ entries[u].borrows = 0
  BY <1>2, <1>3 DEF Thinned
<1>10. Borrowed(u)
  BY <1>4, <1>5, <1>8, <1>9 DEF Borrowed
<1>11. ASSUME NEW v \in Urls \ {u} PROVE Stays(v)
  BY <1>2, <1>3, <1>6, <1>7 DEF Thinned, Stays
<1>12. ASSUME NEW k \in toClose'[c] PROVE Gone(k)
  <2>1. k \in fresh.out \/ k \in Removed(fresh.es, before) \/ k \in Removed(with, entries')
    BY <1>1, <1>4
  <2>2. PICK v \in Cached(entries) : entries[v].client = k
    <3>1. CASE k \in fresh.out
      BY <1>2, <3>1 DEF Cached
    <3>2. CASE k \in Removed(fresh.es, before)
      BY <1>2, <3>2 DEF Removed, ClientsOf, Cached, Thinned
    <3>3. CASE k \in Removed(with, entries')
      <4>1. PICK v \in Urls : with[v] # NoEntry /\ with[v].client = k
        BY <3>3 DEF Removed, ClientsOf, Cached
      <4>2. v # u
        BY <1>6, <1>8, <3>3, <4>1 DEF Removed, ClientsOf, Cached
      <4> QED
        BY <1>2, <1>3, <1>6, <4>1, <4>2 DEF Cached, Thinned
    <3> QED
      BY <2>1, <3>1, <3>2, <3>3
  <2>3. k \in 1..made /\ k # made + 1
    BY <1>1, <2>2 DEF EntriesInv, Cached, Entries, Entry, Clients
  <2>4. ASSUME NEW w \in Cached(entries'), entries'[w].client = k PROVE FALSE
    <3>1. k \notin Removed(with, entries')
      BY <2>4 DEF Removed, ClientsOf
    <3>2. before[w] # NoEntry /\ before[w].client = k
      BY <1>5, <1>6, <1>7, <1>8, <2>3, <2>4 DEF Cached, Thinned
    <3>3. k \notin Removed(fresh.es, before)
      BY <2>4, <3>2 DEF Removed, ClientsOf, Cached
    <3>4. /\ fresh.es[w] # NoEntry /\ entries[w] # NoEntry /\ entries[w].client = k
      BY <1>2, <1>3, <2>4, <3>2 DEF Thinned, Cached
    <3>5. w = u
      BY <1>2, <2>1, <2>4, <3>1, <3>3, <3>4 DEF EntriesInv, Cached
    <3> QED
      BY <1>2, <2>1, <3>1, <3>3, <3>4, <3>5
  <2>5. entries[v].borrows = 0
    <3>1. CASE v # u
      BY <1>11, <2>2, <2>4, <3>1 DEF Stays, Cached
    <3>2. CASE v = u
      BY <1>5, <1>8, <1>9, <2>2, <2>4, <3>2 DEF Cached
    <3> QED
      BY <3>1, <3>2
  <2> QED
    BY <2>2, <2>3, <2>4, <2>5 DEF Gone, EntriesInv
<1>13. made' \in 0..MaxBorrows
  BY <1>1, <1>4, BoundsAssumption
<1>14. toClose' = [toClose EXCEPT ![c] = toClose'[c]]
  BY <1>1, <1>4
<1>15. Accounted(c)
  <2> SUFFICES ASSUME NEW v \in Cached(entries),
                      \A w \in Cached(entries') : entries'[w].client # entries[v].client
               PROVE  entries[v].client \in toClose'[c]
    BY DEF Accounted
  <2>1. toClose'[c] = fresh.out \cup Removed(fresh.es, before) \cup Removed(with, entries')
    BY <1>1, <1>4
  <2>2. fresh.es = entries \/ fresh.es[v] = entries[v] \/ entries[v].client \in fresh.out
    BY DEF fresh, Refreshes, Without, Cached
  <2>3. CASE entries[v].client \in fresh.out
    BY <2>1, <2>3
  <2>4. CASE fresh.es[v] = entries[v]
    <3>1. v \in Cached(fresh.es)
      BY <2>4 DEF Cached
    <3>2. CASE entries[v].client \in ClientsOf(before, Cached(before))
      <4>1. PICK w \in Cached(before) : before[w].client = entries[v].client
        BY <3>2 DEF ClientsOf
      <4>2. w \in Cached(with) /\ with[w].client = entries[v].client
        BY <1>5, <1>6, <4>1 DEF Cached
      <4> QED
        BY <2>1, <4>2 DEF Removed, ClientsOf
    <3> QED
      BY <2>1, <2>4, <3>1, <3>2 DEF Removed, ClientsOf
  <2> QED
    BY <2>2, <2>3, <2>4
<1>16. Evicts({u})
  <2>1. entry.borrows # 0
    BY <1>3, <1>5 DEF Entries, Entry
  <2>2. Cached(with) \subseteq Cached(entries) \cup {u}
    BY <1>2, <1>3, <1>6 DEF Cached, Thinned
  <2> QED
    BY <1>4, <1>6, <2>1, <2>2 DEF Evicts
<1> QED
  BY <1>4, <1>7, <1>8, <1>10, <1>11, <1>12, <1>13, <1>14, <1>15, <1>16

Returned(c) ==
    LET u == url[c]
    IN  IF OwnEntry(c)
        THEN entries'[u] # NoEntry =>
                /\ entries'[u].client = entries[u].client
                /\ entries'[u].borrows =
                     IF entries[u].borrows > 0 THEN entries[u].borrows - 1 ELSE 0
        ELSE Stays(u)

LEMMA ReturnEffect ==
    ASSUME RolesInv, EntriesInv, NEW c \in Callers, Return(c)
    PROVE  /\ entries' \in Entries
           /\ Returned(c)
           /\ OwnEntry(c) /\ entries[url[c]].borrows > 1 => entries'[url[c]] # NoEntry
           /\ \A v \in Urls \ {url[c]} : Stays(v)
           /\ toClose' = [toClose EXCEPT ![c] = toClose'[c]]
           /\ \A k \in toClose'[c] :
                 /\ k \in 1..made
                 /\ \E v \in Cached(entries) : 
                       /\ entries[v].client = k
                       /\ \/ entries[v].borrows = 0
                          \/ v = url[c] /\ OwnEntry(c) /\ entries[v].borrows = 1
                 /\ \A v \in Cached(entries') : entries'[v].client # k
           /\ Accounted(c) /\ Evicts({})
<1> DEFINE u == url[c]
           mine == entries[u]
           left == IF mine.borrows > 0 THEN mine.borrows - 1 ELSE 0
           given == IF OwnEntry(c) THEN [entries EXCEPT ![u] = Used(mine, left)]
                    ELSE entries
<1>1. /\ entries \in Entries /\ clock + Ttl \in Nat /\ uses \in Nat /\ u \in Urls
      /\ made \in Nat /\ toClose \in [Callers -> SUBSET Clients]
  BY CacheAssumption, BoundsAssumption DEF RolesInv, PeerTypeOK, Entries
<1>2. /\ entries' = Evict(given, {})
      /\ toClose' = [toClose EXCEPT ![c] = Removed(given, entries')]
  BY DEF Return
<1>3. ASSUME OwnEntry(c)
      PROVE  /\ given \in Entries /\ given[u] # NoEntry
             /\ given[u].client = entries[u].client
             /\ given[u].borrows = IF entries[u].borrows > 0
                                   THEN entries[u].borrows - 1 ELSE 0
             /\ \A v \in Urls \ {u} : given[v] = entries[v]
  <2>1. mine \in Entry /\ left \in Nat
    BY <1>1, <1>3 DEF OwnEntry, Entries, Entry
  <2> HIDE DEF left
  <2>2. /\ Used(mine, left) \in Entry /\ Used(mine, left).client = mine.client
        /\ Used(mine, left).borrows = left
    BY <1>1, <2>1, UsedEntry
  <2>3. given = [entries EXCEPT ![u] = Used(mine, left)]
    BY <1>3 DEF left
  <2> HIDE DEF given
  <2> QED
    BY <1>1, <2>2, <2>3, NoEntryIsNone DEF Entries, left
<1>4. ~OwnEntry(c) => given = entries
  OBVIOUS
<1> HIDE DEF given
<1>5. Thinned(given, entries', {}) /\ entries' \in Entries
  <2>1. Thinned(given, entries', {})
    BY <1>1, <1>2, <1>3, <1>4, EvictThins
  <2> QED
    BY <2>1 DEF Thinned
<1>6. Returned(c)
  BY <1>1, <1>3, <1>4, <1>5 DEF Returned, Stays, Thinned
<1>7. OwnEntry(c) /\ entries[u].borrows > 1 => entries'[u] # NoEntry
  <2> SUFFICES ASSUME OwnEntry(c), entries[u].borrows > 1
               PROVE  entries'[u] # NoEntry
    OBVIOUS
  <2>1. entries[u].borrows \in Nat
    BY <1>1 DEF OwnEntry, Entries, Entry
  <2> QED
    BY <1>1, <1>3, <1>5, <2>1 DEF Thinned
<1>8. \A v \in Urls \ {u} : Stays(v)
  BY <1>3, <1>4, <1>5 DEF Stays, Thinned
<1>9. ASSUME NEW k \in toClose'[c]
      PROVE  /\ k \in 1..made
             /\ \E v \in Cached(entries) :
                   /\ entries[v].client = k
                   /\ \/ entries[v].borrows = 0
                      \/ v = u /\ OwnEntry(c) /\ entries[v].borrows = 1
             /\ \A v \in Cached(entries') : entries'[v].client # k
  <2>1. k \in Removed(given, entries')
    BY <1>1, <1>2
  <2>2. PICK v \in Urls : given[v] # NoEntry /\ given[v].client = k
    BY <2>1 DEF Removed, ClientsOf, Cached
  <2>3. entries[v] # NoEntry /\ entries[v].client = k /\ entries[v] \in Entry
    BY <1>1, <1>3, <1>4, <2>2 DEF OwnEntry, Entries
  <2>4. k \in 1..made
    BY <1>1, <2>3 DEF EntriesInv, Cached, Entry, Clients
  <2>5. \A w \in Cached(entries') : entries'[w].client # k
    BY <2>1 DEF Removed, ClientsOf
  <2>6. given[v].borrows = 0
    BY <1>5, <2>2, <2>5 DEF Thinned, Cached
  <2>7. \/ entries[v].borrows = 0
        \/ v = u /\ OwnEntry(c) /\ entries[v].borrows = 1
    <3>1. entries[v].borrows \in Nat
      BY <2>3 DEF Entry
    <3> QED
      BY <1>1, <1>3, <1>4, <2>6, <3>1
  <2> QED
    BY <2>3, <2>4, <2>5, <2>7 DEF Cached
<1>10. toClose' = [toClose EXCEPT ![c] = toClose'[c]]
  BY <1>1, <1>2
<1>11. \A v \in Cached(entries) : v \in Cached(given) /\ given[v].client = entries[v].client
  BY <1>3, <1>4 DEF Cached
<1>12. Accounted(c)
  BY <1>1, <1>2, <1>11 DEF Accounted, Removed, ClientsOf
<1>13. Evicts({})
  <2>1. given \in Entries /\ Cached(given) \subseteq Cached(entries)
    BY <1>1, <1>3, <1>4 DEF Cached, OwnEntry
  <2> QED
    BY <1>2, <2>1 DEF Evicts
<1> QED
  BY <1>5, <1>6, <1>7, <1>8, <1>9, <1>10, <1>12, <1>13
-------------------------------------------------------------------------------
(* Counting.                                                               *)

HoldersAfter(k) == {c \in Callers : holds'[c] = k}
LeaksAfter(k) == {l \in leaked' : l[3] = k}

LEMMA HoldersMove ==
    ASSUME NEW c \in Callers, NEW k, NEW n,
           holds \in [Callers -> Clients \cup {0}], holds' = [holds EXCEPT ![c] = k]
    PROVE  HoldersAfter(n) = IF n = k THEN Holders(n) \cup {c} ELSE Holders(n) \ {c}
BY DEF Holders, HoldersAfter

LEMMA HoldersCount ==
    ASSUME NEW k
    PROVE  /\ IsFiniteSet(Holders(k)) /\ Cardinality(Holders(k)) \in Nat
           /\ \A c \in Callers :
                 /\ c \in Holders(k) => Cardinality(Holders(k) \ {c}) = Cardinality(Holders(k)) - 1
                 /\ c \notin Holders(k) => Cardinality(Holders(k) \cup {c}) = Cardinality(Holders(k)) + 1
           /\ Cardinality(Holders(k)) = 0 => Holders(k) = {}
<1>1. Holders(k) \in SUBSET Callers
  BY DEF Holders
<1>2. IsFiniteSet(Holders(k))
  BY <1>1, CallersAssumption, FS_Subset
<1>3. Cardinality(Holders(k)) \in Nat
  BY <1>2, FS_CardinalityType
<1>4. ASSUME NEW c \in Callers
      PROVE  /\ c \in Holders(k) => Cardinality(Holders(k) \ {c}) = Cardinality(Holders(k)) - 1
             /\ c \notin Holders(k) => Cardinality(Holders(k) \cup {c}) = Cardinality(Holders(k)) + 1
  BY <1>2, FS_AddElement, FS_RemoveElement
<1> QED
  BY <1>2, <1>3, <1>4, FS_EmptySet

LEMMA LeaksCount ==
    ASSUME LeakInv, NEW k
    PROVE  IsFiniteSet(Leaks(k)) /\ Cardinality(Leaks(k)) \in Nat
<1>1. Leaks(k) \in SUBSET leaked
  BY DEF Leaks
<1>2. IsFiniteSet(Leaks(k))
  BY <1>1, FS_Subset DEF LeakInv
<1> QED
  BY <1>2, FS_CardinalityType

(* The entry of a client somebody holds is borrowed, more than once if two *)
(* callers hold it.                                                        *)
LEMMA HeldIsBorrowed ==
    ASSUME PeerInv, NEW c \in Callers, NEW u \in Cached(entries),
           holds[c] = entries[u].client
    PROVE  /\ entries[u].borrows \in Nat \ {0}
           /\ \A d \in Callers \ {c} : holds[d] = holds[c] => entries[u].borrows > 1
<1> DEFINE k == entries[u].client
<1>1. entries[u].borrows = Cardinality(Holders(k)) + Cardinality(Leaks(k))
  BY DEF PeerInv, BorrowsAreHeld
<1>2. Cardinality(Leaks(k)) \in Nat
  BY LeaksCount DEF PeerInv
<1>3. Cardinality(Holders(k)) \in Nat /\ c \in Holders(k)
  BY HoldersCount DEF Holders
<1>4. Cardinality(Holders(k)) # 0
  BY <1>3, HoldersCount
<1>5. ASSUME NEW d \in Callers \ {c}, holds[d] = holds[c]
      PROVE  Cardinality(Holders(k)) # 1
  <2>1. Cardinality(Holders(k)) = 1 => \E x : Holders(k) = {x}
    BY HoldersCount, FS_Singleton
  <2>2. d \in Holders(k)
    BY <1>5 DEF Holders
  <2> QED
    BY <1>3, <2>1, <2>2
<1> HIDE DEF k
<1> QED
  BY <1>1, <1>2, <1>3, <1>4, <1>5

-------------------------------------------------------------------------------
(* Every step keeps the invariant.                                         *)

LEMMA RolesStep == RolesInv /\ EntriesInv /\ [PeerStep]_peerVars => RolesInv'
<1> SUFFICES ASSUME RolesInv, EntriesInv, [PeerStep]_peerVars PROVE RolesInv'
  OBVIOUS
<1> USE DEF RolesInv, PeerTypeOK, Clients
<1>1. ASSUME NEW c \in Callers, NEW u \in Urls, Borrow(c, u) PROVE RolesInv'
  <2>1. /\ entries' \in Entries /\ entries'[u] # NoEntry /\ made' \in 0..MaxBorrows
        /\ made' \in {made, made + 1} /\ entries'[u].client <= made'
        /\ holds' = [holds EXCEPT ![c] = entries'[u].client]
        /\ toClose' = [toClose EXCEPT ![c] = toClose'[c]]
        /\ toClose'[c] \subseteq 1..made
    <3>1. /\ entries' \in Entries /\ entries'[u] # NoEntry /\ made' \in 0..MaxBorrows
          /\ Borrowed(u) /\ \A k \in toClose'[c] : Gone(k)
          /\ holds' = [holds EXCEPT ![c] = entries'[u].client]
          /\ toClose' = [toClose EXCEPT ![c] = toClose'[c]]
      BY <1>1, BorrowEffect
    <3> QED
      BY <3>1 DEF Borrowed, Gone, EntriesInv, Cached
  <2>2. entries'[u].client \in Clients
    BY <2>1 DEF Entries, Entry
  <2>3. 1..made \subseteq Clients /\ made \in Nat
    BY BoundsAssumption
  <2> HIDE DEF Clients
  <2>4. holds' \in [Callers -> Clients \cup {0}] /\ toClose' \in [Callers -> SUBSET Clients]
    BY <2>1, <2>2, <2>3
  <2>5. uses' \in Nat /\ clock' = clock /\ closed' = closed /\ lost' = lost
    BY <1>1 DEF Borrow
  <2>6. /\ at' = [at EXCEPT ![c] = "entering"] /\ url' = [url EXCEPT ![c] = u]
    BY <1>1 DEF Borrow
  <2>7. entries'[u].client # 0
    BY <2>2 DEF Clients
  <2>8. ASSUME NEW d \in Callers
        PROVE  holds'[d] <= made' /\ toClose'[d] \subseteq 1..made'
    <3>1. 1..made \subseteq 1..made' /\ made <= made'
      BY <2>1, <2>3
    <3>2. toClose'[d] \subseteq 1..made
      BY <2>1
    <3>3. holds'[d] = entries'[u].client \/ holds'[d] = holds[d]
      BY <2>1
    <3>4. holds[d] \in Nat /\ holds[d] <= made
      BY <2>3 DEF Clients
    <3> QED
      BY <2>1, <2>3, <3>1, <3>2, <3>3, <3>4
  <2>9. closed' \cup lost' \subseteq 1..made'
    BY <2>1, <2>3, <2>5
  <2> QED
    BY <2>1, <2>2, <2>4, <2>5, <2>6, <2>7, <2>8, <2>9 DEF Entries
<1>2. ASSUME NEW c \in Callers, Return(c) PROVE RolesInv'
  <2>1. /\ entries' \in Entries /\ toClose' = [toClose EXCEPT ![c] = toClose'[c]]
        /\ toClose'[c] \subseteq 1..made
    BY <1>2, ReturnEffect
  <2>2. 1..made \subseteq Clients
    BY BoundsAssumption
  <2>3. /\ at[c] = "using" /\ at' = [at EXCEPT ![c] = "returning"]
        /\ holds' = [holds EXCEPT ![c] = 0] /\ uses' = uses + 1
        /\ UNCHANGED <<clock, url, made, closed, lost>>
    BY <1>2 DEF Return
  <2>4. toClose' \in [Callers -> SUBSET Clients] /\ entries' \in [Urls -> Entry \cup {NoEntry}]
    BY <2>1, <2>2 DEF Entries
  <2>5. \A d \in Callers : toClose'[d] \subseteq 1..made
    BY <2>1
  <2>6. ASSUME NEW d \in Callers
        PROVE  /\ at'[d] \in {"idle", "returning"} <=> holds'[d] = 0
               /\ holds'[d] <= made
    BY <2>3, BoundsAssumption
  <2>7. /\ at' \in [Callers -> {"idle", "entering", "using", "returning"}]
        /\ holds' \in [Callers -> Clients \cup {0}] /\ uses' \in Nat
    BY <2>3
  <2> HIDE DEF Clients
  <2> QED
    BY <2>3, <2>4, <2>5, <2>6, <2>7
<1>3. ASSUME NEW c \in Callers, CloseNext(c) PROVE RolesInv'
  BY <1>3 DEF CloseNext
<1>4. ASSUME NEW c \in Callers, CloseFails(c) PROVE RolesInv'
  <2>1. /\ at' = [at EXCEPT ![c] = "idle"] /\ holds' = [holds EXCEPT ![c] = 0]
        /\ toClose' = [toClose EXCEPT ![c] = {}] /\ lost' = lost \cup toClose[c]
        /\ UNCHANGED <<clock, entries, uses, url, made, closed>>
    BY <1>4 DEF CloseFails
  <2>2. /\ toClose' \in [Callers -> SUBSET Clients]
        /\ \A d \in Callers : toClose'[d] \subseteq 1..made
    BY <2>1
  <2>3. lost' \subseteq Clients /\ closed' \cup lost' \subseteq 1..made
    BY <2>1
  <2> QED
    BY <2>1, <2>2, <2>3
<1>5. ASSUME NEW c \in Callers, Enter(c) PROVE RolesInv'
  BY <1>5 DEF Enter
<1>6. ASSUME NEW c \in Callers, Leave(c) PROVE RolesInv'
  BY <1>6 DEF Leave
<1>7. CASE CloseAll
  <2>1. ClientsOf(entries, Cached(entries)) \subseteq 1..made \cap Clients
    BY DEF ClientsOf, Cached, EntriesInv, Entry
  <2> QED
    BY <1>7, <2>1 DEF CloseAll
<1>8. CASE TimePasses
  BY <1>8, BoundsAssumption DEF TimePasses
<1>9. CASE UNCHANGED peerVars
  BY <1>9 DEF peerVars
<1> QED
  BY <1>1, <1>2, <1>3, <1>4, <1>5, <1>6, <1>7, <1>8, <1>9 DEF PeerStep

LEMMA EntriesStep == PeerInv /\ [PeerStep]_peerVars => EntriesInv'
<1> SUFFICES ASSUME PeerInv, [PeerStep]_peerVars PROVE EntriesInv'
  OBVIOUS
<1>0. /\ RolesInv /\ EntriesInv /\ made \in Nat
      /\ holds \in [Callers -> Clients \cup {0}] /\ url \in [Callers -> Urls]
  BY DEF PeerInv, RolesInv, PeerTypeOK
<1>1. ASSUME NEW c \in Callers, NEW u \in Urls, Borrow(c, u) PROVE EntriesInv'
  <2>1. /\ entries'[u] # NoEntry /\ Borrowed(u)
        /\ \A v \in Urls \ {u} : Stays(v)
        /\ holds' = [holds EXCEPT ![c] = entries'[u].client]
    BY <1>0, <1>1, BorrowEffect
  <2>2. url' = [url EXCEPT ![c] = u] /\ holds[c] = 0
    BY <1>0, <1>1 DEF Borrow, RolesInv
  <2>3. ASSUME NEW v \in Cached(entries'), v # u
        PROVE  /\ v \in Cached(entries) /\ entries'[v].client = entries[v].client
               /\ entries'[v].client # entries'[u].client
               /\ entries'[v].client <= made
    BY <1>0, <2>1, <2>3 DEF Stays, Borrowed, Cached, EntriesInv, RolesInv, PeerTypeOK,
                            Entry, Clients
  <2>4. made' \in {made, made + 1} /\ entries'[u].client <= made'
    BY <1>0, <2>1 DEF Borrowed, EntriesInv, Cached
  <2>5. \A v \in Cached(entries') : entries'[v].client <= made'
    BY <1>0, <2>3, <2>4 DEF RolesInv, PeerTypeOK, Entry, Clients, Cached
  <2>6. \A v, w \in Cached(entries') : entries'[v].client = entries'[w].client => v = w
    BY <1>0, <2>3 DEF EntriesInv
  <2>7. ASSUME NEW v \in Cached(entries'), NEW d \in Callers,
               holds'[d] = entries'[v].client
        PROVE  url'[d] = v
    <3>1. CASE d = c
      BY <1>0, <2>1, <2>2, <2>3, <2>7, <3>1
    <3>2. CASE d # c /\ v # u
      BY <1>0, <2>1, <2>2, <2>3, <2>7, <3>2 DEF EntriesInv
    <3>3. CASE d # c /\ v = u
      <4>1. holds[d] = entries'[u].client /\ url'[d] = url[d] /\ holds[d] <= made
        BY <1>0, <2>1, <2>2, <2>7, <3>3 DEF RolesInv
      <4>2. entries[u] # NoEntry /\ entries'[u].client = entries[u].client
        BY <1>0, <2>1, <4>1 DEF Borrowed
      <4> QED
        BY <3>3, <4>1, <4>2 DEF PeerInv, EntriesInv, Cached
    <3> QED
      BY <3>1, <3>2, <3>3
  <2> QED
    BY <2>5, <2>6, <2>7 DEF EntriesInv
<1>2. ASSUME NEW c \in Callers, Return(c) PROVE EntriesInv'
  <2>1. Returned(c) /\ \A v \in Urls \ {url[c]} : Stays(v)
    BY <1>0, <1>2, ReturnEffect
  <2>2. \A v \in Cached(entries') :
           v \in Cached(entries) /\ entries'[v].client = entries[v].client
    BY <1>0, <2>1 DEF Returned, Stays, Cached, OwnEntry
  <2>3. holds' = [holds EXCEPT ![c] = 0] /\ UNCHANGED <<url, made>>
    BY <1>2 DEF Return
  <2>4. \A v \in Cached(entries) : entries[v].client # 0
    BY <1>0 DEF RolesInv, PeerTypeOK, Cached, Entry, Clients
  <2> QED
    BY <1>0, <2>2, <2>3, <2>4 DEF EntriesInv
<1>3. ASSUME UNCHANGED <<entries, made, url>>,
             \A d \in Callers : holds'[d] \in {holds[d], 0}
      PROVE  EntriesInv'
  <2>1. \A v \in Cached(entries) : entries[v].client # 0
    BY <1>0 DEF RolesInv, PeerTypeOK, Cached, Entry, Clients
  <2> QED
    BY <1>0, <1>3, <2>1 DEF EntriesInv, Cached
<1>4. ASSUME NEW c \in Callers, CloseNext(c) \/ CloseFails(c) \/ Enter(c) \/ Leave(c)
      PROVE  EntriesInv'
  BY <1>0, <1>3, <1>4 DEF CloseNext, CloseFails, Enter, Leave
<1>5. CASE CloseAll
  BY <1>5 DEF CloseAll, EntriesInv, Cached
<1>6. CASE TimePasses \/ UNCHANGED peerVars
  BY <1>3, <1>6 DEF TimePasses, peerVars
<1> QED
  BY <1>1, <1>2, <1>4, <1>5, <1>6 DEF PeerStep

LEMMA LeakStep == RolesInv /\ LeakInv /\ [PeerStep]_peerVars => LeakInv'
<1> SUFFICES ASSUME RolesInv, LeakInv, [PeerStep]_peerVars PROVE LeakInv'
  OBVIOUS
<1>0. /\ uses \in Nat /\ made \in Nat
      /\ at \in [Callers -> {"idle", "entering", "using", "returning"}]
  BY BoundsAssumption DEF RolesInv, PeerTypeOK
<1>1. ASSUME leaked' = leaked, uses' \in {uses, uses + 1}, made' \in {made, made + 1},
             \A d \in Callers : at'[d] = "entering" => at[d] = "entering" \/ uses' = uses + 1
      PROVE  LeakInv'
  BY <1>0, <1>1 DEF LeakInv
<1>2. ASSUME NEW c \in Callers, NEW u \in Urls, Borrow(c, u) PROVE LeakInv'
  BY <1>0, <1>1, <1>2 DEF Borrow
<1>3. ASSUME NEW c \in Callers, Return(c) PROVE LeakInv'
  BY <1>0, <1>1, <1>3 DEF Return
<1>4. ASSUME NEW c \in Callers, CloseFails(c), at[c] = "entering" PROVE LeakInv'
  <2> DEFINE l == <<c, uses, holds[c]>>
  <2>1. /\ leaked' = leaked \cup {l} /\ UNCHANGED <<uses, made>>
        /\ at' = [at EXCEPT ![c] = "idle"]
    BY <1>4 DEF CloseFails
  <2>2. holds[c] \in 1..made
    BY <1>4 DEF RolesInv, PeerTypeOK, Clients
  <2>3. IsFiniteSet(leaked')
    BY <2>1, FS_AddElement DEF LeakInv
  <2> QED
    BY <1>0, <2>1, <2>2, <2>3 DEF LeakInv
<1>5. ASSUME NEW c \in Callers, CloseFails(c), at[c] # "entering" PROVE LeakInv'
  BY <1>0, <1>1, <1>5 DEF CloseFails
<1>6. ASSUME NEW c \in Callers, CloseNext(c) \/ Enter(c) \/ Leave(c) PROVE LeakInv'
  BY <1>0, <1>1, <1>6 DEF CloseNext, Enter, Leave
<1>7. CASE CloseAll \/ TimePasses \/ UNCHANGED peerVars
  BY <1>0, <1>1, <1>7 DEF CloseAll, TimePasses, peerVars
<1> QED
  BY <1>2, <1>3, <1>4, <1>5, <1>6, <1>7 DEF PeerStep

(* A borrow and its return move the count of one entry and the number of   *)
(* those that hold its client alike; a leak takes the place of a holder.   *)
LEMMA BorrowsStep == PeerInv /\ [PeerStep]_peerVars => BorrowsAreHeld'
<1> SUFFICES ASSUME PeerInv, [PeerStep]_peerVars PROVE BorrowsAreHeld'
  OBVIOUS
<1>0. /\ RolesInv /\ EntriesInv /\ LeakInv /\ BorrowsAreHeld /\ made \in Nat
      /\ holds \in [Callers -> Clients \cup {0}] /\ 0 \notin Clients
      /\ \A v \in Cached(entries) : entries[v].client \in Clients
  BY BoundsAssumption DEF PeerInv, RolesInv, PeerTypeOK, Clients, Cached, Entry
<1>1. ASSUME NEW c \in Callers, NEW u \in Urls, Borrow(c, u),
             NEW v \in Cached(entries')
      PROVE  entries'[v].borrows = Cardinality(HoldersAfter(entries'[v].client))
                                   + Cardinality(LeaksAfter(entries'[v].client))
  <2> DEFINE k == entries'[v].client
  <2>1. /\ entries'[u] # NoEntry /\ Borrowed(u)
        /\ \A w \in Urls \ {u} : Stays(w)
        /\ holds' = [holds EXCEPT ![c] = entries'[u].client]
    BY <1>0, <1>1, BorrowEffect
  <2>2. leaked' = leaked /\ holds[c] = 0
    BY <1>0, <1>1 DEF Borrow, RolesInv
  <2>3. LeaksAfter(k) = Leaks(k)
    BY <2>2 DEF Leaks, LeaksAfter
  <2>4. HoldersAfter(k) = IF k = entries'[u].client THEN Holders(k) \cup {c} ELSE Holders(k) \ {c}
    BY <1>0, <2>1, HoldersMove
  <2>5. CASE v # u
    <3>1. /\ v \in Cached(entries) /\ k = entries[v].client
          /\ entries'[v].borrows = entries[v].borrows
      BY <2>1, <2>5 DEF Stays, Cached
    <3>2. k # entries'[u].client
      BY <1>0, <2>1, <2>5, <3>1 DEF Borrowed, EntriesInv, Cached, Clients
    <3>3. HoldersAfter(k) = Holders(k)
      BY <1>0, <2>2, <2>4, <3>1, <3>2 DEF Holders
    <3> QED
      BY <1>0, <2>3, <3>1, <3>3 DEF BorrowsAreHeld
  <2>6. CASE v = u /\ entries[u] # NoEntry /\ k = entries[u].client
                   /\ entries'[u].borrows = entries[u].borrows + 1
    <3>1. entries[u].borrows = Cardinality(Holders(k)) + Cardinality(Leaks(k))
      BY <1>0, <2>6 DEF BorrowsAreHeld, Cached
    <3>2. c \notin Holders(k)
      BY <1>0, <2>2, <2>6 DEF Holders, Cached
    <3>3. Cardinality(HoldersAfter(k)) = Cardinality(Holders(k)) + 1
      BY <2>4, <2>6, <3>2, HoldersCount
    <3>4. Cardinality(Holders(k)) \in Nat /\ Cardinality(Leaks(k)) \in Nat
      BY <1>0, HoldersCount, LeaksCount
    <3> QED
      BY <2>3, <2>6, <3>1, <3>3, <3>4
  <2>7. CASE v = u /\ k = made + 1 /\ entries'[u].borrows = 1
    <3>1. Holders(k) = {} /\ Leaks(k) = {}
      BY <1>0, <2>7 DEF Holders, Leaks, RolesInv, LeakInv
    <3>2. HoldersAfter(k) = {c} /\ LeaksAfter(k) = {}
      BY <2>3, <2>4, <2>7, <3>1
    <3>3. Cardinality(HoldersAfter(k)) = 1 /\ Cardinality(LeaksAfter(k)) = 0
      BY <3>2, FS_Singleton, FS_EmptySet
    <3> QED
      BY <2>7, <3>3
  <2> QED
    BY <2>1, <2>5, <2>6, <2>7 DEF Borrowed
<1>2. ASSUME NEW c \in Callers, Return(c), NEW v \in Cached(entries')
      PROVE  entries'[v].borrows = Cardinality(HoldersAfter(entries'[v].client))
                                   + Cardinality(LeaksAfter(entries'[v].client))
  <2> DEFINE k == entries'[v].client
  <2>1. Returned(c) /\ \A w \in Urls \ {url[c]} : Stays(w)
    BY <1>0, <1>2, ReturnEffect
  <2>2. holds' = [holds EXCEPT ![c] = 0] /\ leaked' = leaked
    BY <1>2 DEF Return
  <2>3. v \in Cached(entries) /\ k = entries[v].client
    BY <2>1 DEF Returned, Stays, Cached, OwnEntry
  <2>4. LeaksAfter(k) = Leaks(k)
    BY <2>2 DEF Leaks, LeaksAfter
  <2>5. HoldersAfter(k) = Holders(k) \ {c}
    <3>1. k # 0
      BY <1>0, <2>3
    <3> HIDE DEF k
    <3> QED
      BY <1>0, <2>2, <3>1, HoldersMove
  <2>6. entries[v].borrows = Cardinality(Holders(k)) + Cardinality(Leaks(k))
    BY <1>0, <2>3 DEF BorrowsAreHeld
  <2>7. CASE v = url[c] /\ OwnEntry(c)
    <3>1. c \in Holders(k)
      BY <2>3, <2>7 DEF OwnEntry, Holders
    <3>2. Cardinality(HoldersAfter(k)) = Cardinality(Holders(k)) - 1
      BY <2>5, <3>1, HoldersCount
    <3>3. entries[v].borrows \in Nat \ {0}
      BY <2>3, <3>1, HeldIsBorrowed DEF Holders
    <3>4. entries'[v].borrows = entries[v].borrows - 1
      BY <2>1, <2>7, <3>3 DEF Returned, Cached
    <3>5. Cardinality(Holders(k)) \in Nat /\ Cardinality(Leaks(k)) \in Nat
      BY <1>0, HoldersCount, LeaksCount
    <3> QED
      BY <2>4, <2>6, <3>2, <3>4, <3>5
  <2>8. CASE ~(v = url[c] /\ OwnEntry(c))
    <3>1. entries'[v].borrows = entries[v].borrows
      BY <2>1, <2>8 DEF Returned, Stays, Cached
    <3>2. c \notin Holders(k)
      BY <1>0, <2>3, <2>8 DEF Holders, EntriesInv, OwnEntry, Cached
    <3>3. HoldersAfter(k) = Holders(k)
      BY <2>5, <3>2
    <3> QED
      BY <2>4, <2>6, <3>1, <3>3
  <2> QED
    BY <2>7, <2>8
<1>3. ASSUME NEW c \in Callers, CloseFails(c), at[c] = "entering",
             NEW v \in Cached(entries)
      PROVE  Cardinality(HoldersAfter(entries[v].client)) + Cardinality(LeaksAfter(entries[v].client))
             = Cardinality(Holders(entries[v].client)) + Cardinality(Leaks(entries[v].client))
  <2> DEFINE k == entries[v].client
             l == <<c, uses, holds[c]>>
  <2>1. /\ holds' = [holds EXCEPT ![c] = 0] /\ leaked' = leaked \cup {l}
        /\ entries' = entries
    BY <1>3 DEF CloseFails
  <2>2. HoldersAfter(k) = Holders(k) \ {c}
    <3>1. k # 0
      BY <1>0
    <3> HIDE DEF k
    <3> QED
      BY <1>0, <2>1, <3>1, HoldersMove
  <2>3. Cardinality(Holders(k)) \in Nat /\ Cardinality(Leaks(k)) \in Nat
    BY <1>0, HoldersCount, LeaksCount
  <2>4. CASE holds[c] = k
    <3>1. LeaksAfter(k) = Leaks(k) \cup {l}
      BY <2>1, <2>4 DEF Leaks, LeaksAfter
    <3>2. l \notin Leaks(k)
      BY <1>0, <1>3 DEF Leaks, LeakInv, RolesInv, PeerTypeOK
    <3>3. IsFiniteSet(Leaks(k))
      BY <1>0, LeaksCount
    <3>4. Cardinality(Leaks(k) \cup {l}) = Cardinality(Leaks(k)) + 1
      BY <3>2, <3>3, FS_AddElement
    <3>5. Cardinality(Holders(k) \ {c}) = Cardinality(Holders(k)) - 1
      BY <2>4, HoldersCount DEF Holders
    <3> QED
      BY <2>1, <2>2, <2>3, <3>1, <3>4, <3>5
  <2>5. CASE holds[c] # k
    <3>1. LeaksAfter(k) = Leaks(k) /\ HoldersAfter(k) = Holders(k)
      BY <2>1, <2>2, <2>5 DEF Leaks, LeaksAfter, Holders
    <3> QED
      BY <2>1, <3>1
  <2> QED
    BY <2>4, <2>5
<1>4. ASSUME UNCHANGED <<entries, holds, leaked>> PROVE BorrowsAreHeld'
  BY <1>0, <1>4 DEF BorrowsAreHeld, Cached, Holders, Leaks
<1>5. ASSUME NEW c \in Callers, CloseFails(c) PROVE BorrowsAreHeld'
  <2>1. CASE at[c] = "entering"
    <3>1. entries' = entries
      BY <1>5 DEF CloseFails
    <3> QED
      BY <1>0, <1>3, <1>5, <2>1, <3>1 DEF BorrowsAreHeld, Cached, Holders, Leaks, HoldersAfter, LeaksAfter
  <2>2. CASE at[c] # "entering"
    BY <1>0, <1>4, <1>5, <2>2 DEF CloseFails, RolesInv
  <2> QED
    BY <2>1, <2>2
<1>6. ASSUME NEW c \in Callers, CloseNext(c) \/ Enter(c) \/ Leave(c) PROVE BorrowsAreHeld'
  BY <1>4, <1>6 DEF CloseNext, Enter, Leave
<1>7. CASE CloseAll
  BY <1>7 DEF CloseAll, BorrowsAreHeld, Cached
<1>8. CASE TimePasses \/ UNCHANGED peerVars
  BY <1>4, <1>8 DEF TimePasses, peerVars
<1>9. ASSUME NEW c \in Callers, NEW u \in Urls, Borrow(c, u) PROVE BorrowsAreHeld'
  BY <1>1, <1>9 DEF BorrowsAreHeld, Cached, Holders, Leaks, HoldersAfter, LeaksAfter
<1>10. ASSUME NEW c \in Callers, Return(c) PROVE BorrowsAreHeld'
  BY <1>2, <1>10 DEF BorrowsAreHeld, Cached, Holders, Leaks, HoldersAfter, LeaksAfter
<1> QED
  BY <1>5, <1>6, <1>7, <1>8, <1>9, <1>10 DEF PeerStep

(* Who holds a client keeps its entry borrowed, so that no eviction takes  *)
(* it; what an eviction takes out is in no entry any more.                 *)
LEMMA HoldStep == PeerInv /\ [PeerStep]_peerVars => HoldInv'
<1> SUFFICES ASSUME PeerInv, [PeerStep]_peerVars, ~shut'
             PROVE  /\ \A d \in Callers : holds'[d] # 0 =>
                          /\ url'[d] \in Urls /\ entries'[url'[d]] # NoEntry
                          /\ entries'[url'[d]].client = holds'[d]
                    /\ \A v \in Urls : entries'[v] # NoEntry =>
                          /\ entries'[v].client \notin closed' \cup lost'
                          /\ \A d \in Callers : entries'[v].client \notin toClose'[d]
  BY DEF HoldInv, Cached
<1> DEFINE Holds(d) == holds'[d] # 0 =>
                          /\ url'[d] \in Urls /\ entries'[url'[d]] # NoEntry
                          /\ entries'[url'[d]].client = holds'[d]
           Open(v) == entries'[v] # NoEntry =>
                          /\ entries'[v].client \notin closed' \cup lost'
                          /\ \A d \in Callers : entries'[v].client \notin toClose'[d]
<1>0. /\ RolesInv /\ EntriesInv /\ ~shut /\ made \in Nat
      /\ holds \in [Callers -> Clients \cup {0}] /\ url \in [Callers -> Urls]
      /\ toClose \in [Callers -> SUBSET Clients]
      /\ \A d \in Callers : toClose[d] \subseteq 1..made
      /\ closed \cup lost \subseteq 1..made
  <2>1. ~shut
    BY DEF PeerStep, Borrow, CloseNext, CloseFails, Enter, Return, Leave, CloseAll,
           TimePasses, peerVars
  <2> QED
    BY <2>1, BoundsAssumption DEF PeerInv, RolesInv, PeerTypeOK
<1>1. /\ \A d \in Callers : holds[d] # 0 =>
            url[d] \in Cached(entries) /\ entries[url[d]].client = holds[d]
      /\ \A v \in Cached(entries) :
            /\ entries[v].client \notin closed \cup lost
            /\ \A d \in Callers : entries[v].client \notin toClose[d]
  BY <1>0 DEF PeerInv, HoldInv
<1>2. ASSUME NEW c \in Callers, NEW u \in Urls, Borrow(c, u)
      PROVE  (\A d \in Callers : Holds(d)) /\ (\A v \in Urls : Open(v))
  <2>1. /\ entries'[u] # NoEntry /\ Borrowed(u)
        /\ \A w \in Urls \ {u} : Stays(w)
        /\ holds' = [holds EXCEPT ![c] = entries'[u].client]
        /\ toClose' = [toClose EXCEPT ![c] = toClose'[c]]
        /\ \A k \in toClose'[c] : Gone(k)
    BY <1>0, <1>2, BorrowEffect
  <2>2. url' = [url EXCEPT ![c] = u] /\ UNCHANGED <<closed, lost>>
    BY <1>2 DEF Borrow
  <2>3. Holds(c)
    BY <1>0, <2>1, <2>2
  <2>4. ASSUME NEW d \in Callers \ {c}, holds[d] # 0
        PROVE  /\ entries'[url[d]] # NoEntry
               /\ entries'[url[d]].client = holds[d]
    <3>1. entries[url[d]].borrows \in Nat \ {0} /\ entries[url[d]] # NoEntry
      BY <1>1, <2>4, HeldIsBorrowed DEF Cached
    <3> QED
      BY <1>0, <1>1, <2>1, <2>4, <3>1 DEF Stays, Borrowed
  <2>5. ASSUME NEW d \in Callers PROVE Holds(d)
    BY <1>0, <2>1, <2>2, <2>3, <2>4
  <2>6. ASSUME NEW v \in Urls, entries'[v] # NoEntry PROVE Open(v)
    <3>1. \/ v \in Cached(entries) /\ entries'[v].client = entries[v].client
          \/ entries'[v].client = made + 1
      BY <2>1, <2>6 DEF Borrowed, Stays, Cached
    <3>2. entries'[v].client \notin closed \cup lost
      BY <1>0, <1>1, <3>1
    <3>3. \A d \in Callers : entries'[v].client \notin toClose[d]
      BY <1>0, <1>1, <3>1
    <3>4. entries'[v].client \notin toClose'[c]
      BY <2>1, <2>6 DEF Gone, Cached
    <3>5. ASSUME NEW d \in Callers PROVE entries'[v].client \notin toClose'[d]
      BY <1>0, <2>1, <3>3, <3>4
    <3> QED
      BY <2>2, <3>2, <3>5
  <2> QED
    BY <2>5, <2>6
<1>3. ASSUME NEW c \in Callers, Return(c)
      PROVE  (\A d \in Callers : Holds(d)) /\ (\A v \in Urls : Open(v))
  <2>1. /\ Returned(c)
        /\ OwnEntry(c) /\ entries[url[c]].borrows > 1 => entries'[url[c]] # NoEntry
        /\ \A w \in Urls \ {url[c]} : Stays(w)
        /\ toClose' = [toClose EXCEPT ![c] = toClose'[c]]
        /\ \A k \in toClose'[c] : \A w \in Cached(entries') : entries'[w].client # k
    BY <1>0, <1>3, ReturnEffect
  <2>2. holds' = [holds EXCEPT ![c] = 0] /\ UNCHANGED <<url, closed, lost>>
    BY <1>3 DEF Return
  <2>3. holds[c] # 0
    BY <1>0, <1>3 DEF Return, RolesInv
  <2>4. ASSUME NEW d \in Callers \ {c}, holds[d] # 0
        PROVE  /\ entries'[url[d]] # NoEntry
               /\ entries'[url[d]].client = holds[d]
    <3>1. /\ entries[url[d]].borrows \in Nat \ {0} /\ entries[url[d]] # NoEntry
          /\ holds[c] = holds[d] => entries[url[d]].borrows > 1
      BY <1>1, <2>4, HeldIsBorrowed DEF Cached
    <3>2. CASE url[d] # url[c]
      BY <1>0, <1>1, <2>1, <2>4, <3>1, <3>2 DEF Stays
    <3>3. CASE url[d] = url[c]
      BY <1>0, <1>1, <2>1, <2>3, <2>4, <3>1, <3>3 DEF Returned, OwnEntry, Cached
    <3> QED
      BY <3>2, <3>3
  <2>5. ASSUME NEW d \in Callers PROVE Holds(d)
    BY <1>0, <2>2, <2>4
  <2>6. ASSUME NEW v \in Urls, entries'[v] # NoEntry PROVE Open(v)
    <3>1. v \in Cached(entries) /\ entries'[v].client = entries[v].client
      BY <2>1, <2>6 DEF Returned, Stays, Cached, OwnEntry
    <3>2. entries'[v].client \notin toClose'[c]
      BY <2>1, <2>6 DEF Cached
    <3>3. ASSUME NEW d \in Callers PROVE entries'[v].client \notin toClose'[d]
      BY <1>0, <1>1, <2>1, <3>1, <3>2
    <3> QED
      BY <1>1, <2>2, <3>1, <3>3
  <2> QED
    BY <2>5, <2>6
<1>4. ASSUME UNCHANGED <<entries, url>>,
             \A d \in Callers : holds'[d] \in {holds[d], 0},
             \A d \in Callers : toClose'[d] \subseteq toClose[d],
             \A k \in (closed' \cup lost') \ (closed \cup lost) :
                \E d \in Callers : k \in toClose[d]
      PROVE  (\A d \in Callers : Holds(d)) /\ (\A v \in Urls : Open(v))
  <2>1. ASSUME NEW d \in Callers PROVE Holds(d)
    BY <1>1, <1>4 DEF Cached
  <2>2. ASSUME NEW v \in Urls, entries'[v] # NoEntry PROVE Open(v)
    BY <1>1, <1>4, <2>2 DEF Cached
  <2> QED
    BY <2>1, <2>2
<1>5. ASSUME NEW c \in Callers, CloseNext(c)
      PROVE  (\A d \in Callers : Holds(d)) /\ (\A v \in Urls : Open(v))
  <2>1. PICK k \in toClose[c] : /\ toClose' = [toClose EXCEPT ![c] = @ \ {k}]
                                /\ closed' = closed \cup {k}
    BY <1>5 DEF CloseNext
  <2>2. UNCHANGED <<entries, url, holds, lost>>
    BY <1>5 DEF CloseNext
  <2>3. \A d \in Callers : toClose'[d] \subseteq toClose[d]
    BY <1>0, <2>1
  <2> HIDE DEF Holds, Open
  <2> QED
    BY <1>4, <2>1, <2>2, <2>3
<1>6. ASSUME NEW c \in Callers, CloseFails(c)
      PROVE  (\A d \in Callers : Holds(d)) /\ (\A v \in Urls : Open(v))
  <2>1. /\ toClose' = [toClose EXCEPT ![c] = {}] /\ lost' = lost \cup toClose[c]
        /\ holds' = [holds EXCEPT ![c] = 0] /\ UNCHANGED <<entries, url, closed>>
    BY <1>6 DEF CloseFails
  <2>2. \A d \in Callers : toClose'[d] \subseteq toClose[d] /\ holds'[d] \in {holds[d], 0}
    BY <1>0, <2>1
  <2> HIDE DEF Holds, Open
  <2> QED
    BY <1>4, <2>1, <2>2
<1>7. ASSUME UNCHANGED <<entries, url, holds, toClose, closed, lost>>
      PROVE  (\A d \in Callers : Holds(d)) /\ (\A v \in Urls : Open(v))
  <2> HIDE DEF Holds, Open
  <2> QED
    BY <1>4, <1>7
<1>8. ~CloseAll
  BY DEF CloseAll
<1> HIDE DEF Holds, Open
<1>9. (\A d \in Callers : Holds(d)) /\ (\A v \in Urls : Open(v))
  BY <1>2, <1>3, <1>5, <1>6, <1>7, <1>8
     DEF PeerStep, Enter, Leave, TimePasses, peerVars
<1> QED
  BY <1>9 DEF Holds, Open

LEMMA PeerInvStep == PeerInv /\ [PeerStep]_peerVars => PeerInv'
BY RolesStep, EntriesStep, LeakStep, BorrowsStep, HoldStep DEF PeerInv

LEMMA HoldersAreOpen == PeerInv => InUseIsOpen
BY DEF PeerInv, HoldInv, InUseIsOpen, Cached

-------------------------------------------------------------------------------
(* The size of the cache.                                                  *)

(* Every client is cached, about to be closed, closed, or lost; whoever    *)
(* has nothing to close is not closing.                                    *)
KnownInv ==
    /\ \A c \in Callers : at[c] \in {"idle", "using"} => toClose[c] = {}
    /\ \A k \in 1..made :
          \/ k \in closed \cup lost
          \/ \E u \in Cached(entries) : entries[u].client = k
          \/ \E c \in Callers : k \in toClose[c]

(* A cache beyond its size holds an entry that is marked, and what is      *)
(* marked is in use.                                                       *)
Bounded(es) ==
    \/ Cardinality(Cached(es)) <= MaxSize
    \/ \E u \in Cached(es) : es[u].pending

MarksAreBorrowed(es, protected) ==
    \A u \in Cached(es) : es[u].pending => es[u].borrows # 0 \/ u \in protected

SizeInv ==
    /\ IsFiniteSet(Cached(entries))
    /\ MarksAreBorrowed(entries, {})
    /\ Bounded(entries)

(* What a pass leaves in the cache, and what it leaves marked.             *)
LEMMA PassKeeps ==
    ASSUME NEW es \in Entries, NEW gone, NEW marked \in SUBSET Cached(es), gone \cap marked = {}
    PROVE  LET rest == Mark(Without(es, gone), marked)
           IN  /\ Cached(rest) = Cached(es) \ gone
               /\ \A u \in Cached(rest) : /\ rest[u].pending <=> es[u].pending \/ u \in marked
                                          /\ rest[u].borrows = es[u].borrows
<1> DEFINE rest == Mark(Without(es, gone), marked)
<1>1. ASSUME NEW u \in Urls
      PROVE  /\ u \in marked => /\ rest[u] = [es[u] EXCEPT !.pending = TRUE]
                                /\ es[u] \in Entry /\ u \notin gone
             /\ u \notin marked => rest[u] = IF u \in gone THEN NoEntry ELSE es[u]
             /\ es[u] # NoEntry => es[u] \in Entry
  BY DEF Mark, Without, Cached, Entries
<1> HIDE DEF rest
<1>2. ASSUME NEW u \in Urls
      PROVE  /\ rest[u] # NoEntry <=> es[u] # NoEntry /\ u \notin gone
             /\ rest[u] # NoEntry => /\ rest[u].pending <=> es[u].pending \/ u \in marked
                                     /\ rest[u].borrows = es[u].borrows
  <2>1. CASE u \in marked
    <3>1. rest[u] \in Entry /\ rest[u].pending = TRUE /\ rest[u].borrows = es[u].borrows
      <4> DEFINE e == es[u]
      <4>1. rest[u] = [e EXCEPT !.pending = TRUE] /\ e \in Entry
        BY <1>1, <2>1
      <4> HIDE DEF e
      <4>2. rest[u] \in Entry /\ rest[u].pending = TRUE /\ rest[u].borrows = e.borrows
        BY <4>1 DEF Entry
      <4> QED
        BY <4>2 DEF e
    <3> QED
      BY <1>1, <2>1, <3>1, NoEntryIsNone
  <2>2. CASE u \notin marked
    BY <1>1, <2>2
  <2> QED
    BY <2>1, <2>2
<1>3. /\ Cached(rest) = Cached(es) \ gone
      /\ \A u \in Cached(rest) : /\ rest[u].pending <=> es[u].pending \/ u \in marked
                                 /\ rest[u].borrows = es[u].borrows
  BY <1>2 DEF Cached
<1> QED
  BY <1>3 DEF rest

(* What is due goes when nobody uses it, so a mark that stays is one of an *)
(* entry in use.                                                           *)
LEMMA DueMarks ==
    ASSUME NEW es \in Entries, NEW protected
    PROVE  /\ Cached(DropDue(es, protected)) \subseteq Cached(es)
           /\ MarksAreBorrowed(DropDue(es, protected), protected)
<1> DEFINE due == {u \in Cached(es) : Expired(es[u]) \/ es[u].pending}
           gone == due \cap IdleEntries(es, protected)
           marked == due \ IdleEntries(es, protected)
           rest == Mark(Without(es, gone), marked)
<1>1. DropDue(es, protected) = rest
  BY DEF DropDue
<1>2. marked \in SUBSET Cached(es) /\ gone \cap marked = {}
  OBVIOUS
<1>3. /\ Cached(rest) = Cached(es) \ gone
      /\ \A u \in Cached(rest) : /\ rest[u].pending <=> es[u].pending \/ u \in marked
                                 /\ rest[u].borrows = es[u].borrows
  <2> HIDE DEF gone, marked
  <2> QED
    BY <1>2, PassKeeps
<1>4. \A u \in Cached(es) \ gone :
         es[u].pending \/ u \in marked => es[u].borrows # 0 \/ u \in protected
  BY DEF IdleEntries
<1> HIDE DEF rest, gone, marked
<1>5. MarksAreBorrowed(rest, protected)
  BY <1>3, <1>4 DEF MarksAreBorrowed
<1> QED
  BY <1>1, <1>3, <1>5

LEMMA LeastNumber ==
    ASSUME NEW T \in SUBSET Nat, T # {}
    PROVE  \E m \in T : \A n \in T : m <= n
<1> DEFINE R == {ss \in Nat \X Nat : ss[1] < ss[2]}
<1>1. IsWellFoundedOn(R, Nat)
  BY NatLessThanWellFounded DEF OpToRel
<1>2. PICK m \in T : \A n \in T : ~(<<n, m>> \in R)
  <2> HIDE DEF R
  <2> QED
    BY <1>1, WFMin
<1>3. \A n \in T : ~(n < m)
  BY <1>2
<1> QED
  BY <1>3

(* What exceeds the size is taken out or, where somebody uses it, marked.  *)
(* If nothing is marked, at least as many entries go as there are too many: *)
(* every idle entry is among the first, or as many idle ones come before   *)
(* the least recently used that is not.                                    *)
LEMMA ExcessBounds ==
    ASSUME NEW es \in Entries, NEW protected, IsFiniteSet(Cached(es)),
           protected = {} \/ \E u \in Urls : protected = {u},
           MarksAreBorrowed(es, protected)
    PROVE  /\ Cached(DropExcess(es, protected)) \subseteq Cached(es)
           /\ MarksAreBorrowed(DropExcess(es, protected), protected)
           /\ Bounded(DropExcess(es, protected))
<1> DEFINE here == Cached(es)
           excess == Cardinality(here) - MaxSize
           unused == IdleEntries(es, protected)
           before(u) == {v \in unused : es[v].used < es[u].used}
           first == {u \in here \ protected : Cardinality(before(u)) < excess}
           gone == first \cap unused
           marked == first \ unused
           rest == Mark(Without(es, gone), marked)
<1>1. CASE \E u \in Cached(es) : es[u].pending
  <2>1. DropExcess(es, protected) = es
    BY <1>1 DEF DropExcess
  <2> QED
    BY <1>1, <2>1 DEF Bounded
<1>2. CASE ~\E u \in Cached(es) : es[u].pending
  <2>1. DropExcess(es, protected) = rest
    BY <1>2 DEF DropExcess
  <2>2. marked \in SUBSET Cached(es) /\ gone \cap marked = {} /\ gone \in SUBSET here
    OBVIOUS
  <2>3. /\ Cached(rest) = here \ gone
        /\ \A u \in Cached(rest) : /\ rest[u].pending <=> es[u].pending \/ u \in marked
                                   /\ rest[u].borrows = es[u].borrows
    <3> HIDE DEF gone, marked
    <3> QED
      BY <2>2, PassKeeps
  <2>4. \A u \in marked : es[u].borrows # 0 \/ u \in protected
    BY DEF IdleEntries
  <2>5. unused = {u \in here \ protected : es[u].borrows = 0}
    BY DEF IdleEntries
  <2>6. \A u \in here : es[u].used \in Nat
    BY DEF Cached, Entries, Entry
  <2>7. \A S \in SUBSET here : IsFiniteSet(S) /\ Cardinality(S) \in Nat
    BY FS_Subset, FS_CardinalityType
  <2>8. Cardinality(here) \in Nat /\ MaxSize \in Nat \ {0}
    BY FS_CardinalityType, CacheAssumption
  <2>9. \A u \in here : before(u) \in SUBSET here
    BY <2>5
  <2> HIDE DEF here, unused, rest
  <2>10. MarksAreBorrowed(rest, protected)
    <3> HIDE DEF gone, marked
    <3> QED
      BY <1>2, <2>2, <2>3, <2>4 DEF MarksAreBorrowed, here
  <2>11. ASSUME NEW u \in here, before(u) \subseteq gone, u \in here \ protected, u \notin first
         PROVE  Cardinality(here \ gone) <= MaxSize
    <3>1. ~(Cardinality(before(u)) < excess)
      BY <2>11
    <3>2. /\ Cardinality(before(u)) \in Nat /\ Cardinality(gone) \in Nat
          /\ Cardinality(before(u)) <= Cardinality(gone)
      <4> HIDE DEF gone, before
      <4>1. IsFiniteSet(gone) /\ before(u) \in SUBSET gone
        BY <2>2, <2>7, <2>11
      <4> QED
        BY <2>2, <2>7, <2>9, <4>1, FS_Subset
    <3>3. Cardinality(here \ gone) = Cardinality(here) - Cardinality(gone)
      <4>1. here \cap gone = gone /\ IsFiniteSet(here)
        BY <2>2 DEF here
      <4> HIDE DEF gone
      <4> QED
        BY <4>1, FS_Difference
    <3> HIDE DEF gone, before
    <3> QED
      BY <2>8, <3>1, <3>2, <3>3
  <2>12. ASSUME marked # {} PROVE Bounded(rest)
    <3>1. PICK u \in marked : TRUE
      BY <2>12
    <3>2. u \in here \ gone
      BY <2>2, <3>1 DEF here
    <3> HIDE DEF gone, marked
    <3>3. u \in Cached(rest) /\ rest[u].pending
      BY <2>3, <3>1, <3>2
    <3> QED
      BY <3>3 DEF Bounded
  <2>13. ASSUME ~(unused \subseteq first) PROVE Bounded(rest)
    <3> DEFINE late == unused \ first
               times == {es[u].used : u \in late}
    <3>1. times \in SUBSET Nat /\ times # {}
      <4>1. late \subseteq here /\ late # {}
        BY <2>5, <2>13
      <4> HIDE DEF late
      <4> QED
        BY <2>6, <4>1
    <3>2. PICK m \in times : \A n \in times : m <= n
      <4> HIDE DEF times
      <4> QED
        BY <3>1, LeastNumber
    <3>3. PICK u \in late : es[u].used = m
      <4> HIDE DEF late
      <4> QED
        BY <3>2
    <3>4. \A v \in late : ~(es[v].used < es[u].used)
      <4>1. late \subseteq here
        BY <2>5
      <4> SUFFICES ASSUME NEW v \in late PROVE ~(es[v].used < es[u].used)
        OBVIOUS
      <4>2. es[v].used \in times
        OBVIOUS
      <4> HIDE DEF late, times
      <4>3. es[u].used \in Nat /\ es[v].used \in Nat /\ m <= es[v].used
        BY <2>6, <3>2, <4>1, <4>2
      <4> QED
        BY <3>3, <4>3
    <3>5. before(u) \subseteq gone
      BY <3>4
    <3>6. u \in here \ protected /\ u \notin first
      BY <2>5, <3>3
    <3>7. Cardinality(here \ gone) <= MaxSize
      BY <2>11, <3>5, <3>6
    <3> HIDE DEF gone, marked
    <3> QED
      BY <2>3, <3>7 DEF Bounded
  <2>14. ASSUME unused \subseteq first, here \ protected \subseteq first, marked = {}
         PROVE  Bounded(rest)
    <3>1. here \ gone \subseteq protected
      BY <2>14
    <3>2. IsFiniteSet(here \ gone) /\ Cardinality(here \ gone) <= 1
      <4>1. ASSUME protected = {} PROVE Cardinality(here \ gone) <= 1
        <5>1. here \ gone = {}
          BY <3>1, <4>1
        <5> HIDE DEF gone
        <5> QED
          BY <5>1, FS_EmptySet
      <4>2. ASSUME NEW u \in Urls, protected = {u} PROVE Cardinality(here \ gone) <= 1
        <5>1. here \ gone = {} \/ here \ gone = {u}
          BY <3>1, <4>2
        <5> HIDE DEF gone
        <5>2. Cardinality(here \ gone) = 0 \/ Cardinality(here \ gone) = 1
          BY <5>1, FS_EmptySet, FS_Singleton, Zenon
        <5> QED
          BY <5>2
      <4>3. here \ gone \in SUBSET here
        OBVIOUS
      <4> HIDE DEF gone
      <4> QED
        BY <2>7, <4>1, <4>2, <4>3
    <3> HIDE DEF gone
    <3>3. Cardinality(here \ gone) \in Nat
      BY <3>2, FS_CardinalityType
    <3> QED
      BY <2>3, <2>8, <3>2, <3>3 DEF Bounded
  <2>15. ASSUME unused \subseteq first, ~(here \ protected \subseteq first)
         PROVE  Bounded(rest)
    <3>1. PICK u \in here \ protected : u \notin first
      BY <2>15
    <3>2. before(u) \subseteq gone
      BY <2>15
    <3>3. Cardinality(here \ gone) <= MaxSize
      BY <2>11, <3>1, <3>2
    <3> HIDE DEF gone, marked
    <3> QED
      BY <2>3, <3>3 DEF Bounded
  <2>16. Bounded(rest)
    <3> HIDE DEF marked, first
    <3> QED
      BY <2>12, <2>13, <2>14, <2>15
  <2>17. Cached(rest) \subseteq Cached(es)
    BY <2>3 DEF here
  <2> QED
    BY <2>1, <2>10, <2>16, <2>17
<1> QED
  BY <1>1, <1>2

LEMMA EvictBounds ==
    ASSUME NEW es \in Entries, NEW protected, IsFiniteSet(Cached(es)),
           protected = {} \/ \E u \in Urls : protected = {u}
    PROVE  /\ Cached(Evict(es, protected)) \subseteq Cached(es)
           /\ MarksAreBorrowed(Evict(es, protected), protected)
           /\ Bounded(Evict(es, protected))
<1> DEFINE middle == DropDue(es, protected)
<1>1. middle \in Entries
  BY DueThins DEF Thinned
<1>2. Cached(middle) \subseteq Cached(es) /\ MarksAreBorrowed(middle, protected)
  BY DueMarks
<1>3. IsFiniteSet(Cached(middle))
  BY <1>2, FS_Subset
<1>4. Evict(es, protected) = DropExcess(middle, protected)
  BY DEF Evict
<1> HIDE DEF middle
<1> QED
  BY <1>1, <1>2, <1>3, <1>4, ExcessBounds

(* A borrow and a return end with an eviction; the rest only empties.      *)
LEMMA EvictedSize ==
    ASSUME PeerInv, SizeInv, NEW protected, Evicts(protected),
           protected = {} \/ \E u \in Urls : protected = {u}
    PROVE  SizeInv'
<1>1. PICK es \in Entries :
         /\ entries' = Evict(es, protected)
         /\ Cached(es) \subseteq Cached(entries) \cup protected
         /\ \A u \in protected : es[u] # NoEntry => es[u].borrows # 0
  BY DEF Evicts
<1>2. IsFiniteSet(Cached(es))
  <2>1. IsFiniteSet(Cached(entries)) /\ IsFiniteSet(protected)
    BY FS_EmptySet, FS_Singleton, Zenon DEF SizeInv
  <2>2. IsFiniteSet(Cached(entries) \cup protected)
    BY <2>1, FS_Union
  <2> QED
    BY <1>1, <2>2, FS_Subset
<1>3. /\ Cached(entries') \subseteq Cached(es)
      /\ MarksAreBorrowed(entries', protected) /\ Bounded(entries')
  BY <1>1, <1>2, EvictBounds
<1>4. IsFiniteSet(Cached(entries'))
  BY <1>2, <1>3, FS_Subset
<1>5. MarksAreBorrowed(entries', {})
  <2>1. Thinned(es, entries', protected)
    BY <1>1, EvictThins
  <2> QED
    BY <1>1, <1>3, <2>1 DEF MarksAreBorrowed, Thinned, Cached
<1> QED
  BY <1>3, <1>4, <1>5 DEF SizeInv, Bounded, Cached, MarksAreBorrowed

LEMMA SizeStep == PeerInv /\ SizeInv /\ [PeerStep]_peerVars => SizeInv'
<1> SUFFICES ASSUME PeerInv, SizeInv, [PeerStep]_peerVars PROVE SizeInv'
  OBVIOUS
<1>1. RolesInv /\ EntriesInv
  BY DEF PeerInv
<1>2. ASSUME NEW c \in Callers, NEW u \in Urls, Borrow(c, u) PROVE SizeInv'
  BY <1>1, <1>2, BorrowEffect, EvictedSize
<1>3. ASSUME NEW c \in Callers, Return(c) PROVE SizeInv'
  BY <1>1, <1>3, ReturnEffect, EvictedSize
<1>4. CASE CloseAll
  <2>1. Cached(entries') = {}
    BY <1>4 DEF CloseAll, Cached
  <2>2. IsFiniteSet(Cached(entries')) /\ Cardinality(Cached(entries')) = 0
    BY <2>1, FS_EmptySet
  <2>3. Cardinality(Cached(entries')) <= MaxSize
    BY <2>2, CacheAssumption
  <2> QED
    BY <2>1, <2>2, <2>3 DEF SizeInv, Bounded, MarksAreBorrowed, Cached
<1>5. CASE UNCHANGED entries
  BY <1>5 DEF SizeInv, Bounded, MarksAreBorrowed, Cached
<1> QED
  BY <1>2, <1>3, <1>4, <1>5
     DEF PeerStep, CloseNext, CloseFails, Enter, Leave, TimePasses, peerVars

-------------------------------------------------------------------------------
(* Where the clients are.                                                  *)

(* A step that closes nothing and takes clients out for one caller only.   *)
LEMMA AccountedStays ==
    ASSUME KnownInv, RolesInv, NEW c \in Callers, at[c] \in {"idle", "using"},
           at' = [at EXCEPT ![c] = at'[c]], at'[c] \in {"entering", "returning"},
           toClose' = [toClose EXCEPT ![c] = toClose'[c]],
           UNCHANGED <<closed, lost>>, Accounted(c),
           \A k \in (1..made') \ (1..made) :
              \E u \in Cached(entries') : entries'[u].client = k
    PROVE  KnownInv'
<1>1. toClose[c] = {}
  BY DEF KnownInv
<1>2. at \in [Callers -> {"idle", "entering", "using", "returning"}]
  BY DEF RolesInv, PeerTypeOK
<1>3. toClose \in [Callers -> SUBSET Clients]
  BY DEF RolesInv, PeerTypeOK
<1>4. \A d \in Callers \ {c} : at'[d] = at[d] /\ toClose'[d] = toClose[d]
  BY <1>2, <1>3
<1>5. \A d \in Callers : at'[d] \in {"idle", "using"} => toClose'[d] = {}
  BY <1>4 DEF KnownInv
<1>6. ASSUME NEW k \in 1..made'
      PROVE  \/ k \in closed' \cup lost'
             \/ \E u \in Cached(entries') : entries'[u].client = k
             \/ \E d \in Callers : k \in toClose'[d]
  <2>1. CASE k \in 1..made
    <3>1. CASE k \in closed \cup lost
      BY <3>1
    <3>2. CASE \E u \in Cached(entries) : entries[u].client = k
      BY <3>2 DEF Accounted
    <3>3. CASE \E d \in Callers : k \in toClose[d]
      BY <1>1, <1>4, <3>3
    <3> QED
      BY <2>1, <3>1, <3>2, <3>3 DEF KnownInv
  <2>2. CASE k \notin 1..made
    BY <2>2
  <2> QED
    BY <2>1, <2>2
<1> QED
  BY <1>5, <1>6 DEF KnownInv, Cached

LEMMA KnownStep == PeerInv /\ KnownInv /\ [PeerStep]_peerVars => KnownInv'
<1> SUFFICES ASSUME PeerInv, KnownInv, [PeerStep]_peerVars PROVE KnownInv'
  OBVIOUS
<1>1. /\ RolesInv /\ EntriesInv
      /\ at \in [Callers -> {"idle", "entering", "using", "returning"}]
      /\ toClose \in [Callers -> SUBSET Clients] /\ made \in Nat
  BY BoundsAssumption DEF PeerInv, RolesInv, PeerTypeOK
<1>2. ASSUME NEW c \in Callers, NEW u \in Urls, Borrow(c, u) PROVE KnownInv'
  <2>1. /\ at[c] = "idle" /\ at' = [at EXCEPT ![c] = "entering"]
        /\ UNCHANGED <<closed, lost>>
    BY <1>2 DEF Borrow
  <2>2. at' = [at EXCEPT ![c] = at'[c]] /\ at'[c] = "entering"
    BY <1>1, <2>1
  <2>3. /\ entries'[u] # NoEntry /\ Borrowed(u) /\ Accounted(c)
        /\ toClose' = [toClose EXCEPT ![c] = toClose'[c]]
    BY <1>1, <1>2, BorrowEffect
  <2>4. \A k \in (1..made') \ (1..made) :
           \E v \in Cached(entries') : entries'[v].client = k
    BY <1>1, <2>3 DEF Borrowed, Cached
  <2> QED
    BY <1>1, <2>1, <2>2, <2>3, <2>4, AccountedStays
<1>3. ASSUME NEW c \in Callers, Return(c) PROVE KnownInv'
  <2>1. /\ at[c] = "using" /\ at' = [at EXCEPT ![c] = "returning"]
        /\ UNCHANGED <<closed, lost, made>>
    BY <1>3 DEF Return
  <2>2. at' = [at EXCEPT ![c] = at'[c]] /\ at'[c] = "returning"
    BY <1>1, <2>1
  <2>3. Accounted(c) /\ toClose' = [toClose EXCEPT ![c] = toClose'[c]]
    BY <1>1, <1>3, ReturnEffect
  <2> QED
    BY <1>1, <2>1, <2>2, <2>3, AccountedStays
<1> USE DEF KnownInv, Cached
<1>4. ASSUME NEW c \in Callers, CloseNext(c) PROVE KnownInv'
  <2>1. PICK k \in toClose[c] : /\ toClose' = [toClose EXCEPT ![c] = @ \ {k}]
                                /\ closed' = closed \cup {k}
    BY <1>4 DEF CloseNext
  <2>2. UNCHANGED <<entries, at, made, lost>>
    BY <1>4 DEF CloseNext
  <2>3. \A d \in Callers : /\ toClose'[d] \subseteq toClose[d]
                           /\ toClose[d] \subseteq toClose'[d] \cup {k}
    BY <1>1, <2>1
  <2>4. \A d \in Callers : at'[d] \in {"idle", "using"} => toClose'[d] = {}
    BY <2>2, <2>3
  <2>5. ASSUME NEW j \in 1..made'
        PROVE  \/ j \in closed' \cup lost'
               \/ \E v \in Cached(entries') : entries'[v].client = j
               \/ \E d \in Callers : j \in toClose'[d]
    BY <2>1, <2>2, <2>3
  <2> QED
    BY <2>4, <2>5
<1>5. ASSUME NEW c \in Callers, CloseFails(c) PROVE KnownInv'
  <2>1. /\ toClose' = [toClose EXCEPT ![c] = {}] /\ lost' = lost \cup toClose[c]
        /\ at' = [at EXCEPT ![c] = "idle"] /\ UNCHANGED <<entries, made, closed>>
    BY <1>5 DEF CloseFails
  <2>2. /\ toClose'[c] = {}
        /\ \A d \in Callers \ {c} : toClose'[d] = toClose[d] /\ at'[d] = at[d]
    BY <1>1, <2>1
  <2>3. \A d \in Callers : at'[d] \in {"idle", "using"} => toClose'[d] = {}
    BY <2>2
  <2>4. ASSUME NEW j \in 1..made'
        PROVE  \/ j \in closed' \cup lost'
               \/ \E v \in Cached(entries') : entries'[v].client = j
               \/ \E d \in Callers : j \in toClose'[d]
    BY <2>1, <2>2
  <2> QED
    BY <2>3, <2>4
<1>6. ASSUME NEW c \in Callers, Enter(c) \/ Leave(c) PROVE KnownInv'
  <2>1. /\ toClose[c] = {} /\ \A d \in Callers \ {c} : at'[d] = at[d]
        /\ UNCHANGED <<entries, toClose, made, closed, lost>>
    BY <1>1, <1>6 DEF Enter, Leave
  <2> QED
    BY <2>1
<1>7. CASE CloseAll
  BY <1>7 DEF CloseAll, ClientsOf
<1>8. CASE UNCHANGED <<entries, at, toClose, made, closed, lost>>
  BY <1>8
<1> QED
  BY <1>2, <1>3, <1>4, <1>5, <1>6, <1>7, <1>8 DEF PeerStep, TimePasses, peerVars

-------------------------------------------------------------------------------
LEMMA CacheBegins == PeerInit => KnownInv /\ SizeInv
<1> SUFFICES ASSUME PeerInit PROVE KnownInv /\ SizeInv
  OBVIOUS
<1>1. Cached(entries) = {}
  BY DEF PeerInit, Cached
<1>2. Cardinality(Cached(entries)) = 0 /\ IsFiniteSet(Cached(entries))
  BY <1>1, FS_EmptySet
<1>3. Cardinality(Cached(entries)) <= MaxSize
  BY <1>2, CacheAssumption
<1>4. SizeInv
  BY <1>1, <1>2, <1>3 DEF SizeInv, Bounded, MarksAreBorrowed
<1>5. KnownInv
  BY DEF PeerInit, KnownInv
<1> QED
  BY <1>4, <1>5

(* When nobody uses a client and none was leaked, no entry is borrowed, so *)
(* none is marked and the size holds.                                      *)
LEMMA BooksAreRight == PeerInv /\ KnownInv /\ SizeInv => CacheInv
<1> SUFFICES ASSUME PeerInv, KnownInv, SizeInv PROVE CacheInv
  OBVIOUS
<1>1. BorrowsAreHeld
  BY DEF PeerInv
<1>2. NoClientForgotten
  BY DEF KnownInv, NoClientForgotten, ClientsOf
<1>3. SettledCacheIsBounded
  <2> SUFFICES ASSUME \A c \in Callers : at[c] = "idle", leaked = {}
               PROVE  Cardinality(Cached(entries)) <= MaxSize
    BY DEF SettledCacheIsBounded
  <2>1. ASSUME NEW u \in Cached(entries) PROVE ~entries[u].pending
    <3>1. entries[u].client # 0
      BY DEF PeerInv, RolesInv, PeerTypeOK, Cached, Entry, Clients
    <3>2. Holders(entries[u].client) = {} /\ Leaks(entries[u].client) = {}
      BY <3>1 DEF PeerInv, RolesInv, Holders, Leaks
    <3>3. entries[u].borrows = Cardinality(Holders(entries[u].client))
                               + Cardinality(Leaks(entries[u].client))
      BY <1>1 DEF BorrowsAreHeld
    <3>4. entries[u].borrows = 0
      BY <3>2, <3>3, FS_EmptySet
    <3> QED
      BY <3>4 DEF SizeInv, MarksAreBorrowed
  <2> QED
    BY <2>1 DEF SizeInv, Bounded
<1> QED
  BY <1>1, <1>2, <1>3 DEF CacheInv

-------------------------------------------------------------------------------
(* Executions, and their permits.                                          *)

Sending == {e \in Callers : pc[e] = "sending"}
Connected == {e \in Callers : link[e] \in {"open", "dropped"}}

(* Whoever may send again has a turn left.                                 *)
TurnsInv == \A e \in Callers : pc[e] \in {"send", "tools"} => turns[e] < MaxTurns

BudgetInv == PeerInv /\ LoopTypeOK /\ TurnsInv /\ PermitsAreUsed

LEMMA BudgetInit == LoopInit => BudgetInv
<1> SUFFICES ASSUME LoopInit PROVE BudgetInv
  OBVIOUS
<1> USE DEF LoopInit
<1>1. PeerInv
  BY PeerInitInv
<1>2. LoopTypeOK
  BY <1>1, LimitAssumption DEF LoopTypeOK, PeerInv, RolesInv, Kinds
<1>3. TurnsInv
  BY LimitAssumption DEF TurnsInv
<1>4. Sending = {} /\ Connected = {}
  BY DEF Sending, Connected
<1>5. Cardinality(Sending) = 0 /\ Cardinality(Connected) = 0
  BY <1>4, FS_EmptySet
<1>6. PermitsAreUsed
  BY <1>5, LimitAssumption DEF PermitsAreUsed, Sending, Connected, Kinds
<1> QED
  BY <1>1, <1>2, <1>3, <1>6 DEF BudgetInv

-------------------------------------------------------------------------------
(* The cache sees one of its own steps or none.                            *)
LEMMA LoopIsPeerStep == [LoopNext]_loopVars => [PeerStep]_peerVars
<1> SUFFICES ASSUME LoopNext PROVE PeerStep \/ UNCHANGED peerVars
  BY DEF loopVars
<1>1. ASSUME NEW e \in Callers, Runs(e) PROVE PeerStep \/ UNCHANGED peerVars
  BY <1>1 DEF Runs, Send, SendReturns, CallTool, ToolFails, ToolReturns, UseClient,
              Completes, Cleanup, PeerStep
<1>2. ASSUME NEW e \in Callers, Streams(e) \/ StreamRefused(e) \/ StreamBreaks(e) \/ Idles(e)
      PROVE  UNCHANGED peerVars
  BY <1>2 DEF Streams, OpenStream, StreamEnds, Finalize, StreamRefused, StreamBreaks, Idles
<1>3. ASSUME NEW e \in Callers, Cancel(e) PROVE PeerStep \/ UNCHANGED peerVars
  BY <1>3 DEF Cancel, PeerStep
<1> QED
  BY <1>1, <1>2, <1>3 DEF LoopNext, PeerStep

LEMMA GivenTyped ==
    ASSUME NEW budget \in [Kinds -> Nat], NEW kind \in Kinds
    PROVE  /\ Taken(budget, kind) \in [Kinds -> Nat]
           /\ GivenBack(budget, kind) \in [Kinds -> Nat]
<1>1. budget[kind] \in Nat
  OBVIOUS
<1>2. budget[kind] # 0 => budget[kind] - 1 \in Nat
  BY <1>1
<1> QED
  BY <1>1, <1>2 DEF Taken, GivenBack

LEMMA LoopTypes == BudgetInv /\ [LoopNext]_loopVars => LoopTypeOK' /\ TurnsInv'
<1> SUFFICES ASSUME BudgetInv, [LoopNext]_loopVars PROVE LoopTypeOK' /\ TurnsInv'
  OBVIOUS
<1>1. PeerTypeOK'
  BY LoopIsPeerStep, PeerInvStep DEF BudgetInv, PeerInv, RolesInv
<1>2. /\ LoopTypeOK /\ TurnsInv /\ inflight \in [Kinds -> Nat]
      /\ "request" \in Kinds /\ "stream" \in Kinds
  BY DEF BudgetInv, LoopTypeOK, Kinds
<1>3. inflight' \in [Kinds -> Nat]
  <2>1. \/ UNCHANGED inflight
        \/ \E k \in {"request", "stream"} :
              inflight' = Taken(inflight, k) \/ inflight' = GivenBack(inflight, k)
    BY DEF LoopNext, Runs, Streams, Send, SendReturns, CallTool, ToolFails, ToolReturns,
           UseClient, Completes, Cleanup, OpenStream, StreamEnds, Finalize,
           StreamRefused, StreamBreaks, Idles, Cancel, loopVars, loopOnlyVars
  <2> QED
    BY <1>2, <2>1, GivenTyped
<1> USE DEF TurnsInv, LoopTypeOK, Goto, Moves
<1>4. ASSUME NEW e \in Callers, Runs(e)
      PROVE  /\ pc' \in [Callers -> {"send", "sending", "tools", "await", "cleanup", "done"}]
             /\ turns' \in [Callers -> 0..MaxTurns] /\ TurnsInv' /\ UNCHANGED link
  BY <1>2, <1>4, LimitAssumption
     DEF Runs, Send, SendReturns, CallTool, ToolFails, ToolReturns, UseClient,
         Completes, Cleanup, loopOnlyVars
<1>5. ASSUME NEW e \in Callers,
             Streams(e) \/ StreamRefused(e) \/ StreamBreaks(e) \/ Idles(e)
      PROVE  /\ UNCHANGED <<pc, turns>>
             /\ link' \in [Callers -> {"off", "try", "open", "dropped", "ended"}]
  BY <1>2, <1>5 DEF Streams, OpenStream, StreamEnds, Finalize, StreamRefused,
                    StreamBreaks, Idles
<1>6. ASSUME NEW e \in Callers, Cancel(e)
      PROVE  pc' = [pc EXCEPT ![e] = "cleanup"] /\ UNCHANGED <<turns, link>>
  BY <1>6 DEF Cancel
<1>7. CASE UNCHANGED loopOnlyVars
  BY <1>1, <1>2, <1>7 DEF loopOnlyVars
<1> QED
  BY <1>1, <1>2, <1>3, <1>4, <1>5, <1>6, <1>7 DEF LoopNext, loopVars

-------------------------------------------------------------------------------
(* Every step that takes or gives back a permit moves one execution in or  *)
(* out of those that use one.                                              *)
SendingAfter == {e \in Callers : pc'[e] = "sending"}
ConnectedAfter == {e \in Callers : link'[e] \in {"open", "dropped"}}

Moved(kind, users, after) ==
    \/ UNCHANGED inflight /\ after = users
    \/ /\ Free(kind) /\ inflight' = Taken(inflight, kind)
       /\ \E e \in Callers \ users : after = users \cup {e}
    \/ /\ inflight' = GivenBack(inflight, kind)
       /\ \E e \in users : after = users \ {e}

LEMMA StepMoves ==
    ASSUME LoopTypeOK, [LoopNext]_loopVars
    PROVE  \/ Moved("request", Sending, SendingAfter) /\ ConnectedAfter = Connected
           \/ Moved("stream", Connected, ConnectedAfter) /\ SendingAfter = Sending
<1> DEFINE Goal == \/ Moved("request", Sending, SendingAfter) /\ ConnectedAfter = Connected
                   \/ Moved("stream", Connected, ConnectedAfter) /\ SendingAfter = Sending
<1> USE DEF Moved, Sending, SendingAfter, Connected, ConnectedAfter, Goto, Moves
<1>0. /\ pc \in [Callers -> {"send", "sending", "tools", "await", "cleanup", "done"}]
      /\ link \in [Callers -> {"off", "try", "open", "dropped", "ended"}]
  BY DEF LoopTypeOK
<1>1. ASSUME NEW e \in Callers, Send(e) PROVE Goal
  BY <1>0, <1>1 DEF Send
<1>2. ASSUME NEW e \in Callers, SendReturns(e) PROVE Goal
  BY <1>0, <1>2 DEF SendReturns
<1>3. ASSUME NEW e \in Callers,
             CallTool(e) \/ UseClient(e) \/ StreamRefused(e) \/ Idles(e) PROVE Goal
  BY <1>0, <1>3 DEF CallTool, UseClient, StreamRefused, Idles, loopOnlyVars
<1>4. ASSUME NEW e \in Callers, ToolFails(e) \/ ToolReturns(e) \/ Completes(e) \/ Cleanup(e)
      PROVE  Goal
  <2>1. /\ UNCHANGED <<inflight, link>>
        /\ \/ UNCHANGED pc
           \/ /\ pc[e] # "sending"
              /\ \E w \in {"send", "cleanup", "done"} : pc' = [pc EXCEPT ![e] = w]
    BY <1>0, <1>4 DEF ToolFails, ToolReturns, Completes, Cleanup
  <2> QED
    BY <1>0, <2>1
<1>5. ASSUME NEW e \in Callers, OpenStream(e) PROVE Goal
  BY <1>0, <1>5 DEF OpenStream
<1>6. ASSUME NEW e \in Callers, StreamBreaks(e) \/ Finalize(e) PROVE Goal
  BY <1>0, <1>6 DEF StreamBreaks, Finalize
<1>7. ASSUME NEW e \in Callers, StreamEnds(e) PROVE Goal
  BY <1>0, <1>7 DEF StreamEnds
<1>8. ASSUME NEW e \in Callers, Cancel(e) PROVE Goal
  <2>1. /\ pc' = [pc EXCEPT ![e] = "cleanup"] /\ UNCHANGED link
        /\ inflight' = IF pc[e] = "sending" THEN GivenBack(inflight, "request") ELSE inflight
    BY <1>8 DEF Cancel
  <2> QED
    BY <1>0, <2>1
<1>9. CASE UNCHANGED loopOnlyVars
  BY <1>9 DEF loopOnlyVars
<1> QED
  BY <1>1, <1>2, <1>3, <1>4, <1>5, <1>6, <1>7, <1>8, <1>9
     DEF LoopNext, Runs, Streams, loopVars

(* A budget that counts its users counts them still after a move.          *)
LEMMA MoveCounts ==
    ASSUME inflight \in [Kinds -> Nat], NEW kind \in Kinds, NEW users \in SUBSET Callers,
           NEW after, Moved(kind, users, after),
           Limit[kind] # 0 => inflight[kind] = Cardinality(users),
           inflight[kind] <= Limit[kind]
    PROVE  /\ Limit[kind] # 0 => inflight'[kind] = Cardinality(after)
           /\ inflight'[kind] <= Limit[kind]
           /\ \A k \in Kinds \ {kind} : inflight'[k] = inflight[k]
<1>1. IsFiniteSet(users)
  BY CallersAssumption, FS_Subset
<1>2. Cardinality(users) \in Nat
  BY <1>1, FS_CardinalityType
<1>3. ASSUME NEW e \in Callers \ users
      PROVE  Cardinality(users \cup {e}) = Cardinality(users) + 1
  BY <1>1, FS_AddElement
<1>4. ASSUME NEW e \in users
      PROVE  Cardinality(users \ {e}) = Cardinality(users) - 1 /\ Cardinality(users) # 0
  BY <1>1, FS_RemoveElement, FS_EmptySet
<1>5. Limit[kind] \in Nat
  BY LimitAssumption
<1>6. CASE UNCHANGED inflight /\ after = users
  BY <1>6
<1>7. CASE /\ Free(kind) /\ inflight' = Taken(inflight, kind)
           /\ \E e \in Callers \ users : after = users \cup {e}
  BY <1>2, <1>3, <1>5, <1>7 DEF Free, Taken
<1>8. CASE /\ inflight' = GivenBack(inflight, kind)
           /\ \E e \in users : after = users \ {e}
  BY <1>2, <1>4, <1>5, <1>8 DEF GivenBack
<1> QED
  BY <1>6, <1>7, <1>8 DEF Moved

LEMMA PermitsStep == BudgetInv /\ [LoopNext]_loopVars => PermitsAreUsed'
<1> SUFFICES ASSUME BudgetInv, [LoopNext]_loopVars PROVE PermitsAreUsed'
  OBVIOUS
<1>1. /\ LoopTypeOK /\ inflight \in [Kinds -> Nat] /\ Kinds = {"request", "stream"}
      /\ Sending \in SUBSET Callers /\ Connected \in SUBSET Callers
  BY DEF BudgetInv, LoopTypeOK, Kinds, Sending, Connected
<1>2. /\ Limit["request"] # 0 => inflight["request"] = Cardinality(Sending)
      /\ Limit["stream"] # 0 => inflight["stream"] = Cardinality(Connected)
      /\ \A k \in Kinds : inflight[k] <= Limit[k]
  BY DEF BudgetInv, PermitsAreUsed, Sending, Connected
<1>3. CASE Moved("request", Sending, SendingAfter) /\ ConnectedAfter = Connected
  <2>1. /\ Limit["request"] # 0 => inflight'["request"] = Cardinality(SendingAfter)
        /\ inflight'["request"] <= Limit["request"]
        /\ inflight'["stream"] = inflight["stream"]
    BY <1>1, <1>2, <1>3, MoveCounts
  <2> QED
    BY <1>1, <1>2, <1>3, <2>1 DEF PermitsAreUsed, SendingAfter, ConnectedAfter
<1>4. CASE Moved("stream", Connected, ConnectedAfter) /\ SendingAfter = Sending
  <2>1. /\ Limit["stream"] # 0 => inflight'["stream"] = Cardinality(ConnectedAfter)
        /\ inflight'["stream"] <= Limit["stream"]
        /\ inflight'["request"] = inflight["request"]
    BY <1>1, <1>2, <1>4, MoveCounts
  <2> QED
    BY <1>1, <1>2, <1>4, <2>1 DEF PermitsAreUsed, SendingAfter, ConnectedAfter
<1> QED
  BY <1>1, <1>3, <1>4, StepMoves

-------------------------------------------------------------------------------
LEMMA BudgetStep == BudgetInv /\ [LoopNext]_loopVars => BudgetInv'
<1>1. BudgetInv /\ [LoopNext]_loopVars => PeerInv'
  BY LoopIsPeerStep, PeerInvStep DEF BudgetInv
<1> QED
  BY <1>1, LoopTypes, PermitsStep DEF BudgetInv

(* No permit is lost and none is given out twice, on any way a request or  *)
(* a stream ends: a budget shrinks for nobody and its limit holds.         *)
THEOREM BudgetsCount == LoopSpec => []LoopInv
<1>1. BudgetInv => LoopInv
  BY DEF BudgetInv, LoopInv
<1> QED
  BY <1>1, BudgetInit, BudgetStep, PTL DEF LoopSpec

(* Whatever is borrowed, evicted, expired and closed in whatever order, the *)
(* client of a remote agent stays open while it is in use.                  *)
THEOREM ClientsStayOpen == LoopSpec => []InUseIsOpen
<1>1. BudgetInv => InUseIsOpen
  BY HoldersAreOpen DEF BudgetInv
<1> QED
  BY <1>1, BudgetInit, BudgetStep, PTL DEF LoopSpec

(* The borrow count of a cached client is exact, leaks included.            *)
THEOREM BorrowsAreCounted == LoopSpec => []BorrowsAreHeld
<1>1. BudgetInv => BorrowsAreHeld
  BY DEF BudgetInv, PeerInv
<1> QED
  BY <1>1, BudgetInit, BudgetStep, PTL DEF LoopSpec

(* However callers, expiries, evictions, failures and the end of the       *)
(* service interleave, the books of the cache of clients are right: counts *)
(* are exact, no client is forgotten, and a cache that has settled is      *)
(* within its size although evictions had to spare what was in use.        *)
THEOREM CacheIsInOrder == LoopSpec => []CacheInv
<1> DEFINE CacheIInv == BudgetInv /\ KnownInv /\ SizeInv
<1>1. LoopInit => CacheIInv
  BY BudgetInit, CacheBegins DEF LoopInit
<1>2. CacheIInv /\ [LoopNext]_loopVars => CacheIInv'
  BY BudgetStep, LoopIsPeerStep, KnownStep, SizeStep DEF BudgetInv
<1>3. CacheIInv => CacheInv
  BY BooksAreRight DEF BudgetInv
<1> QED
  BY <1>1, <1>2, <1>3, PTL DEF LoopSpec
===============================================================================
