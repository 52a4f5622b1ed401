----------------------------- MODULE StreamProofs -----------------------------
(***************************************************************************)
(* Proofs about StreamOutput, for any parts, texts, styles, casts and      *)
(* breaks of the event stream: the signal the coordinator waits for is     *)
(* still to come or was missed, nothing is sent after "completed", who was *)
(* told so has the whole response, no chunk repeats what was streamed, and *)
(* who has all of a plain response is not sent it again as a snapshot.     *)
(***************************************************************************)
EXTENDS StreamOutput, SequenceTheorems, WellFoundedInduction, TLAPS

(* The actions by whether the client is sent something: the consumer's,    *)
(* the coordinator's, and those that send nothing.                         *)
ConsumerWrites == \E p \in Parts : UpstreamWrites(p) \/ UpstreamRepeats(p)
CoordinatorWrites == SendFails \/ StreamEndedFirst \/ EndsInError \/ Completes

-------------------------------------------------------------------------------
(* Induction on numbers, for sets.                                         *)
LEMMA LeastNumber ==
    ASSUME NEW T \in SUBSET Nat, T # {}
    PROVE  \E m \in T : \A n \in T : m <= n
<1> DEFINE R == {ss \in Nat \X Nat : ss[1] < ss[2]}
<1>1. IsWellFoundedOn(R, Nat)
  BY NatLessThanWellFounded DEF OpToRel
<1>2. PICK m \in T : \A n \in T : ~(<<n, m>> \in R)
  <2> HIDE DEF R
  <2> QED
    BY <1>1, WFMin
<1>3. \A n \in T : ~(n < m)
  BY <1>2
<1> QED
  BY <1>3

LEMMA SetInduction ==
    ASSUME NEW T, 0 \in T, \A n \in Nat : n \in T => n + 1 \in T
    PROVE  Nat \subseteq T
<1> SUFFICES ASSUME Nat \ T # {} PROVE FALSE
  OBVIOUS
<1>1. PICK m \in Nat \ T : \A n \in Nat \ T : m <= n
  BY LeastNumber
<1>2. m # 0 /\ m - 1 \in Nat /\ m - 1 \in T
  BY <1>1
<1> QED
  BY <1>1, <1>2

(* A nonempty set of numbers up to a bound has a greatest one.             *)
LEMMA GreatestNumber ==
    ASSUME NEW L \in Nat, NEW T \in SUBSET (1..L), T # {}
    PROVE  \E m \in T : \A n \in T : m >= n
<1> DEFINE D == {L - n : n \in T}
<1>1. PICK d \in D : \A e \in D : d <= e
  <2>1. \A n \in T : L - n \in Nat
    OBVIOUS
  <2>2. D \in SUBSET Nat /\ D # {}
    BY <2>1
  <2> HIDE DEF D
  <2> QED
    BY <2>2, LeastNumber
<1> QED
  BY <1>1

-------------------------------------------------------------------------------
(* The recursive function in FlattenSeq, up to n.                          *)
Joins(f, s, n) ==
    f = [i \in 1..n |-> IF i = 1 THEN s[i] ELSE f[i - 1] \o s[i]]

LEMMA JoinExists ==
    ASSUME NEW s, NEW n \in Nat
    PROVE  \E f : Joins(f, s, n)
<1> DEFINE T == {k \in Nat : \E f : Joins(f, s, k)}
<1>1. 0 \in T
  <2>1. Joins([i \in 1..0 |-> s[i]], s, 0)
    BY DEF Joins
  <2> QED
    BY <2>1
<1>2. ASSUME NEW k \in Nat, k \in T PROVE k + 1 \in T
  <2>1. PICK f : Joins(f, s, k)
    BY <1>2
  <2> DEFINE g == [i \in 1..(k + 1) |-> IF i <= k THEN f[i]
                                         ELSE IF i = 1 THEN s[i] ELSE f[i - 1] \o s[i]]
  <2>2. ASSUME NEW i \in 1..(k + 1)
        PROVE  g[i] = IF i = 1 THEN s[i] ELSE g[i - 1] \o s[i]
    <3>1. CASE i <= k
      <4>1. i \in 1..k /\ (i # 1 => i - 1 \in 1..k)
        BY <3>1
      <4>2. f[i] = IF i = 1 THEN s[i] ELSE f[i - 1] \o s[i]
        BY <2>1, <4>1 DEF Joins
      <4> QED
        BY <4>1, <4>2
    <3>2. CASE i = k + 1
      BY <3>2
    <3> QED
      BY <3>1, <3>2
  <2>3. g = [i \in 1..(k + 1) |-> IF i = 1 THEN s[i] ELSE g[i - 1] \o s[i]]
    <3> DEFINE h == [i \in 1..(k + 1) |-> IF i = 1 THEN s[i] ELSE g[i - 1] \o s[i]]
    <3>1. /\ g = [i \in 1..(k + 1) |-> g[i]]
          /\ \A i \in 1..(k + 1) : h[i] = IF i = 1 THEN s[i] ELSE g[i - 1] \o s[i]
      OBVIOUS
    <3>2. h = [i \in 1..(k + 1) |-> h[i]]
      OBVIOUS
    <3> HIDE DEF g, h
    <3>3. \A i \in 1..(k + 1) : g[i] = h[i]
      BY <2>2, <3>1
    <3>4. g = h
      BY <3>1, <3>2, <3>3
    <3> QED
      BY <3>4 DEF h
  <2> HIDE DEF g
  <2>4. Joins(g, s, k + 1)
    BY <2>3 DEF Joins
  <2> QED
    BY <2>4
<1>3. Nat \subseteq T
  <2> HIDE DEF T
  <2> QED
    BY <1>1, <1>2, SetInduction
<1> QED
  BY <1>3

LEMMA JoinUnique ==
    ASSUME NEW s, NEW t, NEW m \in Nat, NEW n \in Nat, NEW f, NEW g,
           Joins(f, s, m), Joins(g, t, n), NEW k \in Nat, 1 <= k, k <= m, k <= n,
           \A i \in 1..k : s[i] = t[i]
    PROVE  f[k] = g[k]
<1> DEFINE T == {i \in Nat : i \in 1..k => f[i] = g[i]}
<1>1. 0 \in T
  OBVIOUS
<1>2. ASSUME NEW i \in Nat, i \in T PROVE i + 1 \in T
  <2> SUFFICES ASSUME i + 1 \in 1..k PROVE f[i + 1] = g[i + 1]
    OBVIOUS
  <2>1. /\ f[i + 1] = IF i + 1 = 1 THEN s[i + 1] ELSE f[(i + 1) - 1] \o s[i + 1]
        /\ g[i + 1] = IF i + 1 = 1 THEN t[i + 1] ELSE g[(i + 1) - 1] \o t[i + 1]
    <3>1. i + 1 \in 1..m /\ i + 1 \in 1..n
      OBVIOUS
    <3> QED
      BY <3>1 DEF Joins
  <2>2. (i + 1) - 1 = i /\ s[i + 1] = t[i + 1] /\ (i + 1 # 1 => f[i] = g[i])
    BY <1>2
  <2> QED
    BY <2>1, <2>2
<1>3. Nat \subseteq T
  <2> HIDE DEF T
  <2> QED
    BY <1>1, <1>2, SetInduction
<1> QED
  BY <1>3

LEMMA FlattenJoins ==
    ASSUME NEW S, NEW s \in Seq(S), s # <<>>
    PROVE  /\ Len(s) \in Nat \ {0}
           /\ \E f : Joins(f, s, Len(s)) /\ FlattenSeq(s) = f[Len(s)]
<1>1. Len(s) \in Nat \ {0}
  BY EmptySeq
<1> DEFINE flatten == CHOOSE f : Joins(f, s, Len(s))
<1>2. Joins(flatten, s, Len(s))
  BY <1>1, JoinExists
<1>3. FlattenSeq(s) = flatten[Len(s)]
  BY <1>1 DEF FlattenSeq, Joins
<1> QED
  BY <1>1, <1>2, <1>3

LEMMA FlattenAppend ==
    ASSUME NEW S, NEW s \in Seq(S), s # <<>>, NEW x \in S
    PROVE  FlattenSeq(Append(s, x)) = FlattenSeq(s) \o x
<1> DEFINE t == Append(s, x)
           m == Len(s)
<1>1. /\ t \in Seq(S) /\ Len(t) = m + 1 /\ t # <<>> /\ m \in Nat \ {0}
      /\ t[m + 1] = x /\ \A i \in 1..m : s[i] = t[i]
  BY AppendProperties, EmptySeq
<1> HIDE DEF t, m
<1>2. PICK f : Joins(f, s, m) /\ FlattenSeq(s) = f[m]
  BY FlattenJoins DEF m
<1>3. PICK g : Joins(g, t, m + 1) /\ FlattenSeq(t) = g[m + 1]
  BY <1>1, FlattenJoins
<1>4. f[m] = g[m]
  <2>1. m + 1 \in Nat /\ 1 <= m /\ m <= m + 1
    BY <1>1
  <2> QED
    BY <1>1, <1>2, <1>3, <2>1, JoinUnique
<1>5. g[m + 1] = g[m] \o x
  <2>1. m + 1 \in 1..(m + 1) /\ m + 1 # 1 /\ (m + 1) - 1 = m
    BY <1>1
  <2> QED
    BY <1>1, <1>3, <2>1 DEF Joins
<1> QED
  BY <1>2, <1>3, <1>4, <1>5 DEF t

(* Texts joined are a text, and one more text comes at the end of it.      *)
LEMMA FlattenTexts ==
    ASSUME NEW s \in Seq(Texts)
    PROVE  FlattenSeq(s) \in Texts
<1>1. CASE s = <<>>
  BY <1>1, EmptySeq DEF FlattenSeq, Texts
<1>2. CASE s # <<>>
  <2> DEFINE m == Len(s)
  <2>1. m \in Nat \ {0} /\ \A i \in 1..m : s[i] \in Texts
    BY <1>2, EmptySeq, ElementOfSeq
  <2>2. PICK f : Joins(f, s, m) /\ FlattenSeq(s) = f[m]
    BY <1>2, FlattenJoins
  <2> HIDE DEF m
  <2> DEFINE T == {i \in Nat : i \in 1..m => f[i] \in Texts}
  <2>3. 0 \in T
    OBVIOUS
  <2>4. ASSUME NEW i \in Nat, i \in T PROVE i + 1 \in T
    <3> SUFFICES ASSUME i + 1 \in 1..m PROVE f[i + 1] \in Texts
      OBVIOUS
    <3>1. f[i + 1] = IF i + 1 = 1 THEN s[i + 1] ELSE f[(i + 1) - 1] \o s[i + 1]
      BY <2>2 DEF Joins
    <3>2. (i + 1) - 1 = i /\ s[i + 1] \in Texts /\ (i + 1 # 1 => f[i] \in Texts)
      BY <2>1, <2>4
    <3> QED
      BY <3>1, <3>2, ConcatProperties DEF Texts
  <2>5. Nat \subseteq T
    <3> HIDE DEF T
    <3> QED
      BY <2>3, <2>4, SetInduction
  <2> QED
    BY <2>1, <2>2, <2>5
<1> QED
  BY <1>1, <1>2

LEMMA FlattenOneMore ==
    ASSUME NEW s \in Seq(Texts), NEW x \in Texts
    PROVE  FlattenSeq(Append(s, x)) = FlattenSeq(s) \o x
<1>1. CASE s = <<>>
  <2>1. FlattenSeq(s) = <<>>
    BY <1>1, EmptySeq DEF FlattenSeq
  <2> DEFINE t == Append(s, x)
  <2>2. t \in Seq(Texts) /\ Len(t) = 1 /\ t # <<>> /\ t[1] = x
    BY <1>1, AppendProperties, EmptySeq
  <2> HIDE DEF t
  <2>3. PICK g : Joins(g, t, 1) /\ FlattenSeq(t) = g[1]
    BY <2>2, FlattenJoins
  <2>4. g[1] = x
    BY <2>2, <2>3 DEF Joins
  <2>5. <<>> \o x = x
    BY ConcatEmptySeq DEF Texts
  <2> QED
    BY <2>1, <2>3, <2>4, <2>5 DEF t
<1>2. CASE s # <<>>
  BY <1>2, FlattenAppend
<1> QED
  BY <1>1, <1>2

(* What is left of a text without the blanks at its ends is a text.        *)
LEMMA StripTexts ==
    ASSUME NEW text \in Texts
    PROVE  Strip(text) \in Texts
<1> DEFINE ink == {i \in DOMAIN text : text[i] # Blank}
<1>1. /\ DOMAIN text = 1..Len(text) /\ Len(text) \in Nat
      /\ \A i \in 1..Len(text) : text[i] \in Nat
  BY LenProperties, ElementOfSeq DEF Texts
<1>2. CASE ink = {}
  BY <1>2, EmptySeq DEF Strip, Texts
<1>3. CASE ink # {}
  <2>1. ink \in SUBSET (1..Len(text)) /\ ink \in SUBSET Nat
    BY <1>1
  <2>2. Strip(text) = SubSeq(text, Min(ink), Max(ink))
    BY <1>3 DEF Strip
  <2> HIDE DEF ink
  <2>3. Min(ink) \in ink
    BY <1>3, <2>1, LeastNumber DEF Min
  <2>4. Max(ink) \in ink
    BY <1>1, <1>3, <2>1, GreatestNumber DEF Max
  <2>5. ASSUME NEW low \in ink, NEW high \in ink
        PROVE  SubSeq(text, low, high) \in Seq(Nat)
    <3>1. low \in 1..Len(text) /\ high \in 1..Len(text)
      BY <2>1
    <3>2. low \in Int /\ high \in Int /\ \A i \in low..high : text[i] \in Nat
      BY <1>1, <3>1
    <3> QED
      BY <3>2, SubSeqProperties
  <2> QED
    BY <2>2, <2>3, <2>4, <2>5 DEF Texts
<1> QED
  BY <1>2, <1>3

-------------------------------------------------------------------------------
(* What was sent, as operators of the sequence of events.                  *)
SentIn(s, kinds) == {i \in DOMAIN s : s[i].kind \in kinds}

Piece(entry, b) ==
    IF entry.kind = "stream" /\ entry.block = b THEN entry.text ELSE <<>>

StreamedIn(s, b) == FlattenSeq([i \in DOMAIN s |-> Piece(s[i], b)])

Artifact(s) ==
    \A i \in SentIn(s, {"stream", "final"}) :
       s[i].append <=> \E j \in SentIn(s, {"stream", "final"}) : j < i

(* The output of an execution whose final status is not sent yet.          *)
Growing(o) ==
    /\ o \in Out
    /\ Artifact(o.sent)
    /\ o.emitted <=> SentIn(o.sent, {"stream"}) # {}
    /\ SentIn(o.sent, {"final"}) = {}
    /\ \A b \in {"text", "reasoning"} : StreamedIn(o.sent, b) = o.buffers[b]

Chunks == {c \in [block : Blocks, role : {"agent", "user", "none"}, text : Texts,
                  accumulate : BOOLEAN] : c.accumulate = (c.block # "tool")}

LEMMA SentOneMore ==
    ASSUME NEW s \in Seq(Entry), NEW entry \in Entry
    PROVE  /\ Append(s, entry) \in Seq(Entry)
           /\ \A kinds : SentIn(Append(s, entry), kinds)
                 = SentIn(s, kinds) \cup (IF entry.kind \in kinds THEN {Len(s) + 1}
                                                                 ELSE {})
           /\ \A b : StreamedIn(Append(s, entry), b) = StreamedIn(s, b) \o Piece(entry, b)
<1> DEFINE t == Append(s, entry)
           n == Len(s)
<1>1. /\ t \in Seq(Entry) /\ n \in Nat /\ DOMAIN s = 1..n /\ DOMAIN t = 1..(n + 1)
      /\ t[n + 1] = entry /\ \A i \in 1..n : t[i] = s[i] /\ s[i] \in Entry
  BY AppendProperties, LenProperties, ElementOfSeq
<1> HIDE DEF t, n
<1>2. ASSUME NEW kinds
      PROVE  SentIn(t, kinds)
                = SentIn(s, kinds) \cup (IF entry.kind \in kinds THEN {n + 1} ELSE {})
  BY <1>1 DEF SentIn
<1>3. ASSUME NEW b
      PROVE  StreamedIn(t, b) = StreamedIn(s, b) \o Piece(entry, b)
  <2> DEFINE p == [i \in DOMAIN s |-> Piece(s[i], b)]
             q == [i \in DOMAIN t |-> Piece(t[i], b)]
             x == Piece(entry, b)
  <2>1. \A e \in Entry : Piece(e, b) \in Texts
    BY EmptySeq DEF Piece, Entry, Texts
  <2>2. x \in Texts
    BY <2>1
  <2>3. p \in Seq(Texts) /\ Len(p) = n
    BY <1>1, <2>1
  <2>4. q \in Seq(Texts) /\ Len(q) = n + 1
    BY <1>1, <2>1
  <2>5. \A i \in 1..(n + 1) : q[i] = IF i <= n THEN p[i] ELSE x
    BY <1>1
  <2> HIDE DEF p, q, x
  <2>6. q = Append(p, x)
    <3>1. /\ Append(p, x) \in Seq(Texts) /\ Len(Append(p, x)) = n + 1
          /\ \A i \in 1..(n + 1) : Append(p, x)[i] = IF i <= n THEN p[i] ELSE x
      BY <1>1, <2>2, <2>3, AppendProperties
    <3> QED
      BY <2>4, <2>5, <3>1, SeqEqual
  <2> QED
    BY <2>2, <2>3, <2>6, FlattenOneMore DEF p, q, x, StreamedIn
<1> QED
  BY <1>1, <1>2, <1>3 DEF t, n

LEMMA ArtifactGrows ==
    ASSUME NEW s \in Seq(Entry), NEW entry \in Entry, Artifact(s),
           entry.kind \in {"stream", "final"}
              => (entry.append <=> SentIn(s, {"stream", "final"}) # {})
    PROVE  Artifact(Append(s, entry))
<1> DEFINE t == Append(s, entry)
           n == Len(s)
           old == SentIn(s, {"stream", "final"})
           new == SentIn(t, {"stream", "final"})
<1>1. /\ n \in Nat /\ old \subseteq 1..n
      /\ t[n + 1] = entry /\ \A i \in 1..n : t[i] = s[i]
  BY AppendProperties, LenProperties DEF SentIn
<1>2. new = old \cup (IF entry.kind \in {"stream", "final"} THEN {n + 1} ELSE {})
  BY SentOneMore
<1>3. \A i \in old : s[i].append <=> \E j \in old : j < i
  BY DEF Artifact
<1> HIDE DEF t, n, old, new
<1>4. ASSUME NEW i \in new PROVE t[i].append <=> \E j \in new : j < i
  <2>1. CASE i \in old
    <3>1. t[i] = s[i] /\ \A j \in new : j < i => j \in old
      BY <1>1, <1>2, <2>1
    <3> QED
      BY <1>2, <1>3, <2>1, <3>1
  <2>2. CASE i \notin old
    <3>1. i = n + 1 /\ entry.kind \in {"stream", "final"} /\ t[i] = entry
      BY <1>1, <1>2, <2>2
    <3>2. \A j \in new : j < i <=> j \in old
      BY <1>1, <1>2, <3>1
    <3>3. (\E j \in new : j < i) <=> old # {}
      BY <1>2, <3>2
    <3> QED
      BY <3>1, <3>3 DEF old
  <2> QED
    BY <2>1, <2>2
<1> QED
  BY <1>4 DEF t, new, Artifact

(* A chunk that changes its buffer is streamed, and nothing else is.       *)
LEMMA RegisterGrows ==
    ASSUME NEW o, Growing(o), NEW chunk \in Chunks
    PROVE  Growing(Register(o, chunk))
<1> DEFINE next == IF chunk.accumulate THEN o.buffers[chunk.block] \o chunk.text
                                      ELSE chunk.text
           entry == [kind |-> "stream", block |-> chunk.block,
                     text |-> chunk.text, append |-> o.emitted]
           more == Append(o.sent, entry)
           grown == [o EXCEPT !.buffers[chunk.block] = next, !.saw = TRUE,
                              !.emitted = TRUE, !.sent = more]
<1>1. CASE next = o.buffers[chunk.block]
  <2>1. Register(o, chunk) = o
    BY <1>1 DEF Register
  <2> QED
    BY <2>1
<1>2. CASE next # o.buffers[chunk.block]
  <2>1. Register(o, chunk) = grown
    BY <1>2 DEF Register
  <2>2. o \in Out /\ chunk.block \in Blocks /\ chunk.text \in Texts
    BY DEF Growing, Chunks
  <2>3. /\ o.buffers \in [Blocks -> Texts] /\ o.emitted \in BOOLEAN
        /\ o.sent \in Seq(Entry)
    BY <2>2 DEF Out
  <2>4. next \in Texts
    BY <2>2, <2>3, ConcatProperties DEF Texts
  <2>5. entry \in Entry
    BY <2>2, <2>3 DEF Entry
  <2> HIDE DEF next
  <2>6. /\ more \in Seq(Entry)
        /\ SentIn(more, {"stream"}) # {}
        /\ SentIn(more, {"final"}) = SentIn(o.sent, {"final"})
        /\ \A b : StreamedIn(more, b) = StreamedIn(o.sent, b) \o Piece(entry, b)
    <3>0. entry.kind = "stream"
      OBVIOUS
    <3> HIDE DEF entry
    <3>1. Len(o.sent) + 1 \in SentIn(more, {"stream"})
      BY <2>3, <2>5, <3>0, SentOneMore
    <3>2. SentIn(more, {"final"}) = SentIn(o.sent, {"final"})
      <4>1. SentIn(more, {"final"})
               = SentIn(o.sent, {"final"})
                    \cup (IF entry.kind \in {"final"} THEN {Len(o.sent) + 1} ELSE {})
        BY <2>3, <2>5, SentOneMore
      <4>2. entry.kind \notin {"final"}
        BY <3>0
      <4> QED
        BY <4>1, <4>2
    <3>3. more \in Seq(Entry)
      BY <2>3, <2>5, SentOneMore
    <3>4. \A b : StreamedIn(more, b) = StreamedIn(o.sent, b) \o Piece(entry, b)
      BY <2>3, <2>5, SentOneMore
    <3> QED
      BY <3>1, <3>2, <3>3, <3>4
  <2>7. Artifact(more)
    <3>1. SentIn(o.sent, {"stream", "final"}) # {} <=> SentIn(o.sent, {"stream"}) # {}
      BY DEF Growing, SentIn
    <3>2. entry.append <=> SentIn(o.sent, {"stream", "final"}) # {}
      BY <3>1 DEF Growing
    <3>3. Artifact(o.sent)
      BY DEF Growing
    <3> HIDE DEF entry
    <3> QED
      BY <2>3, <2>5, <3>2, <3>3, ArtifactGrows
  <2>8. /\ grown \in Out /\ grown.sent = more /\ grown.emitted = TRUE
        /\ \A b \in Blocks : grown.buffers[b] = IF b = chunk.block THEN next
                                                              ELSE o.buffers[b]
    <3> HIDE DEF entry
    <3>1. more \in Seq(Entry)
      BY <2>6
    <3> HIDE DEF more
    <3> QED
      BY <2>2, <2>4, <3>1 DEF Out
  <2>9. ASSUME NEW b \in {"text", "reasoning"}
        PROVE  StreamedIn(more, b) = grown.buffers[b]
    <3>1. b \in Blocks /\ StreamedIn(o.sent, b) = o.buffers[b] /\ o.buffers[b] \in Texts
      BY <2>3 DEF Growing, Blocks
    <3>2. StreamedIn(more, b) = o.buffers[b] \o Piece(entry, b)
      BY <2>6, <3>1
    <3>3. CASE b = chunk.block
      <4>1. next = o.buffers[b] \o chunk.text
        BY <3>3 DEF Chunks, next
      <4>2. Piece(entry, b) = chunk.text
        BY <3>3 DEF Piece
      <4> QED
        BY <2>8, <3>1, <3>2, <3>3, <4>1, <4>2
    <3>4. CASE b # chunk.block
      <4>1. Piece(entry, b) = <<>>
        BY <3>4 DEF Piece
      <4>2. o.buffers[b] \o <<>> = o.buffers[b]
        BY <3>1, ConcatEmptySeq DEF Texts
      <4> QED
        BY <2>8, <3>1, <3>2, <3>4, <4>1, <4>2
    <3> QED
      BY <3>3, <3>4
  <2> HIDE DEF grown, more, entry
  <2> QED
    BY <2>1, <2>6, <2>7, <2>8, <2>9 DEF Growing
<1> QED
  BY <1>1, <1>2

LEMMA EmitGrows ==
    ASSUME NEW o, Growing(o), NEW chunk \in Chunks
    PROVE  Growing(EmitChunk(o, chunk))
<1>1. CASE IsEcho(o, chunk)
  <2> DEFINE same == [o EXCEPT !.echoed = TRUE]
  <2>1. EmitChunk(o, chunk) = same
    BY <1>1 DEF EmitChunk
  <2>2. /\ same \in Out /\ same.sent = o.sent /\ same.buffers = o.buffers
        /\ same.emitted = o.emitted
    BY DEF Growing, Out
  <2> HIDE DEF same
  <2> QED
    BY <2>1, <2>2 DEF Growing
<1>2. CASE ~IsEcho(o, chunk)
  BY <1>2, RegisterGrows DEF EmitChunk
<1> QED
  BY <1>1, <1>2

(* The recursive function in EmitChunks, up to n.                          *)
Emits(f, chunks, n) ==
    f = [i \in 0..n |-> IF i = 0 THEN out ELSE EmitChunk(f[i - 1], chunks[i])]

LEMMA EmitsExists ==
    ASSUME NEW chunks, NEW n \in Nat
    PROVE  \E f : Emits(f, chunks, n)
<1> DEFINE T == {k \in Nat : \E f : Emits(f, chunks, k)}
<1>1. 0 \in T
  <2> DEFINE f == [i \in 0..0 |-> out]
  <2>1. f = [i \in 0..0 |-> IF i = 0 THEN out ELSE EmitChunk(f[i - 1], chunks[i])]
    OBVIOUS
  <2> HIDE DEF f
  <2>2. Emits(f, chunks, 0)
    BY <2>1 DEF Emits
  <2> QED
    BY <2>2
<1>2. ASSUME NEW k \in Nat, k \in T PROVE k + 1 \in T
  <2>1. PICK f : Emits(f, chunks, k)
    BY <1>2
  <2> DEFINE g == [i \in 0..(k + 1) |-> IF i <= k THEN f[i]
                                         ELSE EmitChunk(f[i - 1], chunks[i])]
             h == [i \in 0..(k + 1) |-> IF i = 0 THEN out
                                         ELSE EmitChunk(g[i - 1], chunks[i])]
  <2>2. /\ g = [i \in 0..(k + 1) |-> g[i]] /\ h = [i \in 0..(k + 1) |-> h[i]]
        /\ \A i \in 0..k : g[i] = f[i]
        /\ g[k + 1] = EmitChunk(f[(k + 1) - 1], chunks[k + 1])
    OBVIOUS
  <2>3. \A i \in 0..(k + 1) : h[i] = IF i = 0 THEN out ELSE EmitChunk(g[i - 1], chunks[i])
    OBVIOUS
  <2>4. \A i \in 0..k : f[i] = IF i = 0 THEN out ELSE EmitChunk(f[i - 1], chunks[i])
    BY <2>1 DEF Emits
  <2> HIDE DEF g, h
  <2>5. ASSUME NEW i \in 0..(k + 1) PROVE g[i] = h[i]
    <3>1. CASE i \in 0..k
      <4>1. i # 0 => i - 1 \in 0..k
        BY <3>1
      <4> QED
        BY <2>2, <2>3, <2>4, <3>1, <4>1
    <3>2. CASE i = k + 1
      <4>1. i - 1 \in 0..k /\ i # 0 /\ i - 1 = (k + 1) - 1
        BY <3>2
      <4> QED
        BY <2>2, <2>3, <3>2, <4>1
    <3> QED
      BY <3>1, <3>2
  <2>6. g = h
    BY <2>2, <2>5
  <2>7. Emits(g, chunks, k + 1)
    BY <2>6 DEF Emits, h
  <2> QED
    BY <2>7
<1>3. Nat \subseteq T
  <2> HIDE DEF T
  <2> QED
    BY <1>1, <1>2, SetInduction
<1> QED
  BY <1>3

LEMMA EmitsGrow ==
    ASSUME Growing(out), NEW chunks \in Seq(Chunks)
    PROVE  Growing(EmitChunks(chunks))
<1> DEFINE n == Len(chunks)
           after == CHOOSE f : Emits(f, chunks, n)
<1>1. n \in Nat /\ \A i \in 1..n : chunks[i] \in Chunks
  BY LenProperties, ElementOfSeq
<1>2. EmitChunks(chunks) = after[n]
  BY DEF EmitChunks, Emits
<1>3. Emits(after, chunks, n)
  <2> HIDE DEF n
  <2> QED
    BY <1>1, EmitsExists
<1> HIDE DEF n, after
<1>4. \A i \in 0..n :
         after[i] = IF i = 0 THEN out ELSE EmitChunk(after[i - 1], chunks[i])
  BY <1>3 DEF Emits
<1> DEFINE T == {i \in Nat : i \in 0..n => Growing(after[i])}
<1>5. 0 \in T
  BY <1>1, <1>4
<1>6. ASSUME NEW i \in Nat, i \in T PROVE i + 1 \in T
  <2> SUFFICES ASSUME i + 1 \in 0..n PROVE Growing(after[i + 1])
    OBVIOUS
  <2>1. i \in 0..n /\ i + 1 \in 1..n /\ (i + 1) - 1 = i /\ i + 1 # 0
    BY <1>1
  <2>2. after[i + 1] = EmitChunk(after[i], chunks[i + 1])
    BY <1>4, <2>1
  <2>3. Growing(after[i]) /\ chunks[i + 1] \in Chunks
    BY <1>1, <1>6, <2>1
  <2> QED
    BY <2>2, <2>3, EmitGrows
<1>7. Nat \subseteq T
  <2> HIDE DEF T
  <2> QED
    BY <1>5, <1>6, SetInduction
<1> QED
  BY <1>1, <1>2, <1>7

-------------------------------------------------------------------------------
(* Control: the signal and the outcome.                                    *)
LEMMA SignalStart ==
    StreamInit => SignalInv /\ OutcomeInv
BY DEF StreamInit, SignalInv, OutcomeInv, OutInit

(* A step of the consumer changes neither signal nor outcome.              *)
LEMMA ConsumerIsQuiet ==
    ConsumerWrites =>
       /\ UNCHANGED <<turn, idles, stream, signalVars, coordinatorVars, connected>>
       /\ missed \subseteq missed'
       /\ Reads \/ UNCHANGED consumerVars
BY DEF ConsumerWrites, UpstreamWrites, UpstreamRepeats, linkVars, Misses

LEMMA SignalStep ==
    ASSUME SignalInv, [StreamNext]_streamVars
    PROVE  SignalInv'
<1>1. CASE ConsumerWrites
  BY <1>1, ConsumerIsQuiet DEF SignalInv, signalVars, coordinatorVars
<1>2. CASE UpstreamIdles
  BY <1>2 DEF SignalInv, UpstreamIdles, Reads, Running, Misses, coordinatorVars
<1>3. ASSUME NEW final \in BOOLEAN, UpstreamErrs(final) PROVE SignalInv'
  BY <1>3 DEF SignalInv, UpstreamErrs, Reads, Running, coordinatorVars, upstreamVars
<1>4. CASE Connect \/ StreamBreaks \/ StreamCloses \/ ConsumerStops
  BY <1>4 DEF SignalInv, Connect, StreamBreaks, StreamCloses, ConsumerStops,
              upstreamVars, signalVars, coordinatorVars
<1>5. CASE SendReturns
  BY <1>5 DEF SignalInv, SendReturns, signalVars
<1>6. CASE CoordinatorWrites
  BY <1>6 DEF SignalInv, CoordinatorWrites, SendFails, StreamEndedFirst, EndsInError,
              Completes, Fail, upstreamVars, signalVars
<1>7. CASE Cancel \/ Cleanup
  BY <1>7 DEF SignalInv, Cancel, Cleanup, upstreamVars
<1>8. CASE UNCHANGED streamVars
  BY <1>8 DEF SignalInv, streamVars, upstreamVars, signalVars, coordinatorVars
<1> QED
  BY <1>1, <1>2, <1>3, <1>4, <1>5, <1>6, <1>7, <1>8
     DEF StreamNext, Upstream, Coordinator, ConsumerWrites, CoordinatorWrites

LEMMA OutcomeStep ==
    ASSUME SignalInv, OutcomeInv, [StreamNext]_streamVars
    PROVE  OutcomeInv'
<1>1. CASE ConsumerWrites
  BY <1>1, ConsumerIsQuiet DEF OutcomeInv, signalVars, coordinatorVars
<1>2. CASE UpstreamIdles
  BY <1>2 DEF OutcomeInv, UpstreamIdles, SignalInv, Reads, Running, coordinatorVars
<1>3. ASSUME NEW final \in BOOLEAN, UpstreamErrs(final) PROVE OutcomeInv'
  BY <1>3 DEF OutcomeInv, UpstreamErrs, SignalInv, Reads, Running, coordinatorVars
<1>4. CASE Connect \/ StreamBreaks \/ StreamCloses \/ ConsumerStops
  BY <1>4 DEF OutcomeInv, Connect, StreamBreaks, StreamCloses, ConsumerStops,
              signalVars, coordinatorVars
<1>5. CASE SendReturns
  BY <1>5 DEF OutcomeInv, SendReturns, signalVars
<1>6. CASE CoordinatorWrites
  <2>1. CASE SendFails \/ StreamEndedFirst \/ EndsInError
    BY <2>1 DEF OutcomeInv, SendFails, StreamEndedFirst, EndsInError, Fail
  <2>2. CASE Completes
    <3>1. /\ UNCHANGED <<signal, erred>>
          /\ signal = "completed" /\ ~erred /\ pc' = "cleanup"
      BY <2>2 DEF Completes, UpstreamFailed, signalVars
    <3> QED
      BY <3>1, Zenon DEF OutcomeInv
  <2> QED
    BY <1>6, <2>1, <2>2 DEF CoordinatorWrites
<1>7. CASE Cancel \/ Cleanup
  BY <1>7 DEF OutcomeInv, Cancel, Cleanup
<1>8. CASE UNCHANGED streamVars
  BY <1>8 DEF OutcomeInv, streamVars, signalVars, coordinatorVars
<1> QED
  BY <1>1, <1>2, <1>3, <1>4, <1>5, <1>6, <1>7, <1>8
     DEF StreamNext, Upstream, Coordinator, ConsumerWrites, CoordinatorWrites

LEMMA ControlHolds == StreamSpec => [](SignalInv /\ OutcomeInv)
<1>1. SignalInv /\ OutcomeInv /\ [StreamNext]_streamVars => (SignalInv /\ OutcomeInv)'
  BY SignalStep, OutcomeStep
<1> QED
  BY <1>1, SignalStart, PTL DEF StreamSpec

(* The coordinator never waits for a terminal signal that will not come:   *)
(* as long as the consumer runs, session.idle is still to be published or  *)
(* it was lost while the event stream was down.                            *)
THEOREM SignalComes == StreamSpec => []SignalIsToCome
<1>1. SignalInv => SignalIsToCome
  BY DEF SignalInv, SignalIsToCome
<1> QED
  BY <1>1, ControlHolds, PTL

(* Once an execution is completed, neither what was sent nor what was asked *)
(* for changes any more.                                                   *)
LEMMA CompletedStill ==
    ASSUME SignalInv, OutcomeInv, [StreamNext]_streamVars, outcome = "completed"
    PROVE  UNCHANGED <<out, cast, turn, outcome>>
<1>1. stopped /\ pc \in {"cleanup", "done"}
  BY DEF SignalInv, OutcomeInv
<1>2. CASE ConsumerWrites
  BY <1>1, <1>2, ConsumerIsQuiet
     DEF Reads, Running, consumerVars, coordinatorVars, ConsumerWrites, UpstreamWrites,
         UpstreamRepeats
<1>3. CASE ~ConsumerWrites /\ StreamNext
  BY <1>1, <1>3
     DEF StreamNext, Upstream, Coordinator, ConsumerWrites, UpstreamIdles,
         UpstreamErrs, Connect, StreamBreaks, StreamCloses, ConsumerStops, SendReturns,
         SendFails, StreamEndedFirst, EndsInError, Completes, Cancel, Cleanup,
         consumerVars, coordinatorVars, upstreamVars
<1>4. CASE UNCHANGED streamVars
  BY <1>4 DEF streamVars, consumerVars, coordinatorVars, upstreamVars
<1> QED
  BY <1>2, <1>3, <1>4

(* Once a task has its final status "completed", the consumer, which may   *)
(* still be connected, sends nothing any more.                             *)
THEOREM CompletedStaysLast == StreamSpec => CompletedIsLast
<1>1. SignalInv /\ OutcomeInv /\ [StreamNext]_streamVars
         => [outcome = "completed" => UNCHANGED out]_streamVars
  BY CompletedStill
<1> QED
  BY <1>1, ControlHolds, PTL DEF StreamSpec, CompletedIsLast

-------------------------------------------------------------------------------
(* Types, and the artifact.                                                *)

(* What upstream will publish is fixed at the start: only a text or a      *)
(* reasoning is published by deltas.                                       *)
ScriptInv ==
    /\ turns \in Nat /\ cast \subseteq Parts
    /\ \A p \in Parts : style[p] # "snapshot" => BlockOf[p] \in {"text", "reasoning"}

(* Until the final status is sent the artifact grows with the buffers;     *)
(* then it is complete.                                                    *)
DeliveryInv ==
    /\ outcome # "completed" => Growing(out)
    /\ Artifact(out.sent)
    /\ CompletedHasResponse /\ SnapshotIsOnce

LEMMA SentIs ==
    /\ \A kinds : Sent(kinds) = SentIn(out.sent, kinds)
    /\ \A kinds : Sent(kinds)' = SentIn(out'.sent, kinds)
BY DEF Sent, SentIn

LEMMA StreamedIs ==
    /\ \A b : Streamed(b) = StreamedIn(out.sent, b)
    /\ \A b : Streamed(b)' = StreamedIn(out'.sent, b)
<1>1. ASSUME NEW s, NEW b
      PROVE  [i \in DOMAIN s |-> IF i \in SentIn(s, {"stream"}) /\ s[i].block = b
                                 THEN s[i].text ELSE <<>>]
             = [i \in DOMAIN s |-> Piece(s[i], b)]
  BY DEF Piece, SentIn
<1>2. ASSUME NEW b PROVE Streamed(b) = StreamedIn(out.sent, b)
  BY <1>1, SentIs DEF Streamed, StreamedIn
<1>3. ASSUME NEW b PROVE Streamed(b)' = StreamedIn(out'.sent, b)
  BY <1>1, SentIs DEF Streamed, StreamedIn
<1> QED
  BY <1>2, <1>3

LEMMA ShownTexts ==
    ASSUME NEW p \in Parts, written'[p] \in 0..Len(ChunksOf[p])
    PROVE  Shown(p) \in Texts
<1> DEFINE chunks == ChunksOf[p]
           w == written'[p]
<1>1. /\ chunks \in Seq(Texts) /\ Len(chunks) \in Nat
      /\ \A i \in 1..Len(chunks) : chunks[i] \in Texts
  BY PartsAssumption, LenProperties, ElementOfSeq
<1>2. w \in Nat /\ w <= Len(chunks)
  BY <1>1
<1>3. SubSeq(chunks, 1, w) \in Seq(Texts)
  <2> HIDE DEF chunks, w
  <2>1. w \in Int /\ 1 \in Int /\ \A i \in 1..w : chunks[i] \in Texts
    BY <1>1, <1>2
  <2> QED
    BY <2>1, SubSeqProperties
<1>4. FlattenSeq(SubSeq(chunks, 1, w)) \in Texts
  BY <1>3, FlattenTexts
<1>5. w # 0 => chunks[w] \in Texts
  BY <1>1, <1>2
<1> QED
  BY <1>4, <1>5, EmptySeq DEF Shown, Texts

LEMMA ChunkTyped ==
    ASSUME NEW p \in Parts, BlockOf[p] # "step", NEW text \in Texts
    PROVE  Chunk(p, text) \in Chunks
BY PartsAssumption DEF Chunk, Chunks

LEMMA SnapshotTyped ==
    ASSUME NEW buffer \in Texts, NEW snapshot \in Texts
    PROVE  SnapshotChunks(buffer, snapshot) \in Seq(Texts)
<1> DEFINE rest == SubSeq(snapshot, Len(buffer) + 1, Len(snapshot))
<1>1. /\ Len(buffer) + 1 \in Int /\ Len(snapshot) \in Int
      /\ \A i \in (Len(buffer) + 1)..Len(snapshot) : snapshot[i] \in Nat
  BY LenProperties, ElementOfSeq DEF Texts
<1>2. rest \in Texts
  BY <1>1, SubSeqProperties DEF Texts
<1> HIDE DEF rest
<1>3. <<rest>> \in Seq(Texts) /\ <<>> \in Seq(Texts)
  BY <1>2
<1> QED
  BY <1>3 DEF SnapshotChunks, rest

(* The consumer keeps its types, and what it sends belongs to the artifact. *)
ConsumerTyped ==
    /\ state \in [Parts -> Texts \cup {None}]
    /\ pending \in [Parts -> Seq(Texts)]

LEMMA DeltaGrows ==
    ASSUME ConsumerTyped, Growing(out), NEW p \in Parts, NEW delta \in Texts,
           BlockOf[p] # "step", ConsumeDelta(p, delta)
    PROVE  ConsumerTyped' /\ Growing(out)'
<1>1. CASE state[p] = None
  <2>1. pending[p] \in Seq(Texts) /\ Append(pending[p], delta) \in Seq(Texts)
    BY AppendProperties DEF ConsumerTyped
  <2>2. /\ pending' = [pending EXCEPT ![p] = Append(pending[p], delta)]
        /\ UNCHANGED <<state, out>>
    BY <1>1 DEF ConsumeDelta
  <2> QED
    BY <2>1, <2>2 DEF ConsumerTyped
<1>2. CASE state[p] # None /\ RoleOf[p] = "user"
  BY <1>2 DEF ConsumeDelta, ConsumerTyped, consumerVars
<1>3. CASE state[p] # None /\ RoleOf[p] # "user"
  <2>1. /\ state' = [state EXCEPT ![p] = state[p] \o delta]
        /\ out' = EmitChunks(<<Chunk(p, delta)>>) /\ pending' = pending
    BY <1>3 DEF ConsumeDelta
  <2>2. state[p] \o delta \in Texts
    BY <1>3, ConcatProperties DEF ConsumerTyped, Texts
  <2>3. ConsumerTyped'
    BY <2>1, <2>2 DEF ConsumerTyped
  <2>4. <<Chunk(p, delta)>> \in Seq(Chunks)
    BY ChunkTyped
  <2>5. Growing(EmitChunks(<<Chunk(p, delta)>>))
    BY <2>4, EmitsGrow
  <2> QED
    BY <2>1, <2>3, <2>5
<1> QED
  BY <1>1, <1>2, <1>3

LEMMA StreamedTexts ==
    ASSUME NEW s \in Seq(Entry), NEW b
    PROVE  StreamedIn(s, b) \in Texts
<1> DEFINE p == [i \in DOMAIN s |-> Piece(s[i], b)]
<1>1. DOMAIN s = 1..Len(s) /\ Len(s) \in Nat /\ \A i \in 1..Len(s) : s[i] \in Entry
  BY LenProperties, ElementOfSeq
<1>2. \A e \in Entry : Piece(e, b) \in Texts
  BY EmptySeq DEF Piece, Entry, Texts
<1>3. p \in Seq(Texts)
  BY <1>1, <1>2
<1> QED
  BY <1>3, FlattenTexts DEF StreamedIn

(* An event that carries no part of the artifact leaves it as it is.       *)
LEMMA SilentEntry ==
    ASSUME NEW s \in Seq(Entry), NEW entry \in Entry,
           entry.kind \notin {"stream", "final"}
    PROVE  /\ Append(s, entry) \in Seq(Entry)
           /\ \A kinds \in SUBSET {"stream", "final"} :
                 SentIn(Append(s, entry), kinds) = SentIn(s, kinds)
           /\ \A b : StreamedIn(Append(s, entry), b) = StreamedIn(s, b)
           /\ Artifact(s) => Artifact(Append(s, entry))
<1>1. ASSUME NEW kinds \in SUBSET {"stream", "final"}
      PROVE  SentIn(Append(s, entry), kinds) = SentIn(s, kinds)
  <2>1. entry.kind \notin kinds
    OBVIOUS
  <2>2. SentIn(Append(s, entry), kinds)
           = SentIn(s, kinds) \cup (IF entry.kind \in kinds THEN {Len(s) + 1} ELSE {})
    BY SentOneMore
  <2> QED
    BY <2>1, <2>2
<1>2. ASSUME NEW b PROVE StreamedIn(Append(s, entry), b) = StreamedIn(s, b)
  <2>1. Piece(entry, b) = <<>>
    BY DEF Piece
  <2>2. StreamedIn(Append(s, entry), b) = StreamedIn(s, b) \o <<>>
    BY <2>1, SentOneMore
  <2> QED
    BY <2>2, StreamedTexts, ConcatEmptySeq DEF Texts
<1>3. Append(s, entry) \in Seq(Entry)
  BY SentOneMore
<1>4. Artifact(s) => Artifact(Append(s, entry))
  BY ArtifactGrows
<1> QED
  BY <1>1, <1>2, <1>3, <1>4

LEMMA SilentGrows ==
    ASSUME NEW o, Growing(o), NEW o2 \in Out, NEW entry \in Entry,
           entry.kind \notin {"stream", "final"},
           o2.buffers = o.buffers, o2.emitted = o.emitted,
           o2.sent = Append(o.sent, entry)
    PROVE  Growing(o2)
<1>1. o.sent \in Seq(Entry)
  BY DEF Growing, Out
<1>2. /\ SentIn(o2.sent, {"stream"}) = SentIn(o.sent, {"stream"})
      /\ SentIn(o2.sent, {"final"}) = SentIn(o.sent, {"final"})
      /\ \A b : StreamedIn(o2.sent, b) = StreamedIn(o.sent, b)
      /\ Artifact(o.sent) => Artifact(o2.sent)
  BY <1>1, SilentEntry
<1> QED
  BY <1>2 DEF Growing

LEMMA ProgressGrows ==
    ASSUME Growing(out), NEW p \in Parts, Shown(p) \in Texts
    PROVE  Growing(Progress(p))
<1> DEFINE entry == [kind |-> "progress", block |-> "step", text |-> Shown(p),
                     append |-> TRUE]
           told == [out EXCEPT !.progress[p] = Shown(p), !.sent = Append(@, entry)]
<1>1. CASE out.progress[p] = Shown(p)
  BY <1>1 DEF Progress
<1>2. CASE out.progress[p] # Shown(p)
  <2>1. Progress(p) = told
    BY <1>2 DEF Progress
  <2>2. entry \in Entry /\ entry.kind = "progress"
    BY DEF Entry
  <2> HIDE DEF entry
  <2>3. out \in Out /\ out.sent \in Seq(Entry)
    BY DEF Growing, Out
  <2>4. Append(out.sent, entry) \in Seq(Entry)
    BY <2>2, <2>3, SilentEntry
  <2>5. /\ told \in Out /\ told.sent = Append(out.sent, entry)
        /\ told.buffers = out.buffers /\ told.emitted = out.emitted
    BY <2>3, <2>4 DEF Out
  <2> HIDE DEF told
  <2> QED
    BY <2>1, <2>2, <2>5, SilentGrows
<1> QED
  BY <1>1, <1>2

LEMMA UpdateGrows ==
    ASSUME ConsumerTyped, Growing(out), NEW p \in Parts, NEW delta \in Texts,
           Shown(p) \in Texts, ConsumeUpdate(p, delta)
    PROVE  ConsumerTyped' /\ Growing(out)'
<1> DEFINE early == BufferOf(p) \o FlattenSeq(pending[p])
           whole == Strip(Shown(p))
           added == IF delta # <<>> THEN <<delta>>
                    ELSE IF BlockOf[p] # "tool" THEN SnapshotChunks(early, whole)
                    ELSE IF whole \in {<<>>, early} THEN <<>> ELSE <<whole>>
           texts == pending[p] \o added
           chunks == [i \in DOMAIN texts |-> Chunk(p, texts[i])]
           buffer == IF delta # <<>> THEN early \o delta
                     ELSE IF whole = <<>> THEN early ELSE whole
<1>1. pending[p] \in Seq(Texts) /\ BufferOf(p) \in Texts /\ <<>> \in Texts
  BY EmptySeq DEF ConsumerTyped, BufferOf, Texts
<1>2. early \in Texts /\ whole \in Texts
  BY <1>1, FlattenTexts, StripTexts, ConcatProperties DEF Texts
<1>3. added \in Seq(Texts)
  <2> HIDE DEF early, whole
  <2>1. <<delta>> \in Seq(Texts) /\ <<whole>> \in Seq(Texts) /\ <<>> \in Seq(Texts)
    BY <1>2
  <2> QED
    BY <1>2, <2>1, SnapshotTyped
<1>4. texts \in Seq(Texts)
  <2> HIDE DEF added
  <2> QED
    BY <1>1, <1>3, ConcatProperties
<1>5. buffer \in Texts
  <2> HIDE DEF early, whole
  <2> QED
    BY <1>2, ConcatProperties DEF Texts
<1>6. pending' = [pending EXCEPT ![p] = <<>>] /\ pending' \in [Parts -> Seq(Texts)]
  BY <1>1, EmptySeq DEF ConsumeUpdate, ConsumerTyped
<1>7. CASE BlockOf[p] = "step"
  <2>1. out' = Progress(p) /\ UNCHANGED state
    BY <1>7 DEF ConsumeUpdate
  <2>2. Growing(Progress(p))
    BY ProgressGrows
  <2> QED
    BY <1>6, <2>1, <2>2 DEF ConsumerTyped
<1>8. CASE BlockOf[p] # "step" /\ RoleOf[p] = "user"
  <2>1. state' = [state EXCEPT ![p] = BufferOf(p)] /\ UNCHANGED out
    BY <1>8 DEF ConsumeUpdate
  <2> QED
    BY <1>1, <1>6, <2>1 DEF ConsumerTyped
<1>9. CASE BlockOf[p] # "step" /\ RoleOf[p] # "user"
  <2>1. state' = [state EXCEPT ![p] = buffer] /\ out' = EmitChunks(chunks)
    BY <1>9 DEF ConsumeUpdate
  <2>2. chunks \in Seq(Chunks)
    <3> HIDE DEF texts
    <3>1. /\ DOMAIN texts = 1..Len(texts) /\ Len(texts) \in Nat
          /\ \A i \in 1..Len(texts) : texts[i] \in Texts
      BY <1>4, LenProperties, ElementOfSeq
    <3>2. \A i \in 1..Len(texts) : Chunk(p, texts[i]) \in Chunks
      BY <1>9, <3>1, ChunkTyped
    <3> QED
      BY <3>1, <3>2
  <2> HIDE DEF buffer, chunks
  <2>3. Growing(EmitChunks(chunks))
    BY <2>2, EmitsGrow
  <2> QED
    BY <1>5, <1>6, <2>1, <2>3 DEF ConsumerTyped
<1> QED
  BY <1>7, <1>8, <1>9

-------------------------------------------------------------------------------
(* The coordinator's events.                                               *)
Extends(o2, o, kind, text, append) ==
    /\ o2 \in Out /\ o2.buffers = o.buffers /\ o2.emitted = o.emitted
    /\ \E entry \in Entry :
          /\ entry.kind = kind /\ entry.text = text /\ entry.append = append
          /\ o2.sent = Append(o.sent, entry)

LEMMA SendTyped ==
    ASSUME NEW o \in Out, NEW kind \in {"final", "error", "status"},
           NEW text \in Texts, NEW append \in BOOLEAN
    PROVE  Extends(Send(o, kind, text, append), o, kind, text, append)
<1> DEFINE entry == [kind |-> kind, block |-> "text", text |-> text, append |-> append]
           sent == [o EXCEPT !.sent = Append(@, entry)]
<1>1. entry \in Entry /\ entry.kind = kind /\ entry.text = text /\ entry.append = append
  BY DEF Entry, Blocks
<1>2. Send(o, kind, text, append) = sent
  BY DEF Send
<1> HIDE DEF entry
<1>3. o.sent \in Seq(Entry)
  BY DEF Out
<1>4. Append(o.sent, entry) \in Seq(Entry)
  BY <1>1, <1>3, SentOneMore
<1>5. /\ sent \in Out /\ sent.sent = Append(o.sent, entry)
      /\ sent.buffers = o.buffers /\ sent.emitted = o.emitted
  BY <1>4 DEF Out
<1> HIDE DEF sent
<1> QED
  BY <1>1, <1>2, <1>5 DEF Extends

LEMMA SendGrows ==
    ASSUME NEW o, Growing(o), NEW kind \in {"error", "status"}
    PROVE  Growing(Send(o, kind, <<>>, FALSE))
<1> DEFINE o2 == Send(o, kind, <<>>, FALSE)
<1>1. o \in Out /\ <<>> \in Texts
  BY EmptySeq DEF Growing, Texts
<1>2. Extends(o2, o, kind, <<>>, FALSE)
  BY <1>1, SendTyped
<1> HIDE DEF o2
<1>3. Growing(o2)
  BY <1>2, SilentGrows DEF Extends
<1> QED
  BY <1>3 DEF o2

LEMMA FailGrows ==
    ASSUME Growing(out), Fail
    PROVE  Growing(out)'
<1>1. Growing(Send(out, "error", <<>>, FALSE))
  BY SendGrows
<1>2. Growing(Send(Send(out, "error", <<>>, FALSE), "status", <<>>, FALSE))
  BY <1>1, SendGrows
<1> QED
  BY <1>2 DEF Fail

LEMMA ResponseTyped == ResponseText \in Texts
<1> DEFINE answers == {p \in cast \ Echoes : TurnOf[p] = turn /\ BlockOf[p] = "text"}
           texts == [i \in DOMAIN Order |->
                       IF Order[i] \in answers THEN FlattenSeq(ChunksOf[Order[i]]) ELSE <<>>]
<1>1. /\ DOMAIN Order = 1..Len(Order) /\ Len(Order) \in Nat
      /\ \A i \in 1..Len(Order) : Order[i] \in Parts
  BY PartsAssumption, LenProperties, ElementOfSeq
<1>2. \A p \in Parts : FlattenSeq(ChunksOf[p]) \in Texts
  BY PartsAssumption, FlattenTexts
<1>3. <<>> \in Texts
  BY EmptySeq DEF Texts
<1> HIDE DEF answers
<1>4. texts \in Seq(Texts)
  BY <1>1, <1>2, <1>3
<1>5. Strip(FlattenSeq(texts)) \in Texts
  BY <1>4, FlattenTexts, StripTexts
<1> QED
  BY <1>5 DEF ResponseText, answers

LEMMA ResponseKept ==
    UNCHANGED <<cast, turn>> => ResponseText' = ResponseText
BY DEF ResponseText

(* The final snapshot and the final status: the artifact stays one, it     *)
(* holds the response, and the snapshot comes last and where it is needed. *)
LEMMA CompletesWhole ==
    ASSUME Growing(out), Completes
    PROVE  /\ out' \in Out /\ Artifact(out'.sent)
           /\ CompletedHasResponse' /\ SnapshotIsOnce'
<1> DEFINE kept == [out EXCEPT !.buffers["text"] = ResponseText, !.saw = TRUE]
           snapshot == Send(kept, "final", ResponseText, out.emitted)
           o == IF NeedsSnapshot THEN snapshot ELSE out
<1>1. /\ out' = Send(o, "status", <<>>, FALSE) /\ outcome' = "completed"
      /\ UNCHANGED <<cast, turn>>
  BY DEF Completes, upstreamVars
<1>2. ResponseText' = ResponseText /\ ResponseText \in Texts
  BY <1>1, ResponseKept, ResponseTyped
<1>3. out \in Out /\ out.sent \in Seq(Entry) /\ out.emitted \in BOOLEAN /\ <<>> \in Texts
  BY EmptySeq DEF Growing, Out, Texts
<1>4. /\ kept \in Out /\ kept.sent = out.sent
  BY <1>2, <1>3 DEF Out, Blocks
<1> HIDE DEF kept
<1>5. CASE NeedsSnapshot
  <2>0. Extends(snapshot, kept, "final", ResponseText, out.emitted)
    BY <1>2, <1>3, <1>4, SendTyped
  <2> HIDE DEF snapshot
  <2>1. PICK entry \in Entry :
           /\ entry.kind = "final" /\ entry.text = ResponseText
           /\ entry.append = out.emitted /\ snapshot.sent = Append(kept.sent, entry)
    BY <2>0 DEF Extends
  <2>2. PICK status \in Entry :
           /\ status.kind = "status" /\ out' \in Out
           /\ out'.sent = Append(snapshot.sent, status)
    <3>1. out' = Send(snapshot, "status", <<>>, FALSE)
      BY <1>1, <1>5
    <3>2. snapshot \in Out
      BY <2>0 DEF Extends
    <3>3. Extends(out', snapshot, "status", <<>>, FALSE)
      BY <1>3, <3>1, <3>2, SendTyped
    <3> QED
      BY <3>3 DEF Extends
  <2>3. snapshot.sent = Append(out.sent, entry) /\ snapshot.sent \in Seq(Entry)
    BY <1>3, <1>4, <2>1, SentOneMore
  <2>4. Artifact(snapshot.sent)
    <3>1. SentIn(out.sent, {"stream", "final"}) # {} <=> SentIn(out.sent, {"stream"}) # {}
      BY DEF Growing, SentIn
    <3>2. entry.append <=> SentIn(out.sent, {"stream", "final"}) # {}
      BY <2>1, <3>1 DEF Growing
    <3>3. Artifact(Append(out.sent, entry))
      BY <1>3, <3>2, ArtifactGrows DEF Growing
    <3> QED
      BY <2>3, <3>3
  <2>5. Artifact(out'.sent)
    BY <2>2, <2>3, <2>4, SilentEntry
  <2> DEFINE n == Len(out.sent) + 1
  <2>6. SentIn(out'.sent, {"final"}) = {n}
    <3>1. SentIn(out'.sent, {"final"}) = SentIn(snapshot.sent, {"final"})
      <4>1. status.kind \notin {"stream", "final"} /\ {"final"} \in SUBSET {"stream", "final"}
        BY <2>2
      <4>2. \A kinds \in SUBSET {"stream", "final"} :
               SentIn(Append(snapshot.sent, status), kinds) = SentIn(snapshot.sent, kinds)
        BY <2>3, <4>1, SilentEntry
      <4> QED
        BY <2>2, <4>1, <4>2
    <3>2. SentIn(snapshot.sent, {"final"})
             = SentIn(out.sent, {"final"})
                  \cup (IF entry.kind \in {"final"} THEN {n} ELSE {})
      BY <1>3, <2>3, SentOneMore
    <3>3. SentIn(out.sent, {"final"}) = {} /\ entry.kind \in {"final"}
      BY <2>1 DEF Growing
    <3> QED
      BY <3>1, <3>2, <3>3
  <2>7. n \in DOMAIN out'.sent /\ out'.sent[n].text = ResponseText
    BY <1>3, <2>1, <2>2, <2>3, AppendProperties, LenProperties
  <2>8. \A j \in SentIn(out'.sent, {"stream"}) : j < n
    <3>1. SentIn(out'.sent, {"stream"}) = SentIn(snapshot.sent, {"stream"})
      <4>1. status.kind \notin {"stream", "final"} /\ {"stream"} \in SUBSET {"stream", "final"}
        BY <2>2
      <4>2. \A kinds \in SUBSET {"stream", "final"} :
               SentIn(Append(snapshot.sent, status), kinds) = SentIn(snapshot.sent, kinds)
        BY <2>3, <4>1, SilentEntry
      <4> QED
        BY <2>2, <4>1, <4>2
    <3>2. SentIn(snapshot.sent, {"stream"})
             = SentIn(out.sent, {"stream"})
                  \cup (IF entry.kind \in {"stream"} THEN {n} ELSE {})
      BY <1>3, <2>3, SentOneMore
    <3>3. SentIn(out.sent, {"stream"}) \subseteq 1..Len(out.sent) /\ Len(out.sent) \in Nat
      <4>1. DOMAIN out.sent = 1..Len(out.sent) /\ Len(out.sent) \in Nat
        BY <1>3, LenProperties
      <4>2. SentIn(out.sent, {"stream"}) \subseteq DOMAIN out.sent
        BY DEF SentIn
      <4> QED
        BY <4>1, <4>2
    <3> QED
      BY <2>1, <3>1, <3>2, <3>3
  <2>9. Streamed("text")' = out.buffers["text"]
    <3>1. StreamedIn(out'.sent, "text") = StreamedIn(snapshot.sent, "text")
      <4>1. status.kind \notin {"stream", "final"}
        BY <2>2
      <4>2. \A b : StreamedIn(Append(snapshot.sent, status), b) = StreamedIn(snapshot.sent, b)
        BY <2>3, <4>1, SilentEntry
      <4> QED
        BY <2>2, <4>2
    <3>2. Piece(entry, "text") = <<>>
      BY <2>1 DEF Piece
    <3>3. StreamedIn(snapshot.sent, "text") = StreamedIn(out.sent, "text") \o <<>>
      <4>1. \A b : StreamedIn(Append(out.sent, entry), b)
                      = StreamedIn(out.sent, b) \o Piece(entry, b)
        BY <1>3, SentOneMore
      <4> QED
        BY <2>3, <3>2, <4>1
    <3>4. StreamedIn(out.sent, "text") = out.buffers["text"] /\ out.buffers["text"] \in Texts
      BY <1>3 DEF Growing, Out, Blocks
    <3> QED
      BY <3>1, <3>3, <3>4, StreamedIs, ConcatEmptySeq DEF Texts
  <2>10. Strip(out.buffers["text"]) # ResponseText
    BY <1>5 DEF NeedsSnapshot
  <2> HIDE DEF n
  <2>11. SnapshotIsOnce'
    BY <1>1, <1>2, <2>6, <2>7, <2>8, <2>9, <2>10, SentIs DEF SnapshotIsOnce
  <2> QED
    BY <1>2, <2>2, <2>5, <2>6, <2>7, <2>11, SentIs DEF CompletedHasResponse
<1>6. CASE ~NeedsSnapshot
  <2>1. PICK status \in Entry :
           /\ status.kind = "status" /\ out' \in Out
           /\ out'.sent = Append(out.sent, status)
    <3>1. out' = Send(out, "status", <<>>, FALSE)
      BY <1>1, <1>6
    <3>2. Extends(out', out, "status", <<>>, FALSE)
      BY <1>3, <3>1, SendTyped
    <3> QED
      BY <3>2 DEF Extends
  <2>2. Artifact(out'.sent)
    BY <1>3, <2>1, SilentEntry DEF Growing
  <2>3. Streamed("text")' = out.buffers["text"]
    <3>1. StreamedIn(out'.sent, "text") = StreamedIn(out.sent, "text")
      BY <1>3, <2>1, SilentEntry
    <3> QED
      BY <3>1, StreamedIs DEF Growing
  <2>4. ResponseText = <<>> \/ Strip(out.buffers["text"]) = ResponseText
    BY <1>6 DEF NeedsSnapshot
  <2>5. SentIn(out'.sent, {"final"}) = {}
    <3>1. {"final"} \in SUBSET {"stream", "final"}
      OBVIOUS
    <3>2. SentIn(out'.sent, {"final"}) = SentIn(out.sent, {"final"})
      BY <1>3, <2>1, <3>1, SilentEntry
    <3> QED
      BY <3>2 DEF Growing
  <2>6. SnapshotIsOnce'
    BY <2>5, SentIs DEF SnapshotIsOnce
  <2> QED
    BY <1>2, <2>1, <2>2, <2>3, <2>4, <2>6 DEF CompletedHasResponse
<1> QED
  BY <1>5, <1>6

-------------------------------------------------------------------------------
(* The types and the artifact, step by step.                               *)
LEMMA DeliveryStart ==
    StreamInit => StreamTypeOK /\ ScriptInv /\ DeliveryInv
<1> SUFFICES ASSUME StreamInit PROVE StreamTypeOK /\ ScriptInv /\ DeliveryInv
  OBVIOUS
<1>1. /\ out = OutInit /\ outcome = "none" /\ turn = 1 /\ idles = 0
      /\ announced = {} /\ missed = {} /\ signal = "none"
      /\ written = [p \in Parts |-> 0]
      /\ state = [p \in Parts |-> None] /\ pending = [p \in Parts |-> <<>>]
  BY DEF StreamInit
<1>2. ScriptInv /\ turns \in Nat \ {0}
  <2>1. cast \subseteq Parts /\ turns \in {TurnOf[p] : p \in cast}
    BY PartsAssumption DEF StreamInit
  <2>2. turns \in Nat \ {0}
    BY <2>1, PartsAssumption
  <2>3. ASSUME NEW p \in Parts, style[p] # "snapshot"
        PROVE  BlockOf[p] \in {"text", "reasoning"}
    BY <2>3, PartsAssumption DEF StreamInit, Blocks
  <2> QED
    BY <2>1, <2>2, <2>3 DEF ScriptInv
<1>3. <<>> \in Texts /\ <<>> \in Seq(Texts) /\ <<>> \in Seq(Entry)
  BY EmptySeq DEF Texts
<1>4. OutInit \in Out
  BY <1>3 DEF OutInit, Out
<1>5. StreamTypeOK
  <2>1. \A p \in Parts : Len(ChunksOf[p]) \in Nat
    BY PartsAssumption, LenProperties
  <2> QED
    BY <1>1, <1>2, <1>3, <1>4, <2>1 DEF StreamTypeOK
<1>6. Growing(out)
  <2>1. OutInit.sent = <<>> /\ OutInit.emitted = FALSE
        /\ \A b \in Blocks : OutInit.buffers[b] = <<>>
    BY DEF OutInit
  <2>2. \A kinds : SentIn(<<>>, kinds) = {}
    BY DEF SentIn
  <2>3. ASSUME NEW b PROVE StreamedIn(<<>>, b) = <<>>
    <3> DEFINE none == [i \in DOMAIN <<>> |-> Piece(<<>>[i], b)]
    <3>1. none = <<>>
      OBVIOUS
    <3> HIDE DEF none
    <3>2. FlattenSeq(none) = <<>>
      BY <3>1, EmptySeq DEF FlattenSeq
    <3> QED
      BY <3>2 DEF none, StreamedIn
  <2>4. Artifact(<<>>)
    BY <2>2 DEF Artifact
  <2> QED
    BY <1>1, <1>4, <2>1, <2>2, <2>3, <2>4 DEF Growing, Blocks
<1>7. DeliveryInv
  <2>1. SnapshotIsOnce
    BY <1>6, SentIs DEF Growing, SnapshotIsOnce
  <2> QED
    BY <1>1, <1>6, <2>1 DEF DeliveryInv, Growing, CompletedHasResponse
<1> QED
  BY <1>2, <1>5, <1>7

(* What the consumer reads keeps its types and makes the artifact grow.    *)
LEMMA ConsumerGrows ==
    ASSUME StreamTypeOK, ScriptInv, NEW p \in Parts,
           UpstreamWrites(p) \/ UpstreamRepeats(p),
           Reads => Growing(out)
    PROVE  /\ \A q \in Parts : written'[q] \in 0..Len(ChunksOf[q])
           /\ written' \in [Parts -> Nat]
           /\ ConsumerTyped'
           /\ Reads => Growing(out)'
           /\ ~Reads => UNCHANGED out
<1>1. ConsumerTyped
  BY DEF StreamTypeOK, ConsumerTyped
<1>2. \A q \in Parts : /\ written[q] \in 0..Len(ChunksOf[q]) /\ Len(ChunksOf[q]) \in Nat
                       /\ ChunksOf[q] \in Seq(Texts)
  BY PartsAssumption, LenProperties DEF StreamTypeOK
<1>3. /\ \A q \in Parts : written'[q] \in 0..Len(ChunksOf[q])
      /\ written' \in [Parts -> Nat]
  <2>1. CASE UpstreamWrites(p)
    <3>1. written[p] < Len(ChunksOf[p]) /\ written' = [written EXCEPT ![p] = @ + 1]
      BY <2>1 DEF UpstreamWrites
    <3> QED
      BY <1>2, <3>1 DEF StreamTypeOK
  <2>2. CASE UpstreamRepeats(p)
    BY <1>2, <2>2 DEF UpstreamRepeats, StreamTypeOK
  <2> QED
    BY <2>1, <2>2
<1>4. Shown(p) \in Texts
  BY <1>3, ShownTexts
<1>5. <<>> \in Texts
  BY EmptySeq DEF Texts
<1>6. CASE ~Reads
  <2>1. UNCHANGED consumerVars
    BY <1>6 DEF UpstreamWrites, UpstreamRepeats
  <2> QED
    BY <1>1, <1>3, <1>6, <2>1 DEF consumerVars, ConsumerTyped
<1>7. CASE Reads
  <2>1. CASE UpstreamRepeats(p)
    <3>1. ConsumeUpdate(p, <<>>)
      BY <1>7, <2>1 DEF UpstreamRepeats
    <3> QED
      BY <1>1, <1>3, <1>4, <1>5, <1>7, <3>1, UpdateGrows
  <2>2. CASE UpstreamWrites(p)
    <3> DEFINE chunk == ChunksOf[p][written[p] + 1]
    <3>1. \/ style[p] = "delta" /\ ConsumeDelta(p, chunk)
          \/ style[p] = "updated" /\ ConsumeUpdate(p, chunk)
          \/ style[p] = "snapshot" /\ ConsumeUpdate(p, <<>>)
      BY <1>7, <2>2 DEF UpstreamWrites
    <3>2. chunk \in Texts
      <4>1. written[p] + 1 \in 1..Len(ChunksOf[p])
        BY <1>2, <2>2 DEF UpstreamWrites
      <4> QED
        BY <1>2, <4>1, ElementOfSeq
    <3>3. style[p] = "delta" => BlockOf[p] # "step"
      BY DEF ScriptInv
    <3> HIDE DEF chunk
    <3>4. ConsumerTyped' /\ Growing(out)'
      BY <1>1, <1>4, <1>5, <1>7, <3>1, <3>2, <3>3, UpdateGrows, DeltaGrows
    <3> QED
      BY <1>3, <1>7, <3>4
  <2> QED
    BY <2>1, <2>2
<1> QED
  BY <1>6, <1>7

LEMMA ScriptStep ==
    ASSUME ScriptInv, [StreamNext]_streamVars
    PROVE  ScriptInv'
<1>1. UNCHANGED <<cast, style, turns>>
  BY DEF StreamNext, Upstream, Coordinator, UpstreamWrites, UpstreamRepeats,
         UpstreamIdles, UpstreamErrs, Connect, StreamBreaks, StreamCloses,
         ConsumerStops, SendReturns, SendFails, StreamEndedFirst, EndsInError,
         Completes, Cancel, Cleanup, upstreamVars, streamVars
<1> QED
  BY <1>1 DEF ScriptInv

LEMMA TypeStep ==
    ASSUME StreamTypeOK, ScriptInv, SignalInv, OutcomeInv, DeliveryInv,
           [StreamNext]_streamVars
    PROVE  StreamTypeOK'
<1>1. CASE ConsumerWrites
  <2>1. PICK p \in Parts : UpstreamWrites(p) \/ UpstreamRepeats(p)
    BY <1>1 DEF ConsumerWrites
  <2>2. Reads => Growing(out)
    BY DEF Reads, Running, SignalInv, OutcomeInv, DeliveryInv
  <2>3. /\ \A q \in Parts : written'[q] \in 0..Len(ChunksOf[q])
        /\ written' \in [Parts -> Nat] /\ ConsumerTyped'
        /\ Reads => Growing(out)'
        /\ ~Reads => UNCHANGED out
    BY <2>1, <2>2, ConsumerGrows
  <2>4. out' \in Out
    BY <2>3 DEF Growing, StreamTypeOK
  <2>5. UNCHANGED <<turn, turns, idles, signal, outcome>>
    BY <2>1 DEF UpstreamWrites, UpstreamRepeats, signalVars, coordinatorVars
  <2>6. announced' \subseteq Parts /\ missed' \subseteq {"part", "idle"}
    BY <2>1 DEF UpstreamWrites, UpstreamRepeats, Misses, StreamTypeOK
  <2> QED
    BY <2>3, <2>4, <2>5, <2>6 DEF StreamTypeOK, ConsumerTyped
<1>2. CASE UpstreamIdles
  <2>1. /\ UNCHANGED <<turn, turns, written, announced, state, pending, out, outcome>>
        /\ idles < turn /\ idles' = idles + 1
        /\ missed' = missed \/ missed' = missed \cup {"idle"}
        /\ signal' \in {signal, "completed"}
    BY <1>2 DEF UpstreamIdles, Misses, consumerVars, coordinatorVars
  <2>2. idles' \in 0..turn
    BY <1>2, <2>1 DEF StreamTypeOK, ScriptInv
  <2> QED
    BY <2>1, <2>2 DEF StreamTypeOK
<1>3. ASSUME NEW final \in BOOLEAN, UpstreamErrs(final) PROVE StreamTypeOK'
  BY <1>3 DEF UpstreamErrs, StreamTypeOK, upstreamVars, consumerVars, coordinatorVars
<1>4. CASE Connect \/ StreamBreaks \/ StreamCloses \/ ConsumerStops
  BY <1>4 DEF Connect, StreamBreaks, StreamCloses, ConsumerStops, StreamTypeOK,
              upstreamVars, consumerVars, signalVars, coordinatorVars
<1>5. CASE SendReturns
  <2>1. /\ UNCHANGED <<turns, written, announced, idles, missed, state, pending, out,
                       signal, outcome>>
        /\ \/ turn' = turn
           \/ turn < turns /\ turn' = turn + 1
    BY <1>5 DEF SendReturns, consumerVars, signalVars
  <2>2. turn' \in 1..turns /\ idles \in 0..turn'
    BY <2>1 DEF StreamTypeOK, ScriptInv
  <2> QED
    BY <2>1, <2>2 DEF StreamTypeOK
<1>6. CASE CoordinatorWrites
  <2>1. /\ UNCHANGED <<turn, turns, written, announced, idles, missed, state, pending,
                       signal>>
        /\ outcome' \in {"failed", "completed"}
        /\ Fail \/ Completes
    BY <1>6 DEF CoordinatorWrites, SendFails, StreamEndedFirst, EndsInError, Completes,
                Fail, upstreamVars, signalVars
  <2>2. Growing(out)
    BY <1>6 DEF CoordinatorWrites, SendFails, StreamEndedFirst, EndsInError, Completes,
                OutcomeInv, DeliveryInv
  <2>3. out' \in Out
    BY <2>1, <2>2, FailGrows, CompletesWhole DEF Growing
  <2> QED
    BY <2>1, <2>3 DEF StreamTypeOK
<1>7. CASE Cancel \/ Cleanup
  BY <1>7 DEF Cancel, Cleanup, StreamTypeOK, upstreamVars, consumerVars
<1>8. CASE UNCHANGED streamVars
  BY <1>8 DEF streamVars, StreamTypeOK, upstreamVars, consumerVars, signalVars,
              coordinatorVars
<1> QED
  BY <1>1, <1>2, <1>3, <1>4, <1>5, <1>6, <1>7, <1>8
     DEF StreamNext, Upstream, Coordinator, ConsumerWrites, CoordinatorWrites

LEMMA DeliveryStep ==
    ASSUME StreamTypeOK, ScriptInv, SignalInv, OutcomeInv, DeliveryInv,
           [StreamNext]_streamVars
    PROVE  DeliveryInv'
<1>1. CASE outcome = "completed"
  <2>1. UNCHANGED <<out, cast, turn, outcome>>
    BY <1>1, CompletedStill
  <2>2. CompletedHasResponse' <=> CompletedHasResponse
    BY <2>1, ResponseKept, SentIs, StreamedIs DEF CompletedHasResponse
  <2>3. SnapshotIsOnce' <=> SnapshotIsOnce
    BY <2>1, ResponseKept, SentIs, StreamedIs DEF SnapshotIsOnce
  <2> QED
    BY <1>1, <2>1, <2>2, <2>3 DEF DeliveryInv
<1>2. CASE outcome # "completed"
  <2>1. Growing(out)
    BY <1>2 DEF DeliveryInv
  <2>2. SUFFICES \/ outcome' # "completed" /\ Growing(out)'
                 \/ out' \in Out /\ Artifact(out'.sent) /\ outcome' = "completed"
                    /\ CompletedHasResponse' /\ SnapshotIsOnce'
    <3>1. Growing(out)' => SnapshotIsOnce'
      BY SentIs DEF Growing, SnapshotIsOnce
    <3> QED
      BY <3>1 DEF DeliveryInv, Growing, CompletedHasResponse
  <2>3. CASE ConsumerWrites
    <3>1. PICK p \in Parts : UpstreamWrites(p) \/ UpstreamRepeats(p)
      BY <2>3 DEF ConsumerWrites
    <3>2. (Reads => Growing(out)') /\ (~Reads => UNCHANGED out)
      BY <2>1, <3>1, ConsumerGrows
    <3>3. UNCHANGED outcome
      BY <2>3, ConsumerIsQuiet DEF coordinatorVars
    <3> QED
      BY <1>2, <2>1, <3>2, <3>3 DEF Growing
  <2>4. CASE CoordinatorWrites
    <3>1. \/ Fail /\ outcome' = "failed"
          \/ Completes /\ outcome' = "completed"
      BY <2>4 DEF CoordinatorWrites, SendFails, StreamEndedFirst, EndsInError, Completes,
                  Fail
    <3> QED
      BY <2>1, <3>1, FailGrows, CompletesWhole
  <2>5. CASE UNCHANGED <<out, outcome>>
    BY <1>2, <2>1, <2>5 DEF Growing
  <2>6. ConsumerWrites \/ CoordinatorWrites \/ UNCHANGED <<out, outcome>>
    BY DEF StreamNext, Upstream, Coordinator, ConsumerWrites, CoordinatorWrites,
           UpstreamIdles, UpstreamErrs, Connect, StreamBreaks, StreamCloses,
           ConsumerStops, SendReturns, Cancel, Cleanup, streamVars, consumerVars,
           coordinatorVars
  <2> QED
    BY <2>3, <2>4, <2>5, <2>6
<1> QED
  BY <1>1, <1>2

LEMMA DeliveryHolds == StreamSpec => [](StreamTypeOK /\ OutcomeInv /\ DeliveryInv)
<1> DEFINE Inv == StreamTypeOK /\ ScriptInv /\ SignalInv /\ OutcomeInv /\ DeliveryInv
<1>1. StreamInit => Inv
  BY DeliveryStart, SignalStart
<1>2. Inv /\ [StreamNext]_streamVars => Inv'
  BY TypeStep, ScriptStep, SignalStep, OutcomeStep, DeliveryStep
<1>3. Inv => StreamTypeOK /\ OutcomeInv /\ DeliveryInv
  OBVIOUS
<1> HIDE DEF Inv
<1> QED
  BY <1>1, <1>2, <1>3, PTL DEF StreamSpec

(* A client that was told "completed" was told of no error that upstream   *)
(* reported, and has the whole response: what was streamed, stripped, is   *)
(* equal to it, or the one final snapshot carries it.                      *)
THEOREM CompletedMeansWhole == StreamSpec => []CompletedIsWhole
<1>1. OutcomeInv /\ DeliveryInv => CompletedIsWhole
  BY DEF OutcomeInv, DeliveryInv, CompletedIsWhole, ErrorsSurface
<1> QED
  BY <1>1, DeliveryHolds, PTL

-------------------------------------------------------------------------------
(* Letters.                                                                *)
LEMMA TextFacts ==
    ASSUME NEW a \in Texts
    PROVE  /\ Len(a) \in Nat /\ DOMAIN a = 1..Len(a)
           /\ \A i \in 1..Len(a) : a[i] \in Nat
           /\ \A u : u \in Ink(a) <=> u # Blank /\ \E i \in 1..Len(a) : a[i] = u
           /\ Ink(a) \subseteq Nat
<1>1. Len(a) \in Nat /\ DOMAIN a = 1..Len(a) /\ \A i \in 1..Len(a) : a[i] \in Nat
  BY LenProperties, ElementOfSeq DEF Texts
<1>2. \A u : u \in Ink(a) <=> u # Blank /\ \E i \in 1..Len(a) : a[i] = u
  BY <1>1 DEF Ink, ToSet
<1> QED
  BY <1>1, <1>2

LEMMA JoinFacts ==
    ASSUME NEW a \in Texts, NEW x \in Texts
    PROVE  /\ a \o x \in Texts
           /\ Len(a \o x) = Len(a) + Len(x)
           /\ \A i \in 1..Len(a) : (a \o x)[i] = a[i]
           /\ \A i \in 1..Len(x) : (a \o x)[Len(a) + i] = x[i]
           /\ \A i \in 1..(Len(a) + Len(x)) :
                 i \in 1..Len(a) \/ \E k \in 1..Len(x) : i = Len(a) + k
<1> DEFINE t == a \o x
           m == Len(a)
           n == Len(x)
<1>1. /\ t \in Texts /\ Len(t) = m + n
      /\ \A i \in 1..(m + n) : t[i] = IF i <= m THEN a[i] ELSE x[i - m]
  BY ConcatProperties DEF Texts
<1>2. m \in Nat /\ n \in Nat
  BY TextFacts
<1> HIDE DEF t, m, n
<1>3. ASSUME NEW i \in 1..n PROVE t[m + i] = x[i]
  <2>1. m + i \in 1..(m + n) /\ ~(m + i <= m) /\ (m + i) - m = i
    BY <1>2
  <2> QED
    BY <1>1, <2>1
<1>4. ASSUME NEW i \in 1..(m + n), i \notin 1..m PROVE \E k \in 1..n : i = m + k
  <2>1. i - m \in 1..n /\ i = m + (i - m)
    BY <1>2, <1>4
  <2> QED
    BY <2>1
<1>5. \A i \in 1..m : t[i] = a[i]
  BY <1>1, <1>2
<1> QED
  BY <1>1, <1>3, <1>4, <1>5 DEF t, m, n

LEMMA JoinAssociates ==
    ASSUME NEW a \in Texts, NEW b \in Texts, NEW c \in Texts
    PROVE  (a \o b) \o c = a \o (b \o c)
BY ConcatAssociative DEF Texts

LEMMA TextsAssociate ==
    \A a, b, c \in Texts : (a \o b) \o c = a \o (b \o c)
BY JoinAssociates

LEMMA InkJoin ==
    ASSUME NEW a \in Texts, NEW x \in Texts
    PROVE  Ink(a \o x) = Ink(a) \cup Ink(x)
<1> DEFINE t == a \o x
<1>1. /\ t \in Texts /\ Len(t) = Len(a) + Len(x)
      /\ \A i \in 1..Len(a) : t[i] = a[i]
      /\ \A i \in 1..Len(x) : t[Len(a) + i] = x[i]
      /\ \A i \in 1..(Len(a) + Len(x)) :
            i \in 1..Len(a) \/ \E k \in 1..Len(x) : i = Len(a) + k
  BY JoinFacts
<1>2. Len(a) \in Nat /\ Len(x) \in Nat
  BY TextFacts
<1> HIDE DEF t
<1>3. ASSUME NEW u \in Ink(t) PROVE u \in Ink(a) \cup Ink(x)
  <2>1. PICK i \in 1..Len(t) : t[i] = u
    BY <1>1, TextFacts
  <2>2. u # Blank
    BY <1>1, TextFacts
  <2>3. CASE i \in 1..Len(a)
    BY <1>1, <2>1, <2>2, <2>3, TextFacts
  <2>4. ASSUME NEW k \in 1..Len(x), i = Len(a) + k PROVE u \in Ink(x)
    BY <1>1, <2>1, <2>2, <2>4, TextFacts
  <2> QED
    BY <1>1, <2>1, <2>3, <2>4
<1>4. ASSUME NEW u \in Ink(a) PROVE u \in Ink(t)
  <2>1. PICK i \in 1..Len(a) : a[i] = u
    BY TextFacts
  <2>2. u # Blank /\ i \in 1..Len(t) /\ t[i] = u
    BY <1>1, <1>2, <2>1, TextFacts
  <2> QED
    BY <1>1, <2>2, TextFacts
<1>5. ASSUME NEW u \in Ink(x) PROVE u \in Ink(t)
  <2>1. PICK i \in 1..Len(x) : x[i] = u
    BY TextFacts
  <2>2. u # Blank /\ Len(a) + i \in 1..Len(t) /\ t[Len(a) + i] = u
    BY <1>1, <1>2, <2>1, TextFacts
  <2> QED
    BY <1>1, <2>2, TextFacts
<1> QED
  BY <1>3, <1>4, <1>5 DEF t

(* Two texts make one in writing order if both are and all letters of the  *)
(* first come before those of the second.                                  *)
Comes(a, x) == \A u \in Ink(a), v \in Ink(x) : u < v

LEMMA RisingJoin ==
    ASSUME NEW a \in Texts, NEW x \in Texts
    PROVE  Rising(a \o x) <=> Rising(a) /\ Rising(x) /\ Comes(a, x)
<1> DEFINE t == a \o x
           m == Len(a)
           n == Len(x)
<1>1. /\ t \in Texts /\ Len(t) = m + n
      /\ \A i \in 1..m : t[i] = a[i]
      /\ \A i \in 1..n : t[m + i] = x[i]
      /\ \A i \in 1..(m + n) : i \in 1..m \/ \E k \in 1..n : i = m + k
  BY JoinFacts
<1>2. /\ m \in Nat /\ n \in Nat /\ DOMAIN t = 1..(m + n)
      /\ DOMAIN a = 1..m /\ DOMAIN x = 1..n
  BY <1>1, TextFacts
<1> HIDE DEF t, m, n
<1>3. ASSUME Rising(t) PROVE Rising(a)
  BY <1>1, <1>2, <1>3 DEF Rising
<1>4. ASSUME Rising(t) PROVE Rising(x)
  <2> SUFFICES ASSUME NEW i \in 1..n, NEW j \in 1..n, i < j,
                      x[i] # Blank, x[j] # Blank
               PROVE  x[i] < x[j]
    BY <1>2 DEF Rising
  <2>1. m + i \in 1..(m + n) /\ m + j \in 1..(m + n) /\ m + i < m + j
    BY <1>2
  <2> QED
    BY <1>1, <1>2, <1>4, <2>1 DEF Rising
<1>5. ASSUME Rising(t), NEW u \in Ink(a), NEW v \in Ink(x) PROVE u < v
  <2>1. PICK i \in 1..m : a[i] = u
    BY TextFacts DEF m
  <2>2. PICK j \in 1..n : x[j] = v
    BY TextFacts DEF n
  <2>3. u # Blank /\ v # Blank
    BY TextFacts
  <2>4. i \in 1..(m + n) /\ m + j \in 1..(m + n) /\ i < m + j
    BY <1>2
  <2> QED
    BY <1>1, <1>2, <1>5, <2>1, <2>2, <2>3, <2>4 DEF Rising
<1>6. ASSUME Rising(a), Rising(x), Comes(a, x) PROVE Rising(t)
  <2> SUFFICES ASSUME NEW i \in 1..(m + n), NEW j \in 1..(m + n), i < j,
                      t[i] # Blank, t[j] # Blank
               PROVE  t[i] < t[j]
    BY <1>2 DEF Rising
  <2>1. CASE i \in 1..m /\ j \in 1..m
    BY <1>1, <1>2, <1>6, <2>1 DEF Rising
  <2>2. ASSUME i \in 1..m, NEW l \in 1..n, j = m + l PROVE t[i] < t[j]
    <3>1. t[i] = a[i] /\ t[j] = x[l]
      BY <1>1, <2>2
    <3>2. t[i] \in Ink(a) /\ t[j] \in Ink(x)
      BY <2>2, <3>1, TextFacts DEF m, n
    <3> QED
      BY <1>6, <3>2 DEF Comes
  <2>3. ASSUME NEW k \in 1..n, i = m + k, NEW l \in 1..n, j = m + l PROVE t[i] < t[j]
    <3>1. t[i] = x[k] /\ t[j] = x[l] /\ k < l
      BY <1>1, <1>2, <2>3
    <3> QED
      BY <1>2, <1>6, <3>1 DEF Rising
  <2>4. ASSUME NEW k \in 1..n, i = m + k, j \in 1..m PROVE FALSE
    BY <1>2, <2>4
  <2> QED
    BY <1>1, <2>1, <2>2, <2>3, <2>4
<1> QED
  BY <1>3, <1>4, <1>5, <1>6 DEF t, Comes

(* The first chunks of some, joined.                                       *)
First(s, k) == FlattenSeq(SubSeq(s, 1, k))

LEMMA FirstTexts ==
    ASSUME NEW s \in Seq(Texts)
    PROVE  /\ First(s, 0) = <<>> /\ First(s, Len(s)) = FlattenSeq(s)
           /\ \A k \in 0..Len(s) : First(s, k) \in Texts
           /\ \A k \in 0..(Len(s) - 1) :
                 s[k + 1] \in Texts /\ First(s, k + 1) = First(s, k) \o s[k + 1]
<1>1. Len(s) \in Nat /\ \A i \in 1..Len(s) : s[i] \in Texts
  BY LenProperties, ElementOfSeq
<1>2. ASSUME NEW k \in 0..Len(s) PROVE SubSeq(s, 1, k) \in Seq(Texts)
  <2>1. k \in Int /\ 1 \in Int /\ \A i \in 1..k : s[i] \in Texts
    BY <1>1
  <2> QED
    BY <2>1, SubSeqProperties
<1>3. ASSUME NEW k \in 0..(Len(s) - 1)
      PROVE  s[k + 1] \in Texts /\ First(s, k + 1) = First(s, k) \o s[k + 1]
  <2>1. /\ s[k + 1] \in Texts /\ k + 1 \in 1..Len(s) /\ k \in 0..Len(s)
        /\ (k + 1) - 1 = k /\ 1 \in 1..Len(s)
    BY <1>1
  <2>2. SubSeq(s, 1, k + 1) = SubSeq(s, 1, k) \o <<s[k + 1]>>
    BY <2>1, SubSeqRecursiveSecond
  <2>3. SubSeq(s, 1, k) \in Seq(Texts)
    BY <1>2, <2>1
  <2>4. SubSeq(s, 1, k + 1) = Append(SubSeq(s, 1, k), s[k + 1])
    BY <2>1, <2>2, <2>3, AppendIsConcat
  <2> QED
    BY <2>1, <2>3, <2>4, FlattenOneMore DEF First
<1>4. First(s, 0) = <<>>
  <2>1. SubSeq(s, 1, 0) = <<>>
    BY SubSeqEmpty
  <2> QED
    BY <2>1, EmptySeq DEF First, FlattenSeq
<1>5. First(s, Len(s)) = FlattenSeq(s)
  BY SubSeqFull DEF First
<1>6. \A k \in 0..Len(s) : First(s, k) \in Texts
  BY <1>2, FlattenTexts DEF First
<1> QED
  BY <1>3, <1>4, <1>5, <1>6

LEMMA FirstRises ==
    ASSUME NEW s \in Seq(Texts), NEW base \in Texts, Rising(base \o FlattenSeq(s)),
           NEW k \in 0..Len(s)
    PROVE  Rising(base \o First(s, k)) /\ Ink(First(s, k)) \subseteq Ink(FlattenSeq(s))
<1> DEFINE n == Len(s)
           T == {d \in Nat : d <= n =>
                    /\ Rising(base \o First(s, n - d))
                    /\ Ink(First(s, n - d)) \subseteq Ink(FlattenSeq(s))}
<1>1. n \in Nat
  BY LenProperties
<1>2. 0 \in T
  <2>1. n - 0 = n
    BY <1>1
  <2> QED
    BY <2>1, FirstTexts
<1> HIDE DEF n
<1>3. ASSUME NEW d \in Nat, d \in T PROVE d + 1 \in T
  <2> SUFFICES ASSUME d + 1 <= n
               PROVE  /\ Rising(base \o First(s, n - (d + 1)))
                      /\ Ink(First(s, n - (d + 1))) \subseteq Ink(FlattenSeq(s))
    OBVIOUS
  <2>1. PICK m \in 0..(n - 1) : m = n - (d + 1) /\ m + 1 = n - d
    BY <1>1
  <2>2. /\ Rising(base \o First(s, m + 1))
        /\ Ink(First(s, m + 1)) \subseteq Ink(FlattenSeq(s))
    BY <1>1, <1>3, <2>1
  <2>3. /\ s[m + 1] \in Texts /\ First(s, m) \in Texts
        /\ First(s, m + 1) = First(s, m) \o s[m + 1]
    BY <1>1, FirstTexts DEF n
  <2>4. base \o First(s, m + 1) = (base \o First(s, m)) \o s[m + 1]
    <3>1. (base \o First(s, m)) \o s[m + 1] = base \o (First(s, m) \o s[m + 1])
      BY <2>3, JoinAssociates, Zenon
    <3> QED
      BY <2>3, <3>1, Zenon
  <2>5. base \o First(s, m) \in Texts
    BY <2>3, JoinFacts
  <2>6. Rising(base \o First(s, m))
    <3> DEFINE a == base \o First(s, m)
               x == s[m + 1]
    <3>1. a \in Texts /\ x \in Texts /\ Rising(a \o x)
      BY <2>2, <2>3, <2>4, <2>5
    <3> HIDE DEF a, x
    <3>2. Rising(a)
      BY <3>1, RisingJoin
    <3> QED
      BY <3>2 DEF a
  <2>7. Ink(First(s, m)) \subseteq Ink(First(s, m + 1))
    <3> DEFINE a == First(s, m)
               x == s[m + 1]
    <3>1. a \in Texts /\ x \in Texts /\ First(s, m + 1) = a \o x
      BY <2>3
    <3> HIDE DEF a, x
    <3>2. Ink(a \o x) = Ink(a) \cup Ink(x)
      BY <3>1, InkJoin
    <3> QED
      BY <3>1, <3>2 DEF a
  <2> QED
    BY <2>1, <2>2, <2>6, <2>7
<1>4. Nat \subseteq T
  <2> HIDE DEF T
  <2> QED
    BY <1>2, <1>3, SetInduction
<1>5. n - k \in Nat /\ n - k <= n /\ n - (n - k) = k
  BY <1>1 DEF n
<1>6. n - k \in T
  BY <1>4, <1>5
<1> QED
  BY <1>5, <1>6

(* Only blanks are stripped.                                               *)
LEMMA StripKeeps ==
    ASSUME NEW text \in Texts
    PROVE  /\ Ink(Strip(text)) = Ink(text)
           /\ Rising(text) => Rising(Strip(text))
<1> DEFINE ink == {i \in DOMAIN text : text[i] # Blank}
<1>1. /\ DOMAIN text = 1..Len(text) /\ Len(text) \in Nat
      /\ \A i \in 1..Len(text) : text[i] \in Nat
      /\ \A u : u \in Ink(text) <=> u # Blank /\ \E i \in 1..Len(text) : text[i] = u
  BY TextFacts
<1>2. CASE ink = {}
  <2>1. Strip(text) = <<>>
    BY <1>2 DEF Strip
  <2>2. Ink(text) = {}
    BY <1>1, <1>2
  <2>3. Ink(<<>>) = {} /\ Rising(<<>>)
    BY DEF Ink, ToSet, Rising
  <2> QED
    BY <2>1, <2>2, <2>3
<1>3. CASE ink # {}
  <2>1. ink \in SUBSET (1..Len(text)) /\ ink \in SUBSET Nat
    BY <1>1
  <2>2. Strip(text) = SubSeq(text, Min(ink), Max(ink))
    BY <1>3 DEF Strip
  <2>3. \A i \in 1..Len(text) : text[i] # Blank => i \in ink
    BY <1>1
  <2> HIDE DEF ink
  <2>4. Min(ink) \in ink /\ \A i \in ink : Min(ink) <= i
    BY <1>3, <2>1, LeastNumber DEF Min
  <2>5. Max(ink) \in ink /\ \A i \in ink : Max(ink) >= i
    BY <1>1, <1>3, <2>1, GreatestNumber DEF Max
  <2>6. ASSUME NEW low \in ink, NEW high \in ink,
               \A i \in ink : low <= i, \A i \in ink : high >= i
        PROVE  /\ Ink(SubSeq(text, low, high)) = Ink(text)
               /\ Rising(text) => Rising(SubSeq(text, low, high))
    <3> DEFINE t == SubSeq(text, low, high)
    <3>1. low \in 1..Len(text) /\ high \in 1..Len(text) /\ low <= high
      BY <2>1, <2>6
    <3>2. low \in Int /\ high \in Int /\ \A i \in low..high : text[i] \in Nat
      BY <1>1, <3>1
    <3>3. /\ t \in Texts /\ Len(t) = high - low + 1
          /\ \A i \in 1..(high - low + 1) : t[i] = text[low + i - 1]
      BY <3>1, <3>2, SubSeqProperties DEF Texts
    <3> HIDE DEF t
    <3>4. DOMAIN t = 1..(high - low + 1)
      BY <3>3, TextFacts
    <3>5. ASSUME NEW u \in Ink(t) PROVE u \in Ink(text)
      <4>1. PICK i \in 1..(high - low + 1) : t[i] = u /\ u # Blank
        BY <3>3, TextFacts
      <4>2. low + i - 1 \in 1..Len(text) /\ text[low + i - 1] = u
        BY <1>1, <3>1, <3>3, <4>1
      <4> QED
        BY <1>1, <4>1, <4>2
    <3>6. ASSUME NEW u \in Ink(text) PROVE u \in Ink(t)
      <4>1. PICK i \in 1..Len(text) : text[i] = u /\ u # Blank
        BY <1>1
      <4>2. low <= i /\ i <= high
        BY <2>3, <2>6, <4>1
      <4>3. /\ (i - low) + 1 \in 1..(high - low + 1)
            /\ low + ((i - low) + 1) - 1 = i
        BY <3>1, <4>2
      <4>4. t[(i - low) + 1] = u
        BY <3>3, <4>1, <4>3
      <4> QED
        BY <3>3, <4>1, <4>3, <4>4, TextFacts
    <3>7. ASSUME Rising(text), NEW i \in DOMAIN t, NEW j \in DOMAIN t, i < j,
                 Blank \notin {t[i], t[j]}
          PROVE  t[i] < t[j]
      <4>0. i \in 1..(high - low + 1) /\ j \in 1..(high - low + 1)
        BY <3>4
      <4>1. /\ t[i] = text[low + i - 1] /\ t[j] = text[low + j - 1]
            /\ low + i - 1 \in DOMAIN text /\ low + j - 1 \in DOMAIN text
            /\ low + i - 1 < low + j - 1
        <5>1. t[i] = text[low + i - 1] /\ t[j] = text[low + j - 1]
          BY <3>3, <4>0
        <5>2. /\ low + i - 1 \in 1..Len(text) /\ low + j - 1 \in 1..Len(text)
              /\ low + i - 1 < low + j - 1
          BY <1>1, <3>1, <3>7, <4>0
        <5> QED
          BY <1>1, <5>1, <5>2
      <4> QED
        BY <3>7, <4>1 DEF Rising
    <3> QED
      BY <3>5, <3>6, <3>7 DEF t, Rising
  <2> QED
    BY <2>2, <2>4, <2>5, <2>6
<1> QED
  BY <1>2, <1>3

-------------------------------------------------------------------------------
(* The buffers of a block: no letter twice, those of a part in order.      *)
Full(p) == FlattenSeq(ChunksOf[p])
Flows == {p \in Parts : BlockOf[p] \in {"text", "reasoning"}}

Distinct(text) ==
    \A i, j \in DOMAIN text :
       i < j /\ Blank \notin {text[i], text[j]} =>
          /\ text[i] # text[j]
          /\ \A p \in Parts : {text[i], text[j]} \subseteq Ink(Full(p)) => text[i] < text[j]

(* What a block holds of a part is known of the part, and only its own     *)
(* block holds any of it.                                                  *)
Good(buffers, known) ==
    \A b \in {"text", "reasoning"} :
       /\ Distinct(buffers[b])
       /\ \A q \in Parts :
             Ink(buffers[b]) \cap Ink(Full(q))
                \subseteq IF BlockOf[q] = b THEN Ink(known[q]) ELSE {}

LEMMA GoodMonotone ==
    ASSUME NEW buffers, NEW known, NEW known2, Good(buffers, known),
           \A q \in Flows : Ink(known[q]) \subseteq Ink(known2[q])
    PROVE  Good(buffers, known2)
BY DEF Good, Flows

LEMMA DistinctMore ==
    ASSUME NEW a \in Texts, NEW x \in Texts, NEW p \in Parts, Distinct(a), Rising(x),
           Ink(x) \subseteq Ink(Full(p)),
           \A u \in Ink(a) \cap Ink(Full(p)), v \in Ink(x) : u < v
    PROVE  Distinct(a \o x)
<1> DEFINE t == a \o x
           m == Len(a)
           n == Len(x)
<1>1. /\ t \in Texts /\ Len(t) = m + n
      /\ \A i \in 1..m : t[i] = a[i]
      /\ \A i \in 1..n : t[m + i] = x[i]
      /\ \A i \in 1..(m + n) : i \in 1..m \/ \E k \in 1..n : i = m + k
  BY JoinFacts
<1>2. /\ m \in Nat /\ n \in Nat /\ DOMAIN t = 1..(m + n)
      /\ DOMAIN a = 1..m /\ DOMAIN x = 1..n
  BY <1>1, TextFacts
<1>3. /\ \A i \in 1..m : a[i] # Blank => a[i] \in Ink(a) /\ a[i] \in Nat
      /\ \A i \in 1..n : x[i] # Blank => x[i] \in Ink(x) /\ x[i] \in Nat
  BY TextFacts
<1>4. ASSUME NEW q \in Parts, Ink(x) \cap Ink(Full(q)) # {} PROVE q = p
  BY <1>4, LettersAssumption DEF Full
<1> HIDE DEF t, m, n
<1> SUFFICES ASSUME NEW i \in 1..(m + n), NEW j \in 1..(m + n), i < j,
                    t[i] # Blank, t[j] # Blank
             PROVE  /\ t[i] # t[j]
                    /\ \A q \in Parts : {t[i], t[j]} \subseteq Ink(Full(q)) => t[i] < t[j]
  BY <1>2 DEF Distinct, t
<1>5. CASE i \in 1..m /\ j \in 1..m
  BY <1>1, <1>2, <1>5 DEF Distinct
<1>6. ASSUME i \in 1..m, NEW l \in 1..n, j = m + l
      PROVE  /\ t[i] # t[j]
             /\ \A q \in Parts : {t[i], t[j]} \subseteq Ink(Full(q)) => t[i] < t[j]
  <2>1. t[i] \in Ink(a) /\ t[j] \in Ink(x) /\ t[i] \in Nat /\ t[j] \in Nat
    BY <1>1, <1>3, <1>6
  <2>2. t[i] # t[j]
    <3> SUFFICES ASSUME t[i] = t[j] PROVE FALSE
      OBVIOUS
    <3>1. t[j] < t[j]
      BY <2>1
    <3> QED
      BY <2>1, <3>1
  <2>3. ASSUME NEW q \in Parts, {t[i], t[j]} \subseteq Ink(Full(q)) PROVE t[i] < t[j]
    <3>1. q = p
      BY <1>4, <2>1, <2>3
    <3> QED
      BY <2>1, <2>3, <3>1
  <2> QED
    BY <2>2, <2>3
<1>7. ASSUME NEW k \in 1..n, i = m + k, NEW l \in 1..n, j = m + l
      PROVE  t[i] # t[j] /\ t[i] < t[j]
  <2>0. t[i] = x[k] /\ t[j] = x[l] /\ k < l
    BY <1>1, <1>2, <1>7
  <2>1. t[i] = x[k] /\ t[j] = x[l] /\ k < l /\ t[i] \in Nat /\ t[j] \in Nat
    BY <1>3, <1>7, <2>0
  <2>2. x[k] < x[l]
    BY <1>2, <2>1 DEF Rising
  <2> QED
    BY <2>1, <2>2
<1>8. ASSUME NEW k \in 1..n, i = m + k, j \in 1..m PROVE FALSE
  BY <1>2, <1>8
<1> QED
  BY <1>1, <1>5, <1>6, <1>7, <1>8

(* A chunk whose letters come after all that is known of its part keeps    *)
(* the buffers good, registered or dropped.                                *)
LEMMA EmitKeeps ==
    ASSUME NEW o, Growing(o), NEW known \in [Parts -> Texts], Good(o.buffers, known),
           NEW p \in Parts, BlockOf[p] # "step", NEW x \in Texts,
           p \in Flows => Rising(known[p] \o x) /\ Ink(x) \subseteq Ink(Full(p))
    PROVE  Good(EmitChunk(o, Chunk(p, x)).buffers, [known EXCEPT ![p] = known[p] \o x])
<1> DEFINE after == EmitChunk(o, Chunk(p, x)).buffers
           known2 == [known EXCEPT ![p] = known[p] \o x]
<1>1. o \in Out /\ o.buffers \in [Blocks -> Texts]
  BY DEF Growing, Out
<1>2. /\ known2 \in [Parts -> Texts] /\ known2[p] = known[p] \o x
      /\ \A q \in Parts : q # p => known2[q] = known[q]
      /\ \A q \in Parts : Ink(known[q]) \subseteq Ink(known2[q])
  <2>1. PICK y \in Texts : y = known[p] \o x /\ Ink(y) = Ink(known[p]) \cup Ink(x)
    <3>1. known[p] \in Texts
      OBVIOUS
    <3> QED
      BY <3>1, JoinFacts, InkJoin
  <2>2. known2 = [known EXCEPT ![p] = y]
    BY <2>1
  <2> HIDE DEF known2
  <2> QED
    BY <2>1, <2>2
<1>3. ASSUME NEW b \in {"text", "reasoning"}
      PROVE  \/ after[b] = o.buffers[b]
             \/ BlockOf[p] = b /\ p \in Flows /\ after[b] = o.buffers[b] \o x
  <2>1. CASE IsEcho(o, Chunk(p, x))
    BY <1>1, <2>1 DEF EmitChunk, Out
  <2>2. CASE ~IsEcho(o, Chunk(p, x))
    BY <1>1, <2>2, PartsAssumption DEF EmitChunk, Register, Chunk, Out, Blocks, Flows
  <2> QED
    BY <2>1, <2>2
<1> HIDE DEF after, known2
<1>4. ASSUME NEW b \in {"text", "reasoning"}
      PROVE  /\ Distinct(after[b])
             /\ \A q \in Parts :
                   Ink(after[b]) \cap Ink(Full(q))
                      \subseteq IF BlockOf[q] = b THEN Ink(known2[q]) ELSE {}
  <2> DEFINE old == o.buffers[b]
  <2>1. /\ old \in Texts /\ Distinct(old)
        /\ \A q \in Parts :
              Ink(old) \cap Ink(Full(q)) \subseteq IF BlockOf[q] = b THEN Ink(known[q]) ELSE {}
    BY <1>1 DEF Good, Blocks
  <2> HIDE DEF old
  <2>2. CASE after[b] = old
    BY <1>2, <2>1, <2>2
  <2>3. CASE BlockOf[p] = b /\ p \in Flows /\ after[b] = old \o x
    <3>1. /\ Rising(x) /\ Comes(known[p], x) /\ Ink(x) \subseteq Ink(Full(p))
      BY <2>3, RisingJoin
    <3>2. \A u \in Ink(old) \cap Ink(Full(p)), v \in Ink(x) : u < v
      BY <2>1, <2>3, <3>1 DEF Comes
    <3>3. Distinct(after[b])
      BY <2>1, <2>3, <3>1, <3>2, DistinctMore
    <3>4. Ink(after[b]) = Ink(old) \cup Ink(x) /\ Ink(known2[p]) = Ink(known[p]) \cup Ink(x)
      BY <1>2, <2>1, <2>3, InkJoin
    <3>5. ASSUME NEW q \in Parts, q # p PROVE Ink(x) \cap Ink(Full(q)) = {}
      BY <3>1, <3>5, LettersAssumption DEF Full
    <3>6. ASSUME NEW q \in Parts
          PROVE  Ink(after[b]) \cap Ink(Full(q))
                    \subseteq IF BlockOf[q] = b THEN Ink(known2[q]) ELSE {}
      BY <1>2, <2>1, <2>3, <3>4, <3>5
    <3> QED
      BY <3>3, <3>6
  <2> QED
    BY <1>3, <2>2, <2>3 DEF old
<1>5. Good(after, known2)
  BY <1>4 DEF Good
<1> QED
  BY <1>5 DEF after, known2

LEMMA EmitsKeep ==
    ASSUME Growing(out), NEW known \in [Parts -> Texts], Good(out.buffers, known),
           NEW p \in Parts, BlockOf[p] # "step", NEW texts \in Seq(Texts),
           p \in Flows => /\ Rising(known[p] \o FlattenSeq(texts))
                          /\ Ink(FlattenSeq(texts)) \subseteq Ink(Full(p))
    PROVE  Good(EmitChunks([i \in DOMAIN texts |-> Chunk(p, texts[i])]).buffers,
                [known EXCEPT ![p] = known[p] \o FlattenSeq(texts)])
<1> DEFINE n == Len(texts)
           chunks == [i \in DOMAIN texts |-> Chunk(p, texts[i])]
           after == CHOOSE f : Emits(f, chunks, n)
           learnt(k) == [known EXCEPT ![p] = known[p] \o First(texts, k)]
<1>1. n \in Nat /\ DOMAIN texts = 1..n /\ \A i \in 1..n : texts[i] \in Texts
  BY LenProperties, ElementOfSeq
<1>2. Len(chunks) = n /\ \A i \in 1..n : chunks[i] = Chunk(p, texts[i]) /\ chunks[i] \in Chunks
  BY <1>1, ChunkTyped
<1> HIDE DEF n, chunks
<1>3. EmitChunks(chunks) = after[n]
  BY <1>2 DEF EmitChunks, Emits
<1>4. Emits(after, chunks, n)
  BY <1>1, EmitsExists
<1> HIDE DEF after
<1>5. \A i \in 0..n :
         after[i] = IF i = 0 THEN out ELSE EmitChunk(after[i - 1], chunks[i])
  BY <1>4 DEF Emits
<1>6. /\ First(texts, 0) = <<>> /\ First(texts, n) = FlattenSeq(texts)
      /\ \A k \in 0..n : First(texts, k) \in Texts
      /\ \A k \in 0..(n - 1) : First(texts, k + 1) = First(texts, k) \o texts[k + 1]
  BY FirstTexts DEF n
<1> DEFINE T == {k \in Nat : k \in 0..n =>
                    Growing(after[k]) /\ Good(after[k].buffers, learnt(k))}
<1>7. 0 \in T
  <2>1. known[p] \o <<>> = known[p]
    BY ConcatEmptySeq DEF Texts
  <2>2. learnt(0) = known
    BY <1>6, <2>1
  <2> HIDE DEF learnt
  <2> QED
    BY <1>1, <1>5, <2>2
<1>8. ASSUME NEW k \in Nat, k \in T PROVE k + 1 \in T
  <2> SUFFICES ASSUME k + 1 \in 0..n
               PROVE  Growing(after[k + 1]) /\ Good(after[k + 1].buffers, learnt(k + 1))
    OBVIOUS
  <2>1. k \in 0..(n - 1) /\ k \in 0..n /\ k + 1 \in 1..n /\ (k + 1) - 1 = k /\ k + 1 # 0
    BY <1>1
  <2>2. after[k + 1] = EmitChunk(after[k], Chunk(p, texts[k + 1]))
    BY <1>2, <1>5, <2>1
  <2>3. Growing(after[k]) /\ Good(after[k].buffers, learnt(k))
    BY <1>8, <2>1
  <2> DEFINE x == texts[k + 1]
             had == First(texts, k)
  <2>4. x \in Texts /\ had \in Texts /\ First(texts, k + 1) = had \o x
    BY <1>1, <1>6, <2>1
  <2>5. Growing(after[k + 1])
    <3>1. Chunk(p, texts[k + 1]) \in Chunks
      BY <1>2, <2>1
    <3> QED
      BY <2>2, <2>3, <3>1, EmitGrows
  <2> HIDE DEF x, had
  <2>6. known[p] \o (had \o x) = (known[p] \o had) \o x
    <3>1. known[p] \in Texts
      OBVIOUS
    <3> QED
      BY <2>4, <3>1, JoinAssociates, Zenon
  <2>7. /\ learnt(k) \in [Parts -> Texts] /\ learnt(k)[p] = known[p] \o had
        /\ learnt(k + 1) = [learnt(k) EXCEPT ![p] = (known[p] \o had) \o x]
    BY <2>4, <2>6, JoinFacts DEF had
  <2>8. ASSUME p \in Flows
        PROVE  Rising((known[p] \o had) \o x) /\ Ink(x) \subseteq Ink(Full(p))
    <3>1. /\ Rising(known[p] \o First(texts, k + 1))
          /\ Ink(First(texts, k + 1)) \subseteq Ink(FlattenSeq(texts))
      <4>1. k + 1 \in 0..Len(texts) /\ known[p] \in Texts
        BY <2>1 DEF n
      <4> QED
        BY <2>8, <4>1, FirstRises
    <3>2. Ink(x) \subseteq Ink(First(texts, k + 1))
      BY <2>4, InkJoin
    <3> QED
      BY <2>4, <2>6, <2>8, <3>1, <3>2
  <2> HIDE DEF learnt
  <2>9. Good(EmitChunk(after[k], Chunk(p, x)).buffers, learnt(k + 1))
    <3> DEFINE f == after[k]
               have == learnt(k)
    <3>1. have[p] = known[p] \o had /\ learnt(k + 1) = [have EXCEPT ![p] = have[p] \o x]
      BY <2>7
    <3>2. p \in Flows => Rising(have[p] \o x) /\ Ink(x) \subseteq Ink(Full(p))
      BY <2>8, <3>1
    <3>3. Growing(f) /\ Good(f.buffers, have) /\ have \in [Parts -> Texts]
      BY <2>3, <2>7
    <3> HIDE DEF f, have
    <3>4. Good(EmitChunk(f, Chunk(p, x)).buffers, [have EXCEPT ![p] = have[p] \o x])
      BY <2>4, <3>2, <3>3, EmitKeeps
    <3> QED
      BY <3>1, <3>4 DEF f
  <2> QED
    BY <2>2, <2>5, <2>9 DEF x
<1>9. Nat \subseteq T
  <2> HIDE DEF T
  <2> QED
    BY <1>7, <1>8, SetInduction
<1>10. Good(after[n].buffers, learnt(n))
  <2>1. n \in 0..n
    BY <1>1
  <2> HIDE DEF learnt
  <2> QED
    BY <1>1, <1>9, <2>1
<1> QED
  BY <1>3, <1>6, <1>10 DEF chunks

-------------------------------------------------------------------------------
(* What the consumer knows of a part: what it has read, and what came too  *)
(* early to be taken.                                                      *)
Buffers == [q \in Parts |-> BufferOf(q)]
Seen(p) == BufferOf(p) \o FlattenSeq(pending[p])

LateInv == \A p \in Parts : pending[p] # <<>> => state[p] = None
KnownInv == \A p \in Flows : /\ Rising(Seen(p))
                             /\ Ink(Seen(p)) \subseteq Ink(First(ChunksOf[p], written[p]))

LEMMA SeenTexts ==
    ASSUME ConsumerTyped
    PROVE  /\ Buffers \in [Parts -> Texts]
           /\ \A p \in Parts :
                 /\ Buffers[p] = BufferOf(p) /\ BufferOf(p) \in Texts
                 /\ pending[p] \in Seq(Texts) /\ FlattenSeq(pending[p]) \in Texts
                 /\ Seen(p) \in Texts
<1>1. \A p \in Parts : BufferOf(p) \in Texts
  BY EmptySeq DEF ConsumerTyped, BufferOf, Texts
<1>2. \A p \in Parts : pending[p] \in Seq(Texts) /\ FlattenSeq(pending[p]) \in Texts
  BY FlattenTexts DEF ConsumerTyped
<1>3. \A p \in Parts : Seen(p) \in Texts
  BY <1>1, <1>2, JoinFacts DEF Seen
<1> QED
  BY <1>1, <1>2, <1>3 DEF Buffers

(* What upstream has written of a part is in order, and the next chunk     *)
(* comes after whatever was seen of it.                                    *)
LEMMA WrittenRises ==
    ASSUME NEW p \in Flows, NEW n \in 0..Len(ChunksOf[p])
    PROVE  /\ First(ChunksOf[p], n) \in Texts /\ Rising(First(ChunksOf[p], n))
           /\ Ink(First(ChunksOf[p], n)) \subseteq Ink(Full(p))
<1>1. ChunksOf[p] \in Seq(Texts) /\ <<>> \in Texts
  BY PartsAssumption, EmptySeq DEF Flows, Texts
<1>2. FlattenSeq(ChunksOf[p]) \in Texts /\ First(ChunksOf[p], n) \in Texts
  BY <1>1, FlattenTexts, FirstTexts
<1>3. ASSUME NEW t \in Texts PROVE <<>> \o t = t
  BY ConcatEmptySeq DEF Texts
<1>4. Rising(FlattenSeq(ChunksOf[p]))
  BY LettersAssumption DEF Flows
<1>5. Rising(<<>> \o FlattenSeq(ChunksOf[p]))
  BY <1>2, <1>3, <1>4
<1>6. Rising(<<>> \o First(ChunksOf[p], n))
      /\ Ink(First(ChunksOf[p], n)) \subseteq Ink(FlattenSeq(ChunksOf[p]))
  BY <1>1, <1>5, FirstRises
<1> QED
  BY <1>2, <1>3, <1>6 DEF Full

LEMMA NextChunkComes ==
    ASSUME NEW p \in Flows, NEW n \in Nat, n < Len(ChunksOf[p]), NEW a \in Texts,
           Rising(a), Ink(a) \subseteq Ink(First(ChunksOf[p], n))
    PROVE  LET chunk == ChunksOf[p][n + 1]
           IN  /\ chunk \in Texts /\ Rising(a \o chunk)
               /\ Ink(First(ChunksOf[p], n + 1)) = Ink(First(ChunksOf[p], n)) \cup Ink(chunk)
               /\ Ink(chunk) \subseteq Ink(Full(p))
<1> DEFINE chunk == ChunksOf[p][n + 1]
           f == First(ChunksOf[p], n)
<1>1. ChunksOf[p] \in Seq(Texts) /\ Len(ChunksOf[p]) \in Nat
  BY PartsAssumption, LenProperties DEF Flows
<1>2. /\ n \in 0..(Len(ChunksOf[p]) - 1) /\ n \in 0..Len(ChunksOf[p])
      /\ n + 1 \in 0..Len(ChunksOf[p])
  BY <1>1
<1>3. chunk \in Texts /\ f \in Texts /\ First(ChunksOf[p], n + 1) = f \o chunk
  BY <1>1, <1>2, FirstTexts
<1>4. Rising(f \o chunk) /\ Ink(f \o chunk) \subseteq Ink(Full(p))
  BY <1>2, <1>3, WrittenRises
<1> HIDE DEF chunk, f
<1>5. Ink(f \o chunk) = Ink(f) \cup Ink(chunk)
  BY <1>3, InkJoin
<1>6. Rising(chunk) /\ Comes(f, chunk)
  BY <1>3, <1>4, RisingJoin
<1>7. Comes(a, chunk)
  BY <1>6 DEF Comes, f
<1>8. Rising(a \o chunk)
  BY <1>3, <1>6, <1>7, RisingJoin
<1> QED
  BY <1>3, <1>4, <1>5, <1>8 DEF chunk, f

(* Reading something of a part: what is known of it stays in order, and    *)
(* the buffers stay good.                                                  *)
Learns(p, ink) ==
    /\ LateInv' /\ Good(out'.buffers, Buffers')
    /\ \A q \in Parts \ {p} : Seen(q)' = Seen(q)
    /\ p \in Flows => Rising(Seen(p)') /\ Ink(Seen(p)') \subseteq ink

LEMMA DeltaLearns ==
    ASSUME ConsumerTyped, Growing(out), LateInv, Good(out.buffers, Buffers),
           NEW p \in Flows, NEW delta \in Texts, Rising(Seen(p) \o delta),
           Ink(delta) \subseteq Ink(Full(p)), ConsumeDelta(p, delta)
    PROVE  Learns(p, Ink(Seen(p)) \cup Ink(delta))
<1>0. p \in Parts /\ BlockOf[p] # "step"
  BY DEF Flows
<1>1. /\ Buffers[p] = BufferOf(p) /\ BufferOf(p) \in Texts
      /\ pending[p] \in Seq(Texts) /\ FlattenSeq(pending[p]) \in Texts
      /\ Seen(p) \in Texts /\ Buffers \in [Parts -> Texts]
  BY <1>0, SeenTexts
<1>2. Ink(Seen(p) \o delta) = Ink(Seen(p)) \cup Ink(delta) /\ Rising(Seen(p))
  BY <1>1, InkJoin, RisingJoin
<1>3. CASE state[p] = None
  <2>1. /\ pending' = [pending EXCEPT ![p] = Append(pending[p], delta)]
        /\ UNCHANGED <<state, out>>
    BY <1>3 DEF ConsumeDelta
  <2>2. /\ \A q \in Parts : BufferOf(q)' = BufferOf(q)
        /\ pending'[p] = Append(pending[p], delta)
        /\ \A q \in Parts \ {p} : pending'[q] = pending[q]
    BY <1>0, <2>1 DEF BufferOf, ConsumerTyped
  <2>3. Buffers' = Buffers
    BY <2>2 DEF Buffers
  <2>4. Seen(p)' = Seen(p) \o delta
    <3>1. FlattenSeq(pending'[p]) = FlattenSeq(pending[p]) \o delta
      BY <1>1, <2>2, FlattenOneMore
    <3>2. Seen(p)' = BufferOf(p) \o (FlattenSeq(pending[p]) \o delta)
      BY <1>0, <2>2, <3>1 DEF Seen
    <3> QED
      BY <1>1, <3>2, JoinAssociates DEF Seen
  <2>5. LateInv'
    BY <1>3, <2>1, <2>2 DEF LateInv
  <2>6. \A q \in Parts \ {p} : Seen(q)' = Seen(q)
    BY <2>2 DEF Seen
  <2>7. Good(out'.buffers, Buffers')
    BY <2>1, <2>3
  <2> QED
    BY <1>2, <2>4, <2>5, <2>6, <2>7 DEF Learns
<1>4. CASE state[p] # None /\ RoleOf[p] = "user"
  <2>1. UNCHANGED <<state, pending, out>>
    BY <1>4 DEF ConsumeDelta, consumerVars
  <2>2. \A q \in Parts : BufferOf(q)' = BufferOf(q) /\ Seen(q)' = Seen(q)
    BY <2>1 DEF BufferOf, Seen
  <2>3. Buffers' = Buffers /\ LateInv'
    BY <2>1, <2>2 DEF Buffers, LateInv
  <2> QED
    BY <1>0, <1>2, <2>1, <2>2, <2>3 DEF Learns
<1>5. CASE state[p] # None /\ RoleOf[p] # "user"
  <2> DEFINE texts == <<delta>>
             chunks == [i \in DOMAIN texts |-> Chunk(p, texts[i])]
  <2>1. /\ state' = [state EXCEPT ![p] = state[p] \o delta]
        /\ out' = EmitChunks(<<Chunk(p, delta)>>) /\ pending' = pending
    BY <1>5 DEF ConsumeDelta
  <2>2. chunks = <<Chunk(p, delta)>>
    OBVIOUS
  <2>3. texts \in Seq(Texts) /\ FlattenSeq(texts) = delta
    <3>1. <<>> \in Seq(Texts) /\ FlattenSeq(<<>>) = <<>> /\ Append(<<>>, delta) = <<delta>>
      BY EmptySeq DEF FlattenSeq
    <3>2. FlattenSeq(<<delta>>) = <<>> \o delta
      BY <3>1, FlattenOneMore
    <3>3. <<>> \o delta = delta
      BY ConcatEmptySeq DEF Texts
    <3> QED
      BY <3>2, <3>3
  <2>4. pending[p] = <<>> /\ BufferOf(p) = state[p] /\ Seen(p) = state[p]
    <3>1. pending[p] = <<>> /\ BufferOf(p) = state[p]
      BY <1>0, <1>5 DEF LateInv, BufferOf
    <3>2. FlattenSeq(pending[p]) = <<>>
      BY <3>1, EmptySeq DEF FlattenSeq
    <3>3. Seen(p) = BufferOf(p) \o <<>>
      BY <3>2 DEF Seen
    <3> QED
      BY <1>1, <3>1, <3>3, ConcatEmptySeq DEF Texts
  <2>5. /\ state'[p] = state[p] \o delta /\ state'[p] # None
        /\ \A q \in Parts \ {p} : state'[q] = state[q]
    <3>1. state[p] \o delta \in Texts
      BY <1>1, <2>4, JoinFacts
    <3> QED
      BY <1>0, <2>1, <3>1, PartsAssumption DEF ConsumerTyped
  <2>6. /\ \A q \in Parts \ {p} : BufferOf(q)' = BufferOf(q) /\ Seen(q)' = Seen(q)
        /\ BufferOf(p)' = state[p] \o delta
    BY <2>1, <2>5 DEF BufferOf, Seen
  <2>7. Seen(p)' = Seen(p) \o delta
    <3>1. FlattenSeq(pending'[p]) = <<>>
      BY <2>1, <2>4, EmptySeq DEF FlattenSeq
    <3>2. Seen(p)' = (state[p] \o delta) \o <<>>
      BY <2>6, <3>1 DEF Seen
    <3>3. state[p] \o delta \in Texts
      BY <1>1, <2>4, JoinFacts
    <3> QED
      BY <2>4, <3>2, <3>3, ConcatEmptySeq DEF Texts
  <2>8. Buffers' = [Buffers EXCEPT ![p] = Buffers[p] \o delta]
    BY <1>0, <1>1, <2>4, <2>6 DEF Buffers
  <2>9. Good(EmitChunks(chunks).buffers,
             [Buffers EXCEPT ![p] = Buffers[p] \o FlattenSeq(texts)])
    <3>1. /\ Rising(Buffers[p] \o FlattenSeq(texts))
          /\ Ink(FlattenSeq(texts)) \subseteq Ink(Full(p))
      BY <1>1, <2>3, <2>4
    <3> HIDE DEF texts
    <3> QED
      BY <1>0, <1>1, <2>3, <3>1, EmitsKeep
  <2>10. Good(out'.buffers, Buffers')
    BY <2>1, <2>2, <2>3, <2>8, <2>9
  <2>11. LateInv'
    BY <2>1, <2>4, <2>5 DEF LateInv
  <2> QED
    BY <1>2, <2>6, <2>7, <2>10, <2>11 DEF Learns
<1> QED
  BY <1>3, <1>4, <1>5

(* What a whole text adds to what is known of it makes up the whole text.  *)
LEMMA SnapshotAdds ==
    ASSUME NEW early \in Texts, NEW whole \in Texts
    PROVE  LET added == SnapshotChunks(early, whole)
           IN  \/ added = <<>>
               \/ \E rest \in Texts : added = <<rest>> /\ early \o rest = whole
<1>1. CASE /\ whole # early /\ whole # <<>> /\ IsPrefix(early, whole)
  <2> DEFINE m == Len(early)
             n == Len(whole)
             rest == SubSeq(whole, m + 1, n)
  <2>1. SnapshotChunks(early, whole) = <<rest>>
    BY <1>1 DEF SnapshotChunks
  <2>2. /\ m \in Nat /\ n \in Nat /\ \A i \in 1..n : whole[i] \in Nat
        /\ \A i \in 1..m : early[i] \in Nat
    BY TextFacts
  <2>3. m <= n /\ \A i \in 1..m : early[i] = whole[i]
    <3>1. m <= n /\ SubSeq(early, 1, m) = SubSeq(whole, 1, m)
      BY <1>1 DEF IsPrefix
    <3>2. /\ 1 \in Int /\ m \in Int /\ m - 1 + 1 = m
          /\ \A i \in 1..m : early[i] \in Nat /\ whole[i] \in Nat /\ 1 + i - 1 = i
      BY <2>2, <3>1
    <3> HIDE DEF m, n
    <3>3. \A i \in 1..m : SubSeq(early, 1, m)[i] = early[i]
      BY <3>2, SubSeqProperties
    <3>4. \A i \in 1..m : SubSeq(whole, 1, m)[i] = whole[i]
      BY <3>2, SubSeqProperties
    <3> QED
      BY <3>1, <3>3, <3>4
  <2>4. /\ rest \in Texts /\ Len(rest) = n - m
        /\ \A i \in 1..(n - m) : rest[i] = whole[m + i]
    <3>1. /\ m + 1 \in Int /\ n \in Int /\ n - (m + 1) + 1 = n - m
          /\ \A i \in (m + 1)..n : whole[i] \in Nat
          /\ \A i \in 1..(n - m) : (m + 1) + i - 1 = m + i
      BY <2>2
    <3> HIDE DEF m, n
    <3> QED
      BY <2>2, <2>3, <3>1, SubSeqProperties DEF Texts
  <2> HIDE DEF m, n, rest
  <2>5. early \o rest = whole
    <3>1. /\ early \o rest \in Texts /\ Len(early \o rest) = m + Len(rest)
          /\ \A i \in 1..m : (early \o rest)[i] = early[i]
          /\ \A i \in 1..Len(rest) : (early \o rest)[m + i] = rest[i]
          /\ \A i \in 1..(m + Len(rest)) :
                i \in 1..m \/ \E k \in 1..Len(rest) : i = m + k
      BY <2>4, JoinFacts DEF m
    <3>2. m + Len(rest) = n
      BY <2>2, <2>3, <2>4
    <3>3. \A i \in 1..n : (early \o rest)[i] = whole[i]
      BY <2>3, <2>4, <3>1, <3>2
    <3> QED
      BY <3>1, <3>2, <3>3, SeqEqual DEF Texts, n
  <2> QED
    BY <2>1, <2>4, <2>5
<1>2. CASE ~(/\ whole # early /\ whole # <<>> /\ IsPrefix(early, whole))
  BY <1>2 DEF SnapshotChunks
<1> QED
  BY <1>1, <1>2

(* The whole text an update shows, or the delta it brings.                 *)
LEMMA UpdateLearns ==
    ASSUME ConsumerTyped, Growing(out), LateInv, Good(out.buffers, Buffers),
           NEW p \in Parts, NEW delta \in Texts, Shown(p) \in Texts,
           p \in Flows => /\ Rising(Shown(p)) /\ Ink(Shown(p)) \subseteq Ink(Full(p))
                          /\ Rising(Seen(p) \o delta)
                          /\ Ink(Seen(p)) \cup Ink(delta) \subseteq Ink(Shown(p)),
           ConsumeUpdate(p, delta)
    PROVE  Learns(p, Ink(Shown(p)))
<1> DEFINE early == BufferOf(p) \o FlattenSeq(pending[p])
           whole == Strip(Shown(p))
           added == IF delta # <<>> THEN <<delta>>
                    ELSE IF BlockOf[p] # "tool" THEN SnapshotChunks(early, whole)
                    ELSE IF whole \in {<<>>, early} THEN <<>> ELSE <<whole>>
           texts == pending[p] \o added
           chunks == [i \in DOMAIN texts |-> Chunk(p, texts[i])]
           buffer == IF delta # <<>> THEN early \o delta
                     ELSE IF whole = <<>> THEN early ELSE whole
<1>1. /\ Buffers[p] = BufferOf(p) /\ BufferOf(p) \in Texts
      /\ pending[p] \in Seq(Texts) /\ FlattenSeq(pending[p]) \in Texts
      /\ early \in Texts /\ Seen(p) = early /\ Buffers \in [Parts -> Texts]
  <2>1. Seen(p) = early
    BY DEF Seen
  <2> HIDE DEF early
  <2> QED
    BY <2>1, SeenTexts
<1>2. whole \in Texts /\ Ink(whole) = Ink(Shown(p)) /\ (p \in Flows => Rising(whole))
  BY StripTexts, StripKeeps
<1>3. pending' = [pending EXCEPT ![p] = <<>>]
  BY DEF ConsumeUpdate
<1>4. /\ pending'[p] = <<>> /\ \A q \in Parts \ {p} : pending'[q] = pending[q]
  BY <1>3 DEF ConsumerTyped
<1>5. ASSUME NEW t \in Texts, BufferOf(p)' = t PROVE Seen(p)' = t
  <2>1. FlattenSeq(pending'[p]) = <<>>
    BY <1>4, EmptySeq DEF FlattenSeq
  <2>2. Seen(p)' = t \o <<>>
    BY <1>5, <2>1 DEF Seen
  <2> QED
    BY <2>2, ConcatEmptySeq DEF Texts
<1>6. ASSUME \A q \in Parts \ {p} : state'[q] = state[q]
      PROVE  /\ \A q \in Parts \ {p} : BufferOf(q)' = BufferOf(q) /\ Seen(q)' = Seen(q)
             /\ LateInv'
  BY <1>4, <1>6 DEF BufferOf, Seen, LateInv
<1>7. CASE BlockOf[p] = "step"
  <2>1. out' = Progress(p) /\ UNCHANGED state
    BY <1>7 DEF ConsumeUpdate
  <2>2. out'.buffers = out.buffers
    BY <2>1 DEF Progress, Growing, Out
  <2>3. \A q \in Parts : BufferOf(q)' = BufferOf(q)
    BY <2>1 DEF BufferOf
  <2>4. Buffers' = Buffers /\ p \notin Flows
    BY <1>7, <2>3 DEF Buffers, Flows
  <2>5. LateInv' /\ \A q \in Parts \ {p} : Seen(q)' = Seen(q)
    BY <1>6, <2>1
  <2> QED
    BY <2>2, <2>4, <2>5 DEF Learns
<1>8. CASE BlockOf[p] # "step" /\ RoleOf[p] = "user"
  <2>1. state' = [state EXCEPT ![p] = BufferOf(p)] /\ UNCHANGED out
    BY <1>8 DEF ConsumeUpdate
  <2>2. state'[p] = BufferOf(p) /\ \A q \in Parts \ {p} : state'[q] = state[q]
    BY <2>1 DEF ConsumerTyped
  <2>3. BufferOf(p)' = BufferOf(p)
    BY <1>1, <2>2, PartsAssumption DEF BufferOf
  <2>4. \A q \in Parts : BufferOf(q)' = BufferOf(q)
    BY <1>6, <2>2, <2>3
  <2>5. Buffers' = Buffers /\ Seen(p)' = BufferOf(p)
    BY <1>1, <1>5, <2>3, <2>4 DEF Buffers
  <2>6. p \in Flows => Rising(BufferOf(p)) /\ Ink(BufferOf(p)) \subseteq Ink(Seen(p))
    <3>1. p \in Flows => Rising(Seen(p))
      BY <1>1, RisingJoin, SeenTexts
    <3> QED
      BY <1>1, <3>1, RisingJoin, InkJoin DEF Seen
  <2>7. LateInv' /\ \A q \in Parts \ {p} : Seen(q)' = Seen(q)
    BY <1>6, <2>2
  <2> QED
    BY <2>1, <2>5, <2>6, <2>7 DEF Learns
<1>9. CASE BlockOf[p] # "step" /\ RoleOf[p] # "user"
  <2>1. state' = [state EXCEPT ![p] = buffer] /\ out' = EmitChunks(chunks)
    BY <1>9 DEF ConsumeUpdate
  <2>2. \/ /\ added \in Seq(Texts) /\ p \notin Flows
        \/ added = <<>> /\ p \in Flows
        \/ \E more \in Texts :
              /\ added = <<more>> /\ p \in Flows
              /\ Rising(early \o more) /\ Ink(more) \subseteq Ink(Shown(p))
              /\ Ink(early \o more) \subseteq Ink(buffer)
    <3>1. CASE p \notin Flows
      <4> HIDE DEF early, whole
      <4>1. <<delta>> \in Seq(Texts) /\ <<whole>> \in Seq(Texts) /\ <<>> \in Seq(Texts)
        BY <1>2
      <4> QED
        BY <1>1, <1>2, <3>1, <4>1, SnapshotTyped
    <3>2. CASE p \in Flows /\ delta # <<>>
      <4>1. added = <<delta>> /\ buffer = early \o delta
        BY <3>2
      <4>2. Rising(early \o delta) /\ Ink(delta) \subseteq Ink(Shown(p))
        BY <1>1, <3>2
      <4> HIDE DEF added, buffer, early
      <4> QED
        BY <3>2, <4>1, <4>2
    <3>3. CASE p \in Flows /\ delta = <<>>
      <4>1. added = SnapshotChunks(early, whole)
        BY <3>3, PartsAssumption DEF Flows
      <4>2. buffer = IF whole = <<>> THEN early ELSE whole
        BY <3>3
      <4> HIDE DEF added, buffer, early, whole
      <4>3. \/ added = <<>>
            \/ \E rest \in Texts : added = <<rest>> /\ early \o rest = whole
        BY <1>1, <1>2, <4>1, SnapshotAdds
      <4>4. ASSUME NEW rest \in Texts, added = <<rest>>, early \o rest = whole
            PROVE  /\ Rising(early \o rest) /\ Ink(rest) \subseteq Ink(Shown(p))
                   /\ Ink(early \o rest) \subseteq Ink(buffer)
        <5>1. Ink(whole) = Ink(early) \cup Ink(rest)
          BY <1>1, <4>4, InkJoin
        <5>2. whole = <<>> => Ink(whole) = {}
          BY DEF Ink, ToSet
        <5> QED
          BY <1>2, <3>3, <4>2, <4>4, <5>1, <5>2
      <4> QED
        BY <3>3, <4>3, <4>4
    <3> QED
      BY <3>1, <3>2, <3>3
  <2>3. buffer \in Texts
    <3> HIDE DEF early, whole
    <3> QED
      BY <1>1, <1>2, JoinFacts
  <2>4. p \in Flows => /\ Rising(buffer) /\ Ink(buffer) \subseteq Ink(Shown(p))
                       /\ Ink(early) \subseteq Ink(buffer)
    <3> SUFFICES ASSUME p \in Flows
                 PROVE  /\ Rising(buffer) /\ Ink(buffer) \subseteq Ink(Shown(p))
                        /\ Ink(early) \subseteq Ink(buffer)
      OBVIOUS
    <3>1. /\ Rising(early \o delta) /\ Ink(early) \subseteq Ink(Shown(p))
          /\ Ink(delta) \subseteq Ink(Shown(p))
      BY <1>1
    <3> HIDE DEF early, whole
    <3>2. Ink(early \o delta) = Ink(early) \cup Ink(delta) /\ Rising(early)
      BY <1>1, <3>1, InkJoin, RisingJoin
    <3>3. whole = <<>> => Ink(whole) = {}
      BY DEF Ink, ToSet
    <3> QED
      BY <1>1, <1>2, <3>1, <3>2, <3>3
  <2> HIDE DEF buffer, early, whole, added
  <2>5. /\ state'[p] = buffer /\ BufferOf(p)' = buffer
        /\ \A q \in Parts \ {p} : state'[q] = state[q]
    BY <2>1, <2>3, PartsAssumption DEF ConsumerTyped, BufferOf
  <2>6. /\ Seen(p)' = buffer /\ LateInv'
        /\ \A q \in Parts \ {p} : Seen(q)' = Seen(q) /\ BufferOf(q)' = BufferOf(q)
    BY <1>5, <1>6, <2>3, <2>5
  <2>7. /\ Buffers'[p] = buffer /\ \A q \in Parts \ {p} : Buffers'[q] = Buffers[q]
    BY <2>5, <2>6 DEF Buffers
  <2>8. /\ texts \in Seq(Texts)
        /\ p \in Flows => /\ Rising(Buffers[p] \o FlattenSeq(texts))
                          /\ Ink(FlattenSeq(texts)) \subseteq Ink(Full(p))
                          /\ Ink(Buffers[p] \o FlattenSeq(texts)) \subseteq Ink(buffer)
    <3>1. CASE added \in Seq(Texts) /\ p \notin Flows
      BY <1>1, <3>1, ConcatProperties
    <3>2. CASE added = <<>> /\ p \in Flows
      <4>1. texts = pending[p]
        BY <1>1, <3>2, ConcatEmptySeq
      <4>2. Buffers[p] \o FlattenSeq(texts) = early
        BY <1>1, <4>1 DEF early
      <4>3. Ink(early) = Ink(Buffers[p]) \cup Ink(FlattenSeq(texts))
        BY <1>1, <4>1, <4>2, InkJoin
      <4>4. Rising(early)
        <5>1. Rising(early \o delta)
          BY <1>1, <3>2
        <5> QED
          BY <1>1, <5>1, RisingJoin
      <4>5. Ink(early) \subseteq Ink(Full(p))
        BY <1>1, <3>2
      <4> QED
        BY <1>1, <2>4, <3>2, <4>1, <4>2, <4>3, <4>4, <4>5
    <3>3. ASSUME NEW more \in Texts, added = <<more>>, p \in Flows,
                 Rising(early \o more), Ink(more) \subseteq Ink(Shown(p)),
                 Ink(early \o more) \subseteq Ink(buffer)
          PROVE  /\ texts \in Seq(Texts)
                 /\ Rising(Buffers[p] \o FlattenSeq(texts))
                 /\ Ink(FlattenSeq(texts)) \subseteq Ink(Full(p))
                 /\ Ink(Buffers[p] \o FlattenSeq(texts)) \subseteq Ink(buffer)
      <4>1. texts = Append(pending[p], more) /\ texts \in Seq(Texts)
        BY <1>1, <3>3, AppendIsConcat, AppendProperties
      <4>2. FlattenSeq(texts) = FlattenSeq(pending[p]) \o more
        BY <1>1, <4>1, FlattenOneMore
      <4>3. Buffers[p] \o FlattenSeq(texts) = early \o more
        <5>1. (BufferOf(p) \o FlattenSeq(pending[p])) \o more
                 = BufferOf(p) \o (FlattenSeq(pending[p]) \o more)
          <6>1. BufferOf(p) \in Texts /\ FlattenSeq(pending[p]) \in Texts
            BY <1>1
          <6> QED
            BY <6>1, TextsAssociate
        <5> QED
          BY <1>1, <4>2, <5>1, Zenon DEF early
      <4>4. Ink(FlattenSeq(texts)) \subseteq Ink(early) \cup Ink(more)
        <5>1. Ink(FlattenSeq(texts)) = Ink(FlattenSeq(pending[p])) \cup Ink(more)
          BY <1>1, <4>2, InkJoin
        <5>2. Ink(FlattenSeq(pending[p])) \subseteq Ink(early)
          BY <1>1, InkJoin DEF early
        <5> QED
          BY <5>1, <5>2
      <4>5. Ink(early) \cup Ink(more) \subseteq Ink(Full(p))
        BY <1>1, <3>3
      <4> QED
        BY <3>3, <4>1, <4>3, <4>4, <4>5
    <3> HIDE DEF texts
    <3> QED
      BY <2>2, <3>1, <3>2, <3>3
  <2> DEFINE learnt == [Buffers EXCEPT ![p] = Buffers[p] \o FlattenSeq(texts)]
  <2>9. Good(EmitChunks(chunks).buffers, learnt)
    <3> HIDE DEF texts
    <3> QED
      BY <1>1, <1>9, <2>8, EmitsKeep
  <2>10. \A q \in Flows : Ink(learnt[q]) \subseteq Ink(Buffers'[q])
    <3> HIDE DEF texts
    <3>1. \A q \in Parts \ {p} : learnt[q] = Buffers[q]
      BY <1>1
    <3>2. learnt[p] = Buffers[p] \o FlattenSeq(texts)
      BY <1>1
    <3> HIDE DEF learnt
    <3>3. \A q \in Flows : q \in Parts
      BY DEF Flows
    <3> QED
      BY <2>7, <2>8, <3>1, <3>2, <3>3
  <2>11. Good(out'.buffers, Buffers')
    <3> HIDE DEF learnt, chunks
    <3> QED
      BY <2>1, <2>9, <2>10, GoodMonotone
  <2> QED
    BY <2>4, <2>6, <2>11 DEF Learns
<1> QED
  BY <1>7, <1>8, <1>9

-------------------------------------------------------------------------------
(* Until the final status is sent the buffers are good, and what was       *)
(* streamed in a block repeats nothing.                                    *)
TextInv ==
    /\ LateInv /\ KnownInv
    /\ outcome # "completed" => Good(out.buffers, Buffers)
    /\ \A b \in {"text", "reasoning"} : Distinct(StreamedIn(out.sent, b))

LEMMA TextStart == StreamInit => TextInv
<1> SUFFICES ASSUME StreamInit PROVE TextInv
  OBVIOUS
<1>1. /\ out = OutInit /\ written = [p \in Parts |-> 0]
      /\ state = [p \in Parts |-> None] /\ pending = [p \in Parts |-> <<>>]
  BY DEF StreamInit
<1>2. Rising(<<>>) /\ Ink(<<>>) = {} /\ Distinct(<<>>)
  BY DEF Rising, Ink, ToSet, Distinct
<1>3. <<>> \in Texts /\ <<>> \o <<>> = <<>> /\ FlattenSeq(<<>>) = <<>>
  BY EmptySeq, ConcatEmptySeq DEF Texts, FlattenSeq
<1>4. \A p \in Parts : Seen(p) = <<>>
  BY <1>1, <1>3 DEF Seen, BufferOf
<1>5. LateInv /\ KnownInv
  BY <1>1, <1>2, <1>4 DEF LateInv, KnownInv, Flows
<1>6. Good(out.buffers, Buffers)
  BY <1>1, <1>2 DEF OutInit, Good, Blocks
<1>7. \A b \in {"text", "reasoning"} : StreamedIn(out.sent, b) = <<>>
  <2>1. Growing(out) \/ outcome = "completed"
    BY DeliveryStart DEF DeliveryInv
  <2>2. outcome = "none"
    BY DEF StreamInit
  <2> QED
    BY <1>1, <2>1, <2>2 DEF Growing, OutInit, Blocks
<1> QED
  BY <1>2, <1>5, <1>6, <1>7 DEF TextInv

(* What the consumer reads is the next chunk or what is written so far.    *)
LEMMA ConsumerLearns ==
    ASSUME StreamTypeOK, ScriptInv, LateInv, KnownInv,
           NEW p \in Parts, UpstreamWrites(p) \/ UpstreamRepeats(p),
           Reads => Growing(out) /\ Good(out.buffers, Buffers)
    PROVE  /\ LateInv' /\ KnownInv'
           /\ Reads => Good(out'.buffers, Buffers')
           /\ ~Reads => UNCHANGED consumerVars
<1>1. ConsumerTyped
  BY DEF StreamTypeOK, ConsumerTyped
<1>2. /\ \A q \in Parts : written'[q] \in 0..Len(ChunksOf[q])
      /\ Shown(p) \in Texts
  <2>1. Reads => Growing(out)
    OBVIOUS
  <2>2. \A q \in Parts : written'[q] \in 0..Len(ChunksOf[q])
    BY <2>1, ConsumerGrows
  <2> QED
    BY <2>2, ShownTexts
<1> DEFINE n == written[p]
           f(k) == First(ChunksOf[p], k)
<1>3. /\ n \in Nat /\ n \in 0..Len(ChunksOf[p]) /\ Len(ChunksOf[p]) \in Nat
      /\ \A q \in Parts \ {p} : written'[q] = written[q]
      /\ written'[p] \in 0..Len(ChunksOf[p])
  BY <1>2, LenProperties, PartsAssumption
     DEF UpstreamWrites, UpstreamRepeats, StreamTypeOK
<1>4. \/ written'[p] = n
      \/ written'[p] = n + 1 /\ n < Len(ChunksOf[p])
  BY <1>3 DEF UpstreamWrites, UpstreamRepeats, StreamTypeOK
<1>5. ASSUME p \in Flows
      PROVE  /\ Shown(p) = f(written'[p]) /\ Rising(Shown(p))
             /\ Ink(Shown(p)) \subseteq Ink(Full(p))
             /\ Rising(Seen(p)) /\ Ink(Seen(p)) \subseteq Ink(Shown(p))
             /\ Ink(f(n)) \subseteq Ink(f(written'[p]))
  <2>1. Shown(p) = f(written'[p])
    BY <1>5 DEF Shown, First, Flows
  <2>2. Rising(Seen(p)) /\ Ink(Seen(p)) \subseteq Ink(f(n)) /\ Seen(p) \in Texts
    BY <1>1, <1>5, SeenTexts DEF KnownInv
  <2>3. Rising(f(written'[p])) /\ Ink(f(written'[p])) \subseteq Ink(Full(p))
    BY <1>3, <1>5, WrittenRises
  <2>4. Ink(f(n)) \subseteq Ink(f(written'[p]))
    <3>1. CASE written'[p] = n
      BY <3>1
    <3>2. CASE written'[p] = n + 1 /\ n < Len(ChunksOf[p])
      <4> DEFINE a == Seen(p)
                 c == ChunksOf[p]
      <4>1. Ink(First(c, n + 1)) = Ink(First(c, n)) \cup Ink(c[n + 1])
        BY <1>3, <1>5, <2>2, <3>2, NextChunkComes
      <4> HIDE DEF n
      <4> QED
        BY <3>2, <4>1
    <3> QED
      BY <1>4, <3>1, <3>2
  <2> HIDE DEF f, n
  <2> QED
    BY <2>1, <2>2, <2>3, <2>4
<1>6. CASE ~Reads
  <2>1. UNCHANGED consumerVars
    BY <1>6 DEF UpstreamWrites, UpstreamRepeats
  <2>2. \A q \in Parts : Seen(q)' = Seen(q)
    BY <2>1 DEF consumerVars, Seen, BufferOf
  <2>3. LateInv'
    BY <2>1 DEF consumerVars, LateInv
  <2>4. ASSUME NEW q \in Flows
        PROVE  /\ Rising(Seen(q)')
               /\ Ink(Seen(q)') \subseteq Ink(First(ChunksOf[q], written'[q]))
    <3>1. q \in Parts /\ Rising(Seen(q))
          /\ Ink(Seen(q)) \subseteq Ink(First(ChunksOf[q], written[q]))
      BY DEF Flows, KnownInv
    <3>2. Ink(First(ChunksOf[q], written[q])) \subseteq Ink(First(ChunksOf[q], written'[q]))
      <4>1. CASE q = p
        BY <1>5, <4>1
      <4>2. CASE q # p
        BY <1>3, <3>1, <4>2
      <4> QED
        BY <4>1, <4>2
    <3> QED
      BY <2>2, <3>1, <3>2
  <2>5. KnownInv'
    BY <2>4 DEF KnownInv
  <2> QED
    BY <1>6, <2>1, <2>3, <2>5
<1>7. CASE Reads
  <2>1. Learns(p, Ink(Shown(p)))
    <3>0. Growing(out) /\ Good(out.buffers, Buffers)
      BY <1>7
    <3>1. ASSUME ConsumeUpdate(p, <<>>) PROVE Learns(p, Ink(Shown(p)))
      <4>1. <<>> \in Texts /\ Ink(<<>>) = {}
        BY EmptySeq DEF Texts, Ink, ToSet
      <4>2. Seen(p) \in Texts /\ Seen(p) \o <<>> = Seen(p)
        BY <1>1, SeenTexts, ConcatEmptySeq DEF Texts
      <4> HIDE DEF f
      <4> QED
        BY <1>1, <1>2, <1>5, <3>0, <3>1, <4>1, <4>2, UpdateLearns
    <3>2. CASE UpstreamRepeats(p)
      <4>1. ConsumeUpdate(p, <<>>)
        BY <1>7, <3>2 DEF UpstreamRepeats
      <4> QED
        BY <3>1, <4>1
    <3>3. CASE UpstreamWrites(p)
      <4> DEFINE chunk == ChunksOf[p][written[p] + 1]
      <4>1. \/ style[p] = "delta" /\ ConsumeDelta(p, chunk)
            \/ style[p] = "updated" /\ ConsumeUpdate(p, chunk)
            \/ style[p] = "snapshot" /\ ConsumeUpdate(p, <<>>)
        BY <1>7, <3>3 DEF UpstreamWrites
      <4>2. n < Len(ChunksOf[p]) /\ written'[p] = n + 1
        BY <1>3, <3>3 DEF UpstreamWrites, StreamTypeOK
      <4>3. ASSUME p \in Flows
            PROVE  /\ chunk \in Texts /\ Rising(Seen(p) \o chunk)
                   /\ Ink(Shown(p)) = Ink(f(n)) \cup Ink(chunk)
                   /\ Ink(chunk) \subseteq Ink(Full(p))
        <5> DEFINE a == Seen(p)
                   c == ChunksOf[p]
        <5>1. Rising(a) /\ Ink(a) \subseteq Ink(First(c, n)) /\ a \in Texts
          BY <1>1, <4>3, SeenTexts DEF KnownInv
        <5>2. Shown(p) = First(c, n + 1)
          BY <1>5, <4>2, <4>3
        <5> HIDE DEF a
        <5>3. /\ c[n + 1] \in Texts /\ Rising(a \o c[n + 1])
              /\ Ink(First(c, n + 1)) = Ink(First(c, n)) \cup Ink(c[n + 1])
              /\ Ink(c[n + 1]) \subseteq Ink(Full(p))
          BY <1>3, <4>2, <4>3, <5>1, NextChunkComes
        <5> QED
          BY <5>2, <5>3 DEF a
      <4>4. style[p] # "snapshot" => p \in Flows
        BY DEF ScriptInv, Flows
      <4> HIDE DEF chunk, f
      <4>5. CASE style[p] = "delta" /\ ConsumeDelta(p, chunk)
        <5>1. p \in Flows /\ chunk \in Texts
          BY <4>3, <4>4, <4>5
        <5>2. Learns(p, Ink(Seen(p)) \cup Ink(chunk))
          BY <1>1, <3>0, <4>3, <4>5, <5>1, DeltaLearns
        <5>3. Ink(Seen(p)) \cup Ink(chunk) \subseteq Ink(Shown(p))
          BY <1>5, <4>3, <5>1
        <5> QED
          BY <5>2, <5>3 DEF Learns
      <4>6. CASE style[p] = "updated" /\ ConsumeUpdate(p, chunk)
        <5>1. p \in Flows /\ chunk \in Texts
          BY <4>3, <4>4, <4>6
        <5>2. Ink(Seen(p)) \cup Ink(chunk) \subseteq Ink(Shown(p))
          BY <1>5, <4>3, <5>1
        <5> QED
          BY <1>1, <1>2, <1>5, <3>0, <4>3, <4>6, <5>1, <5>2, UpdateLearns
      <4> QED
        BY <3>1, <4>1, <4>5, <4>6
    <3> QED
      BY <3>2, <3>3
  <2>2. ASSUME NEW q \in Flows
        PROVE  /\ Rising(Seen(q)')
               /\ Ink(Seen(q)') \subseteq Ink(First(ChunksOf[q], written'[q]))
    <3>1. CASE q = p
      BY <1>5, <2>1, <3>1 DEF Learns
    <3>2. CASE q # p
      <4>1. /\ q \in Parts \ {p} /\ Rising(Seen(q))
            /\ Ink(Seen(q)) \subseteq Ink(First(ChunksOf[q], written[q]))
        BY <3>2 DEF Flows, KnownInv
      <4> QED
        BY <1>3, <2>1, <4>1 DEF Learns
    <3> QED
      BY <3>1, <3>2
  <2>3. KnownInv'
    BY <2>2 DEF KnownInv
  <2> QED
    BY <1>7, <2>1, <2>3 DEF Learns
<1> QED
  BY <1>6, <1>7

(* The coordinator's events leave the streamed text as it is, and buffers  *)
(* change only when it completes.                                          *)
LEMMA SendKeeps ==
    ASSUME NEW o \in Out, NEW o2, NEW kind, kind # "stream", NEW text, NEW append,
           Extends(o2, o, kind, text, append)
    PROVE  /\ o2 \in Out /\ o2.buffers = o.buffers
           /\ \A b : StreamedIn(o2.sent, b) = StreamedIn(o.sent, b)
<1>1. PICK entry \in Entry : entry.kind = kind /\ o2.sent = Append(o.sent, entry)
  BY DEF Extends
<1>2. o.sent \in Seq(Entry)
  BY DEF Out
<1>3. ASSUME NEW b PROVE StreamedIn(o2.sent, b) = StreamedIn(o.sent, b)
  <2>1. Piece(entry, b) = <<>>
    BY <1>1 DEF Piece
  <2>2. StreamedIn(o2.sent, b) = StreamedIn(o.sent, b) \o <<>>
    BY <1>1, <1>2, <2>1, SentOneMore
  <2>3. StreamedIn(o.sent, b) \in Texts
    BY <1>2, StreamedTexts
  <2> QED
    BY <2>2, <2>3, ConcatEmptySeq DEF Texts
<1> QED
  BY <1>3 DEF Extends

LEMMA CoordinatorKeeps ==
    ASSUME Growing(out), Fail \/ Completes
    PROVE  /\ \A b : StreamedIn(out'.sent, b) = StreamedIn(out.sent, b)
           /\ outcome' # "completed" => out'.buffers = out.buffers
<1>1. out \in Out /\ <<>> \in Texts /\ out.emitted \in BOOLEAN
  BY EmptySeq DEF Growing, Out, Texts
<1>2. CASE Fail
  <2> DEFINE o == Send(out, "error", <<>>, FALSE)
  <2>1. out' = Send(o, "status", <<>>, FALSE)
    BY <1>2 DEF Fail
  <2>2. /\ o \in Out /\ o.buffers = out.buffers
        /\ \A b : StreamedIn(o.sent, b) = StreamedIn(out.sent, b)
    <3>1. Extends(o, out, "error", <<>>, FALSE)
      BY <1>1, SendTyped
    <3> HIDE DEF o
    <3> QED
      BY <1>1, <3>1, SendKeeps
  <2> HIDE DEF o
  <2>3. /\ out'.buffers = o.buffers
        /\ \A b : StreamedIn(out'.sent, b) = StreamedIn(o.sent, b)
    <3>1. Extends(out', o, "status", <<>>, FALSE)
      BY <1>1, <2>1, <2>2, SendTyped
    <3> QED
      BY <2>2, <3>1, SendKeeps
  <2> QED
    BY <2>2, <2>3
<1>3. CASE Completes
  <2> DEFINE kept == [out EXCEPT !.buffers["text"] = ResponseText, !.saw = TRUE]
             snapshot == Send(kept, "final", ResponseText, out.emitted)
             o == IF NeedsSnapshot THEN snapshot ELSE out
  <2>1. out' = Send(o, "status", <<>>, FALSE) /\ outcome' = "completed"
    BY <1>3 DEF Completes
  <2>2. kept \in Out /\ kept.sent = out.sent /\ ResponseText \in Texts
    BY <1>1, ResponseTyped DEF Out, Blocks
  <2> HIDE DEF kept
  <2>3. snapshot \in Out /\ \A b : StreamedIn(snapshot.sent, b) = StreamedIn(out.sent, b)
    <3>1. Extends(snapshot, kept, "final", ResponseText, out.emitted)
      BY <1>1, <2>2, SendTyped
    <3> HIDE DEF snapshot
    <3>2. /\ snapshot \in Out
          /\ \A b : StreamedIn(snapshot.sent, b) = StreamedIn(kept.sent, b)
      BY <2>2, <3>1, SendKeeps
    <3> QED
      BY <2>2, <3>2
  <2> HIDE DEF snapshot
  <2>4. o \in Out /\ \A b : StreamedIn(o.sent, b) = StreamedIn(out.sent, b)
    BY <1>1, <2>3
  <2> HIDE DEF o
  <2>5. \A b : StreamedIn(out'.sent, b) = StreamedIn(o.sent, b)
    <3>1. Extends(out', o, "status", <<>>, FALSE)
      BY <1>1, <2>1, <2>4, SendTyped
    <3> QED
      BY <2>4, <3>1, SendKeeps
  <2> QED
    BY <2>1, <2>4, <2>5
<1> QED
  BY <1>2, <1>3

LEMMA TextStep ==
    ASSUME StreamTypeOK, ScriptInv, SignalInv, OutcomeInv, DeliveryInv, TextInv,
           [StreamNext]_streamVars
    PROVE  TextInv'
<1>1. outcome' # "completed" => Growing(out)'
  BY DeliveryStep DEF DeliveryInv
<1>2. ASSUME outcome' # "completed", Good(out'.buffers, Buffers')
      PROVE  \A b \in {"text", "reasoning"} : Distinct(StreamedIn(out.sent, b))'
  BY <1>1, <1>2 DEF Growing, Good
<1>3. CASE outcome = "completed"
  <2>1. UNCHANGED <<out, outcome>>
    BY <1>3, CompletedStill
  <2>2. ASSUME ConsumerWrites PROVE LateInv' /\ KnownInv'
    <3>1. PICK p \in Parts : UpstreamWrites(p) \/ UpstreamRepeats(p)
      BY <2>2 DEF ConsumerWrites
    <3>2. ~Reads
      BY <1>3 DEF SignalInv, OutcomeInv, Reads, Running
    <3> QED
      BY <3>1, <3>2, ConsumerLearns DEF TextInv
  <2>3. ASSUME ~ConsumerWrites PROVE UNCHANGED <<state, pending, written>>
    BY <2>3 DEF StreamNext, Upstream, Coordinator, ConsumerWrites, UpstreamIdles,
         UpstreamErrs, Connect, StreamBreaks, StreamCloses, ConsumerStops, SendReturns,
         SendFails, StreamEndedFirst, EndsInError, Completes, Cancel, Cleanup,
         consumerVars, upstreamVars, streamVars
  <2>4. ASSUME UNCHANGED <<state, pending, written>> PROVE LateInv' /\ KnownInv'
    BY <2>4 DEF TextInv, LateInv, KnownInv, Seen, BufferOf
  <2>5. LateInv' /\ KnownInv'
    BY <2>2, <2>3, <2>4
  <2>6. \A b \in {"text", "reasoning"} : Distinct(StreamedIn(out.sent, b))'
    BY <2>1 DEF TextInv
  <2> QED
    BY <1>3, <2>1, <2>5, <2>6 DEF TextInv
<1>4. CASE outcome # "completed"
  <2>1. Growing(out) /\ Good(out.buffers, Buffers)
    BY <1>4 DEF DeliveryInv, TextInv
  <2>2. CASE ConsumerWrites
    <3>1. PICK p \in Parts : UpstreamWrites(p) \/ UpstreamRepeats(p)
      BY <2>2 DEF ConsumerWrites
    <3>2. /\ LateInv' /\ KnownInv'
          /\ Reads => Good(out'.buffers, Buffers')
          /\ ~Reads => UNCHANGED consumerVars
      BY <2>1, <3>1, ConsumerLearns DEF TextInv
    <3>3. Good(out'.buffers, Buffers')
      <4>1. UNCHANGED consumerVars => out' = out /\ Buffers' = Buffers
        BY DEF consumerVars, Buffers, BufferOf
      <4> QED
        BY <2>1, <3>2, <4>1
    <3>4. outcome' # "completed"
      BY <1>4, <2>2, ConsumerIsQuiet DEF coordinatorVars
    <3> QED
      BY <1>2, <3>2, <3>3, <3>4 DEF TextInv
  <2>3. CASE ~ConsumerWrites
    <3>1. UNCHANGED <<state, pending, written>>
      BY <2>3 DEF StreamNext, Upstream, Coordinator, ConsumerWrites, UpstreamIdles,
           UpstreamErrs, Connect, StreamBreaks, StreamCloses, ConsumerStops, SendReturns,
           SendFails, StreamEndedFirst, EndsInError, Completes, Cancel, Cleanup,
           consumerVars, upstreamVars, streamVars
    <3>2. LateInv' /\ KnownInv' /\ Buffers' = Buffers
      BY <3>1 DEF TextInv, LateInv, KnownInv, Seen, BufferOf, Buffers
    <3>3. \/ Fail \/ Completes
          \/ UNCHANGED <<out, outcome>>
      BY <2>3 DEF StreamNext, Upstream, Coordinator, ConsumerWrites, UpstreamIdles,
           UpstreamErrs, Connect, StreamBreaks, StreamCloses, ConsumerStops, SendReturns,
           SendFails, StreamEndedFirst, EndsInError, Cancel, Cleanup, consumerVars,
           upstreamVars, coordinatorVars, streamVars
    <3>4. /\ \A b : StreamedIn(out'.sent, b) = StreamedIn(out.sent, b)
          /\ outcome' # "completed" => out'.buffers = out.buffers
      <4>1. Fail \/ Completes \/ out' = out
        BY <3>3
      <4> QED
        BY <2>1, <4>1, CoordinatorKeeps
    <3> QED
      BY <2>1, <3>2, <3>4 DEF TextInv
  <2> QED
    BY <2>2, <2>3
<1> QED
  BY <1>3, <1>4

(* Whatever way upstream publishes what it writes, and whatever is         *)
(* repeated, comes early, is dropped or lost: a client is streamed every   *)
(* letter at most once and those of a part in the order they were written  *)
(* in, as one artifact; what it is sent again it is sent by one snapshot   *)
(* of the whole response, after the last chunk, and only if the text that  *)
(* was streamed is not the response.                                       *)
THEOREM OutputIsSound == StreamSpec => []OutputInv
<1> DEFINE Inv == /\ StreamTypeOK /\ ScriptInv /\ SignalInv /\ OutcomeInv /\ DeliveryInv
                  /\ TextInv
<1>1. StreamInit => Inv
  BY DeliveryStart, SignalStart, TextStart
<1>2. Inv /\ [StreamNext]_streamVars => Inv'
  BY TypeStep, ScriptStep, SignalStep, OutcomeStep, DeliveryStep, TextStep
<1>3. Inv => OutputInv
  <2>1. TextInv => NothingTwice
    BY StreamedIs DEF TextInv, Distinct, NothingTwice, Full
  <2>2. DeliveryInv => OneArtifact /\ SnapshotIsOnce
    BY SentIs DEF DeliveryInv, Artifact, OneArtifact
  <2> QED
    BY <2>1, <2>2 DEF OutputInv
<1> HIDE DEF Inv
<1> QED
  BY <1>1, <1>2, <1>3, PTL DEF StreamSpec

-------------------------------------------------------------------------------
(* Plain texts: what was streamed of an answer is what was written of it.  *)

(* Where a stripped text is in the text it is from.                        *)
LEMMA StripIs ==
    ASSUME NEW text \in Texts, Strip(text) # <<>>
    PROVE  \E low, high \in 1..Len(text) :
              /\ low <= high /\ text[low] # Blank /\ text[high] # Blank
              /\ \A i \in 1..Len(text) : text[i] # Blank => low <= i /\ i <= high
              /\ Len(Strip(text)) = high - low + 1
              /\ \A i \in 1..(high - low + 1) : Strip(text)[i] = text[low + i - 1]
<1> DEFINE ink == {i \in DOMAIN text : text[i] # Blank}
<1>1. /\ DOMAIN text = 1..Len(text) /\ Len(text) \in Nat
      /\ \A i \in 1..Len(text) : text[i] \in Nat
  BY TextFacts
<1>2. ink # {} /\ Strip(text) = SubSeq(text, Min(ink), Max(ink))
  BY DEF Strip
<1>3. ink \in SUBSET (1..Len(text)) /\ ink \in SUBSET Nat
  BY <1>1
<1>4. /\ \A i \in ink : text[i] # Blank
      /\ \A i \in 1..Len(text) : text[i] # Blank => i \in ink
  BY <1>1
<1> HIDE DEF ink
<1>5. Min(ink) \in ink /\ \A i \in ink : Min(ink) <= i
  BY <1>2, <1>3, LeastNumber DEF Min
<1>6. Max(ink) \in ink /\ \A i \in ink : Max(ink) >= i
  BY <1>1, <1>2, <1>3, GreatestNumber DEF Max
<1>7. ASSUME NEW low \in ink, NEW high \in ink,
             \A i \in ink : low <= i, \A i \in ink : high >= i
      PROVE  /\ low \in 1..Len(text) /\ high \in 1..Len(text) /\ low <= high
             /\ text[low] # Blank /\ text[high] # Blank
             /\ \A i \in 1..Len(text) : text[i] # Blank => low <= i /\ i <= high
             /\ Len(SubSeq(text, low, high)) = high - low + 1
             /\ \A i \in 1..(high - low + 1) :
                   SubSeq(text, low, high)[i] = text[low + i - 1]
  <2>1. low \in 1..Len(text) /\ high \in 1..Len(text) /\ low <= high
    BY <1>3, <1>7
  <2>2. low \in Int /\ high \in Int /\ \A i \in low..high : text[i] \in Nat
    BY <1>1, <2>1
  <2>3. /\ Len(SubSeq(text, low, high)) = high - low + 1
        /\ \A i \in 1..(high - low + 1) :
              SubSeq(text, low, high)[i] = text[low + i - 1]
    BY <2>1, <2>2, SubSeqProperties
  <2>4. \A i \in 1..Len(text) : text[i] # Blank => low <= i /\ i <= high
    BY <1>4, <1>7
  <2> QED
    BY <1>4, <2>1, <2>3, <2>4
<1>8. PICK low \in ink, high \in ink :
          /\ \A i \in ink : low <= i /\ high >= i
          /\ Strip(text) = SubSeq(text, low, high)
  BY <1>2, <1>5, <1>6
<1> DEFINE t == SubSeq(text, low, high)
<1>9. /\ low \in 1..Len(text) /\ high \in 1..Len(text) /\ low <= high
      /\ text[low] # Blank /\ text[high] # Blank
      /\ \A i \in 1..Len(text) : text[i] # Blank => low <= i /\ i <= high
      /\ Len(t) = high - low + 1
      /\ \A i \in 1..(high - low + 1) : t[i] = text[low + i - 1]
  BY <1>7, <1>8
<1> HIDE DEF t
<1> QED
  BY <1>8, <1>9 DEF t

LEMMA BlankText ==
    ASSUME NEW text \in Texts
    PROVE  Strip(text) = <<>> <=> Ink(text) = {}
<1>1. Ink(Strip(text)) = Ink(text)
  BY StripKeeps
<1>2. ASSUME Strip(text) = <<>> PROVE Ink(text) = {}
  BY <1>1, <1>2 DEF Ink, ToSet
<1>3. ASSUME Strip(text) # <<>> PROVE Ink(text) # {}
  <2>1. PICK low \in 1..Len(text) : text[low] # Blank
    BY <1>3, StripIs
  <2>2. text[low] \in Ink(text)
    BY <2>1, TextFacts
  <2> QED
    BY <2>2
<1> QED
  BY <1>2, <1>3

(* One text starts another if it agrees with it as far as it goes.         *)
LEMMA PrefixIs ==
    ASSUME NEW a \in Texts, NEW w \in Texts
    PROVE  IsPrefix(a, w) <=> Len(a) <= Len(w) /\ \A i \in 1..Len(a) : a[i] = w[i]
<1> DEFINE m == Len(a)
           s == SubSeq(a, 1, m)
           t == SubSeq(w, 1, m)
<1>1. /\ m \in Nat /\ Len(w) \in Nat /\ \A i \in 1..m : a[i] \in Nat
      /\ \A i \in 1..Len(w) : w[i] \in Nat
  BY TextFacts
<1>2. CASE ~(m <= Len(w))
  BY <1>2 DEF IsPrefix
<1>3. CASE m <= Len(w)
  <2>1. /\ 1 \in Int /\ m \in Int /\ m - 1 + 1 = m
        /\ \A i \in 1..m : a[i] \in Nat /\ w[i] \in Nat /\ 1 + i - 1 = i
    BY <1>1, <1>3
  <2>2. IsPrefix(a, w) <=> s = t
    BY <1>3 DEF IsPrefix
  <2> HIDE DEF m
  <2>3. s \in Seq(Nat) /\ Len(s) = m /\ \A i \in 1..m : s[i] = a[i]
    BY <1>1, <2>1, SubSeqProperties
  <2>4. t \in Seq(Nat) /\ Len(t) = m /\ \A i \in 1..m : t[i] = w[i]
    BY <1>1, <2>1, SubSeqProperties
  <2> HIDE DEF s, t
  <2>5. s = t <=> \A i \in 1..m : a[i] = w[i]
    <3>1. (\A i \in 1..m : s[i] = t[i]) => s = t
      BY <2>3, <2>4, SeqEqual
    <3> QED
      BY <2>3, <2>4, <3>1
  <2> QED
    BY <1>3, <2>2, <2>5 DEF m
<1> QED
  BY <1>2, <1>3

(* What is written after a text comes after it when both are stripped.     *)
LEMMA StripPrefix ==
    ASSUME NEW t \in Texts, NEW c \in Texts
    PROVE  IsPrefix(Strip(t), Strip(t \o c))
<1> DEFINE u == t \o c
<1>1. /\ u \in Texts /\ Len(u) = Len(t) + Len(c) /\ Len(t) \in Nat /\ Len(c) \in Nat
      /\ \A i \in 1..Len(t) : u[i] = t[i]
      /\ Ink(u) = Ink(t) \cup Ink(c)
  BY JoinFacts, TextFacts, InkJoin
<1> HIDE DEF u
<1>2. Strip(t) \in Texts /\ Strip(u) \in Texts
  BY <1>1, StripTexts
<1>3. CASE Strip(t) = <<>>
  <2>1. Len(Strip(t)) = 0 /\ Len(Strip(u)) \in Nat
    BY <1>2, <1>3, EmptySeq, TextFacts
  <2> QED
    BY <1>2, <2>1, PrefixIs DEF u
<1>4. CASE Strip(t) # <<>>
  <2>1. PICK low, high \in 1..Len(t) :
              /\ low <= high /\ t[low] # Blank /\ t[high] # Blank
              /\ \A i \in 1..Len(t) : t[i] # Blank => low <= i /\ i <= high
              /\ Len(Strip(t)) = high - low + 1
              /\ \A i \in 1..(high - low + 1) : Strip(t)[i] = t[low + i - 1]
    BY <1>4, StripIs
  <2>2. Strip(u) # <<>>
    BY <1>1, <1>4, BlankText
  <2>3. PICK low2, high2 \in 1..Len(u) :
              /\ low2 <= high2 /\ u[low2] # Blank /\ u[high2] # Blank
              /\ \A i \in 1..Len(u) : u[i] # Blank => low2 <= i /\ i <= high2
              /\ Len(Strip(u)) = high2 - low2 + 1
              /\ \A i \in 1..(high2 - low2 + 1) : Strip(u)[i] = u[low2 + i - 1]
    BY <1>1, <2>2, StripIs
  <2>4. /\ low \in 1..Len(u) /\ high \in 1..Len(u) /\ u[low] # Blank /\ u[high] # Blank
    BY <1>1, <2>1
  <2>5. low2 <= low /\ high <= high2
    BY <2>3, <2>4
  <2>6. low2 = low
    <3>1. low2 \in 1..Len(t) /\ t[low2] # Blank
      BY <1>1, <2>1, <2>3, <2>5
    <3> QED
      BY <1>1, <2>1, <2>3, <2>5, <3>1
  <2>7. high - low + 1 <= high2 - low2 + 1
    BY <1>1, <2>1, <2>3, <2>5, <2>6
  <2>8. ASSUME NEW i \in 1..(high - low + 1) PROVE Strip(t)[i] = Strip(u)[i]
    <3>1. i \in 1..(high2 - low2 + 1) /\ low + i - 1 \in 1..Len(t)
      BY <1>1, <2>1, <2>3, <2>5, <2>6
    <3> QED
      BY <1>1, <2>1, <2>3, <2>6, <3>1
  <2> QED
    BY <1>2, <2>1, <2>3, <2>7, <2>8, PrefixIs DEF u
<1> QED
  BY <1>3, <1>4

(* A whole text brings the rest of it, if it starts with what is there.    *)
LEMMA SnapshotMore ==
    ASSUME NEW early \in Texts, NEW whole \in Texts, IsPrefix(early, whole)
    PROVE  LET added == SnapshotChunks(early, whole)
           IN  \/ added = <<>> /\ early = whole
               \/ /\ early # whole /\ whole # <<>>
                  /\ \E rest \in Texts : added = <<rest>> /\ early \o rest = whole
<1>1. CASE whole = early
  BY <1>1 DEF SnapshotChunks
<1>2. CASE whole = <<>>
  <2>1. Len(early) <= 0 /\ Len(early) \in Nat
    BY <1>2, TextFacts, PrefixIs, EmptySeq
  <2>2. early = <<>>
    BY <2>1, EmptySeq DEF Texts
  <2> QED
    BY <1>1, <1>2, <2>2
<1>3. CASE whole # early /\ whole # <<>>
  <2>1. SnapshotChunks(early, whole) # <<>>
    BY <1>3 DEF SnapshotChunks
  <2> QED
    BY <1>3, <2>1, SnapshotAdds
<1> QED
  BY <1>1, <1>2, <1>3

(* A whole text adds nothing to a buffer that has all of its letters: the  *)
(* last letter of a stripped text comes once.                              *)
LEMMA NoMore ==
    ASSUME NEW early \in Texts, NEW text \in Texts, Rising(text), Ink(early) = Ink(text)
    PROVE  SnapshotChunks(early, Strip(text)) = <<>>
<1> DEFINE whole == Strip(text)
           n == Len(whole)
<1>1. whole \in Texts /\ Ink(whole) = Ink(text) /\ Rising(whole)
  BY StripTexts, StripKeeps
<1> SUFFICES ASSUME whole # early, whole # <<>>, IsPrefix(early, whole) PROVE FALSE
  BY DEF SnapshotChunks
<1>2. n \in Nat \ {0} /\ whole[n] # Blank
  <2>1. PICK low, high \in 1..Len(text) :
              /\ low <= high /\ text[high] # Blank
              /\ n = high - low + 1
              /\ \A i \in 1..(high - low + 1) : whole[i] = text[low + i - 1]
    BY StripIs
  <2>2. Len(text) \in Nat /\ high - low + 1 \in 1..(high - low + 1)
    BY <2>1, TextFacts
  <2>3. low + (high - low + 1) - 1 = high /\ n \in Nat \ {0}
    BY <2>1, <2>2
  <2>4. whole[n] = text[high]
    BY <2>1, <2>2, <2>3
  <2> QED
    BY <2>1, <2>3, <2>4
<1> HIDE DEF whole, n
<1>3. /\ Len(early) \in Nat /\ Len(early) <= n
      /\ \A i \in 1..Len(early) : early[i] = whole[i]
  BY <1>1, TextFacts, PrefixIs DEF n
<1>4. Len(early) < n
  <2>1. Len(early) = n => early = whole
    BY <1>1, <1>3, SeqEqual DEF Texts, n
  <2> QED
    BY <1>2, <1>3, <2>1
<1>5. whole[n] \in Ink(early)
  BY <1>1, <1>2, TextFacts DEF n
<1>6. PICK i \in 1..Len(early) : early[i] = whole[n]
  BY <1>5, TextFacts
<1>7. /\ i \in DOMAIN whole /\ n \in DOMAIN whole /\ i < n
      /\ whole[i] = whole[n] /\ whole[n] \in Nat
  BY <1>1, <1>2, <1>3, <1>4, <1>6, TextFacts DEF n
<1>8. whole[i] < whole[n]
  BY <1>1, <1>2, <1>7 DEF Rising
<1> QED
  BY <1>7, <1>8

(* One text of many grows, and those after it are empty: the joined text   *)
(* grows at its end.                                                       *)
LEMMA JoinAt ==
    ASSUME NEW s \in Seq(Texts), NEW t \in Seq(Texts), Len(t) = Len(s),
           NEW i \in 1..Len(s), NEW x \in Texts, t[i] = s[i] \o x,
           \A j \in 1..Len(s) : j # i => t[j] = s[j],
           \A j \in 1..Len(s) : j > i => s[j] = <<>>
    PROVE  FlattenSeq(t) = FlattenSeq(s) \o x
<1> DEFINE n == Len(s)
           T == {k \in Nat : k \in 0..n =>
                    /\ k < i => First(t, k) = First(s, k)
                    /\ i <= k => First(t, k) = First(s, k) \o x}
<1>1. n \in Nat /\ i \in 1..n /\ \A j \in 1..n : s[j] \in Texts
  BY LenProperties, ElementOfSeq
<1>2. /\ First(s, 0) = <<>> /\ First(s, n) = FlattenSeq(s)
      /\ \A k \in 0..n : First(s, k) \in Texts
      /\ \A k \in 0..(n - 1) : First(s, k + 1) = First(s, k) \o s[k + 1]
  BY FirstTexts
<1>3. /\ First(t, 0) = <<>> /\ First(t, n) = FlattenSeq(t)
      /\ \A k \in 0..(n - 1) : First(t, k + 1) = First(t, k) \o t[k + 1]
  BY FirstTexts
<1> HIDE DEF n
<1>4. 0 \in T
  BY <1>1, <1>2, <1>3
<1>5. ASSUME NEW k \in Nat, k \in T PROVE k + 1 \in T
  <2> SUFFICES ASSUME k + 1 \in 0..n
               PROVE  /\ k + 1 < i => First(t, k + 1) = First(s, k + 1)
                      /\ i <= k + 1 => First(t, k + 1) = First(s, k + 1) \o x
    OBVIOUS
  <2> DEFINE a == First(s, k)
             b == s[k + 1]
             c == t[k + 1]
             d == First(t, k)
  <2>1. k \in 0..(n - 1) /\ k \in 0..n /\ k + 1 \in 1..n
    BY <1>1
  <2>2. First(s, k + 1) = a \o b /\ First(t, k + 1) = d \o c
    BY <1>2, <1>3, <2>1
  <2>3. /\ a \in Texts /\ b \in Texts
        /\ k < i => d = a
        /\ i <= k => d = a \o x
    BY <1>1, <1>2, <1>5, <2>1
  <2>4. /\ k + 1 # i => c = b
        /\ k + 1 = i => c = b \o x
        /\ i < k + 1 => b = <<>>
    BY <2>1 DEF n
  <2> HIDE DEF a, b, c, d
  <2>5. CASE k + 1 < i
    <3>1. d = a /\ c = b /\ ~(i <= k + 1)
      BY <1>1, <2>3, <2>4, <2>5
    <3> QED
      BY <2>2, <3>1, Zenon
  <2>6. CASE k + 1 = i
    <3>1. d = a /\ c = b \o x /\ ~(k + 1 < i)
      BY <1>1, <2>3, <2>4, <2>6
    <3>2. a \o (b \o x) = (a \o b) \o x
      BY <2>3, TextsAssociate
    <3>3. d \o c = (a \o b) \o x
      BY <3>1, <3>2, Zenon
    <3> QED
      BY <2>2, <3>1, <3>3, Zenon
  <2>7. CASE i < k + 1
    <3>1. d = a \o x /\ c = <<>> /\ b = <<>>
      BY <1>1, <2>3, <2>4, <2>7
    <3>2. \A y \in Texts : y \o <<>> = y
      BY ConcatEmptySeq DEF Texts
    <3>3. a \o x \in Texts
      BY <2>3, JoinFacts
    <3>4. d \o c = a \o x /\ a \o b = a
      BY <2>3, <3>1, <3>2, <3>3
    <3> QED
      BY <1>1, <2>2, <2>7, <3>4
  <2> QED
    BY <1>1, <2>5, <2>6, <2>7
<1>6. Nat \subseteq T
  <2> HIDE DEF T
  <2> QED
    BY <1>4, <1>5, SetInduction
<1>7. n \in T
  BY <1>1, <1>6
<1> QED
  BY <1>1, <1>2, <1>3, <1>7

LEMMA JoinNothing ==
    ASSUME NEW s \in Seq(Texts), \A i \in 1..Len(s) : s[i] = <<>>
    PROVE  FlattenSeq(s) = <<>>
<1> DEFINE n == Len(s)
           T == {k \in Nat : k \in 0..n => First(s, k) = <<>>}
<1>1. n \in Nat
  BY LenProperties
<1>2. /\ First(s, 0) = <<>> /\ First(s, n) = FlattenSeq(s)
      /\ \A k \in 0..(n - 1) : First(s, k + 1) = First(s, k) \o s[k + 1]
  BY FirstTexts
<1> HIDE DEF n
<1>3. ASSUME NEW k \in Nat, k \in T PROVE k + 1 \in T
  <2> SUFFICES ASSUME k + 1 \in 0..n PROVE First(s, k + 1) = <<>>
    OBVIOUS
  <2>1. k \in 0..(n - 1) /\ k \in 0..n /\ k + 1 \in 1..n
    BY <1>1
  <2>2. First(s, k + 1) = <<>> \o <<>>
    BY <1>2, <1>3, <2>1 DEF n
  <2> QED
    BY <2>2, EmptySeq, ConcatEmptySeq DEF Texts
<1>4. Nat \subseteq T
  <2>1. 0 \in T
    BY <1>2
  <2> HIDE DEF T
  <2> QED
    BY <1>3, <2>1, SetInduction
<1>5. n \in T
  BY <1>1, <1>4
<1> QED
  BY <1>1, <1>2, <1>5

-------------------------------------------------------------------------------
(* A text chunk that is no echo comes to the end of the text buffer.       *)
LEMMA EmitText ==
    ASSUME NEW o \in Out, NEW p \in Parts, BlockOf[p] = "text", NEW x \in Texts,
           ~EmitChunk(o, Chunk(p, x)).echoed
    PROVE  EmitChunk(o, Chunk(p, x)).buffers["text"] = o.buffers["text"] \o x
<1> DEFINE chunk == Chunk(p, x)
           next == o.buffers["text"] \o x
<1>1. chunk.block = "text" /\ chunk.text = x /\ chunk.accumulate
  BY DEF Chunk
<1>2. "text" \in DOMAIN o.buffers
  BY DEF Out, Blocks
<1>3. ~IsEcho(o, chunk)
  BY DEF EmitChunk, Out
<1>4. EmitChunk(o, chunk) = Register(o, chunk)
  BY <1>3 DEF EmitChunk
<1> HIDE DEF chunk
<1>5. Register(o, chunk).buffers["text"] = next
  BY <1>1, <1>2 DEF Register, Out
<1> QED
  BY <1>4, <1>5 DEF chunk

(* An echo that was dropped is remembered; chunks of other blocks leave    *)
(* the text buffer as it is.                                               *)
LEMMA EmitQuiet ==
    ASSUME NEW o, Growing(o), NEW chunk \in Chunks
    PROVE  /\ o.echoed => EmitChunk(o, chunk).echoed
           /\ chunk.block # "text" => EmitChunk(o, chunk).buffers["text"] = o.buffers["text"]
<1>1. o \in Out /\ chunk.block \in Blocks
  BY DEF Growing, Chunks
<1>2. CASE IsEcho(o, chunk)
  BY <1>1, <1>2 DEF EmitChunk, Out
<1>3. CASE ~IsEcho(o, chunk)
  BY <1>1, <1>3 DEF EmitChunk, Register, Out
<1> QED
  BY <1>2, <1>3

LEMMA EmitsOne ==
    ASSUME NEW chunks
    PROVE  /\ Len(chunks) = 0 => EmitChunks(chunks) = out
           /\ Len(chunks) = 1 => EmitChunks(chunks) = EmitChunk(out, chunks[1])
<1> DEFINE after(n) == CHOOSE f : Emits(f, chunks, n)
<1>1. EmitChunks(chunks) = after(Len(chunks))[Len(chunks)]
  BY DEF EmitChunks, Emits
<1>2. ASSUME NEW n \in Nat PROVE Emits(after(n), chunks, n)
  BY EmitsExists
<1> HIDE DEF after
<1>3. after(0)[0] = out
  BY <1>2 DEF Emits
<1>4. after(1)[1] = EmitChunk(out, chunks[1])
  <2>1. Emits(after(1), chunks, 1)
    BY <1>2
  <2>2. after(1)[1] = EmitChunk(after(1)[1 - 1], chunks[1]) /\ after(1)[0] = out
    BY <2>1 DEF Emits
  <2> QED
    BY <2>2
<1> QED
  BY <1>1, <1>3, <1>4

LEMMA EmitsQuiet ==
    ASSUME Growing(out), NEW chunks \in Seq(Chunks)
    PROVE  /\ out.echoed => EmitChunks(chunks).echoed
           /\ (\A i \in 1..Len(chunks) : chunks[i].block # "text")
                 => EmitChunks(chunks).buffers["text"] = out.buffers["text"]
<1> DEFINE n == Len(chunks)
           after == CHOOSE f : Emits(f, chunks, n)
           other == \A i \in 1..n : chunks[i].block # "text"
<1>1. n \in Nat /\ \A i \in 1..n : chunks[i] \in Chunks
  BY LenProperties, ElementOfSeq
<1>2. EmitChunks(chunks) = after[n]
  BY DEF EmitChunks, Emits
<1>3. Emits(after, chunks, n)
  <2> HIDE DEF n
  <2> QED
    BY <1>1, EmitsExists
<1> HIDE DEF n, after
<1>4. \A i \in 0..n :
         after[i] = IF i = 0 THEN out ELSE EmitChunk(after[i - 1], chunks[i])
  BY <1>3 DEF Emits
<1> DEFINE Quiet(o) == /\ Growing(o) /\ (out.echoed => o.echoed)
                       /\ other => o.buffers["text"] = out.buffers["text"]
           T == {i \in Nat : i \in 0..n => Quiet(after[i])}
<1>5. 0 \in T
  BY <1>1, <1>4
<1>6. ASSUME NEW i \in Nat, i \in T PROVE i + 1 \in T
  <2> SUFFICES ASSUME i + 1 \in 0..n PROVE Quiet(after[i + 1])
    OBVIOUS
  <2> DEFINE o == after[i]
             c == chunks[i + 1]
  <2>1. i \in 0..n /\ i + 1 \in 1..n /\ (i + 1) - 1 = i /\ i + 1 # 0
    BY <1>1
  <2>2. after[i + 1] = EmitChunk(o, c)
    BY <1>4, <2>1
  <2>3. Quiet(o) /\ c \in Chunks /\ (other => c.block # "text")
    BY <1>1, <1>6, <2>1
  <2> HIDE DEF o, c, other
  <2>4. Growing(EmitChunk(o, c))
    BY <2>3, EmitGrows
  <2>5. /\ o.echoed => EmitChunk(o, c).echoed
        /\ c.block # "text" => EmitChunk(o, c).buffers["text"] = o.buffers["text"]
    BY <2>3, EmitQuiet
  <2> QED
    BY <2>2, <2>3, <2>4, <2>5
<1>7. Nat \subseteq T
  <2> HIDE DEF T
  <2> QED
    BY <1>5, <1>6, SetInduction
<1>8. Quiet(after[n])
  <2>1. n \in T /\ n \in 0..n
    BY <1>1, <1>7
  <2> HIDE DEF Quiet
  <2> QED
    BY <2>1
<1> QED
  BY <1>2, <1>8 DEF n

-------------------------------------------------------------------------------
(* The text parts of the response to one turn; what of each the client     *)
(* should have been streamed, all of it or its stripped form; and these in *)
(* order.                                                                  *)
Answers == {p \in cast : BlockOf[p] = "text" /\ p \notin Echoes /\ TurnOf[p] = 1}

Due(p) ==
    LET text == First(ChunksOf[p], written[p])
    IN  IF style[p] = "snapshot" THEN Strip(text) ELSE text

Dues == [i \in DOMAIN Order |-> IF Order[i] \in Answers THEN Due(Order[i]) ELSE <<>>]

(* The consumer's state of a part is that of what is due: nothing waits    *)
(* for the part, and its buffer is what is due or has its letters.         *)
Ready(p) ==
    /\ pending[p] = <<>>
    /\ p \in announced => state[p] # None
    /\ IF style[p] = "snapshot" THEN BufferOf(p) = Due(p)
                                ELSE Ink(BufferOf(p)) = Ink(Due(p))

UpToDate == (\A p \in Answers : Ready(p)) /\ out.buffers["text"] = FlattenSeq(Dues)

(* A step that adds to what is due of a part adds the same to the buffer.  *)
Tells(p, x) ==
    /\ Ready(p)' /\ Due(p)' = Due(p) \o x
    /\ out'.buffers["text"] = out.buffers["text"] \o x

LEMMA DeltaTells ==
    ASSUME ConsumerTyped, out \in Out, NEW p \in Parts, BlockOf[p] = "text",
           RoleOf[p] # "user", style[p] # "snapshot", style' = style,
           p \in announced, Ready(p), NEW delta \in Texts,
           First(ChunksOf[p], written[p]) \in Texts,
           First(ChunksOf[p], written'[p]) = First(ChunksOf[p], written[p]) \o delta,
           ConsumeDelta(p, delta), ~out'.echoed
    PROVE  Tells(p, delta)
<1> DEFINE text == First(ChunksOf[p], written[p])
<1>1. /\ state[p] # None /\ state[p] \in Texts /\ pending[p] = <<>>
      /\ BufferOf(p) = state[p] /\ Ink(state[p]) = Ink(text)
  BY DEF Ready, ConsumerTyped, BufferOf, Due
<1>2. /\ state' = [state EXCEPT ![p] = state[p] \o delta]
      /\ out' = EmitChunks(<<Chunk(p, delta)>>) /\ pending' = pending
  BY <1>1 DEF ConsumeDelta
<1>3. PICK buffer \in Texts : /\ buffer = state[p] \o delta
                              /\ Ink(buffer) = Ink(state[p]) \cup Ink(delta)
  <2> DEFINE a == state[p]
  <2>1. a \in Texts
    BY <1>1
  <2> HIDE DEF a
  <2>2. a \o delta \in Texts /\ Ink(a \o delta) = Ink(a) \cup Ink(delta)
    BY <2>1, JoinFacts, InkJoin
  <2> QED
    BY <2>2 DEF a
<1>4. state'[p] = buffer /\ BufferOf(p)' = buffer /\ buffer # None
  BY <1>2, <1>3, PartsAssumption DEF ConsumerTyped, BufferOf
<1>5. Due(p) = text /\ Due(p)' = text \o delta
  BY DEF Due
<1>6. Ink(text \o delta) = Ink(text) \cup Ink(delta)
  BY InkJoin
<1>7. Ready(p)'
  BY <1>1, <1>2, <1>3, <1>4, <1>5, <1>6 DEF Ready
<1>8. out'.buffers["text"] = out.buffers["text"] \o delta
  <2> DEFINE chunks == <<Chunk(p, delta)>>
  <2>1. Len(chunks) = 1 /\ chunks[1] = Chunk(p, delta)
    OBVIOUS
  <2> HIDE DEF chunks
  <2>2. EmitChunks(chunks) = EmitChunk(out, Chunk(p, delta))
    BY <2>1, EmitsOne
  <2>3. out' = EmitChunk(out, Chunk(p, delta))
    BY <1>2, <2>2 DEF chunks
  <2> QED
    BY <2>3, EmitText
<1> QED
  BY <1>5, <1>7, <1>8 DEF Tells

(* An update: with the delta that was written, or the whole text.          *)
LEMMA UpdateTells ==
    ASSUME ConsumerTyped, out \in Out, NEW p \in Parts, BlockOf[p] = "text",
           RoleOf[p] # "user", style' = style, Ready(p),
           NEW text \in Texts, NEW chunk \in Texts, NEW delta \in Texts, Rising(text),
           text = First(ChunksOf[p], written[p]),
           text \o chunk = First(ChunksOf[p], written'[p]),
           delta = IF style[p] = "snapshot" THEN <<>> ELSE chunk,
           ConsumeUpdate(p, delta), ~out'.echoed
    PROVE  \E x \in Texts : Tells(p, x) /\ (chunk = <<>> => x = <<>>)
<1> DEFINE early == BufferOf(p) \o FlattenSeq(pending[p])
           whole == Strip(Shown(p))
           added == IF delta # <<>> THEN <<delta>>
                    ELSE IF BlockOf[p] # "tool" THEN SnapshotChunks(early, whole)
                    ELSE IF whole \in {<<>>, early} THEN <<>> ELSE <<whole>>
           texts == pending[p] \o added
           chunks == [i \in DOMAIN texts |-> Chunk(p, texts[i])]
           buffer == IF delta # <<>> THEN early \o delta
                     ELSE IF whole = <<>> THEN early ELSE whole
           more == text \o chunk
<1>0. <<>> \in Texts /\ \A y \in Texts : y \o <<>> = y
  BY EmptySeq, ConcatEmptySeq DEF Texts
<1>1. /\ pending[p] = <<>> /\ BufferOf(p) \in Texts /\ FlattenSeq(<<>>) = <<>>
  BY <1>0, EmptySeq DEF Ready, ConsumerTyped, BufferOf, FlattenSeq
<1>2. /\ early = BufferOf(p) /\ early \in Texts
      /\ IF style[p] = "snapshot" THEN early = Strip(text) ELSE Ink(early) = Ink(text)
  BY <1>0, <1>1 DEF Ready, Due
<1>3. more \in Texts /\ Ink(more) = Ink(text) \cup Ink(chunk)
  BY JoinFacts, InkJoin
<1>4. /\ Shown(p) = more /\ whole = Strip(more) /\ whole \in Texts
      /\ Ink(whole) = Ink(more)
  <2>1. Shown(p) = more
    BY DEF Shown, First
  <2> HIDE DEF more
  <2> QED
    BY <1>3, <2>1, StripTexts, StripKeeps
<1>5. /\ Due(p) = (IF style[p] = "snapshot" THEN Strip(text) ELSE text)
      /\ Due(p)' = (IF style[p] = "snapshot" THEN whole ELSE more)
  BY <1>4 DEF Due
<1>6. /\ state' = [state EXCEPT ![p] = buffer] /\ out' = EmitChunks(chunks)
      /\ pending' = [pending EXCEPT ![p] = <<>>]
  BY DEF ConsumeUpdate
<1>7. added = IF delta # <<>> THEN <<delta>> ELSE SnapshotChunks(early, whole)
  BY <1>0
<1> HIDE DEF early, whole, more
<1>8. \E x \in Texts :
         /\ (added = <<>> /\ x = <<>>) \/ added = <<x>>
         /\ Due(p)' = Due(p) \o x /\ (chunk = <<>> => x = <<>>)
         /\ buffer \in Texts
         /\ IF style[p] = "snapshot" THEN buffer = whole ELSE Ink(buffer) = Ink(more)
  <2> HIDE DEF added
  <2>1. CASE style[p] # "snapshot" /\ chunk # <<>>
    <3>1. added = <<chunk>> /\ buffer = early \o chunk
      BY <1>7, <2>1
    <3>2. early \o chunk \in Texts /\ Ink(early \o chunk) = Ink(more)
      <4>1. early \in Texts /\ Ink(early) = Ink(text)
        BY <1>2, <2>1
      <4>2. early \o chunk \in Texts /\ Ink(early \o chunk) = Ink(early) \cup Ink(chunk)
        BY <4>1, JoinFacts, InkJoin
      <4> QED
        BY <1>3, <4>1, <4>2
    <3> HIDE DEF buffer
    <3> QED
      BY <1>5, <2>1, <3>1, <3>2 DEF more
  <2>2. CASE style[p] # "snapshot" /\ chunk = <<>>
    <3>1. more = text
      BY <1>0, <2>2 DEF more
    <3>2. SnapshotChunks(early, whole) = <<>>
      BY <1>2, <1>4, <2>2, <3>1, NoMore
    <3>3. added = <<>> /\ Due(p)' = Due(p) \o <<>>
      BY <1>0, <1>5, <1>7, <2>2, <3>1, <3>2
    <3>4. buffer \in Texts /\ Ink(buffer) = Ink(more)
      BY <1>2, <1>4, <2>2, <3>1
    <3> HIDE DEF buffer
    <3> QED
      BY <1>0, <2>2, <3>3, <3>4
  <2>3. CASE style[p] = "snapshot"
    <3>1. IsPrefix(early, whole)
      BY <1>2, <1>4, <2>3, StripPrefix DEF more
    <3>2. added = SnapshotChunks(early, whole) /\ Due(p) = early /\ Due(p)' = whole
      BY <1>2, <1>5, <1>7, <2>3
    <3>3. buffer = (IF whole = <<>> THEN early ELSE whole)
      BY <2>3
    <3>4. chunk = <<>> => early = whole
      BY <1>0, <1>2, <1>4, <2>3 DEF more
    <3> HIDE DEF buffer
    <3>5. \/ added = <<>> /\ early = whole
          \/ /\ early # whole /\ whole # <<>>
             /\ \E rest \in Texts : added = <<rest>> /\ early \o rest = whole
      <4>1. early \in Texts /\ whole \in Texts
        BY <1>2, <1>4
      <4> QED
        BY <3>1, <3>2, <4>1, SnapshotMore
    <3>6. CASE added = <<>> /\ early = whole
      BY <1>0, <1>4, <2>3, <3>2, <3>3, <3>6
    <3>7. CASE /\ early # whole /\ whole # <<>>
               /\ \E rest \in Texts : added = <<rest>> /\ early \o rest = whole
      BY <1>4, <2>3, <3>2, <3>3, <3>4, <3>7
    <3> QED
      BY <3>5, <3>6, <3>7
  <2> QED
    BY <2>1, <2>2, <2>3
<1> HIDE DEF buffer, added
<1>9. PICK x \in Texts :
         /\ (added = <<>> /\ x = <<>>) \/ added = <<x>>
         /\ Due(p)' = Due(p) \o x /\ (chunk = <<>> => x = <<>>)
         /\ buffer \in Texts
         /\ IF style[p] = "snapshot" THEN buffer = whole ELSE Ink(buffer) = Ink(more)
  BY <1>8
<1>10. out'.buffers["text"] = out.buffers["text"] \o x
  <2>1. texts = added
    <3>1. <<>> \in Seq(Texts) /\ \A y \in Texts : <<y>> \in Seq(Texts)
      OBVIOUS
    <3>2. added \in Seq(Texts)
      BY <1>9, <3>1
    <3> QED
      BY <1>1, <3>2, ConcatEmptySeq
  <2>2. CASE added = <<>> /\ x = <<>>
    <3>1. Len(chunks) = 0
      BY <2>1, <2>2
    <3> HIDE DEF chunks
    <3>2. out' = out
      BY <1>6, <3>1, EmitsOne
    <3>3. out.buffers["text"] \in Texts
      BY DEF Out, Blocks
    <3> QED
      BY <1>0, <2>2, <3>2, <3>3
  <2>3. CASE added = <<x>>
    <3>1. Len(chunks) = 1 /\ chunks[1] = Chunk(p, x)
      BY <2>1, <2>3
    <3> HIDE DEF chunks
    <3>2. out' = EmitChunk(out, Chunk(p, x))
      BY <1>6, <3>1, EmitsOne
    <3> QED
      BY <3>2, EmitText
  <2> QED
    BY <1>9, <2>2, <2>3
<1>11. Ready(p)'
  <2>1. state'[p] = buffer /\ BufferOf(p)' = buffer /\ buffer # None /\ pending'[p] = <<>>
    BY <1>6, <1>9, PartsAssumption DEF ConsumerTyped, BufferOf
  <2> QED
    BY <1>5, <1>9, <2>1 DEF Ready
<1> QED
  BY <1>9, <1>10, <1>11 DEF Tells

(* What the consumer reads of a part leaves the others as they are, and    *)
(* the text buffer unless it is of a text that is not the user's.          *)
Quiet(p) ==
    /\ \A q \in Parts \ {p} : state'[q] = state[q] /\ pending'[q] = pending[q]
    /\ out.echoed => out'.echoed
    /\ BlockOf[p] # "text" \/ RoleOf[p] = "user"
          => out'.buffers["text"] = out.buffers["text"]

LEMMA ChunksQuiet ==
    ASSUME Growing(out), NEW p \in Parts, BlockOf[p] # "step", RoleOf[p] # "user",
           NEW texts \in Seq(Texts),
           out' = EmitChunks([i \in DOMAIN texts |-> Chunk(p, texts[i])])
    PROVE  /\ out.echoed => out'.echoed
           /\ BlockOf[p] # "text" => out'.buffers["text"] = out.buffers["text"]
<1> DEFINE chunks == [i \in DOMAIN texts |-> Chunk(p, texts[i])]
<1>1. /\ DOMAIN texts = 1..Len(texts) /\ Len(texts) \in Nat
      /\ \A i \in 1..Len(texts) : texts[i] \in Texts
  BY LenProperties, ElementOfSeq
<1>2. \A i \in 1..Len(texts) : Chunk(p, texts[i]) \in Chunks
  BY <1>1, ChunkTyped
<1>3. chunks \in Seq(Chunks) /\ Len(chunks) = Len(texts)
  BY <1>1, <1>2
<1>4. \A i \in 1..Len(texts) : chunks[i].block = BlockOf[p]
  BY <1>1 DEF Chunk
<1> HIDE DEF chunks
<1>5. out' = EmitChunks(chunks)
  BY DEF chunks
<1> QED
  BY <1>3, <1>4, <1>5, EmitsQuiet

LEMMA DeltaQuiet ==
    ASSUME ConsumerTyped, Growing(out), NEW p \in Parts, NEW delta \in Texts,
           BlockOf[p] # "step", ConsumeDelta(p, delta)
    PROVE  Quiet(p)
<1>1. CASE state[p] = None \/ RoleOf[p] = "user"
  BY <1>1 DEF ConsumeDelta, ConsumerTyped, consumerVars, Quiet
<1>2. CASE state[p] # None /\ RoleOf[p] # "user"
  <2> DEFINE texts == <<delta>>
  <2>1. /\ state' = [state EXCEPT ![p] = state[p] \o delta]
        /\ out' = EmitChunks(<<Chunk(p, delta)>>) /\ pending' = pending
    BY <1>2 DEF ConsumeDelta
  <2>2. texts \in Seq(Texts) /\ <<Chunk(p, delta)>> = [i \in DOMAIN texts |-> Chunk(p, texts[i])]
    OBVIOUS
  <2> HIDE DEF texts
  <2>3. /\ out.echoed => out'.echoed
        /\ BlockOf[p] # "text" => out'.buffers["text"] = out.buffers["text"]
    BY <1>2, <2>1, <2>2, ChunksQuiet
  <2> QED
    BY <1>2, <2>1, <2>3 DEF Quiet, ConsumerTyped
<1> QED
  BY <1>1, <1>2

LEMMA UpdateQuiet ==
    ASSUME ConsumerTyped, Growing(out), NEW p \in Parts, NEW delta \in Texts,
           Shown(p) \in Texts, ConsumeUpdate(p, delta)
    PROVE  Quiet(p)
<1> DEFINE early == BufferOf(p) \o FlattenSeq(pending[p])
           whole == Strip(Shown(p))
           added == IF delta # <<>> THEN <<delta>>
                    ELSE IF BlockOf[p] # "tool" THEN SnapshotChunks(early, whole)
                    ELSE IF whole \in {<<>>, early} THEN <<>> ELSE <<whole>>
           texts == pending[p] \o added
<1>1. pending' = [pending EXCEPT ![p] = <<>>]
  BY DEF ConsumeUpdate
<1>2. CASE BlockOf[p] = "step"
  <2>1. out' = Progress(p) /\ UNCHANGED state
    BY <1>2 DEF ConsumeUpdate
  <2>2. out'.buffers = out.buffers /\ out'.echoed = out.echoed
    BY <2>1 DEF Progress, Growing, Out
  <2> QED
    BY <1>1, <2>1, <2>2 DEF Quiet, ConsumerTyped
<1>3. CASE BlockOf[p] # "step" /\ RoleOf[p] = "user"
  <2>1. state' = [state EXCEPT ![p] = BufferOf(p)] /\ UNCHANGED out
    BY <1>3 DEF ConsumeUpdate
  <2> QED
    BY <1>1, <2>1 DEF Quiet, ConsumerTyped
<1>4. CASE BlockOf[p] # "step" /\ RoleOf[p] # "user"
  <2>1. texts \in Seq(Texts)
    <3>1. pending[p] \in Seq(Texts) /\ BufferOf(p) \in Texts /\ FlattenSeq(pending[p]) \in Texts
      BY SeenTexts
    <3>2. early \in Texts /\ whole \in Texts
      BY <3>1, StripTexts, JoinFacts
    <3> HIDE DEF early, whole
    <3>3. <<delta>> \in Seq(Texts) /\ <<whole>> \in Seq(Texts) /\ <<>> \in Seq(Texts)
      BY <3>2
    <3>4. added \in Seq(Texts)
      BY <3>2, <3>3, SnapshotTyped
    <3> HIDE DEF added
    <3> QED
      BY <3>1, <3>4, ConcatProperties
  <2>2. /\ \A q \in Parts \ {p} : state'[q] = state[q]
        /\ out' = EmitChunks([i \in DOMAIN texts |-> Chunk(p, texts[i])])
    BY <1>4 DEF ConsumeUpdate, ConsumerTyped
  <2> HIDE DEF texts
  <2>3. /\ out.echoed => out'.echoed
        /\ BlockOf[p] # "text" => out'.buffers["text"] = out.buffers["text"]
    BY <1>4, <2>1, <2>2, ChunksQuiet
  <2> QED
    BY <1>1, <1>4, <2>2, <2>3 DEF Quiet, ConsumerTyped
<1> QED
  BY <1>2, <1>3, <1>4

LEMMA DueIs ==
    ASSUME NEW p \in Parts, NEW n \in 0..Len(ChunksOf[p])
    PROVE  LET text == First(ChunksOf[p], n)
           IN  /\ text \in Texts /\ Strip(text) \in Texts
               /\ n = 0 => text = <<>> /\ Strip(text) = <<>>
<1> DEFINE text == First(ChunksOf[p], n)
<1>1. text \in Texts /\ (n = 0 => text = <<>>)
  <2>1. ChunksOf[p] \in Seq(Texts)
    BY PartsAssumption
  <2> QED
    BY <2>1, FirstTexts
<1> HIDE DEF text
<1>2. Strip(text) \in Texts
  BY <1>1, StripTexts
<1>3. Strip(<<>>) = <<>>
  BY DEF Strip
<1> QED
  BY <1>1, <1>2, <1>3 DEF text

(* The parts of one block are written one after the other.                 *)
OrderInv ==
    \A p, q \in cast :
       Before(p, q) /\ BlockOf[p] = BlockOf[q] /\ written[q] > 0
          => written[p] = Len(ChunksOf[p])

(* What the consumer reads of an answer comes to the end of what is due.   *)
LEMMA AnswerTells ==
    ASSUME StreamTypeOK, ScriptInv, Growing(out), NEW p \in Answers, IsPlain(p),
           Ready(p), UpstreamWrites(p) \/ UpstreamRepeats(p), Reads, ~out'.echoed
    PROVE  \E x \in Texts : Tells(p, x) /\ (written'[p] = written[p] => x = <<>>)
<1> DEFINE n == written[p]
           text == First(ChunksOf[p], n)
<1>1. /\ ConsumerTyped /\ out \in Out /\ p \in Parts /\ p \in Flows
      /\ BlockOf[p] = "text" /\ RoleOf[p] # "user" /\ p \notin LateParts
      /\ style' = style
  BY DEF StreamTypeOK, ScriptInv, ConsumerTyped, Growing, Answers, IsPlain, Flows,
         UpstreamWrites, UpstreamRepeats
<1>2. ChunksOf[p] \in Seq(Texts) /\ Len(ChunksOf[p]) \in Nat /\ n \in 0..Len(ChunksOf[p])
  BY <1>1, PartsAssumption, LenProperties DEF StreamTypeOK
<1>3. text \in Texts /\ Rising(text)
  BY <1>1, <1>2, WrittenRises
<1>4. <<>> \in Texts /\ text \o <<>> = text
  BY <1>3, EmptySeq, ConcatEmptySeq DEF Texts
<1>5. CASE UpstreamRepeats(p)
  <2>1. written'[p] = n /\ ConsumeUpdate(p, <<>>)
    BY <1>5 DEF UpstreamRepeats
  <2> HIDE DEF text
  <2>2. text \o <<>> = First(ChunksOf[p], written'[p])
    BY <1>4, <2>1 DEF text
  <2>3. PICK x \in Texts : Tells(p, x) /\ x = <<>>
    BY <1>1, <1>3, <1>4, <2>1, <2>2, UpdateTells DEF text
  <2> QED
    BY <2>3
<1>6. CASE UpstreamWrites(p)
  <2> DEFINE chunk == ChunksOf[p][n + 1]
  <2>1. /\ n < Len(ChunksOf[p]) /\ written'[p] = n + 1
        /\ \/ /\ style[p] = "delta" /\ ConsumeDelta(p, chunk)
              /\ p \in announced
           \/ style[p] = "updated" /\ ConsumeUpdate(p, chunk)
           \/ style[p] = "snapshot" /\ ConsumeUpdate(p, <<>>)
    BY <1>1, <1>6 DEF UpstreamWrites, StreamTypeOK
  <2>2. chunk \in Texts /\ First(ChunksOf[p], n + 1) = text \o chunk
    <3>1. n \in 0..(Len(ChunksOf[p]) - 1)
      BY <1>2, <2>1
    <3> HIDE DEF n
    <3> QED
      BY <1>2, <3>1, FirstTexts
  <2>3. written'[p] # written[p]
    BY <1>2, <2>1
  <2>4. First(ChunksOf[p], written'[p]) = text \o chunk
    BY <2>1, <2>2
  <2> HIDE DEF chunk
  <2>5. CASE style[p] = "delta" /\ ConsumeDelta(p, chunk) /\ p \in announced
    <3>1. Tells(p, chunk)
      BY <1>1, <1>3, <2>2, <2>4, <2>5, DeltaTells
    <3> QED
      BY <2>2, <2>3, <3>1
  <2>6. ASSUME NEW delta \in Texts, ConsumeUpdate(p, delta),
               delta = IF style[p] = "snapshot" THEN <<>> ELSE chunk
        PROVE  \E x \in Texts : Tells(p, x)
    <3> HIDE DEF text
    <3>1. text = First(ChunksOf[p], written[p]) /\ text \o chunk = First(ChunksOf[p], written'[p])
      BY <2>4 DEF text
    <3> QED
      BY <1>1, <1>3, <2>2, <2>6, <3>1, UpdateTells
  <2>7. CASE style[p] = "updated" /\ ConsumeUpdate(p, chunk)
    BY <2>2, <2>3, <2>6, <2>7
  <2>8. CASE style[p] = "snapshot" /\ ConsumeUpdate(p, <<>>)
    BY <1>4, <2>3, <2>6, <2>8
  <2> QED
    BY <2>1, <2>5, <2>7, <2>8
<1> QED
  BY <1>5, <1>6

LEMMA ReadsQuiet ==
    ASSUME StreamTypeOK, ScriptInv, Growing(out), NEW p \in Parts,
           UpstreamWrites(p) \/ UpstreamRepeats(p), Reads
    PROVE  Quiet(p)
<1>1. ConsumerTyped
  BY DEF StreamTypeOK, ConsumerTyped
<1>2. Shown(p) \in Texts
  <2>1. written'[p] \in 0..Len(ChunksOf[p])
    BY ConsumerGrows
  <2> QED
    BY <2>1, ShownTexts
<1>3. ASSUME NEW delta \in Texts, ConsumeUpdate(p, delta) PROVE Quiet(p)
  BY <1>1, <1>2, <1>3, UpdateQuiet
<1>4. <<>> \in Texts
  BY EmptySeq DEF Texts
<1>5. CASE UpstreamRepeats(p)
  BY <1>3, <1>4, <1>5 DEF UpstreamRepeats
<1>6. CASE UpstreamWrites(p)
  <2> DEFINE chunk == ChunksOf[p][written[p] + 1]
  <2>1. \/ style[p] = "delta" /\ ConsumeDelta(p, chunk)
        \/ style[p] = "updated" /\ ConsumeUpdate(p, chunk)
        \/ style[p] = "snapshot" /\ ConsumeUpdate(p, <<>>)
    BY <1>6 DEF UpstreamWrites
  <2>2. chunk \in Texts
    <3>0. written[p] < Len(ChunksOf[p]) /\ written[p] \in Nat
      BY <1>6 DEF UpstreamWrites, StreamTypeOK
    <3>1. /\ written[p] + 1 \in 1..Len(ChunksOf[p])
          /\ ChunksOf[p] \in Seq(Texts)
      BY <3>0, PartsAssumption, LenProperties
    <3> DEFINE s == ChunksOf[p]
               k == written[p] + 1
    <3>2. s \in Seq(Texts) /\ k \in 1..Len(s)
      BY <3>1
    <3> HIDE DEF s, k
    <3>3. s[k] \in Texts
      BY <3>2, ElementOfSeq
    <3> QED
      BY <3>3 DEF s, k
  <2>3. style[p] = "delta" => BlockOf[p] # "step"
    BY DEF ScriptInv
  <2> HIDE DEF chunk
  <2> QED
    BY <1>1, <1>3, <1>4, <2>1, <2>2, <2>3, DeltaQuiet
<1> QED
  BY <1>5, <1>6

(* The consumer keeps up with upstream as long as it misses nothing.       *)
LEMMA ReadsOnTime ==
    ASSUME StreamTypeOK, ScriptInv, OrderInv, Growing(out), turns = 1,
           \A q \in cast : IsPlain(q), UpToDate, ~out'.echoed,
           NEW p \in Parts, UpstreamWrites(p) \/ UpstreamRepeats(p), Reads
    PROVE  UpToDate'
<1>1. /\ p \in cast /\ TurnOf[p] = 1 /\ UNCHANGED <<cast, style>>
      /\ cast \subseteq Parts
  BY DEF UpstreamWrites, UpstreamRepeats, Writing, StreamTypeOK, ScriptInv
<1>2. Answers' = Answers /\ Answers \subseteq Parts
  BY <1>1 DEF Answers
<1>3. /\ \A q \in Parts : written[q] \in 0..Len(ChunksOf[q])
      /\ \A q \in Parts : written'[q] \in 0..Len(ChunksOf[q])
      /\ \A q \in Parts \ {p} : written'[q] = written[q] /\ (q \in announced' <=> q \in announced)
  <2>1. \A q \in Parts : written'[q] \in 0..Len(ChunksOf[q])
    BY ConsumerGrows
  <2> QED
    BY <2>1 DEF UpstreamWrites, UpstreamRepeats, StreamTypeOK
<1>4. Quiet(p)
  BY ReadsQuiet
<1>5. ASSUME NEW q \in Answers, q # p PROVE Ready(q)' /\ Due(q)' = Due(q)
  <2>1. /\ state'[q] = state[q] /\ pending'[q] = pending[q] /\ written'[q] = written[q]
        /\ (q \in announced' <=> q \in announced) /\ style'[q] = style[q]
    BY <1>1, <1>2, <1>3, <1>4, <1>5 DEF Quiet
  <2>2. Due(q)' = Due(q) /\ BufferOf(q)' = BufferOf(q)
    BY <2>1 DEF Due, BufferOf
  <2>3. Ready(q)
    BY DEF UpToDate
  <2> QED
    BY <2>1, <2>2, <2>3 DEF Ready
<1>6. /\ DOMAIN Order = 1..Len(Order) /\ Len(Order) \in Nat
      /\ \A i \in 1..Len(Order) : Order[i] \in Parts
      /\ \A i, j \in 1..Len(Order) : Order[i] = Order[j] => i = j
  BY PartsAssumption, LenProperties, ElementOfSeq DEF IsInjective
<1>7. /\ \A q \in Parts : Due(q) \in Texts /\ (written[q] = 0 => Due(q) = <<>>)
      /\ \A q \in Parts : Due(q)' \in Texts
  BY <1>3, DueIs DEF Due
<1>8. <<>> \in Texts /\ \A y \in Texts : y \o <<>> = y
  BY EmptySeq, ConcatEmptySeq DEF Texts
<1>9. /\ Dues \in Seq(Texts) /\ Len(Dues) = Len(Order)
      /\ \A i \in 1..Len(Order) :
            Dues[i] = IF Order[i] \in Answers THEN Due(Order[i]) ELSE <<>>
  BY <1>2, <1>6, <1>7, <1>8 DEF Dues
<1>10. /\ Dues' \in Seq(Texts) /\ Len(Dues') = Len(Order)
       /\ \A i \in 1..Len(Order) :
             Dues'[i] = IF Order[i] \in Answers THEN Due(Order[i])' ELSE <<>>
  BY <1>2, <1>6, <1>7, <1>8 DEF Dues
<1>11. CASE p \notin Answers
  <2>1. BlockOf[p] # "text" \/ RoleOf[p] = "user"
    BY <1>1, <1>11 DEF Answers, IsPlain
  <2>2. out'.buffers["text"] = out.buffers["text"]
    BY <1>4, <2>1 DEF Quiet
  <2>3. Dues' = Dues
    BY <1>5, <1>9, <1>10, <1>11, SeqEqual
  <2> QED
    BY <1>2, <1>5, <1>11, <2>2, <2>3 DEF UpToDate
<1>12. CASE p \in Answers
  <2>1. PICK x \in Texts : Tells(p, x) /\ (written'[p] = written[p] => x = <<>>)
    BY <1>1, <1>12, AnswerTells DEF UpToDate
  <2>2. PICK i \in 1..Len(Order) : Order[i] = p
    BY <1>6 DEF Parts, ToSet
  <2>3. Dues'[i] = Dues[i] \o x
    BY <1>9, <1>10, <1>12, <2>1, <2>2 DEF Tells
  <2>4. \A j \in 1..Len(Order) : j # i => Dues'[j] = Dues[j]
    BY <1>5, <1>6, <1>9, <1>10, <2>2
  <2>5. CASE x = <<>>
    <3>1. Dues[i] \in Texts
      BY <1>9, ElementOfSeq
    <3>2. Dues' = Dues
      BY <1>8, <1>9, <1>10, <2>3, <2>4, <2>5, <3>1, SeqEqual
    <3>3. FlattenSeq(Dues) \in Texts
      BY <1>9, FlattenTexts
    <3>4. out'.buffers["text"] = FlattenSeq(Dues)
      BY <1>8, <2>1, <2>5, <3>3 DEF UpToDate, Tells
    <3>5. \A q \in Answers' : Ready(q)'
      BY <1>2, <1>5, <2>1 DEF Tells
    <3> QED
      BY <3>2, <3>4, <3>5 DEF UpToDate
  <2>6. CASE x # <<>>
    <3>1. UpstreamWrites(p) /\ written[p] < Len(ChunksOf[p])
      BY <2>1, <2>6 DEF UpstreamWrites, UpstreamRepeats
    <3>2. ASSUME NEW j \in 1..Len(Order), j > i PROVE Dues[j] = <<>>
      <4>1. CASE Order[j] \in Answers
        <5> DEFINE q == Order[j]
        <5>1. Before(p, q) /\ q \in cast /\ BlockOf[q] = BlockOf[p]
          BY <1>6, <1>12, <2>2, <3>2, <4>1 DEF Before, Answers
        <5>2. ~(written[q] > 0) /\ q \in Parts
          BY <1>1, <1>3, <3>1, <5>1 DEF OrderInv
        <5>3. written[q] = 0
          BY <1>3, <5>2
        <5> QED
          BY <1>7, <1>9, <5>2, <5>3
      <4> QED
        BY <1>9, <4>1
    <3>3. FlattenSeq(Dues') = FlattenSeq(Dues) \o x
      <4> DEFINE s == Dues
                 t == Dues'
      <4>1. /\ s \in Seq(Texts) /\ t \in Seq(Texts) /\ Len(t) = Len(s) /\ i \in 1..Len(s)
            /\ t[i] = s[i] \o x
            /\ \A j \in 1..Len(s) : j # i => t[j] = s[j]
            /\ \A j \in 1..Len(s) : j > i => s[j] = <<>>
        BY <1>9, <1>10, <2>3, <2>4, <3>2
      <4> HIDE DEF s, t
      <4>2. FlattenSeq(t) = FlattenSeq(s) \o x
        BY <4>1, JoinAt
      <4> QED
        BY <4>2 DEF s, t
    <3> QED
      BY <1>2, <1>5, <2>1, <3>3 DEF UpToDate, Tells
  <2> QED
    BY <2>5, <2>6
<1> QED
  BY <1>11, <1>12

-------------------------------------------------------------------------------
(* The script of an execution in one turn: parts of a block are written in *)
(* order, and session.idle comes when all of them are.                     *)
WholeInv == turns = 1 /\ signal = "completed" => idles >= turn /\ TurnIsWritten

(* Nothing was lost and nothing was taken for an echo.                     *)
Smooth == turns = 1 /\ missed = {} /\ ~out.echoed /\ \A p \in cast : IsPlain(p)

(* As long as nothing is lost the buffer is up to date, until the signal   *)
(* has come and the coordinator acts on it.                                *)
PlainInv ==
    pc \in {"send", "await"} /\ Smooth /\ (Running \/ signal = "completed") => UpToDate

LEMMA PlainStart == StreamInit => OrderInv /\ WholeInv /\ PlainInv
<1> SUFFICES ASSUME StreamInit PROVE OrderInv /\ WholeInv /\ PlainInv
  OBVIOUS
<1>1. /\ out = OutInit /\ written = [p \in Parts |-> 0] /\ announced = {}
      /\ state = [p \in Parts |-> None] /\ pending = [p \in Parts |-> <<>>]
      /\ signal = "none" /\ cast \subseteq Parts
  BY DeliveryStart DEF StreamInit, ScriptInv
<1>2. OrderInv /\ WholeInv
  BY <1>1 DEF OrderInv, WholeInv
<1>3. ASSUME NEW p \in Parts PROVE Due(p) = <<>>
  <2>1. 0 \in 0..Len(ChunksOf[p]) /\ written[p] = 0
    BY <1>1, PartsAssumption, LenProperties
  <2> QED
    BY <2>1, DueIs DEF Due
<1>4. \A p \in Answers : Ready(p)
  BY <1>1, <1>3 DEF Ready, BufferOf, Answers
<1>5. FlattenSeq(Dues) = <<>>
  <2>1. /\ DOMAIN Order = 1..Len(Order) /\ Len(Order) \in Nat /\ <<>> \in Texts
        /\ \A i \in 1..Len(Order) : Order[i] \in Parts
    BY PartsAssumption, LenProperties, ElementOfSeq, EmptySeq DEF Texts
  <2>2. \A i \in 1..Len(Order) : Dues[i] = <<>>
    BY <1>3, <2>1 DEF Dues
  <2>3. Dues \in Seq(Texts) /\ Len(Dues) = Len(Order)
    BY <1>3, <2>1 DEF Dues
  <2> QED
    BY <2>2, <2>3, JoinNothing
<1>6. out.buffers["text"] = <<>>
  BY <1>1 DEF OutInit, Blocks
<1> QED
  BY <1>2, <1>4, <1>5, <1>6 DEF PlainInv, UpToDate

LEMMA OrderStep ==
    ASSUME StreamTypeOK, ScriptInv, OrderInv, [StreamNext]_streamVars
    PROVE  OrderInv'
<1>1. CASE UNCHANGED <<cast, written>>
  BY <1>1 DEF OrderInv
<1>2. ASSUME NEW p \in Parts, UpstreamWrites(p) PROVE OrderInv'
  <2>1. /\ cast' = cast /\ cast \subseteq Parts /\ p \in cast
        /\ written[p] < Len(ChunksOf[p])
        /\ \A q \in cast : Before(q, p) /\ BlockOf[q] = BlockOf[p]
                           => written[q] = Len(ChunksOf[q])
        /\ written'[p] = written[p] + 1
        /\ \A q \in Parts \ {p} : written'[q] = written[q]
    BY <1>2 DEF UpstreamWrites, Writing, StreamTypeOK, ScriptInv
  <2>2. \A q \in Parts : written[q] \in Nat /\ Len(ChunksOf[q]) \in Nat
    BY PartsAssumption, LenProperties DEF StreamTypeOK
  <2> SUFFICES ASSUME NEW a \in cast, NEW b \in cast, Before(a, b),
                      BlockOf[a] = BlockOf[b], written'[b] > 0
               PROVE  written'[a] = Len(ChunksOf[a])
    BY <2>1 DEF OrderInv, Before
  <2>3. a \in Parts /\ b \in Parts
    BY <2>1
  <2>4. written[a] = Len(ChunksOf[a])
    <3>1. CASE b = p
      BY <2>1, <3>1
    <3>2. CASE b # p
      BY <2>1, <2>3, <3>2 DEF OrderInv
    <3> QED
      BY <3>1, <3>2
  <2>5. a # p
    BY <2>1, <2>2, <2>3, <2>4
  <2> QED
    BY <2>1, <2>3, <2>4, <2>5
<1>3. UNCHANGED <<cast, written>> \/ \E p \in Parts : UpstreamWrites(p)
  BY DEF StreamNext, Upstream, Coordinator, UpstreamRepeats, UpstreamIdles, UpstreamErrs,
         Connect, StreamBreaks, StreamCloses, ConsumerStops, SendReturns, SendFails,
         StreamEndedFirst, EndsInError, Completes, Cancel, Cleanup, upstreamVars,
         streamVars
<1> QED
  BY <1>1, <1>2, <1>3

LEMMA WholeStep ==
    ASSUME StreamTypeOK, StreamTypeOK', SignalInv, WholeInv, [StreamNext]_streamVars
    PROVE  WholeInv'
<1> SUFFICES ASSUME turns' = 1, signal' = "completed"
             PROVE  (idles >= turn)' /\ TurnIsWritten'
  BY DEF WholeInv
<1>0. turns' = turns /\ cast' = cast
  BY DEF StreamNext, Upstream, Coordinator, UpstreamWrites, UpstreamRepeats,
         UpstreamIdles, UpstreamErrs, Connect, StreamBreaks, StreamCloses,
         ConsumerStops, SendReturns, SendFails, StreamEndedFirst, EndsInError,
         Completes, Cancel, Cleanup, upstreamVars, streamVars
<1>1. turns = 1 /\ turn = 1 /\ turn' = 1 /\ cast' = cast
  BY <1>0 DEF StreamTypeOK
<1>2. CASE signal = "completed"
  <2>1. idles >= turn /\ TurnIsWritten
    BY <1>1, <1>2 DEF WholeInv
  <2>2. idles \in Nat /\ ~(idles < turn)
    BY <1>1, <2>1 DEF StreamTypeOK
  <2>3. UNCHANGED <<idles, written>>
    BY <2>2 DEF StreamNext, Upstream, Coordinator, UpstreamWrites, UpstreamRepeats, Writing,
         UpstreamIdles, UpstreamErrs, Connect, StreamBreaks, StreamCloses,
         ConsumerStops, SendReturns, SendFails, StreamEndedFirst, EndsInError,
         Completes, Cancel, Cleanup, upstreamVars, streamVars
  <2> QED
    BY <1>1, <2>1, <2>3 DEF TurnIsWritten
<1>3. CASE signal # "completed"
  <2>1. UpstreamIdles
    BY <1>3 DEF StreamNext, Upstream, Coordinator, UpstreamWrites, UpstreamRepeats,
         UpstreamErrs, Connect, StreamBreaks, StreamCloses, ConsumerStops, SendReturns,
         SendFails, StreamEndedFirst, EndsInError, Completes, Cancel, Cleanup,
         signalVars, streamVars
  <2>2. /\ idles < turn /\ idles' = idles + 1 /\ written' = written
        /\ idles + 1 = turn => TurnIsWritten
    BY <2>1 DEF UpstreamIdles
  <2>3. idles + 1 = turn
    BY <1>1, <2>2 DEF StreamTypeOK
  <2> QED
    BY <1>1, <2>2, <2>3 DEF TurnIsWritten
<1> QED
  BY <1>2, <1>3

(* What was not lost yet, or not told as completed, is up to date.         *)
LEMMA PlainStep ==
    ASSUME StreamTypeOK, ScriptInv, SignalInv, OutcomeInv, DeliveryInv, OrderInv,
           WholeInv, PlainInv, [StreamNext]_streamVars
    PROVE  PlainInv'
<1> SUFFICES ASSUME pc' \in {"send", "await"}, Smooth', Running' \/ signal' = "completed"
             PROVE  UpToDate'
  BY DEF PlainInv
<1>1. UNCHANGED <<cast, style, turns>>
  BY DEF StreamNext, Upstream, Coordinator, UpstreamWrites, UpstreamRepeats,
         UpstreamIdles, UpstreamErrs, Connect, StreamBreaks, StreamCloses,
         ConsumerStops, SendReturns, SendFails, StreamEndedFirst, EndsInError,
         Completes, Cancel, Cleanup, upstreamVars, streamVars
<1>2. turns = 1 /\ ~out'.echoed /\ missed' = {} /\ \A p \in cast : IsPlain(p)
  BY <1>1 DEF Smooth, IsPlain
<1>3. CASE ConsumerWrites
  <2>1. PICK p \in Parts : UpstreamWrites(p) \/ UpstreamRepeats(p)
    BY <1>3 DEF ConsumerWrites
  <2>2. /\ UNCHANGED <<turn, idles, stream, signal, stopped, pc, outcome, connected>>
        /\ missed = {} /\ idles < turn /\ (~Reads => Misses("part"))
    BY <1>2, <1>3, <2>1, ConsumerIsQuiet
       DEF signalVars, coordinatorVars, UpstreamWrites, UpstreamRepeats, Writing
  <2>3. Running
    <3>1. signal = "completed" => idles >= turn
      BY <1>2 DEF WholeInv
    <3>2. signal # "completed"
      BY <2>2, <3>1 DEF StreamTypeOK
    <3> QED
      BY <2>2, <3>2 DEF Running
  <2>4. Reads
    BY <1>2, <2>2, <2>3 DEF Misses
  <2>5. Growing(out)
    BY <2>2 DEF OutcomeInv, DeliveryInv
  <2>6. ~out.echoed
    BY <1>2, <2>1, <2>4, <2>5, ReadsQuiet DEF Quiet
  <2>7. UpToDate
    BY <1>2, <2>2, <2>3, <2>6 DEF PlainInv, Smooth
  <2> QED
    BY <1>2, <2>1, <2>4, <2>5, <2>7, ReadsOnTime
<1>4. CASE ~ConsumerWrites
  <2>1. /\ UNCHANGED <<state, pending, written, announced, out>>
        /\ pc \in {"send", "await"} /\ missed \subseteq missed'
    BY <1>4 DEF StreamNext, Upstream, Coordinator, ConsumerWrites, UpstreamIdles, Misses,
         UpstreamErrs, Connect, StreamBreaks, StreamCloses, ConsumerStops, SendReturns,
         SendFails, StreamEndedFirst, EndsInError, Completes, Cancel, Cleanup, Fail,
         consumerVars, upstreamVars, coordinatorVars, streamVars
  <2>2. Running \/ signal = "completed"
    BY <1>4 DEF StreamNext, Upstream, Coordinator, ConsumerWrites, UpstreamIdles, Running,
         Reads, UpstreamErrs, Connect, StreamBreaks, StreamCloses, ConsumerStops,
         SendReturns, SendFails, StreamEndedFirst, EndsInError, Completes, Cancel, Cleanup,
         Fail, signalVars, streamVars
  <2>3. UpToDate
    BY <1>2, <2>1, <2>2 DEF PlainInv, Smooth
  <2>4. Answers' = Answers
    BY <1>1 DEF Answers
  <2>5. \A p : Due(p)' = Due(p) /\ BufferOf(p)' = BufferOf(p)
    BY <1>1, <2>1 DEF Due, BufferOf
  <2>6. \A p : Ready(p)' <=> Ready(p)
    BY <1>1, <2>1, <2>5 DEF Ready
  <2>7. Dues' = Dues
    BY <2>4, <2>5 DEF Dues
  <2> QED
    BY <2>1, <2>3, <2>4, <2>6, <2>7 DEF UpToDate
<1> QED
  BY <1>3, <1>4

(* What was streamed of a whole turn is the response.                      *)
LEMMA NoneIsNeeded ==
    ASSUME StreamTypeOK, ScriptInv, turns = 1, TurnIsWritten, UpToDate,
           \A p \in cast : ~LosesBlanks(p)
    PROVE  ~NeedsSnapshot
<1> DEFINE answers == {p \in cast \ Echoes : TurnOf[p] = turn /\ BlockOf[p] = "text"}
           texts == [i \in DOMAIN Order |->
                       IF Order[i] \in answers THEN FlattenSeq(ChunksOf[Order[i]]) ELSE <<>>]
<1>1. turn = 1 /\ answers = Answers
  BY DEF StreamTypeOK, Answers
<1>2. ASSUME NEW p \in Answers PROVE Due(p) = FlattenSeq(ChunksOf[p])
  <2>1. /\ p \in Parts /\ written[p] = Len(ChunksOf[p]) /\ BlockOf[p] = "text"
        /\ ~LosesBlanks(p)
    BY <1>1 DEF ScriptInv, Answers, TurnIsWritten
  <2>2. First(ChunksOf[p], written[p]) = FlattenSeq(ChunksOf[p])
    BY <2>1, PartsAssumption, FirstTexts
  <2> QED
    BY <2>1, <2>2 DEF Due, LosesBlanks
<1>3. texts = Dues
  BY <1>1, <1>2 DEF Dues
<1> HIDE DEF texts
<1>4. ResponseText = Strip(FlattenSeq(texts))
  BY DEF ResponseText, texts
<1> QED
  BY <1>3, <1>4 DEF UpToDate, NeedsSnapshot

LEMMA NeedlessStep ==
    ASSUME StreamTypeOK, ScriptInv, SignalInv, OutcomeInv, DeliveryInv, WholeInv, PlainInv,
           NoNeedlessSnapshot, [StreamNext]_streamVars
    PROVE  NoNeedlessSnapshot'
<1> SUFFICES ASSUME Smooth', \A p \in cast' : ~LosesBlanks(p)'
             PROVE  SentIn(out'.sent, {"final"}) = {}
  BY SentIs DEF NoNeedlessSnapshot, Smooth
<1>1. UNCHANGED <<cast, style, turns>> /\ missed \subseteq missed'
  BY DEF StreamNext, Upstream, Coordinator, UpstreamWrites, UpstreamRepeats, Misses,
         UpstreamIdles, UpstreamErrs, Connect, StreamBreaks, StreamCloses,
         ConsumerStops, SendReturns, SendFails, StreamEndedFirst, EndsInError,
         Completes, Cancel, Cleanup, upstreamVars, streamVars
<1>2. /\ turns = 1 /\ missed = {} /\ ~out'.echoed
      /\ \A p \in cast : IsPlain(p) /\ ~LosesBlanks(p)
  BY <1>1 DEF Smooth, IsPlain, LosesBlanks
<1>3. CASE outcome = "completed"
  <2>1. out' = out
    BY <1>3, CompletedStill
  <2> QED
    BY <1>2, <2>1, SentIs DEF NoNeedlessSnapshot
<1>4. CASE outcome' # "completed"
  BY <1>4, DeliveryStep DEF DeliveryInv, Growing
<1>5. CASE outcome # "completed" /\ outcome' = "completed"
  <2>1. Completes
    BY <1>5 DEF StreamNext, Upstream, Coordinator, UpstreamWrites, UpstreamRepeats,
         UpstreamIdles, UpstreamErrs, Connect, StreamBreaks, StreamCloses,
         ConsumerStops, SendReturns, SendFails, StreamEndedFirst, EndsInError,
         Cancel, Cleanup, Fail, coordinatorVars, streamVars
  <2>2. Growing(out) /\ pc = "await" /\ signal = "completed"
    BY <1>5, <2>1 DEF DeliveryInv, Completes
  <2>3. out \in Out /\ <<>> \in Texts
    BY <2>2, EmptySeq DEF Growing, Texts
  <2>4. out'.echoed = out.echoed
    BY <2>1, <2>3 DEF Completes, Send, Out
  <2>5. UpToDate /\ TurnIsWritten
    BY <1>2, <2>2, <2>4 DEF PlainInv, Smooth, WholeInv
  <2>6. ~NeedsSnapshot
    BY <1>2, <2>5, NoneIsNeeded
  <2>7. Extends(out', out, "status", <<>>, FALSE)
    <3>1. out' = Send(out, "status", <<>>, FALSE)
      BY <2>1, <2>6 DEF Completes
    <3> QED
      BY <2>3, <3>1, SendTyped
  <2>8. PICK entry \in Entry : entry.kind = "status" /\ out'.sent = Append(out.sent, entry)
    BY <2>7 DEF Extends
  <2>9. SentIn(out'.sent, {"final"}) = SentIn(out.sent, {"final"})
    <3>1. out.sent \in Seq(Entry) /\ {"final"} \in SUBSET {"stream", "final"}
      BY <2>3 DEF Out
    <3> QED
      BY <2>8, <3>1, SilentEntry
  <2> QED
    BY <2>2, <2>9 DEF Growing
<1> QED
  BY <1>3, <1>4, <1>5

(* However upstream publishes its texts and whatever it repeats: a client  *)
(* that missed nothing of a plain response in one turn has read all of it, *)
(* and is not sent it again at the end.                                    *)
THEOREM NoSnapshotIsNeedless == StreamSpec => []NoNeedlessSnapshot
<1> DEFINE Inv == /\ StreamTypeOK /\ ScriptInv /\ SignalInv /\ OutcomeInv /\ DeliveryInv
                  /\ OrderInv /\ WholeInv /\ PlainInv /\ NoNeedlessSnapshot
<1>1. StreamInit => Inv
  <2>1. StreamInit => Growing(out)
    BY DeliveryStart DEF StreamInit, DeliveryInv
  <2>2. StreamInit => NoNeedlessSnapshot
    BY <2>1, SentIs DEF NoNeedlessSnapshot, Growing
  <2> QED
    BY <2>2, DeliveryStart, SignalStart, PlainStart
<1>2. Inv /\ [StreamNext]_streamVars => Inv'
  <2>1. Inv /\ [StreamNext]_streamVars => StreamTypeOK'
    BY TypeStep
  <2> QED
    BY <2>1, ScriptStep, SignalStep, OutcomeStep, DeliveryStep, OrderStep, WholeStep,
       PlainStep, NeedlessStep
<1>3. Inv => NoNeedlessSnapshot
  OBVIOUS
<1> HIDE DEF Inv
<1> QED
  BY <1>1, <1>2, <1>3, PTL DEF StreamSpec
===============================================================================
