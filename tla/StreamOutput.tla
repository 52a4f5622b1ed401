----------------------------- MODULE StreamOutput -----------------------------
(***************************************************************************)
(* What the client of one streaming execution is sent: the consumer of the *)
(* upstream event stream turns events about message parts into artifact    *)
(* chunks, and the coordinator, when the response and the terminal signal  *)
(* are there, adds a final snapshot if it has to and the final status.     *)
(*                                                                         *)
(* Text is a sequence of tokens: letters, all different, and blanks.       *)
(* Upstream writes each part in chunks and publishes them as it likes:     *)
(* deltas, updates with a delta, or updates that carry the whole part.     *)
(* Interrupt events are the module Interrupts; metadata is left out.       *)
(***************************************************************************)
EXTENDS Integers, SequencesExt
CONSTANTS Order,      \* the message parts upstream may write, in its order
          Echoes,     \* the parts that repeat what the user said
          BlockOf,    \* part -> "text", "reasoning", "tool" or "step"
          RoleOf,     \* part -> "agent", "user" or "none" (not given)
          TurnOf,     \* part -> the turn it belongs to; all but the last call tools
          Casts,      \* the sets of parts an execution may have
          ChunksOf,   \* part -> the texts it is written in; of a tool or a
                      \* step, the states it goes through
          LateParts,  \* parts whose deltas may come before any update
          UserText,   \* what the user said
          MaxBreaks,  \* bound: times the event stream breaks
          None

Parts == ToSet(Order)
Blank == 0
Blocks == {"text", "reasoning", "tool"}

Texts == Seq(Nat)

ASSUME PartsAssumption ==
    /\ Order \in Seq(Parts) /\ IsInjective(Order)
    /\ BlockOf \in [Parts -> Blocks \cup {"step"}]
    /\ RoleOf \in [Parts -> {"agent", "user", "none"}]
    /\ TurnOf \in [Parts -> Nat \ {0}]
    /\ ChunksOf \in [Parts -> Seq(Texts)]
    /\ Casts \subseteq SUBSET Parts
    /\ None \notin Texts

(* The letters of a text; a text in the order its letters were written in. *)
Ink(text) == ToSet(text) \ {Blank}
Rising(text) ==
    \A i, j \in DOMAIN text :
       i < j /\ Blank \notin {text[i], text[j]} => text[i] < text[j]

(* Letters tell apart where a piece of output is from: each is written     *)
(* once, in one part, and those of a part are numbered in writing order.   *)
ASSUME LettersAssumption ==
    /\ \A p \in Parts :
          BlockOf[p] \in {"text", "reasoning"} => Rising(FlattenSeq(ChunksOf[p]))
    /\ \A p, q \in Parts :
          p # q => Ink(FlattenSeq(ChunksOf[p])) \cap Ink(FlattenSeq(ChunksOf[q])) = {}

VARIABLES cast,       \* the parts of this execution
          style,      \* part -> how upstream publishes it: "delta", "updated"
                      \* (an update with a delta) or "snapshot" (an update)
          turns,      \* turns of this execution
          turn,       \* the turn upstream works on
          written,    \* part -> chunks written
          announced,  \* parts an update was published of
          idles,      \* session.idle events published, one per turn
          connected,  \* the event stream is open
          breaks,     \* times it broke
          missed,     \* kinds of events published while it was not open
          stream,     \* the consumer: "running" or "ended"
          state,      \* part_states: part -> buffer, or None
          pending,    \* pending_deltas: part -> texts
          out,        \* _StreamOutputState and the events enqueued: OutInit
          signal,     \* terminal signal: "none", "completed" or "failed"
          stopped,    \* stop_event
          erred,      \* upstream_error is recorded
          pc,         \* the coordinator: "send", "await", "cleanup", "done"
          outcome     \* final status: "none", "completed" or "failed"

upstreamVars == <<cast, style, turns, turn, written, announced, idles>>
linkVars == <<connected, breaks>>
consumerVars == <<state, pending, out>>
signalVars == <<signal, stopped, erred>>
coordinatorVars == <<pc, outcome>>
streamVars == <<upstreamVars, linkVars, missed, stream, consumerVars, signalVars,
                coordinatorVars>>

OutInit == [buffers  |-> [b \in Blocks |-> <<>>],   \* content_buffers
            progress |-> [p \in Parts |-> None],    \* progress_buffers
            saw      |-> FALSE,                     \* saw_any_chunk
            emitted  |-> FALSE,                     \* emitted_stream_chunk
            echoed   |-> FALSE,                     \* an echo was dropped
            sent     |-> <<>>]                      \* events enqueued

StreamInit ==
    /\ cast \in Casts
    /\ style \in [Parts -> {"delta", "updated", "snapshot"}]
    /\ \A p \in Parts \ cast : style[p] = "snapshot"
    /\ \A p \in Parts : BlockOf[p] \in {"tool", "step"} => style[p] = "snapshot"
    /\ \A p \in LateParts \cap cast : style[p] = "delta"
    /\ turns \in {TurnOf[p] : p \in cast} /\ (\A p \in cast : TurnOf[p] <= turns)
    /\ turn = 1
    /\ written = [p \in Parts |-> 0] /\ announced = {} /\ idles = 0
    /\ connected = FALSE /\ breaks = 0 /\ missed = {}
    /\ stream = "running"
    /\ state = [p \in Parts |-> None] /\ pending = [p \in Parts |-> <<>>]
    /\ out = OutInit
    /\ signal = "none" /\ stopped = FALSE /\ erred = FALSE
    /\ pc = "send" /\ outcome = "none"

-------------------------------------------------------------------------------
(* Texts.                                                                  *)
Strip(text) ==
    LET ink == {i \in DOMAIN text : text[i] # Blank}
    IN  IF ink = {} THEN <<>> ELSE SubSeq(text, Min(ink), Max(ink))

(* What an update shows of a part: its text so far, or its current state.  *)
Shown(p) ==
    IF BlockOf[p] \in {"tool", "step"}
    THEN IF written'[p] = 0 THEN <<>> ELSE ChunksOf[p][written'[p]]
    ELSE FlattenSeq(SubSeq(ChunksOf[p], 1, written'[p]))

-------------------------------------------------------------------------------
(* Registering a chunk and enqueueing its artifact (_emit_chunks).         *)
Chunk(p, text) == [block |-> BlockOf[p], role |-> RoleOf[p], text |-> text,
                   accumulate |-> BlockOf[p] # "tool"]

IsEcho(o, chunk) ==
    /\ chunk.role = "none" /\ chunk.block = "text" /\ ~o.saw
    /\ Strip(UserText) # <<>> /\ Strip(chunk.text) = Strip(UserText)

Register(o, chunk) ==
    LET next == IF chunk.accumulate THEN o.buffers[chunk.block] \o chunk.text
                                    ELSE chunk.text
    IN  IF next = o.buffers[chunk.block] THEN o
        ELSE [o EXCEPT
                !.buffers[chunk.block] = next, !.saw = TRUE, !.emitted = TRUE,
                !.sent = Append(@, [kind |-> "stream", block |-> chunk.block,
                                    text |-> chunk.text, append |-> o.emitted])]

EmitChunk(o, chunk) ==
    IF IsEcho(o, chunk) THEN [o EXCEPT !.echoed = TRUE] ELSE Register(o, chunk)

EmitChunks(chunks) ==
    LET after[n \in 0..Len(chunks)] ==
            IF n = 0 THEN out ELSE EmitChunk(after[n - 1], chunks[n])
    IN  after[Len(chunks)]

(* Progress of steps: one status event per change (register_progress).     *)
Progress(p) ==
    IF out.progress[p] = Shown(p) THEN out
    ELSE [out EXCEPT !.progress[p] = Shown(p),
                     !.sent = Append(@, [kind |-> "progress", block |-> "step",
                                         text |-> Shown(p), append |-> TRUE])]

(* mutant: a part that was seen before is sent whole *)
SnapshotResent(buffer, snapshot) ==
    IF snapshot = buffer \/ snapshot = <<>> THEN <<>> ELSE <<snapshot>>

(* A whole text adds what the buffer lacks; one the buffer is no prefix of *)
(* is taken into the buffer and suppressed.  A blank text says nothing.    *)
SnapshotChunks(buffer, snapshot) ==
    IF snapshot # buffer /\ snapshot # <<>> /\ IsPrefix(buffer, snapshot)
    THEN <<SubSeq(snapshot, Len(buffer) + 1, Len(snapshot))>>
    ELSE <<>>

BufferOf(p) == IF state[p] = None THEN <<>> ELSE state[p]

(* message.part.delta                                                      *)
ConsumeDelta(p, delta) ==
    \/ /\ state[p] = None
       /\ pending' = [pending EXCEPT ![p] = Append(@, delta)]
       /\ UNCHANGED <<state, out>>
    \/ /\ state[p] # None /\ RoleOf[p] = "user"
       /\ UNCHANGED consumerVars
    \/ /\ state[p] # None /\ RoleOf[p] # "user"
       /\ state' = [state EXCEPT ![p] = @ \o delta]
       /\ out' = EmitChunks(<<Chunk(p, delta)>>)
       /\ UNCHANGED pending

(* message.part.updated: first the deltas that came too early, then the    *)
(* delta of the update, or else what its text or state adds.               *)
ConsumeUpdate(p, delta) ==
    LET early  == BufferOf(p) \o FlattenSeq(pending[p])
        whole  == Strip(Shown(p))
        added  == IF delta # <<>> THEN <<delta>>
                  ELSE IF BlockOf[p] # "tool" THEN SnapshotChunks(early, whole)
                  ELSE IF whole \in {<<>>, early} THEN <<>> ELSE <<whole>>
        texts  == pending[p] \o added
    IN  /\ pending' = [pending EXCEPT ![p] = <<>>]
        /\ \/ /\ BlockOf[p] = "step"
              /\ out' = Progress(p)
              /\ UNCHANGED state
           \/ /\ BlockOf[p] # "step" /\ RoleOf[p] = "user"
              /\ state' = [state EXCEPT ![p] = BufferOf(p)]
              /\ UNCHANGED out
           \/ /\ BlockOf[p] # "step" /\ RoleOf[p] # "user"
              /\ state' = [state EXCEPT ![p] = IF delta # <<>> THEN early \o delta
                                              ELSE IF whole = <<>> THEN early
                                              ELSE whole]
              /\ out' = EmitChunks([i \in DOMAIN texts |-> Chunk(p, texts[i])])

(* mutant: the stream goes on after the terminal signal *)
ReadsOn == stream = "running" /\ connected

(* The consumer reads while the stream is open and nobody told it to stop; *)
(* what is published while it is not connected is lost.                    *)
Running == stream = "running" /\ ~stopped
Reads == Running /\ connected
Misses(kind) == missed' = IF Running THEN missed \cup {kind} ELSE missed

-------------------------------------------------------------------------------
(* Upstream writes a chunk and publishes it in the style of the part; the  *)
(* parts of one block are written one after the other.                     *)
Before(p, q) == \E i, j \in DOMAIN Order : i < j /\ Order[i] = p /\ Order[j] = q

Writing(p) ==
    /\ p \in cast /\ TurnOf[p] = turn /\ idles < turn /\ pc # "done"
    /\ \A q \in cast : Before(q, p) /\ BlockOf[q] = BlockOf[p]
                       => written[q] = Len(ChunksOf[q])

UpstreamWrites(p) ==
    /\ Writing(p) /\ written[p] < Len(ChunksOf[p])
    /\ style[p] = "delta" => p \in announced \cup LateParts
    /\ written' = [written EXCEPT ![p] = @ + 1]
    /\ announced' = IF style[p] = "delta" THEN announced ELSE announced \cup {p}
    /\ LET chunk == ChunksOf[p][written[p] + 1]
       IN  \/ /\ Reads /\ UNCHANGED missed
              /\ \/ style[p] = "delta" /\ ConsumeDelta(p, chunk)
                 \/ style[p] = "updated" /\ ConsumeUpdate(p, chunk)
                 \/ style[p] = "snapshot" /\ ConsumeUpdate(p, <<>>)
           \/ ~Reads /\ Misses("part") /\ UNCHANGED consumerVars
    /\ UNCHANGED <<cast, style, turns, turn, idles, linkVars, stream, signalVars,
                   coordinatorVars>>

(* It publishes an update without a delta: the first, or a repeated one.   *)
UpstreamRepeats(p) ==
    /\ Writing(p)
    /\ announced' = announced \cup {p}
    /\ UNCHANGED written
    /\ \/ Reads /\ ConsumeUpdate(p, <<>>) /\ UNCHANGED missed
       \/ ~Reads /\ Misses("part") /\ UNCHANGED consumerVars
    /\ UNCHANGED <<cast, style, turns, turn, idles, linkVars, stream, signalVars,
                   coordinatorVars>>

TurnIsWritten == \A p \in cast : TurnOf[p] = turn => written[p] = Len(ChunksOf[p])

(* mutant: the idle event stops the consumer and signals nothing *)
UpstreamIdlesUnsignalled ==
    /\ idles < turn /\ pc # "done"
    /\ idles + 1 = turn => TurnIsWritten
    /\ idles' = idles + 1
    /\ \/ Reads /\ stopped' = TRUE /\ UNCHANGED missed
       \/ ~Reads /\ Misses("idle") /\ UNCHANGED stopped
    /\ UNCHANGED <<cast, style, turns, turn, written, announced, linkVars, stream,
                   consumerVars, signal, erred, coordinatorVars>>

(* session.idle, once per turn: the first one consumed ends the stream.    *)
UpstreamIdles ==
    /\ idles < turn /\ pc # "done"
    /\ idles + 1 = turn => TurnIsWritten
    /\ idles' = idles + 1
    /\ \/ /\ Reads
          /\ signal' = "completed" /\ stopped' = TRUE
          /\ UNCHANGED missed
       \/ ~Reads /\ Misses("idle") /\ UNCHANGED <<signal, stopped>>
    /\ UNCHANGED <<cast, style, turns, turn, written, announced, linkVars, stream,
                   consumerVars, erred, coordinatorVars>>

(* message.updated with an error, and session.error, which is final.       *)
UpstreamErrs(final) ==
    /\ Reads /\ idles < turn
    /\ erred' = TRUE
    /\ signal' = IF final THEN "failed" ELSE signal
    /\ stopped' = final
    /\ UNCHANGED <<upstreamVars, linkVars, missed, stream, consumerVars,
                   coordinatorVars>>

-------------------------------------------------------------------------------
Connect ==
    /\ Running /\ ~connected
    /\ connected' = TRUE
    /\ UNCHANGED <<upstreamVars, breaks, missed, stream, consumerVars, signalVars,
                   coordinatorVars>>

StreamBreaks ==
    /\ Reads /\ breaks < MaxBreaks
    /\ connected' = FALSE /\ breaks' = breaks + 1
    /\ UNCHANGED <<upstreamVars, missed, stream, consumerVars, signalVars,
                   coordinatorVars>>

(* Upstream closes the stream in order: the consumer does not reconnect.   *)
StreamCloses ==
    /\ Reads /\ breaks < MaxBreaks
    /\ breaks' = breaks + 1
    /\ stream' = "ended"
    /\ UNCHANGED <<upstreamVars, connected, missed, consumerVars, signalVars,
                   coordinatorVars>>

ConsumerStops ==
    /\ stopped /\ stream = "running"
    /\ stream' = "ended"
    /\ UNCHANGED <<upstreamVars, linkVars, missed, consumerVars, signalVars,
                   coordinatorVars>>

-------------------------------------------------------------------------------
Send(o, kind, text, append) ==
    [o EXCEPT !.sent = Append(@, [kind |-> kind, block |-> "text", text |-> text,
                                  append |-> append])]

(* The response holds the text parts of its turn, stripped.                *)
ResponseText ==
    LET answers == {p \in cast \ Echoes : TurnOf[p] = turn /\ BlockOf[p] = "text"}
    IN  Strip(FlattenSeq([i \in DOMAIN Order |->
            IF Order[i] \in answers THEN FlattenSeq(ChunksOf[Order[i]]) ELSE <<>>]))

(* A response with tool calls starts the next turn, another one is waited  *)
(* out: the terminal signal has to come.                                   *)
SendReturns ==
    /\ pc = "send" /\ TurnIsWritten
    /\ \/ turn < turns /\ turn' = turn + 1 /\ UNCHANGED pc
       \/ turn = turns /\ pc' = "await" /\ UNCHANGED turn
    /\ UNCHANGED <<cast, style, turns, written, announced, idles, linkVars, missed, stream,
                   consumerVars, signalVars, outcome>>

Fail == /\ out' = Send(Send(out, "error", <<>>, FALSE), "status", <<>>, FALSE)
        /\ outcome' = "failed"
        /\ pc' = "cleanup"

SendFails ==
    /\ pc = "send"
    /\ Fail
    /\ UNCHANGED <<upstreamVars, linkVars, missed, stream, state, pending, signalVars>>

StreamEndedFirst ==
    /\ pc = "await" /\ signal = "none" /\ stream = "ended"
    /\ Fail
    /\ UNCHANGED <<upstreamVars, linkVars, missed, stream, state, pending, signalVars>>

UpstreamFailed == signal = "failed" \/ erred

EndsInError ==
    /\ pc = "await" /\ signal # "none" /\ UpstreamFailed
    /\ Fail
    /\ UNCHANGED <<upstreamVars, linkVars, missed, stream, state, pending, signalVars>>

(* mutant: a snapshot follows whatever was streamed *)
NeedsAnySnapshot == ResponseText # <<>>

(* mutant: none follows once anything was streamed *)
NeedsFirstChunk == ResponseText # <<>> /\ ~out.emitted

NeedsSnapshot ==
    ResponseText # <<>> /\ Strip(out.buffers["text"]) # ResponseText

(* The final snapshot, if it says something new, and the final status.     *)
Completes ==
    /\ pc = "await" /\ signal = "completed" /\ ~UpstreamFailed
    /\ LET o == IF NeedsSnapshot
                THEN Send([out EXCEPT !.buffers["text"] = ResponseText, !.saw = TRUE],
                          "final", ResponseText, out.emitted)
                ELSE out
       IN  out' = Send(o, "status", <<>>, FALSE)
    /\ outcome' = "completed" /\ pc' = "cleanup"
    /\ UNCHANGED <<upstreamVars, linkVars, missed, stream, state, pending, signalVars>>

(* tasks/cancel: stop_event is set and the coordinator is cancelled.       *)
Cancel ==
    /\ pc \in {"send", "await"}
    /\ stopped' = TRUE /\ pc' = "cleanup"
    /\ UNCHANGED <<upstreamVars, linkVars, missed, stream, consumerVars, signal, erred,
                   outcome>>

Cleanup ==
    /\ pc = "cleanup"
    /\ stopped' = TRUE /\ stream' = "ended" /\ pc' = "done"
    /\ UNCHANGED <<upstreamVars, linkVars, missed, consumerVars, signal, erred,
                   outcome>>

Upstream == UpstreamIdles \/ \E p \in Parts : UpstreamWrites(p)
Coordinator == SendReturns \/ StreamEndedFirst \/ EndsInError \/ Completes \/ Cleanup
StreamNext ==
    \/ Upstream \/ Coordinator \/ Connect \/ ConsumerStops
    \/ \E p \in Parts : UpstreamRepeats(p)
    \/ \E final \in BOOLEAN : UpstreamErrs(final)
    \/ StreamBreaks \/ StreamCloses \/ SendFails \/ Cancel

StreamSpec == StreamInit /\ [][StreamNext]_streamVars

-------------------------------------------------------------------------------
(* What has been sent of some kinds, by position.                          *)
Sent(kinds) == {i \in DOMAIN out.sent : out.sent[i].kind \in kinds}

(* What was streamed in a block, one chunk after the other; the final      *)
(* snapshot is no part of it.                                              *)
Streamed(block) ==
    FlattenSeq([i \in DOMAIN out.sent |->
        IF i \in Sent({"stream"}) /\ out.sent[i].block = block
        THEN out.sent[i].text ELSE <<>>])

Entry == [kind : {"stream", "final", "progress", "error", "status"},
          block : Blocks \cup {"step"}, text : Texts, append : BOOLEAN]

Out == [buffers : [Blocks -> Texts], progress : [Parts -> Texts \cup {None}],
        saw : BOOLEAN, emitted : BOOLEAN, echoed : BOOLEAN, sent : Seq(Entry)]

StreamTypeOK ==
    /\ \A p \in Parts : written[p] \in 0..Len(ChunksOf[p])
    /\ written \in [Parts -> Nat] /\ announced \subseteq Parts
    /\ turn \in 1..turns /\ idles \in 0..turn
    /\ missed \subseteq {"part", "idle"}
    /\ state \in [Parts -> Texts \cup {None}]
    /\ pending \in [Parts -> Seq(Texts)]
    /\ out \in Out
    /\ signal \in {"none", "completed", "failed"}
    /\ outcome \in {"none", "completed", "failed"}

(* Deltas, updates with deltas, whole texts, repeated and late updates and *)
(* lost events are merged: in what is streamed of a block every letter     *)
(* comes once, and the letters of a part in the order it was written in.   *)
NothingTwice ==
    \A block \in {"text", "reasoning"} :
       LET text == Streamed(block)
       IN  \A i, j \in DOMAIN text :
              i < j /\ Blank \notin {text[i], text[j]} =>
                 /\ text[i] # text[j]
                 /\ \A p \in Parts :
                       {text[i], text[j]} \subseteq Ink(FlattenSeq(ChunksOf[p]))
                       => text[i] < text[j]

(* A client that was told "completed" has the whole text of the response:  *)
(* what was streamed is equal to it, or the final snapshot carries it.     *)
CompletedHasResponse ==
    outcome = "completed" /\ ResponseText # <<>> =>
       \/ Strip(Streamed("text")) = ResponseText
       \/ \E i \in DOMAIN out.sent :
             Sent({"final"}) = {i} /\ out.sent[i].text = ResponseText

(* The snapshot is appended to what was streamed, so a client that appends *)
(* may read letters again there; it does so once, after the last chunk,    *)
(* and only where what was streamed is not the response: then it is sent   *)
(* the response as a whole, and told "completed".                          *)
SnapshotIsOnce ==
    \A i \in Sent({"final"}) :
       /\ Sent({"final"}) = {i} /\ \A j \in Sent({"stream"}) : j < i
       /\ outcome = "completed" /\ out.sent[i].text = ResponseText
       /\ Strip(Streamed("text")) # ResponseText

(* The stream is one artifact: its first chunk, streamed or the snapshot,  *)
(* starts it and every other one appends.                                  *)
OneArtifact ==
    LET chunks == Sent({"stream", "final"})
    IN  \A i \in chunks : out.sent[i].append <=> \E j \in chunks : j < i

(* Types, and one artifact: chunks that repeat nothing, then, where they   *)
(* are not the response, the response once more as a whole.                *)
OutputInv == StreamTypeOK /\ NothingTwice /\ SnapshotIsOnce /\ OneArtifact

(* A whole text is stripped before it is compared: the blanks at the ends  *)
(* of a part published so are not streamed.                                *)
LosesBlanks(p) ==
    /\ BlockOf[p] = "text" /\ style[p] = "snapshot"
    /\ FlattenSeq(ChunksOf[p]) # Strip(FlattenSeq(ChunksOf[p]))

(* A text part that the consumer takes as it comes: none of its deltas is  *)
(* early, and its role tells an echo of the user from the answer.          *)
IsPlain(p) ==
    BlockOf[p] = "text" => p \notin LateParts /\ (p \in Echoes <=> RoleOf[p] = "user")

(* No snapshot repeats what a client has: none is sent when the execution  *)
(* took one turn, its texts are plain, the client missed no event, no echo *)
(* was dropped and no blank was lost, however upstream published the parts *)
(* and whatever it repeated.                                               *)
NoNeedlessSnapshot ==
    /\ turns = 1 /\ missed = {} /\ ~out.echoed
    /\ \A p \in cast : IsPlain(p) /\ ~LosesBlanks(p)
    => Sent({"final"}) = {}

(* An error that upstream reported before it went idle is never answered   *)
(* as completed.                                                           *)
ErrorsSurface == outcome = "completed" => ~erred

(* "Completed" means what it says: no error was reported, and the client   *)
(* has the whole response.                                                 *)
CompletedIsWhole == CompletedHasResponse /\ ErrorsSurface

(* After the final status of a completed task nothing is sent: the         *)
(* consumer, which runs on until cleanup, has been stopped before.         *)
CompletedIsLast == [][outcome = "completed" => UNCHANGED out]_streamVars

(* The coordinator does not wait for a signal that will not come: while it *)
(* waits on a running consumer, session.idle is still to be published, or  *)
(* it was published while the consumer was reconnecting (nothing repeats   *)
(* it then: the execution waits until it is cancelled).                    *)
SignalIsToCome ==
    pc = "await" /\ signal = "none" /\ stream = "running" =>
       idles < turn \/ "idle" \in missed

-------------------------------------------------------------------------------
(* What the proofs add to these properties to make them inductive.         *)

(* The signal comes with the order to stop, and nothing else stops the     *)
(* consumer of an execution that goes on; an idle event that is no signal  *)
(* was missed.                                                             *)
SignalInv ==
    /\ turn \in Nat \ {0}
    /\ signal # "none" => stopped
    /\ pc \in {"send", "await"} /\ signal = "none" =>
          /\ ~stopped
          /\ stream = "running" => idles = 0 \/ "idle" \in missed

(* Who was told "completed" was so after the signal and without an error.  *)
OutcomeInv ==
    /\ outcome = "completed" => /\ signal = "completed" /\ ~erred
                                /\ pc \in {"cleanup", "done"}
    /\ pc \in {"send", "await"} => outcome = "none"
===============================================================================
