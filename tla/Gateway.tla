------------------------------ MODULE Gateway -------------------------------
(***************************************************************************)
(* The Discord adapter's reconnect supervisor (internal/channel/discord):   *)
(* one loop that dials, says Identify or Resume, reads frames beside a      *)
(* heartbeat goroutine, classifies how the session ended and starts over.   *)
(* The Gateway service and the wire are external: the service numbers the   *)
(* events of a session, replays the ones after the number a Resume names,    *)
(* may ask for a reconnect, invalidate the session or close with a code, and *)
(* the network may drop.  Waits (backoff, the pause before a fresh Identify)  *)
(* are delays of any length, so attempt and wait are left out.              *)
(***************************************************************************)
EXTENDS Naturals, Sequences, FiniteSets

CONSTANTS
  InboundBuffer,               \* capacity of Adapter.inbound
  MaxDials, MaxEvents, MaxUps  \* bounds: dials, messages, service interventions

\* What mapMessageCreate tells apart: a person's text, or one of the kinds it drops
\* (malformed, no channel, no author, the bot itself, a bot, a webhook, blank).
Senders == {"human", "dropped kind"}
NoSession == 0
NoSeq == 0                                   \* -1 in the code; events count from 1

VARIABLES
  loop,     \* the supervisor: [pc, strategy, connected, cause]
  state,    \* sessionState: [session, seq, self]
  beat,     \* the heartbeat goroutine: [run, awaitingACK, ackOK]
  wire,     \* the connection: [up, frames, close]
  service,  \* the Gateway: [session, log, alive]
  inbound,  \* envelopes buffered for the router
  cancelled,\* Stop has cancelled the supervisor's context
  judged,   \* ghost: what became of each message event the adapter read
  fatal,    \* ghost: a read has returned a fatal close code
  used      \* counters of the bounds: [dials, ups]

gatewayVars == <<loop, state, beat, wire, service, inbound, cancelled, judged, fatal, used>>

Frame(op, seq, data) == [op |-> op, seq |-> seq, data |-> data]
Down == [up |-> FALSE, frames |-> <<>>, close |-> "none"]
ResetState == [session |-> NoSession, seq |-> NoSeq, self |-> FALSE]
BeatOff == [run |-> "off", awaitingACK |-> FALSE, ackOK |-> FALSE]

GatewayInit ==
  /\ loop = [pc |-> "new", strategy |-> "identify", connected |-> FALSE, cause |-> "none"]
  /\ state = ResetState
  /\ beat = BeatOff
  /\ wire = Down
  /\ service = [session |-> NoSession, log |-> <<>>, alive |-> FALSE]
  /\ inbound = 0 /\ cancelled = FALSE
  /\ judged = {} /\ fatal = FALSE
  /\ used = [dials |-> 0, ups |-> 0]

---------------------------------------------------------------------------
(* How a session ended.                                                     *)

CloseCauses == {"fatal close", "other close"}   \* read errors with a close code

\* Mutant: the heartbeat's own error is preferred, whatever the peer said.
HeartbeatFirst(hb, read) == IF hb = "none" THEN read ELSE hb

\* sessionCause: a close code in the read error outranks the heartbeat's error.
sessionCause(hb, read) == IF hb = "none" \/ read \in CloseCauses THEN read ELSE hb

\* classifyEnd, for a context that is not cancelled.
classifyEnd(cause) ==
  CASE cause \in {"missing token", "fatal close"} -> "fatal"
    [] cause \in {"op7", "zombie", "op9 resumable"} -> "resume"
    [] cause = "op9 fresh" -> "reidentify"
    [] OTHER -> IF state.session # NoSession THEN "resume" ELSE "reidentify"

\* The session is over: the supervisor stops, or prepares the next connection.
SessionEnds(cause) ==
  /\ LET kind == IF cancelled THEN "clean stop" ELSE classifyEnd(cause) IN
     /\ loop' = [pc |-> IF kind \in {"clean stop", "fatal"} THEN "done" ELSE "top",
                 strategy |-> IF kind = "resume" THEN "resume" ELSE "identify",
                 connected |-> FALSE, cause |-> cause]
     /\ state' = IF kind = "reidentify" THEN ResetState ELSE state
  /\ wire' = Down /\ beat' = BeatOff

---------------------------------------------------------------------------
(* Start, Stop, and the top of the supervisor's loop.                       *)

GatewayStart ==
  /\ loop.pc = "new"
  /\ loop' = [loop EXCEPT !.pc = "top"]
  /\ UNCHANGED <<state, beat, wire, service, inbound, cancelled, judged, fatal, used>>

\* Stop cancels and waits for the supervisor; a Stop before Start does nothing.
GatewayStop ==
  /\ loop.pc # "new" /\ ~cancelled
  /\ cancelled' = TRUE
  /\ UNCHANGED <<loop, state, beat, wire, service, inbound, judged, fatal, used>>

\* The context is cancelled at the top, in the wait or in the dial.
TopCancelled ==
  /\ loop.pc = "top" /\ cancelled
  /\ loop' = [loop EXCEPT !.pc = "done"]
  /\ UNCHANGED <<state, beat, wire, service, inbound, cancelled, judged, fatal, used>>

\* A dial succeeds, or fails and is tried again.  (A dial may also begin just
\* before the cancellation: that is the same as the cancellation coming later.)
DialGateway ==
  /\ loop.pc = "top" /\ ~cancelled /\ used.dials < MaxDials
  /\ used' = [used EXCEPT !.dials = @ + 1]
  /\ \/ /\ wire' = [up |-> TRUE, frames |-> <<Frame("hello", NoSeq, "ok")>>, close |-> "none"]
        /\ loop' = [loop EXCEPT !.pc = "hello"]
     \/ UNCHANGED <<wire, loop>>
  /\ UNCHANGED <<state, beat, service, inbound, cancelled, judged, fatal>>

---------------------------------------------------------------------------
(* The handshake: readHello, then sendIdentify or sendResume.               *)

\* Mutant: the Resume names the event after the last one that was read.
NextSeq == state.seq + 1

\* sendResume names the last sequence number that was read.
ResumeSeq == state.seq

\* The service answers an Identify with a new session and its READY, event 1.
AnswerIdentify ==
  /\ service' = [session |-> service.session + 1, log |-> <<"ready">>, alive |-> TRUE]
  /\ wire' = [wire EXCEPT !.frames = <<Frame("ready", 1, service.session + 1)>>]

\* ... and a Resume with the events after the number it names, or a refusal.
AnswerResume(session, seq) ==
  /\ UNCHANGED service
  /\ wire' = [wire EXCEPT !.frames =
       IF session = service.session /\ service.alive
       THEN [i \in 1..(Len(service.log) - seq) |->
               Frame("message", seq + i, service.log[seq + i])]
            \o <<Frame("resumed", NoSeq, "ok")>>
       ELSE <<Frame("invalid", NoSeq, "fresh")>>]

SaysHello ==
  /\ loop.pc = "hello" /\ wire.up /\ ~cancelled
  /\ IF loop.strategy = "resume" THEN AnswerResume(state.session, ResumeSeq)
     ELSE AnswerIdentify
  /\ loop' = [loop EXCEPT !.pc = "reading", !.connected = loop.strategy = "resume"]
  /\ beat' = [BeatOff EXCEPT !.run = "running"]
  /\ UNCHANGED <<state, inbound, cancelled, judged, fatal, used>>

\* The Hello does not come or is not one, the peer closes with a code instead of
\* saying it, the token is missing, the write fails.
HandshakeFails ==
  /\ loop.pc = "hello"
  /\ \E cause \in {"missing token", "network"} \cup CloseCauses :
       /\ SessionEnds(cause)
       /\ fatal' = (fatal \/ cause = "fatal close")
  /\ UNCHANGED <<service, inbound, cancelled, judged, used>>

---------------------------------------------------------------------------
(* The read loop.                                                           *)

\* handleAuthenticatedMessage: mapped and issued, then a send that never blocks.
Judge(f, connected) ==
  \E issued \in BOOLEAN :
    LET kept == connected /\ f.data = "human" /\ issued /\ inbound < InboundBuffer IN
    /\ inbound' = IF kept THEN inbound + 1 ELSE inbound
    /\ judged' = judged \cup
         {[session |-> service.session, seq |-> f.seq,
           nth |-> Cardinality({j \in judged : j.session = service.session /\ j.seq = f.seq})]}

\* The read loop returns: its context is cancelled, the heartbeat is joined, and
\* the cause is picked from the two errors.
Unwinds(read) ==
  SessionEnds(sessionCause(IF beat.run = "failed" THEN "zombie"
                           ELSE IF beat.run = "broken" THEN "network" ELSE "none", read))

\* One frame: its number is stored before it is handled.
ReadFrame ==
  /\ loop.pc = "reading" /\ wire.up /\ wire.frames # <<>>
  /\ LET f == Head(wire.frames)
         st == IF f.seq # NoSeq THEN [state EXCEPT !.seq = f.seq] ELSE state
         on == [wire EXCEPT !.frames = Tail(@)] IN
     \/ /\ f.op = "ready"
        /\ state' = [st EXCEPT !.session = f.data, !.self = TRUE]
        /\ loop' = [loop EXCEPT !.connected = TRUE]
        /\ wire' = on /\ UNCHANGED <<beat, inbound, judged>>
     \/ /\ f.op = "ready"                            \* it does not decode
        /\ state' = st /\ wire' = on /\ UNCHANGED <<beat, loop, inbound, judged>>
     \/ /\ f.op = "resumed"
        /\ loop' = [loop EXCEPT !.connected = TRUE]
        /\ state' = st /\ wire' = on /\ UNCHANGED <<beat, inbound, judged>>
     \/ /\ f.op = "message"
        /\ Judge(f, loop.connected)
        /\ state' = st /\ wire' = on /\ UNCHANGED <<beat, loop>>
     \/ /\ f.op = "ack"
        /\ beat' = [beat EXCEPT !.ackOK = TRUE]
        /\ state' = st /\ wire' = on /\ UNCHANGED <<loop, inbound, judged>>
     \/ /\ f.op = "beat" /\ wire.close = "none"
        /\ state' = st /\ UNCHANGED <<beat, loop, inbound, judged>>
        /\ wire' = [on EXCEPT !.frames = Append(@, Frame("ack", NoSeq, "ok"))]
     \/ /\ f.op = "beat" /\ wire.close # "none"     \* written, never acknowledged
        /\ state' = st /\ wire' = on /\ UNCHANGED <<beat, loop, inbound, judged>>
     \/ /\ f.op = "beat" /\ wire.close # "none"
        /\ Unwinds("network") /\ UNCHANGED <<inbound, judged>>
     \/ /\ f.op = "reconnect"
        /\ Unwinds("op7") /\ UNCHANGED <<inbound, judged>>
     \/ /\ f.op = "invalid"
        /\ Unwinds(IF f.data = "fresh" THEN "op9 fresh" ELSE "op9 resumable")
        /\ UNCHANGED <<inbound, judged>>
  /\ UNCHANGED <<service, cancelled, fatal, used>>

\* The read fails: the peer closed with a code, the network dropped, or the
\* context ended (Stop, or the heartbeat goroutine's cancel).
ReadFails ==
  /\ loop.pc = "reading"
  /\ \/ /\ wire.frames = <<>> /\ wire.close # "none"
        /\ Unwinds(wire.close)
        /\ fatal' = (fatal \/ wire.close = "fatal close")
     \/ /\ beat.run \in {"failed", "broken"} \/ cancelled
        /\ Unwinds("context") /\ UNCHANGED fatal
     \/ ~wire.up /\ Unwinds("network") /\ UNCHANGED fatal
  /\ UNCHANGED <<service, inbound, cancelled, judged, used>>

---------------------------------------------------------------------------
(* The heartbeat goroutine: one tick, at any time the read loop is running.  *)

\* A broken connection fails the write; a peer that is closing may, or may take
\* the beat and never acknowledge it.
Heartbeat ==
  /\ loop.pc = "reading" /\ beat.run = "running" /\ ~cancelled
  /\ \/ /\ beat.awaitingACK /\ ~beat.ackOK
        /\ beat' = [beat EXCEPT !.run = "failed"] /\ UNCHANGED wire
     \/ /\ ~beat.awaitingACK \/ beat.ackOK
        /\ ~wire.up \/ wire.close # "none"
        /\ beat' = [run |-> "broken", awaitingACK |-> TRUE, ackOK |-> FALSE]
        /\ UNCHANGED wire
     \/ /\ ~beat.awaitingACK \/ beat.ackOK
        /\ wire.up
        /\ beat' = [beat EXCEPT !.awaitingACK = TRUE, !.ackOK = FALSE]
        /\ \/ UNCHANGED wire
           \/ /\ wire.close = "none"
              /\ wire' = [wire EXCEPT !.frames = Append(@, Frame("ack", NoSeq, "ok"))]
  /\ UNCHANGED <<loop, state, service, inbound, cancelled, judged, fatal, used>>

---------------------------------------------------------------------------
(* The service and the network (external), and the router's pump.           *)

\* A message of the conversation: an event of the live session, sent at once
\* when a connection carries the session and kept for a Resume when none does.
ServiceSpeaks ==
  /\ service.alive /\ Len(service.log) <= MaxEvents
  /\ \E who \in Senders :
       /\ service' = [service EXCEPT !.log = Append(@, who)]
       /\ wire' = IF loop.pc = "reading" /\ wire.up /\ wire.close = "none"
                     /\ \A i \in DOMAIN wire.frames : wire.frames[i].op # "invalid"
                  THEN [wire EXCEPT !.frames =
                          Append(@, Frame("message", Len(service.log) + 1, who))]
                  ELSE wire
  /\ UNCHANGED <<loop, state, beat, inbound, cancelled, judged, fatal, used>>

\* The service intervenes: it asks for a beat or a reconnect, invalidates the session (for
\* good or not), closes with a code; or the network drops what was in flight.
ServiceIntervenes ==
  /\ loop.pc = "reading" /\ wire.up /\ wire.close = "none" /\ used.ups < MaxUps
  /\ used' = [used EXCEPT !.ups = @ + 1]
  /\ \/ \E f \in {Frame("beat", NoSeq, "ok"), Frame("reconnect", NoSeq, "ok"),
                  Frame("invalid", NoSeq, "resumable")} :
          wire' = [wire EXCEPT !.frames = Append(@, f)] /\ UNCHANGED service
     \/ /\ wire' = [wire EXCEPT !.frames = Append(@, Frame("invalid", NoSeq, "fresh"))]
        /\ service' = [service EXCEPT !.alive = FALSE]
     \/ \E code \in CloseCauses : wire' = [wire EXCEPT !.close = code] /\ UNCHANGED service
     \/ wire' = Down /\ UNCHANGED service
  /\ UNCHANGED <<loop, state, beat, inbound, cancelled, judged, fatal>>

\* runChannelPump receives one envelope.
PumpTakes ==
  /\ inbound > 0 /\ inbound' = inbound - 1
  /\ UNCHANGED <<loop, state, beat, wire, service, cancelled, judged, fatal, used>>

GatewayNext ==
  \/ GatewayStart \/ GatewayStop \/ TopCancelled \/ DialGateway
  \/ SaysHello \/ HandshakeFails \/ ReadFrame \/ ReadFails \/ Heartbeat
  \/ ServiceSpeaks \/ ServiceIntervenes \/ PumpTakes

GatewaySpec == GatewayInit /\ [][GatewayNext]_gatewayVars

---------------------------------------------------------------------------
(* Properties.                                                              *)

\* A Resume neither repeats nor skips: across every drop, zombie and reconnect of
\* a session, each message up to the stored sequence number has been judged by
\* the adapter, kept or counted as dropped, exactly once (readLoop, sendResume).
EachEventJudgedOnce ==
  /\ \A j \in judged : j.nth = 0
  /\ state.session # NoSession /\ state.session = service.session =>
       \A i \in 2..state.seq :
         \E j \in judged : j.session = state.session /\ j.seq = i

\* A close code that must not be retried ends the supervisor even when the
\* heartbeat failed in the same moment: once a read has returned such a code,
\* of the Hello or of a later frame, there is no further dial (sessionCause, classifyEnd).
FatalCloseIsFinal == fatal => loop.pc = "done"
=============================================================================
