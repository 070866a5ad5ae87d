---------------------------- MODULE ChannelProofs ----------------------------
(***************************************************************************)
(* Theorems about a message's way in: no dispatch sends on a channel that    *)
(* Stop has closed, a fatal close code ends the Discord supervisor, each     *)
(* event of a Discord session is judged once, and the router's window drops  *)
(* repeats and nothing else.                                               *)
(***************************************************************************)
EXTENDS Inlets, Gateway, Router, FiniteSetTheorems, SequenceTheorems, TLAPS

---------------------------------------------------------------------------
(* Telegram and the generic webhook: the senders and the close.             *)

TelegramSteps == {"new", "registering", "serving", "draining", "failed", "never ran",
                  "flipped", "broadcast", "joining", "stopped"}
Telegram == [mode : {"polling", "webhook"}, state : {"new", "running", "stopped"},
             step : TelegramSteps, transport : {"off", "up", "down"}, done : BOOLEAN,
             closed : BOOLEAN, queued : Nat, dropped : BOOLEAN]

\* Every variable of the inlets the argument needs holds a value of its kind.
InletTypes ==
  /\ tg \in Telegram
  /\ worker \in [Workers -> {"idle", "arrived", "converting", "offering"}]
  /\ abandoned \in BOOLEAN /\ panicked \in BOOLEAN

NoneInside == \A w \in Workers : worker[w] = "idle"

\* The state against the place Start and Stop have reached: a dispatch is let in
\* until Stop has flipped it.
Lifecycle ==
  /\ tg.step \in {"new", "failed"} => tg.state = "new" /\ tg.transport # "up"
  /\ tg.step \in {"registering", "serving", "draining"} => tg.state = "running"
  /\ tg.step \in {"never ran", "flipped", "broadcast", "joining", "stopped"} =>
       tg.state = "stopped"
  /\ tg.step \in {"draining", "never ran"} => tg.transport # "up"

\* The adapter that never ran has nobody inside, unless its Start was abandoned; the
\* channel is closed last, when no dispatch that was let in is left.
Apart ==
  /\ tg.step = "new" => NoneInside
  /\ tg.step \in {"failed", "never ran"} /\ ~abandoned => NoneInside
  /\ tg.closed => tg.step = "stopped"
  /\ tg.step = "stopped" /\ ~abandoned => DispatchesJoined
  /\ panicked => tg.closed /\ abandoned

InletInv == InletTypes /\ Lifecycle /\ Apart

\* The adapters start closed to everybody.
LEMMA InletsBegin == InletsInit => InletInv
<1> SUFFICES ASSUME InletsInit PROVE InletInv
  OBVIOUS
<1>1. /\ tg \in Telegram /\ tg.step = "new" /\ tg.state = "new" /\ tg.transport = "off"
      /\ ~tg.closed
  <2>1. PICK m \in {"polling", "webhook"} :
          tg = [mode |-> m, state |-> "new", step |-> "new", transport |-> "off",
                done |-> FALSE, closed |-> FALSE, queued |-> 0, dropped |-> FALSE]
    BY Zenon DEF InletsInit
  <2> QED BY <2>1 DEF Telegram, TelegramSteps
<1>2. worker = [w \in Workers |-> "idle"] /\ ~abandoned /\ ~panicked
      /\ abandoned \in BOOLEAN /\ panicked \in BOOLEAN
  BY DEF InletsInit
<1>3. InletTypes
  BY <1>1, <1>2 DEF InletTypes
<1>4. Lifecycle
  BY <1>1 DEF Lifecycle
<1>5. Apart
  BY <1>1, <1>2 DEF Apart, NoneInside
<1> QED BY <1>3, <1>4, <1>5 DEF InletInv

\* A flag a step leaves alone.
Kept(flag) == flag' = flag /\ (flag' <=> flag)

\* A step of Start or Stop: what it does to the record, with the workers where they are.
StopperMoves(st, step, transport, closed) ==
  /\ tg' \in Telegram
  /\ tg'.state = st /\ tg'.step = step /\ tg'.transport = transport
  /\ tg'.closed <=> closed
  /\ worker' = worker /\ Kept(panicked)

\* Start and Stop, one step per action.
LEMMA StopperStep ==
  ASSUME InletInv,
         \/ TelegramStart \/ SetWebhook \/ RewindToNew
         \/ StopFlips \/ StopBroadcasts \/ StopTransport \/ StopCloses
  PROVE  InletInv'
<1>0. /\ InletTypes /\ Lifecycle /\ Apart /\ tg \in Telegram
  BY DEF InletInv, InletTypes
<1> USE DEF InletTypes, Kept
<1>1. CASE TelegramStart
  <2>1. /\ tg.step = "new" /\ Kept(abandoned)
        /\ \E step \in {"serving", "registering"} :
             StopperMoves("running", step, "up", tg.closed)
    BY <1>0, <1>1 DEF TelegramStart, Telegram, TelegramSteps, StopperMoves
  <2>2. InletTypes' /\ Lifecycle'
    BY <1>0, <2>1 DEF StopperMoves, Lifecycle
  <2>3. Apart'
    BY <1>0, <2>1 DEF StopperMoves, Apart, NoneInside, DispatchesJoined
  <2> QED BY <2>2, <2>3 DEF InletInv
<1>2. CASE SetWebhook
  <2>1. /\ tg.step = "registering" /\ Kept(abandoned)
        /\ \/ StopperMoves(tg.state, "serving", tg.transport, tg.closed)
           \/ StopperMoves(tg.state, "draining", "down", tg.closed)
    BY <1>0, <1>2, ZenonT(60) DEF SetWebhook, Telegram, TelegramSteps, StopperMoves
  <2>2. InletTypes' /\ Lifecycle'
    BY <1>0, <2>1 DEF StopperMoves, Lifecycle
  <2>3. Apart'
    BY <1>0, <2>1 DEF StopperMoves, Apart, NoneInside, DispatchesJoined
  <2> QED BY <2>2, <2>3 DEF InletInv
<1>3. CASE RewindToNew
  <2>1. /\ tg.step = "draining" /\ abandoned' \in BOOLEAN
        /\ abandoned' <=> \E w \in Workers : worker[w] # "idle"
        /\ StopperMoves("new", "failed", tg.transport, tg.closed)
    BY <1>0, <1>3 DEF RewindToNew, Telegram, TelegramSteps, StopperMoves
  <2>2. InletTypes' /\ Lifecycle'
    BY <1>0, <2>1 DEF StopperMoves, Lifecycle
  <2>3. ~tg.closed /\ ~panicked
    BY <1>0, <2>1 DEF Apart
  <2>4. Apart'
    BY <1>0, <2>1, <2>3 DEF StopperMoves, Apart, NoneInside, DispatchesJoined
  <2> QED BY <2>2, <2>4 DEF InletInv
<1>4. CASE StopFlips
  <2>1. /\ tg.step \in {"new", "serving", "failed"} /\ Kept(abandoned)
        /\ StopperMoves("stopped", IF tg.state = "new" THEN "never ran" ELSE "flipped",
                        tg.transport, tg.closed)
    BY <1>0, <1>4 DEF StopFlips, Telegram, TelegramSteps, StopperMoves
  <2>2. InletTypes' /\ Lifecycle'
    BY <1>0, <2>1 DEF StopperMoves, Lifecycle
  <2>3. Apart'
    BY <1>0, <2>1 DEF StopperMoves, Lifecycle, Apart, NoneInside, DispatchesJoined
  <2> QED BY <2>2, <2>3 DEF InletInv
<1>5. CASE StopBroadcasts
  <2>1. /\ Kept(abandoned)
        /\ \/ tg.step = "never ran" /\ StopperMoves(tg.state, "stopped", tg.transport, TRUE)
           \/ tg.step = "flipped" /\ StopperMoves(tg.state, "broadcast", tg.transport, FALSE)
    BY <1>0, <1>5 DEF StopBroadcasts, Telegram, TelegramSteps, StopperMoves
  <2>2. InletTypes' /\ Lifecycle'
    BY <1>0, <2>1 DEF StopperMoves, Lifecycle
  <2>3. Apart'
    BY <1>0, <2>1 DEF StopperMoves, Apart, NoneInside, DispatchesJoined
  <2> QED BY <2>2, <2>3 DEF InletInv
<1>6. CASE StopTransport
  <2>1. /\ tg.step = "broadcast" /\ Kept(abandoned)
        /\ StopperMoves(tg.state, "joining", "down", tg.closed)
    BY <1>0, <1>6 DEF StopTransport, Telegram, TelegramSteps, StopperMoves
  <2>2. InletTypes' /\ Lifecycle'
    BY <1>0, <2>1 DEF StopperMoves, Lifecycle
  <2>3. Apart'
    BY <1>0, <2>1 DEF StopperMoves, Apart, NoneInside, DispatchesJoined
  <2> QED BY <2>2, <2>3 DEF InletInv
<1>7. CASE StopCloses
  <2>1. /\ tg.step = "joining" /\ Kept(abandoned) /\ DispatchesJoined
        /\ StopperMoves(tg.state, "stopped", tg.transport, TRUE)
    BY <1>0, <1>7 DEF StopCloses, Telegram, TelegramSteps, StopperMoves
  <2>2. InletTypes' /\ Lifecycle'
    BY <1>0, <2>1 DEF StopperMoves, Lifecycle
  <2>3. Apart'
    BY <1>0, <2>1 DEF StopperMoves, Apart, NoneInside, DispatchesJoined
  <2> QED BY <2>2, <2>3 DEF InletInv
<1> QED BY <1>1, <1>2, <1>3, <1>4, <1>5, <1>6, <1>7

\* A handler moves: the adapter's life goes on as it was, and a dispatch that is inside
\* was let in while the state was not stopped.
LEMMA DispatchStep ==
  ASSUME InletInv, NEW w \in Workers,
         UpdateArrives(w) \/ DispatchEnters(w) \/ DispatchConverts(w) \/ DispatchOffers(w)
  PROVE  InletInv'
<1>0. InletTypes /\ Lifecycle /\ Apart /\ tg \in Telegram
  BY DEF InletInv, InletTypes
<1> USE DEF InletTypes, Kept
<1> DEFINE Rest == /\ Kept(abandoned) /\ tg' \in Telegram
                   /\ tg'.step = tg.step /\ tg'.state = tg.state
                   /\ tg'.transport = tg.transport /\ (tg'.closed <=> tg.closed)
<1>1. CASE UpdateArrives(w)
  <2>1. /\ tg.transport = "up" /\ worker' = [worker EXCEPT ![w] = "arrived"]
        /\ Rest /\ Kept(panicked)
    BY <1>0, <1>1 DEF UpdateArrives, WorkerDoes, telegramOnly
  <2>2. tg.step \notin {"new", "failed", "never ran"}
    BY <1>0, <2>1 DEF Lifecycle
  <2>3. InletTypes' /\ Lifecycle'
    BY <1>0, <2>1 DEF Lifecycle
  <2>4. DispatchesJoined => DispatchesJoined'
    BY <1>0, <2>1 DEF DispatchesJoined
  <2>5. Apart'
    BY <1>0, <2>1, <2>2, <2>4 DEF Apart
  <2> QED BY <2>3, <2>5 DEF InletInv
<1>2. CASE DispatchEnters(w)
  <2>1. /\ worker[w] = "arrived" /\ Rest /\ Kept(panicked)
        /\ \/ tg.state = "stopped" /\ worker' = [worker EXCEPT ![w] = "idle"]
           \/ tg.state # "stopped" /\ worker' = [worker EXCEPT ![w] = "converting"]
    BY <1>0, <1>2 DEF DispatchEnters, WorkerDoes, telegramOnly
  <2>2. ~NoneInside
    BY <2>1 DEF NoneInside
  <2>3. InletTypes' /\ Lifecycle'
    BY <1>0, <2>1 DEF Lifecycle
  <2>4. tg.step = "stopped" /\ DispatchesJoined => DispatchesJoined'
    BY <1>0, <2>1 DEF DispatchesJoined, Lifecycle
  <2>5. Apart'
    BY <1>0, <2>1, <2>2, <2>4 DEF Apart
  <2> QED BY <2>3, <2>5 DEF InletInv
<1>3. CASE DispatchConverts(w)
  <2>1. /\ worker[w] = "converting" /\ Kept(abandoned) /\ Kept(panicked)
        /\ worker' \in [Workers -> {"idle", "arrived", "converting", "offering"}]
    BY <1>0, <1>3 DEF DispatchConverts, WorkerDoes
  <2>2. Rest
    <3>1. tg.dropped \in BOOLEAN
      BY <1>0 DEF Telegram
    <3>2. tg' = tg \/ \E d \in BOOLEAN : tg' = [tg EXCEPT !.dropped = d]
      BY <1>3, <3>1 DEF DispatchConverts
    <3> QED BY <1>0, <2>1, <3>2 DEF Telegram
  <2>3. ~NoneInside /\ ~DispatchesJoined
    BY <2>1 DEF NoneInside, DispatchesJoined
  <2>4. InletTypes' /\ Lifecycle'
    BY <1>0, <2>1, <2>2 DEF Lifecycle
  <2>5. Apart'
    BY <1>0, <2>1, <2>2, <2>3 DEF Apart
  <2> QED BY <2>4, <2>5 DEF InletInv
<1>4. CASE DispatchOffers(w)
  <2>1. /\ worker[w] = "offering" /\ Kept(abandoned)
        /\ worker' \in [Workers -> {"idle", "arrived", "converting", "offering"}]
    BY <1>0, <1>4 DEF DispatchOffers, WorkerDoes
  <2>2. Rest
    <3>1. tg.queued + 1 \in Nat
      BY <1>0 DEF Telegram
    <3>2. \/ tg' = tg
          \/ tg' = [tg EXCEPT !.queued = tg.queued + 1]
          \/ tg' = [tg EXCEPT !.dropped = TRUE]
      BY <1>4 DEF DispatchOffers
    <3> QED BY <1>0, <2>1, <3>1, <3>2, ZenonT(60) DEF Telegram
  <2>3. ~NoneInside /\ ~DispatchesJoined
    BY <2>1 DEF NoneInside, DispatchesJoined
  <2>4. panicked' \in BOOLEAN /\ (panicked' => panicked \/ tg.closed)
    <3>1. CASE tg.closed /\ panicked' = TRUE
      BY <3>1
    <3>2. CASE panicked' = panicked
      BY <1>0, <3>2
    <3> QED BY <1>4, <3>1, <3>2 DEF DispatchOffers
  <2>5. tg.closed => abandoned
    BY <1>0, <2>3 DEF Apart
  <2>6. InletTypes' /\ Lifecycle'
    BY <1>0, <2>1, <2>2, <2>4 DEF Lifecycle
  <2>7. Apart'
    BY <1>0, <2>1, <2>2, <2>3, <2>4, <2>5 DEF Apart
  <2> QED BY <2>6, <2>7 DEF InletInv
<1> QED BY <1>1, <1>2, <1>3, <1>4

\* The webhook and the pumps leave the Telegram dispatches where they are.
LEMMA OtherInletStep ==
  ASSUME InletInv,
         \/ WebhookStart \/ WebhookStops \/ WebhookCloses
         \/ (\E r \in Requests : RequestArrives(r) \/ enqueue(r) \/ RequestAnswered(r))
         \/ PumpDrains \/ UNCHANGED inletVars
  PROVE  InletInv'
<1>0. InletTypes /\ Lifecycle /\ Apart /\ tg \in Telegram
  BY DEF InletInv, InletTypes
<1> USE DEF InletTypes, Kept
<1>1. worker' = worker /\ abandoned' = abandoned /\ panicked' = panicked
  BY DEF WebhookStart, WebhookStops, WebhookCloses, RequestArrives, enqueue, RequestAnswered,
         PumpDrains, webhookOnly, inletVars
<1>2. Kept(abandoned) /\ Kept(panicked)
  BY <1>1
<1>3. tg' = tg \/ (tg.queued > 0 /\ tg' = [tg EXCEPT !.queued = tg.queued - 1])
  BY DEF WebhookStart, WebhookStops, WebhookCloses, RequestArrives, enqueue, RequestAnswered,
         PumpDrains, webhookOnly, inletVars
<1>4. /\ tg' \in Telegram /\ tg'.step = tg.step /\ tg'.state = tg.state
      /\ tg'.transport = tg.transport /\ (tg'.closed <=> tg.closed)
  <2>1. tg.queued \in Nat
    BY <1>0 DEF Telegram
  <2>2. tg.queued > 0 => tg.queued - 1 \in Nat
    BY <2>1
  <2> QED BY <1>0, <1>3, <2>2 DEF Telegram
<1>5. InletTypes' /\ Lifecycle'
  BY <1>0, <1>1, <1>4 DEF Lifecycle
<1>6. Apart'
  BY <1>0, <1>1, <1>2, <1>4 DEF Apart, NoneInside, DispatchesJoined
<1> QED BY <1>5, <1>6 DEF InletInv

\* For any number of handlers and any buffer: a send meets the closed channel only
\* after a failed Start was cut short with handlers in flight.  Stop flips the state,
\* then waits for the dispatches, then closes; the enqueue lock does it for the webhook.
THEOREM SendersAreJoined == InletsSpec => []OnlyAbandonedSendsPanic
<1>1. InletsInit => InletInv
  BY InletsBegin
<1>2. InletInv /\ [InletsNext]_inletVars => InletInv'
  BY StopperStep, DispatchStep, OtherInletStep DEF InletsNext
<1>3. InletInv => OnlyAbandonedSendsPanic
  BY DEF InletInv, Apart, OnlyAbandonedSendsPanic
<1> QED BY <1>1, <1>2, <1>3, PTL DEF InletsSpec

---------------------------------------------------------------------------
(* The Discord supervisor: a close code that must not be retried.           *)

\* A session that ends on a fatal close code ends the supervisor, whatever the
\* heartbeat goroutine has to say about it.
LEMMA FatalEnds ==
  ASSUME wire.close = "fatal close", Unwinds(wire.close) PROVE loop'.pc = "done"
<1>1. \A hb : sessionCause(hb, wire.close) = "fatal close"
  BY DEF sessionCause, CloseCauses
<1>2. classifyEnd("fatal close") = "fatal"
  BY DEF classifyEnd
<1>3. loop'.pc = (LET kind == IF cancelled THEN "clean stop" ELSE "fatal" IN
                  IF kind \in {"clean stop", "fatal"} THEN "done" ELSE "top")
  BY <1>1, <1>2 DEF Unwinds, SessionEnds
<1> QED BY <1>3

\* Once a read, of the Hello or of a later frame, has returned a fatal close code
\* there is no further dial: the code outranks a heartbeat error of the same moment,
\* and a supervisor that is done stays done.
THEOREM FatalIsFinal == GatewaySpec => []FatalCloseIsFinal
<1>1. GatewayInit => FatalCloseIsFinal
  BY DEF GatewayInit, FatalCloseIsFinal
<1>2. ASSUME FatalCloseIsFinal, [GatewayNext]_gatewayVars PROVE FatalCloseIsFinal'
  <2> USE <1>2 DEF FatalCloseIsFinal
  <2>1. CASE GatewayStart
    BY <2>1 DEF GatewayStart
  <2>2. CASE TopCancelled \/ DialGateway
    BY <2>2 DEF TopCancelled, DialGateway
  <2>3. CASE SaysHello
    BY <2>3 DEF SaysHello
  <2>7. CASE HandshakeFails
    <3>1. PICK cause \in {"missing token", "network"} \cup CloseCauses :
            SessionEnds(cause) /\ (fatal' <=> fatal \/ cause = "fatal close")
      BY <2>7 DEF HandshakeFails
    <3>2. loop.pc = "hello" /\ ~fatal
      BY <2>7 DEF HandshakeFails
    <3>3. CASE cause = "fatal close"
      <4>1. classifyEnd("fatal close") = "fatal"
        BY DEF classifyEnd
      <4> QED BY <3>1, <3>3, <4>1 DEF SessionEnds
    <3> QED BY <3>1, <3>2, <3>3
  <2>4. CASE ReadFrame
    BY <2>4 DEF ReadFrame
  <2>5. CASE ReadFails
    <3>1. loop.pc = "reading" /\ ~fatal
      BY <2>5 DEF ReadFails
    <3>2. \/ wire.close = "fatal close" /\ Unwinds(wire.close)
          \/ ~fatal'
      <4>1. \/ Unwinds(wire.close) /\ (fatal' <=> fatal \/ wire.close = "fatal close")
            \/ fatal' = fatal
        BY <2>5 DEF ReadFails
      <4> QED BY <3>1, <4>1
    <3> QED BY <3>1, <3>2, FatalEnds
  <2>6. CASE Heartbeat \/ ServiceSpeaks \/ ServiceIntervenes \/ PumpTakes \/ GatewayStop
             \/ UNCHANGED gatewayVars
    BY <2>6 DEF Heartbeat, ServiceSpeaks, ServiceIntervenes, PumpTakes, GatewayStop, gatewayVars
  <2> QED BY <2>1, <2>2, <2>3, <2>4, <2>5, <2>6, <2>7 DEF GatewayNext
<1> QED BY <1>1, <1>2, PTL DEF GatewaySpec

---------------------------------------------------------------------------
(* The Discord supervisor: each event of a session is judged once.          *)

FrameOps == {"hello", "ready", "resumed", "message", "ack", "beat", "reconnect", "invalid"}
FrameSet == [op : FrameOps, seq : Nat,
             data : Nat \cup {"ok", "fresh", "resumable", "ready"} \cup Senders]
Causes == {"none", "missing token", "network", "zombie", "context", "op7", "op9 resumable",
           "op9 fresh"} \cup CloseCauses

\* Every variable the argument needs holds a value of its kind.
GatewayTypes ==
  /\ loop \in [pc : {"new", "top", "hello", "reading", "done"},
               strategy : {"identify", "resume"}, connected : BOOLEAN, cause : Causes]
  /\ state \in [session : Nat, seq : Nat, self : BOOLEAN]
  /\ wire \in [up : BOOLEAN, frames : Seq(FrameSet), close : {"none"} \cup CloseCauses]
  /\ service \in [session : Nat, log : Seq({"ready"} \cup Senders), alive : BOOLEAN]
  /\ judged \subseteq [session : Nat, seq : Nat, nth : {0}]

\* The frames of a connection carry consecutive numbers from the one after seq, none
\* beyond the log of n events; a READY is event 1 of its session, a message is a later
\* one, and nothing else is numbered.
Numbered(frames, seq, n, session) ==
  /\ \A i \in 1..Len(frames) : frames[i].seq # NoSeq =>
       /\ seq < frames[i].seq /\ frames[i].seq <= n
       /\ \A m \in (seq + 1)..frames[i].seq : \E k \in 1..i : frames[k].seq = m
       /\ \A k \in 1..(i - 1) : frames[k].seq < frames[i].seq
  /\ \A i \in 1..Len(frames) :
       /\ frames[i].op = "ready" => frames[i].seq = 1 /\ frames[i].data = session
       /\ frames[i].op = "message" => frames[i].seq > 1
       /\ frames[i].op \notin {"ready", "message"} => frames[i].seq = NoSeq

\* Every event of the log after seq is on the connection.
Complete(frames, seq, n) ==
  \A m \in (seq + 1)..n : \E k \in 1..Len(frames) : frames[k].seq = m

\* The connection carries the session: what the service says is sent at once.
Carries ==
  /\ loop.pc = "reading" /\ wire.up /\ wire.close = "none"
  /\ \A i \in DOMAIN wire.frames : wire.frames[i].op # "invalid"

WireOK ==
  /\ Numbered(wire.frames, state.seq, Len(service.log), service.session)
  /\ Carries => Complete(wire.frames, state.seq, Len(service.log))
  /\ loop.pc # "reading" => \A i \in 1..Len(wire.frames) : wire.frames[i].seq = NoSeq

\* The stored session is the service's or none, and a fresh Identify starts from none.
\* After a READY that did not decode there is a stored number without a session.
SessionOK ==
  /\ state.session \in {NoSession, service.session}
  /\ state.seq <= Len(service.log)
  /\ state.session # NoSession => state.seq \in 1..Len(service.log)
  /\ service.alive => Len(service.log) > 0
  /\ Len(service.log) > 0 => service.session # NoSession
  /\ loop.pc \in {"new", "top", "hello"} /\ loop.strategy = "identify" =>
       state.session = NoSession /\ state.seq = NoSeq

\* What has been judged, against the stored number and the frames to come.
JudgedOK ==
  /\ \A j \in judged : j.session <= service.session
  /\ \A j \in judged : j.session = service.session =>
       /\ 1 < j.seq /\ j.seq <= Len(service.log)
       /\ state.session = service.session => j.seq <= state.seq
       /\ \A i \in 1..Len(wire.frames) : wire.frames[i].seq # NoSeq => j.seq < wire.frames[i].seq
  /\ state.session # NoSession =>
       \A i \in 2..state.seq : \E j \in judged : j.session = state.session /\ j.seq = i

GatewayInv == GatewayTypes /\ WireOK /\ SessionOK /\ JudgedOK

\* No frame is numbered, so the frames are in order whatever the log holds.
LEMMA Unnumbered ==
  ASSUME NEW frames, NEW seq, NEW n, NEW session,
         \A i \in 1..Len(frames) : /\ frames[i].seq = NoSeq
                                   /\ frames[i].op \notin {"ready", "message"}
  PROVE  Numbered(frames, seq, n, session)
BY DEF Numbered

\* The number of a frame is a natural number.
LEMMA FrameNumbers ==
  ASSUME NEW frames \in Seq(FrameSet)
  PROVE  \A i \in 1..Len(frames) : frames[i] \in FrameSet /\ frames[i].seq \in Nat
<1>1. \A i \in 1..Len(frames) : frames[i] \in FrameSet
  OBVIOUS
<1>2. \A f \in FrameSet : f.seq \in Nat
  BY DEF FrameSet
<1> QED BY <1>1, <1>2

\* The log may grow behind the frames.
LEMMA LogGrows ==
  ASSUME NEW frames \in Seq(FrameSet), NEW seq \in Nat, NEW n \in Nat, NEW m \in Nat, n <= m,
         NEW session, Numbered(frames, seq, n, session)
  PROVE  Numbered(frames, seq, m, session)
<1>1. \A i \in 1..Len(frames) : frames[i].seq \in Nat
  BY FrameNumbers
<1>2. \A i \in 1..Len(frames) : frames[i].seq <= n => frames[i].seq <= m
  BY <1>1
<1> QED BY <1>2 DEF Numbered

\* The first of the numbered frames carries the next number, and reading a frame leaves
\* the others in order after it.
LEMMA ReadingFrame ==
  ASSUME NEW frames \in Seq(FrameSet), frames # << >>, NEW seq \in Nat, NEW n \in Nat,
         NEW session, Numbered(frames, seq, n, session), NEW s,
         s = IF Head(frames).seq # NoSeq THEN Head(frames).seq ELSE seq
  PROVE  /\ s \in Nat
         /\ Head(frames).seq # NoSeq => s = seq + 1 /\ s <= n
         /\ Numbered(Tail(frames), s, n, session)
         /\ Complete(frames, seq, n) => Complete(Tail(frames), s, n)
<1> DEFINE t == Tail(frames)  L == Len(frames)
<1>1. /\ L \in Nat /\ L > 0 /\ Len(t) = L - 1 /\ Head(frames) = frames[1]
      /\ \A i \in 1..Len(t) : t[i] = frames[i + 1] /\ i + 1 \in 1..L
  OBVIOUS
<1>2. \A i \in 1..L : frames[i].seq \in Nat
  BY FrameNumbers
<1>3. s \in Nat
  BY <1>1, <1>2
<1>4. frames[1].seq # NoSeq => frames[1].seq = seq + 1 /\ seq + 1 <= n
  <2> SUFFICES ASSUME frames[1].seq # NoSeq PROVE frames[1].seq = seq + 1 /\ seq + 1 <= n
    OBVIOUS
  <2>1. /\ seq < frames[1].seq /\ frames[1].seq <= n
        /\ \A m \in (seq + 1)..frames[1].seq : \E k \in 1..1 : frames[k].seq = m
    BY <1>1 DEF Numbered
  <2>2. seq + 1 \in (seq + 1)..frames[1].seq
    BY <1>1, <1>2, <2>1
  <2>3. PICK k \in 1..1 : frames[k].seq = seq + 1
    BY <2>1, <2>2
  <2> QED BY <2>1, <2>3
<1>5. s = seq \/ s = seq + 1
  BY <1>1, <1>4
<1>6. \A i \in 2..L : frames[i].seq # NoSeq => s < frames[i].seq
  <2> SUFFICES ASSUME NEW i \in 2..L, frames[i].seq # NoSeq PROVE s < frames[i].seq
    OBVIOUS
  <2>1. i \in 1..L /\ 1 \in 1..(i - 1)
    BY <1>1
  <2>2. seq < frames[i].seq /\ frames[1].seq < frames[i].seq
    BY <2>1 DEF Numbered
  <2> QED BY <1>1, <2>2
<1> HIDE DEF t, L
<1>7. ASSUME NEW i \in 1..Len(t), t[i].seq # NoSeq
      PROVE  /\ s < t[i].seq /\ t[i].seq <= n
             /\ \A m \in (s + 1)..t[i].seq : \E k \in 1..i : t[k].seq = m
             /\ \A k \in 1..(i - 1) : t[k].seq < t[i].seq
  <2>1. i + 1 \in 1..L /\ i + 1 \in 2..L /\ t[i] = frames[i + 1] /\ i \in Nat
    BY <1>1, <1>7
  <2>2. /\ frames[i + 1].seq <= n
        /\ \A m \in (seq + 1)..frames[i + 1].seq : \E k \in 1..(i + 1) : frames[k].seq = m
        /\ \A k \in 1..((i + 1) - 1) : frames[k].seq < frames[i + 1].seq
    BY <1>7, <2>1 DEF Numbered, L
  <2>3. ASSUME NEW m \in (s + 1)..t[i].seq PROVE \E k \in 1..i : t[k].seq = m
    <3>1. m \in (seq + 1)..frames[i + 1].seq /\ m > s /\ m # NoSeq
      BY <1>2, <1>3, <1>5, <2>1, SMTT(40) DEF NoSeq
    <3>2. PICK k \in 1..(i + 1) : frames[k].seq = m
      BY <2>2, <3>1
    <3>3. k # 1
      BY <1>1, <1>3, <3>1, <3>2
    <3>4. k - 1 \in 1..i /\ k - 1 \in 1..Len(t) /\ t[k - 1] = frames[k]
      BY <1>1, <2>1, <3>2, <3>3
    <3> QED BY <3>2, <3>4
  <2>4. ASSUME NEW k \in 1..(i - 1) PROVE t[k].seq < t[i].seq
    <3>1. k + 1 \in 1..((i + 1) - 1) /\ k \in 1..Len(t) /\ t[k] = frames[k + 1]
      BY <1>1, <2>1
    <3> QED BY <2>1, <2>2, <3>1
  <2> QED BY <1>6, <1>7, <2>1, <2>2, <2>3, <2>4
<1>8. ASSUME NEW i \in 1..Len(t)
      PROVE  /\ t[i].op = "ready" => t[i].seq = 1 /\ t[i].data = session
             /\ t[i].op = "message" => t[i].seq > 1
             /\ t[i].op \notin {"ready", "message"} => t[i].seq = NoSeq
  BY <1>1, <1>8 DEF Numbered, L
<1>9. Numbered(t, s, n, session)
  BY <1>7, <1>8 DEF Numbered
<1>10. ASSUME Complete(frames, seq, n) PROVE Complete(t, s, n)
  <2> SUFFICES ASSUME NEW m \in (s + 1)..n PROVE \E k \in 1..Len(t) : t[k].seq = m
    BY DEF Complete
  <2>1. m \in (seq + 1)..n /\ m > s /\ m # NoSeq
    BY <1>3, <1>5 DEF NoSeq
  <2>2. PICK k \in 1..L : frames[k].seq = m
    BY <1>10, <2>1 DEF Complete, L
  <2>3. k # 1
    BY <1>1, <1>3, <2>1, <2>2
  <2>4. k - 1 \in 1..Len(t) /\ t[k - 1] = frames[k]
    BY <1>1, <2>2, <2>3
  <2> QED BY <2>2, <2>4
<1> QED BY <1>1, <1>3, <1>4, <1>9, <1>10 DEF t

\* A frame without a number may be sent at any time.
LEMMA PlainFrame ==
  ASSUME NEW frames \in Seq(FrameSet), NEW seq \in Nat, NEW n \in Nat, NEW session,
         NEW f \in FrameSet, f.seq = NoSeq, f.op \notin {"ready", "message"}
  PROVE  /\ Append(frames, f) \in Seq(FrameSet)
         /\ Numbered(frames, seq, n, session) => Numbered(Append(frames, f), seq, n, session)
         /\ Complete(frames, seq, n) => Complete(Append(frames, f), seq, n)
<1> DEFINE t == Append(frames, f)  L == Len(frames)
<1>1. /\ L \in Nat /\ Len(t) = L + 1 /\ t[L + 1] = f /\ t \in Seq(FrameSet)
      /\ \A i \in 1..L : t[i] = frames[i]
  OBVIOUS
<1> HIDE DEF t
<1>2. \A i \in 1..Len(t) : i = L + 1 \/ i \in 1..L
  BY <1>1
<1>3. \A i \in 1..L : i \in 1..Len(t) /\ \A k \in 1..i : k \in 1..L
  BY <1>1
<1>4. ASSUME Numbered(frames, seq, n, session) PROVE Numbered(t, seq, n, session)
  <2>1. ASSUME NEW i \in 1..Len(t), t[i].seq # NoSeq
        PROVE  /\ seq < t[i].seq /\ t[i].seq <= n
               /\ \A m \in (seq + 1)..t[i].seq : \E k \in 1..i : t[k].seq = m
               /\ \A k \in 1..(i - 1) : t[k].seq < t[i].seq
    <3>1. i \in 1..L /\ t[i] = frames[i]
      BY <1>1, <1>2, <2>1
    <3>2. /\ seq < frames[i].seq /\ frames[i].seq <= n
          /\ \A m \in (seq + 1)..frames[i].seq : \E k \in 1..i : frames[k].seq = m
          /\ \A k \in 1..(i - 1) : frames[k].seq < frames[i].seq
      BY <1>4, <2>1, <3>1 DEF Numbered
    <3>3. \A k \in 1..(i - 1) : k \in 1..i
      BY <3>1
    <3> QED BY <1>1, <1>3, <3>1, <3>2, <3>3
  <2>2. ASSUME NEW i \in 1..Len(t)
        PROVE  /\ t[i].op = "ready" => t[i].seq = 1 /\ t[i].data = session
               /\ t[i].op = "message" => t[i].seq > 1
               /\ t[i].op \notin {"ready", "message"} => t[i].seq = NoSeq
    BY <1>1, <1>2, <1>4, <2>2 DEF Numbered
  <2> QED BY <2>1, <2>2 DEF Numbered
<1>5. ASSUME Complete(frames, seq, n) PROVE Complete(t, seq, n)
  BY <1>1, <1>3, <1>5 DEF Complete
<1> QED BY <1>1, <1>4, <1>5 DEF t

\* The next event of the log goes after all the others.
LEMMA NextFrame ==
  ASSUME NEW frames \in Seq(FrameSet), NEW seq \in Nat, NEW n \in Nat, NEW session,
         seq <= n, n >= 1, Numbered(frames, seq, n, session), Complete(frames, seq, n),
         NEW f \in FrameSet, f.seq = n + 1, f.op = "message"
  PROVE  /\ Append(frames, f) \in Seq(FrameSet)
         /\ Numbered(Append(frames, f), seq, n + 1, session)
         /\ Complete(Append(frames, f), seq, n + 1)
<1> DEFINE t == Append(frames, f)  L == Len(frames)
<1>1. /\ L \in Nat /\ Len(t) = L + 1 /\ t[L + 1] = f /\ t \in Seq(FrameSet)
      /\ \A i \in 1..L : t[i] = frames[i]
  OBVIOUS
<1> HIDE DEF t
<1>2. \A i \in 1..Len(t) : i = L + 1 \/ i \in 1..L
  BY <1>1
<1>3. \A i \in 1..L : i \in 1..Len(t) /\ \A k \in 1..i : k \in 1..L
  BY <1>1
<1>4. \A i \in 1..L : frames[i].seq \in Nat
  BY FrameNumbers
<1>5. Complete(t, seq, n + 1)
  <2> SUFFICES ASSUME NEW m \in (seq + 1)..(n + 1) PROVE \E k \in 1..Len(t) : t[k].seq = m
    BY DEF Complete
  <2>1. CASE m = n + 1
    BY <1>1, <2>1
  <2>2. CASE m # n + 1
    <3>1. m \in (seq + 1)..n
      BY <2>2
    <3>2. PICK k \in 1..L : frames[k].seq = m
      BY <3>1 DEF Complete
    <3> QED BY <1>1, <1>3, <3>2
  <2> QED BY <2>1, <2>2
<1>6. ASSUME NEW i \in 1..Len(t), t[i].seq # NoSeq
      PROVE  /\ seq < t[i].seq /\ t[i].seq <= n + 1
             /\ \A m \in (seq + 1)..t[i].seq : \E k \in 1..i : t[k].seq = m
             /\ \A k \in 1..(i - 1) : t[k].seq < t[i].seq
  <2>1. CASE i = L + 1
    <3>1. t[i].seq = n + 1
      BY <1>1, <2>1
    <3>2. \A m \in (seq + 1)..(n + 1) : \E k \in 1..i : t[k].seq = m
      BY <1>1, <1>5, <2>1 DEF Complete
    <3>3. \A k \in 1..L : frames[k].seq < n + 1
      <4> SUFFICES ASSUME NEW k \in 1..L PROVE frames[k].seq < n + 1
        OBVIOUS
      <4>1. frames[k].seq # NoSeq => frames[k].seq <= n
        BY DEF Numbered
      <4> QED BY <1>4, <4>1 DEF NoSeq
    <3>4. \A k \in 1..(i - 1) : k \in 1..L
      BY <1>1, <2>1
    <3> QED BY <1>1, <3>1, <3>2, <3>3, <3>4
  <2>2. CASE i \in 1..L
    <3>1. t[i] = frames[i]
      BY <1>1, <2>2
    <3>2. /\ seq < frames[i].seq /\ frames[i].seq <= n
          /\ \A m \in (seq + 1)..frames[i].seq : \E k \in 1..i : frames[k].seq = m
          /\ \A k \in 1..(i - 1) : frames[k].seq < frames[i].seq
      BY <1>6, <2>2, <3>1 DEF Numbered
    <3>3. \A k \in 1..(i - 1) : k \in 1..i
      BY <2>2
    <3>4. frames[i].seq <= n + 1
      BY <1>4, <2>2, <3>2
    <3> QED BY <1>1, <1>3, <2>2, <3>1, <3>2, <3>3, <3>4
  <2> QED BY <1>2, <1>6, <2>1, <2>2
<1>7. ASSUME NEW i \in 1..Len(t)
      PROVE  /\ t[i].op = "ready" => t[i].seq = 1 /\ t[i].data = session
             /\ t[i].op = "message" => t[i].seq > 1
             /\ t[i].op \notin {"ready", "message"} => t[i].seq = NoSeq
  <2>1. CASE i = L + 1
    BY <1>1, <2>1
  <2>2. CASE i \in 1..L
    BY <1>1, <2>2 DEF Numbered
  <2> QED BY <1>2, <1>7, <2>1, <2>2
<1> QED BY <1>1, <1>5, <1>6, <1>7 DEF Numbered, t

\* What the end of a session leaves: no connection, and a fresh Identify only from no
\* session.
Ended ==
  /\ loop' \in [pc : {"top", "done"}, strategy : {"identify", "resume"},
                connected : BOOLEAN, cause : Causes]
  /\ wire' = Down
  /\ state' = state \/ state' = ResetState
  /\ loop'.pc = "top" /\ loop'.strategy = "identify" => state' = ResetState
  /\ service' = service /\ judged' = judged

\* classifyEnd's verdict decides both the strategy and whether the state is kept.
LEMMA EndsWell ==
  ASSUME NEW STATE cause, cause \in Causes, SessionEnds(cause), UNCHANGED <<service, judged>>
  PROVE  Ended
<1> DEFINE kind == IF cancelled THEN "clean stop" ELSE classifyEnd(cause)
<1>1. /\ loop' = [pc |-> IF kind \in {"clean stop", "fatal"} THEN "done" ELSE "top",
                  strategy |-> IF kind = "resume" THEN "resume" ELSE "identify",
                  connected |-> FALSE, cause |-> cause]
      /\ state' = (IF kind = "reidentify" THEN ResetState ELSE state)
      /\ wire' = Down
  BY DEF SessionEnds
<1>2. kind \in {"clean stop", "fatal", "resume", "reidentify"}
  BY DEF classifyEnd
<1> HIDE DEF kind
<1> QED BY <1>1, <1>2 DEF Ended

\* The cause of an unwinding is one of the causes.
LEMMA UnwindsWell ==
  ASSUME NEW STATE read, read \in Causes, Unwinds(read), UNCHANGED <<service, judged>>
  PROVE  Ended
<1> DEFINE hb == IF beat.run = "failed" THEN "zombie"
                 ELSE IF beat.run = "broken" THEN "network" ELSE "none"
<1>1. hb \in Causes
  BY DEF Causes
<1>2. sessionCause(hb, read) \in Causes
  BY <1>1 DEF sessionCause
<1>3. SessionEnds(sessionCause(hb, read))
  BY DEF Unwinds
<1> HIDE DEF hb
<1> QED BY <1>2, <1>3, EndsWell

\* The kinds of the fields the steps below are about.
LEMMA GatewayKinds ==
  ASSUME GatewayTypes
  PROVE  /\ wire.frames \in Seq(FrameSet) /\ wire.close \in {"none"} \cup CloseCauses
         /\ state.seq \in Nat /\ state.session \in Nat
         /\ service.session \in Nat /\ Len(service.log) \in Nat
         /\ \A j \in judged : j.session \in Nat /\ j.seq \in Nat /\ j.nth = 0
<1>1. service.log \in Seq({"ready"} \cup Senders)
  BY DEF GatewayTypes
<1> QED BY <1>1 DEF GatewayTypes

\* The end of a session keeps the invariant.
LEMMA EndStep == ASSUME GatewayInv, Ended PROVE GatewayInv'
<1> USE DEF GatewayInv, GatewayTypes
<1>1. wire'.frames = << >> /\ Len(wire'.frames) = 0 /\ loop'.pc \in {"top", "done"}
  BY DEF Ended, Down
<1>2. GatewayTypes'
  <2>1. wire' \in [up : BOOLEAN, frames : Seq(FrameSet), close : {"none"} \cup CloseCauses]
    BY DEF Ended, Down
  <2>2. ResetState \in [session : Nat, seq : Nat, self : BOOLEAN]
    BY DEF ResetState, NoSession, NoSeq
  <2>3. loop' \in [pc : {"new", "top", "hello", "reading", "done"},
                   strategy : {"identify", "resume"}, connected : BOOLEAN, cause : Causes]
    BY DEF Ended
  <2> QED BY <2>1, <2>2, <2>3 DEF Ended
<1>3. WireOK'
  BY <1>1, Unnumbered DEF WireOK, Carries
<1>4. (state'.session = state.session /\ state'.seq = state.seq)
      \/ (state'.session = NoSession /\ state'.seq = NoSeq)
  BY DEF Ended, ResetState
<1>5. SessionOK'
  <2>1. loop'.pc = "top" /\ loop'.strategy = "identify" =>
          state'.session = NoSession /\ state'.seq = NoSeq
    BY DEF Ended, ResetState
  <2>2. state'.seq <= Len(service.log)
    <3>1. Len(service.log) \in Nat
      BY GatewayKinds
    <3> QED BY <1>4, <3>1 DEF SessionOK, NoSeq
  <2>3. service' = service
    BY DEF Ended
  <2> QED BY <1>1, <1>4, <2>1, <2>2, <2>3 DEF SessionOK
<1>6. JudgedOK'
  <2>1. service' = service /\ judged' = judged
    BY DEF Ended
  <2>2. \A j \in judged : j.session = service.session /\ NoSession = service.session => FALSE
    <3>1. \A j \in judged : j.session = service.session => 1 < j.seq /\ j.seq <= Len(service.log)
      BY DEF JudgedOK
    <3>2. Len(service.log) \in Nat /\ judged \subseteq [session : Nat, seq : Nat, nth : {0}]
      OBVIOUS
    <3>3. Len(service.log) > 0 => service.session # NoSession
      BY DEF SessionOK
    <3> QED BY <3>1, <3>2, <3>3
  <2> QED BY <1>1, <1>4, <2>1, <2>2 DEF JudgedOK
<1> QED BY <1>2, <1>3, <1>5, <1>6

\* The adapter starts without a session and without a connection.
LEMMA GatewayBegins == GatewayInit => GatewayInv
<1> SUFFICES ASSUME GatewayInit PROVE GatewayInv
  OBVIOUS
<1>1. /\ wire.frames = << >> /\ Len(wire.frames) = 0 /\ judged = {} /\ loop.pc = "new"
      /\ state.session = NoSession /\ state.seq = NoSeq
      /\ service.session = NoSession /\ service.log = << >> /\ ~service.alive
      /\ Len(service.log) = 0
  BY DEF GatewayInit, Down, ResetState
<1>2. GatewayTypes
  <2>1. << >> \in Seq(FrameSet) /\ << >> \in Seq({"ready"} \cup Senders)
    OBVIOUS
  <2> QED BY <2>1 DEF GatewayInit, GatewayTypes, Down, ResetState, NoSession, NoSeq, Causes
<1>3. WireOK
  BY <1>1, Unnumbered DEF WireOK, Carries
<1>4. SessionOK /\ JudgedOK
  BY <1>1 DEF SessionOK, JudgedOK, NoSeq
<1> QED BY <1>2, <1>3, <1>4 DEF GatewayInv

\* Steps that leave the frames, the log and the judged events alone.
LEMMA AsideStep ==
  ASSUME GatewayInv, GatewayStart \/ GatewayStop \/ TopCancelled \/ PumpTakes
                     \/ UNCHANGED gatewayVars
  PROVE  GatewayInv'
<1>1. UNCHANGED <<state, wire, service, judged>>
  BY DEF GatewayStart, GatewayStop, TopCancelled, PumpTakes, gatewayVars
<1>2. /\ loop' \in [pc : {"new", "top", "hello", "reading", "done"},
                    strategy : {"identify", "resume"}, connected : BOOLEAN, cause : Causes]
      /\ loop'.pc = loop.pc \/ (loop.pc \in {"new", "top"} /\ loop'.pc \in {"top", "done"})
      /\ loop'.strategy = loop.strategy
  BY DEF GatewayInv, GatewayTypes, GatewayStart, GatewayStop, TopCancelled, PumpTakes, gatewayVars
<1>3. GatewayTypes'
  BY <1>1, <1>2 DEF GatewayInv, GatewayTypes
<1>4. WireOK'
  BY <1>1, <1>2 DEF GatewayInv, WireOK, Carries
<1>5. SessionOK'
  BY <1>1, <1>2 DEF GatewayInv, SessionOK
<1>6. JudgedOK'
  BY <1>1 DEF GatewayInv, JudgedOK
<1> QED BY <1>3, <1>4, <1>5, <1>6 DEF GatewayInv

WireSet == [up : BOOLEAN, frames : Seq(FrameSet), close : {"none"} \cup CloseCauses]

\* The frames of the connection are replaced, and nothing else of it.
LEMMA SetFrames ==
  ASSUME GatewayTypes, NEW STATE fs, fs \in Seq(FrameSet), wire' = [wire EXCEPT !.frames = fs]
  PROVE  /\ wire' \in WireSet /\ wire'.frames = fs
         /\ (wire'.up <=> wire.up) /\ wire'.close = wire.close
<1>1. wire \in WireSet
  BY DEF GatewayTypes, WireSet
<1> QED BY <1>1 DEF WireSet

\* A dial: the Hello is not numbered.
LEMMA DialStep == ASSUME GatewayInv, DialGateway PROVE GatewayInv'
<1>0. loop.pc = "top" /\ UNCHANGED <<state, service, judged>>
  BY DEF DialGateway
<1>1. CASE UNCHANGED <<wire, loop>>
  BY <1>0, <1>1 DEF GatewayInv, GatewayTypes, WireOK, Carries, SessionOK, JudgedOK
<1>2. CASE /\ wire' = [up |-> TRUE, frames |-> <<Frame("hello", NoSeq, "ok")>>, close |-> "none"]
           /\ loop' = [loop EXCEPT !.pc = "hello"]
  <2>1. /\ loop' \in [pc : {"new", "top", "hello", "reading", "done"},
                      strategy : {"identify", "resume"}, connected : BOOLEAN, cause : Causes]
        /\ loop'.pc = "hello" /\ loop'.strategy = loop.strategy
    BY <1>2 DEF GatewayInv, GatewayTypes
  <2>2. Frame("hello", NoSeq, "ok") \in FrameSet
    BY DEF Frame, FrameSet, FrameOps, NoSeq
  <2>3. /\ wire'.frames = <<Frame("hello", NoSeq, "ok")>> /\ Len(wire'.frames) = 1
        /\ wire'.frames[1] = Frame("hello", NoSeq, "ok")
        /\ wire' \in [up : BOOLEAN, frames : Seq(FrameSet), close : {"none"} \cup CloseCauses]
    BY <1>2, <2>2
  <2>4. \A i \in 1..Len(wire'.frames) : /\ wire'.frames[i].seq = NoSeq
                                        /\ wire'.frames[i].op \notin {"ready", "message"}
    BY <2>3 DEF Frame
  <2>5. GatewayTypes'
    BY <1>0, <2>1, <2>3 DEF GatewayInv, GatewayTypes
  <2>6. WireOK'
    BY <1>0, <2>1, <2>4, Unnumbered DEF WireOK, Carries
  <2>7. SessionOK'
    BY <1>0, <2>1 DEF GatewayInv, SessionOK
  <2>8. JudgedOK'
    BY <1>0, <2>4 DEF GatewayInv, JudgedOK
  <2> QED BY <2>5, <2>6, <2>7, <2>8 DEF GatewayInv
<1> QED BY <1>1, <1>2 DEF DialGateway

\* An Identify: a new session, whose READY is its first event.
LEMMA IdentifyStep ==
  ASSUME GatewayInv, loop.pc = "hello", loop.strategy = "identify", AnswerIdentify,
         loop' = [loop EXCEPT !.pc = "reading", !.connected = FALSE], UNCHANGED <<state, judged>>
  PROVE  GatewayInv'
<1>0. GatewayTypes /\ SessionOK /\ JudgedOK
  BY DEF GatewayInv
<1> DEFINE ses == service.session + 1  ready == Frame("ready", 1, ses)
<1>1. /\ service.session \in Nat /\ ses \in Nat /\ ses # NoSession /\ ses > service.session
      /\ \A j \in judged : j.session \in Nat
  BY <1>0, GatewayKinds DEF NoSession
<1>2. /\ service' = [session |-> ses, log |-> <<"ready">>, alive |-> TRUE]
      /\ wire' = [wire EXCEPT !.frames = <<ready>>]
  BY DEF AnswerIdentify
<1>3. ready \in FrameSet /\ ready.seq = 1 /\ ready.op = "ready" /\ ready.data = ses
  BY <1>1 DEF Frame, FrameSet, FrameOps
<1> HIDE DEF ses, ready
<1>4. /\ wire' \in WireSet
      /\ wire'.frames = <<ready>> /\ Len(wire'.frames) = 1 /\ wire'.frames[1] = ready
  <2>1. <<ready>> \in Seq(FrameSet) /\ Len(<<ready>>) = 1 /\ <<ready>>[1] = ready
    BY <1>3
  <2>2. wire' \in WireSet /\ wire'.frames = <<ready>>
    BY <1>0, <1>2, <2>1, SetFrames
  <2> QED BY <2>1, <2>2
<1>5. /\ service' \in [session : Nat, log : Seq({"ready"} \cup Senders), alive : BOOLEAN]
      /\ service'.session = ses /\ Len(service'.log) = 1
  BY <1>1, <1>2
<1>6. state'.session = NoSession /\ state'.seq = NoSeq
  BY <1>0 DEF SessionOK
<1>7. /\ loop' \in [pc : {"new", "top", "hello", "reading", "done"},
                    strategy : {"identify", "resume"}, connected : BOOLEAN, cause : Causes]
      /\ loop'.pc = "reading"
  BY <1>0 DEF GatewayTypes
<1>8. GatewayTypes'
  BY <1>0, <1>4, <1>5, <1>7 DEF GatewayTypes, WireSet
<1>9. WireOK'
  <2>1. Numbered(wire'.frames, NoSeq, 1, ses)
    <3>1. \A m \in (NoSeq + 1)..1 : m = 1
      BY DEF NoSeq
    <3>2. \A i \in 1..1 : i = 1 /\ 1..(i - 1) = {}
      OBVIOUS
    <3> QED BY <1>3, <1>4, <3>1, <3>2 DEF Numbered, NoSeq
  <2>2. Complete(wire'.frames, NoSeq, 1)
    BY <1>3, <1>4 DEF Complete, NoSeq
  <2> QED BY <1>5, <1>6, <1>7, <2>1, <2>2 DEF WireOK
<1>10. SessionOK'
  BY <1>1, <1>5, <1>6, <1>7 DEF SessionOK, NoSeq
<1>11. JudgedOK'
  <2>1. \A j \in judged : j.session <= service.session
    BY <1>0 DEF JudgedOK
  <2>2. \A j \in judged : j.session < ses
    BY <1>1, <2>1
  <2>3. \A j \in judged : j.session <= ses /\ j.session # ses
    BY <1>1, <2>2
  <2>4. service'.session = ses /\ judged' = judged /\ state'.session = NoSession
    BY <1>5, <1>6
  <2> QED BY <2>3, <2>4 DEF JudgedOK
<1> QED BY <1>8, <1>9, <1>10, <1>11 DEF GatewayInv

\* The events a Resume replays: all the ones after the number it names.
LEMMA Replay ==
  ASSUME NEW log \in Seq({"ready"} \cup Senders), NEW seq \in Nat, seq >= 1, seq <= Len(log),
         NEW session, NEW r, r = [i \in 1..(Len(log) - seq) |-> Frame("message", seq + i, log[seq + i])]
  PROVE  /\ r \in Seq(FrameSet)
         /\ Numbered(r, seq, Len(log), session) /\ Complete(r, seq, Len(log))
         /\ \A i \in 1..Len(r) : r[i].op = "message"
<1>0. Len(log) - seq \in Nat
  <2>1. Len(log) \in Nat
    OBVIOUS
  <2> QED BY <2>1
<1>1. PICK d \in Nat : d = Len(log) - seq
  BY <1>0
<1>2. Len(log) = seq + d
  BY <1>1
<1>3. \A i \in 1..d : Frame("message", seq + i, log[seq + i]) \in FrameSet
  <2>1. \A i \in 1..d : seq + i \in 1..Len(log) /\ seq + i \in Nat
    BY <1>2
  <2>2. \A k \in 1..Len(log) : log[k] \in {"ready"} \cup Senders
    OBVIOUS
  <2> QED BY <2>1, <2>2 DEF Frame, FrameSet, FrameOps
<1>4. r = [i \in 1..d |-> Frame("message", seq + i, log[seq + i])]
  BY <1>1
<1>5. r \in Seq(FrameSet) /\ Len(r) = d
  <2>1. r \in [1..d -> FrameSet]
    BY <1>3, <1>4
  <2>2. r \in Seq(FrameSet)
    <3>1. Seq(FrameSet) = UNION {[1..n -> FrameSet] : n \in Nat}
      BY SeqDef, Zenon
    <3>2. [1..d -> FrameSet] \in {[1..n -> FrameSet] : n \in Nat}
      BY Zenon
    <3> QED BY <2>1, <3>1, <3>2, Zenon
  <2>3. DOMAIN r = 1..d /\ DOMAIN r = 1..Len(r) /\ Len(r) \in Nat
    BY <2>1, <2>2
  <2> QED BY <2>2, <2>3
<1>6. \A i \in 1..d : r[i].seq = seq + i
  BY <1>4 DEF Frame
<1>7. \A i \in 1..d : r[i].op = "message"
  BY <1>4 DEF Frame
<1>8. ASSUME NEW m \in (seq + 1)..(seq + d) PROVE m - seq \in 1..d /\ r[m - seq].seq = m
  <2>1. m - seq \in 1..d /\ seq + (m - seq) = m
    OBVIOUS
  <2> QED BY <1>6, <2>1
<1>9. ASSUME NEW i \in 1..d
      PROVE  /\ seq < r[i].seq /\ r[i].seq <= seq + d
             /\ \A m \in (seq + 1)..r[i].seq : \E k \in 1..i : r[k].seq = m
             /\ \A k \in 1..(i - 1) : r[k].seq < r[i].seq
  <2>1. r[i].seq = seq + i
    BY <1>6
  <2>2. seq < seq + i /\ seq + i <= seq + d
    OBVIOUS
  <2>3. ASSUME NEW m \in (seq + 1)..(seq + i) PROVE \E k \in 1..i : r[k].seq = m
    <3>1. m \in (seq + 1)..(seq + d) /\ m - seq \in 1..i
      OBVIOUS
    <3> QED BY <1>8, <3>1
  <2>4. ASSUME NEW k \in 1..(i - 1) PROVE r[k].seq < seq + i
    <3>1. k \in 1..d /\ seq + k < seq + i
      OBVIOUS
    <3> QED BY <1>6, <3>1
  <2> QED BY <2>1, <2>2, <2>3, <2>4
<1>10. \A i \in 1..d : r[i].seq > 1
  <2>1. \A i \in 1..d : seq + i > 1
    OBVIOUS
  <2> QED BY <1>6, <2>1
<1>11. Numbered(r, seq, Len(log), session)
  <2>1. \A i \in 1..d : r[i].op = "message" /\ r[i].seq > 1
    BY <1>7, <1>10
  <2>2. Numbered(r, seq, seq + d, session)
    BY <1>5, <1>9, <2>1 DEF Numbered
  <2> QED BY <1>2, <2>2
<1>12. Complete(r, seq, Len(log))
  BY <1>2, <1>5, <1>8 DEF Complete
<1> QED BY <1>5, <1>7, <1>11, <1>12

\* A Resume: the events after the stored number come again, or the session is refused.
LEMMA ResumeStep ==
  ASSUME GatewayInv, loop.pc = "hello", loop.strategy = "resume",
         AnswerResume(state.session, ResumeSeq),
         loop' = [loop EXCEPT !.pc = "reading", !.connected = TRUE], UNCHANGED <<state, judged>>
  PROVE  GatewayInv'
<1>0. GatewayTypes /\ WireOK /\ SessionOK /\ JudgedOK /\ service' = service
  BY DEF GatewayInv, AnswerResume
<1>1. /\ state.seq \in Nat /\ state.session \in Nat /\ service.session \in Nat
      /\ Len(service.log) \in Nat /\ \A j \in judged : j.session \in Nat /\ j.seq \in Nat
      /\ service.log \in Seq({"ready"} \cup Senders)
  BY <1>0, GatewayKinds DEF GatewayTypes
<1>2. /\ loop' \in [pc : {"new", "top", "hello", "reading", "done"},
                    strategy : {"identify", "resume"}, connected : BOOLEAN, cause : Causes]
      /\ loop'.pc = "reading" /\ loop'.strategy = "resume"
  BY <1>0 DEF GatewayTypes
<1> DEFINE replayed == [i \in 1..(Len(service.log) - state.seq) |->
                          Frame("message", state.seq + i, service.log[state.seq + i])]
           resumed == Frame("resumed", NoSeq, "ok")
           refused == Frame("invalid", NoSeq, "fresh")
<1>3. wire' = [wire EXCEPT !.frames =
        IF state.session = service.session /\ service.alive
        THEN replayed \o <<resumed>> ELSE <<refused>>]
  BY DEF AnswerResume, ResumeSeq
<1>4. /\ resumed \in FrameSet /\ resumed.seq = NoSeq /\ resumed.op = "resumed"
      /\ refused \in FrameSet /\ refused.seq = NoSeq /\ refused.op = "invalid"
  BY DEF Frame, FrameSet, FrameOps, NoSeq
<1>5. CASE state.session = service.session /\ service.alive
  <2>1. state.session # NoSession /\ state.seq \in 1..Len(service.log)
    BY <1>0, <1>5 DEF SessionOK
  <2>2. /\ replayed \in Seq(FrameSet)
        /\ Numbered(replayed, state.seq, Len(service.log), service.session)
        /\ Complete(replayed, state.seq, Len(service.log))
    <3>1. state.seq >= 1 /\ state.seq <= Len(service.log)
      BY <1>1, <2>1
    <3> QED BY <1>1, <3>1, Replay
  <2> HIDE DEF replayed, resumed, refused
  <2>3. replayed \o <<resumed>> = Append(replayed, resumed)
    BY <1>4, <2>2
  <2>4. /\ wire' \in WireSet /\ wire'.frames = Append(replayed, resumed)
    <3>1. wire' = [wire EXCEPT !.frames = Append(replayed, resumed)]
      BY <1>3, <1>5, <2>3
    <3>2. Append(replayed, resumed) \in Seq(FrameSet)
      BY <1>4, <2>2
    <3> QED BY <1>0, <3>1, <3>2, SetFrames
  <2>5. /\ Numbered(wire'.frames, state.seq, Len(service.log), service.session)
        /\ Complete(wire'.frames, state.seq, Len(service.log))
    BY <1>1, <1>4, <2>2, <2>4, PlainFrame
  <2>6. GatewayTypes'
    BY <1>0, <1>2, <2>4 DEF GatewayTypes, WireSet
  <2>7. WireOK'
    BY <1>0, <1>2, <2>5 DEF WireOK
  <2>8. SessionOK'
    BY <1>0, <1>2 DEF SessionOK
  <2>9. JudgedOK'
    <3>1. \A i \in 1..Len(wire'.frames) : wire'.frames[i].seq # NoSeq => state.seq < wire'.frames[i].seq
      BY <2>5 DEF Numbered
    <3>2. \A i \in 1..Len(wire'.frames) : wire'.frames[i].seq \in Nat
      BY <2>4, FrameNumbers DEF WireSet
    <3>3. \A j \in judged : j.session = service.session => j.seq <= state.seq
      BY <1>0, <1>5 DEF JudgedOK
    <3>4. \A j \in judged : j.session = service.session =>
            \A i \in 1..Len(wire'.frames) :
              wire'.frames[i].seq # NoSeq => j.seq < wire'.frames[i].seq
      BY SMTT(40), <1>1, <3>1, <3>2, <3>3
    <3> QED BY <1>0, <3>4 DEF JudgedOK
  <2> QED BY <2>6, <2>7, <2>8, <2>9 DEF GatewayInv
<1>6. CASE ~(state.session = service.session /\ service.alive)
  <2> HIDE DEF replayed, resumed, refused
  <2>1. <<refused>> \in Seq(FrameSet) /\ Len(<<refused>>) = 1 /\ <<refused>>[1] = refused
    BY <1>4
  <2>2. wire' \in WireSet /\ wire'.frames = <<refused>>
    <3>1. wire' = [wire EXCEPT !.frames = <<refused>>]
      BY <1>3, <1>6
    <3> QED BY <1>0, <2>1, <3>1, SetFrames
  <2>3. \A i \in 1..Len(wire'.frames) :
          wire'.frames[i].seq = NoSeq /\ wire'.frames[i].op = "invalid"
    BY <1>4, <2>1, <2>2
  <2>4. GatewayTypes'
    BY <1>0, <1>2, <2>2 DEF GatewayTypes, WireSet
  <2>5. ~Carries'
    BY <2>1, <2>2, <2>3 DEF Carries
  <2>6. WireOK'
    BY <2>3, <2>5, Unnumbered DEF WireOK
  <2>7. SessionOK'
    BY <1>0, <1>2 DEF SessionOK
  <2>8. JudgedOK'
    BY <1>0, <2>3 DEF JudgedOK
  <2> QED BY <2>4, <2>6, <2>7, <2>8 DEF GatewayInv
<1> QED BY <1>5, <1>6

\* One unnumbered frame more, on the connection that is there.
LEMMA PlainStep ==
  ASSUME GatewayInv, NEW f \in FrameSet, f.seq = NoSeq, f.op \notin {"ready", "message"},
         wire' = [wire EXCEPT !.frames = Append(wire.frames, f)], UNCHANGED <<loop, state, judged>>,
         service' \in [session : Nat, log : Seq({"ready"} \cup Senders), alive : BOOLEAN],
         service'.session = service.session, service'.log = service.log,
         service'.alive => service.alive
  PROVE  GatewayInv'
<1>0. GatewayTypes /\ WireOK /\ SessionOK /\ JudgedOK
  BY DEF GatewayInv
<1>1. /\ wire.frames \in Seq(FrameSet) /\ state.seq \in Nat /\ Len(service.log) \in Nat
  BY <1>0, GatewayKinds
<1> DEFINE fs == Append(wire.frames, f)
<1>2. /\ fs \in Seq(FrameSet)
      /\ Numbered(fs, state.seq, Len(service.log), service.session)
      /\ Complete(wire.frames, state.seq, Len(service.log)) =>
           Complete(fs, state.seq, Len(service.log))
  BY <1>0, <1>1, PlainFrame DEF WireOK
<1>3. wire' \in WireSet /\ wire'.frames = fs /\ (wire'.up <=> wire.up) /\ wire'.close = wire.close
  BY <1>0, <1>2, SetFrames
<1>4. /\ Len(fs) = Len(wire.frames) + 1 /\ fs[Len(wire.frames) + 1] = f
      /\ Len(wire.frames) \in Nat
      /\ \A i \in 1..Len(wire.frames) : fs[i] = wire.frames[i] /\ i \in 1..Len(fs)
  BY <1>1
<1> HIDE DEF fs
<1>5. \A i \in 1..Len(fs) : i = Len(wire.frames) + 1 \/ i \in 1..Len(wire.frames)
  BY <1>4
<1>6. Carries' => Carries
  <2>1. DOMAIN wire.frames = 1..Len(wire.frames) /\ DOMAIN fs = 1..Len(fs)
    BY <1>1, <1>2
  <2> QED BY <1>3, <1>4, <2>1 DEF Carries
<1>7. GatewayTypes'
  BY <1>0, <1>3 DEF GatewayTypes, WireSet
<1>8. WireOK'
  <2>1. loop.pc # "reading" => \A i \in 1..Len(fs) : fs[i].seq = NoSeq
    BY <1>0, <1>4, <1>5 DEF WireOK
  <2> QED BY <1>0, <1>2, <1>3, <1>6, <2>1 DEF WireOK
<1>9. SessionOK'
  BY <1>0 DEF SessionOK
<1>10. JudgedOK'
  <2>1. \A j \in judged : j.session = service.session =>
          \A i \in 1..Len(fs) : fs[i].seq # NoSeq => j.seq < fs[i].seq
    BY <1>0, <1>4, <1>5 DEF JudgedOK
  <2> QED BY <1>0, <1>3, <2>1 DEF JudgedOK
<1> QED BY <1>7, <1>8, <1>9, <1>10 DEF GatewayInv

\* A step that touches the heartbeat only, or marks or drops the connection.
LEMMA HarmlessStep ==
  ASSUME GatewayInv, UNCHANGED <<loop, state, service, judged>>,
         \/ wire' = wire
         \/ wire' = Down
         \/ \E code \in CloseCauses : wire' = [wire EXCEPT !.close = code]
  PROVE  GatewayInv'
<1>0. GatewayTypes /\ WireOK /\ SessionOK /\ JudgedOK
  BY DEF GatewayInv
<1>1. CASE wire' = Down
  <2>1. /\ wire'.frames = << >> /\ Len(wire'.frames) = 0 /\ ~wire'.up
        /\ wire' \in WireSet
    BY <1>1 DEF Down, WireSet
  <2>2. GatewayTypes'
    BY <1>0, <2>1 DEF GatewayTypes, WireSet
  <2>3. WireOK'
    BY <2>1, Unnumbered DEF WireOK, Carries
  <2>4. SessionOK' /\ JudgedOK'
    BY <1>0, <2>1 DEF SessionOK, JudgedOK
  <2> QED BY <2>2, <2>3, <2>4 DEF GatewayInv
<1>2. CASE wire' = wire \/ \E code \in CloseCauses : wire' = [wire EXCEPT !.close = code]
  <2>1. /\ wire' \in WireSet /\ wire'.frames = wire.frames
        /\ wire'.close = wire.close \/ wire'.close \in CloseCauses
        /\ (wire'.up <=> wire.up)
    <3>1. wire \in WireSet
      BY <1>0 DEF GatewayTypes, WireSet
    <3> QED BY <1>2, <3>1 DEF WireSet
  <2>2. Carries' => Carries
    BY <2>1 DEF Carries, CloseCauses
  <2>3. GatewayTypes'
    BY <1>0, <2>1 DEF GatewayTypes, WireSet
  <2>4. WireOK'
    BY <1>0, <2>1, <2>2 DEF WireOK
  <2>5. SessionOK' /\ JudgedOK'
    BY <1>0, <2>1 DEF SessionOK, JudgedOK
  <2> QED BY <2>3, <2>4, <2>5 DEF GatewayInv
<1> QED BY <1>1, <1>2

\* The service says the next event, on the connection that carries its session or not.
LEMMA SpeaksStep == ASSUME GatewayInv, ServiceSpeaks PROVE GatewayInv'
<1>0. GatewayTypes /\ WireOK /\ SessionOK /\ JudgedOK
  BY DEF GatewayInv
<1>1. /\ wire.frames \in Seq(FrameSet) /\ state.seq \in Nat /\ Len(service.log) \in Nat
      /\ state.session \in Nat /\ service.session \in Nat
      /\ \A j \in judged : j.session \in Nat /\ j.seq \in Nat
      /\ service.log \in Seq({"ready"} \cup Senders)
  BY <1>0, GatewayKinds DEF GatewayTypes
<1>2. PICK who \in Senders :
        /\ service' = [service EXCEPT !.log = Append(@, who)]
        /\ wire' = IF Carries
                   THEN [wire EXCEPT !.frames =
                           Append(@, Frame("message", Len(service.log) + 1, who))]
                   ELSE wire
  BY DEF ServiceSpeaks, Carries
<1>3. loop' = loop /\ state' = state /\ judged' = judged /\ service.alive
  BY DEF ServiceSpeaks
<1> DEFINE n == Len(service.log)  f == Frame("message", n + 1, who)
<1>4. /\ service' \in [session : Nat, log : Seq({"ready"} \cup Senders), alive : BOOLEAN]
      /\ service'.session = service.session /\ service'.log = Append(service.log, who)
      /\ (service'.alive <=> service.alive)
  <2>1. Append(service.log, who) \in Seq({"ready"} \cup Senders)
    BY <1>1
  <2> QED BY <1>0, <1>2, <2>1 DEF GatewayTypes
<1>5. Len(service'.log) = n + 1 /\ n \in Nat /\ n <= n + 1
  BY <1>1, <1>4
<1>6. f \in FrameSet /\ f.seq = n + 1 /\ f.op = "message"
  BY <1>1 DEF Frame, FrameSet, FrameOps
<1>7. SessionOK'
  BY <1>0, <1>1, <1>3, <1>4, <1>5 DEF SessionOK
<1>8. \A j \in judged : j.session = service.session => j.seq <= n
  BY <1>0 DEF JudgedOK
<1>9. CASE ~Carries
  <2>1. wire' = wire
    BY <1>2, <1>9
  <2>2. GatewayTypes'
    BY <1>0, <1>3, <1>4, <2>1 DEF GatewayTypes
  <2>3. ~Carries'
    BY <1>3, <1>9, <2>1 DEF Carries
  <2>4. Numbered(wire.frames, state.seq, n + 1, service.session)
    BY <1>0, <1>1, <1>5, LogGrows DEF WireOK
  <2>5. WireOK'
    BY <1>0, <1>3, <1>4, <1>5, <2>1, <2>3, <2>4 DEF WireOK
  <2>6. JudgedOK'
    <3>1. \A j \in judged : j.session = service.session => j.seq <= n + 1
      BY <1>1, <1>5, <1>8
    <3> QED BY <1>0, <1>3, <1>4, <1>5, <2>1, <3>1, SMTT(40) DEF JudgedOK
  <2> QED BY <1>7, <2>2, <2>5, <2>6 DEF GatewayInv
<1>10. CASE Carries
  <2> DEFINE fs == Append(wire.frames, f)
  <2>1. loop.pc = "reading" /\ wire' = [wire EXCEPT !.frames = fs]
    BY <1>2, <1>10 DEF Carries
  <2>2. Complete(wire.frames, state.seq, n)
    BY <1>0, <1>10 DEF WireOK
  <2>3. n >= 1 /\ state.seq <= n
    <3>1. n > 0 /\ state.seq <= n
      BY <1>0, <1>3 DEF SessionOK
    <3> QED BY <1>5, <3>1
  <2> HIDE DEF f, n
  <2>4. /\ fs \in Seq(FrameSet) /\ Numbered(fs, state.seq, n + 1, service.session)
        /\ Complete(fs, state.seq, n + 1)
    BY <1>0, <1>1, <1>5, <1>6, <2>2, <2>3, NextFrame DEF WireOK, n
  <2>5. wire' \in WireSet /\ wire'.frames = fs
    BY <1>0, <2>1, <2>4, SetFrames
  <2>6. /\ Len(fs) = Len(wire.frames) + 1 /\ fs[Len(wire.frames) + 1] = f
        /\ Len(wire.frames) \in Nat
        /\ \A i \in 1..Len(wire.frames) : fs[i] = wire.frames[i]
    BY <1>1
  <2> HIDE DEF fs
  <2>7. \A i \in 1..Len(fs) : i = Len(wire.frames) + 1 \/ i \in 1..Len(wire.frames)
    BY <2>6
  <2>8. GatewayTypes'
    BY <1>0, <1>3, <1>4, <2>5 DEF GatewayTypes, WireSet
  <2>9. WireOK'
    BY <1>3, <1>4, <1>5, <2>1, <2>4, <2>5 DEF WireOK
  <2>10. JudgedOK'
    <3>1. \A j \in judged : j.session = service.session => j.seq <= n + 1 /\ j.seq < n + 1
      BY <1>1, <1>5, <1>8
    <3>2. \A j \in judged : j.session = service.session =>
            \A i \in 1..Len(fs) : fs[i].seq # NoSeq => j.seq < fs[i].seq
      BY <1>0, <1>6, <2>6, <2>7, <3>1 DEF JudgedOK
    <3> QED BY <1>0, <1>3, <1>4, <1>5, <2>5, <3>1, <3>2 DEF JudgedOK
  <2> QED BY <1>7, <2>8, <2>9, <2>10 DEF GatewayInv
<1> QED BY <1>9, <1>10

\* The service and the network intervene.
LEMMA IntervenesStep == ASSUME GatewayInv, ServiceIntervenes PROVE GatewayInv'
<1>0. UNCHANGED <<loop, state, judged>>
  BY DEF ServiceIntervenes
<1>1. CASE \E f \in {Frame("beat", NoSeq, "ok"), Frame("reconnect", NoSeq, "ok"),
                     Frame("invalid", NoSeq, "resumable")} :
              wire' = [wire EXCEPT !.frames = Append(@, f)] /\ UNCHANGED service
  <2>1. PICK f \in {Frame("beat", NoSeq, "ok"), Frame("reconnect", NoSeq, "ok"),
                    Frame("invalid", NoSeq, "resumable")} :
              wire' = [wire EXCEPT !.frames = Append(@, f)] /\ UNCHANGED service
    BY <1>1
  <2>2. f \in FrameSet /\ f.seq = NoSeq /\ f.op \notin {"ready", "message"}
    BY DEF Frame, FrameSet, FrameOps, NoSeq
  <2>3. service \in [session : Nat, log : Seq({"ready"} \cup Senders), alive : BOOLEAN]
    BY DEF GatewayInv, GatewayTypes
  <2> QED BY <1>0, <2>1, <2>2, <2>3, PlainStep
<1>2. CASE /\ wire' = [wire EXCEPT !.frames = Append(@, Frame("invalid", NoSeq, "fresh"))]
           /\ service' = [service EXCEPT !.alive = FALSE]
  <2> DEFINE f == Frame("invalid", NoSeq, "fresh")
  <2>1. f \in FrameSet /\ f.seq = NoSeq /\ f.op \notin {"ready", "message"}
    BY DEF Frame, FrameSet, FrameOps, NoSeq
  <2>2. /\ service' \in [session : Nat, log : Seq({"ready"} \cup Senders), alive : BOOLEAN]
        /\ service'.session = service.session /\ service'.log = service.log /\ ~service'.alive
    BY <1>2 DEF GatewayInv, GatewayTypes
  <2> HIDE DEF f
  <2>3. wire' = [wire EXCEPT !.frames = Append(wire.frames, f)]
    BY <1>2 DEF f
  <2> QED BY <1>0, <2>1, <2>2, <2>3, PlainStep
<1>3. CASE /\ UNCHANGED service
           /\ wire' = Down \/ \E code \in CloseCauses : wire' = [wire EXCEPT !.close = code]
  BY <1>0, <1>3, HarmlessStep
<1> QED BY <1>1, <1>2, <1>3 DEF ServiceIntervenes

\* The heartbeat goroutine: its frames are not numbered.
LEMMA HeartbeatStep == ASSUME GatewayInv, Heartbeat PROVE GatewayInv'
<1>0. UNCHANGED <<loop, state, service, judged>>
  BY DEF Heartbeat
<1>1. CASE wire' = wire
  BY <1>0, <1>1, HarmlessStep
<1>2. CASE wire' = [wire EXCEPT !.frames = Append(@, Frame("ack", NoSeq, "ok"))]
  <2> DEFINE f == Frame("ack", NoSeq, "ok")
  <2>1. f \in FrameSet /\ f.seq = NoSeq /\ f.op \notin {"ready", "message"}
    BY DEF Frame, FrameSet, FrameOps, NoSeq
  <2>2. service \in [session : Nat, log : Seq({"ready"} \cup Senders), alive : BOOLEAN]
    BY DEF GatewayInv, GatewayTypes
  <2> HIDE DEF f
  <2>3. wire' = [wire EXCEPT !.frames = Append(wire.frames, f)]
    BY <1>2 DEF f
  <2> QED BY <1>0, <2>1, <2>2, <2>3, PlainStep
<1> QED BY <1>1, <1>2 DEF Heartbeat

\* The handshake, the failed handshake and the failed read.
LEMMA HandshakeStep ==
  ASSUME GatewayInv, SaysHello \/ HandshakeFails \/ ReadFails PROVE GatewayInv'
<1>1. CASE SaysHello
  <2>0. loop.pc = "hello" /\ UNCHANGED <<state, judged>> /\ loop.strategy \in {"identify", "resume"}
    BY <1>1 DEF SaysHello, GatewayInv, GatewayTypes
  <2>1. CASE loop.strategy = "resume"
    <3>1. AnswerResume(state.session, ResumeSeq)
      BY <1>1, <2>1 DEF SaysHello
    <3>2. loop' = [loop EXCEPT !.pc = "reading", !.connected = TRUE]
      BY <1>1, <2>1 DEF SaysHello
    <3> QED BY <2>0, <2>1, <3>1, <3>2, ResumeStep
  <2>2. CASE loop.strategy = "identify"
    <3>1. AnswerIdentify
      BY <1>1, <2>2 DEF SaysHello
    <3>2. loop' = [loop EXCEPT !.pc = "reading", !.connected = FALSE]
      BY <1>1, <2>2 DEF SaysHello
    <3> QED BY <2>0, <2>2, <3>1, <3>2, IdentifyStep
  <2> QED BY <2>0, <2>1, <2>2
<1>2. CASE HandshakeFails
  <2>1. PICK cause \in {"missing token", "network"} \cup CloseCauses : SessionEnds(cause)
    BY <1>2 DEF HandshakeFails
  <2>2. cause \in Causes /\ UNCHANGED <<service, judged>>
    BY <1>2 DEF Causes, HandshakeFails
  <2>3. Ended
    BY <2>1, <2>2, EndsWell
  <2> QED BY <2>3, EndStep
<1>3. CASE ReadFails
  <2>1. /\ UNCHANGED <<service, judged>>
        /\ \/ Unwinds(wire.close) \/ Unwinds("context") \/ Unwinds("network")
    BY <1>3 DEF ReadFails
  <2>2. "context" \in Causes /\ "network" \in Causes /\ wire.close \in Causes
    BY GatewayKinds DEF Causes, GatewayInv
  <2>3. Ended
    BY <2>1, <2>2, UnwindsWell
  <2> QED BY <2>3, EndStep
<1> QED BY <1>1, <1>2, <1>3

\* The frame at the head, what is left on the connection after it, and the number
\* that is stored.
HeadFrame == Head(wire.frames)
RestFrames == Tail(wire.frames)
StoredSeq == IF HeadFrame.seq # NoSeq THEN HeadFrame.seq ELSE state.seq

\* What the frame at the head may be.
HeadSays ==
  /\ HeadFrame \in FrameSet /\ HeadFrame.seq \in Nat
  /\ HeadFrame.seq # NoSeq => StoredSeq = state.seq + 1 /\ StoredSeq <= Len(service.log)
  /\ HeadFrame.op = "ready" => HeadFrame.seq = 1 /\ HeadFrame.data = service.session
  /\ HeadFrame.op = "message" => HeadFrame.seq > 1
  /\ HeadFrame.op \notin {"ready", "message"} => HeadFrame.seq = NoSeq

\* What is left after it.
RestSays ==
  /\ RestFrames \in Seq(FrameSet) /\ StoredSeq \in Nat
  /\ Numbered(RestFrames, StoredSeq, Len(service.log), service.session)
  /\ Carries => Complete(RestFrames, StoredSeq, Len(service.log))
  /\ \A j \in judged : j.session = service.session =>
       /\ HeadFrame.seq # NoSeq => j.seq < HeadFrame.seq
       /\ \A i \in 1..Len(RestFrames) :
            RestFrames[i].seq # NoSeq => j.seq < RestFrames[i].seq
  /\ HeadFrame.op # "invalid" /\ wire.up /\ wire.close = "none"
       /\ (\A i \in 1..Len(RestFrames) : RestFrames[i].op # "invalid") => Carries

\* Both follow from the invariant while the loop reads.
LEMMA HeadFacts ==
  ASSUME GatewayInv, loop.pc = "reading", wire.frames # << >>
  PROVE  HeadSays /\ RestSays
<1> DEFINE f == HeadFrame  t == RestFrames  s == StoredSeq
<1>0. GatewayTypes /\ WireOK /\ JudgedOK
  BY DEF GatewayInv
<1>1. wire.frames \in Seq(FrameSet) /\ state.seq \in Nat /\ Len(service.log) \in Nat
  BY <1>0, GatewayKinds
<1> DEFINE fs == wire.frames
<1>2. /\ Len(fs) \in Nat /\ 1 \in 1..Len(fs) /\ f = fs[1] /\ t \in Seq(FrameSet)
      /\ Len(t) = Len(fs) - 1 /\ DOMAIN fs = 1..Len(fs)
      /\ \A i \in 1..Len(t) : t[i] = fs[i + 1] /\ i + 1 \in 1..Len(fs)
      /\ \A i \in 1..Len(fs) : i = 1 \/ i - 1 \in 1..Len(t)
  BY <1>1 DEF HeadFrame, RestFrames
<1>3. f \in FrameSet /\ f.seq \in Nat
  BY <1>1, <1>2, FrameNumbers
<1>4. Numbered(fs, state.seq, Len(service.log), service.session)
  BY <1>0 DEF WireOK
<1>5. /\ s \in Nat /\ (f.seq # NoSeq => s = state.seq + 1 /\ s <= Len(service.log))
      /\ Numbered(t, s, Len(service.log), service.session)
      /\ Complete(fs, state.seq, Len(service.log)) => Complete(t, s, Len(service.log))
  <2>1. s = IF Head(fs).seq # NoSeq THEN Head(fs).seq ELSE state.seq
    BY DEF HeadFrame, StoredSeq
  <2>2. t = Tail(fs) /\ f = Head(fs) /\ fs # << >>
    BY DEF HeadFrame, RestFrames
  <2> HIDE DEF fs, f, t, s
  <2> QED BY SMTT(40), <1>1, <1>4, <2>1, <2>2, ReadingFrame DEF fs
<1>6. /\ f.op = "ready" => f.seq = 1 /\ f.data = service.session
      /\ f.op = "message" => f.seq > 1
      /\ f.op \notin {"ready", "message"} => f.seq = NoSeq
  BY <1>2, <1>4 DEF Numbered
<1>7. \A j \in judged : j.session = service.session =>
        \A i \in 1..Len(fs) : fs[i].seq # NoSeq => j.seq < fs[i].seq
  BY <1>0 DEF JudgedOK
<1>8. \A j \in judged : j.session = service.session =>
        /\ f.seq # NoSeq => j.seq < f.seq
        /\ \A i \in 1..Len(t) : t[i].seq # NoSeq => j.seq < t[i].seq
  BY <1>2, <1>7
<1>9. f.op # "invalid" /\ wire.up /\ wire.close = "none"
        /\ (\A i \in 1..Len(t) : t[i].op # "invalid") => Carries
  <2> SUFFICES ASSUME f.op # "invalid", wire.up, wire.close = "none",
                      \A i \in 1..Len(t) : t[i].op # "invalid"
               PROVE  \A i \in 1..Len(fs) : fs[i].op # "invalid"
    BY <1>2 DEF Carries
  <2> TAKE i \in 1..Len(fs)
  <2>1. CASE i = 1
    BY <1>2, <2>1
  <2>2. CASE i - 1 \in 1..Len(t)
    <3>1. t[i - 1] = fs[(i - 1) + 1] /\ (i - 1) + 1 = i
      BY <1>2, <2>2
    <3> QED BY <2>2, <3>1
  <2> QED BY <1>2, <2>1, <2>2
<1>10. Carries => Complete(t, s, Len(service.log))
  BY <1>0, <1>5 DEF WireOK
<1> QED BY <1>2, <1>3, <1>5, <1>6, <1>8, <1>9, <1>10 DEF HeadSays, RestSays

\* A frame has been read and the loop reads on: the types and the frames.
LEMMA ReadOn ==
  ASSUME GatewayInv, loop.pc = "reading",
         NEW STATE fs, fs \in Seq(FrameSet), wire' = [wire EXCEPT !.frames = fs],
         NEW STATE s, s \in Nat, state' \in [session : Nat, seq : Nat, self : BOOLEAN],
         state'.seq = s, service' = service, judged' \subseteq [session : Nat, seq : Nat, nth : {0}],
         \E b \in BOOLEAN : loop' = [loop EXCEPT !.connected = b],
         Numbered(fs, s, Len(service.log), service.session),
         Carries => Complete(fs, s, Len(service.log)),
         wire.up /\ wire.close = "none" /\ (\A i \in 1..Len(fs) : fs[i].op # "invalid") => Carries
  PROVE  GatewayTypes' /\ WireOK' /\ loop'.pc = "reading" /\ wire'.frames = fs
<1>0. GatewayTypes
  BY DEF GatewayInv
<1>1. wire' \in WireSet /\ wire'.frames = fs /\ (wire'.up <=> wire.up) /\ wire'.close = wire.close
  BY <1>0, SetFrames
<1>2. /\ loop' \in [pc : {"new", "top", "hello", "reading", "done"},
                    strategy : {"identify", "resume"}, connected : BOOLEAN, cause : Causes]
      /\ loop'.pc = "reading"
  BY <1>0 DEF GatewayTypes
<1>3. GatewayTypes'
  BY <1>0, <1>1, <1>2 DEF GatewayTypes, WireSet
<1>4. Carries' => Carries
  <2>1. DOMAIN fs = 1..Len(fs)
    OBVIOUS
  <2>2. Carries' => wire.up /\ wire.close = "none" /\ (\A i \in 1..Len(fs) : fs[i].op # "invalid")
    BY <1>1, <2>1 DEF Carries
  <2> QED BY <2>2
<1>5. WireOK'
  BY <1>1, <1>2, <1>4 DEF WireOK
<1> QED BY <1>1, <1>2, <1>3, <1>5

\* One frame, one step per kind of frame.
LEMMA ReadFrameStep == ASSUME GatewayInv, ReadFrame PROVE GatewayInv'
<1> DEFINE f == HeadFrame  t == RestFrames  s == StoredSeq
           st == IF f.seq # NoSeq THEN [state EXCEPT !.seq = f.seq] ELSE state
           on == [wire EXCEPT !.frames = Tail(@)]
<1>0. /\ GatewayTypes /\ SessionOK /\ JudgedOK
      /\ loop.pc = "reading" /\ wire.frames # << >> /\ service' = service
  BY DEF GatewayInv, ReadFrame
<1>1. /\ t \in Seq(FrameSet) /\ s \in Nat /\ f \in FrameSet /\ f.seq \in Nat
      /\ f.seq # NoSeq => s = state.seq + 1 /\ s <= Len(service.log)
      /\ Numbered(t, s, Len(service.log), service.session)
      /\ Carries => Complete(t, s, Len(service.log))
      /\ f.op = "ready" => f.seq = 1 /\ f.data = service.session
      /\ f.op = "message" => f.seq > 1
      /\ f.op \notin {"ready", "message"} => f.seq = NoSeq
      /\ \A j \in judged : j.session = service.session =>
           /\ f.seq # NoSeq => j.seq < f.seq
           /\ \A i \in 1..Len(t) : t[i].seq # NoSeq => j.seq < t[i].seq
      /\ f.op # "invalid" /\ wire.up /\ wire.close = "none"
           /\ (\A i \in 1..Len(t) : t[i].op # "invalid") => Carries
  BY <1>0, HeadFacts DEF HeadSays, RestSays
<1>2. /\ state.seq \in Nat /\ state.session \in Nat /\ service.session \in Nat
      /\ Len(service.log) \in Nat /\ \A j \in judged : j.session \in Nat /\ j.seq \in Nat
  BY <1>0, GatewayKinds
<1>3. state \in [session : Nat, seq : Nat, self : BOOLEAN] /\ wire.close \in {"none"} \cup CloseCauses
  BY <1>0 DEF GatewayTypes
<1>4. /\ \E b \in BOOLEAN : loop = [loop EXCEPT !.connected = b]
      /\ judged \subseteq [session : Nat, seq : Nat, nth : {0}]
  BY <1>0 DEF GatewayTypes
<1>5. CASE /\ f.op = "ready" /\ state' = [st EXCEPT !.session = f.data, !.self = TRUE]
           /\ loop' = [loop EXCEPT !.connected = TRUE] /\ wire' = on /\ UNCHANGED judged
  <2>1. f.seq = 1 /\ f.seq # NoSeq /\ f.data = service.session /\ s = 1 /\ 1 <= Len(service.log)
    BY <1>1, <1>5 DEF NoSeq, StoredSeq
  <2>2. /\ state' \in [session : Nat, seq : Nat, self : BOOLEAN]
        /\ state'.seq = 1 /\ state'.session = service.session
    <3>1. st = [state EXCEPT !.seq = 1]
      BY <2>1
    <3>2. st \in [session : Nat, seq : Nat, self : BOOLEAN] /\ st.seq = 1
      BY <1>3, <3>1
    <3>3. state' = [st EXCEPT !.session = service.session, !.self = TRUE]
      BY <1>5, <2>1
    <3> HIDE DEF st
    <3> QED BY <1>2, <3>2, <3>3
  <2> HIDE DEF f, t, s, st
  <2>3. wire' = [wire EXCEPT !.frames = t]
    BY <1>5 DEF t, RestFrames
  <2>4. state'.seq = s /\ \E b \in BOOLEAN : loop' = [loop EXCEPT !.connected = b]
    BY <1>5, <2>1, <2>2
  <2>5. wire.up /\ wire.close = "none" /\ (\A i \in 1..Len(t) : t[i].op # "invalid") => Carries
    BY <1>1, <1>5
  <2>6. GatewayTypes' /\ WireOK' /\ loop'.pc = "reading" /\ wire'.frames = t
    BY <1>0, <1>1, <1>4, <1>5, <2>2, <2>3, <2>4, <2>5, ReadOn
  <2>7. SessionOK'
    <3>1. service.session # NoSession
      BY <1>0, <1>2, <2>1 DEF SessionOK
    <3>2. 1 \in 1..Len(service.log)
      BY <1>2, <2>1
    <3> QED BY <1>0, <2>2, <2>6, <3>1, <3>2 DEF SessionOK
  <2>8. \A j \in judged : j.session # service.session
    <3>1. \A j \in judged : j.session = service.session => 1 < j.seq /\ j.seq < 1
      BY <1>0, <1>1, <2>1 DEF JudgedOK
    <3> QED BY <1>2, <3>1
  <2>9. JudgedOK'
    <3>1. 2..1 = {}
      OBVIOUS
    <3> QED BY <1>0, <1>5, <2>2, <2>8, <3>1 DEF JudgedOK
  <2> QED BY <2>6, <2>7, <2>9 DEF GatewayInv
<1>10. CASE f.op = "ready" /\ state' = st /\ wire' = on /\ UNCHANGED <<loop, judged>>
  <2>1. /\ f.seq = 1 /\ f.seq # NoSeq /\ s = 1 /\ s = state.seq + 1 /\ 1 <= Len(service.log)
        /\ state.seq = 0
    BY <1>1, <1>2, <1>10 DEF NoSeq, StoredSeq
  <2>2. state.session = NoSession /\ service.session # NoSession
    BY <1>0, <1>2, <2>1 DEF SessionOK
  <2>3. /\ state' \in [session : Nat, seq : Nat, self : BOOLEAN]
        /\ state'.seq = s /\ state'.session = NoSession
    BY <1>1, <1>3, <1>10, <2>1, <2>2
  <2> HIDE DEF f, t, s, st
  <2>4. wire' = [wire EXCEPT !.frames = t]
    BY <1>10 DEF t, RestFrames
  <2>5. wire.up /\ wire.close = "none" /\ (\A i \in 1..Len(t) : t[i].op # "invalid") => Carries
    BY <1>1, <1>10
  <2>6. GatewayTypes' /\ WireOK' /\ loop'.pc = "reading" /\ wire'.frames = t
    BY <1>0, <1>1, <1>4, <1>10, <2>3, <2>4, <2>5, ReadOn
  <2>7. SessionOK'
    BY <1>0, <2>1, <2>2, <2>3, <2>6 DEF SessionOK
  <2>8. JudgedOK'
    BY <1>0, <1>1, <1>10, <2>2, <2>3, <2>6 DEF JudgedOK
  <2> QED BY <2>6, <2>7, <2>8 DEF GatewayInv
<1>6. CASE /\ f.op \in {"resumed", "ack", "beat"} /\ state' = st /\ UNCHANGED judged
           /\ loop' = [loop EXCEPT !.connected = TRUE] \/ UNCHANGED loop
           /\ wire' = on \/ wire' = [on EXCEPT !.frames = Append(@, Frame("ack", NoSeq, "ok"))]
  <2>1. f.seq = NoSeq /\ s = state.seq /\ state' = state /\ f.op # "invalid"
    BY <1>1, <1>6 DEF StoredSeq
  <2> HIDE DEF f, s, st
  <2>2. \E b \in BOOLEAN : loop' = [loop EXCEPT !.connected = b]
    BY <1>4, <1>6
  <2> DEFINE ack == Frame("ack", NoSeq, "ok")
  <2>3. ack \in FrameSet /\ ack.seq = NoSeq /\ ack.op = "ack"
    BY DEF Frame, FrameSet, FrameOps, NoSeq
  <2>4. wire' = [wire EXCEPT !.frames = t] \/ wire' = [wire EXCEPT !.frames = Append(t, ack)]
    <3>1. on = [wire EXCEPT !.frames = t]
      BY DEF RestFrames
    <3>2. [on EXCEPT !.frames = Append(@, ack)] = [wire EXCEPT !.frames = Append(t, ack)]
      BY <1>0 DEF GatewayTypes, RestFrames
    <3> QED BY <1>6, <3>1, <3>2
  <2> HIDE DEF t, ack
  <2>5. ASSUME NEW STATE fs, fs = t \/ fs = Append(t, ack), wire' = [wire EXCEPT !.frames = fs]
        PROVE  GatewayInv'
    <3>1. /\ fs \in Seq(FrameSet) /\ Numbered(fs, s, Len(service.log), service.session)
          /\ Complete(t, s, Len(service.log)) => Complete(fs, s, Len(service.log))
      <4>1. /\ Append(t, ack) \in Seq(FrameSet)
            /\ Numbered(Append(t, ack), s, Len(service.log), service.session)
            /\ Complete(t, s, Len(service.log)) => Complete(Append(t, ack), s, Len(service.log))
        BY <1>1, <1>2, <2>3, PlainFrame
      <4> QED BY <1>1, <2>5, <4>1
    <3>2. /\ \A i \in 1..Len(t) : i \in 1..Len(fs) /\ fs[i] = t[i]
          /\ \A i \in 1..Len(fs) : i \in 1..Len(t) \/ fs[i] = ack
      <4>1. CASE fs = t
        BY <4>1
      <4>2. CASE fs = Append(t, ack)
        <5>1. /\ Len(t) \in Nat /\ Len(fs) = Len(t) + 1 /\ fs[Len(t) + 1] = ack
              /\ \A i \in 1..Len(t) : fs[i] = t[i]
          BY <1>1, <2>3, <4>2
        <5>2. \A i \in 1..Len(fs) : i \in 1..Len(t) \/ i = Len(t) + 1
          BY <5>1
        <5>3. \A i \in 1..Len(t) : i \in 1..Len(fs)
          BY <5>1
        <5> QED BY <5>1, <5>2, <5>3
      <4> QED BY <2>5, <4>1, <4>2
    <3>3. wire.up /\ wire.close = "none" /\ (\A i \in 1..Len(fs) : fs[i].op # "invalid") => Carries
      BY <1>1, <2>1, <3>2
    <3>4. GatewayTypes' /\ WireOK' /\ loop'.pc = "reading" /\ wire'.frames = fs
      BY ZenonT(60), <1>0, <1>1, <1>3, <1>4, <1>6, <2>1, <2>2, <2>5, <3>1, <3>3, ReadOn
    <3>5. SessionOK'
      BY <1>0, <2>1, <3>4 DEF SessionOK
    <3>6. \A j \in judged : j.session = service.session =>
            \A i \in 1..Len(fs) : fs[i].seq # NoSeq => j.seq < fs[i].seq
      BY <1>1, <2>3, <3>2
    <3>7. JudgedOK'
      BY <1>0, <1>6, <2>1, <3>4, <3>6 DEF JudgedOK
    <3> QED BY <3>4, <3>5, <3>7 DEF GatewayInv
  <2> QED BY <2>4, <2>5
<1>7. CASE f.op = "message" /\ Judge(f, loop.connected) /\ state' = st /\ wire' = on /\ UNCHANGED loop
  <2>1. /\ f.seq > 1 /\ f.seq # NoSeq /\ s = f.seq /\ s = state.seq + 1
        /\ s <= Len(service.log) /\ state.seq # NoSeq
    BY <1>1, <1>2, <1>7 DEF NoSeq, StoredSeq
  <2>2. /\ service.session # NoSession /\ state.session \in {NoSession, service.session}
        /\ state.session = NoSession => state.session # service.session
    <3>1. Len(service.log) > 0
      BY <1>1, <1>2, <2>1
    <3> QED BY <1>0, <3>1 DEF SessionOK
  <2>3. /\ state' \in [session : Nat, seq : Nat, self : BOOLEAN]
        /\ state'.seq = s /\ state'.session = state.session
    BY <1>1, <1>3, <1>7, <2>1
  <2> DEFINE jj == [session |-> service.session, seq |-> s, nth |-> 0]
  <2>4. judged' = judged \cup {jj}
    <3>1. {j \in judged : j.session = service.session /\ j.seq = f.seq} = {}
      <4>1. \A j \in judged : j.session = service.session => j.seq < f.seq
        BY <1>1, <2>1
      <4> QED BY <1>1, <1>2, <4>1
    <3>2. Cardinality({j \in judged : j.session = service.session /\ j.seq = f.seq}) = 0
      BY <3>1, FS_EmptySet
    <3>3. judged' = judged \cup
            {[session |-> service.session, seq |-> f.seq,
              nth |-> Cardinality({j \in judged : j.session = service.session /\ j.seq = f.seq})]}
      BY <1>7 DEF Judge
    <3> QED BY <2>1, <3>2, <3>3
  <2> HIDE DEF f, t, s, st
  <2>5. wire' = [wire EXCEPT !.frames = t]
    BY <1>7 DEF t, RestFrames
  <2>6. judged' \subseteq [session : Nat, seq : Nat, nth : {0}]
    BY <1>1, <1>2, <1>4, <2>4
  <2>7. wire.up /\ wire.close = "none" /\ (\A i \in 1..Len(t) : t[i].op # "invalid") => Carries
    BY <1>1, <1>7
  <2>8. GatewayTypes' /\ WireOK' /\ loop'.pc = "reading" /\ wire'.frames = t
    BY <1>0, <1>1, <1>4, <1>7, <2>3, <2>5, <2>6, <2>7, ReadOn
  <2>9. SessionOK'
    <3>1. s \in 1..Len(service.log)
      BY <1>1, <1>2, <2>1
    <3> QED BY <1>0, <2>2, <2>3, <2>8, <3>1 DEF SessionOK
  <2>10. JudgedOK'
    <3>1. \A i \in 1..Len(t) : t[i].seq # NoSeq => s < t[i].seq
      BY <1>1 DEF Numbered
    <3>2. jj.session = service.session /\ jj.seq = s /\ 1 < s /\ s <= s
      BY <1>1, <2>1
    <3>3. \A j \in judged : j.session = service.session =>
            1 < j.seq /\ j.seq <= Len(service.log) /\ j.seq <= s
      <4>1. \A j \in judged : j.session = service.session =>
              1 < j.seq /\ j.seq <= Len(service.log) /\ j.seq < s
        BY <1>0, <1>1, <2>1 DEF JudgedOK
      <4> QED BY <1>1, <1>2, <4>1
    <3>4. \A j \in judged' : j.session <= service.session
      BY <1>0, <1>2, <2>4, <3>2 DEF JudgedOK
    <3>5. \A j \in judged' : j.session = service.session =>
            /\ 1 < j.seq /\ j.seq <= Len(service.log) /\ j.seq <= s
            /\ \A i \in 1..Len(t) : t[i].seq # NoSeq => j.seq < t[i].seq
      BY <1>1, <2>1, <2>4, <3>1, <3>2, <3>3
    <3>6. state.session # NoSession =>
            \A i \in 2..s : \E j \in judged' : j.session = service.session /\ j.seq = i
      <4> SUFFICES ASSUME state.session # NoSession, NEW i \in 2..s
                   PROVE  \E j \in judged' : j.session = service.session /\ j.seq = i
        OBVIOUS
      <4>1. CASE i = s
        BY <2>4, <3>2, <4>1
      <4>2. CASE i # s
        <5>1. i \in 2..state.seq
          BY <1>1, <1>2, <2>1, <4>2
        <5> QED BY <1>0, <2>2, <2>4, <5>1 DEF JudgedOK
      <4> QED BY <4>1, <4>2
    <3> QED BY <1>0, <2>2, <2>3, <2>8, <3>4, <3>5, <3>6 DEF JudgedOK
  <2> QED BY <2>8, <2>9, <2>10 DEF GatewayInv
<1>8. CASE /\ Unwinds("network") \/ Unwinds("op7") \/ Unwinds("op9 fresh") \/ Unwinds("op9 resumable")
           /\ UNCHANGED judged
  <2>1. {"network", "op7", "op9 fresh", "op9 resumable"} \subseteq Causes
    BY DEF Causes
  <2>2. Ended
    BY <1>0, <1>8, <2>1, UnwindsWell
  <2> QED BY <2>2, EndStep
<1>9. CASE Unwinds(IF f.data = "fresh" THEN "op9 fresh" ELSE "op9 resumable") /\ UNCHANGED judged
  <2>1. (IF f.data = "fresh" THEN "op9 fresh" ELSE "op9 resumable") \in Causes
    BY DEF Causes
  <2>2. Ended
    BY <1>0, <1>9, <2>1, UnwindsWell
  <2> QED BY <2>2, EndStep
<1> QED BY <1>5, <1>6, <1>7, <1>8, <1>9, <1>10 DEF ReadFrame, HeadFrame

\* For any number of dials, events and interventions, and whatever drops, goes stale
\* or is invalidated: every message event up to the stored sequence number has been
\* judged exactly once.  The number is stored before the frame is handled, a Resume
\* names it, and a READY is never read over a session that is kept.
THEOREM EventsJudgedOnce == GatewaySpec => []EachEventJudgedOnce
<1>1. GatewayInit => GatewayInv
  BY GatewayBegins
<1>2. GatewayInv /\ [GatewayNext]_gatewayVars => GatewayInv'
  BY AsideStep, DialStep, HandshakeStep, ReadFrameStep, HeartbeatStep, SpeaksStep,
     IntervenesStep DEF GatewayNext
<1>3. ASSUME GatewayInv PROVE EachEventJudgedOnce
  <2>1. \A j \in judged : j.nth = 0
    BY <1>3, GatewayKinds DEF GatewayInv
  <2> QED BY <1>3, <2>1 DEF GatewayInv, JudgedOK, EachEventJudgedOnce
<1> QED BY <1>1, <1>2, <1>3, PTL DEF GatewaySpec

---------------------------------------------------------------------------
(* The router's deduplication window.                                       *)

Entries == [key : Events, seen : Int]

\* Every key of the window has one entry.
WindowOK(w) ==
  /\ w \in Seq(Entries)
  /\ \A i, j \in 1 .. Len(w) : w[i].key = w[j].key => i = j

\* The event's entry has this time, and only these events are in front of it.
Located(w, e, s, others) ==
  \E i \in 1 .. Len(w) : /\ w[i].key = e /\ w[i].seen = s
                         /\ \A j \in 1 .. i - 1 : w[j].key \in others

\* The entry a lookup finds is the one there is.
LEMMA EntryIsUnique ==
  ASSUME NEW w, WindowOK(w), NEW e, NEW i \in 1 .. Len(w), w[i].key = e
  PROVE  Knows(w, e) /\ Entry(w, e) = i
<1>1. DOMAIN w = 1 .. Len(w)
  BY DEF WindowOK
<1>2. Entry(w, e) \in DOMAIN w /\ w[Entry(w, e)].key = e
  BY <1>1 DEF Entry
<1> QED BY <1>1, <1>2 DEF WindowOK, Knows

\* Removing an entry closes the gap and moves nobody past anybody.
LEMMA WithoutWindow ==
  ASSUME NEW w, WindowOK(w), NEW key
  PROVE  /\ WindowOK(Without(w, key)) /\ ~Knows(Without(w, key), key)
         /\ ~Knows(w, key) => Without(w, key) = w
         /\ \A e : Knows(Without(w, key), e) => Knows(w, e)
         /\ \A e, s, others : e # key /\ Located(w, e, s, others)
                                => Located(Without(w, key), e, s, others)
<1>1. CASE ~Knows(w, key)
  BY <1>1 DEF Without
<1>2. CASE Knows(w, key)
  <2> DEFINE v == Without(w, key)
  <2>1. DOMAIN w = 1 .. Len(w) /\ Len(w) \in Nat /\ \A i \in 1 .. Len(w) : w[i] \in Entries
    BY DEF WindowOK
  <2>2. PICK p \in 1 .. Len(w) : p = Entry(w, key) /\ w[p].key = key
    BY <1>2, <2>1 DEF Knows, Entry
  <2> DEFINE a == SubSeq(w, 1, p - 1)
             b == SubSeq(w, p + 1, Len(w))
  <2>3. v = a \o b
    BY <1>2, <2>2 DEF Without
  <2>4. a \in Seq(Entries) /\ Len(a) = p - 1 /\ \A i \in 1 .. p - 1 : a[i] = w[i]
    <3>1. \A i \in 1 .. p - 1 : w[i] \in Entries
      BY <2>1
    <3> QED BY <3>1, <2>1, SubSeqProperties
  <2>5. b \in Seq(Entries) /\ Len(b) = Len(w) - p
        /\ \A i \in 1 .. Len(w) - p : b[i] = w[p + i]
    <3>1. \A i \in p + 1 .. Len(w) : w[i] \in Entries
      BY <2>1
    <3>2. p + 1 \in Int /\ Len(w) \in Int
      BY <2>1
    <3>3. /\ b \in Seq(Entries)
          /\ Len(b) = IF p + 1 <= Len(w) THEN Len(w) - (p + 1) + 1 ELSE 0
          /\ \A i \in 1 .. Len(w) - (p + 1) + 1 : b[i] = w[p + 1 + i - 1]
      BY <3>1, <3>2, SubSeqProperties
    <3> HIDE DEF b
    <3>4. Len(b) = Len(w) - p
      <4>1. Len(b) = IF p + 1 <= Len(w) THEN Len(w) - (p + 1) + 1 ELSE 0
        BY <3>3
      <4>2. Len(w) \in Nat /\ p \in Int /\ p <= Len(w)
        BY <2>1
      <4> QED BY <4>1, <4>2
    <3>5. ASSUME NEW i \in 1 .. Len(w) - p PROVE b[i] = w[p + i]
      <4>1. i \in 1 .. Len(w) - (p + 1) + 1 /\ p + 1 + i - 1 = p + i
        BY <2>1
      <4> QED BY <4>1, <3>3
    <3> QED BY <3>3, <3>4, <3>5
  <2>6. /\ v \in Seq(Entries) /\ Len(v) = Len(w) - 1
        /\ \A i \in 1 .. Len(w) - 1 : v[i] = IF i < p THEN w[i] ELSE w[i + 1]
    <3> HIDE DEF a, b, v
    <3>1. v \in Seq(Entries) /\ Len(v) = Len(w) - 1
      <4>1. v \in Seq(Entries) /\ Len(v) = Len(a) + Len(b)
        BY <2>3, <2>4, <2>5, ConcatProperties
      <4> QED BY <4>1, <2>1, <2>4, <2>5
    <3>2. \A i \in 1 .. Len(w) - 1 : v[i] = IF i <= p - 1 THEN a[i] ELSE b[i - (p - 1)]
      BY <2>1, <2>3, <2>4, <2>5, ConcatProperties
    <3>3. ASSUME NEW i \in 1 .. Len(w) - 1
          PROVE  v[i] = IF i < p THEN w[i] ELSE w[i + 1]
      <4>1. CASE i < p
        BY <4>1, <3>2, <2>4
      <4>2. CASE ~(i < p)
        <5>1. v[i] = b[i - (p - 1)] /\ i - (p - 1) \in 1 .. Len(w) - p
          BY <4>2, <3>2, <2>1
        <5> QED BY <5>1, <4>2, <2>5, <2>1
      <4> QED BY <4>1, <4>2
    <3> QED BY <3>1, <3>3
  <2> HIDE DEF a, b, v
  <2>7. WindowOK(v)
    <3> SUFFICES ASSUME NEW i \in 1 .. Len(v), NEW j \in 1 .. Len(v), v[i].key = v[j].key
                 PROVE  i = j
      BY <2>6 DEF WindowOK
    <3> QED BY SMTT(40), <2>6, <2>1 DEF WindowOK
  <2>8. DOMAIN v = 1 .. Len(v)
    BY <2>6
  <2>9. ~Knows(v, key)
    <3> SUFFICES ASSUME NEW i \in 1 .. Len(v), v[i].key = key PROVE FALSE
      BY <2>8 DEF Knows
    <3> QED BY <2>1, <2>2, <2>6 DEF WindowOK
  <2>10. \A e : Knows(v, e) => Knows(w, e)
    <3> SUFFICES ASSUME NEW e, NEW i \in 1 .. Len(v), v[i].key = e
                 PROVE  \E j \in 1 .. Len(w) : w[j].key = e
      BY <2>1, <2>8 DEF Knows
    <3>1. i \in 1 .. Len(w) - 1 /\ (v[i] = w[i] \/ v[i] = w[i + 1])
      BY <2>6
    <3>2. i \in 1 .. Len(w) /\ i + 1 \in 1 .. Len(w)
      BY <3>1, <2>1
    <3> QED BY <3>1, <3>2
  <2>11. ASSUME NEW e, NEW s, NEW others, e # key, Located(w, e, s, others)
         PROVE  Located(v, e, s, others)
    <3>1. PICK i \in 1 .. Len(w) : /\ w[i].key = e /\ w[i].seen = s
                                   /\ \A j \in 1 .. i - 1 : w[j].key \in others
      BY <2>11 DEF Located
    <3>2. i # p
      BY <2>2, <2>11, <3>1
    <3>3. CASE i < p
      <4>1. i \in 1 .. Len(v) /\ v[i] = w[i] /\ \A j \in 1 .. i - 1 : v[j] = w[j]
        BY <3>3, <2>1, <2>6
      <4> QED BY <4>1, <3>1 DEF Located
    <3>4. CASE i > p
      <4>1. i - 1 \in 1 .. Len(v) /\ v[i - 1] = w[i]
        BY <3>4, <2>1, <2>6
      <4>2. ASSUME NEW j \in 1 .. (i - 1) - 1 PROVE v[j].key \in others
        <5>1. v[j] = w[j] \/ v[j] = w[j + 1]
          BY <3>4, <2>1, <2>6
        <5> QED BY <5>1, <3>1
      <4> QED BY <4>1, <4>2, <3>1 DEF Located
    <3> QED BY <3>2, <3>3, <3>4, <2>1
  <2> QED BY <2>7, <2>9, <2>10, <2>11, <1>2 DEF v
<1> QED BY <1>1, <1>2

\* A new entry in front moves every other one back by one.
LEMMA FrontOfWindow ==
  ASSUME NEW r, WindowOK(r), NEW key \in Events, ~Knows(r, key), NEW now \in Int
  PROVE  LET p == <<[key |-> key, seen |-> now]>> \o r IN
         /\ WindowOK(p) /\ Located(p, key, now, {})
         /\ \A e : e # key /\ Knows(p, e) => Knows(r, e)
         /\ \A e, s, others : Located(r, e, s, others) => Located(p, e, s, others \cup {key})
<1> DEFINE x == [key |-> key, seen |-> now]
           p == <<x>> \o r
<1>1. r \in Seq(Entries) /\ DOMAIN r = 1 .. Len(r) /\ Len(r) \in Nat
  BY DEF WindowOK
<1>2. <<x>> \in Seq(Entries) /\ Len(<<x>>) = 1 /\ <<x>>[1] = x
  BY DEF Entries
<1>3. p \in Seq(Entries) /\ Len(p) = Len(r) + 1
  BY <1>1, <1>2, ConcatProperties
<1>4. p[1] = x /\ \A i \in 2 .. Len(p) : p[i] = r[i - 1] /\ i - 1 \in 1 .. Len(r)
  <2>1. \A i \in 1 .. 1 + Len(r) : p[i] = IF i <= 1 THEN <<x>>[i] ELSE r[i - 1]
    <3> HIDE DEF x
    <3> QED BY <1>1, <1>2, ConcatProperties
  <2> HIDE DEF x, p
  <2> QED BY <2>1, <1>1, <1>2, <1>3
<1>5. x.key = key /\ x.seen = now
  OBVIOUS
<1> HIDE DEF x, p
<1>6. DOMAIN p = 1 .. Len(p)
  BY <1>3
<1>7. \A i \in 1 .. Len(r) : r[i].key # key
  BY <1>1 DEF Knows
<1>8. WindowOK(p)
  <2> SUFFICES ASSUME NEW i \in 1 .. Len(p), NEW j \in 1 .. Len(p), p[i].key = p[j].key
               PROVE  i = j
    BY <1>3 DEF WindowOK
  <2>1. CASE i = 1 \/ j = 1
    BY <2>1, <1>1, <1>3, <1>4, <1>5, <1>7
  <2>2. CASE i # 1 /\ j # 1
    <3>1. i - 1 = j - 1
      BY <2>2, <1>1, <1>3, <1>4 DEF WindowOK
    <3> QED BY <3>1
  <2> QED BY <2>1, <2>2
<1>9. Located(p, key, now, {})
  <2>1. 1 \in 1 .. Len(p) /\ \A j \in 1 .. 1 - 1 : p[j].key \in {}
    BY <1>1, <1>3
  <2> QED BY <2>1, <1>4, <1>5 DEF Located
<1>10. ASSUME NEW e, e # key, Knows(p, e) PROVE Knows(r, e)
  <2>1. PICK i \in 1 .. Len(p) : p[i].key = e
    BY <1>10, <1>6 DEF Knows
  <2>2. i \in 2 .. Len(p)
    BY <2>1, <1>10, <1>4, <1>5
  <2> QED BY <2>1, <2>2, <1>4, <1>1 DEF Knows
<1>11. ASSUME NEW e, NEW s, NEW others, Located(r, e, s, others)
       PROVE  Located(p, e, s, others \cup {key})
  <2>1. PICK i \in 1 .. Len(r) : /\ r[i].key = e /\ r[i].seen = s
                                 /\ \A j \in 1 .. i - 1 : r[j].key \in others
    BY <1>11 DEF Located
  <2>2. i + 1 \in 2 .. Len(p) /\ i + 1 \in 1 .. Len(p) /\ (i + 1) - 1 = i
    BY <1>1, <1>3
  <2>3. p[i + 1] = r[i]
    BY <2>2, <1>4
  <2>4. ASSUME NEW j \in 1 .. (i + 1) - 1 PROVE p[j].key \in others \cup {key}
    <3>1. CASE j = 1
      BY <3>1, <1>4, <1>5
    <3>2. CASE j # 1
      <4>1. j \in 2 .. Len(p) /\ j - 1 \in 1 .. i - 1
        BY <3>2, <2>2, <1>1, <1>3
      <4> QED BY <4>1, <1>4, <2>1
    <3> QED BY <3>1, <3>2
  <2> QED BY <2>1, <2>2, <2>3, <2>4 DEF Located
<1> QED BY <1>8, <1>9, <1>10, <1>11 DEF p, x

\* The oldest entry of a full window gives way to a new key only when the window's
\* worth of other events came in since.
LEMMA OldestLeaves ==
  ASSUME NEW w, WindowOK(w), NEW key, ~Knows(w, key), Len(w) >= DedupCapacity
  PROVE  LET r == SubSeq(w, 1, Len(w) - 1) IN
         /\ WindowOK(r)
         /\ \A e : Knows(r, e) => Knows(w, e)
         /\ \A e, s, others :
              Located(w, e, s, others) /\ IsFiniteSet(others) =>
                \/ Located(r, e, s, others)
                \/ Cardinality(others \cup {key}) >= DedupCapacity
<1> DEFINE r == SubSeq(w, 1, Len(w) - 1)
<1>1. /\ DOMAIN w = 1 .. Len(w) /\ Len(w) \in Nat /\ Len(w) >= 1
      /\ \A i \in 1 .. Len(w) : w[i] \in Entries
  BY RouterAssumption DEF WindowOK
<1>2. r \in Seq(Entries) /\ Len(r) = Len(w) - 1 /\ \A i \in 1 .. Len(w) - 1 : r[i] = w[i]
  <2>1. \A i \in 1 .. Len(w) - 1 : w[i] \in Entries
    BY <1>1
  <2> QED BY <2>1, <1>1, SubSeqProperties
<1> HIDE DEF r
<1>3. DOMAIN r = 1 .. Len(r)
  BY <1>2
<1>4. WindowOK(r)
  BY SMTT(40), <1>1, <1>2 DEF WindowOK
<1>5. ASSUME NEW e, Knows(r, e) PROVE Knows(w, e)
  BY <1>5, <1>1, <1>2, <1>3 DEF Knows
<1>6. ASSUME NEW e, NEW s, NEW others, Located(w, e, s, others), IsFiniteSet(others),
             ~Located(r, e, s, others)
      PROVE  Cardinality(others \cup {key}) >= DedupCapacity
  <2>1. PICK i \in 1 .. Len(w) : /\ w[i].key = e /\ w[i].seen = s
                                 /\ \A j \in 1 .. i - 1 : w[j].key \in others
    BY <1>6 DEF Located
  <2>2. i = Len(w)
    <3> SUFFICES ASSUME i # Len(w) PROVE Located(r, e, s, others)
      BY <1>6
    <3>1. i \in 1 .. Len(r) /\ r[i] = w[i] /\ \A j \in 1 .. i - 1 : r[j] = w[j]
      BY <1>1, <1>2
    <3> QED BY <3>1, <2>1 DEF Located
  <2> DEFINE T == others \cup {key}
             f == [j \in 1 .. Len(w) |-> IF j < Len(w) THEN w[j].key ELSE key]
  <2>3. f \in Injection(1 .. Len(w), T)
    <3>1. \A j \in 1 .. Len(w) : f[j] \in T
      BY <2>1, <2>2, <1>1
    <3>2. \A j \in 1 .. Len(w) : w[j].key # key
      BY <1>1 DEF Knows
    <3>3. \A j, k \in 1 .. Len(w) : f[j] = f[k] => j = k
      <4> SUFFICES ASSUME NEW j \in 1 .. Len(w), NEW k \in 1 .. Len(w), f[j] = f[k]
                   PROVE  j = k
        OBVIOUS
      <4>1. j < Len(w) <=> k < Len(w)
        BY <3>2
      <4> QED BY <4>1, <1>1 DEF WindowOK
    <3> QED BY <3>1, <3>3 DEF Injection, IsInjective
  <2>4. IsFiniteSet(T)
    BY <1>6, FS_AddElement
  <2>5. Cardinality(1 .. Len(w)) <= Cardinality(T)
    <3> HIDE DEF f, T
    <3> QED BY <2>3, <2>4, FS_Injection
  <2>6. Cardinality(1 .. Len(w)) = Len(w)
    BY <1>1, FS_Interval
  <2>7. Cardinality(T) \in Nat
    BY <2>4, FS_CardinalityType
  <2> HIDE DEF T
  <2>8. Cardinality(T) >= DedupCapacity
    BY <2>5, <2>6, <2>7, <1>1, RouterAssumption
  <2> QED BY <2>8 DEF T
<1> QED BY <1>4, <1>5, <1>6 DEF r

\* What one look at the window does: the event is in front with the time of the look,
\* and every other one is where it was, behind one more, unless it was crowded out.
LEMMA SeenWindow ==
  ASSUME NEW w, WindowOK(w), NEW key \in Events, NEW now \in Int
  PROVE  /\ WindowOK(seen(w, key, now)) /\ Located(seen(w, key, now), key, now, {})
         /\ \A e : e # key /\ Knows(seen(w, key, now), e) => Knows(w, e)
         /\ \A e, s, others :
              e # key /\ Located(w, e, s, others) /\ IsFiniteSet(others) =>
                \/ Located(seen(w, key, now), e, s, others \cup {key})
                \/ Cardinality(others \cup {key}) >= DedupCapacity
<1> DEFINE rest == Without(w, key)
           front == SubSeq(rest, 1, Len(rest) - 1)
           x == [key |-> key, seen |-> now]
<1>1. CASE ~Knows(w, key) /\ Len(w) >= DedupCapacity
  <2>1. rest = w
    BY <1>1, WithoutWindow
  <2>2. /\ WindowOK(front)
        /\ \A e : Knows(front, e) => Knows(w, e)
        /\ \A e, s, others :
             Located(w, e, s, others) /\ IsFiniteSet(others) =>
               \/ Located(front, e, s, others)
               \/ Cardinality(others \cup {key}) >= DedupCapacity
    BY <1>1, <2>1, OldestLeaves
  <2>3. seen(w, key, now) = <<x>> \o front
    BY <1>1 DEF seen
  <2> HIDE DEF front, rest
  <2>4. ~Knows(front, key)
    BY <1>1, <2>2
  <2>5. LET p == <<[key |-> key, seen |-> now]>> \o front IN
        /\ WindowOK(p) /\ Located(p, key, now, {})
        /\ \A e : e # key /\ Knows(p, e) => Knows(front, e)
        /\ \A e, s, others : Located(front, e, s, others) => Located(p, e, s, others \cup {key})
    BY <2>2, <2>4, FrontOfWindow
  <2> QED BY <2>2, <2>3, <2>5
<1>2. CASE ~(~Knows(w, key) /\ Len(w) >= DedupCapacity)
  <2>1. /\ WindowOK(rest) /\ ~Knows(rest, key)
        /\ \A e : Knows(rest, e) => Knows(w, e)
        /\ \A e, s, others : e # key /\ Located(w, e, s, others)
                               => Located(rest, e, s, others)
    BY WithoutWindow
  <2>2. seen(w, key, now) = <<x>> \o rest
    BY <1>2 DEF seen
  <2> HIDE DEF front, rest
  <2>3. LET p == <<[key |-> key, seen |-> now]>> \o rest IN
        /\ WindowOK(p) /\ Located(p, key, now, {})
        /\ \A e : e # key /\ Knows(p, e) => Knows(rest, e)
        /\ \A e, s, others : Located(rest, e, s, others) => Located(p, e, s, others \cup {key})
    BY <2>1, FrontOfWindow
  <2> QED BY <2>1, <2>2, <2>3
<1> QED BY <1>1, <1>2


---------------------------------------------------------------------------
(* The dispatchers and the window.                                          *)

\* Between the look at the window and the verdict on the message.
PreSteps == {"expire", "cut", "command", "gate", "enqueue"}
PathSteps == PreSteps \cup {"notify", "dedup", "reply", "import"}

\* What a dispatcher carries; only a channel's pump brings a provider's event.
Bears(t, m) ==
  /\ DOMAIN m = {"event", "conv", "kind", "brain"}
  /\ m.event \in (IF t = Pump THEN Events \cup {NoEvent} ELSE {NoEvent})

\* Every goroutine has a place, and a dispatcher that is busy carries a message.
Seats ==
  /\ DOMAIN at = Threads
  /\ \A t \in Dispatchers :
       /\ at[t].step \in PathSteps \cup {"idle", "gone"}
       /\ at[t].step \in PathSteps => Bears(t, at[t].work)

DedupTypes ==
  /\ WindowOK(window) /\ clock \in Int
  /\ sighted \in [Events -> [at : Int, others : SUBSET Events, passed : Nat]]
  /\ verdict \in [Events -> [taken : Nat, repeats : Nat]]

\* The pump has looked the event up and has not settled it yet.
Holding(e) == at[Pump].step \in PreSteps /\ at[Pump].work.event = e

\* The window against what became of the event: what it knows was taken or is in
\* hand, and it knows the event still unless its last dispatch was forgotten or the
\* window's worth of others came in since.
Tracked(e) ==
  /\ IsFiniteSet(sighted[e].others)
  /\ Knows(window, e) /\ ~Holding(e) => verdict[e].taken > 0
  /\ verdict[e].repeats > 0 => verdict[e].taken > 0
  /\ verdict[e].taken <= sighted[e].passed
  /\ Holding(e) => verdict[e].taken < sighted[e].passed
  /\ sighted[e].passed > 0 /\ (verdict[e].taken = sighted[e].passed \/ Holding(e)) =>
       \/ Cardinality(sighted[e].others) >= DedupCapacity
       \/ Located(window, e, sighted[e].at, sighted[e].others)

DedupInv == Seats /\ DedupTypes /\ \A e \in Events : Tracked(e)

\* The router starts with an empty window.
LEMMA RouterBegins == RouterInit => DedupInv
<1> SUFFICES ASSUME RouterInit PROVE DedupInv
  OBVIOUS
<1>1. Seats
  BY DEF RouterInit, Seats, Threads, Dispatchers, Waiting, PathSteps, PreSteps
<1>2. WindowOK(window) /\ \A e : ~Knows(window, e)
  BY DEF RouterInit, WindowOK, Knows
<1>3. DedupTypes
  BY <1>2 DEF RouterInit, DedupTypes
<1>4. \A e : ~Holding(e)
  BY DEF RouterInit, Holding, PreSteps, Waiting, Threads, Dispatchers
<1>5. ASSUME NEW e \in Events PROVE Tracked(e)
  <2>1. sighted[e].others = {} /\ sighted[e].passed = 0 /\ verdict[e].taken = 0
        /\ verdict[e].repeats = 0
    BY DEF RouterInit
  <2> QED BY <2>1, <1>2, <1>4, FS_EmptySet DEF Tracked
<1> QED BY <1>1, <1>3, <1>5 DEF DedupInv

\* A dispatcher moves; the other one stays.
LEMMA DispatcherMoves ==
  ASSUME Seats, NEW t \in Dispatchers, NEW x, Goes(t, x),
         x.step \in PathSteps \cup {"idle", "gone"},
         x.step \in PathSteps => Bears(t, x.work)
  PROVE  Seats' /\ at'[t] = x /\ (t # Pump => at'[Pump] = at[Pump])
<1>1. t \in Threads /\ DOMAIN at' = Threads /\ at'[t] = x
  BY DEF Seats, Goes, Threads
<1>2. \A u \in Dispatchers : u # t => at'[u] = at[u]
  BY DEF Seats, Goes, Threads
<1>3. Seats'
  <2> SUFFICES ASSUME NEW u \in Dispatchers
               PROVE  /\ at'[u].step \in PathSteps \cup {"idle", "gone"}
                      /\ at'[u].step \in PathSteps => Bears(u, at'[u].work)
    BY <1>1 DEF Seats
  <2>1. CASE u = t
    BY <2>1, <1>1
  <2>2. CASE u # t
    BY <2>2, <1>2 DEF Seats
  <2> QED BY <2>1, <2>2
<1> QED BY <1>1, <1>2, <1>3 DEF Dispatchers

\* Somebody else moves.
LEMMA OthersMove ==
  ASSUME Seats, NEW u \in Threads \ Dispatchers, NEW x, Goes(u, x)
  PROVE  Seats' /\ at'[Pump] = at[Pump]
<1>1. DOMAIN at' = Threads /\ \A d \in Dispatchers : at'[d] = at[d]
  BY DEF Seats, Goes, Threads
<1>2. Seats'
  BY <1>1 DEF Seats
<1> QED BY <1>1, <1>2 DEF Dispatchers

\* A step that decides nothing about any event.
Quiet ==
  /\ Seats' /\ clock' \in Int
  /\ UNCHANGED <<window, sighted, verdict>>
  /\ \A e \in Events : Holding(e)' <=> Holding(e)

\* A step that takes the message a dispatcher holds.
Takes(t) ==
  /\ Seats' /\ at[t].step \in PreSteps /\ at'[t].step \notin PreSteps
  /\ t # Pump => at'[Pump] = at[Pump]
  /\ Taken(at[t].work)
  /\ UNCHANGED <<window, sighted, clock>>

\* A step that lets it go.
LetsGo(t) ==
  /\ Seats' /\ at[t].step \in PreSteps /\ at'[t].step \notin PreSteps
  /\ t # Pump => at'[Pump] = at[Pump]
  /\ dedupForget(at[t].work)
  /\ UNCHANGED <<sighted, verdict, clock>>

LEMMA QuietStep ==
  ASSUME DedupInv, Quiet
  PROVE  DedupInv'
<1>1. DedupTypes'
  BY DEF DedupInv, DedupTypes, Quiet
<1>2. ASSUME NEW e \in Events PROVE Tracked(e)'
  <2>1. Tracked(e) /\ (Holding(e)' <=> Holding(e))
    BY DEF DedupInv, Quiet
  <2>2. window' = window /\ sighted' = sighted /\ verdict' = verdict
    BY DEF Quiet
  <2> QED BY <2>1, <2>2 DEF Tracked, Knows, Located
<1> QED BY <1>1, <1>2 DEF DedupInv, Quiet

\* The one that settles a message has it in hand; what it settles is the pump's event
\* or nobody's.
LEMMA InHand ==
  ASSUME DedupInv, NEW t \in Dispatchers, at[t].step \in PreSteps,
         at'[t].step \notin PreSteps, t # Pump => at'[Pump] = at[Pump]
  PROVE  LET k == at[t].work.event IN
         /\ k = NoEvent => \A e \in Events : Holding(e)' <=> Holding(e)
         /\ k # NoEvent => k \in Events /\ t = Pump
         /\ k # NoEvent => \A e \in Events : ~Holding(e)' /\ (Holding(e) <=> e = k)
<1>1. Bears(t, at[t].work)
  BY DEF DedupInv, Seats, PathSteps
<1>2. NoEvent \notin Events
  BY DEF Events
<1> QED BY <1>1, <1>2 DEF Bears, Holding

LEMMA TakesStep ==
  ASSUME DedupInv, NEW t \in Dispatchers, Takes(t)
  PROVE  DedupInv'
<1> DEFINE k == at[t].work.event
<1>1. /\ k = NoEvent => \A e \in Events : Holding(e)' <=> Holding(e)
      /\ k # NoEvent => k \in Events /\ t = Pump
      /\ k # NoEvent => \A e \in Events : ~Holding(e)' /\ (Holding(e) <=> e = k)
  BY InHand DEF Takes
<1>2. CASE k = NoEvent
  <2>1. Quiet
    BY <1>1, <1>2 DEF Takes, Taken, Quiet, DedupInv, DedupTypes
  <2> QED BY <2>1, QuietStep
<1>3. CASE k # NoEvent
  <2>1. verdict' = [verdict EXCEPT ![k].taken = @ + 1]
    BY <1>3 DEF Takes, Taken
  <2>2. window' = window /\ sighted' = sighted /\ clock' = clock /\ Seats'
    BY DEF Takes
  <2>3. k \in Events /\ \A e \in Events : ~Holding(e)' /\ (Holding(e) <=> e = k)
    BY <1>1, <1>3
  <2> HIDE DEF k
  <2>4. verdict \in [Events -> [taken : Nat, repeats : Nat]]
    BY DEF DedupInv, DedupTypes
  <2>5. verdict' \in [Events -> [taken : Nat, repeats : Nat]]
        /\ verdict'[k].taken = verdict[k].taken + 1 /\ verdict'[k].repeats = verdict[k].repeats
        /\ \A e \in Events : e # k => verdict'[e] = verdict[e]
    BY <2>1, <2>3, <2>4
  <2>6. DedupTypes'
    BY <2>2, <2>5 DEF DedupInv, DedupTypes
  <2>7. ASSUME NEW e \in Events PROVE Tracked(e)'
    <3>1. Tracked(e) /\ (Holding(e) <=> e = k) /\ ~Holding(e)'
      BY <2>3 DEF DedupInv
    <3>2. verdict[e].taken \in Nat /\ sighted[e].passed \in Nat
      BY <2>4 DEF DedupInv, DedupTypes
    <3>3. CASE e = k
      BY <3>1, <3>2, <3>3, <2>2, <2>5 DEF Tracked, Knows, Located
    <3>4. CASE e # k
      BY <3>1, <3>2, <3>4, <2>2, <2>5 DEF Tracked, Knows, Located
    <3> QED BY <3>3, <3>4
  <2> QED BY <2>2, <2>6, <2>7 DEF DedupInv
<1> QED BY <1>2, <1>3

LEMMA LetsGoStep ==
  ASSUME DedupInv, NEW t \in Dispatchers, LetsGo(t)
  PROVE  DedupInv'
<1> DEFINE k == at[t].work.event
<1>1. /\ k = NoEvent => \A e \in Events : Holding(e)' <=> Holding(e)
      /\ k # NoEvent => k \in Events /\ t = Pump
      /\ k # NoEvent => \A e \in Events : ~Holding(e)' /\ (Holding(e) <=> e = k)
  BY InHand DEF LetsGo
<1>2. CASE k = NoEvent
  <2>1. Quiet
    BY <1>1, <1>2 DEF LetsGo, dedupForget, forget, Quiet, DedupInv, DedupTypes
  <2> QED BY <2>1, QuietStep
<1>3. CASE k # NoEvent
  <2>1. window' = Without(window, k)
    BY <1>3 DEF LetsGo, dedupForget, forget
  <2>2. sighted' = sighted /\ verdict' = verdict /\ clock' = clock /\ Seats'
    BY DEF LetsGo
  <2>3. k \in Events /\ \A e \in Events : ~Holding(e)' /\ (Holding(e) <=> e = k)
    BY <1>1, <1>3
  <2> HIDE DEF k
  <2>4. WindowOK(window)
    BY DEF DedupInv, DedupTypes
  <2>5. PICK v : v = Without(window, k)
    OBVIOUS
  <2>6. /\ WindowOK(v) /\ ~Knows(v, k)
        /\ \A e : Knows(v, e) => Knows(window, e)
        /\ \A e, s, others : e # k /\ Located(window, e, s, others)
                               => Located(v, e, s, others)
    BY <2>4, <2>5, WithoutWindow
  <2>7. window' = v
    BY <2>1, <2>5
  <2>8. DedupTypes'
    BY <2>2, <2>6, <2>7 DEF DedupInv, DedupTypes, WindowOK
  <2>9. ASSUME NEW e \in Events PROVE Tracked(e)'
    <3>1. Tracked(e) /\ (Holding(e) <=> e = k) /\ ~Holding(e)'
      BY <2>3 DEF DedupInv
    <3>2. verdict[e].taken \in Nat /\ sighted[e].passed \in Nat
      BY DEF DedupInv, DedupTypes
    <3>3. Knows(window, e)' <=> Knows(v, e)
      BY <2>7 DEF Knows
    <3>4. Located(window, e, sighted[e].at, sighted[e].others)'
            <=> Located(v, e, sighted[e].at, sighted[e].others)
      BY <2>7, <2>2 DEF Located
    <3>5. CASE e = k
      BY <3>1, <3>2, <3>3, <3>5, <2>2, <2>6 DEF Tracked
    <3>6. CASE e # k
      BY <3>1, <3>2, <3>3, <3>4, <3>6, <2>2, <2>6 DEF Tracked
    <3> QED BY <3>5, <3>6
  <2> QED BY <2>2, <2>8, <2>9 DEF DedupInv
<1> QED BY <1>2, <1>3

\* The look at the window: the event it dispatches was not dropped for a reason, and
\* what it drops was taken before.
LEMMA DedupStep ==
  ASSUME DedupInv, NEW t \in Dispatchers, Dedup(t)
  PROVE  /\ DedupInv'
         /\ \A e \in Events :
              sighted'[e].passed > sighted[e].passed /\ sighted[e].passed > 0 =>
                \/ clock - sighted[e].at > DedupTTL
                \/ Cardinality(sighted[e].others) >= DedupCapacity
                \/ verdict[e].taken < sighted[e].passed
<1>1. PICK m : m = at[t].work
  OBVIOUS
<1>2. at[t].step = "dedup" /\ Bears(t, m) /\ clock' = clock
  BY <1>1 DEF Dedup, Is, DedupInv, Seats, PathSteps
<1>3. NoEvent \notin Events
  BY DEF Events
<1>4. CASE m.event = NoEvent
  <2>1. Goes(t, Doing("expire", m)) /\ UNCHANGED <<window, sighted, verdict>>
    BY <1>1, <1>4 DEF Dedup
  <2>2. Seats' /\ at'[t] = Doing("expire", m) /\ (t # Pump => at'[Pump] = at[Pump])
    <3>1. PICK x : x = Doing("expire", m)
      OBVIOUS
    <3>2. x.step = "expire" /\ x.work = m
      BY <3>1 DEF Doing
    <3> QED BY <3>1, <3>2, <2>1, <1>2, DispatcherMoves DEF DedupInv, PathSteps, PreSteps
  <2>3. \A e \in Events : Holding(e)' <=> Holding(e)
    BY <2>2, <1>2, <1>3, <1>4 DEF Holding, Doing, PreSteps
  <2>4. Quiet
    BY <1>2, <2>1, <2>2, <2>3 DEF Quiet, DedupInv, DedupTypes
  <2>5. sighted' = sighted /\ sighted \in [Events -> [at : Int, others : SUBSET Events, passed : Nat]]
    BY <2>1 DEF DedupInv, DedupTypes
  <2> QED BY <2>4, <2>5, QuietStep
<1>5. CASE m.event # NoEvent
  <2>1. PICK k : k = m.event
    OBVIOUS
  <2>2. k \in Events /\ t = Pump
    BY <1>2, <1>5, <2>1 DEF Bears
  <2>3. PICK repeat \in BOOLEAN : repeat <=> IsRepeat(window, k, clock)
    OBVIOUS
  <2>4. /\ window' = seen(window, k, clock)
        /\ sighted' = [e \in Events |->
             IF e = k THEN [at |-> clock, others |-> {},
                            passed |-> sighted[e].passed + (IF repeat THEN 0 ELSE 1)]
             ELSE [sighted[e] EXCEPT !.others = @ \cup {k}]]
        /\ verdict' = IF repeat THEN [verdict EXCEPT ![k].repeats = @ + 1] ELSE verdict
        /\ Goes(t, IF repeat THEN Waiting ELSE Doing("expire", m))
    BY <1>1, <1>5, <2>1, <2>3 DEF Dedup
  <2>5. Seats' /\ at'[Pump] = IF repeat THEN Waiting ELSE Doing("expire", m)
    <3>1. PICK x : x = IF repeat THEN Waiting ELSE Doing("expire", m)
      OBVIOUS
    <3>2. IF repeat THEN x.step = "idle" ELSE x.step = "expire" /\ x.work = m
      BY <3>1 DEF Doing, Waiting
    <3>3. /\ x.step \in PathSteps \cup {"idle", "gone"}
          /\ x.step \in PathSteps => Bears(t, x.work)
      BY <3>2, <1>2 DEF PathSteps, PreSteps
    <3> QED BY <3>1, <3>3, <2>2, <2>4, DispatcherMoves DEF DedupInv
  <2>6. \A e \in Events : ~Holding(e) /\ (Holding(e)' <=> ~repeat /\ e = k)
    BY <1>2, <2>1, <2>2, <2>5 DEF Holding, Doing, Waiting, PreSteps
  <2>7. /\ WindowOK(window) /\ clock \in Int
        /\ sighted \in [Events -> [at : Int, others : SUBSET Events, passed : Nat]]
        /\ verdict \in [Events -> [taken : Nat, repeats : Nat]]
        /\ \A e \in Events : Tracked(e)
    BY DEF DedupInv, DedupTypes
  <2>8. PICK v : v = seen(window, k, clock)
    OBVIOUS
  <2>9. /\ WindowOK(v) /\ Located(v, k, clock, {})
        /\ \A e : e # k /\ Knows(v, e) => Knows(window, e)
        /\ \A e, s, others :
             e # k /\ Located(window, e, s, others) /\ IsFiniteSet(others) =>
               \/ Located(v, e, s, others \cup {k})
               \/ Cardinality(others \cup {k}) >= DedupCapacity
    BY <2>2, <2>7, <2>8, SeenWindow
  <2>10. window' = v
    BY <2>4, <2>8
  <2>11. /\ sighted' \in [Events -> [at : Int, others : SUBSET Events, passed : Nat]]
         /\ sighted'[k].at = clock /\ sighted'[k].others = {}
         /\ sighted'[k].passed = sighted[k].passed + (IF repeat THEN 0 ELSE 1)
         /\ \A e \in Events : e # k =>
              /\ sighted'[e].at = sighted[e].at /\ sighted'[e].passed = sighted[e].passed
              /\ sighted'[e].others = sighted[e].others \cup {k}
    BY <2>2, <2>4, <2>7
  <2>12. /\ verdict' \in [Events -> [taken : Nat, repeats : Nat]]
         /\ \A e \in Events : verdict'[e].taken = verdict[e].taken
         /\ \A e \in Events : e # k \/ ~repeat => verdict'[e].repeats = verdict[e].repeats
    BY <2>2, <2>4, <2>7
  <2>13. DedupTypes'
    BY <1>2, <2>7, <2>9, <2>10, <2>11, <2>12 DEF DedupTypes, WindowOK
  <2>14. repeat => verdict[k].taken > 0
    BY <2>2, <2>3, <2>6, <2>7 DEF IsRepeat, Tracked
  <2>15. ASSUME NEW e \in Events, e # k PROVE Tracked(e)'
    <3>1. Tracked(e) /\ ~Holding(e) /\ ~Holding(e)'
      BY <2>6, <2>7, <2>15
    <3>2. Knows(window, e)' => Knows(window, e)
      <4>1. Knows(window, e)' <=> Knows(v, e)
        BY <2>10 DEF Knows
      <4> QED BY <4>1, <2>9, <2>15
    <3>3. PICK old, new : old = sighted[e].others /\ new = old \cup {k}
      OBVIOUS
    <3>4. sighted'[e].others = new /\ IsFiniteSet(old)
      BY <3>1, <3>3, <2>11, <2>15 DEF Tracked
    <3>5. IsFiniteSet(sighted'[e].others)
      BY <3>3, <3>4, FS_AddElement
    <3>6. Cardinality(old) >= DedupCapacity => Cardinality(new) >= DedupCapacity
      <4>1. Cardinality(old) \in Nat
        BY <3>4, FS_CardinalityType
      <4>2. Cardinality(new) = IF k \in old THEN Cardinality(old) ELSE Cardinality(old) + 1
        BY <3>3, <3>4, FS_AddElement
      <4>3. DedupCapacity \in Nat
        BY RouterAssumption
      <4> QED BY <4>1, <4>2, <4>3
    <3>7. Located(window, e, sighted[e].at, old) =>
            \/ Cardinality(new) >= DedupCapacity
            \/ Located(window, e, sighted[e].at, sighted[e].others)'
      <4>1. Located(window, e, sighted[e].at, sighted[e].others)'
              <=> Located(v, e, sighted[e].at, new)
        BY <2>10, <2>11, <2>15, <3>4 DEF Located
      <4> QED BY <4>1, <2>9, <2>15, <3>3, <3>4
    <3>8. verdict'[e].taken = verdict[e].taken /\ verdict'[e].repeats = verdict[e].repeats
          /\ sighted'[e].passed = sighted[e].passed
      BY <2>11, <2>12, <2>15
    <3> QED BY <3>1, <3>2, <3>5, <3>3, <3>4, <3>6, <3>7, <3>8 DEF Tracked
  <2>16. Tracked(k)'
    <3>1. Tracked(k) /\ (Holding(k)' <=> ~repeat)
      BY <2>2, <2>6, <2>7
    <3>2. verdict[k].taken \in Nat /\ sighted[k].passed \in Nat
      BY <2>2, <2>7
    <3>3. IsFiniteSet(sighted'[k].others)
      BY <2>11, FS_EmptySet
    <3>4. Located(window, k, sighted[k].at, sighted[k].others)'
      BY <2>9, <2>10, <2>11 DEF Located
    <3>5. verdict'[k].taken = verdict[k].taken
          /\ (~repeat => verdict'[k].repeats = verdict[k].repeats)
      BY <2>2, <2>12
    <3>6. sighted'[k].passed = sighted[k].passed + (IF repeat THEN 0 ELSE 1)
      BY <2>11
    <3> QED BY <3>1, <3>2, <3>3, <3>4, <3>5, <3>6, <2>14 DEF Tracked
  <2>17. ASSUME NEW e \in Events, sighted'[e].passed > sighted[e].passed, sighted[e].passed > 0,
                ~(Cardinality(sighted[e].others) >= DedupCapacity),
                ~(verdict[e].taken < sighted[e].passed)
         PROVE  clock - sighted[e].at > DedupTTL
    <3>1. sighted[e].passed \in Nat /\ sighted[e].at \in Int /\ verdict[e].taken \in Nat
      BY <2>7
    <3>2. e = k /\ ~repeat
      BY <2>11, <2>17, <3>1
    <3>3. Located(window, e, sighted[e].at, sighted[e].others)
      <4>1. Tracked(e)
        BY <2>7
      <4>2. verdict[e].taken = sighted[e].passed
        BY <4>1, <2>17, <3>1 DEF Tracked
      <4> QED BY <4>1, <4>2, <2>17 DEF Tracked
    <3>4. PICK i \in 1 .. Len(window) : window[i].key = e /\ window[i].seen = sighted[e].at
      BY <3>3 DEF Located
    <3>5. Knows(window, e) /\ Entry(window, e) = i
      BY <3>4, <2>7, EntryIsUnique
    <3>6. ~(clock - sighted[e].at <= DedupTTL)
      BY <3>2, <3>4, <3>5, <2>3 DEF IsRepeat
    <3> QED BY <3>1, <3>6, <2>7, RouterAssumption
  <2> QED BY <2>5, <2>13, <2>15, <2>16, <2>17 DEF DedupInv
<1> QED BY <1>4, <1>5


\* A dispatcher that goes on with the message it holds.
LEMMA GoesOn ==
  ASSUME DedupInv, NEW t \in Dispatchers, at[t].step \in PreSteps,
         NEW s \in PreSteps, NEW m, Bears(t, m), m.event = at[t].work.event,
         Goes(t, Doing(s, m)), UNCHANGED <<window, sighted, verdict, clock>>
  PROVE  Quiet
<1>1. PICK x : x = Doing(s, m)
  OBVIOUS
<1>2. x.step = s /\ x.work = m
  BY <1>1 DEF Doing
<1>3. Seats' /\ at'[t] = x /\ (t # Pump => at'[Pump] = at[Pump])
  BY <1>1, <1>2, DispatcherMoves DEF DedupInv, PathSteps
<1>4. \A e \in Events : Holding(e)' <=> Holding(e)
  BY <1>2, <1>3 DEF Holding
<1> QED BY <1>3, <1>4 DEF Quiet, DedupInv, DedupTypes

\* A dispatcher with nothing in hand that takes nothing in hand.
LEMMA GoesAbout ==
  ASSUME DedupInv, NEW t \in Dispatchers, at[t].step \notin PreSteps,
         NEW x, x.step \in {"notify", "dedup", "reply", "import", "idle", "gone"},
         x.step \in PathSteps => Bears(t, x.work),
         Goes(t, x), UNCHANGED <<window, sighted, verdict, clock>>
  PROVE  Quiet
<1>1. Seats' /\ at'[t] = x /\ (t # Pump => at'[Pump] = at[Pump])
  BY DispatcherMoves DEF DedupInv, PathSteps
<1>2. \A e \in Events : Holding(e)' <=> Holding(e)
  BY <1>1 DEF Holding, PreSteps
<1> QED BY <1>1, <1>2 DEF Quiet, DedupInv, DedupTypes

\* Somebody moves who dispatches nothing, or nobody does.
LEMMA OthersAreQuiet ==
  ASSUME DedupInv, UNCHANGED <<window, sighted, verdict, clock>>,
         at' = at \/ \E u \in Threads \ Dispatchers : \E x : Goes(u, x)
  PROVE  Quiet
<1>1. Seats' /\ at'[Pump] = at[Pump]
  <2>1. CASE at' = at
    BY <2>1 DEF DedupInv, Seats
  <2>2. CASE \E u \in Threads \ Dispatchers : \E x : Goes(u, x)
    BY <2>2, OthersMove DEF DedupInv
  <2> QED BY <2>1, <2>2
<1> QED BY <1>1 DEF Quiet, Holding, DedupInv, DedupTypes

\* A message's work on its way: the same event with another kind.
LEMMA KindChanges ==
  ASSUME NEW t, NEW m, Bears(t, m), NEW kind
  PROVE  Bears(t, [m EXCEPT !.kind = kind]) /\ [m EXCEPT !.kind = kind].event = m.event
BY DEF Bears

\* What a step of a dispatch is to the window.
LEMMA DispatchStepKinds ==
  ASSUME DedupInv, NEW t \in Dispatchers, DispatchSteps(t) \/ StoreFails(t)
  PROVE  Quiet \/ Takes(t) \/ LetsGo(t) \/ Dedup(t)
<1> DEFINE m == at[t].work
<1>1. at[t].step \in PreSteps \cup {"import"} => Bears(t, m)
  BY DEF DedupInv, Seats, PathSteps
<1>2. ASSUME NEW s \in {"idle", "reply", "import"}, NEW w, Goes(t, Doing(s, w)),
             s \in {"reply", "import"} => w = m, at[t].step \in PreSteps
      PROVE  Seats' /\ at'[t].step \notin PreSteps /\ (t # Pump => at'[Pump] = at[Pump])
  <2>1. PICK x : x = Doing(s, w)
    OBVIOUS
  <2>2. x.step = s /\ x.work = w
    BY <2>1 DEF Doing
  <2>3. Seats' /\ at'[t] = x /\ (t # Pump => at'[Pump] = at[Pump])
    BY <1>1, <1>2, <2>1, <2>2, DispatcherMoves DEF DedupInv, PathSteps, PreSteps
  <2> QED BY <2>2, <2>3 DEF PreSteps
<1>3. CASE ExpireSession(t)
  <2>1. PICK s \in {"cut", "command"} : Goes(t, Doing(s, m))
    BY <1>3 DEF ExpireSession
  <2> QED BY <1>3, <1>1, <2>1, GoesOn DEF ExpireSession, Is, PreSteps
<1>4. CASE CutExpired(t)
  BY <1>4, <1>1, GoesOn DEF CutExpired, Is, PreSteps
<1>5. CASE HandleTrigger(t)
  <2>1. at[t].step = "command" /\ UNCHANGED <<window, sighted, clock>>
    BY <1>5 DEF HandleTrigger, Is
  <2>2. CASE m.kind = "new"
    <3>1. Goes(t, Doing("reply", m)) /\ Taken(m)
      BY <1>5, <2>2 DEF HandleTrigger
    <3>2. Takes(t)
      BY <3>1, <2>1, <1>2 DEF Takes, PreSteps
    <3> QED BY <3>2
  <2>3. CASE m.kind # "new"
    <3>1. Goes(t, Doing("gate", [m EXCEPT !.kind = "text"])) /\ UNCHANGED verdict
      BY <1>5, <2>3 DEF HandleTrigger
    <3>2. PICK w : w = [m EXCEPT !.kind = "text"]
      OBVIOUS
    <3>3. Bears(t, w) /\ w.event = m.event
      BY <2>1, <1>1, <3>2, KindChanges DEF PreSteps
    <3>4. Quiet
      BY <3>1, <3>2, <3>3, <2>1, GoesOn DEF PreSteps
    <3> QED BY <3>4
  <2> QED BY <2>2, <2>3
<1>6. CASE HandleRecall(t)
  <2>1. PICK s \in {"reply", "import"} : Goes(t, Doing(s, m))
    BY <1>6 DEF HandleRecall
  <2>2. Takes(t)
    BY <1>6, <1>2, <2>1 DEF HandleRecall, Is, Takes, PreSteps
  <2> QED BY <2>2
<1>7. CASE ImportRecall(t)
  <2>1. PICK x : x = Doing("reply", m)
    OBVIOUS
  <2>2. x.step = "reply" /\ x.work = m
    BY <2>1 DEF Doing
  <2>3. at[t].step = "import" /\ Goes(t, x) /\ UNCHANGED <<window, sighted, verdict, clock>>
    BY <1>7, <2>1 DEF ImportRecall, Is
  <2> QED BY <1>1, <2>2, <2>3, GoesAbout DEF PreSteps
<1>8. CASE maybeHandleNotes(t) \/ maybeHandleToolsCommand(t)
  <2>1. Takes(t)
    BY <1>8, <1>2 DEF maybeHandleNotes, maybeHandleToolsCommand, Answered, Is, Takes, PreSteps
  <2> QED BY <2>1
<1>9. CASE Gate(t)
  <2>1. at[t].step \in {"gate", "command"} /\ UNCHANGED <<window, sighted, clock>>
    BY <1>9 DEF Gate, Is
  <2>2. CASE m.conv \in takeover
    <3>1. Taken(m) /\ Goes(t, Doing("idle", NoWork))
      BY <1>9, <2>2 DEF Gate, Waiting, Doing
    <3>2. Takes(t)
      BY <3>1, <2>1, <1>2 DEF Takes, PreSteps
    <3> QED BY <3>2
  <2>3. CASE m.conv \notin takeover
    <3>1. PICK kind : Goes(t, Doing("enqueue", [m EXCEPT !.kind = kind])) /\ UNCHANGED verdict
      BY <1>9, <2>3 DEF Gate
    <3>2. PICK w : w = [m EXCEPT !.kind = kind]
      OBVIOUS
    <3>3. Bears(t, w) /\ w.event = m.event
      BY <2>1, <1>1, <3>2, KindChanges DEF PreSteps
    <3>4. Quiet
      BY <3>1, <3>2, <3>3, <2>1, GoesOn DEF PreSteps
    <3> QED BY <3>4
  <2> QED BY <2>2, <2>3
<1>10. CASE Enqueue(t)
  <2>1. Taken(m) /\ Goes(t, Doing("idle", NoWork))
    BY <1>10 DEF Enqueue, Waiting, Doing
  <2>2. Takes(t)
    BY <1>10, <2>1, <1>2 DEF Enqueue, Is, Takes, PreSteps
  <2> QED BY <2>2
<1>11. CASE EnqueueFails(t)
  <2>1. dedupForget(m) /\ Goes(t, Doing("idle", NoWork))
    BY <1>11 DEF EnqueueFails, Waiting, Doing
  <2>2. LetsGo(t)
    BY <1>11, <2>1, <1>2 DEF EnqueueFails, Is, LetsGo, PreSteps
  <2> QED BY <2>2
<1>12. CASE StoreFails(t)
  <2>1. UNCHANGED <<window, sighted, verdict, clock>>
    BY <1>12 DEF StoreFails
  <2>2. CASE Is(t, "cut") /\ Goes(t, Doing("command", m))
    BY <2>1, <2>2, <1>1, GoesOn DEF Is, PreSteps
  <2>3. CASE Is(t, "command") /\ Goes(t, Doing("gate", [m EXCEPT !.kind = "text"]))
    <3>1. PICK w : w = [m EXCEPT !.kind = "text"]
      OBVIOUS
    <3>2. Bears(t, w) /\ w.event = m.event
      BY <2>3, <1>1, <3>1, KindChanges DEF PreSteps, Is
    <3> QED BY <3>1, <3>2, <2>1, <2>3, GoesOn DEF PreSteps, Is
  <2>4. CASE Is(t, "import") /\ Goes(t, Doing("reply", m))
    <3>1. PICK x : x = Doing("reply", m)
      OBVIOUS
    <3>2. x.step = "reply" /\ x.work = m
      BY <3>1 DEF Doing
    <3> QED BY <1>1, <2>1, <2>4, <3>1, <3>2, GoesAbout DEF PreSteps, Is
  <2> QED BY <1>12, <2>2, <2>3, <2>4 DEF StoreFails
<1> QED
  BY <1>3, <1>4, <1>5, <1>6, <1>7, <1>8, <1>9, <1>10, <1>11, <1>12 DEF DispatchSteps

\* What any step of the router is to the window.
LEMMA RouterStepKinds ==
  ASSUME DedupInv, RouterNext
  PROVE  Quiet \/ \E t \in Dispatchers : Takes(t) \/ LetsGo(t) \/ Dedup(t)
<1>1. ASSUME NEW t \in Dispatchers, NEW m \in Inputs \cup ConsoleInputs, DispatchInbound(t, m)
      PROVE  Quiet
  <2>1. at[t].step = "idle" /\ m \in (IF t = Pump THEN Inputs ELSE ConsoleInputs)
        /\ UNCHANGED <<window, sighted, verdict, clock>>
    BY <1>1 DEF DispatchInbound, Is
  <2>2. Bears(t, m)
    <3>1. m \in Messages /\ (t # Pump => m.event = NoEvent)
      BY <2>1, RouterAssumption
    <3> QED BY <3>1 DEF Messages, Bears
  <2>3. CASE at' = at
    BY <2>1, <2>3, OthersAreQuiet
  <2>4. CASE at' # at
    <3>1. PICK s \in {"notify", "dedup"} : Goes(t, Doing(s, m))
      BY <1>1, <2>4 DEF DispatchInbound
    <3>2. PICK x : x = Doing(s, m)
      OBVIOUS
    <3>3. x.step = s /\ x.work = m
      BY <3>2 DEF Doing
    <3> QED BY <2>1, <2>2, <3>1, <3>2, <3>3, GoesAbout DEF PreSteps
  <2> QED BY <2>3, <2>4
<1>2. ASSUME NEW t \in Threads, ReplySteps(t) PROVE Quiet
  <2>1. /\ at[t].step \in {"reply", "notify"} /\ Goes(t, AfterReply(t))
        /\ UNCHANGED <<window, sighted, verdict, clock>>
    BY <1>2 DEF ReplySteps, sendReply, ReplyDropped
  <2>2. CASE t \in Dispatchers
    <3>1. Bears(t, at[t].work) /\ t \notin Brains
      BY <2>1, <2>2, RouterAssumption DEF DedupInv, Seats, PathSteps, Dispatchers
    <3>2. PICK x : x = AfterReply(t)
      OBVIOUS
    <3>3. \/ x.step = "dedup" /\ x.work = at[t].work
          \/ x.step = "idle"
      BY <3>1, <3>2 DEF AfterReply, Doing, Waiting
    <3> QED BY <2>1, <2>2, <3>1, <3>2, <3>3, GoesAbout DEF PreSteps, PathSteps
  <2>3. CASE t \notin Dispatchers
    BY <2>1, <2>3, OthersAreQuiet
  <2> QED BY <2>2, <2>3
<1>3. ASSUME NEW t \in Threads, Departs(t) PROVE Quiet
  <2>1. /\ at[t].step = "idle" /\ Goes(t, Doing("gone", NoWork))
        /\ UNCHANGED <<window, sighted, verdict, clock>>
    BY <1>3 DEF Departs, Leaves, Is
  <2>2. CASE t \in Dispatchers
    <3>1. PICK x : x = Doing("gone", NoWork)
      OBVIOUS
    <3>2. x.step = "gone"
      BY <3>1 DEF Doing
    <3> QED BY <2>1, <2>2, <3>1, <3>2, GoesAbout DEF PreSteps, PathSteps
  <2>3. CASE t \notin Dispatchers
    BY <2>1, <2>3, OthersAreQuiet
  <2> QED BY <2>2, <2>3
<1>4. \A b \in Brains \cup {Sender, Operator} : b \in Threads \ Dispatchers
  BY RouterAssumption DEF Threads, Dispatchers, Sender, Operator, Pump, Console
<1>5. CASE TakeReply \/ Deliver
  <2>1. /\ \E x : Goes(Sender, x)
        /\ UNCHANGED <<window, sighted, verdict, clock>>
    BY <1>5 DEF TakeReply, Deliver
  <2> QED BY <2>1, <1>4, OthersAreQuiet
<1>6. ASSUME NEW b \in Brains, WorkerSteps(b) PROVE Quiet
  <2>1. /\ \E x : Goes(b, x)
        /\ UNCHANGED <<window, sighted, verdict, clock>>
    BY <1>6 DEF WorkerSteps, WorkerTop, TakeWork, HandleAnswers, HandleEnds
  <2> QED BY <2>1, <1>4, OthersAreQuiet
<1>7. ASSUME NEW c \in Convs, DispatchOutbound(c) PROVE Quiet
  <2>1. /\ \E x : Goes(Operator, x)
        /\ UNCHANGED <<window, sighted, verdict, clock>>
    BY <1>7 DEF DispatchOutbound
  <2> QED BY <2>1, <1>4, OthersAreQuiet
<1>8. ASSUME NEW c \in Convs,
             \/ TakeOver(c) \/ Release(c) \/ newSessionHandler(c)
             \/ deleteConversationHandler(c)
             \/ \E id \in 1 .. MaxCuts : deleteSessionHandler(c, id)
      PROVE  Quiet
  <2>1. at' = at /\ UNCHANGED <<window, sighted, verdict, clock>>
    BY <1>8 DEF TakeOver, Release, newSessionHandler, deleteConversationHandler,
                deleteSessionHandler
  <2> QED BY <2>1, OthersAreQuiet
<1>9. CASE Shutdown \/ ShutdownReturns
  <2>1. at' = at /\ UNCHANGED <<window, sighted, verdict, clock>>
    BY <1>9 DEF Shutdown, ShutdownReturns
  <2> QED BY <2>1, OthersAreQuiet
<1>10. CASE Tick
  <2>1. at' = at /\ UNCHANGED <<window, sighted, verdict>> /\ clock' \in Int
    BY <1>10, RouterAssumption DEF Tick, DedupInv, DedupTypes
  <2>2. Seats' /\ \A e \in Events : Holding(e)' <=> Holding(e)
    BY <2>1 DEF DedupInv, Seats, Holding
  <2> QED BY <2>1, <2>2 DEF Quiet
<1> QED
  BY <1>1, <1>2, <1>3, <1>5, <1>6, <1>7, <1>8, <1>9, <1>10, DispatchStepKinds
  DEF RouterNext

\* A step lets an event through again for one of the three reasons only.
LetsThroughForAReason ==
  \A e \in Events :
    sighted'[e].passed > sighted[e].passed /\ sighted[e].passed > 0 =>
      \/ clock - sighted[e].at > DedupTTL
      \/ Cardinality(sighted[e].others) >= DedupCapacity
      \/ verdict[e].taken < sighted[e].passed

LEMMA RouterKeeps ==
  ASSUME DedupInv, [RouterNext]_routerVars
  PROVE  DedupInv' /\ LetsThroughForAReason
<1>1. sighted' = sighted => LetsThroughForAReason
  BY DEF LetsThroughForAReason, DedupInv, DedupTypes
<1>2. CASE Quiet
  BY <1>1, <1>2, QuietStep DEF Quiet
<1>3. ASSUME NEW t \in Dispatchers, Takes(t) PROVE DedupInv' /\ LetsThroughForAReason
  BY <1>1, <1>3, TakesStep DEF Takes
<1>4. ASSUME NEW t \in Dispatchers, LetsGo(t) PROVE DedupInv' /\ LetsThroughForAReason
  BY <1>1, <1>4, LetsGoStep DEF LetsGo
<1>5. ASSUME NEW t \in Dispatchers, Dedup(t) PROVE DedupInv' /\ LetsThroughForAReason
  BY <1>5, DedupStep DEF LetsThroughForAReason
<1>6. CASE UNCHANGED routerVars
  <2>1. Quiet
    BY <1>6, OthersAreQuiet DEF routerVars
  <2> QED BY <2>1, <1>2
<1> QED BY <1>2, <1>3, <1>4, <1>5, <1>6, RouterStepKinds

\* The window is in step with what became of the events, in every behaviour.
THEOREM WindowIsTrue == RouterSpec => []DedupInv
<1>1. DedupInv /\ [RouterNext]_routerVars => DedupInv'
  BY RouterKeeps
<1> QED BY <1>1, RouterBegins, PTL DEF RouterSpec

\* A delivery the router refused never swallows its redelivery (DispatchInbound's
\* dedupForget): what is dropped as a repeat was taken once, whatever the queues, the
\* timeouts and the shutdown did.
THEOREM RefusalsAreForgotten == RouterSpec => []RepeatMeansTaken
<1>1. DedupInv => RepeatMeansTaken
  BY DEF DedupInv, Tracked, RepeatMeansTaken
<1> QED BY <1>1, WindowIsTrue, PTL

\* dedup.go's window, for any capacity and TTL: an event passes again only when its TTL
\* has gone by, when as many others as the window holds came in since, or when its
\* dispatch failed.
THEOREM WindowDropsRepeats == RouterSpec => RepeatsAreDropped
<1>1. DedupInv /\ [RouterNext]_routerVars => [LetsThroughForAReason]_routerVars
  BY RouterKeeps
<1>2. RouterSpec => [][LetsThroughForAReason]_routerVars
  BY <1>1, WindowIsTrue, PTL DEF RouterSpec
<1> QED BY <1>2 DEF RepeatsAreDropped, LetsThroughForAReason
=============================================================================
