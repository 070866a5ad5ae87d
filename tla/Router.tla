------------------------------- MODULE Router -------------------------------
(***************************************************************************)
(* The message router (internal/router) with the console's doors           *)
(* (controlapi/console.go): a pump per channel and the console's requests   *)
(* dispatch inbound messages, a worker per brain handles them, a sender     *)
(* drains the outbound queue, and Shutdown joins them.  Both queues are     *)
(* bounded; a full queue ends in a timeout that somebody is told about.     *)
(*                                                                         *)
(* A brain is what the router sees of it: it takes time, then persists the  *)
(* exchange and answers, or answers without persisting, or fails.  The      *)
(* conversation store is one step per call (MemStore).  A turn remembers    *)
(* the session its message was dispatched under, which no code reads.       *)
(***************************************************************************)
EXTENDS Sessions

CONSTANTS
  Inputs,          \* messages: [event, conv, kind, brain]
  ConsoleInputs,   \* the ones that come through the console's message door
  Convs, Brains, DefaultBrain,
  QueueCapacity, OutboundQueueCapacity,
  DedupCapacity, DedupTTL,
  IdleMin,         \* SessionPolicy.IdleMin, 0 when off
  RecallScanSessions,
  ConsoleDoors,    \* which of the console's store doors the instance opens
  TickSize, MaxArrivals, MaxCuts, MaxClock   \* bounds of the instance

NoEvent == "no event"
NoWork == "no work"
NoBrain == "no brain"
Pump == "pump"
Console == "console"
Operator == "operator"
Sender == "sender"
Dispatchers == {Pump, Console}
Threads == Dispatchers \cup Brains \cup {Operator, Sender}
Events == {m.event : m \in Inputs \cup ConsoleInputs} \ {NoEvent}
Messages ==
  [event : Events \cup {NoEvent}, conv : Convs,
   kind : {m.kind : m \in Inputs \cup ConsoleInputs},
   brain : {m.brain : m \in Inputs \cup ConsoleInputs}]

\* The console's door sets no provider event id; a key names its channel, so only
\* that channel's pump brings it.
ASSUME RouterAssumption ==
  /\ Inputs \cup ConsoleInputs \subseteq Messages
  /\ \A m \in ConsoleInputs : m.event = NoEvent
  /\ Brains \cap {Pump, Console, Operator, Sender} = {}
  /\ DedupCapacity \in Nat \ {0} /\ DedupTTL \in Nat /\ TickSize \in Nat

VARIABLES
  life,        \* "up", "cancelled" (Shutdown called), "joined"
  at,          \* what each goroutine is doing: [step, work]
  brainQ,      \* brainWorker.queue
  outQ,        \* channelWorker.queue: the conversations replies are for
  window,      \* dedupWindow: [key, seen], most recent first
  warned,      \* brainFallbackWarned
  takeover,    \* the conversations an operator holds
  talk,        \* the conversation store
  clock,
  sighted,     \* per event: when last seen, how many others since; no code reads it
  verdict,     \* per event: what its deliveries came to; no code reads it
  arrivals     \* messages and console requests so far

routerVars == <<life, at, brainQ, outQ, window, warned, takeover, talk, clock,
                sighted, verdict, arrivals>>

Waiting == [step |-> "idle", work |-> NoWork]
Doing(step, work) == [step |-> step, work |-> work]
Is(t, step) == at[t].step = step
Goes(t, state) == at' = [at EXCEPT ![t] = state]

RouterInit ==
  /\ life = "up"
  /\ at = [t \in Threads |-> Waiting]
  /\ brainQ = [b \in Brains |-> <<>>]
  /\ outQ = <<>>
  /\ window = <<>> /\ warned = {} /\ takeover = {}
  /\ talk = [c \in Convs |-> <<>>]
  /\ clock = 0
  /\ sighted = [e \in Events |-> [at |-> -1, others |-> {}, passed |-> 0]]
  /\ verdict = [e \in Events |-> [taken |-> 0, repeats |-> 0]]
  /\ arrivals = 0

Arrives == arrivals < MaxArrivals /\ arrivals' = arrivals + 1

---------------------------------------------------------------------------
(* The deduplication window (dedup.go).                                    *)

Entry(w, key) == CHOOSE i \in DOMAIN w : w[i].key = key
Knows(w, key) == \E i \in DOMAIN w : w[i].key = key
Without(w, key) ==
  LET i == Entry(w, key)
  IN  IF Knows(w, key) THEN SubSeq(w, 1, i - 1) \o SubSeq(w, i + 1, Len(w)) ELSE w

\* Mutant: the last moment of the TTL no longer counts.
IsRepeatStrictly(w, key, now) == Knows(w, key) /\ now - w[Entry(w, key)].seen < DedupTTL

\* seen answers: known, and not longer ago than the TTL.
IsRepeat(w, key, now) == Knows(w, key) /\ now - w[Entry(w, key)].seen <= DedupTTL

\* seen records: to the front with a new time; a new key evicts the oldest.
seen(w, key, now) ==
  LET rest == Without(w, key)
      room == IF ~Knows(w, key) /\ Len(w) >= DedupCapacity
              THEN SubSeq(rest, 1, Len(rest) - 1) ELSE rest
  IN  <<[key |-> key, seen |-> now]>> \o room

\* Mutant: a failed dispatch leaves its key behind.
NotForgotten(w, key) == w

forget(w, key) == IF key = NoEvent THEN w ELSE Without(w, key)

---------------------------------------------------------------------------
(* DispatchInbound, up to the brain's queue.                               *)

\* The registered brain the conversation names, or the route's.
ChosenBrain(m) == IF m.brain \in Brains THEN m.brain ELSE DefaultBrain

\* One notice per conversation that names a brain nobody registered.
maybeSendBrainFallback(m) ==
  m.brain # NoBrain /\ m.brain \notin Brains /\ m.conv \notin warned

\* The checks under the read lock and the notice, before the deduplication.  A
\* message that cannot be routed is reported and gone.
DispatchInbound(t, m) ==
  LET routed == life = "up" /\ m.kind # "unroutable"
      ghost == routed /\ maybeSendBrainFallback(m)
  IN
  /\ Is(t, "idle") /\ m \in IF t = Pump THEN Inputs ELSE ConsoleInputs
  /\ Arrives
  /\ warned' = IF ghost THEN warned \cup {m.conv} ELSE warned
  /\ IF routed THEN Goes(t, Doing(IF ghost THEN "notify" ELSE "dedup", m))
     ELSE UNCHANGED at
  /\ UNCHANGED <<life, brainQ, outQ, window, takeover, talk, clock, sighted, verdict>>

Dedup(t) ==
  LET m == at[t].work
      repeat == IsRepeat(window, m.event, clock)
  IN
  /\ Is(t, "dedup")
  /\ IF m.event = NoEvent
     THEN Goes(t, Doing("expire", m)) /\ UNCHANGED <<window, sighted, verdict>>
     ELSE /\ window' = seen(window, m.event, clock)
          /\ sighted' = [e \in Events |->
               IF e = m.event
               THEN [at |-> clock, others |-> {},
                     passed |-> sighted[e].passed + (IF repeat THEN 0 ELSE 1)]
               ELSE [sighted[e] EXCEPT !.others = @ \cup {m.event}]]
          /\ verdict' = IF repeat THEN [verdict EXCEPT ![m.event].repeats = @ + 1]
                        ELSE verdict
          /\ Goes(t, IF repeat THEN Waiting ELSE Doing("expire", m))
  /\ UNCHANGED <<life, brainQ, outQ, warned, takeover, talk, clock, arrivals>>

\* The message was taken: queued, answered here, or kept silent for an operator.
Taken(m) ==
  verdict' = IF m.event = NoEvent THEN verdict
             ELSE [verdict EXCEPT ![m.event].taken = @ + 1]

\* The message was not taken; its key leaves the window.
dedupForget(m) == window' = forget(window, m.event)

---------------------------------------------------------------------------
(* sessionPreDispatch (session.go, recall.go, notes.go).                   *)

Active(c) == IF talk[c] = <<>> THEN 1 ELSE LastOf(talk[c]).id
LastActivity(c) ==
  IF talk[c] = <<>> \/ LastOf(talk[c]).turns = <<>> THEN -1
  ELSE LastOf(LastOf(talk[c]).turns).at

Reset(c) == talk' = [talk EXCEPT ![c] = NewSessionOf(@)]
Says(c, turns) == talk' = [talk EXCEPT ![c] = AppendTurnsTo(@, turns)]
Turn(role, born) == [role |-> role, at |-> clock, born |-> born]

\* maybeExpireSession reads the sessions and decides; the reset is another call.
ExpireSession(t) ==
  LET m == at[t].work
      expired == /\ IdleMin > 0
                 /\ LastActivity(m.conv) >= 0
                 /\ clock - LastActivity(m.conv) > IdleMin
  IN
  /\ Is(t, "expire")
  /\ Goes(t, Doing(IF expired THEN "cut" ELSE "command", m))
  /\ UNCHANGED <<life, brainQ, outQ, window, warned, takeover, talk, clock, sighted,
                 verdict, arrivals>>

CutExpired(t) ==
  /\ Is(t, "cut")
  /\ Reset(at[t].work.conv)
  /\ Goes(t, Doing("command", at[t].work))
  /\ UNCHANGED <<life, brainQ, outQ, window, warned, takeover, clock, sighted, verdict, arrivals>>

\* maybeHandleTrigger: a bare trigger is answered here, one with text goes on as
\* that text.
HandleTrigger(t) ==
  LET m == at[t].work IN
  /\ Is(t, "command") /\ m.kind \in {"new", "new text"}
  /\ Reset(m.conv)
  /\ IF m.kind = "new" THEN Goes(t, Doing("reply", m)) /\ Taken(m)
     ELSE Goes(t, Doing("gate", [m EXCEPT !.kind = "text"])) /\ UNCHANGED verdict
  /\ UNCHANGED <<life, brainQ, outQ, window, warned, takeover, clock, sighted, arrivals>>

\* The dialogue /recall finds: the newest archived session, among the last
\* RecallScanSessions, with a turn that is not the system's.
Dialogue(s) == {i \in DOMAIN s.turns : s.turns[i].role # "system"}

RecallSource(c) ==
  {i \in 1 .. Len(talk[c]) - 1 :
     /\ Dialogue(talk[c][i]) # {}
     /\ Len(talk[c]) - i <= RecallScanSessions
     /\ \A j \in i + 1 .. Len(talk[c]) - 1 : Dialogue(talk[c][j]) = {}}

\* maybeHandleRecall, the reads: refused where the active session has dialogue,
\* nothing to do where no archive has any.
HandleRecall(t) ==
  LET m == at[t].work
      c == m.conv
      refused == talk[c] # <<>> /\ Dialogue(LastOf(talk[c])) # {}
  IN
  /\ Is(t, "command") /\ m.kind = "recall"
  /\ Taken(m)
  /\ Goes(t, Doing(IF refused \/ RecallSource(c) = {} THEN "reply" ELSE "import", m))
  /\ UNCHANGED <<life, brainQ, outQ, window, warned, takeover, talk, clock, sighted, arrivals>>

\* The quoted block is one user turn of whatever session is active by now.
ImportRecall(t) ==
  LET c == at[t].work.conv IN
  /\ Is(t, "import")
  /\ Says(c, <<Turn("user", Active(c))>>)
  /\ Goes(t, Doing("reply", at[t].work))
  /\ UNCHANGED <<life, brainQ, outQ, window, warned, takeover, clock, sighted, verdict, arrivals>>

\* Both commands are answered without the brain, and before the takeover gate.
Answered(t) ==
  /\ Taken(at[t].work)
  /\ Goes(t, Doing("reply", at[t].work))
  /\ UNCHANGED <<life, brainQ, outQ, window, warned, takeover, talk, clock, sighted,
                 arrivals>>

maybeHandleNotes(t) == Is(t, "command") /\ at[t].work.kind = "notes" /\ Answered(t)

maybeHandleToolsCommand(t) == Is(t, "command") /\ at[t].work.kind = "tools" /\ Answered(t)

\* The store refuses one call: an expired session stays, a trigger goes to the
\* brain as it was written, a recall answers with its failure.
StoreFails(t) ==
  LET m == at[t].work IN
  /\ \/ Is(t, "cut") /\ Goes(t, Doing("command", m))
     \/ /\ Is(t, "command") /\ m.kind \in {"new", "new text"}
        /\ Goes(t, Doing("gate", [m EXCEPT !.kind = "text"]))
     \/ Is(t, "import") /\ Goes(t, Doing("reply", m))
  /\ UNCHANGED <<life, brainQ, outQ, window, warned, takeover, talk, clock, sighted,
                 verdict, arrivals>>

\* The takeover gate: the user's turn is written, the brain is not asked.
Gate(t) ==
  LET m == at[t].work IN
  /\ Is(t, "gate") \/ (Is(t, "command") /\ m.kind = "text")
  /\ IF m.conv \in takeover
     THEN /\ Says(m.conv, <<Turn("user", Active(m.conv))>>)
          /\ Taken(m) /\ Goes(t, Waiting)
     ELSE /\ Goes(t, Doing("enqueue", [m EXCEPT !.kind = Active(m.conv)]))
          /\ UNCHANGED <<talk, verdict>>
  /\ UNCHANGED <<life, brainQ, outQ, window, warned, takeover, clock, sighted, arrivals>>

\* The select on the brain's queue.
Enqueue(t) ==
  LET m == at[t].work
      b == ChosenBrain(m)
  IN
  /\ Is(t, "enqueue") /\ Len(brainQ[b]) < QueueCapacity
  /\ brainQ' = [brainQ EXCEPT ![b] = Append(@, m)]
  /\ Taken(m) /\ Goes(t, Waiting)
  /\ UNCHANGED <<life, outQ, window, warned, takeover, talk, clock, sighted, arrivals>>

\* ErrBrainSaturated after the enqueue timeout, or the caller's context is done:
\* the router's for the pump, the request's for the console.
EnqueueFails(t) ==
  LET m == at[t].work IN
  /\ Is(t, "enqueue")
  /\ \/ Len(brainQ[ChosenBrain(m)]) = QueueCapacity
     \/ t = Pump /\ life = "cancelled"
     \/ t = Console
  /\ dedupForget(m) /\ Goes(t, Waiting)
  /\ UNCHANGED <<life, brainQ, outQ, warned, takeover, talk, clock, sighted, verdict, arrivals>>

---------------------------------------------------------------------------
(* Replies.                                                                *)

\* What a goroutine does after its reply: the notice goes on to the dedup, the
\* worker back to its loop.
AfterReply(t) ==
  IF Is(t, "notify") THEN Doing("dedup", at[t].work)
  ELSE IF t \in Brains THEN Doing("top", NoWork) ELSE Waiting

\* sendReply: into the outbound queue, or given up when it stays full, or
\* silently dropped by the shutdown.
sendReply(t) ==
  /\ at[t].step \in {"reply", "notify"} /\ Len(outQ) < OutboundQueueCapacity
  /\ outQ' = Append(outQ, at[t].work.conv)
  /\ Goes(t, AfterReply(t))
  /\ UNCHANGED <<life, brainQ, window, warned, takeover, talk, clock, sighted, verdict, arrivals>>

ReplyDropped(t) ==
  /\ at[t].step \in {"reply", "notify"}
  /\ Len(outQ) = OutboundQueueCapacity \/ life # "up"
  /\ Goes(t, AfterReply(t))
  /\ UNCHANGED <<life, brainQ, outQ, window, warned, takeover, talk, clock, sighted,
                 verdict, arrivals>>

\* runChannelWorker and deliver.
TakeReply ==
  /\ Is(Sender, "idle") /\ outQ # <<>>
  /\ Goes(Sender, Doing("sending", Head(outQ)))
  /\ outQ' = Tail(outQ)
  /\ UNCHANGED <<life, brainQ, window, warned, takeover, talk, clock, sighted, verdict, arrivals>>

\* Send returns, or its timeout ends it.
Deliver ==
  /\ Is(Sender, "sending")
  /\ Goes(Sender, Waiting)
  /\ UNCHANGED <<life, brainQ, outQ, window, warned, takeover, talk, clock, sighted,
                 verdict, arrivals>>

---------------------------------------------------------------------------
(* The brain's worker.                                                     *)

\* runBrainWorker looks at the context first, then selects.
WorkerTop(b) ==
  /\ Is(b, "top")
  /\ Goes(b, IF life \in {"cancelled", "joined"} THEN Doing("gone", NoWork) ELSE Waiting)
  /\ UNCHANGED <<life, brainQ, outQ, window, warned, takeover, talk, clock, sighted,
                 verdict, arrivals>>

TakeWork(b) ==
  /\ Is(b, "idle") /\ brainQ[b] # <<>>
  /\ Goes(b, Doing("handling", Head(brainQ[b])))
  /\ brainQ' = [brainQ EXCEPT ![b] = Tail(@)]
  /\ UNCHANGED <<life, outQ, window, warned, takeover, talk, clock, sighted, verdict, arrivals>>

\* handleAndReply: the brain persists the pair in the session active by now, on
\* a context the shutdown does not cancel, and answers; or answers with its
\* fallback and persists nothing; or returns an error or nothing to say.
HandleAnswers(b) ==
  LET m == at[b].work IN
  /\ Is(b, "handling")
  /\ Says(m.conv, <<Turn("user", m.kind), Turn("assistant", m.kind)>>)
  /\ Goes(b, Doing("reply", m))
  /\ UNCHANGED <<life, brainQ, outQ, window, warned, takeover, clock, sighted, verdict, arrivals>>

HandleEnds(b) ==
  /\ Is(b, "handling")
  /\ \/ Goes(b, Doing("reply", at[b].work))
     \/ Goes(b, Doing("top", NoWork))
  /\ UNCHANGED <<life, brainQ, outQ, window, warned, takeover, talk, clock, sighted,
                 verdict, arrivals>>

---------------------------------------------------------------------------
(* The console's other doors.                                              *)

Door(name) == name \in ConsoleDoors /\ Arrives

TakeOver(c) ==
  /\ Door("takeover")
  /\ takeover' = takeover \cup {c}
  /\ UNCHANGED <<life, at, brainQ, outQ, window, warned, talk, clock, sighted, verdict>>

Release(c) ==
  /\ Door("takeover")
  /\ takeover' = takeover \ {c}
  /\ UNCHANGED <<life, at, brainQ, outQ, window, warned, talk, clock, sighted, verdict>>

\* DispatchOutbound writes the operator's turn, then waits for the queue.
DispatchOutbound(c) ==
  /\ Door("reply") /\ life = "up" /\ Is(Operator, "idle")
  /\ Says(c, <<Turn("operator", Active(c))>>)
  /\ Goes(Operator, Doing("reply", [conv |-> c]))
  /\ UNCHANGED <<life, brainQ, outQ, window, warned, takeover, clock, sighted, verdict>>

newSessionHandler(c) ==
  /\ Door("sessions")
  /\ Reset(c)
  /\ UNCHANGED <<life, at, brainQ, outQ, window, warned, takeover, clock, sighted, verdict>>

\* deleteConversationHandler releases the conversation first.
deleteConversationHandler(c) ==
  /\ Door("delete")
  /\ takeover' = takeover \ {c}
  /\ talk' = [talk EXCEPT ![c] = <<>>]
  /\ UNCHANGED <<life, at, brainQ, outQ, window, warned, clock, sighted, verdict>>

deleteSessionHandler(c, id) ==
  /\ Door("delete")
  /\ talk' = [talk EXCEPT ![c] = DeleteSessionOf(@, id)]
  /\ UNCHANGED <<life, at, brainQ, outQ, window, warned, takeover, clock, sighted, verdict>>

---------------------------------------------------------------------------
(* Shutdown.                                                               *)

\* The flag under the lock, then the context.
Shutdown ==
  /\ life = "up"
  /\ life' = "cancelled"
  /\ UNCHANGED <<at, brainQ, outQ, window, warned, takeover, talk, clock, sighted,
                 verdict, arrivals>>

\* Mutant: an idle worker waits for work only.
LeavesWhenTold(t) == at[t].step = "idle" /\ t = Pump /\ life = "up"

\* The selects see the cancelled context; the pump also ends when its stream is
\* closed by the channel's stop.
Leaves(t) ==
  /\ Is(t, "idle")
  /\ life = "cancelled" \/ (t = Pump /\ life = "up")

Departs(t) ==
  /\ t \in {Pump, Sender} \cup Brains
  /\ Leaves(t)
  /\ Goes(t, Doing("gone", NoWork))
  /\ UNCHANGED <<life, brainQ, outQ, window, warned, takeover, talk, clock, sighted,
                 verdict, arrivals>>

\* brainWg and channelWg.
WaitGroupsDone == \A t \in {Pump, Sender} \cup Brains : Is(t, "gone")

ShutdownReturns ==
  /\ life = "cancelled" /\ WaitGroupsDone
  /\ life' = "joined"
  /\ UNCHANGED <<at, brainQ, outQ, window, warned, takeover, talk, clock, sighted,
                 verdict, arrivals>>

Tick ==
  /\ clock < MaxClock
  /\ clock' = clock + TickSize
  /\ UNCHANGED <<life, at, brainQ, outQ, window, warned, takeover, talk, sighted,
                 verdict, arrivals>>

---------------------------------------------------------------------------

\* The rest of a dispatch, once begun.
DispatchSteps(t) ==
  \/ Dedup(t) \/ ExpireSession(t) \/ CutExpired(t)
  \/ HandleTrigger(t) \/ HandleRecall(t) \/ ImportRecall(t) \/ maybeHandleNotes(t)
  \/ maybeHandleToolsCommand(t) \/ Gate(t) \/ Enqueue(t) \/ EnqueueFails(t)

ReplySteps(t) == sendReply(t) \/ ReplyDropped(t)
WorkerSteps(b) == WorkerTop(b) \/ TakeWork(b) \/ HandleAnswers(b) \/ HandleEnds(b)

RouterNext ==
  \/ \E t \in Dispatchers : \/ \E m \in Inputs \cup ConsoleInputs : DispatchInbound(t, m)
                            \/ DispatchSteps(t) \/ StoreFails(t)
  \/ \E t \in Threads : ReplySteps(t) \/ Departs(t)
  \/ TakeReply \/ Deliver
  \/ \E b \in Brains : WorkerSteps(b)
  \/ \E c \in Convs : \/ TakeOver(c) \/ Release(c) \/ DispatchOutbound(c)
                      \/ newSessionHandler(c) \/ deleteConversationHandler(c)
                      \/ \E id \in 1 .. MaxCuts : deleteSessionHandler(c, id)
  \/ Shutdown \/ ShutdownReturns
  \/ Tick

RouterSpec == RouterInit /\ [][RouterNext]_routerVars

\* Goroutines run, timers fire, and handlers and sends are bounded by their
\* contexts; nobody promises that a message arrives or a shutdown is asked for.
RouterFairness ==
  /\ \A t \in Dispatchers : WF_routerVars(DispatchSteps(t))
  /\ \A t \in Threads : WF_routerVars(ReplySteps(t))
  /\ WF_routerVars(TakeReply \/ Deliver)
  /\ \A b \in Brains : WF_routerVars(WorkerSteps(b))
  /\ \A t \in {Pump, Sender} \cup Brains : WF_routerVars(life = "cancelled" /\ Departs(t))
  /\ WF_routerVars(ShutdownReturns)

---------------------------------------------------------------------------
(* Properties.                                                             *)

\* A provider's event passes the window again only when the TTL has gone by
\* since it was last seen, when as many other events as the window holds came
\* in between, or when its dispatch failed and was forgotten.
RepeatsAreDropped ==
  [][\A e \in Events :
       sighted'[e].passed > sighted[e].passed /\ sighted[e].passed > 0 =>
         \/ clock - sighted[e].at > DedupTTL
         \/ Cardinality(sighted[e].others) >= DedupCapacity
         \/ verdict[e].taken < sighted[e].passed]_routerVars

\* An event is dropped as a repeat only when an earlier delivery of it was taken:
\* a delivery the router refused never swallows its redelivery.
RepeatMeansTaken ==
  \A e \in Events : verdict[e].repeats > 0 => verdict[e].taken > 0

\* Shutdown returns, whatever the queues hold and whoever waits on them.
ShutdownEnds == life = "cancelled" ~> life = "joined"

\* A session holds only what was said under it: an exchange begun before a reset
\* is not part of the history the next message is answered with.
ResetCutsContext ==
  \A c \in Convs : \A i \in DOMAIN talk[c] : \A n \in DOMAIN talk[c][i].turns :
    talk[c][i].turns[n].born = talk[c][i].id
=============================================================================
