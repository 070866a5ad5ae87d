------------------------------- MODULE Inlets -------------------------------
(***************************************************************************)
(* The two adapters that receive over handlers they do not own: Telegram     *)
(* (internal/channel/telegram, polling or its own webhook server) and the    *)
(* generic webhook (internal/channel/webhook).  Handlers run in goroutines of *)
(* the library or the HTTP server, and a message is handed to the router on   *)
(* a channel the adapter closes when it stops: a send on the closed channel   *)
(* panics.  One app life starts the adapters and stops each of them once.     *)
(***************************************************************************)
EXTENDS Naturals, FiniteSets

CONSTANTS
  Workers,        \* handler goroutines of the Telegram adapter
  Requests,       \* request goroutines of the webhook adapter
  InletBuffer     \* capacity of either inbound channel

VARIABLES
  tg,        \* Telegram: [mode, state, step, transport, done, closed, queued, dropped]
  worker,    \* what each Telegram handler is doing
  abandoned, \* a failed Start's Shutdown was cut short with handlers in flight
  wh,        \* webhook: [started, step, closed, queued, dropped]
  request,   \* what each webhook request is doing
  panicked   \* a send met a closed channel

inletVars == <<tg, worker, abandoned, wh, request, panicked>>

InletsInit ==
  /\ tg \in [mode : {"polling", "webhook"}, state : {"new"}, step : {"new"},
             transport : {"off"}, done : {FALSE}, closed : {FALSE}, queued : {0},
             dropped : {FALSE}]
  /\ worker = [w \in Workers |-> "idle"]
  /\ abandoned = FALSE
  /\ wh = [started |-> FALSE, step |-> "new", closed |-> FALSE, queued |-> 0, dropped |-> FALSE]
  /\ request = [r \in Requests |-> "idle"]
  /\ panicked = FALSE

---------------------------------------------------------------------------
(* Telegram: Start.                                                         *)

telegramOnly == UNCHANGED <<wh, request>>

\* Start: the state is running before the transport is.  Polling cannot fail from
\* here (a failing DeleteWebhook is logged); the webhook server listens first.
TelegramStart ==
  /\ tg.step = "new"
  /\ tg' = [tg EXCEPT !.state = "running", !.transport = "up",
                      !.step = IF tg.mode = "polling" THEN "serving" ELSE "registering"]
  /\ UNCHANGED <<worker, abandoned, panicked>> /\ telegramOnly

\* SetWebhook succeeds, or fails and the server is shut down: no new request.
SetWebhook ==
  /\ tg.step = "registering"
  /\ \/ tg' = [tg EXCEPT !.step = "serving"]
     \/ tg' = [tg EXCEPT !.step = "draining", !.transport = "down"]
  /\ UNCHANGED <<worker, abandoned, panicked>> /\ telegramOnly

\* The failed Start's Shutdown returns when the requests are answered, or when
\* Start's own context ends first; workers.Wait joins the server, not the
\* requests; rewindToNew.
RewindToNew ==
  /\ tg.step = "draining"
  /\ abandoned' = \E w \in Workers : worker[w] # "idle"
  /\ tg' = [tg EXCEPT !.state = "new", !.step = "failed"]
  /\ UNCHANGED <<worker, panicked>> /\ telegramOnly

---------------------------------------------------------------------------
(* Telegram: Stop, which the app also calls after a failed Start.           *)

\* The flip under the lock, then the broadcast.
StopFlips ==
  /\ tg.step \in {"new", "serving", "failed"}
  /\ tg' = [tg EXCEPT !.step = IF tg.state = "new" THEN "never ran" ELSE "flipped",
                      !.state = "stopped"]
  /\ UNCHANGED <<worker, abandoned, panicked>> /\ telegramOnly

StopBroadcasts ==
  /\ tg.step \in {"never ran", "flipped"}
  /\ tg' = [tg EXCEPT !.done = TRUE, !.closed = tg.step = "never ran",
                      !.step = IF tg.step = "never ran" THEN "stopped" ELSE "broadcast"]
  /\ UNCHANGED <<worker, abandoned, panicked>> /\ telegramOnly

\* stopWebhook or stopPolling, and workers.Wait.  Both are bounded: neither waits
\* for the handlers.
StopTransport ==
  /\ tg.step = "broadcast"
  /\ tg' = [tg EXCEPT !.transport = "down", !.step = "joining"]
  /\ UNCHANGED <<worker, abandoned, panicked>> /\ telegramOnly

\* Mutant: the channel is closed as soon as the transport is down.
NobodyWaitedFor == TRUE

\* dispatchWG.Wait: every dispatch that passed the state check has returned.
DispatchesJoined == \A w \in Workers : worker[w] \notin {"converting", "offering"}

StopCloses ==
  /\ tg.step = "joining" /\ DispatchesJoined
  /\ tg' = [tg EXCEPT !.closed = TRUE, !.step = "stopped"]
  /\ UNCHANGED <<worker, abandoned, panicked>> /\ telegramOnly

---------------------------------------------------------------------------
(* Telegram: one update in one handler goroutine.                           *)

WorkerDoes(w, now) == worker' = [worker EXCEPT ![w] = now]

\* webhookHandler's gates (method, secret, size, JSON) pass, or a polled update.
UpdateArrives(w) ==
  /\ tg.transport = "up" /\ worker[w] = "idle"
  /\ WorkerDoes(w, "arrived")
  /\ UNCHANGED <<tg, abandoned, panicked>> /\ telegramOnly

\* The state check and the Add under the lock.
DispatchEnters(w) ==
  /\ worker[w] = "arrived"
  /\ WorkerDoes(w, IF tg.state = "stopped" THEN "idle" ELSE "converting")
  /\ UNCHANGED <<tg, abandoned, panicked>> /\ telegramOnly

\* InboundFromUpdate and the issuer: a cancelled context, nothing to say, or a
\* refused issuance (counted) end the dispatch.
DispatchConverts(w) ==
  /\ worker[w] = "converting"
  /\ \/ WorkerDoes(w, "offering") /\ UNCHANGED tg
     \/ WorkerDoes(w, "idle") /\ \E d \in {tg.dropped, TRUE} : tg' = [tg EXCEPT !.dropped = d]
  /\ UNCHANGED <<abandoned, panicked>> /\ telegramOnly

\* The select: whichever of the ready cases it draws.
DispatchOffers(w) ==
  /\ worker[w] = "offering"
  /\ WorkerDoes(w, "idle")
  /\ \/ /\ ~tg.closed /\ tg.queued < InletBuffer
        /\ tg' = [tg EXCEPT !.queued = @ + 1] /\ UNCHANGED panicked
     \/ /\ tg.closed
        /\ panicked' = TRUE /\ UNCHANGED tg
     \/ UNCHANGED <<tg, panicked>>   \* <-a.done, or the caller's context has ended
     \/ /\ tg.queued = InletBuffer /\ ~tg.closed  \* the timer
        /\ tg' = [tg EXCEPT !.dropped = TRUE] /\ UNCHANGED panicked
  /\ UNCHANGED abandoned /\ telegramOnly

---------------------------------------------------------------------------
(* The generic webhook.                                                     *)

webhookOnly == UNCHANGED <<tg, worker, abandoned>>

\* Start binds and serves, or fails and stays un-started.
WebhookStart ==
  /\ wh.step = "new"
  /\ \/ wh' = [wh EXCEPT !.started = TRUE, !.step = "serving"]
     \/ wh' = [wh EXCEPT !.step = "failed"]
  /\ UNCHANGED <<request, panicked>> /\ webhookOnly

\* Stop: a no-op unless started; then Shutdown, which drains, or Close, which
\* leaves the requests running.
WebhookStops ==
  /\ wh.started
  /\ wh' = [wh EXCEPT !.started = FALSE, !.step = "closing"]
  /\ UNCHANGED <<request, panicked>> /\ webhookOnly

\* The exclusive lock: closed and the close, between two enqueues.
WebhookCloses ==
  /\ wh.step = "closing"
  /\ wh' = [wh EXCEPT !.closed = TRUE, !.step = "stopped"]
  /\ UNCHANGED <<request, panicked>> /\ webhookOnly

\* authGate and InboundHandler up to the enqueue: refused, or on to the enqueue.
RequestArrives(r) ==
  /\ wh.step = "serving" /\ request[r] = "idle"
  /\ \E now \in {"refused", "enqueuing"} : request' = [request EXCEPT ![r] = now]
  /\ UNCHANGED <<wh, panicked>> /\ webhookOnly

\* enqueue, under the read lock: the check and the send that does not block.
enqueue(r) ==
  /\ request[r] = "enqueuing"
  /\ \/ /\ wh.closed
        /\ request' = [request EXCEPT ![r] = "unavailable"] /\ UNCHANGED <<wh, panicked>>
     \/ /\ ~wh.closed /\ wh.queued < InletBuffer
        /\ request' = [request EXCEPT ![r] = "accepted"]
        /\ wh' = [wh EXCEPT !.queued = @ + 1] /\ UNCHANGED panicked
     \/ /\ ~wh.closed /\ wh.queued = InletBuffer
        /\ request' = [request EXCEPT ![r] = "unavailable"]
        /\ wh' = [wh EXCEPT !.dropped = TRUE] /\ UNCHANGED panicked
  /\ webhookOnly

RequestAnswered(r) ==
  /\ request[r] \in {"refused", "accepted", "unavailable"}
  /\ request' = [request EXCEPT ![r] = "idle"]
  /\ UNCHANGED <<wh, panicked>> /\ webhookOnly

---------------------------------------------------------------------------

\* The router's pumps take what is queued.
PumpDrains ==
  /\ \/ tg.queued > 0 /\ tg' = [tg EXCEPT !.queued = @ - 1] /\ UNCHANGED wh
     \/ wh.queued > 0 /\ wh' = [wh EXCEPT !.queued = @ - 1] /\ UNCHANGED tg
  /\ UNCHANGED <<worker, abandoned, request, panicked>>

InletsNext ==
  \/ TelegramStart \/ SetWebhook \/ RewindToNew
  \/ StopFlips \/ StopBroadcasts \/ StopTransport \/ StopCloses
  \/ \E w \in Workers : UpdateArrives(w) \/ DispatchEnters(w)
                        \/ DispatchConverts(w) \/ DispatchOffers(w)
  \/ WebhookStart \/ WebhookStops \/ WebhookCloses
  \/ \E r \in Requests : RequestArrives(r) \/ enqueue(r) \/ RequestAnswered(r)
  \/ PumpDrains

InletsSpec == InletsInit /\ [][InletsNext]_inletVars

---------------------------------------------------------------------------
(* Properties.                                                              *)

\* Stop's last step: "by step 5 no goroutine can be in mid-send on a.inbound" (the
\* comment on Adapter.Stop).  No dispatch sends on the channel Stop has closed.
NoSendOnClosed == ~panicked

\* The same, for every adapter whose Start did not fail under an ended context:
\* the state check, the wait for the dispatches and the enqueue lock keep the
\* senders and the close apart, whatever the transport's own shutdown waits for.
OnlyAbandonedSendsPanic == panicked => abandoned
=============================================================================
