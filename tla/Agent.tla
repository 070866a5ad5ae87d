------------------------------- MODULE Agent --------------------------------
(***************************************************************************)
(* The agent brain (brain/agent.go, agent_native.go): a message goes through *)
(* a loop of model calls and tool calls, in the lane of native tool calls or *)
(* in the text lane, until the model answers or the loop gives up.  A brain  *)
(* handles one message at a time; what it keeps between them is the sticky   *)
(* degradation of the native lane and the history it persisted.             *)
(*                                                                         *)
(* A model's reply is its shape: calls, a call printed as text, an answer,  *)
(* nothing.  What a submitted call comes to is the executor's (ActionStore). *)
(***************************************************************************)
EXTENDS Integers, Sequences, FiniteSets

CONSTANTS
  Tools,            \* registered tools
  CallNames,        \* names a model may call, registered or not
  CallLists,        \* the lists of native calls a reply may carry
  Capable,          \* the model implements ToolCallingModel
  maxNativeCallsPerTurn, maxIters,
  MaxMessages       \* bound of the instance

\* No tool has the name that stands for the calls over the cap.
ASSUME AgentAssumption ==
  /\ Tools \subseteq CallNames /\ "discarded" \notin CallNames
  /\ CallLists \subseteq Seq(CallNames)
  /\ maxNativeCallsPerTurn \in Nat

VARIABLES
  msg,              \* the message in hand: [pc, lane, iter, left, plan]
  transcript,       \* the messages of the request after the prompt and the history
  modes,            \* the mode each tool is granted in
  nativeDisabled,
  remembered,       \* what was persisted as the assistant's turn
  replies,          \* what was sent to the channel
  executed          \* tools that ran for this message

agentVars == <<msg, transcript, modes, nativeDisabled, remembered, replies, executed>>

Resting == [pc |-> "rest", lane |-> "text", iter |-> 0, left |-> <<>>, plan |-> <<>>]
NotGranted == "not granted"

AgentInit ==
  /\ msg = Resting /\ transcript = <<>>
  /\ modes \in [Tools -> {"allow", "shadow", "deny"}]
  /\ nativeDisabled = FALSE
  /\ remembered = <<>> /\ replies = <<>> /\ executed = {}

Becoming(pc) == msg' = [msg EXCEPT !.pc = pc]

\* effectiveTools: the plan of the message; a plan that cannot be read denies all.
effectiveTools == {modes, [t \in Tools |-> NotGranted]}

\* handle, up to the loop: a message without text is no question.
Handle ==
  /\ msg.pc = "rest" /\ Len(replies) < MaxMessages
  /\ \E plan \in effectiveTools :
       msg' = [pc |-> "ask", lane |-> IF Capable /\ ~nativeDisabled THEN "native" ELSE "text",
               iter |-> 0, left |-> <<>>, plan |-> plan]
  /\ transcript' = <<>> /\ executed' = {}
  /\ UNCHANGED <<modes, nativeDisabled, remembered, replies>>

NoQuestion ==
  /\ msg.pc = "rest" /\ Len(replies) < MaxMessages
  /\ replies' = Append(replies, "silence")
  /\ UNCHANGED <<msg, transcript, modes, nativeDisabled, remembered, executed>>

---------------------------------------------------------------------------
(* The loops.                                                              *)

Asks == msg.pc = "ask" /\ msg.iter < maxIters
Writes(entry) == transcript' = Append(transcript, entry)
CallMsg(calls) == [role |-> "assistant", calls |-> calls]
Observation(tool) == [role |-> "tool", calls |-> <<tool>>]
BudgetNotice == [role |-> "budget", calls |-> <<>>]

\* The context is done, the model fails or panics, the reply is empty, or the
\* iterations are used up: no answer.
GivesUp ==
  /\ msg.pc = "ask"
  /\ Becoming("unanswered")
  /\ UNCHANGED <<transcript, modes, nativeDisabled, remembered, replies, executed>>

\* The reply is text: an answer, or a tool call printed as JSON that the lane does
\* not rescue.
FinalText(kind) ==
  /\ Asks
  /\ msg' = [msg EXCEPT !.pc = "final", !.left = <<kind>>]
  /\ UNCHANGED <<transcript, modes, nativeDisabled, remembered, replies, executed>>

\* runLoop: one call, on the first meaningful line.
TextCall(name) ==
  /\ Asks /\ msg.lane = "text"
  /\ msg' = [msg EXCEPT !.pc = "tools", !.left = <<name>>]
  /\ Writes(CallMsg(<<name>>))
  /\ UNCHANGED <<modes, nativeDisabled, remembered, replies, executed>>

Within(calls) == SubSeq(calls, 1, maxNativeCallsPerTurn)

\* Mutant: the cap stops the loop but not the message that is kept.
KeptWhole(calls) == calls

\* The calls of the reply that the request keeps.
Kept(calls) == IF Len(calls) > maxNativeCallsPerTurn THEN Within(calls) ELSE calls

\* runLoopNative: a list of calls, cut at the cap.
NativeCalls(calls) ==
  /\ Asks /\ msg.lane = "native"
  /\ msg' = [msg EXCEPT !.pc = "tools",
       !.left = IF Len(calls) > maxNativeCallsPerTurn
                THEN Append(Within(calls), "discarded") ELSE calls]
  /\ Writes(CallMsg(Kept(calls)))
  /\ UNCHANGED <<modes, nativeDisabled, remembered, replies, executed>>

\* rescueTextToolCall: a call of a registered tool printed as text is a call.
Rescue(name) == name \in Tools /\ NativeCalls(<<name>>)

\* ErrToolsUnsupported: disableNativeLane, and the text lane starts from the
\* question, with nothing of what the native lane said or did.
Degrade ==
  /\ Asks /\ msg.lane = "native"
  /\ nativeDisabled' = TRUE
  /\ msg' = [msg EXCEPT !.lane = "text", !.iter = 0]
  /\ transcript' = <<>>
  /\ UNCHANGED <<modes, remembered, replies, executed>>

\* The gate of the native lane and Submit's verdict: only an allowed, registered
\* tool may run; whatever happens, the model is told.
MayRun(name) == name \in Tools /\ msg.plan[name] = "allow"

\* runTool and presentToolResult.  An allowed call may still be refused: bad
\* arguments, a record that fails, a person to be asked first.
runTool ==
  LET name == Head(msg.left) IN
  /\ msg.pc = "tools" /\ msg.left # <<>> /\ name # "discarded"
  /\ msg' = [msg EXCEPT !.left = Tail(@)]
  /\ Writes(Observation(name))
  /\ executed' \in {executed} \cup (IF MayRun(name) THEN {executed \cup {name}} ELSE {})
  /\ UNCHANGED <<modes, nativeDisabled, remembered, replies>>

SayDiscarded ==
  /\ msg.pc = "tools" /\ msg.left = <<"discarded">>
  /\ msg' = [msg EXCEPT !.left = <<>>]
  /\ Writes(BudgetNotice)
  /\ UNCHANGED <<modes, nativeDisabled, remembered, replies, executed>>

NextIteration ==
  /\ msg.pc = "tools" /\ msg.left = <<>>
  /\ msg' = [msg EXCEPT !.pc = "ask", !.iter = @ + 1]
  /\ UNCHANGED <<transcript, modes, nativeDisabled, remembered, replies, executed>>

---------------------------------------------------------------------------
(* The end of handle.                                                      *)

Finished(reply) ==
  /\ replies' = Append(replies, reply)
  /\ msg' = Resting /\ transcript' = <<>> /\ executed' = {}
  /\ UNCHANGED <<modes, nativeDisabled>>

Fallback == msg.pc = "unanswered" /\ Finished("fallback") /\ UNCHANGED remembered

\* toolCallShape at the channel's exit.
Leaks(kind) == kind = "printed call"

LeakBlocked ==
  /\ msg.pc = "final" /\ Leaks(msg.left[1])
  /\ Finished("leak notice") /\ UNCHANGED remembered

\* persistPair, then the reply; the append may fail.
persistPair(kind) == remembered' \in {remembered, Append(remembered, kind)}

AnswerSent ==
  /\ msg.pc = "final" /\ ~Leaks(msg.left[1])
  /\ persistPair(msg.left[1])
  /\ Finished(msg.left[1])

AgentNext ==
  \/ Handle \/ NoQuestion \/ GivesUp
  \/ \E kind \in {"answer", "printed call"} : FinalText(kind)
  \/ \E name \in CallNames : TextCall(name) \/ Rescue(name)
  \/ \E calls \in CallLists : NativeCalls(calls)
  \/ Degrade \/ runTool \/ SayDiscarded \/ NextIteration
  \/ Fallback \/ LeakBlocked \/ AnswerSent

AgentSpec == AgentInit /\ [][AgentNext]_agentVars

---------------------------------------------------------------------------
(* Properties.                                                             *)

\* Before every model call of the native lane, each call the request keeps is
\* followed by one result of its own, in order: gated, unknown, failing and
\* rescued calls included, and whatever the cap cut off.  (Providers refuse a
\* request in which a call has no result.)
EveryCallHasItsResult ==
  msg.pc = "ask" =>
    \A i \in DOMAIN transcript : transcript[i].role = "assistant" =>
      \A n \in DOMAIN transcript[i].calls :
        /\ i + n \in DOMAIN transcript
        /\ transcript[i + n] = Observation(transcript[i].calls[n])

=============================================================================
