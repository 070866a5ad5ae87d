------------------------------ MODULE Letters -------------------------------
(***************************************************************************)
(* What the channels carry: an update from Telegram becomes an envelope      *)
(* (telegram/inbound.go), someone writes an envelope back with the builder    *)
(* (envelope/builder.go), and the channel's Send turns it into calls: one Bot  *)
(* API call for Telegram (telegram/outbound.go), one message per chunk for    *)
(* Discord (discord/send.go).  Nothing calls Validate on the way: it is the    *)
(* measure AnswersReachTheirChat holds Send against.                          *)
(* Text is one symbol, empty or not, but for Discord's, whose cutting is the   *)
(* point: there it is a sequence of ordinary runes, spaces and newlines.      *)
(***************************************************************************)
EXTENDS Naturals, Sequences, FiniteSets

CONSTANTS
  Chats,                      \* Telegram chat ids
  Texts,                      \* what Discord is asked to send: sequences of runes
  ContentLimit, BreakWindow,  \* 2000 and 256 in the code
  MaxBuilds                   \* bound: builder calls on one envelope

NoChat == "no chat"
Media == {"image", "audio", "file"}    \* video takes image's path
NoLetter == [op |-> "no letter", parts |-> <<>>, keyboard |-> "none", chat |-> NoChat,
             conv |-> NoChat, callback |-> FALSE, message |-> FALSE]

VARIABLES
  origin,   \* the update being answered: [kind, from, chat, body]
  letter,   \* the outbound envelope: [op, parts, keyboard, chat, conv, callback, message]
  author,   \* who writes it: "brain", "operator" or "builder" (code that uses the builder)
  stage,    \* "idle"; "writing"; "splitting", "posting"; "refused", "sent", "failed"
  call,     \* Telegram: the call OutboundParams chose
  text,     \* Discord: the text to send,
  rest,     \* the runes splitContent has not cut yet,
  chunks,   \* its chunks so far,
  posted    \* and the ones posted

discord == <<text, rest, chunks, posted>>
letterVars == <<origin, letter, author, stage, call, discord>>

ASSUME LettersAssumption ==
  /\ ContentLimit \in Nat \ {0} /\ BreakWindow \in Nat /\ MaxBuilds \in Nat
  /\ NoChat \notin Chats
  /\ \A s \in Texts : s \in Seq(STRING)

LettersInit ==
  /\ origin = [kind |-> "none", from |-> FALSE, chat |-> NoChat, body |-> {}]
  /\ letter = NoLetter /\ author = "nobody" /\ stage = "idle"
  /\ call = [kind |-> "none", chat |-> NoChat]
  /\ text = <<>> /\ rest = <<>> /\ chunks = <<>> /\ posted = <<>>

---------------------------------------------------------------------------
(* Telegram in: what of an update reaches the router.                       *)

\* The bodies Telegram can send for each kind of update; a reaction update says
\* which emoji the person held before and holds now.
Updates ==
  [kind : {"message", "edited"}, from : BOOLEAN, chat : Chats,
   body : SUBSET {"media", "text"}]
  \cup [kind : {"callback"}, from : BOOLEAN, chat : Chats \cup {NoChat},
        body : SUBSET {"id", "data"}]
  \cup [kind : {"reaction"}, from : BOOLEAN, chat : Chats,
        body : SUBSET {"old", "new", "same"}]
  \cup [kind : {"other"}, from : {FALSE}, chat : {NoChat}, body : {{}}]

\* computeReactionDiff: a change between two sets of emoji, or nothing.
computeReactionDiff(body) == "same" \notin body /\ body # {}

\* InboundFromUpdate converts, or has nothing to say.
InboundFromUpdate(u) ==
  CASE u.kind \in {"message", "edited"} -> u.from /\ u.body # {}
    [] u.kind = "callback" -> u.from /\ u.body = {"id", "data"}
    [] u.kind = "reaction" -> u.from /\ computeReactionDiff(u.body)
    [] OTHER -> FALSE

\* DispatchInbound takes an envelope that names a conversation; the adapter has
\* copied the chat id there.  (A callback on a message Telegram no longer shows
\* names none.)
Answerable(u) == InboundFromUpdate(u) /\ u.chat # NoChat

UpdateComes ==
  /\ stage = "idle"
  /\ \E u \in Updates : Answerable(u) /\ origin' = u
  /\ \E who \in {"brain", "operator", "builder"} :
       /\ author' = who
       /\ letter' = [op |-> "none", parts |-> <<>>, keyboard |-> "none",
                     chat |-> IF who = "operator" THEN NoChat ELSE origin'.chat,
                     conv |-> origin'.chat,
                     callback |-> who # "operator" /\ origin'.kind = "callback",
                     message |-> who # "operator"]
  /\ stage' = "writing"
  /\ UNCHANGED <<call, discord>>

---------------------------------------------------------------------------
(* The builder.  A brain and the operator write one text and nothing else.   *)

Part(type, full) == [type |-> type, full |-> full]

AddedParts == [type : Media \cup {"text", "callback", "reaction"}, full : BOOLEAN]
              \cup {Part("location", TRUE)}

\* What SetEditText, SetDelete and the others put in place of the parts.
SetForms ==
  [op : {"edit text", "edit caption"}, parts : {<<Part("text", full)>> : full \in BOOLEAN}]
  \cup [op : {"delete", "callback ack", "reactions"}, parts : {<<>>}]
  \cup [op : {"callback ack", "reactions"}, parts : {<<Part("text", TRUE)>>}]
  \cup [op : {"reactions"}, parts : {<<Part("text", TRUE), Part("text", FALSE)>>}]

\* The calls of builder.go, and what each leaves in the envelope.
Builds(e) ==
  {[e EXCEPT !.parts = Append(@, p)] : p \in AddedParts}
  \cup {[e EXCEPT !.keyboard = k] : k \in {"good", "bad"}}
  \cup {[e EXCEPT !.op = f.op, !.parts = f.parts] : f \in SetForms}

Build ==
  /\ stage = "writing" /\ author = "builder" /\ Len(letter.parts) < MaxBuilds
  /\ letter' \in Builds(letter)
  /\ UNCHANGED <<origin, author, stage, call, discord>>

\* decisionToEnvelopes and the console's reply door: New and one AddText.
WriteReply ==
  /\ stage = "writing" /\ author \in {"brain", "operator"} /\ letter.parts = <<>>
  /\ letter' = [letter EXCEPT !.parts = <<Part("text", TRUE)>>]
  /\ UNCHANGED <<origin, author, stage, call, discord>>

---------------------------------------------------------------------------
(* Validate.                                                                *)

Has(parts, type) == \E i \in DOMAIN parts : parts[i].type = type

validateExclusivePartTypes(parts) ==
  Len(parts) > 1 => /\ ~Has(parts, "callback")
                    /\ Has(parts, "reaction") => \A i \in DOMAIN parts : parts[i].type = "reaction"

\* What each operation allows of parts and keyboard.
validateOperation(e) ==
  /\ \A i \in DOMAIN e.parts :
       e.parts[i].type = "text" /\ (e.op # "edit caption" => e.parts[i].full)
  /\ CASE e.op \in {"edit text", "edit caption"} -> Len(e.parts) = 1
       [] e.op = "delete" -> e.parts = <<>> /\ e.keyboard = "none"
       [] e.op = "callback ack" -> Len(e.parts) <= 1 /\ e.keyboard = "none"
       [] e.op = "reactions" -> e.keyboard = "none"

\* A message's parts: some, exclusive where they must be, each well formed.
validateParts(parts) ==
  /\ parts # <<>> /\ validateExclusivePartTypes(parts)
  /\ \A i \in DOMAIN parts : parts[i].full

validateKeyboard(e) == e.keyboard # "bad"

Validate(e) ==
  /\ IF e.op # "none" THEN validateOperation(e)
     ELSE validateParts(e.parts)
  /\ validateKeyboard(e)

---------------------------------------------------------------------------
(* Telegram out: OutboundParams, then one call.                             *)

Refusal == [kind |-> "refused", chat |-> NoChat]

\* Mutant: only the channel's own key addresses an envelope.
chatKeyOnly(e) == e.chat

\* parseChatID: the chat key, or else the conversation's id, which is the chat's.
parseChatID(e) == IF e.chat # NoChat THEN e.chat ELSE e.conv

\* outboundOperation and the functions it picks.  The edits index the first part,
\* which SetEditText and SetEditCaption put there.
outboundOperation(e) ==
  IF e.op = "callback ack"
  THEN IF e.callback THEN [kind |-> e.op, chat |-> NoChat] ELSE Refusal
  ELSE IF parseChatID(e) = NoChat \/ ~e.message THEN Refusal
  ELSE [kind |-> e.op, chat |-> parseChatID(e)]

\* classifyParts and the message-shaped dispatch.
outboundMessage(e) ==
  LET media == {i \in DOMAIN e.parts : e.parts[i].type # "text"}
      one == e.parts[CHOOSE i \in media : TRUE] IN
  IF parseChatID(e) = NoChat \/ Cardinality(media) > 1 THEN Refusal
  ELSE IF media = {}
  THEN IF \E i \in DOMAIN e.parts : e.parts[i].full
       THEN [kind |-> "message", chat |-> parseChatID(e)] ELSE Refusal
  ELSE IF one.type \in Media \cup {"location"} /\ one.full
       THEN [kind |-> one.type, chat |-> parseChatID(e)] ELSE Refusal

OutboundParams(e) == IF e.op # "none" THEN outboundOperation(e) ELSE outboundMessage(e)

\* Send, of whatever was written: a refusal, or the one call, which may fail.
TelegramSend ==
  /\ stage = "writing" /\ (author = "builder" \/ letter.parts # <<>>)
  /\ call' = OutboundParams(letter)
  /\ stage' \in IF call'.kind = "refused" THEN {"failed"} ELSE {"sent", "failed"}
  /\ UNCHANGED <<origin, letter, author, discord>>

---------------------------------------------------------------------------
(* Discord out: the text is cut into chunks, then they are posted.           *)

\* How many of the first runes a chunk takes: up to the last newline, else the last
\* space, of the window before the limit; else the limit.
lastBreak(runes) ==
  LET lo == IF ContentLimit - BreakWindow < 1 THEN 1 ELSE ContentLimit - BreakWindow
      at(rune) == {n \in (lo + 1)..ContentLimit : runes[n] = rune}
      last(set) == CHOOSE n \in set : \A k \in set : k <= n IN
  IF at("\n") # {} THEN last(at("\n")) ELSE IF at(" ") # {} THEN last(at(" "))
  ELSE ContentLimit

\* Send's gates: a channel id that is a snowflake, a text that is not blank.
DiscordSend ==
  /\ stage = "idle"
  /\ \E s \in Texts :
       /\ text' = s /\ rest' = s
       /\ stage' = IF \A i \in DOMAIN s : s[i] \in {" ", "\n"} THEN "refused" ELSE "splitting"
  /\ UNCHANGED <<origin, letter, author, call, chunks, posted>>

\* One turn of the loop cuts at n and keeps the first runes of it.
CutChunk(n, kept) ==
  /\ chunks' = Append(chunks, SubSeq(rest, 1, kept))
  /\ rest' = SubSeq(rest, n + 1, Len(rest))

\* What is left at the end of the loop, if anything is.
LastChunk ==
  /\ chunks' = IF rest # <<>> THEN Append(chunks, rest) ELSE chunks
  /\ rest' = <<>> /\ stage' = "posting"

\* Mutant: the rune a chunk is cut on is dropped.
splitDroppingBreak ==
  /\ stage = "splitting"
  /\ \/ Len(rest) > ContentLimit /\ CutChunk(lastBreak(rest), lastBreak(rest) - 1) /\ UNCHANGED stage
     \/ Len(rest) <= ContentLimit /\ LastChunk
  /\ UNCHANGED <<origin, letter, author, call, text, posted>>

splitContent ==
  /\ stage = "splitting"
  /\ \/ Len(rest) > ContentLimit /\ CutChunk(lastBreak(rest), lastBreak(rest)) /\ UNCHANGED stage
     \/ Len(rest) <= ContentLimit /\ LastChunk
  /\ UNCHANGED <<origin, letter, author, call, text, posted>>

\* The chunks go out in order until one fails.
postMessage ==
  /\ stage = "posting"
  /\ \/ /\ posted' = Append(posted, chunks[Len(posted) + 1])
        /\ stage' = IF Len(posted') = Len(chunks) THEN "sent" ELSE "posting"
     \/ stage' = "failed" /\ UNCHANGED posted
  /\ UNCHANGED <<origin, letter, author, call, text, rest, chunks>>

---------------------------------------------------------------------------

LettersNext == UpdateComes \/ Build \/ WriteReply \/ TelegramSend
               \/ DiscordSend \/ splitContent \/ postMessage

LettersSpec == LettersInit /\ [][LettersNext]_letterVars

---------------------------------------------------------------------------
(* Properties.                                                              *)

\* What the Bot API has no call for: an acknowledgement of no callback, a callback or
\* a reaction as a part, several parts that are not text.
NoCallFor(e) ==
  \/ e.op = "callback ack" /\ ~e.callback
  \/ Has(e.parts, "callback") \/ Has(e.parts, "reaction")
  \/ Cardinality({i \in DOMAIN e.parts : e.parts[i].type # "text"}) > 1

\* An answer reaches the chat the update came from: a brain's reply and an
\* operator's, who addresses it by the bare conversation key, are never refused;
\* whatever the builder made, Send refuses nothing that Validate would accept unless
\* the API has no call for it, and a call that names a chat names the update's; only
\* the acknowledgement of a callback names none.
AnswersReachTheirChat ==
  /\ author \in {"brain", "operator"} => call.kind \in {"none", "message"}
  /\ call.kind = "refused" /\ Validate(letter) => NoCallFor(letter)
  /\ call.kind \notin {"none", "refused", "callback ack"} => call.chat = origin.chat
  /\ call.chat \in {NoChat, origin.chat}

\* Discord gets the text whole and in order: the chunks posted are within the
\* limit and are, end to end, a prefix of the text, all of it when Send succeeds.
ChunksAreTheText ==
  \E ends \in [0..Len(posted) -> 0..Len(text)] :
    /\ ends[0] = 0
    /\ \A k \in 1..Len(posted) :
         /\ ends[k] - ends[k - 1] \in 1..ContentLimit
         /\ posted[k] = SubSeq(text, ends[k - 1] + 1, ends[k])
    /\ stage = "sent" => ends[Len(posted)] = Len(text)
=============================================================================
