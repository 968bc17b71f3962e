--------------------------------- MODULE Bot ---------------------------------
(***************************************************************************)
(* The conversation engine: BotService and ConversationService, with the   *)
(* 'hook:conversation:end' listener of ChatService.                        *)
(*                                                                         *)
(* Every incoming message runs handleMessageEvent() as a process of its    *)
(* own.  The handlers share only the database; a handler is suspended at   *)
(* every await, so one action below is the code between two awaits.        *)
(* Ending a conversation is an event: the emitter goes on and the listener *)
(* writes active = false some time later.                                  *)
(*                                                                         *)
(* A message opens at most one conversation, so a conversation is named    *)
(* after the message that opened it.  Which block a text matches is the    *)
(* business of BlockService.match(): here any candidate may match.         *)
(***************************************************************************)
EXTENDS Naturals, FiniteSets

CONSTANTS
  Msgs,           \* incoming messages, and the conversations they open
  Subs, Sender,   \* subscribers; Sender[m] sent message m
  TextMsgs,       \* the messages of type "message" (not a payload, a location..)
  NoConvo,
  Blocks, NoBlock,
  NextBlocks,     \* NextBlocks[b]: the blocks a reply to b may lead to
  AttachedBlock,  \* AttachedBlock[b]: the block sent right after b, or NoBlock
  SystemBlocks,   \* plugin blocks that yield an outcome instead of a message
  EntryBlocks,    \* starts_conversation
  CaptureBlocks,  \* blocks with capture_vars
  MaxAttempts,    \* max_attempts of an active local fallback, else 0
  AttemptLimit,   \* bound of MaxAttempts
  GlobalFallback, \* setting global_fallback
  FallbackBlock,  \* setting fallback_block, or NoBlock
  Overlap,        \* FALSE: subscribers wait until the bot is quiet
  Faults          \* which calls may fail: "db", "channel"

ASSUME CatalogueAssumption ==
  /\ NoBlock \notin Blocks
  /\ NoConvo \notin Msgs
  /\ Sender \in [Msgs -> Subs]
  /\ TextMsgs \subseteq Msgs
  /\ NextBlocks \in [Blocks -> SUBSET Blocks]
  /\ AttachedBlock \in [Blocks -> Blocks \cup {NoBlock}]
  /\ SystemBlocks \subseteq Blocks
  /\ EntryBlocks \subseteq Blocks
  /\ CaptureBlocks \subseteq Blocks
  /\ AttemptLimit \in Nat
  /\ MaxAttempts \in [Blocks -> 0 .. AttemptLimit]
  /\ GlobalFallback \in BOOLEAN
  /\ FallbackBlock \in Blocks \cup {NoBlock}
  /\ Overlap \in BOOLEAN
  /\ Faults \subseteq {"db", "channel"}

VARIABLES
  convo,    \* the conversations collection
  pc,       \* pc[m]: where the handler of message m is
  on,       \* on[m]: the conversation it works on
  seen,     \* seen[m]: its copy of that conversation's document
  block,    \* block[m]: the block it runs or is about to run
  fallback, \* fallback[m]: it runs the block as a local fallback
  ending,   \* conversations whose 'hook:conversation:end' is emitted, not applied
  sent      \* history: sent[m] is the set of <<conversation, block>> replies to m

local == <<on, seen, block, fallback>>

vars == <<convo, pc, local, ending, sent>>

-----------------------------------------------------------------------------
(* Documents and handlers.                                                 *)

Convo == [status   : {"absent", "active", "ended"},
          current  : Blocks \cup {NoBlock},
          next     : SUBSET Blocks,
          attempt  : Nat,
          captured : SUBSET Msgs]

\* The schema's defaults, with getDefaultConversationContext().
NewConvo == [status |-> "active", current |-> NoBlock, next |-> {},
             attempt |-> 0, captured |-> {}]

\* No document with this id.
NoDocument == [NewConvo EXCEPT !.status = "absent"]

Location == {"idle", "find", "match", "escape", "store", "process", "send",
             "follow", "outcome", "entry", "fallback", "create", "storeEntry",
             "done"}

\* Where a handler is inside triggerBlock().
Triggering == {"process", "send", "follow", "outcome"}

\* Where a handler works on the conversation on[m].
Working == {"match", "escape", "store", "storeEntry"} \cup Triggering

Init ==
  /\ convo = [c \in Msgs |-> NoDocument]
  /\ pc = [m \in Msgs |-> "idle"]
  /\ on = [m \in Msgs |-> NoConvo]
  /\ seen = [m \in Msgs |-> NewConvo]
  /\ block = [m \in Msgs |-> NoBlock]
  /\ fallback = [m \in Msgs |-> FALSE]
  /\ ending = {}
  /\ sent = [m \in Msgs |-> {}]

-----------------------------------------------------------------------------
(* Steps shared by the actions.                                            *)

At(m, l) == pc[m] = l

Goto(m, l) == pc' = [pc EXCEPT ![m] = l]

EmitEnd(c) == ending' = ending \cup {c}

\* The run goes on and only its place changes.
Resume(m, l) ==
  /\ Goto(m, l)
  /\ UNCHANGED <<convo, local, ending, sent>>

\* The conversation could not take the message: it is ended and the message
\* goes on to the entry blocks, for processConversationMessage() returned
\* false or null.
Abandon_Silently(m) == Resume(m, "entry")
Abandon(m) ==
  /\ EmitEnd(on[m])
  /\ Goto(m, "entry")
  /\ UNCHANGED <<convo, local, sent>>

\* The flow is over: emit the end of the conversation and return.
EndFlow_Silently(m) == Resume(m, "done")
EndFlow_NotCaptured(m) == Abandon(m)
EndFlow(m) ==
  /\ EmitEnd(on[m])
  /\ Goto(m, "done")
  /\ UNCHANGED <<convo, local, sent>>

\* The run of block[m], as triggerBlock() sees it.  A local fallback runs the
\* current block again with nextBlocks = convo.next, no attached block, and
\* the fallback text in place of the message or plugin.
Chained_Never(m) == NoBlock
Chained(m)   == IF fallback[m] THEN NoBlock ELSE AttachedBlock[block[m]]
Followers(m) == IF fallback[m] THEN seen[m].next ELSE NextBlocks[block[m]]
IsSystem(m)  == ~fallback[m] /\ block[m] \in SystemBlocks

\* Subscriber s is quiet: no message of s is being handled and no
\* conversation of s has an end to come.
Busy(m)  == pc[m] \notin {"idle", "done"}
Quiet(s) == \A m \in Msgs : Sender[m] = s => ~Busy(m) /\ m \notin ending

-----------------------------------------------------------------------------
(* handleMessageEvent and processConversationMessage.                      *)

\* The channel hands message m to the bot.
ReceiveMessage(m) ==
  /\ At(m, "idle")
  /\ Overlap \/ Quiet(Sender[m])
  /\ Resume(m, "find")

\* findOneAndPopulate({sender, active: true}) returns any active conversation
\* of the sender.
Active(s) == {c \in Msgs : Sender[c] = s /\ convo[c].status = "active"}

FindConversation(m) ==
  /\ At(m, "find")
  /\ \/ \E c \in Active(Sender[m]) :
          /\ Goto(m, "match")
          /\ on' = [on EXCEPT ![m] = c]
          /\ seen' = [seen EXCEPT ![m] = convo[c]]
          /\ UNCHANGED <<convo, block, fallback, ending, sent>>
     \/ /\ Active(Sender[m]) = {} \/ "db" \in Faults
        /\ Resume(m, "entry")

(* handleOngoingConversationMessage: match the reply against the next      *)
(* blocks.                                                                 *)

\* Only a message of type "message", and while the number of fallbacks made
\* does not exceed max_attempts.
ShouldAttemptLocalFallback(m) ==
  /\ m \in TextMsgs
  /\ MaxAttempts[seen[m].current] > 0
  /\ seen[m].attempt <= MaxAttempts[seen[m].current]

\* The handler is about to run block b, as a local fallback or not.
Select(m, l, b, isFallback) ==
  /\ Goto(m, l)
  /\ block' = [block EXCEPT ![m] = b]
  /\ fallback' = [fallback EXCEPT ![m] = isFallback]
  /\ UNCHANGED <<convo, on, seen, ending, sent>>

MatchNextBlock(m) ==
  /\ At(m, "match")
  /\ seen[m].current # NoBlock
  /\ \/ \E b \in seen[m].next : Select(m, "store", b, FALSE)
     \/ ShouldAttemptLocalFallback(m) /\ Resume(m, "escape")
     \/ /\ ~ShouldAttemptLocalFallback(m) \/ "db" \in Faults
        /\ Abandon(m)

\* The conversation has no current block yet: getFallbackOptions() throws.
MatchWithoutCurrent(m) ==
  /\ At(m, "match")
  /\ seen[m].current = NoBlock
  /\ Abandon(m)

\* handleFlowEscapeFallback: reprompt (also when there is no helper or it
\* fails), coerce to a next block, or give the conversation up.
HandleFlowEscape_ToEntry(m) ==
  At(m, "escape") /\ \E b \in EntryBlocks : Select(m, "store", b, FALSE)
HandleFlowEscape(m) ==
  /\ At(m, "escape")
  /\ \/ Select(m, "store", seen[m].current, TRUE)
     \/ \E b \in seen[m].next : Select(m, "store", b, FALSE)
     \/ Abandon(m)

-----------------------------------------------------------------------------
(* storeContextData: the whole context of the handler's copy replaces the  *)
(* context in the database.  The write of the permanent variables that     *)
(* follows may fail after the context is written.                          *)

WithContext_Revive(doc, attempt, captured) ==
  [doc EXCEPT !.attempt = attempt, !.captured = captured, !.status = "active"]
WithContext(doc, attempt, captured) ==
  [doc EXCEPT !.attempt = attempt, !.captured = captured]

NextAttempt_Decrement(m) ==
  IF fallback[m] THEN seen[m].attempt + 1 ELSE seen[m].attempt - 1
NextAttempt_NoReset(m) ==
  IF fallback[m] THEN seen[m].attempt + 1 ELSE seen[m].attempt
NextAttempt(m) == IF fallback[m] THEN seen[m].attempt + 1 ELSE 0

Captured_Forget(m) ==
  IF ~fallback[m] /\ block[m] \in CaptureBlocks THEN {m} ELSE seen[m].captured
Captured(m) ==
  IF ~fallback[m] /\ block[m] \in CaptureBlocks
  THEN seen[m].captured \cup {m} ELSE seen[m].captured

WriteContext(m, attempt, captured) ==
  convo' = [convo EXCEPT ![on[m]] = WithContext(convo[on[m]], attempt, captured)]

\* The context is stored and triggerBlock() is called.
StoreAndTrigger(m, attempt, captured) ==
  /\ WriteContext(m, attempt, captured)
  /\ Goto(m, "process")
  /\ seen' = [seen EXCEPT ![m] = WithContext(seen[m], attempt, captured)]
  /\ UNCHANGED <<on, block, fallback, ending, sent>>

\* The context is or is not stored, and storeContextData() throws.
StoreFails(m, attempt, captured) ==
  /\ "db" \in Faults
  /\ UNCHANGED convo \/ WriteContext(m, attempt, captured)
  /\ UNCHANGED <<local, sent>>

\* proceedToNextBlock
StoreContext(m) ==
  /\ At(m, "store")
  /\ \/ StoreAndTrigger(m, NextAttempt(m), Captured(m))
     \/ /\ StoreFails(m, NextAttempt(m), Captured(m))
        /\ EmitEnd(on[m])
        /\ Goto(m, "entry")

-----------------------------------------------------------------------------
(* triggerBlock: it never throws, so a message whose block was triggered   *)
(* counts as captured whatever happens below.                              *)

ProcessBlock(m) ==
  /\ At(m, "process")
  /\ \/ Resume(m, IF IsSystem(m) THEN "follow" ELSE "send")
     \/ "channel" \in Faults /\ EndFlow(m)

\* sendMessageToSubscriber
Reply(m) == sent' = [sent EXCEPT ![m] = @ \cup {<<on[m], block[m]>>}]

SendBlock(m) ==
  /\ At(m, "send")
  /\ \/ /\ Reply(m)
        /\ Goto(m, "follow")
        /\ UNCHANGED <<convo, local, ending>>
     \/ "channel" \in Faults /\ EndFlow(m)
     \/ /\ "db" \in Faults  \* the updates of the subscriber fail
        /\ Reply(m)
        /\ EmitEnd(on[m])
        /\ Goto(m, "done")
        /\ UNCHANGED <<convo, local>>

\* The attached block is run next; a missing one ends the conversation.
Continue(m, l, b) ==
  /\ Goto(m, l)
  /\ block' = [block EXCEPT ![m] = b]
  /\ UNCHANGED <<convo, on, seen, fallback, ending, sent>>

FollowAttached_Loop(m) ==
  At(m, "follow") /\ Chained(m) # NoBlock /\ Continue(m, "process", block[m])
FollowAttached(m) ==
  /\ At(m, "follow")
  /\ Chained(m) # NoBlock
  /\ \/ Continue(m, "process", Chained(m))
     \/ "db" \in Faults /\ EndFlow(m)

\* The outcome of a system block selects a next block, or none.  An error is
\* only logged: the conversation is left as it is.
MatchOutcome(m) ==
  /\ At(m, "follow")
  /\ Chained(m) = NoBlock
  /\ Followers(m) # {}
  /\ IsSystem(m)
  /\ \/ \E b \in Followers(m) : Continue(m, "outcome", b)
     \/ EndFlow(m)
     \/ "db" \in Faults /\ Resume(m, "done")

StoreOutcomeContext(m) ==
  /\ At(m, "outcome")
  /\ \/ StoreAndTrigger(m, seen[m].attempt, seen[m].captured)
     \/ /\ StoreFails(m, seen[m].attempt, seen[m].captured)
        /\ Goto(m, "done")
        /\ UNCHANGED ending

\* The conversation waits for a reply to the block; an error is only logged.
WithQuestion(doc, b, followers) == [doc EXCEPT !.current = b, !.next = followers]

WaitForReply(m) ==
  /\ At(m, "follow")
  /\ Chained(m) = NoBlock
  /\ Followers(m) # {}
  /\ ~IsSystem(m)
  /\ \/ convo' = [convo EXCEPT ![on[m]] =
                     WithQuestion(convo[on[m]], block[m], Followers(m))]
     \/ "db" \in Faults /\ UNCHANGED convo
  /\ Goto(m, "done")
  /\ UNCHANGED <<local, ending, sent>>

NoFollower(m) ==
  /\ At(m, "follow")
  /\ Chained(m) = NoBlock
  /\ Followers(m) = {}
  /\ EndFlow(m)

-----------------------------------------------------------------------------
(* handleMessageEvent, second part: entry blocks and the global fallback.  *)

MatchEntryBlock(m) ==
  /\ At(m, "entry")
  /\ \/ \E b \in EntryBlocks : Select(m, "create", b, FALSE)
     \/ Resume(m, IF GlobalFallback THEN "fallback" ELSE "done")
     \/ "db" \in Faults /\ Resume(m, "done")

\* The fallback block opens a conversation; without one, a plain message is
\* sent outside any conversation.
SendGlobalFallback(m) ==
  /\ At(m, "fallback")
  /\ \/ FallbackBlock # NoBlock /\ Select(m, "create", FallbackBlock, FALSE)
     \/ /\ FallbackBlock = NoBlock \/ "db" \in Faults
        /\ \/ sent' = [sent EXCEPT ![m] = @ \cup {<<NoConvo, NoBlock>>}]
           \/ "channel" \in Faults /\ UNCHANGED sent
        /\ Goto(m, "done")
        /\ UNCHANGED <<convo, local, ending>>

StartConversation(m) ==
  /\ At(m, "create")
  /\ \/ /\ convo' = [convo EXCEPT ![m] = NewConvo]
        /\ Goto(m, "storeEntry")
        /\ on' = [on EXCEPT ![m] = m]
        /\ seen' = [seen EXCEPT ![m] = NewConvo]
        /\ UNCHANGED <<block, fallback, ending, sent>>
     \/ "db" \in Faults /\ Resume(m, "done")

StoreEntryContext(m) ==
  /\ At(m, "storeEntry")
  /\ \/ StoreAndTrigger(m, seen[m].attempt, Captured(m))
     \/ /\ StoreFails(m, seen[m].attempt, Captured(m))
        /\ EmitEnd(on[m])
        /\ Goto(m, "done")

-----------------------------------------------------------------------------
(* ChatService.handleEndConversation: an error is only logged.             *)

Ended(doc) == [doc EXCEPT !.status = "ended"]

EndConversation(c) ==
  /\ c \in ending
  /\ ending' = ending \ {c}
  /\ \/ convo' = [convo EXCEPT ![c] = Ended(convo[c])]
     \/ "db" \in Faults /\ UNCHANGED convo
  /\ UNCHANGED <<pc, local, sent>>

-----------------------------------------------------------------------------

HandlerStep(m) ==
  \/ FindConversation(m) \/ MatchNextBlock(m) \/ MatchWithoutCurrent(m)
  \/ HandleFlowEscape(m) \/ StoreContext(m)
  \/ ProcessBlock(m) \/ SendBlock(m) \/ FollowAttached(m)
  \/ MatchOutcome(m) \/ StoreOutcomeContext(m)
  \/ WaitForReply(m) \/ NoFollower(m)
  \/ MatchEntryBlock(m) \/ SendGlobalFallback(m)
  \/ StartConversation(m) \/ StoreEntryContext(m)

Next ==
  \/ \E m \in Msgs : ReceiveMessage(m) \/ HandlerStep(m)
  \/ \E c \in Msgs : EndConversation(c)

Spec == Init /\ [][Next]_vars

\* Node resumes every awaited call that settles; the user is free to send or
\* not.
FairSpec == Spec /\ \A m \in Msgs : WF_vars(HandlerStep(m))

-----------------------------------------------------------------------------
(* Properties.                                                             *)

\* The collections hold documents and handlers of the right shape.
TypeOK ==
  /\ convo \in [Msgs -> Convo]
  /\ pc \in [Msgs -> Location]
  /\ on \in [Msgs -> Msgs \cup {NoConvo}]
  /\ seen \in [Msgs -> Convo]
  /\ block \in [Msgs -> Blocks \cup {NoBlock}]
  /\ fallback \in [Msgs -> BOOLEAN]
  /\ ending \subseteq Msgs
  /\ sent \in [Msgs -> SUBSET ((Msgs \cup {NoConvo}) \X (Blocks \cup {NoBlock}))]

\* The blocks at which a conversation can wait for a reply.
Questions == {b \in Blocks \ SystemBlocks :
                AttachedBlock[b] = NoBlock /\ NextBlocks[b] # {}}

\* The counter of local fallbacks stays within one of the largest
\* max_attempts, whichever handlers overwrite each other's context
\* (shouldAttemptLocalFallback, storeContextData).
AttemptBounded == \A c \in Msgs : convo[c].attempt <= AttemptLimit + 1

\* A conversation that has a current block waits at the end of a chain of
\* attached and system blocks, at a block that expects a reply, and its next
\* blocks are those of that block: also after a local fallback, which writes
\* both fields from a copy read earlier (triggerBlock, handleFlowEscapeFallback).
WaitsAtQuestion ==
  \A c \in Msgs : convo[c].current # NoBlock =>
    /\ convo[c].current \in Questions
    /\ convo[c].next = NextBlocks[convo[c].current]

\* A message is answered by one conversation only, or outside any: when an
\* ongoing conversation has replied, no other conversation is started for the
\* same message even if the flow failed later (proceedToNextBlock,
\* handleMessageEvent).
AnsweredByOneConversation ==
  \A m \in Msgs : \A r1, r2 \in sent[m] : r1[1] = r2[1]

\* When no write fails, a conversation nobody works on waits at a question or
\* is about to be ended: no path of the engine forgets a conversation
\* (triggerBlock, startConversation, handleOngoingConversationMessage).
NoneForgotten ==
  \A c \in Msgs :
    /\ convo[c].status = "active"
    /\ c \notin ending
    /\ \A m \in Msgs : on[m] = c => pc[m] \notin Working
    => convo[c].current # NoBlock

\* Every conversation goes through the life cycle of ConversationLifecycle.
Lifecycle == INSTANCE ConversationLifecycle WITH
  Conversations <- Msgs,
  NoQuestion <- NoBlock,
  stage <- [c \in Msgs |-> CASE convo[c].status = "absent" -> "absent"
                             [] convo[c].status = "active" -> "open"
                             [] convo[c].status = "ended"  -> "closed"],
  question <- [c \in Msgs |-> IF convo[c].status = "active"
                              THEN convo[c].current ELSE NoBlock]

\* The engine implements the life cycle: in particular an end that is applied
\* late closes a conversation for good, and a write to an ended conversation
\* does not revive it (updateOne in triggerBlock and storeContextData).
LifecycleSpec == Lifecycle!Spec

(* Properties of quiet subscribers (Overlap = FALSE).                      *)

\* When no write fails, a subscriber has at most one active conversation whose
\* end is not already on its way (startConversation never runs beside an open
\* conversation).
OneLiveConversation ==
  \A c, d \in Msgs :
    /\ Sender[c] = Sender[d]
    /\ {c, d} \subseteq Active(Sender[c]) \ ending
    => c = d

\* The stored counter never exceeds the limit of the block it counts for by
\* more than one, and does not count where there is no fallback: moving to
\* another block resets it before the move is written (proceedToNextBlock).
AttemptWithinBlockLimit ==
  \A c \in Msgs : LET doc == convo[c] IN
    doc.attempt > 0 => /\ doc.current # NoBlock
                       /\ MaxAttempts[doc.current] > 0
                       /\ doc.attempt <= MaxAttempts[doc.current] + 1

\* Writing back the whole context never loses what an earlier message left in
\* it (storeContextData).
CapturesKept ==
  [][\A c \in Msgs : convo[c].captured \subseteq convo'[c].captured]_vars

\* The blocks reached from a set of blocks without a reply from the user:
\* attached blocks, and the outcomes of system blocks.
Automatic(b) == IF AttachedBlock[b] # NoBlock THEN {AttachedBlock[b]}
                ELSE IF b \in SystemBlocks THEN NextBlocks[b] ELSE {}

Reach(start) ==
  {b \in Blocks : \A set \in SUBSET Blocks :
     (start \subseteq set /\ \A x \in set : Automatic(x) \subseteq set) => b \in set}

\* A conversation moves along the flow drawn in the editor: from no block to
\* one an entry block leads to, from a question to one a next block leads to.
FollowsFlow ==
  [][\A c \in Msgs : LET from == convo[c].current to == convo'[c].current IN
       to # from =>
         to \in Reach(IF from = NoBlock
                      THEN EntryBlocks \cup ({FallbackBlock} \ {NoBlock})
                      ELSE NextBlocks[from])]_vars

(* Liveness, when no write fails and the chains of attached and system     *)
(* blocks are finite.                                                      *)

\* Every message received is handled to the end.
EveryMessageHandled == \A m \in Msgs : At(m, "find") ~> At(m, "done")

=============================================================================
