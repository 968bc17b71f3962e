------------------------------ MODULE Subscriber ------------------------------
(***************************************************************************)
(* Subscribers: ChatService.handleNewMessage finds or creates the sender   *)
(* of a message and leaves the message to the bot unless a user has taken  *)
(* the sender over; the blocks the bot sends assign labels to the sender   *)
(* and hand the sender over to a user (BotService.sendMessageToSubscriber, *)
(* SubscriberService.assignLabels and handOver).                           *)
(*                                                                         *)
(* The messages are those of one sender, one foreign id.  Their handlers   *)
(* run at the same time and work on copies of the subscriber; an action is *)
(* the code between two awaits.  Nothing makes the foreign id unique: a    *)
(* subscriber is named after the message that created it, or is the one    *)
(* the web channel created with its session before any message.            *)
(***************************************************************************)
EXTENDS Naturals

CONSTANTS
  Msgs,             \* messages of one sender
  Visitor,          \* the subscriber created with a web session
  Labels,
  Groups, NoGroup,
  Group,            \* Group[l]: the group of label l, or NoGroup
  Users, NoUser,
  BlockLabels,      \* the assign_labels of the blocks
  BlockAssignees,   \* the options.assignTo of the blocks, NoUser for none
  Modes             \* the circumstances considered; of each,
                    \* existing: {Visitor} for a web session, or {};
                    \* operators: what they do: "assign", "labels";
                    \* overlap: FALSE: a message comes when the last one is
                    \* handled;
                    \* faults: "db": a query fails; "crash": the server stops;
                    \* chain: bound of the blocks sent for one message

Ids == Msgs \cup {Visitor}

ASSUME LabelsAssumption ==
  /\ Visitor \notin Msgs
  /\ NoGroup \notin Groups
  /\ Group \in [Labels -> Groups \cup {NoGroup}]
  /\ NoUser \notin Users
  /\ BlockLabels \subseteq SUBSET Labels
  /\ BlockAssignees \subseteq Users \cup {NoUser}
  /\ Modes \subseteq [existing : SUBSET {Visitor}, operators : SUBSET {"assign", "labels"},
                      overlap : BOOLEAN, faults : SUBSET {"db", "crash"}, chain : Nat]

VARIABLES
  mode,        \* the circumstances of this behaviour, which never change
  subscribers, \* the documents with this foreign id
  labels,      \* labels[s]
  assignedTo,  \* assignedTo[s]: the user who took s over, or NoUser
  pc,          \* pc[m]: where the handler of m is
  who,         \* who[m]: the subscriber it found or created
  assignee,    \* assignee[m]: assignedTo in the copy handleNewMessage has
  known,       \* known[m]: the labels in the copy the event has
  push, pull,  \* push[m], pull[m]: the labels it adds and removes
  assignTo,    \* assignTo[m]: whom the block hands the sender over to
  count,       \* count[m]: the blocks sent for m
  free,        \* history: messages since whose arrival the sender was free
  held         \* history: the <<subscriber, group>> of which a handler has put a
               \* label in place; not those a handler left empty when it stopped
               \* between the two writes of updateLabels

documents == <<subscribers, labels, assignedTo>>

local == <<who, assignee, known, push, pull, assignTo, count>>

vars == <<mode, documents, pc, local, free, held>>

-----------------------------------------------------------------------------

Location == {"idle", "find", "create", "avatar", "enrich", "bot",
             "labels", "pull", "push", "handover", "done"}

Init ==
  /\ mode \in Modes
  /\ subscribers = mode.existing
  /\ labels = [s \in Ids |-> {}]
  /\ assignedTo = [s \in Ids |-> NoUser]
  /\ pc = [m \in Msgs |-> "idle"]
  /\ who = [m \in Msgs |-> m]
  /\ assignee = [m \in Msgs |-> NoUser]
  /\ known = [m \in Msgs |-> {}]
  /\ push = [m \in Msgs |-> {}]
  /\ pull = [m \in Msgs |-> {}]
  /\ assignTo = [m \in Msgs |-> NoUser]
  /\ count = [m \in Msgs |-> 0]
  /\ free = {}
  /\ held = {}

At(m, l) == pc[m] = l

Goto(m, l) == pc' = [pc EXCEPT ![m] = l]

Resume(m, l) ==
  /\ Goto(m, l)
  /\ UNCHANGED <<mode, documents, local, free, held>>

\* The error is logged and the message is done with: by handleNewMessage, or
\* by triggerBlock, which ends the conversation.
Fail(m) == "db" \in mode.faults /\ Resume(m, "done")

Busy(m) == pc[m] \notin {"idle", "done"}

\* Nobody has taken the sender over.
Free == \A s \in subscribers : assignedTo[s] = NoUser

Exclusive(l, n) == Group[l] = Group[n] /\ Group[l] # NoGroup

InGroup(s, g) == \E l \in labels[s] : Group[l] = g

\* The groups of the labels that the handler of m adds.
Replaced(m) == {who[m]} \X ({Group[l] : l \in push[m]} \ {NoGroup})

\* What is held when the handlers of msgs stop before their second write.
Kept(msgs) == {h \in held : InGroup(h[1], h[2]) \/ \A m \in msgs : h \notin Replaced(m)}

-----------------------------------------------------------------------------
(* handleNewMessage.                                                       *)

ReceiveMessage(m) ==
  /\ At(m, "idle")
  /\ mode.overlap \/ \A n \in Msgs : ~Busy(n)
  /\ Goto(m, "find")
  /\ free' = IF Free THEN free \cup {m} ELSE free
  /\ UNCHANGED <<mode, documents, local, held>>

FindSubscriber(m) ==
  /\ At(m, "find")
  /\ \/ \E s \in subscribers :
          /\ Goto(m, "enrich")
          /\ who' = [who EXCEPT ![m] = s]
          /\ assignee' = [assignee EXCEPT ![m] = assignedTo[s]]
          /\ known' = [known EXCEPT ![m] = labels[s]]
          /\ UNCHANGED <<mode, documents, push, pull, assignTo, count, free, held>>
     \/ subscribers = {} /\ Resume(m, "create")
     \/ Fail(m)

\* The channel is asked for the sender's data in the meantime.
CreateSubscriber(m) ==
  /\ At(m, "create")
  /\ \/ /\ subscribers' = subscribers \cup {m}
        /\ Goto(m, "avatar")
        /\ UNCHANGED <<mode, labels, assignedTo, local, free, held>>
     \/ Fail(m)

\* storeAvatar returns the updated subscriber; its failure is only logged.
StoreAvatar(m) ==
  /\ At(m, "avatar")
  /\ Goto(m, "enrich")
  /\ \/ /\ assignee' = [assignee EXCEPT ![m] = assignedTo[who[m]]]
        /\ known' = [known EXCEPT ![m] = labels[who[m]]]
     \/ UNCHANGED <<mode, assignee, known>>
  /\ UNCHANGED <<mode, documents, who, push, pull, assignTo, count, free, held>>

\* enrichEventWithNLU: when it stores the language found it gives the event a
\* new copy; handleNewMessage goes on with the one it has.
TakenOver_Never(m) == FALSE
TakenOver(m) == assignee[m] # NoUser

EnrichEvent(m) ==
  /\ At(m, "enrich")
  /\ Goto(m, IF TakenOver(m) THEN "done" ELSE "bot")
  /\ \/ known' = [known EXCEPT ![m] = labels[who[m]]]
     \/ UNCHANGED known
  /\ UNCHANGED <<mode, documents, who, assignee, push, pull, assignTo, count, free, held>>

-----------------------------------------------------------------------------
(* triggerBlock and sendMessageToSubscriber.                               *)

\* Where the handler goes to apply the updates of a block.
HandOverOrNext(user) == IF user = NoUser THEN "bot" ELSE "handover"

\* The bot sends a block, the first or an attached one.
SendBlock(m) ==
  /\ At(m, "bot")
  /\ count[m] < mode.chain
  /\ \E added \in BlockLabels, user \in BlockAssignees :
       /\ push' = [push EXCEPT ![m] = added]
       /\ assignTo' = [assignTo EXCEPT ![m] = user]
       /\ Goto(m, IF added = {} THEN HandOverOrNext(user) ELSE "labels")
  /\ count' = [count EXCEPT ![m] = @ + 1]
  /\ UNCHANGED <<mode, documents, who, assignee, known, pull, free, held>>

\* There is nothing more to send, or it could not be sent.
FinishMessage(m) ==
  /\ At(m, "bot")
  /\ Resume(m, "done")

\* assignLabels looks for labels to remove in the copy the event has.
LabelsToPull_Known(m) == known[m]
LabelsToPull(m) == {l \in known[m] : \E n \in push[m] : Exclusive(l, n)}

FindExclusiveLabels(m) ==
  /\ At(m, "labels")
  /\ \/ /\ pull' = [pull EXCEPT ![m] = LabelsToPull(m)]
        /\ Goto(m, IF LabelsToPull(m) = {} THEN "push" ELSE "pull")
        /\ UNCHANGED <<mode, documents, who, assignee, known, push, assignTo, count, free, held>>
     \/ Fail(m)

\* updateLabels, one write after the other.
PullLabels(m) ==
  /\ At(m, "pull")
  /\ \/ /\ labels' = [labels EXCEPT ![who[m]] = @ \ pull[m]]
        /\ Goto(m, "push")
        /\ UNCHANGED <<mode, subscribers, assignedTo, local, free, held>>
     \/ Fail(m)

\* The event gets the updated subscriber.
PushLabels_Stale(m) ==
  /\ At(m, "push")
  /\ labels' = [labels EXCEPT ![who[m]] = @ \cup push[m]]
  /\ held' = held \cup Replaced(m)
  /\ Goto(m, HandOverOrNext(assignTo[m]))
  /\ UNCHANGED <<mode, subscribers, assignedTo, local, free>>
PushLabels(m) ==
  /\ At(m, "push")
  /\ \/ /\ labels' = [labels EXCEPT ![who[m]] = @ \cup push[m]]
        /\ known' = [known EXCEPT ![m] = labels[who[m]] \cup push[m]]
        /\ held' = held \cup Replaced(m)
        /\ Goto(m, HandOverOrNext(assignTo[m]))
        /\ UNCHANGED <<mode, subscribers, assignedTo, who, assignee, push, pull,
                       assignTo, count, free>>
     \/ /\ "db" \in mode.faults
        /\ Goto(m, "done")
        /\ held' = Kept({m})
        /\ UNCHANGED <<mode, documents, local, free>>

\* The copy of handleNewMessage has been looked at already: the attached
\* blocks are still sent.
HandOver(m) ==
  /\ At(m, "handover")
  /\ \/ /\ assignedTo' = [assignedTo EXCEPT ![who[m]] = assignTo[m]]
        /\ known' = [known EXCEPT ![m] = labels[who[m]]]
        /\ Goto(m, "bot")
        /\ UNCHANGED <<mode, subscribers, labels, who, assignee, push, pull,
                       assignTo, count, free, held>>
     \/ Fail(m)

-----------------------------------------------------------------------------
(* Operators, who update subscribers in the inbox; and crashes.            *)

\* A user takes the sender over, or hands it back to the bot.
Assign(s, user) ==
  /\ "assign" \in mode.operators
  /\ s \in subscribers
  /\ assignedTo' = [assignedTo EXCEPT ![s] = user]
  /\ UNCHANGED <<mode, subscribers, labels, pc, local, held>>
  /\ free' = IF Free' THEN free \cup {m \in Msgs : Busy(m)} ELSE free

EditLabels(s, set) ==
  /\ "labels" \in mode.operators
  /\ s \in subscribers
  /\ labels' = [labels EXCEPT ![s] = set]
  /\ UNCHANGED <<mode, subscribers, assignedTo, pc, local, free, held>>

\* Messages that were being handled are not handled any further.
Crash ==
  /\ "crash" \in mode.faults
  /\ pc' = [m \in Msgs |-> IF Busy(m) THEN "done" ELSE pc[m]]
  /\ held' = Kept({m \in Msgs : At(m, "push")})
  /\ UNCHANGED <<mode, documents, local, free>>

-----------------------------------------------------------------------------

HandlerStep(m) ==
  \/ FindSubscriber(m) \/ CreateSubscriber(m) \/ StoreAvatar(m) \/ EnrichEvent(m)
  \/ SendBlock(m) \/ FinishMessage(m)
  \/ FindExclusiveLabels(m) \/ PullLabels(m) \/ PushLabels(m) \/ HandOver(m)

Next ==
  \/ \E m \in Msgs : ReceiveMessage(m) \/ HandlerStep(m)
  \/ \E s \in Ids :
       \/ \E user \in Users \cup {NoUser} : Assign(s, user)
       \/ \E set \in SUBSET Labels : EditLabels(s, set)
  \/ Crash

Spec == Init /\ [][Next]_vars

-----------------------------------------------------------------------------
(* Properties.                                                             *)

TypeOK ==
  /\ mode \in Modes
  /\ subscribers \in SUBSET Ids
  /\ labels \in [Ids -> SUBSET Labels]
  /\ assignedTo \in [Ids -> Users \cup {NoUser}]
  /\ pc \in [Msgs -> Location]
  /\ who \in [Msgs -> Ids]
  /\ assignee \in [Msgs -> Users \cup {NoUser}]
  /\ known \in [Msgs -> SUBSET Labels]
  /\ push \in [Msgs -> SUBSET Labels]
  /\ pull \in [Msgs -> SUBSET Labels]
  /\ assignTo \in [Msgs -> Users \cup {NoUser}]
  /\ count \in [Msgs -> 0 .. mode.chain]
  /\ free \in SUBSET Msgs
  /\ held \in SUBSET (Ids \X Groups)

\* Labels of one group are mutually exclusive, "only one allowed at a time".
\* True when messages come one after the other, blocks assign at most one
\* label of a group and operators leave labels alone: the copy of the labels
\* is kept up to date along a chain of blocks (assignLabels, setSender).
OneLabelPerGroup ==
  ~mode.overlap /\ "labels" \notin mode.operators =>
    \A s \in Ids : \A l, n \in labels[s] : Exclusive(l, n) => l = n

\* A message that arrives while the sender is taken over, and is not handed
\* back in the meantime, gets no reply of the bot (handleNewMessage).  True of
\* senders that have one subscriber.
SilentWhileTakenOver ==
  mode.existing # {} => \A m \in Msgs : count[m] > 0 => m \in free

\* Once a block has given a subscriber a label of a group, the subscriber has
\* one of the group, whichever messages overlap; except between the two writes
\* of updateLabels, and after a query that failed or a server that stopped
\* there.  True when operators leave labels alone.
GroupsHeld ==
  "labels" \notin mode.operators =>
    \A h \in held : \/ InGroup(h[1], h[2])
                    \/ \E m \in Msgs : At(m, "push") /\ h \in Replaced(m)

=============================================================================
