--------------------------- MODULE SubscriberProofs ---------------------------
(***************************************************************************)
(* Theorems about Subscriber, for every set of messages, labels and users: *)
(* labels of a group exclude each other when messages come one by one, a   *)
(* group is not left empty but by a failure between two writes, and a      *)
(* sender who is taken over gets no reply to what he sends.                *)
(***************************************************************************)
EXTENDS Subscriber, TLAPS

USE LabelsAssumption

-----------------------------------------------------------------------------
(* Type correctness.                                                       *)

LEMMA GroupsTyped ==
  ASSUME TypeOK, NEW m \in Msgs
  PROVE  Replaced(m) \in SUBSET (Ids \X Groups)
<1>1. \A l \in push[m] : Group[l] \in Groups \cup {NoGroup}
  BY DEF TypeOK
<1>2. who[m] \in Ids
  BY DEF TypeOK
<1>3. QED
  BY <1>1, <1>2 DEF Replaced

LEMMA TypeStep == TypeOK /\ [Next]_vars => TypeOK'
<1> SUFFICES ASSUME TypeOK, [Next]_vars PROVE TypeOK'
  OBVIOUS
<1>u. USE DEF TypeOK, Location, At, Goto, Resume, Fail, documents, local
<1>1. ASSUME NEW m \in Msgs, ReceiveMessage(m) PROVE TypeOK'
  BY <1>1 DEF ReceiveMessage
<1>2. ASSUME NEW m \in Msgs, FindSubscriber(m) PROVE TypeOK'
  <2>1. ASSUME NEW s \in subscribers, Goto(m, "enrich"),
               who' = [who EXCEPT ![m] = s],
               assignee' = [assignee EXCEPT ![m] = assignedTo[s]],
               known' = [known EXCEPT ![m] = labels[s]],
               UNCHANGED <<mode, documents, push, pull, assignTo, count, free, held>>
        PROVE  TypeOK'
    BY <2>1
  <2>2. QED
    BY <1>2, <2>1 DEF FindSubscriber
<1>3. ASSUME NEW m \in Msgs, CreateSubscriber(m) PROVE TypeOK'
  BY <1>3 DEF CreateSubscriber, Ids
<1>4. ASSUME NEW m \in Msgs, StoreAvatar(m) PROVE TypeOK'
  BY <1>4 DEF StoreAvatar
<1>5. ASSUME NEW m \in Msgs, EnrichEvent(m) PROVE TypeOK'
  BY <1>5 DEF EnrichEvent
<1>6. ASSUME NEW m \in Msgs, SendBlock(m) PROVE TypeOK'
  <2>1. PICK added \in BlockLabels, user \in BlockAssignees :
          /\ push' = [push EXCEPT ![m] = added]
          /\ assignTo' = [assignTo EXCEPT ![m] = user]
          /\ Goto(m, IF added = {} THEN HandOverOrNext(user) ELSE "labels")
    BY <1>6 DEF SendBlock
  <2>2. count' \in [Msgs -> 0 .. mode.chain]
    BY <1>6 DEF SendBlock
  <2>3. QED
    BY <1>6, <2>1, <2>2 DEF SendBlock, HandOverOrNext
<1>7. ASSUME NEW m \in Msgs, FinishMessage(m) PROVE TypeOK'
  BY <1>7 DEF FinishMessage
<1>8. ASSUME NEW m \in Msgs, FindExclusiveLabels(m) PROVE TypeOK'
  <2>1. LabelsToPull(m) \in SUBSET Labels
    BY DEF LabelsToPull
  <2>2. QED
    BY <1>8, <2>1 DEF FindExclusiveLabels
<1>9. ASSUME NEW m \in Msgs, PullLabels(m) PROVE TypeOK'
  BY <1>9 DEF PullLabels
<1>10. ASSUME NEW m \in Msgs, PushLabels(m) PROVE TypeOK'
  <2>1. held' \in SUBSET (Ids \X Groups)
    BY <1>10, GroupsTyped DEF PushLabels, Kept
  <2>2. CASE /\ labels' = [labels EXCEPT ![who[m]] = @ \cup push[m]]
             /\ known' = [known EXCEPT ![m] = labels[who[m]] \cup push[m]]
             /\ Goto(m, HandOverOrNext(assignTo[m]))
             /\ UNCHANGED <<mode, subscribers, assignedTo, who, assignee, push, pull,
                            assignTo, count, free>>
    BY <2>1, <2>2 DEF HandOverOrNext
  <2>3. CASE Goto(m, "done") /\ UNCHANGED <<mode, documents, local, free>>
    BY <2>1, <2>3
  <2>4. QED
    BY <1>10, <2>2, <2>3 DEF PushLabels
<1>11. ASSUME NEW m \in Msgs, HandOver(m) PROVE TypeOK'
  BY <1>11 DEF HandOver
<1>12. ASSUME NEW s \in Ids, NEW user \in Users \cup {NoUser}, Assign(s, user)
       PROVE  TypeOK'
  BY <1>12 DEF Assign
<1>13. ASSUME NEW s \in Ids, NEW set \in SUBSET Labels, EditLabels(s, set)
       PROVE  TypeOK'
  BY <1>13 DEF EditLabels
<1>14. CASE Crash
  BY <1>14 DEF Crash, Kept
<1>15. CASE UNCHANGED vars
  BY <1>15 DEF vars
<1>16. QED
  BY <1>1, <1>2, <1>3, <1>4, <1>5, <1>6, <1>7, <1>8, <1>9, <1>10, <1>11, <1>12,
     <1>13, <1>14, <1>15 DEF Next, HandlerStep

\* Every reachable state is well typed.
THEOREM TypeCorrect == Spec => []TypeOK
<1>1. Init => TypeOK
  BY DEF Init, TypeOK, Ids, Location
<1>2. QED
  BY <1>1, TypeStep, PTL DEF Spec

LEMMA ModeKept == [Next]_vars => UNCHANGED mode
  BY DEF Next, HandlerStep, ReceiveMessage, FindSubscriber, CreateSubscriber, StoreAvatar,
         EnrichEvent, SendBlock, FinishMessage, FindExclusiveLabels, PullLabels, PushLabels,
         HandOver, Assign, EditLabels, Crash, Fail, Resume, vars

-----------------------------------------------------------------------------
(* Labels of a group exclude each other.                                   *)

\* Blocks assign at most one label of a group.
BlocksExclusive ==
  \A set \in BlockLabels : \A l, n \in set : Exclusive(l, n) => l = n

\* The copy a handler has is up to date, but between the two writes; and after
\* the first nothing excludes what the second adds.
CurrentAt(m) ==
  /\ pc[m] \in {"idle", "find", "create"} =>
       /\ m \notin subscribers /\ labels[m] = {}
       /\ who[m] = m /\ known[m] = {}
  /\ pc[m] \in {"avatar", "enrich", "bot", "labels", "pull", "push", "handover"} =>
       who[m] \in subscribers
  /\ pc[m] \in {"avatar", "enrich", "bot", "labels", "pull", "handover"} =>
       known[m] = labels[who[m]]
  /\ pc[m] \in {"labels", "pull", "push"} => push[m] \in BlockLabels
  /\ pc[m] = "pull" => pull[m] = LabelsToPull(m)
  /\ pc[m] = "push" => \A l \in labels[who[m]], n \in push[m] : ~Exclusive(l, n)

OneLabel == \A s \in Ids : \A l, n \in labels[s] : Exclusive(l, n) => l = n

\* Messages come one after the other, and operators leave labels alone.
Quiet == ~mode.overlap /\ "labels" \notin mode.operators

OneAtATime == \A m, n \in Msgs : Busy(m) /\ Busy(n) => m = n

Current == OneLabel /\ OneAtATime /\ \A m \in Msgs : CurrentAt(m)

\* A step of the one handler at work.
LEMMA HandlerCurrent ==
  ASSUME TypeOK, Current, NEW m \in Msgs, Busy(m), NEW l, Goto(m, l),
         \A n \in Msgs \ {m} : /\ who'[n] = who[n] /\ known'[n] = known[n]
                               /\ push'[n] = push[n] /\ pull'[n] = pull[n],
         \A s \in subscribers' : s \in subscribers \/ s = m,
         \A s \in Ids : labels'[s] = labels[s] \/ (s = who[m] /\ s \in subscribers),
         OneLabel', CurrentAt(m)'
  PROVE  Current'
<1>1. \A n \in Msgs : pc'[n] = IF n = m THEN l ELSE pc[n]
  BY DEF Goto, TypeOK
<1>2. \A n \in Msgs \ {m} : ~Busy(n) /\ ~Busy(n)'
  BY <1>1 DEF Current, OneAtATime, Busy
<1>3. OneAtATime'
  BY <1>2 DEF OneAtATime
<1>4. ASSUME NEW n \in Msgs \ {m} PROVE CurrentAt(n)'
  <2>1. pc'[n] \in {"idle", "done"} /\ pc'[n] = pc[n] /\ n \in Ids
    BY <1>1, <1>2 DEF Busy, Ids
  <2>2. pc[n] = "idle" => n \notin subscribers /\ n \notin subscribers'
    BY DEF Current, CurrentAt
  <2>3. pc[n] = "idle" => labels'[n] = {}
    BY <2>1, <2>2 DEF Current, CurrentAt
  <2>4. QED
    BY <2>1, <2>2, <2>3 DEF Current, CurrentAt
<1>5. QED
  BY <1>3, <1>4 DEF Current

\* Nothing happens to the labels; the handler keeps its copy.
LEMMA KeepCurrent ==
  ASSUME TypeOK, Current, NEW m \in Msgs, Busy(m), NEW l, Goto(m, l),
         UNCHANGED <<mode, subscribers, labels, who, known, push, pull>>,
         \/ l = "done"
         \/ /\ l \in {"bot", "enrich", "handover"}
            /\ pc[m] \in {"avatar", "enrich", "bot", "labels", "pull", "handover"}
         \/ l = "create" /\ pc[m] = "find"
  PROVE  Current'
<1>1. pc'[m] = l
  BY DEF Goto, TypeOK
<1>2. CurrentAt(m)'
  BY <1>1 DEF Current, CurrentAt
<1>3. OneLabel'
  BY DEF Current, OneLabel
<1>4. QED
  BY <1>2, <1>3, HandlerCurrent

LEMMA CurrentStep ==
  ASSUME Quiet, BlocksExclusive,
         TypeOK, Current, [Next]_vars
  PROVE  Current'
<1> USE DEF At
<1>a. ASSUME NEW m \in Msgs, Busy(m), Fail(m) PROVE Current'
  BY <1>a, KeepCurrent DEF Fail, Resume, documents, local
<1>b. \A m \in Msgs : pc[m] \in {"find", "create", "avatar", "enrich", "bot", "labels",
                                 "pull", "push", "handover"} => Busy(m)
  BY DEF Busy
<1>1. ASSUME NEW m \in Msgs, ReceiveMessage(m) PROVE Current'
  <2>1. /\ pc[m] = "idle" /\ \A n \in Msgs : ~Busy(n)
        /\ UNCHANGED <<mode, subscribers, labels, who, known, push, pull>>
    BY <1>1 DEF ReceiveMessage, Quiet, documents, local
  <2>2. \A n \in Msgs : pc'[n] = IF n = m THEN "find" ELSE pc[n]
    BY <1>1 DEF ReceiveMessage, Goto, TypeOK
  <2>3. OneAtATime'
    BY <2>1, <2>2 DEF OneAtATime, Busy
  <2>4. \A n \in Msgs : CurrentAt(n)'
    BY <2>1, <2>2 DEF Current, CurrentAt, LabelsToPull, Busy
  <2>5. OneLabel'
    BY <2>1 DEF Current, OneLabel
  <2>6. QED
    BY <2>3, <2>4, <2>5 DEF Current
<1>2. ASSUME NEW m \in Msgs, FindSubscriber(m) PROVE Current'
  <2>1. pc[m] = "find"
    BY <1>2 DEF FindSubscriber
  <2>2. ASSUME NEW s \in subscribers, Goto(m, "enrich"),
               who' = [who EXCEPT ![m] = s],
               known' = [known EXCEPT ![m] = labels[s]],
               UNCHANGED <<mode, documents, push, pull>>
        PROVE  Current'
    <3>1. pc'[m] = "enrich" /\ who'[m] = s /\ known'[m] = labels[s]
      BY <2>2 DEF Goto, TypeOK
    <3>2. CurrentAt(m)'
      BY <2>2, <3>1 DEF CurrentAt, documents
    <3>3. OneLabel'
      BY <2>2 DEF Current, OneLabel, documents
    <3>4. QED
      BY <1>b, <2>1, <2>2, <3>2, <3>3, HandlerCurrent DEF documents, TypeOK
  <2>3. CASE Resume(m, "create")
    BY <1>b, <2>1, <2>3, KeepCurrent DEF Resume, documents, local
  <2>4. QED
    BY <1>2, <1>a, <1>b, <2>1, <2>2, <2>3 DEF FindSubscriber
<1>3. ASSUME NEW m \in Msgs, CreateSubscriber(m) PROVE Current'
  <2>1. pc[m] = "create"
    BY <1>3 DEF CreateSubscriber
  <2>2. CASE /\ subscribers' = subscribers \cup {m}
             /\ Goto(m, "avatar")
             /\ UNCHANGED <<mode, labels, assignedTo, local, free>>
    <3>1. pc'[m] = "avatar"
      BY <2>2 DEF Goto, TypeOK
    <3>a. who[m] = m /\ known[m] = {} /\ labels[m] = {}
      BY <2>1 DEF Current, CurrentAt
    <3>b. who'[m] = m /\ known'[m] = {} /\ labels'[m] = {} /\ m \in subscribers'
      BY <2>2, <3>a DEF local
    <3>2. CurrentAt(m)'
      BY <3>1, <3>b DEF CurrentAt
    <3>3. OneLabel'
      BY <2>2 DEF Current, OneLabel
    <3>4. QED
      BY <1>b, <2>1, <2>2, <3>2, <3>3, HandlerCurrent DEF local
  <2>3. QED
    BY <1>3, <1>a, <1>b, <2>1, <2>2 DEF CreateSubscriber
<1>4. ASSUME NEW m \in Msgs, StoreAvatar(m) \/ EnrichEvent(m) PROVE Current'
  <2>1. /\ pc[m] \in {"avatar", "enrich"}
        /\ \E l \in {"enrich", "bot", "done"} : Goto(m, l)
        /\ UNCHANGED <<mode, subscribers, labels, who, push, pull>>
    BY <1>4 DEF StoreAvatar, EnrichEvent, documents
  <2>2. known[m] = labels[who[m]]
    BY <2>1 DEF Current, CurrentAt
  <2>3. UNCHANGED known
    BY <1>4, <2>2 DEF StoreAvatar, EnrichEvent, TypeOK
  <2>4. QED
    BY <1>b, <2>1, <2>3, KeepCurrent
<1>5. ASSUME NEW m \in Msgs, SendBlock(m) PROVE Current'
  <2>1. PICK added \in BlockLabels, user \in BlockAssignees :
          /\ push' = [push EXCEPT ![m] = added]
          /\ Goto(m, IF added = {} THEN HandOverOrNext(user) ELSE "labels")
    BY <1>5 DEF SendBlock
  <2>2. /\ pc[m] = "bot" /\ UNCHANGED <<mode, subscribers, labels, who, known, pull>>
    BY <1>5 DEF SendBlock, documents
  <2>3. pc'[m] \in {"bot", "handover", "labels"} /\ push'[m] = added
    BY <2>1 DEF Goto, TypeOK, HandOverOrNext
  <2>4. CurrentAt(m)'
    BY <2>2, <2>3 DEF Current, CurrentAt
  <2>5. OneLabel'
    BY <2>2 DEF Current, OneLabel
  <2>6. QED
    BY <1>b, <2>1, <2>2, <2>4, <2>5, HandlerCurrent DEF TypeOK
<1>6. ASSUME NEW m \in Msgs, FinishMessage(m) PROVE Current'
  BY <1>6, <1>b, KeepCurrent DEF FinishMessage, Resume, documents, local
<1>7. ASSUME NEW m \in Msgs, FindExclusiveLabels(m) PROVE Current'
  <2>1. pc[m] = "labels"
    BY <1>7 DEF FindExclusiveLabels
  <2>2. CASE /\ pull' = [pull EXCEPT ![m] = LabelsToPull(m)]
             /\ Goto(m, IF LabelsToPull(m) = {} THEN "push" ELSE "pull")
             /\ UNCHANGED <<mode, documents, who, known, push>>
    <3>1. /\ pull'[m] = LabelsToPull(m)
          /\ pc'[m] = IF LabelsToPull(m) = {} THEN "push" ELSE "pull"
      BY <2>2 DEF Goto, TypeOK
    <3>2. /\ who[m] \in subscribers /\ known[m] = labels[who[m]]
          /\ push[m] \in BlockLabels
      BY <2>1 DEF Current, CurrentAt
    <3>3. LabelsToPull(m)' = LabelsToPull(m)
      BY <2>2 DEF LabelsToPull
    <3>4. LabelsToPull(m) = {} =>
            \A l \in labels[who[m]], n \in push[m] : ~Exclusive(l, n)
      BY <3>2 DEF LabelsToPull
    <3>5. CurrentAt(m)'
      BY <2>2, <3>1, <3>2, <3>3, <3>4 DEF CurrentAt, documents
    <3>6. OneLabel'
      BY <2>2 DEF Current, OneLabel, documents
    <3>7. QED
      BY <1>b, <2>1, <2>2, <3>5, <3>6, HandlerCurrent DEF documents, TypeOK
  <2>3. QED
    BY <1>7, <1>a, <1>b, <2>1, <2>2 DEF FindExclusiveLabels
<1>8. ASSUME NEW m \in Msgs, PullLabels(m) PROVE Current'
  <2>1. pc[m] = "pull"
    BY <1>8 DEF PullLabels
  <2>2. CASE /\ labels' = [labels EXCEPT ![who[m]] = @ \ pull[m]]
             /\ Goto(m, "push")
             /\ UNCHANGED <<mode, subscribers, assignedTo, local, free>>
    <3>1. /\ pc'[m] = "push" /\ who[m] \in Ids
          /\ \A s \in Ids : labels'[s] = IF s = who[m] THEN labels[s] \ pull[m]
                                         ELSE labels[s]
      BY <2>2 DEF Goto, TypeOK
    <3>2. /\ who[m] \in subscribers /\ push[m] \in BlockLabels
          /\ pull[m] = {l \in labels[who[m]] : \E n \in push[m] : Exclusive(l, n)}
      BY <2>1 DEF Current, CurrentAt, LabelsToPull
    <3>a. /\ who'[m] = who[m] /\ push'[m] = push[m]
          /\ who'[m] \in subscribers' /\ push'[m] \in BlockLabels
          /\ labels'[who'[m]] = labels[who[m]] \ pull[m]
      BY <2>2, <3>1, <3>2 DEF local
    <3>b. \A l \in labels'[who'[m]], n \in push'[m] : ~Exclusive(l, n)
      BY <3>2, <3>a
    <3>3. CurrentAt(m)'
      BY <3>1, <3>a, <3>b DEF CurrentAt
    <3>4. OneLabel'
      BY <3>1 DEF Current, OneLabel
    <3>5. QED
      BY <1>b, <2>1, <2>2, <3>1, <3>2, <3>3, <3>4, HandlerCurrent DEF local
  <2>3. QED
    BY <1>8, <1>a, <1>b, <2>1, <2>2 DEF PullLabels
<1>9. ASSUME NEW m \in Msgs, PushLabels(m) PROVE Current'
  <2>1. pc[m] = "push"
    BY <1>9 DEF PushLabels
  <2>2. CASE /\ labels' = [labels EXCEPT ![who[m]] = @ \cup push[m]]
             /\ known' = [known EXCEPT ![m] = labels[who[m]] \cup push[m]]
             /\ Goto(m, HandOverOrNext(assignTo[m]))
             /\ UNCHANGED <<mode, subscribers, who, push, pull>>
    <3>1. /\ pc'[m] \in {"bot", "handover"} /\ who[m] \in Ids
          /\ \A s \in Ids : labels'[s] = IF s = who[m] THEN labels[s] \cup push[m]
                                         ELSE labels[s]
          /\ known'[m] = labels[who[m]] \cup push[m]
      BY <2>2 DEF Goto, TypeOK, HandOverOrNext
    <3>2. /\ who[m] \in subscribers /\ push[m] \in BlockLabels
          /\ \A l \in labels[who[m]], n \in push[m] : ~Exclusive(l, n)
      BY <2>1 DEF Current, CurrentAt
    <3>3. CurrentAt(m)'
      BY <2>2, <3>1, <3>2 DEF CurrentAt
    <3>4. OneLabel'
      <4>1. \A s \in Ids : \A l, n \in labels[s] : Exclusive(l, n) => l = n
        BY DEF Current, OneLabel
      <4>2. \A l, n \in push[m] : Exclusive(l, n) => l = n
        BY <3>2 DEF BlocksExclusive
      <4>3. \A l \in labels[who[m]], n \in push[m] : ~Exclusive(n, l)
        BY <3>2 DEF Exclusive
      <4>4. QED
        BY <3>1, <3>2, <4>1, <4>2, <4>3 DEF OneLabel
    <3>5. QED
      BY <1>b, <2>1, <2>2, <3>1, <3>2, <3>3, <3>4, HandlerCurrent DEF TypeOK
  <2>3. CASE Goto(m, "done") /\ UNCHANGED <<mode, documents, local>>
    BY <1>b, <2>1, <2>3, KeepCurrent DEF documents, local
  <2>4. QED
    BY <1>9, <2>2, <2>3 DEF PushLabels
<1>10. ASSUME NEW m \in Msgs, HandOver(m) PROVE Current'
  <2>1. pc[m] = "handover" /\ known[m] = labels[who[m]]
    BY <1>10 DEF HandOver, Current, CurrentAt
  <2>2. CASE /\ known' = [known EXCEPT ![m] = labels[who[m]]]
             /\ Goto(m, "bot")
             /\ UNCHANGED <<mode, subscribers, labels, who, push, pull>>
    <3>1. UNCHANGED known
      BY <2>1, <2>2 DEF TypeOK
    <3>2. QED
      BY <1>b, <2>1, <2>2, <3>1, KeepCurrent
  <2>3. QED
    BY <1>10, <1>a, <1>b, <2>1, <2>2 DEF HandOver
<1>11. ASSUME UNCHANGED <<mode, subscribers, labels, pc, local>> PROVE Current'
  BY <1>11 DEF Current, CurrentAt, OneAtATime, OneLabel, LabelsToPull,
               Busy, local
<1>12. CASE Crash
  <2>1. /\ \A m \in Msgs : pc'[m] = IF Busy(m) THEN "done" ELSE pc[m]
        /\ UNCHANGED <<mode, subscribers, labels, who, known>>
    BY <1>12 DEF Crash, documents, local
  <2>2. \A m \in Msgs : CurrentAt(m)'
    BY <2>1 DEF Current, CurrentAt, Busy
  <2>3. OneAtATime' /\ OneLabel'
    BY <2>1 DEF Current, OneAtATime, OneLabel, Busy
  <2>4. QED
    BY <2>2, <2>3 DEF Current
<1>13. QED
  BY <1>1, <1>2, <1>3, <1>4, <1>5, <1>6, <1>7, <1>8, <1>9, <1>10, <1>11, <1>12
     DEF Next, HandlerStep, Assign, EditLabels, vars, documents, Quiet

\* A subscriber never has two labels of one group (OneLabelPerGroup) when the
\* messages of a sender come one after the other, blocks assign at most one
\* label of a group, and operators leave labels alone: whatever fails.
THEOREM LabelsExclude ==
  ASSUME BlocksExclusive
  PROVE  Spec => []OneLabelPerGroup
<1> DEFINE Inv == Quiet => Current
<1>1. Init => Inv
  BY DEF Init, Current, CurrentAt, OneAtATime, OneLabel, Busy, Ids
<1>2. TypeOK /\ Inv /\ [Next]_vars => Inv'
  BY CurrentStep, ModeKept DEF Quiet
<1>3. Inv => OneLabelPerGroup
  BY DEF Quiet, Current, OneLabel, OneLabelPerGroup
<1>4. QED
  BY <1>1, <1>2, <1>3, TypeCorrect, PTL DEF Spec

-----------------------------------------------------------------------------
(* Labels are removed to be replaced.                                      *)

Replacing ==
  \A m \in Msgs : pc[m] = "pull" =>
    \A l \in pull[m] : \E n \in push[m] : Exclusive(l, n)

LEMMA ReplacingStep == TypeOK /\ Replacing /\ [Next]_vars => Replacing'
<1> SUFFICES ASSUME TypeOK, Replacing, [Next]_vars PROVE Replacing'
  OBVIOUS
\* A step that leaves the labels to pull and push of the others alone, and
\* does not go to "pull".
<1>a. ASSUME NEW m \in Msgs, NEW l, l # "pull", Goto(m, l),
             \A n \in Msgs \ {m} : push'[n] = push[n] /\ pull'[n] = pull[n]
      PROVE  Replacing'
  BY <1>a DEF Goto, TypeOK, Replacing
<1>1. ASSUME NEW m \in Msgs, ReceiveMessage(m) PROVE Replacing'
  BY <1>1, <1>a DEF ReceiveMessage, local
<1>2. ASSUME NEW m \in Msgs,
             FindSubscriber(m) \/ CreateSubscriber(m) \/ StoreAvatar(m)
      PROVE  Replacing'
  BY <1>2, <1>a DEF FindSubscriber, CreateSubscriber, StoreAvatar, Fail, Resume, local
<1>3. ASSUME NEW m \in Msgs, EnrichEvent(m) PROVE Replacing'
  <2>1. \E l \in {"done", "bot"} : Goto(m, l)
    BY <1>3 DEF EnrichEvent
  <2>2. QED
    BY <1>3, <2>1, <1>a DEF EnrichEvent
<1>4. ASSUME NEW m \in Msgs, SendBlock(m) PROVE Replacing'
  <2>1. \E l \in {"bot", "handover", "labels"} : Goto(m, l)
    BY <1>4 DEF SendBlock, HandOverOrNext
  <2>2. QED
    BY <1>4, <2>1, <1>a DEF SendBlock, TypeOK
<1>5. ASSUME NEW m \in Msgs, FinishMessage(m) PROVE Replacing'
  BY <1>5, <1>a DEF FinishMessage, Resume, local
<1>6. ASSUME NEW m \in Msgs, FindExclusiveLabels(m) PROVE Replacing'
  <2>1. CASE Fail(m)
    BY <2>1, <1>a DEF Fail, Resume, local
  <2>2. CASE /\ pull' = [pull EXCEPT ![m] = LabelsToPull(m)]
             /\ \E l \in Location : Goto(m, l)
             /\ UNCHANGED push
    <3>1. pull'[m] = LabelsToPull(m) /\ \A n \in Msgs \ {m} : pull'[n] = pull[n]
      BY <2>2 DEF TypeOK
    <3>2. \A n \in Msgs \ {m} : pc'[n] = pc[n]
      BY <2>2 DEF Goto, TypeOK
    <3>3. QED
      BY <2>2, <3>1, <3>2 DEF Replacing, LabelsToPull
  <2>3. QED
    BY <1>6, <2>1, <2>2 DEF FindExclusiveLabels, Location
<1>7. ASSUME NEW m \in Msgs, PullLabels(m) \/ HandOver(m) PROVE Replacing'
  BY <1>7, <1>a DEF PullLabels, HandOver, Fail, Resume, local
<1>8. ASSUME NEW m \in Msgs, PushLabels(m) PROVE Replacing'
  <2>1. \E l \in {"bot", "handover", "done"} : Goto(m, l)
    BY <1>8 DEF PushLabels, HandOverOrNext, Fail, Resume
  <2>2. UNCHANGED <<mode, push, pull>>
    BY <1>8 DEF PushLabels, Fail, Resume, local
  <2>3. QED
    BY <2>1, <2>2, <1>a
<1>9. ASSUME UNCHANGED <<mode, pc, local>> PROVE Replacing'
  BY <1>9 DEF Replacing, local
<1>10. CASE Crash
  BY <1>10 DEF Crash, Replacing, local
<1>11. QED
  BY <1>1, <1>2, <1>3, <1>4, <1>5, <1>6, <1>7, <1>8, <1>9, <1>10
     DEF Next, HandlerStep, Assign, EditLabels, vars

\* What is held, as GroupsHeld says of every state.
Held ==
  \A h \in held : \/ InGroup(h[1], h[2])
                  \/ \E m \in Msgs : pc[m] = "push" /\ h \in Replaced(m)

\* A step that removes no label, leaves the second write to the handlers that
\* are about to do it, and adds to what is held only what a label is there for.
LEMMA HeldKept ==
  ASSUME TypeOK, Held,
         \A s \in Ids : labels[s] \subseteq labels'[s],
         \A h \in held' \ held : InGroup(h[1], h[2])',
         \A h \in held' : \A m \in Msgs :
            pc[m] = "push" /\ h \in Replaced(m) =>
              \/ pc'[m] = "push" /\ h \in Replaced(m)'
              \/ InGroup(h[1], h[2])'
  PROVE  Held'
<1>1. \A h \in held : InGroup(h[1], h[2]) => InGroup(h[1], h[2])'
  BY DEF TypeOK, InGroup
<1>2. QED
  BY <1>1 DEF Held

LEMMA HeldStep ==
  ASSUME "labels" \notin mode.operators, TypeOK, Replacing, Held, [Next]_vars
  PROVE  Held'
\* The handler of m is elsewhere, and goes on.
<1>a. ASSUME NEW m \in Msgs, pc[m] # "push", NEW l, Goto(m, l),
             \A n \in Msgs \ {m} : who'[n] = who[n] /\ push'[n] = push[n],
             UNCHANGED <<labels, held>>
      PROVE  Held'
  <2>1. \A n \in Msgs : pc[n] = "push" =>
          pc'[n] = "push" /\ Replaced(n)' = Replaced(n)
    BY <1>a DEF Goto, TypeOK, Replaced
  <2>2. QED
    BY <1>a, <2>1, HeldKept
<1>1. ASSUME NEW m \in Msgs, ReceiveMessage(m) PROVE Held'
  BY <1>1, <1>a DEF ReceiveMessage, At, documents, local
<1>2. ASSUME NEW m \in Msgs, FindSubscriber(m) PROVE Held'
  <2>1. \E l \in Location : Goto(m, l)
    BY <1>2 DEF FindSubscriber, Fail, Resume, Location
  <2>2. /\ pc[m] # "push" /\ UNCHANGED <<labels, held, push>>
        /\ \A n \in Msgs \ {m} : who'[n] = who[n]
    BY <1>2 DEF FindSubscriber, At, Fail, Resume, documents, local, TypeOK
  <2>3. QED
    BY <1>a, <2>1, <2>2
<1>3. ASSUME NEW m \in Msgs, CreateSubscriber(m) \/ StoreAvatar(m) \/ FinishMessage(m) PROVE Held'
  BY <1>3, <1>a DEF CreateSubscriber, StoreAvatar, FinishMessage, At, Fail, Resume, documents, local
<1>4. ASSUME NEW m \in Msgs, EnrichEvent(m) PROVE Held'
  <2>1. \E l \in Location : Goto(m, l)
    BY <1>4 DEF EnrichEvent, Location
  <2>2. QED
    BY <1>4, <1>a, <2>1 DEF EnrichEvent, At, documents
<1>5. ASSUME NEW m \in Msgs, SendBlock(m) PROVE Held'
  <2>1. \E l \in Location : Goto(m, l)
    BY <1>5 DEF SendBlock, HandOverOrNext, Location
  <2>2. QED
    BY <1>5, <1>a, <2>1 DEF SendBlock, At, documents, TypeOK
<1>6. ASSUME NEW m \in Msgs, FindExclusiveLabels(m) PROVE Held'
  <2>1. \E l \in Location : Goto(m, l)
    BY <1>6 DEF FindExclusiveLabels, Fail, Resume, Location
  <2>2. QED
    BY <1>6, <1>a, <2>1 DEF FindExclusiveLabels, At, Fail, Resume, documents, local
\* What the first write empties, the second will fill.
<1>7. ASSUME NEW m \in Msgs, PullLabels(m) PROVE Held'
  <2>1. CASE Fail(m)
    BY <1>7, <1>a, <2>1 DEF PullLabels, At, Fail, Resume, documents, local
  <2>2. CASE /\ labels' = [labels EXCEPT ![who[m]] = @ \ pull[m]]
             /\ Goto(m, "push") /\ UNCHANGED <<local, held>>
    <3>1. pc[m] = "pull" /\ \A n \in Msgs : pc'[n] = IF n = m THEN "push" ELSE pc[n]
      BY <1>7, <2>2 DEF PullLabels, At, Goto, TypeOK
    <3>2. \A n \in Msgs : Replaced(n)' = Replaced(n)
      BY <2>2 DEF Replaced, local
    <3>3. ASSUME NEW h \in held, InGroup(h[1], h[2]), ~InGroup(h[1], h[2])'
          PROVE  h \in Replaced(m)
      <4>1. PICK l \in labels[h[1]] : Group[l] = h[2]
        BY <3>3 DEF InGroup
      <4>2. h \in Ids \X Groups /\ h = <<h[1], h[2]>>
        BY DEF TypeOK
      <4>3. l \notin labels'[h[1]]
        BY <3>3, <4>1 DEF InGroup
      <4>4. h[1] = who[m] /\ l \in pull[m]
        BY <2>2, <4>1, <4>2, <4>3 DEF TypeOK
      <4>5. PICK n \in push[m] : Exclusive(l, n)
        BY <3>1, <4>4 DEF Replacing
      <4>6. h[2] = Group[n] /\ h[2] # NoGroup
        BY <4>1, <4>5 DEF Exclusive
      <4>7. QED
        BY <4>2, <4>4, <4>6 DEF Replaced
    <3>4. QED
      BY <2>2, <3>1, <3>2, <3>3 DEF Held
  <2>3. QED
    BY <1>7, <2>1, <2>2 DEF PullLabels
<1>8. ASSUME NEW m \in Msgs, PushLabels(m) PROVE Held'
  <2>1. pc[m] = "push"
    BY <1>8 DEF PushLabels, At
  <2>2. CASE /\ labels' = [labels EXCEPT ![who[m]] = @ \cup push[m]]
             /\ held' = held \cup Replaced(m)
             /\ Goto(m, HandOverOrNext(assignTo[m]))
             /\ UNCHANGED <<who, push>>
    <3>1. /\ \A s \in Ids : labels[s] \subseteq labels'[s]
          /\ labels'[who[m]] = labels[who[m]] \cup push[m]
      BY <2>2 DEF TypeOK
    <3>2. ASSUME NEW h \in Replaced(m) PROVE InGroup(h[1], h[2])'
      BY <3>1 DEF Replaced, InGroup
    <3>3. \A n \in Msgs : Replaced(n)' = Replaced(n) /\ (n # m => pc'[n] = pc[n])
      BY <2>2 DEF Replaced, Goto, TypeOK
    <3>4. QED
      BY <2>2, <3>1, <3>2, <3>3, HeldKept
  <2>3. CASE Goto(m, "done") /\ held' = Kept({m}) /\ UNCHANGED <<labels, who, push>>
    <3>1. \A n \in Msgs : Replaced(n)' = Replaced(n) /\ (n # m => pc'[n] = pc[n])
      BY <2>3 DEF Replaced, Goto, TypeOK
    <3>2. \A h \in held' : /\ h \in held
                           /\ h \in Replaced(m) => InGroup(h[1], h[2])
      BY <2>3 DEF Kept
    <3>3. \A h \in held : InGroup(h[1], h[2])' = InGroup(h[1], h[2])
      BY <2>3 DEF InGroup
    <3>4. QED
      BY <2>3, <3>1, <3>2, <3>3, HeldKept
  <2>4. QED
    BY <1>8, <2>2, <2>3 DEF PushLabels, documents, local
<1>9. ASSUME NEW m \in Msgs, HandOver(m) PROVE Held'
  BY <1>9, <1>a DEF HandOver, At, Fail, Resume, documents, local
<1>10. ASSUME UNCHANGED <<labels, pc, who, push, held>> PROVE Held'
  BY <1>10 DEF Held, InGroup, Replaced
<1>11. CASE Crash
  <2>1. /\ UNCHANGED <<labels, who, push>>
        /\ held' = Kept({m \in Msgs : pc[m] = "push"})
    BY <1>11 DEF Crash, At, documents, local
  <2>2. \A h \in held' :
          h \in held /\ (InGroup(h[1], h[2]) \/ \A m \in Msgs : pc[m] = "push" => h \notin Replaced(m))
    BY <2>1 DEF Kept
  <2>3. \A h \in held' : InGroup(h[1], h[2])
    BY <2>2 DEF Held
  <2>4. QED
    BY <2>1, <2>3 DEF Held, InGroup
<1>12. QED
  BY <1>1, <1>2, <1>3, <1>4, <1>5, <1>6, <1>7, <1>8, <1>9, <1>10, <1>11
     DEF Next, HandlerStep, Assign, EditLabels, vars, documents, local

\* Once a block has given a subscriber a label of a group, the subscriber has
\* one of the group except between the two writes of updateLabels, and after a
\* failure or a crash there (GroupsHeld): however messages overlap, when
\* operators leave labels alone.
THEOREM GroupsStayHeld == Spec => []GroupsHeld
<1> DEFINE Inv == Replacing /\ ("labels" \notin mode.operators => Held)
<1>1. Init => Inv
  BY DEF Init, Replacing, Held
<1>2. TypeOK /\ Inv /\ [Next]_vars => Inv'
  BY ReplacingStep, HeldStep, ModeKept
<1>3. Inv => GroupsHeld
  BY DEF Held, GroupsHeld, At
<1>4. QED
  BY <1>1, <1>2, <1>3, TypeCorrect, PTL DEF Spec

-----------------------------------------------------------------------------
(* A sender who is taken over gets no reply.                               *)

\* The only subscriber is the one of the web session.  A handler that found it
\* free, or replies, handles a message since whose arrival it was free.
Watched ==
  /\ subscribers = {Visitor}
  /\ \A m \in Msgs :
       /\ pc[m] \notin {"create", "avatar"}
       /\ Busy(m) /\ assignedTo[Visitor] = NoUser => m \in free
       /\ pc[m] = "enrich" /\ assignee[m] = NoUser => m \in free
       /\ pc[m] \in {"bot", "labels", "pull", "push", "handover"} =>
            m \in free /\ who[m] = Visitor
       /\ pc[m] = "enrich" => who[m] = Visitor
       /\ pc[m] = "handover" => assignTo[m] # NoUser
       /\ count[m] > 0 => m \in free

LEMMA WatchedStep ==
  ASSUME TypeOK, Watched, [Next]_vars
  PROVE  Watched'
<1> USE DEF At
\* A handler that replies goes on, or is done.
<1>a. ASSUME NEW m \in Msgs, pc[m] \in {"bot", "labels", "pull", "push", "handover"},
             NEW l \in {"bot", "labels", "pull", "push", "handover", "done"}, Goto(m, l),
             UNCHANGED <<mode, subscribers, who, assignee, free>>,
             \/ UNCHANGED assignedTo
             \/ pc[m] = "handover" /\ assignedTo' = [assignedTo EXCEPT ![who[m]] = assignTo[m]],
             \A n \in Msgs \ {m} : assignTo'[n] = assignTo[n] /\ count'[n] = count[n],
             l = "handover" => assignTo'[m] # NoUser
      PROVE  Watched'
  <2>1. \A n \in Msgs : pc'[n] = IF n = m THEN l ELSE pc[n]
    BY <1>a DEF Goto, TypeOK
  <2>2. m \in free /\ who[m] = Visitor /\ Busy(m)
    BY <1>a DEF Watched, Busy
  <2>3. assignedTo'[Visitor] = NoUser => assignedTo[Visitor] = NoUser
    BY <1>a, <2>2 DEF Watched, TypeOK, Ids
  <2>4. QED
    BY <1>a, <2>1, <2>2, <2>3 DEF Watched, Busy
\* Any handler gives up.
<1>b. ASSUME NEW m \in Msgs, Resume(m, "done") PROVE Watched'
  BY <1>b DEF Resume, Goto, TypeOK, Watched, Busy, documents, local
<1>1. ASSUME NEW m \in Msgs, ReceiveMessage(m) PROVE Watched'
  <2>1. \A n \in Msgs : pc'[n] = IF n = m THEN "find" ELSE pc[n]
    BY <1>1 DEF ReceiveMessage, Goto, TypeOK
  <2>2. /\ UNCHANGED <<mode, documents, local>> /\ free \subseteq free'
        /\ assignedTo[Visitor] = NoUser => m \in free'
    BY <1>1 DEF ReceiveMessage, Free, Watched
  <2>3. QED
    BY <2>1, <2>2 DEF Watched, Busy, documents, local
<1>2. ASSUME NEW m \in Msgs, FindSubscriber(m) PROVE Watched'
  <2>1. CASE Goto(m, "enrich") /\ who' = [who EXCEPT ![m] = Visitor]
             /\ assignee' = [assignee EXCEPT ![m] = assignedTo[Visitor]]
             /\ UNCHANGED <<mode, documents, assignTo, count, free>>
    <3>1. \A n \in Msgs : /\ pc'[n] = IF n = m THEN "enrich" ELSE pc[n]
                          /\ who'[n] = IF n = m THEN Visitor ELSE who[n]
                          /\ assignee'[n] = IF n = m THEN assignedTo[Visitor]
                                            ELSE assignee[n]
      BY <2>1 DEF Goto, TypeOK
    <3>2. Busy(m)
      BY <1>2 DEF FindSubscriber, Busy
    <3>3. QED
      BY <2>1, <3>1, <3>2 DEF Watched, Busy, documents
  <2>2. QED
    BY <1>2, <1>b, <2>1 DEF FindSubscriber, Fail, Watched
<1>3. ASSUME NEW m \in Msgs, CreateSubscriber(m) \/ StoreAvatar(m) PROVE Watched'
  BY <1>3 DEF CreateSubscriber, StoreAvatar, Watched
<1>4. ASSUME NEW m \in Msgs, EnrichEvent(m) PROVE Watched'
  <2>1. \A n \in Msgs : pc'[n] = IF n = m THEN IF TakenOver(m) THEN "done" ELSE "bot"
                                 ELSE pc[n]
    BY <1>4 DEF EnrichEvent, Goto, TypeOK
  <2>2. /\ pc[m] = "enrich"
        /\ UNCHANGED <<mode, subscribers, assignedTo, who, assignee, assignTo, count, free>>
    BY <1>4 DEF EnrichEvent, documents
  <2>3. QED
    BY <2>1, <2>2 DEF Watched, Busy, TakenOver
<1>5. ASSUME NEW m \in Msgs, SendBlock(m) PROVE Watched'
  <2>1. PICK added \in BlockLabels, user \in BlockAssignees :
          /\ assignTo' = [assignTo EXCEPT ![m] = user]
          /\ Goto(m, IF added = {} THEN HandOverOrNext(user) ELSE "labels")
    BY <1>5 DEF SendBlock
  <2>2. \E l \in {"bot", "handover", "labels"} :
          Goto(m, l) /\ (l = "handover" => user # NoUser)
    BY <2>1 DEF HandOverOrNext
  <2>3. assignTo'[m] = user
    BY <2>1 DEF TypeOK
  <2>4. \A n \in Msgs \ {m} : assignTo'[n] = assignTo[n] /\ count'[n] = count[n]
    BY <1>5, <2>1 DEF SendBlock, TypeOK
  <2>5. QED
    BY <1>5, <1>a, <2>2, <2>3, <2>4 DEF SendBlock, documents
<1>6. ASSUME NEW m \in Msgs, FinishMessage(m) PROVE Watched'
  BY <1>6, <1>b DEF FinishMessage
<1>7. ASSUME NEW m \in Msgs, FindExclusiveLabels(m) PROVE Watched'
  <2>1. \E l \in {"push", "pull", "done"} : Goto(m, l)
    BY <1>7 DEF FindExclusiveLabels, Fail, Resume
  <2>2. QED
    BY <1>7, <1>a, <1>b, <2>1 DEF FindExclusiveLabels, Fail, documents
<1>8. ASSUME NEW m \in Msgs, PullLabels(m) PROVE Watched'
  BY <1>8, <1>a, <1>b DEF PullLabels, Fail, local
<1>9. ASSUME NEW m \in Msgs, PushLabels(m) PROVE Watched'
  <2>1. CASE Goto(m, HandOverOrNext(assignTo[m]))
             /\ UNCHANGED <<mode, subscribers, assignedTo, who, assignee, assignTo, count, free>>
    <3>1. \E l \in {"bot", "handover"} :
            Goto(m, l) /\ (l = "handover" => assignTo[m] # NoUser)
      BY <2>1 DEF HandOverOrNext
    <3>2. QED
      BY <1>9, <1>a, <2>1, <3>1 DEF PushLabels
  <2>2. CASE Goto(m, "done") /\ UNCHANGED <<mode, documents, local, free>>
    BY <1>9, <1>a, <2>2 DEF PushLabels, documents, local
  <2>3. QED
    BY <1>9, <2>1, <2>2 DEF PushLabels
<1>10. ASSUME NEW m \in Msgs, HandOver(m) PROVE Watched'
  BY <1>10, <1>a, <1>b DEF HandOver, Fail
<1>11. ASSUME NEW s \in Ids, NEW user, Assign(s, user) PROVE Watched'
  <2>1. /\ s = Visitor /\ UNCHANGED <<mode, subscribers, pc, local>>
        /\ free' = IF \A t \in subscribers : assignedTo'[t] = NoUser
                   THEN free \cup {m \in Msgs : Busy(m)} ELSE free
    BY <1>11 DEF Assign, Free, Watched
  <2>2. QED
    BY <2>1 DEF Watched, Busy, local
<1>12. ASSUME UNCHANGED <<mode, subscribers, assignedTo, pc, local, free>> PROVE Watched'
  BY <1>12 DEF Watched, Busy, local
<1>13. CASE Crash
  BY <1>13 DEF Crash, Watched, Busy, documents, local
<1>14. QED
  BY <1>1, <1>2, <1>3, <1>4, <1>5, <1>6, <1>7, <1>8, <1>9, <1>10, <1>11, <1>12, <1>13
     DEF Next, HandlerStep, EditLabels, vars, documents

\* Messages of a web visitor that arrive while the visitor is taken over, and
\* is not handed back in the meantime, get no reply (SilentWhileTakenOver):
\* however messages, handovers and edits interleave and whatever fails.
THEOREM TakeoverSilences == Spec => []SilentWhileTakenOver
<1> DEFINE Inv == mode.existing # {} => Watched
<1>1. Init => Inv
  BY DEF Init, Watched, Busy
<1>2. TypeOK /\ Inv /\ [Next]_vars => Inv'
  BY WatchedStep, ModeKept
<1>3. Inv => SilentWhileTakenOver
  BY DEF Watched, SilentWhileTakenOver
<1>4. QED
  BY <1>1, <1>2, <1>3, TypeCorrect, PTL DEF Spec

=============================================================================
