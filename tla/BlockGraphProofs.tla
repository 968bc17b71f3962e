--------------------------- MODULE BlockGraphProofs ---------------------------
(***************************************************************************)
(* Proofs about BlockGraph, for any number of blocks, categories, requests *)
(* and conversations: what a request relies on when it writes was true     *)
(* when it looked, and stays true, for the conversations however requests  *)
(* overlap, for the rest as long as they do not.                           *)
(*                                                                         *)
(* Requests that do not overlap, and whose updates do not fail, implement  *)
(* FlowGraph: each takes effect at once and as a whole.                    *)
(***************************************************************************)
EXTENDS BlockGraph, TLAPS

USE FlowAssumption

-----------------------------------------------------------------------------
(* Type correctness: a request asks for one kind of thing at each step.    *)

Creating == [kind : {"create"}, block : Blocks, category : Categories,
             next : SUBSET Blocks, attached : Blocks \cup {NoBlock}]
Drawing == [kind : {"draw"}, block : Blocks, field : {"next"}, next : SUBSET Blocks]
Attaching == [kind : {"attach"}, block : Blocks, field : {"attached"}, attached : Blocks \cup {NoBlock}]
Moving == [kind : {"move"}, ids : SUBSET Blocks, field : {"category"}, category : Categories]
Deleting == [kind : {"delete"}, ids : SUBSET Blocks]
DeletingCategory == [kind : {"deleteCategory"}, category : Categories]

Requested == Creating \cup Drawing \cup Attaching \cup Patch \cup Moving \cup PatchMany
               \cup Deleting \cup DeletingCategory

CreateSteps == {"category", "attached", "next", "insert"}
MoveSteps == {"moved", "linked", "inner", "updateInner", "updateOuter"}
DeleteSteps == {"find", "used", "fallback", "cutAttached", "cutNext"}

Steps == Resting \cup CreateSteps \cup MoveSteps \cup DeleteSteps \cup {"blocks", "write", "remove"}

StepOf(l, kind) ==
  /\ l \in CreateSteps => kind = "create"
  /\ l \in MoveSteps => kind = "move"
  /\ l \in DeleteSteps => kind = "delete"
  /\ l = "blocks" => kind = "deleteCategory"
  /\ l = "write" => kind \in {"draw", "attach", "patch", "move", "patchMany"}
  /\ l = "remove" => kind \in {"delete", "deleteCategory"}

ServedOps ==
  /\ pc \in [Reqs -> Steps]
  /\ op \in [Reqs -> Requested \cup {NoOp}]
  /\ \A r \in Reqs : StepOf(pc[r], op[r].kind)

TaskTyped ==
  /\ found \in [Reqs -> SUBSET Blocks]
  /\ source \in [Reqs -> Categories \cup {Unused, Gone, NoBlock}]
  /\ linked \in [Reqs -> SUBSET Blocks]
  /\ todo \in [Reqs -> SUBSET Blocks]
  /\ seenNext \in [Reqs -> [Blocks -> SUBSET Blocks]]
  /\ seenAttached \in [Reqs -> [Blocks -> Blocks \cup {NoBlock}]]
  /\ since \in [Reqs -> SUBSET Convs]

GraphTyped ==
  /\ category \in [Blocks -> Categories \cup {Unused, Gone}]
  /\ next \in [Blocks -> SUBSET Blocks]
  /\ attached \in [Blocks -> Blocks \cup {NoBlock}]
  /\ categories \subseteq Categories

WalkTyped ==
  /\ current \in [Convs -> Blocks \cup {NoBlock}]
  /\ ahead \in [Convs -> SUBSET Blocks]
  /\ reading \in [Convs -> Blocks \cup {NoBlock}]
  /\ readNext \in [Convs -> SUBSET Blocks]
  /\ readAttached \in [Convs -> Blocks \cup {NoBlock}]

Typed == TypeOK /\ ServedOps

LEMMA TypeParts ==
  TypeOK <=> /\ mode \in Modes /\ fallbackBlock \in Blocks \cup {NoBlock}
             /\ GraphTyped /\ WalkTyped /\ TaskTyped
BY DEF TypeOK, GraphTyped, WalkTyped, TaskTyped

LEMMA NoLinksTyped ==
  NoLinks \in [Blocks -> SUBSET Blocks] /\ NoAttached \in [Blocks -> Blocks \cup {NoBlock}]
BY DEF NoLinks, NoAttached

\* The fields of what is requested, by its kind.
LEMMA OpFields ==
  ASSUME NEW o \in Requested \cup {NoOp}
  PROVE  /\ o.kind = "create" => /\ o.block \in Blocks /\ o.category \in Categories
                                 /\ o.next \subseteq Blocks /\ o.attached \in Blocks \cup {NoBlock}
         /\ o.kind = "draw" => o.block \in Blocks /\ o.field = "next" /\ o.next \subseteq Blocks
         /\ o.kind = "attach" => /\ o.block \in Blocks /\ o.field = "attached"
                                 /\ o.attached \in Blocks \cup {NoBlock}
         /\ o.kind = "move" => /\ o.ids \subseteq Blocks /\ o.field = "category"
                               /\ o.category \in Categories
         /\ o.kind = "patch" => o.block \in Blocks
         /\ o.kind = "patchMany" => o.ids \subseteq Blocks /\ o.field # "category"
         /\ o.kind \in {"draw", "attach", "patch", "move", "patchMany"} =>
              /\ o.field = "category" => o.category \in Categories
              /\ o.field = "next" => o.next \subseteq Blocks
              /\ o.field = "attached" => o.attached \in Blocks \cup {NoBlock}
         /\ o.kind = "delete" => o.ids \subseteq Blocks
         /\ o.kind = "deleteCategory" => o.category \in Categories
BY DEF Requested, NoOp, Creating, Drawing, Attaching, Patch, Moving, PatchMany, Deleting,
       DeletingCategory

LEMMA AnswerTyped ==
  ASSUME TaskTyped, ServedOps, NEW r \in Reqs, NEW how \in Ended, Answer(r, how)
  PROVE  TaskTyped' /\ ServedOps'
<1>1. TaskTyped'
  BY NoLinksTyped DEF Answer, TaskTyped
<1>2. pc' \in [Reqs -> Steps] /\ op' \in [Reqs -> Requested \cup {NoOp}]
  BY DEF Answer, Goto, ServedOps, Steps, Resting
<1>3. \A q \in Reqs : StepOf(pc'[q], op'[q].kind)
  BY DEF Answer, Goto, ServedOps, StepOf, Ended, CreateSteps, MoveSteps, DeleteSteps
<1> QED BY <1>1, <1>2, <1>3 DEF ServedOps

LEMMA GotoTyped ==
  ASSUME ServedOps, NEW r \in Reqs, NEW l \in Steps, Goto(r, l), op' = op,
         StepOf(l, op[r].kind)
  PROVE  ServedOps'
BY DEF Goto, ServedOps

LEMMA OperationTyped ==
  ASSUME TypeOK, NEW o \in Operations
  PROVE  o \in Requested /\ Handler[o.kind] \in Steps /\ StepOf(Handler[o.kind], o.kind)
<1> USE DEF TypeOK, Existing, Flow
<1> DEFINE Known(oo) == /\ oo \in Requested
                        /\ Handler[oo.kind] \in Steps
                        /\ StepOf(Handler[oo.kind], oo.kind)
<1>1. CASE o \in Create
  <2>1. o \in Creating
    BY <1>1 DEF Create, Creations, Creating
  <2> QED BY <2>1 DEF Creating, Requested, Handler, Steps, StepOf, CreateSteps, MoveSteps,
             DeleteSteps
<1>2. CASE o \in DrawWithinFlow
  <2>1. o \in Drawing
    BY <1>2 DEF DrawWithinFlow, Draw, Drawing
  <2> QED BY <2>1 DEF Drawing, Requested, Handler, Steps, StepOf, CreateSteps, MoveSteps,
             DeleteSteps
<1>3. CASE o \in Attach
  <2>1. o \in Attaching
    BY <1>3 DEF Attach, Attaching
  <2> QED BY <2>1 DEF Attaching, Requested, Handler, Steps, StepOf, CreateSteps, MoveSteps,
             DeleteSteps
<1>4. CASE o \in Patch \cup PatchMany
  <2>1. o.kind \in {"patch", "patchMany"}
    BY <1>4 DEF Patch, PatchMany
  <2> QED BY <1>4, <2>1 DEF Requested, Handler, Steps, StepOf, CreateSteps, MoveSteps, DeleteSteps
<1>5. CASE o \in Move
  <2>1. o \in Moving
    BY <1>5 DEF Move, Moving
  <2> QED BY <2>1 DEF Moving, Requested, Handler, Steps, StepOf, CreateSteps, MoveSteps,
             DeleteSteps
<1>6. CASE o \in Delete
  <2>1. o \in Deleting
    BY <1>6 DEF Delete, Deleting
  <2> QED BY <2>1 DEF Deleting, Requested, Handler, Steps, StepOf, CreateSteps, MoveSteps,
             DeleteSteps
<1>7. CASE o \in DeleteCategory
  <2>1. o \in DeletingCategory
    BY <1>7 DEF DeleteCategory, DeletingCategory
  <2> QED BY <2>1 DEF DeletingCategory, Requested, Handler, Steps, StepOf, CreateSteps,
             MoveSteps,
                      DeleteSteps
<1> QED BY <1>1, <1>2, <1>3, <1>4, <1>5, <1>6, <1>7 DEF Operations

LEMMA ExistingBlocks ==
  ASSUME GraphTyped
  PROVE  /\ Existing \subseteq Blocks
         /\ \A b \in Existing : category[b] \in Categories
         /\ \A c : Flow(c) \subseteq Existing
BY DEF GraphTyped, Existing, Flow

\* A step of a conversation leaves the requests alone.
LEMMA ConversationTyped ==
  ASSUME Typed, NEW v \in Convs, ConversationStep(v)
  PROVE  Typed'
<1> USE DEF Typed, GraphTyped, WalkTyped, TaskTyped, graph, task
<1>1. mode' \in Modes /\ fallbackBlock' \in Blocks \cup {NoBlock} /\ GraphTyped'
  BY TypeParts DEF ConversationStep, Match, FollowAttached, WaitForReply, EndConversation
<1>2. ServedOps'
  BY TypeParts DEF ConversationStep, Match, FollowAttached, WaitForReply, EndConversation,
     ServedOps
<1>3. WalkTyped'
  <2>1. ASSUME NEW b \in Blocks, Read(v, b), UNCHANGED <<current, ahead>> PROVE WalkTyped'
    BY <2>1, TypeParts, ExistingBlocks DEF Read
  <2>2. CASE Match(v)
    BY <2>1, <2>2, TypeParts, ExistingBlocks DEF Match
  <2>3. CASE FollowAttached(v)
    BY <2>1, <2>3, TypeParts, ExistingBlocks DEF FollowAttached
  <2>4. CASE WaitForReply(v)
    BY <2>4, TypeParts DEF WaitForReply, StopReading
  <2>5. CASE EndConversation(v)
    BY <2>5, TypeParts DEF EndConversation, StopReading
  <2> QED BY <2>2, <2>3, <2>4, <2>5 DEF ConversationStep
<1>4. TaskTyped'
  <2>1. CASE WaitForReply(v)
    BY <2>1, TypeParts DEF WaitForReply
  <2> QED BY <2>1, TypeParts DEF ConversationStep, Match, FollowAttached, EndConversation
<1> QED BY <1>1, <1>2, <1>3, <1>4 DEF TypeOK

LEMMA CopyTyped ==
  ASSUME GraphTyped, TaskTyped, NEW r \in Reqs, NEW bs \in SUBSET Blocks, Copy(r, bs)
  PROVE  /\ seenNext' \in [Reqs -> [Blocks -> SUBSET Blocks]]
         /\ seenAttached' \in [Reqs -> [Blocks -> Blocks \cup {NoBlock}]]
<1>1. [b \in Blocks |-> IF b \in bs THEN next[b] ELSE seenNext[r][b]] \in [Blocks -> SUBSET Blocks]
  BY DEF GraphTyped, TaskTyped
<1>2. [b \in Blocks |-> IF b \in bs THEN attached[b] ELSE seenAttached[r][b]]
        \in [Blocks -> Blocks \cup {NoBlock}]
  BY DEF GraphTyped, TaskTyped
<1> QED BY <1>1, <1>2 DEF Copy, TaskTyped

\* The part of the step that the request handler has in common with others.
Outside == UNCHANGED <<mode, fallbackBlock, walk>>

LEMMA RequestTyped ==
  ASSUME Typed, Outside, GraphTyped', TaskTyped', ServedOps'
  PROVE  Typed'
BY TypeParts DEF Typed, Outside, walk, WalkTyped, GraphTyped, TaskTyped, TypeOK

\* Steps that only read.
LEMMA ReadingTyped ==
  ASSUME Typed, NEW r \in Reqs,
         \/ Send(r) \/ Validate(r) \/ FindMoved(r) \/ FindLinked(r) \/ FindInner(r)
         \/ InnerDone(r) \/ OuterDone(r) \/ FindDeleted(r) \/ CheckConversations(r)
         \/ CheckFallback(r) \/ CheckBlocks(r) \/ FailCall(r)
  PROVE  Typed'
<1> USE DEF Typed, graph, task
<1>a. GraphTyped /\ WalkTyped /\ TaskTyped /\ ServedOps /\ mode \in Modes
  BY TypeParts
<1>b. /\ Existing \subseteq Blocks
      /\ op[r].kind = "delete" => op[r].ids \subseteq Blocks
  BY <1>a, OpFields, ExistingBlocks DEF ServedOps
<1>1. Outside /\ GraphTyped'
  BY <1>a DEF Send, Validate, FindMoved, FindLinked, FindInner, InnerDone, OuterDone,
     FindDeleted,
         CheckConversations, CheckFallback, CheckBlocks, FailCall, Outside, GraphTyped
<1>2. TaskTyped' /\ ServedOps'
  <2>1. CASE Send(r)
    <3>1. PICK o \in Operations : op' = [op EXCEPT ![r] = o] /\ Goto(r, Handler[o.kind])
      BY <2>1 DEF Send
    <3>2. o \in Requested /\ Handler[o.kind] \in Steps /\ StepOf(Handler[o.kind], o.kind)
      BY OperationTyped
    <3>3. ServedOps'
      BY <1>a, <3>1, <3>2 DEF Goto, ServedOps
    <3> QED BY <1>a, <2>1, <3>3 DEF Send, TaskTyped
  <2>2. CASE Validate(r)
    <3>1. CASE Referenced(r)
      <4>1. PICK l \in {"attached", "next", "insert"} : Goto(r, l)
        BY <2>2, <3>1 DEF Validate
      <4>2. op[r].kind = "create"
        BY <1>a, <2>2 DEF Validate, ServedOps, StepOf, CreateSteps
      <4>3. StepOf(l, op[r].kind) /\ l \in Steps
        BY <4>2 DEF StepOf, CreateSteps, MoveSteps, DeleteSteps, Steps
      <4> QED BY <1>a, <2>2, <3>1, <4>1, <4>3, GotoTyped DEF Validate, TaskTyped
    <3>2. CASE ~Referenced(r)
      BY <1>a, <2>2, <3>2, AnswerTyped DEF Validate, Ended
    <3> QED BY <3>1, <3>2
  <2>3. CASE FindMoved(r)
    <3>1. op[r].kind = "move"
      BY <1>a, <2>3 DEF FindMoved, At, ServedOps, StepOf, MoveSteps
    <3>2. PICK l \in {"write", "linked"} : Goto(r, l)
      BY <2>3 DEF FindMoved
    <3>3. StepOf(l, op[r].kind) /\ l \in Steps
      BY <3>1 DEF StepOf, CreateSteps, MoveSteps, DeleteSteps, Steps
    <3>4. /\ op[r].ids \cap Existing \subseteq Blocks
          /\ \A b \in Existing : category[b] \in Categories
      BY <1>a, <1>b, ExistingBlocks
    <3>5. source' \in [Reqs -> Categories \cup {Unused, Gone, NoBlock}]
      <4>1. source' = source \/ \E first \in Existing : source' = [source EXCEPT ![r] = category[first]]
        BY <1>a, <2>3 DEF FindMoved, TaskTyped
      <4> QED BY <1>a, <3>4, <4>1 DEF TaskTyped
    <3>6. TaskTyped'
      BY <1>a, <2>3, <3>4, <3>5 DEF FindMoved, TaskTyped
    <3> QED BY <1>a, <2>3, <3>2, <3>3, <3>6, GotoTyped DEF FindMoved
  <2>4. CASE FindLinked(r)
    <3> DEFINE bs == {b \in Flow(source[r]) \ found[r] : Links(b) \cap found[r] # {}}
    <3>1. bs \in SUBSET Blocks /\ Copy(r, bs)
      BY <1>a, <1>b, <2>4 DEF FindLinked, Flow
    <3>2. /\ seenNext' \in [Reqs -> [Blocks -> SUBSET Blocks]]
          /\ seenAttached' \in [Reqs -> [Blocks -> Blocks \cup {NoBlock}]]
      BY <1>a, <3>1, CopyTyped
    <3>3. linked' \in [Reqs -> SUBSET Blocks]
      BY <1>a, <2>4, <3>1 DEF FindLinked, TaskTyped
    <3>4. TaskTyped'
      BY <1>a, <2>4, <3>2, <3>3 DEF FindLinked, TaskTyped
    <3>5. StepOf("inner", op[r].kind) /\ "inner" \in Steps
      BY <1>a, <2>4 DEF FindLinked, At, ServedOps, StepOf, CreateSteps, MoveSteps, DeleteSteps,
         Steps
    <3> QED BY <1>a, <2>4, <3>4, <3>5, GotoTyped DEF FindLinked
  <2>5. CASE FindInner(r)
    <3> DEFINE bs == {b \in found[r] \cap Existing : category[b] # op[r].category}
    <3>1. bs \in SUBSET Blocks /\ Copy(r, bs)
      BY <1>a, <1>b, <2>5 DEF FindInner
    <3>2. /\ seenNext' \in [Reqs -> [Blocks -> SUBSET Blocks]]
          /\ seenAttached' \in [Reqs -> [Blocks -> Blocks \cup {NoBlock}]]
      BY <1>a, <3>1, CopyTyped
    <3>3. todo' \in [Reqs -> SUBSET Blocks]
      BY <1>a, <2>5, <3>1 DEF FindInner, TaskTyped
    <3>4. TaskTyped'
      BY <1>a, <2>5, <3>2, <3>3 DEF FindInner, TaskTyped
    <3>5. StepOf("updateInner", op[r].kind) /\ "updateInner" \in Steps
      BY <1>a, <2>5 DEF FindInner, At, ServedOps, StepOf, CreateSteps, MoveSteps, DeleteSteps,
         Steps
    <3> QED BY <1>a, <2>5, <3>4, <3>5, GotoTyped DEF FindInner
  <2>6. CASE InnerDone(r)
    <3>1. StepOf("updateOuter", op[r].kind) /\ "updateOuter" \in Steps
      BY <1>a, <2>6 DEF InnerDone, At, ServedOps, StepOf, CreateSteps, MoveSteps, DeleteSteps,
         Steps
    <3> QED BY <1>a, <2>6, <3>1, GotoTyped DEF InnerDone, TaskTyped
  <2>7. CASE OuterDone(r)
    <3>1. StepOf("write", op[r].kind) /\ "write" \in Steps
      BY <1>a, <2>7 DEF OuterDone, At, ServedOps, StepOf, CreateSteps, MoveSteps, DeleteSteps,
         Steps
    <3> QED BY <1>a, <2>7, <3>1, GotoTyped DEF OuterDone, TaskTyped
  <2>8. CASE FindDeleted(r)
    <3>1. op[r].kind = "delete"
      BY <1>a, <2>8 DEF FindDeleted, At, ServedOps, StepOf, DeleteSteps
    <3>2. PICK l \in {"remove", "used"} : Goto(r, l)
      BY <2>8 DEF FindDeleted
    <3>3. StepOf(l, op[r].kind) /\ l \in Steps
      BY <3>1 DEF StepOf, CreateSteps, MoveSteps, DeleteSteps, Steps
    <3>4. op[r].ids \cap Existing \subseteq Blocks
      BY <1>b
    <3> QED BY <1>a, <2>8, <3>2, <3>3, <3>4, GotoTyped DEF FindDeleted, TaskTyped
  <2>9. CASE CheckConversations(r)
    <3>1. StepOf("fallback", op[r].kind) /\ "fallback" \in Steps
      BY <1>a, <2>9 DEF CheckConversations, At, ServedOps, StepOf, CreateSteps, MoveSteps,
                        DeleteSteps, Steps
    <3> QED BY <1>a, <2>9, <3>1, GotoTyped, AnswerTyped DEF CheckConversations, TaskTyped, Ended
  <2>10. CASE CheckFallback(r)
    <3>1. StepOf("cutAttached", op[r].kind) /\ "cutAttached" \in Steps
      BY <1>a, <2>10 DEF CheckFallback, At, ServedOps, StepOf, CreateSteps, MoveSteps,
                         DeleteSteps, Steps
    <3> QED BY <1>a, <2>10, <3>1, GotoTyped, AnswerTyped DEF CheckFallback, TaskTyped, Ended
  <2>11. CASE CheckBlocks(r)
    <3>1. StepOf("remove", op[r].kind) /\ "remove" \in Steps
      BY <1>a, <2>11 DEF CheckBlocks, At, ServedOps, StepOf, CreateSteps, MoveSteps,
                         DeleteSteps, Steps
    <3> QED BY <1>a, <2>11, <3>1, GotoTyped, AnswerTyped DEF CheckBlocks, TaskTyped, Ended
  <2>12. CASE FailCall(r)
    BY <1>a, <2>12, AnswerTyped DEF FailCall, Ended
  <2> QED BY <2>1, <2>2, <2>3, <2>4, <2>5, <2>6, <2>7, <2>8, <2>9, <2>10, <2>11, <2>12
<1> QED BY <1>1, <1>2, RequestTyped

\* Steps that write.
\* An update of a field, with a value of the field's type.
LEMMA ChangeTyped ==
  ASSUME GraphTyped, NEW o \in Requested, o.kind \in {"draw", "attach", "patch", "move", "patchMany"},
         NEW bs, Change(bs, o), UNCHANGED categories
  PROVE  GraphTyped'
<1>1. /\ o.field = "category" => o.category \in Categories
      /\ o.field = "next" => o.next \subseteq Blocks
      /\ o.field = "attached" => o.attached \in Blocks \cup {NoBlock}
  BY OpFields
<1>2. category' \in [Blocks -> Categories \cup {Unused, Gone}]
  BY <1>1 DEF Change, GraphTyped
<1>3. next' \in [Blocks -> SUBSET Blocks]
  BY <1>1 DEF Change, GraphTyped
<1>4. attached' \in [Blocks -> Blocks \cup {NoBlock}]
  BY <1>1 DEF Change, GraphTyped
<1> QED BY <1>2, <1>3, <1>4 DEF GraphTyped

LEMMA WritingTyped ==
  ASSUME Typed, NEW r \in Reqs,
         \/ Insert(r) \/ UpdateOne(r) \/ UpdateInner(r) \/ UpdateOuter(r) \/ UpdateMany(r)
         \/ CutAttached(r) \/ CutNext(r) \/ RemoveBlocks(r) \/ RemoveCategory(r)
  PROVE  Typed'
<1> USE DEF Typed, graph, task
<1>a. GraphTyped /\ WalkTyped /\ TaskTyped /\ ServedOps /\ mode \in Modes
  BY TypeParts
<1>b. op[r] \in Requested \cup {NoOp} /\ StepOf(pc[r], op[r].kind)
  BY <1>a DEF ServedOps
<1>1. Outside
  BY DEF Insert, UpdateOne, UpdateInner, UpdateOuter, UpdateMany, CutAttached, CutNext,
         RemoveBlocks, RemoveCategory, Outside
<1>2. CASE Insert(r)
  <2>1. op[r].kind = "create"
    BY <1>2, <1>b DEF Insert, At, StepOf, CreateSteps
  <2>2. /\ op[r].block \in Blocks /\ op[r].category \in Categories
        /\ op[r].next \subseteq Blocks /\ op[r].attached \in Blocks \cup {NoBlock}
    BY <2>1, <1>b, OpFields
  <2>3. GraphTyped'
    BY <1>a, <1>2, <2>2 DEF Insert, GraphTyped
  <2> QED BY <1>a, <1>1, <1>2, <2>3, AnswerTyped, RequestTyped DEF Insert, Ended
<1>3. CASE UpdateOne(r)
  <2>1. op[r].kind \in {"draw", "attach", "patch"} /\ op[r] \in Requested
    BY <1>b, <1>3 DEF UpdateOne, NoOp
  <2>2. GraphTyped'
    BY <1>a, <1>3, <2>1, ChangeTyped DEF UpdateOne, GraphTyped
  <2> QED BY <1>a, <1>1, <1>3, <2>2, AnswerTyped, RequestTyped DEF UpdateOne, Ended
<1>4. CASE UpdateInner(r)
  <2>1. PICK b \in todo[r] :
          /\ todo' = [todo EXCEPT ![r] = @ \ {b}]
          /\ \/ /\ b \in Existing
                /\ next' = [next EXCEPT ![b] = seenNext[r][b] \cap found[r]]
                /\ attached' = [attached EXCEPT ![b] =
                     IF seenAttached[r][b] \in found[r] THEN seenAttached[r][b] ELSE NoBlock]
                /\ UNCHANGED category
             \/ UNCHANGED graph
    BY <1>4 DEF UpdateInner, SkipUpdate
  <2>2. /\ seenNext[r][b] \cap found[r] \subseteq Blocks
        /\ (IF seenAttached[r][b] \in found[r] THEN seenAttached[r][b] ELSE NoBlock)
             \in Blocks \cup {NoBlock}
    BY <1>a DEF TaskTyped
  <2>3. GraphTyped'
    BY <1>a, <1>4, <2>1, <2>2 DEF UpdateInner, GraphTyped
  <2>4. TaskTyped' /\ ServedOps'
    BY <1>a, <1>4, <2>1 DEF UpdateInner, TaskTyped, ServedOps
  <2> QED BY <1>1, <2>3, <2>4, RequestTyped
<1>5. CASE UpdateOuter(r)
  <2>1. PICK b \in todo[r] :
          /\ todo' = [todo EXCEPT ![r] = @ \ {b}]
          /\ \/ /\ b \in Existing
                /\ IF seenAttached[r][b] \in found[r]
                   THEN attached' = [attached EXCEPT ![b] = NoBlock] /\ UNCHANGED next
                   ELSE next' = [next EXCEPT ![b] = seenNext[r][b] \ found[r]] /\ UNCHANGED attached
                /\ UNCHANGED category
             \/ UNCHANGED graph
    BY <1>5 DEF UpdateOuter, SkipUpdate
  <2>2. b \in Blocks /\ seenNext[r][b] \ found[r] \subseteq Blocks
    BY <1>a DEF TaskTyped
  <2>3. GraphTyped'
    BY <1>a, <1>5, <2>1, <2>2 DEF UpdateOuter, GraphTyped
  <2>4. TaskTyped' /\ ServedOps'
    BY <1>a, <1>5, <2>1 DEF UpdateOuter, TaskTyped, ServedOps
  <2> QED BY <1>1, <2>3, <2>4, RequestTyped
<1>6. CASE UpdateMany(r)
  <2>1. op[r].kind \in {"move", "patchMany"} /\ op[r] \in Requested
    BY <1>b, <1>6 DEF UpdateMany, NoOp
  <2>2. GraphTyped'
    BY <1>a, <1>6, <2>1, ChangeTyped DEF UpdateMany
  <2> QED BY <1>a, <1>1, <1>6, <2>2, AnswerTyped, RequestTyped DEF UpdateMany, Ended
<1>7. CASE CutAttached(r)
  <2>1. GraphTyped'
    BY <1>a, <1>7 DEF CutAttached, GraphTyped
  <2>2. StepOf("cutNext", op[r].kind) /\ "cutNext" \in Steps
    BY <1>b, <1>7 DEF CutAttached, At, StepOf, CreateSteps, MoveSteps, DeleteSteps, Steps
  <2> QED BY <1>a, <1>1, <1>7, <2>1, <2>2, GotoTyped, RequestTyped DEF CutAttached, TaskTyped
<1>8. CASE CutNext(r)
  <2>1. GraphTyped'
    BY <1>a, <1>8 DEF CutNext, GraphTyped
  <2>2. StepOf("remove", op[r].kind) /\ "remove" \in Steps
    BY <1>b, <1>8 DEF CutNext, At, StepOf, CreateSteps, MoveSteps, DeleteSteps, Steps
  <2> QED BY <1>a, <1>1, <1>8, <2>1, <2>2, GotoTyped, RequestTyped DEF CutNext, TaskTyped
<1>9. CASE RemoveBlocks(r)
  <2>1. GraphTyped'
    BY <1>a, <1>9 DEF RemoveBlocks, GraphTyped
  <2> QED BY <1>a, <1>1, <1>9, <2>1, AnswerTyped, RequestTyped DEF RemoveBlocks, Ended
<1>10. CASE RemoveCategory(r)
  <2>1. GraphTyped'
    BY <1>a, <1>10 DEF RemoveCategory, GraphTyped
  <2> QED BY <1>a, <1>1, <1>10, <2>1, AnswerTyped, RequestTyped DEF RemoveCategory, Ended
<1> QED BY <1>2, <1>3, <1>4, <1>5, <1>6, <1>7, <1>8, <1>9, <1>10

LEMMA CrashTyped ==
  ASSUME Typed, Crash
  PROVE  Typed'
<1> USE DEF Typed, graph, task
<1>a. GraphTyped /\ WalkTyped /\ TaskTyped /\ ServedOps /\ mode \in Modes
  BY TypeParts
<1>1. GraphTyped' /\ WalkTyped' /\ mode' \in Modes /\ fallbackBlock' \in Blocks \cup {NoBlock}
  BY <1>a, TypeParts DEF Crash, GraphTyped, WalkTyped
<1>2. TaskTyped'
  BY NoLinksTyped DEF Crash, TaskTyped
<1>3. pc' \in [Reqs -> Resting] /\ op' = [r \in Reqs |-> NoOp]
  BY <1>a DEF Crash, ServedOps, Served, Resting, Ended
<1>4. ServedOps'
  BY <1>3 DEF ServedOps, StepOf, Steps, Resting, Ended, CreateSteps, MoveSteps, DeleteSteps
<1> QED BY <1>1, <1>2, <1>4 DEF TypeOK, GraphTyped, WalkTyped, TaskTyped

LEMMA InitTyped == Init => Typed
<1> SUFFICES ASSUME Init PROVE Typed
  OBVIOUS
<1>1. PICK g \in Flows : category = g.category /\ next = g.next /\ attached = g.attached
  BY DEF Init
<1>2. GraphTyped
  BY <1>1 DEF Init, GraphTyped
<1>3. WalkTyped /\ mode \in Modes /\ fallbackBlock \in Blocks \cup {NoBlock}
  BY DEF Init, WalkTyped, Existing
<1>4. TaskTyped
  BY NoLinksTyped DEF Init, TaskTyped
<1>5. ServedOps
  BY DEF Init, ServedOps, StepOf, Steps, Resting, CreateSteps, MoveSteps, DeleteSteps
<1> QED BY <1>2, <1>3, <1>4, <1>5, TypeParts DEF Typed

LEMMA StutterTyped ==
  ASSUME Typed, UNCHANGED vars
  PROVE  Typed'
BY DEF Typed, TypeOK, ServedOps, vars, graph, walk, task

LEMMA StepTyped ==
  ASSUME Typed, [Next]_vars
  PROVE  Typed'
<1>1. ASSUME NEW r \in Reqs, RequestStep(r) PROVE Typed'
  BY <1>1, ReadingTyped, WritingTyped DEF RequestStep
<1> QED BY <1>1, ConversationTyped, CrashTyped, StutterTyped DEF Next

\* Every request is at a step of its own handler, with what that handler needs,
\* and the collections hold what their schemas say.
THEOREM TypeCorrect == Spec => [](TypeOK /\ ServedOps)
<1>1. Init => Typed
  BY InitTyped
<1>2. Typed /\ [Next]_vars => Typed'
  BY StepTyped
<1> QED BY <1>1, <1>2, PTL DEF Spec, Typed

-----------------------------------------------------------------------------
(* The deletion of a block in use, however the requests overlap.           *)

\* No conversation refers to the blocks of a deletion that has checked for
\* them, but those stored since.
CheckedFree ==
  \A r \in Reqs : PastCheck(r) =>
    \A v \in Convs \ since[r] : (ahead[v] \cup {current[v]}) \cap found[r] = {}

Kept(q) == /\ pc'[q] = pc[q] /\ op'[q] = op[q] /\ found'[q] = found[q] /\ since'[q] = since[q]
           /\ seenNext'[q] = seenNext[q] /\ seenAttached'[q] = seenAttached[q]

LEMMA OthersKept ==
  ASSUME Typed, NEW r \in Reqs, RequestStep(r), NEW q \in Reqs, q # r
  PROVE  Kept(q) /\ UNCHANGED <<mode, fallbackBlock, walk>>
<1> USE DEF Kept, Goto, task
<1>a. /\ pc \in [Reqs -> Steps] /\ op \in [Reqs -> Requested \cup {NoOp}]
      /\ TaskTyped
  BY TypeParts DEF Typed, ServedOps
<1>b. ASSUME NEW how, Answer(r, how) PROVE Kept(q)
  BY <1>a, <1>b DEF Answer, TaskTyped
<1>c. ASSUME NEW bs, Copy(r, bs)
      PROVE  seenNext'[q] = seenNext[q] /\ seenAttached'[q] = seenAttached[q]
  BY <1>a, <1>c DEF Copy, TaskTyped
<1>1. CASE Send(r)
  BY <1>a, <1>1 DEF Send
<1>2. CASE Validate(r)
  BY <1>a, <1>b, <1>2 DEF Validate
<1>3. CASE Insert(r) \/ UpdateOne(r) \/ UpdateMany(r) \/ RemoveBlocks(r) \/ RemoveCategory(r) \/ FailCall(r)
  BY <1>b, <1>3 DEF Insert, UpdateOne, UpdateMany, RemoveBlocks, RemoveCategory, FailCall
<1>4. CASE FindMoved(r) \/ FindDeleted(r)
  BY <1>a, <1>4 DEF FindMoved, FindDeleted, TaskTyped
<1>5. CASE FindLinked(r)
  BY <1>a, <1>c, <1>5 DEF FindLinked
<1>6. CASE FindInner(r)
  BY <1>a, <1>c, <1>6 DEF FindInner
<1>7. CASE UpdateInner(r) \/ InnerDone(r) \/ UpdateOuter(r) \/ OuterDone(r) \/ CutAttached(r) \/ CutNext(r)
  BY <1>a, <1>7 DEF UpdateInner, InnerDone, UpdateOuter, OuterDone, CutAttached, CutNext
<1>8. CASE CheckConversations(r)
  BY <1>a, <1>b, <1>8 DEF CheckConversations
<1>9. CASE CheckFallback(r)
  BY <1>a, <1>b, <1>9 DEF CheckFallback
<1>10. CASE CheckBlocks(r)
  BY <1>a, <1>b, <1>10 DEF CheckBlocks
<1>11. UNCHANGED <<mode, fallbackBlock, walk>>
  BY DEF RequestStep, Send, Validate, Insert, UpdateOne, FindMoved, FindLinked, FindInner,
         UpdateInner, InnerDone, UpdateOuter, OuterDone, UpdateMany, FindDeleted,
         CheckConversations, CheckFallback, CutAttached, CutNext, RemoveBlocks, CheckBlocks,
         RemoveCategory, FailCall
<1> QED BY <1>1, <1>2, <1>3, <1>4, <1>5, <1>6, <1>7, <1>8, <1>9, <1>10, <1>11 DEF RequestStep

LEMMA RequestKeepsFree ==
  ASSUME Typed, CheckedFree, NEW r \in Reqs, RequestStep(r)
  PROVE  CheckedFree'
<1> USE DEF Goto, task, walk
<1>a. /\ pc \in [Reqs -> Steps] /\ op \in [Reqs -> Requested \cup {NoOp}] /\ TaskTyped
      /\ StepOf(pc[r], op[r].kind)
  BY TypeParts DEF Typed, ServedOps
<1>b. UNCHANGED <<current, ahead>>
  BY DEF RequestStep, Send, Validate, Insert, UpdateOne, FindMoved, FindLinked, FindInner,
         UpdateInner, InnerDone, UpdateOuter, OuterDone, UpdateMany, FindDeleted,
         CheckConversations, CheckFallback, CutAttached, CutNext, RemoveBlocks, CheckBlocks,
         RemoveCategory, FailCall
<1>c. SUFFICES ASSUME PastCheck(r)'
               PROVE  \A v \in Convs \ since'[r] : (ahead[v] \cup {current[v]}) \cap found'[r] = {}
  <2>1. ASSUME NEW q \in Reqs, q # r, PastCheck(q)'
        PROVE  \A v \in Convs \ since'[q] : (ahead'[v] \cup {current'[v]}) \cap found'[q] = {}
    BY <1>b, <2>1, OthersKept DEF Kept, PastCheck, CheckedFree
  <2> QED BY <1>b, <2>1 DEF CheckedFree
<1>d. ASSUME NEW how \in Ended, Answer(r, how) PROVE FALSE
  BY <1>a, <1>c, <1>d DEF Answer, PastCheck, Ended
<1>1. CASE FindDeleted(r)
  <2>1. found'[r] = {}
    BY <1>a, <1>c, <1>1 DEF FindDeleted, PastCheck, TaskTyped
  <2> QED BY <2>1
<1>2. CASE CheckConversations(r)
  <2>1. InUse \cap found[r] = {} /\ UNCHANGED <<found, since>>
    BY <1>d, <1>2 DEF CheckConversations, Ended
  <2>2. \A v \in Convs : ahead[v] \cup {current[v]} \subseteq InUse
    BY DEF InUse
  <2> QED BY <2>1, <2>2
<1>3. CASE CheckFallback(r) \/ CutAttached(r) \/ CutNext(r)
  <2>1. UNCHANGED <<found, since, op>>
    BY <1>d, <1>3 DEF CheckFallback, CutAttached, CutNext, Ended
  <2>2. PastCheck(r)
    BY <1>a, <1>3 DEF CheckFallback, CutAttached, CutNext, At, PastCheck, StepOf, DeleteSteps
  <2> QED BY <2>1, <2>2 DEF CheckedFree
<1>4. CASE Send(r)
  <2>1. PICK o \in Operations : op' = [op EXCEPT ![r] = o] /\ pc' = [pc EXCEPT ![r] = Handler[o.kind]]
    BY <1>4 DEF Send
  <2>2. o.kind = "delete" => Handler[o.kind] = "find"
    BY DEF Handler
  <2> QED BY <1>a, <1>c, <2>1, <2>2 DEF PastCheck
<1>5. CASE Validate(r)
  BY <1>a, <1>c, <1>d, <1>5 DEF Validate, PastCheck, Ended, StepOf, CreateSteps
<1>6. CASE Insert(r) \/ UpdateOne(r) \/ UpdateMany(r) \/ RemoveBlocks(r) \/ RemoveCategory(r)
             \/ FailCall(r)
  BY <1>d, <1>6 DEF Insert, UpdateOne, UpdateMany, RemoveBlocks, RemoveCategory, FailCall, Ended
<1>7. CASE FindMoved(r) \/ FindLinked(r) \/ FindInner(r) \/ InnerDone(r) \/ OuterDone(r)
  BY <1>a, <1>c, <1>7 DEF FindMoved, FindLinked, FindInner, InnerDone, OuterDone, At, PastCheck,
                          StepOf, MoveSteps
<1>8. CASE UpdateInner(r) \/ UpdateOuter(r)
  BY <1>a, <1>c, <1>8 DEF UpdateInner, UpdateOuter, At, PastCheck, StepOf, MoveSteps
<1>9. CASE CheckBlocks(r)
  BY <1>a, <1>c, <1>d, <1>9 DEF CheckBlocks, At, PastCheck, Ended, StepOf
<1> QED BY <1>1, <1>2, <1>3, <1>4, <1>5, <1>6, <1>7, <1>8, <1>9 DEF RequestStep

LEMMA ConversationKeepsFree ==
  ASSUME Typed, CheckedFree, NEW v \in Convs, ConversationStep(v)
  PROVE  CheckedFree'
<1> USE DEF task
<1>a. WalkTyped /\ TaskTyped
  BY TypeParts DEF Typed
<1>1. CASE Match(v) \/ FollowAttached(v)
  BY <1>1 DEF Match, FollowAttached, CheckedFree, PastCheck
<1>2. CASE WaitForReply(v)
  <2>1. ASSUME NEW r \in Reqs, PastCheck(r)', NEW u \in Convs \ since'[r]
        PROVE  (ahead'[u] \cup {current'[u]}) \cap found'[r] = {}
    <3>1. PastCheck(r) /\ since'[r] = since[r] \cup {v} /\ found' = found
      BY <1>2, <2>1 DEF WaitForReply, PastCheck
    <3>2. u # v /\ ahead'[u] = ahead[u] /\ current'[u] = current[u]
      BY <1>a, <1>2, <2>1, <3>1 DEF WaitForReply, WalkTyped
    <3> QED BY <2>1, <3>1, <3>2 DEF CheckedFree
  <2> QED BY <2>1 DEF CheckedFree
<1>3. CASE EndConversation(v)
  <2>1. \A u \in Convs : \/ ahead'[u] = ahead[u] /\ current'[u] = current[u]
                         \/ ahead'[u] = {} /\ current'[u] = NoBlock
    BY <1>a, <1>3 DEF EndConversation, WalkTyped
  <2>2. \A r \in Reqs : NoBlock \notin found[r]
    BY <1>a DEF TaskTyped
  <2>3. UNCHANGED <<pc, op, found, since>>
    BY <1>3 DEF EndConversation
  <2> QED BY <2>1, <2>2, <2>3 DEF CheckedFree, PastCheck
<1> QED BY <1>1, <1>2, <1>3 DEF ConversationStep

\* A block that an active conversation waits at or may go on to is deleted only
\* if the conversation came there after the deletion had looked.
THEOREM UsedBlocksAlwaysStay == Spec => UsedBlocksStay
<1>1. Init => CheckedFree
  BY DEF Init, CheckedFree, PastCheck
<1>2. TypeOK /\ ServedOps /\ CheckedFree /\ [Next]_vars => CheckedFree'
  <2>1. ASSUME Typed, CheckedFree, Crash PROVE CheckedFree'
    BY <2>1 DEF Crash, CheckedFree, PastCheck, NoOp
  <2>2. ASSUME CheckedFree, UNCHANGED vars PROVE CheckedFree'
    BY <2>2 DEF CheckedFree, PastCheck, vars, walk, task
  <2> QED BY <2>1, <2>2, RequestKeepsFree, ConversationKeepsFree DEF Next, Typed
<1>3. CheckedFree => [\A r \in Reqs : Deletes(r) =>
       \A v \in Convs \ since[r] : (ahead[v] \cup {current[v]}) \cap found[r] = {}]_vars
  BY DEF CheckedFree, PastCheck, Deletes
<1> QED BY <1>1, <1>2, <1>3, TypeCorrect, PTL DEF Spec, UsedBlocksStay

-----------------------------------------------------------------------------
(* Requests one at a time: what a request has checked or copied is still   *)
(* so when it writes, so its writes bring no link to a block that is gone  *)
(* and leave no block without a category, unless it names them itself.     *)

Alone == \A q, r \in Reqs : Served(q) /\ Served(r) => q = r

\* The payload that was composed in the editor, or has been checked so far, names
\* blocks and categories that exist.
AsksForExisting(r) ==
  /\ op[r].kind = "draw" => op[r].next \subseteq Existing \cup next[op[r].block]
  /\ op[r].kind = "attach" => op[r].attached \in Existing \cup {NoBlock}
  /\ pc[r] \in {"attached", "next", "insert"} => op[r].category \in categories
  /\ pc[r] \in {"next", "insert"} => op[r].attached \in Existing \cup {NoBlock}
  /\ pc[r] = "insert" => op[r].next \subseteq Existing

\* What the request found is still so, and what it has cut stays cut.
FoundStill(r) ==
  /\ found[r] \subseteq Existing
  /\ op[r].kind = "delete" /\ pc[r] # "find" => found[r] = op[r].ids \cap Existing
  /\ op[r].kind = "delete" /\ pc[r] \in {"cutNext", "remove"} =>
       \A b \in Blocks : attached[b] \notin found[r]
  /\ op[r].kind = "delete" /\ pc[r] = "remove" => \A b \in Blocks : next[b] \cap found[r] = {}
  /\ op[r].kind = "deleteCategory" /\ pc[r] = "remove" => Flow(op[r].category) = {}

\* The blocks that stay and have still to lose links, and their copies.
CopiesStill(r) ==
  /\ pc[r] \in {"inner", "updateInner"} =>
       /\ linked[r] \cap found[r] = {}
       /\ \A b \in linked[r] : seenNext[r][b] = next[b]
  /\ pc[r] = "updateInner" => todo[r] \subseteq found[r]
  /\ pc[r] = "updateOuter" => \A b \in todo[r] : seenNext[r][b] = next[b]

\* The steps of a request from which it may be refused.
Refusable == {"category", "attached", "next", "find", "used", "fallback", "blocks"}

NothingWritten(r) ==
  pc[r] \in Refusable \cup {"insert"} =>
    category = before.category /\ next = before.next /\ attached = before.attached

Ready(r) == AsksForExisting(r) /\ FoundStill(r) /\ CopiesStill(r) /\ NothingWritten(r)

Empty(r) == op[r] = NoOp /\ found[r] = {}

Sequential ==
  /\ Alone
  /\ \A r \in Reqs : (Served(r) => Ready(r)) /\ (~Served(r) => Empty(r))

LEMMA SameGraph ==
  ASSUME UNCHANGED <<graph, categories>>
  PROVE  /\ Existing' = Existing /\ \A c : Flow(c)' = Flow(c)
         /\ Orphans' = Orphans /\ \A b : Dangling(b)' = Dangling(b)
BY DEF graph, Existing, Flow, Orphans, Dangling, Links

LEMMA AnswerEmpty ==
  ASSUME Typed, NEW r \in Reqs, NEW how \in Ended, Answer(r, how)
  PROVE  ~Served(r)' /\ Empty(r)'
BY TypeParts DEF Typed, ServedOps, TaskTyped, Answer, Goto, Served, Resting, Empty

LEMMA OthersIdle ==
  ASSUME Typed, Alone, ~mode.overlap, NEW r \in Reqs, RequestStep(r)
  PROVE  \A q \in Reqs : q # r => ~Served(q) /\ ~Served(q)'
<1>1. \A q \in Reqs : q # r => ~Served(q)
  <2>1. CASE Send(r)
    BY <2>1 DEF Send
  <2>2. CASE ~Send(r)
    <3>1. Served(r)
      BY <2>2 DEF RequestStep, Validate, Insert, UpdateOne, FindMoved, FindLinked, FindInner,
         UpdateInner, InnerDone, UpdateOuter, OuterDone, UpdateMany, FindDeleted,
         CheckConversations, CheckFallback, CutAttached, CutNext, RemoveBlocks, CheckBlocks,
         RemoveCategory, FailCall, At, Served, Resting, Ended
    <3> QED BY <3>1 DEF Alone
  <2> QED BY <2>1, <2>2
<1> QED BY <1>1, OthersKept DEF Kept, Served

\* It remains to look at the request that makes the step.
LEMMA OneRequest ==
  ASSUME Typed, Sequential, ~mode.overlap, NEW r \in Reqs, RequestStep(r),
         Served(r)' => Ready(r)', ~Served(r)' => Empty(r)'
  PROVE  Sequential'
<1>1. \A q \in Reqs : q # r => ~Served(q) /\ ~Served(q)'
  BY OthersIdle DEF Sequential
<1>2. \A q \in Reqs : q # r => Empty(q)'
  BY <1>1, OthersKept DEF Sequential, Empty, Kept
<1>3. Alone'
  BY <1>1 DEF Alone
<1> QED BY <1>1, <1>2, <1>3 DEF Sequential

\* Steps that only read, but for sending and answering.
LEMMA SearchKeeps ==
  ASSUME Typed, Sequential, NEW r \in Reqs,
         \/ FindMoved(r) \/ FindLinked(r) \/ FindInner(r)
         \/ InnerDone(r) \/ OuterDone(r) \/ FindDeleted(r)
  PROVE  Ready(r)' /\ Served(r)'
<1> USE DEF Goto, task
<1>a. /\ pc \in [Reqs -> Steps] /\ TaskTyped /\ GraphTyped
      /\ op[r] \in Requested \cup {NoOp} /\ StepOf(pc[r], op[r].kind)
  BY TypeParts DEF Typed, ServedOps
<1>b. UNCHANGED <<graph, categories, op, before>>
  BY DEF FindMoved, FindLinked, FindInner, InnerDone, OuterDone, FindDeleted
<1>c. Served(r) /\ Ready(r)
  BY DEF FindMoved, FindLinked, FindInner, InnerDone, OuterDone, FindDeleted, At, Served,
     Resting, Ended, Sequential
<1>d. /\ Existing' = Existing /\ categories' = categories
      /\ category' = category /\ next' = next /\ attached' = attached
  BY <1>b, SameGraph DEF graph
<1>1. CASE FindDeleted(r)
  <2>1. op[r].kind = "delete" /\ pc'[r] \in {"remove", "used"}
    BY <1>a, <1>1 DEF FindDeleted, At, StepOf, DeleteSteps
  <2>2. found'[r] = op[r].ids \cap Existing
    BY <1>a, <1>1 DEF FindDeleted, TaskTyped
  <2>3. pc'[r] = "remove" => found'[r] = {}
    BY <1>a, <1>1 DEF FindDeleted
  <2>4. pc'[r] = "used" => NothingWritten(r)'
    BY <1>a, <1>b, <1>c, <1>d, <1>1 DEF Ready, NothingWritten, FindDeleted, At, Refusable
  <2>5. AsksForExisting(r)'
    BY <1>b, <2>1 DEF AsksForExisting
  <2>6. FoundStill(r)'
    BY <1>b, <1>c, <1>d, <2>1, <2>2, <2>3 DEF FoundStill, Ready
  <2>7. NothingWritten(r)'
    BY <2>1, <2>4 DEF NothingWritten, Refusable
  <2>8. CopiesStill(r)'
    BY <2>1 DEF CopiesStill
  <2> QED BY <1>d, <2>1, <2>5, <2>6, <2>7, <2>8 DEF Ready, Served, Resting, Ended
<1>2. CASE ~FindDeleted(r)
  <2>1. op[r].kind = "move" /\ pc'[r] \in MoveSteps \cup {"write"}
    BY <1>a, <1>2 DEF FindMoved, FindLinked, FindInner, InnerDone, OuterDone, At, StepOf,
       MoveSteps
  <2>2. found'[r] \subseteq Existing
    BY <1>a, <1>c, <1>2 DEF FindMoved, FindLinked, FindInner, InnerDone, OuterDone, TaskTyped,
                            Ready, FoundStill
  <2>3. CopiesStill(r)'
    <3>1. CASE FindMoved(r) \/ OuterDone(r)
      <4>1. pc'[r] \in {"write", "linked"}
        BY <1>a, <3>1 DEF FindMoved, OuterDone
      <4> QED BY <4>1 DEF CopiesStill
    <3>2. CASE FindLinked(r)
      <4> DEFINE bs == {b \in Flow(source[r]) \ found[r] : Links(b) \cap found[r] # {}}
      <4>1. linked'[r] = bs /\ found'[r] = found[r] /\ pc'[r] = "inner" /\ Copy(r, bs)
        BY <1>a, <3>2 DEF FindLinked, TaskTyped
      <4>2. \A b \in bs : seenNext'[r][b] = next[b]
        <5>1. bs \subseteq Blocks
          BY DEF Flow, Existing
        <5> QED BY <1>a, <4>1, <5>1 DEF Copy, TaskTyped
      <4> QED BY <1>d, <4>1, <4>2 DEF CopiesStill
    <3>3. CASE FindInner(r)
      <4> DEFINE bs == {b \in found[r] \cap Existing : category[b] # op[r].category}
      <4>1. /\ linked' = linked /\ found' = found /\ todo'[r] = bs
            /\ pc[r] = "inner" /\ pc'[r] = "updateInner" /\ Copy(r, bs)
        BY <1>a, <3>3 DEF FindInner, TaskTyped, At
      <4>2. linked[r] \cap found[r] = {} /\ \A b \in linked[r] : seenNext[r][b] = next[b]
        BY <1>c, <4>1 DEF Ready, CopiesStill
      <4>3. \A b \in linked[r] : seenNext'[r][b] = seenNext[r][b]
        BY <1>a, <4>1, <4>2 DEF Copy, TaskTyped
      <4> QED BY <1>d, <4>1, <4>2, <4>3 DEF CopiesStill
    <3>4. CASE InnerDone(r)
      <4>1. /\ seenNext' = seenNext /\ todo'[r] = linked[r]
            /\ pc[r] = "updateInner" /\ pc'[r] = "updateOuter"
        BY <1>a, <3>4 DEF InnerDone, TaskTyped, At
      <4> QED BY <1>c, <1>d, <4>1 DEF CopiesStill, Ready
    <3> QED BY <1>2, <3>1, <3>2, <3>3, <3>4
  <2>4. AsksForExisting(r)'
    BY <1>b, <1>c, <1>d, <2>1 DEF AsksForExisting, Ready, MoveSteps
  <2>5. FoundStill(r)'
    BY <1>b, <1>d, <2>1, <2>2 DEF FoundStill, MoveSteps
  <2>6. NothingWritten(r)'
    BY <2>1 DEF NothingWritten, Refusable, MoveSteps
  <2> QED BY <1>d, <2>1, <2>3, <2>4, <2>5, <2>6 DEF Ready, Served, Resting, Ended, MoveSteps
<1> QED BY <1>1, <1>2

\* What SearchKeeps says of a step, for those that may answer.
InOrderAfter(r) ==
  /\ (Served(r)' => Ready(r)') /\ (~Served(r)' => Empty(r)')

LEMMA SendKeeps ==
  ASSUME Typed, Sequential, ~mode.overlap, NEW r \in Reqs, Send(r)
  PROVE  InOrderAfter(r)
<1> USE DEF Goto, task
<1>a. pc \in [Reqs -> Steps] /\ op \in [Reqs -> Requested \cup {NoOp}]
  BY DEF Typed, ServedOps
<1>b. UNCHANGED <<graph, categories, found>>
  BY DEF Send
<1>c. /\ Existing' = Existing /\ categories' = categories
      /\ category' = category /\ next' = next /\ attached' = attached
  BY <1>b, SameGraph DEF graph
<1>1. PICK o \in Operations : op' = [op EXCEPT ![r] = o] /\ pc' = [pc EXCEPT ![r] = Handler[o.kind]]
  BY DEF Send
<1>2. op'[r] = o /\ pc'[r] = Handler[o.kind] /\ o \in Requested
  BY <1>a, <1>1, OperationTyped DEF Typed
<1>3. pc'[r] \notin {"attached", "next", "insert", "inner", "updateInner", "updateOuter"} \cup Resting
  BY <1>2 DEF Resting, Ended, Handler, Requested, Creating, Drawing, Attaching, Patch, Moving,
              PatchMany, Deleting, DeletingCategory
<1>4. AsksForExisting(r)'
  <2>1. o.kind = "draw" => o.next \subseteq Existing \cup next[o.block]
    BY DEF Operations, Create, Creations, DrawWithinFlow, Draw, Attach, Patch, Move, PatchMany,
           Delete, DeleteCategory, Flow
  <2>2. o.kind = "attach" => o.attached \in Existing \cup {NoBlock}
    BY DEF Operations, Create, Creations, DrawWithinFlow, Draw, Attach, Patch, Move, PatchMany,
           Delete, DeleteCategory
  <2> QED BY <1>2, <1>3, <1>c, <2>1, <2>2 DEF AsksForExisting
<1>5. FoundStill(r)'
  <2>1. found'[r] = {}
    BY <1>b DEF Send, At, Served, Resting, Sequential, Empty
  <2>2. o.kind = "delete" => pc'[r] = "find"
    BY <1>2 DEF Handler
  <2>3. o.kind = "deleteCategory" => pc'[r] = "blocks"
    BY <1>2 DEF Handler
  <2> QED BY <1>2, <2>1, <2>2, <2>3 DEF FoundStill
<1>6. NothingWritten(r)'
  BY <1>c DEF Send, NothingWritten
<1>7. CopiesStill(r)'
  BY <1>3 DEF CopiesStill
<1> QED BY <1>3, <1>4, <1>5, <1>6, <1>7 DEF InOrderAfter, Ready, Served

LEMMA CheckKeeps ==
  ASSUME Typed, Sequential, NEW r \in Reqs,
         \/ Validate(r) \/ CheckConversations(r) \/ CheckFallback(r) \/ CheckBlocks(r)
         \/ FailCall(r)
  PROVE  InOrderAfter(r)
<1> USE DEF Goto, task
<1>a. /\ pc \in [Reqs -> Steps] /\ op[r] \in Requested \cup {NoOp} /\ StepOf(pc[r], op[r].kind)
  BY DEF Typed, ServedOps
<1>b. UNCHANGED <<graph, categories>>
  BY DEF Validate, CheckConversations, CheckFallback, CheckBlocks, FailCall
<1>c. /\ Existing' = Existing /\ categories' = categories
      /\ category' = category /\ next' = next /\ attached' = attached
      /\ \A c : Flow(c)' = Flow(c)
  BY <1>b, SameGraph DEF graph
<1>d. Served(r) => Ready(r)
  BY DEF Sequential
<1>e. ASSUME NEW how \in Ended, Answer(r, how) PROVE InOrderAfter(r)
  BY <1>e, AnswerEmpty DEF InOrderAfter
<1>1. CASE Validate(r)
  <2>1. CASE Referenced(r)
    <3>1. /\ op[r].kind = "create" /\ pc[r] \in {"category", "attached", "next"}
          /\ UNCHANGED <<op, found, seenNext, before>>
      BY <1>a, <1>1, <2>1 DEF Validate, StepOf, CreateSteps
    <3>2. /\ pc'[r] = [category |-> "attached", attached |-> "next", next |-> "insert"][pc[r]]
      BY <1>a, <1>1, <2>1 DEF Validate
    <3>3. pc'[r] \in {"attached", "next", "insert"}
      BY <3>1, <3>2
    <3>4. op[r].category \in categories
      BY <1>d, <2>1, <3>1 DEF Referenced, At, Ready, AsksForExisting, Served, Resting, Ended
    <3>5. Ready(r)
      BY <1>d, <3>1 DEF Served, Resting, Ended
    <3>6. AsksForExisting(r)'
      <4>1. pc'[r] \in {"next", "insert"} => op[r].attached \in Existing \cup {NoBlock}
        <5>1. CASE pc[r] = "category"
          BY <3>2, <5>1
        <5>2. CASE pc[r] = "attached"
          BY <2>1, <5>2 DEF Referenced, At
        <5>3. CASE pc[r] = "next"
          BY <3>5, <5>3 DEF Ready, AsksForExisting
        <5> QED BY <3>1, <5>1, <5>2, <5>3
      <4>2. pc'[r] = "insert" => op[r].next \subseteq Existing
        <5>1. pc'[r] = "insert" => pc[r] = "next"
          BY <3>1, <3>2
        <5> QED BY <2>1, <5>1 DEF Referenced, At
      <4> QED BY <1>c, <3>1, <3>4, <4>1, <4>2 DEF AsksForExisting
    <3>7. FoundStill(r)'
      BY <1>c, <3>1, <3>5 DEF FoundStill, Ready
    <3>8. NothingWritten(r)'
      BY <1>c, <3>1, <3>5 DEF NothingWritten, Ready, Refusable
    <3>9. CopiesStill(r)'
      BY <3>3 DEF CopiesStill
    <3> QED BY <3>3, <3>6, <3>7, <3>8, <3>9 DEF InOrderAfter, Ready, Served, Resting, Ended
  <2> QED BY <1>1, <1>e, <2>1 DEF Validate, Ended
<1>2. CASE CheckConversations(r) \/ CheckFallback(r)
  <2>1. CASE UNCHANGED <<op, task, since, before>> /\ pc' = [pc EXCEPT ![r] = "fallback"] /\ pc[r] = "used"
    <3>1. op[r].kind = "delete" /\ Ready(r) /\ pc'[r] = "fallback"
      BY <1>a, <1>d, <2>1 DEF StepOf, DeleteSteps, Served, Resting, Ended
    <3> QED BY <1>c, <2>1, <3>1 DEF InOrderAfter, Ready, AsksForExisting, FoundStill,
               CopiesStill, NothingWritten, Refusable, Served, Resting, Ended
  <2>2. CASE UNCHANGED <<op, task, since, before>> /\ pc' = [pc EXCEPT ![r] = "cutAttached"] /\ pc[r] = "fallback"
    <3>1. op[r].kind = "delete" /\ Ready(r) /\ pc'[r] = "cutAttached"
      BY <1>a, <1>d, <2>2 DEF StepOf, DeleteSteps, Served, Resting, Ended
    <3> QED BY <1>c, <2>2, <3>1 DEF InOrderAfter, Ready, AsksForExisting, FoundStill,
               CopiesStill, NothingWritten, Refusable, Served, Resting, Ended
  <2> QED BY <1>2, <1>e, <2>1, <2>2 DEF CheckConversations, CheckFallback, At, Ended
<1>3. CASE CheckBlocks(r)
  <2>1. CASE Flow(op[r].category) = {}
    <3>1. /\ op[r].kind = "deleteCategory" /\ pc[r] = "blocks" /\ pc'[r] = "remove" /\ Ready(r)
          /\ UNCHANGED <<op, found, seenNext, before>>
      BY <1>a, <1>d, <1>3, <2>1 DEF CheckBlocks, At, StepOf, Served, Resting, Ended
    <3> QED BY <1>c, <2>1, <3>1 DEF InOrderAfter, Ready, AsksForExisting, FoundStill,
               CopiesStill, NothingWritten, Refusable, Served, Resting, Ended
  <2> QED BY <1>3, <1>e, <2>1 DEF CheckBlocks, Ended
<1>4. CASE FailCall(r)
  BY <1>4, <1>e DEF FailCall, Ended
<1> QED BY <1>1, <1>2, <1>3, <1>4

LEMMA WriteKeeps ==
  ASSUME Typed, NEW r \in Reqs,
         \/ Insert(r) \/ UpdateOne(r) \/ UpdateMany(r) \/ RemoveBlocks(r) \/ RemoveCategory(r)
  PROVE  InOrderAfter(r)
BY AnswerEmpty DEF InOrderAfter, Insert, UpdateOne, UpdateMany, RemoveBlocks, RemoveCategory,
   Ended

LEMMA CutKeeps ==
  ASSUME Typed, Sequential, NEW r \in Reqs,
         UpdateInner(r) \/ UpdateOuter(r) \/ CutAttached(r) \/ CutNext(r)
  PROVE  InOrderAfter(r)
<1> USE DEF Goto, task, graph
<1>a. /\ GraphTyped /\ TaskTyped /\ op[r] \in Requested \cup {NoOp} /\ StepOf(pc[r], op[r].kind)
      /\ pc \in [Reqs -> Steps]
  BY TypeParts DEF Typed, ServedOps
<1>b. Served(r) /\ Ready(r)
  BY DEF Sequential, UpdateInner, UpdateOuter, CutAttached, CutNext, At, Served, Resting, Ended
<1>c. /\ UNCHANGED <<category, categories, op, found, linked, seenNext, before>>
      /\ pc'[r] \notin Resting /\ pc'[r] \notin Refusable \cup {"insert"}
      /\ op[r].kind \in {"move", "delete"}
  BY <1>a DEF UpdateInner, UpdateOuter, CutAttached, CutNext, SkipUpdate, At, Refusable,
     Resting, Ended, StepOf, MoveSteps, DeleteSteps
<1>d. Existing' = Existing
  BY <1>c DEF Existing
<1>e. AsksForExisting(r)' /\ Served(r)' /\ NothingWritten(r)'
  BY <1>c DEF AsksForExisting, Refusable, Served, NothingWritten
<1>1. CASE UpdateInner(r) \/ UpdateOuter(r)
  <2>1. op[r].kind = "move" /\ pc' = pc
    BY <1>1, <1>a DEF UpdateInner, UpdateOuter, At, StepOf, MoveSteps
  <2>2. FoundStill(r)'
    BY <1>b, <1>c, <1>d, <2>1 DEF FoundStill, Ready
  <2>3. PICK b \in todo[r] : /\ todo'[r] = todo[r] \ {b}
                             /\ \A x \in Blocks \ {b} : next'[x] = next[x]
    BY <1>1, <1>a DEF UpdateInner, UpdateOuter, SkipUpdate, TaskTyped, GraphTyped
  <2>4. CopiesStill(r)'
    <3>1. linked[r] \subseteq Blocks /\ todo[r] \subseteq Blocks
      BY <1>a DEF TaskTyped
    <3>2. CASE UpdateInner(r)
      BY <1>b, <1>c, <2>1, <2>3, <3>1, <3>2 DEF UpdateInner, At, CopiesStill, Ready
    <3>3. CASE UpdateOuter(r)
      BY <1>b, <1>c, <2>1, <2>3, <3>1, <3>3 DEF UpdateOuter, At, CopiesStill, Ready
    <3> QED BY <1>1, <3>2, <3>3
  <2> QED BY <1>e, <2>2, <2>4 DEF InOrderAfter, Ready
<1>2. CASE CutAttached(r)
  <2>1. op[r].kind = "delete" /\ pc[r] = "cutAttached" /\ pc'[r] = "cutNext"
    BY <1>2, <1>a DEF CutAttached, At, StepOf, DeleteSteps
  <2>2. \A b \in Blocks : attached'[b] \notin found[r]
    BY <1>a, <1>2 DEF CutAttached, TaskTyped
  <2>3. FoundStill(r)'
    BY <1>b, <1>c, <1>d, <2>1, <2>2 DEF FoundStill, Ready
  <2>4. CopiesStill(r)'
    BY <2>1 DEF CopiesStill
  <2> QED BY <1>e, <2>3, <2>4 DEF InOrderAfter, Ready
<1>3. CASE CutNext(r)
  <2>1. op[r].kind = "delete" /\ pc[r] = "cutNext" /\ pc'[r] = "remove"
    BY <1>3, <1>a DEF CutNext, At, StepOf, DeleteSteps
  <2>2. \A b \in Blocks : next'[b] = next[b] \ found[r]
    BY <1>3 DEF CutNext
  <2>3. FoundStill(r)'
    BY <1>b, <1>c, <1>d, <1>3, <2>1, <2>2 DEF FoundStill, Ready, CutNext
  <2>4. CopiesStill(r)'
    BY <2>1 DEF CopiesStill
  <2> QED BY <1>e, <2>3, <2>4 DEF InOrderAfter, Ready
<1> QED BY <1>1, <1>2, <1>3

LEMMA RequestMode ==
  ASSUME NEW r \in Reqs, RequestStep(r)
  PROVE  UNCHANGED mode
BY DEF RequestStep, Send, Validate, Insert, UpdateOne, FindMoved, FindLinked, FindInner,
       UpdateInner, InnerDone, UpdateOuter, OuterDone, UpdateMany, FindDeleted,
       CheckConversations, CheckFallback, CutAttached, CutNext, RemoveBlocks, CheckBlocks,
       RemoveCategory, FailCall

LEMMA RequestInOrder ==
  ASSUME Typed, Sequential, ~mode.overlap, NEW r \in Reqs, RequestStep(r)
  PROVE  Sequential'
<1>1. InOrderAfter(r)
  <2>1. CASE \/ FindMoved(r) \/ FindLinked(r) \/ FindInner(r)
             \/ InnerDone(r) \/ OuterDone(r) \/ FindDeleted(r)
    BY <2>1, SearchKeeps DEF InOrderAfter
  <2> QED BY <2>1, SendKeeps, CheckKeeps, WriteKeeps, CutKeeps DEF RequestStep
<1> QED BY <1>1, OneRequest DEF InOrderAfter

\* The conversations read the graph only, and a crash leaves it as it is.
LEMMA RestInOrder ==
  ASSUME Typed, Sequential, Crash \/ (\E v \in Convs : ConversationStep(v)) \/ UNCHANGED vars
  PROVE  Sequential'
<1> USE DEF graph, task
<1>1. CASE Crash
  <2>1. \A r \in Reqs : ~Served(r)' /\ Empty(r)'
    BY <1>1 DEF Crash, Served, Resting, Ended, Empty
  <2> QED BY <2>1 DEF Sequential, Alone
<1>2. CASE UNCHANGED <<graph, categories, pc, op, found, linked, todo, seenNext, before>>
  <2>1. Existing' = Existing /\ \A c : Flow(c)' = Flow(c)
    BY <1>2, SameGraph
  <2>2. \A r \in Reqs : (Served(r)' <=> Served(r)) /\ (Empty(r)' <=> Empty(r))
    BY <1>2 DEF Served, Empty
  <2>3. ASSUME NEW r \in Reqs, Ready(r) PROVE Ready(r)'
    <3>1. AsksForExisting(r)'
      BY <1>2, <2>1, <2>3 DEF Ready, AsksForExisting
    <3>2. FoundStill(r)'
      BY <1>2, <2>1, <2>3 DEF Ready, FoundStill
    <3>3. NothingWritten(r)' /\ CopiesStill(r)'
      BY <1>2, <2>3 DEF Ready, NothingWritten, CopiesStill
    <3> QED BY <3>1, <3>2, <3>3 DEF Ready
  <2> QED BY <2>1, <2>2, <2>3 DEF Sequential, Alone
<1> QED BY <1>1, <1>2 DEF ConversationStep, Match, FollowAttached, WaitForReply,
           EndConversation, vars

LEMMA InitInOrder == Init => Sequential
BY DEF Init, Served, Resting, Empty, Sequential, Alone

\* One request at a time, each finds the graph as its checks left it.
THEOREM AlwaysInOrder == Spec => [](~mode.overlap => Sequential)
<1>1. TypeOK /\ ServedOps /\ (~mode.overlap => Sequential) /\ [Next]_vars
        => (~mode.overlap => Sequential)'
  <2>1. [Next]_vars => UNCHANGED mode
    BY RequestMode DEF Next, vars, Crash, ConversationStep, Match, FollowAttached, WaitForReply,
                      EndConversation
  <2> QED BY <2>1, RequestInOrder, RestInOrder DEF Next, Typed
<1> QED BY <1>1, InitInOrder, TypeCorrect, PTL DEF Spec

\* What an unchecked update names, field by field.
LEMMA NamedLinks ==
  ASSUME NEW r \in Reqs, At(r, "write"), op[r].kind \in {"patch", "patchMany"}
  PROVE  /\ op[r].field = "next" => Named(r) = op[r].next
         /\ op[r].field = "attached" => Named(r) = {op[r].attached}
BY DEF Named

\* An update of existing blocks keeps them existing, and changes one field.
LEMMA ChangedLinks ==
  ASSUME GraphTyped, NEW o \in Requested, o.kind \in {"draw", "attach", "patch", "move", "patchMany"},
         NEW bs \in SUBSET Existing, Change(bs, o)
  PROVE  /\ Existing' = Existing
         /\ \A b \in Blocks :
              \/ Links(b)' \subseteq Links(b)
              \/ b \in bs /\ o.field = "next" /\ Links(b)' \subseteq Links(b) \cup o.next
              \/ b \in bs /\ o.field = "attached" /\ Links(b)' \subseteq Links(b) \cup ({o.attached} \ {NoBlock})
         /\ \A b \in Blocks : \/ category'[b] = category[b]
                              \/ o.field = "category" /\ category'[b] = o.category
<1>1. o.field = "category" => o.category \in Categories
  BY OpFields
<1>2. \A b \in Blocks : \/ category'[b] = category[b]
                        \/ b \in bs /\ o.field = "category" /\ category'[b] = o.category
  BY DEF Change
<1>3. Existing' = Existing
  BY <1>1, <1>2 DEF Existing
<1>4. ASSUME NEW b \in Blocks
      PROVE  \/ Links(b)' \subseteq Links(b)
             \/ b \in bs /\ o.field = "next" /\ Links(b)' \subseteq Links(b) \cup o.next
             \/ /\ b \in bs /\ o.field = "attached"
                /\ Links(b)' \subseteq Links(b) \cup ({o.attached} \ {NoBlock})
  BY DEF Change, Links
<1> QED BY <1>2, <1>3, <1>4

\* A step of a request brings a link to a block that is gone only if an update
\* names that block.
LEMMA LinksThere ==
  ASSUME Typed, Sequential, NEW r \in Reqs, RequestStep(r), NEW b \in Blocks
  PROVE  Dangling(b)' \subseteq Dangling(b) \cup Named(r)
<1> USE DEF graph
<1>a. /\ GraphTyped /\ TaskTyped /\ op[r] \in Requested \cup {NoOp} /\ StepOf(pc[r], op[r].kind)
  BY TypeParts DEF Typed, ServedOps
<1>b. Served(r) => Ready(r)
  BY DEF Sequential
<1>c. Gone \notin Categories /\ NoBlock \notin Blocks /\ Existing \subseteq Blocks
  BY DEF Existing
<1>1. CASE UNCHANGED graph
  BY <1>1 DEF Dangling, Links, Existing
<1>2. CASE Insert(r)
  <2>1. op[r].kind = "create" /\ Ready(r) /\ pc[r] = "insert"
    BY <1>a, <1>b, <1>2 DEF Insert, At, StepOf, CreateSteps, Served, Resting, Ended
  <2>2. /\ op[r].block \in Blocks /\ op[r].category \in Categories
        /\ op[r].next \subseteq Existing /\ op[r].attached \in Existing \cup {NoBlock}
    BY <1>a, <2>1, OpFields DEF Ready, AsksForExisting
  <2>3. Existing' = Existing \cup {op[r].block}
    BY <1>a, <1>2, <2>2 DEF Insert, Existing, GraphTyped
  <2>4. \/ next'[b] = next[b] /\ attached'[b] = attached[b]
        \/ next'[b] \subseteq Existing /\ attached'[b] \in Existing \cup {NoBlock}
    BY <1>a, <1>2, <2>2 DEF Insert, GraphTyped
  <2> QED BY <2>3, <2>4 DEF Dangling, Links
<1>3. CASE UpdateOne(r) /\ op[r].block \in Existing
  <2>1. /\ At(r, "write") /\ op[r].kind \in {"draw", "attach", "patch"} /\ op[r] \in Requested
        /\ Change({op[r].block}, op[r]) /\ Ready(r)
    BY <1>a, <1>b, <1>3 DEF UpdateOne, NoOp, At, Served, Resting, Ended
  <2>2. /\ Existing' = Existing
        /\ \/ Links(b)' \subseteq Links(b)
           \/ b = op[r].block /\ op[r].field = "next" /\ Links(b)' \subseteq Links(b) \cup op[r].next
           \/ op[r].field = "attached" /\ Links(b)' \subseteq Links(b) \cup ({op[r].attached} \ {NoBlock})
    BY <1>a, <1>3, <2>1, ChangedLinks
  <2>3. CASE op[r].kind = "patch"
    BY <2>1, <2>2, <2>3, NamedLinks DEF Dangling
  <2>4. CASE op[r].kind = "draw"
    <3>1. op[r].field = "next" /\ op[r].next \subseteq Existing \cup next[op[r].block]
      BY <2>1, <2>4, OpFields DEF Ready, AsksForExisting
    <3>2. b = op[r].block => next[op[r].block] \subseteq Links(b)
      BY DEF Links
    <3> QED BY <2>2, <3>1, <3>2 DEF Dangling
  <2>5. CASE op[r].kind = "attach"
    <3>1. op[r].field = "attached" /\ op[r].attached \in Existing \cup {NoBlock}
      BY <2>1, <2>5, OpFields DEF Ready, AsksForExisting
    <3> QED BY <2>2, <3>1 DEF Dangling
  <2> QED BY <2>1, <2>3, <2>4, <2>5
<1>4. CASE UpdateMany(r)
  <2>1. /\ At(r, "write") /\ op[r].kind \in {"move", "patchMany"} /\ op[r] \in Requested
        /\ Change(op[r].ids \cap Existing, op[r])
    BY <1>a, <1>4 DEF UpdateMany, NoOp
  <2>2. /\ Existing' = Existing
        /\ \/ Links(b)' \subseteq Links(b)
           \/ op[r].field = "next" /\ Links(b)' \subseteq Links(b) \cup op[r].next
           \/ op[r].field = "attached" /\ Links(b)' \subseteq Links(b) \cup ({op[r].attached} \ {NoBlock})
    BY <1>a, <2>1, ChangedLinks
  <2>3. CASE op[r].kind = "patchMany"
    BY <2>1, <2>2, <2>3, NamedLinks DEF Dangling
  <2>4. CASE op[r].kind = "move"
    <3>1. op[r].field = "category"
      BY <2>1, <2>4, OpFields
    <3> QED BY <2>2, <3>1 DEF Dangling
  <2> QED BY <2>1, <2>3, <2>4
<1>5. CASE UpdateInner(r) /\ UNCHANGED category
  <2>1. found[r] \subseteq Existing /\ Existing' = Existing
    BY <1>b, <1>5 DEF UpdateInner, At, Served, Resting, Ended, Ready, FoundStill, Existing
  <2>2. \/ next'[b] = next[b] /\ attached'[b] = attached[b]
        \/ next'[b] \subseteq found[r] /\ attached'[b] \in found[r] \cup {NoBlock}
    BY <1>a, <1>5 DEF UpdateInner, SkipUpdate, GraphTyped, TaskTyped
  <2> QED BY <2>1, <2>2 DEF Dangling, Links
<1>6. CASE UpdateOuter(r) /\ UNCHANGED category
  <2>1. Existing' = Existing /\ \A x \in todo[r] : seenNext[r][x] = next[x]
    BY <1>b, <1>6 DEF UpdateOuter, At, Served, Resting, Ended, Ready, CopiesStill, Existing
  <2>2. next'[b] \subseteq next[b] /\ attached'[b] \in {attached[b], NoBlock}
    <3>1. PICK x \in todo[r] :
            \/ attached' = [attached EXCEPT ![x] = NoBlock] /\ UNCHANGED next
            \/ next' = [next EXCEPT ![x] = seenNext[r][x] \ found[r]] /\ UNCHANGED attached
            \/ UNCHANGED <<next, attached>>
      BY <1>6 DEF UpdateOuter, SkipUpdate
    <3>2. seenNext[r][x] = next[x]
      BY <2>1
    <3> QED BY <1>a, <3>1, <3>2 DEF GraphTyped
  <2> QED BY <2>1, <2>2 DEF Dangling, Links
<1>7. CASE CutAttached(r) \/ CutNext(r)
  <2>1. /\ Existing' = Existing
        /\ next'[b] \subseteq next[b] /\ attached'[b] \in {attached[b], NoBlock}
    BY <1>7 DEF CutAttached, CutNext, Existing
  <2> QED BY <2>1 DEF Dangling, Links
<1>8. CASE RemoveBlocks(r)
  <2> DEFINE gone == op[r].ids \cap Existing
  <2>1. gone = found[r] /\ attached[b] \notin gone /\ next[b] \cap gone = {}
    BY <1>b, <1>8 DEF RemoveBlocks, At, Served, Resting, Ended, Ready, FoundStill
  <2>2. Existing' = Existing \ gone
    BY <1>c, <1>8 DEF RemoveBlocks, Existing
  <2>3. Links(b)' \subseteq Links(b) /\ Links(b) \cap gone = {}
    BY <1>8, <2>1 DEF RemoveBlocks, Links
  <2> QED BY <2>2, <2>3 DEF Dangling
<1>9. \/ UNCHANGED graph \/ Insert(r) \/ (UpdateOne(r) /\ op[r].block \in Existing) \/ UpdateMany(r)
      \/ (UpdateInner(r) /\ UNCHANGED category) \/ (UpdateOuter(r) /\ UNCHANGED category)
      \/ CutAttached(r) \/ CutNext(r) \/ RemoveBlocks(r)
  BY DEF RequestStep, Send, Validate, UpdateOne, FindMoved, FindLinked, FindInner, UpdateInner,
         InnerDone, UpdateOuter, OuterDone, SkipUpdate, FindDeleted, CheckConversations,
         CheckFallback, CheckBlocks, RemoveCategory, FailCall
<1> QED BY <1>1, <1>2, <1>3, <1>4, <1>5, <1>6, <1>7, <1>8, <1>9

\* A step of a request leaves a block in a category that is gone only if an update
\* names that category.
LEMMA CategoriesThere ==
  ASSUME Typed, Sequential, NEW r \in Reqs, RequestStep(r), NEW b \in Orphans' \ Orphans
  PROVE  At(r, "write") /\ op[r].field = "category" /\ op[r].category = category'[b]
<1> USE DEF graph
<1>a. /\ GraphTyped /\ op[r] \in Requested \cup {NoOp} /\ StepOf(pc[r], op[r].kind)
  BY TypeParts DEF Typed, ServedOps
<1>b. Served(r) => Ready(r)
  BY DEF Sequential
<1>1. b \in Existing' /\ category'[b] \in Categories /\ category'[b] \notin categories' /\ b \in Blocks
  BY DEF Orphans, Existing
<1>2. ~UNCHANGED <<category, categories>>
  BY DEF Orphans, Existing
<1>3. CASE Insert(r)
  <2>1. op[r].category \in categories
    BY <1>b, <1>3 DEF Insert, At, Served, Resting, Ended, Ready, AsksForExisting
  <2>2. category'[b] = category[b]
    BY <1>a, <1>1, <1>3, <2>1 DEF Insert, GraphTyped
  <2> QED BY <1>1, <1>3, <2>2 DEF Insert, Orphans, Existing
<1>4. CASE UpdateOne(r) \/ UpdateMany(r)
  <2>1. PICK bs \in SUBSET Existing : Change(bs, op[r])
    BY <1>2, <1>4 DEF UpdateOne, UpdateMany
  <2>2. /\ op[r] \in Requested /\ op[r].kind \in {"draw", "attach", "patch", "move", "patchMany"}
        /\ At(r, "write") /\ categories' = categories
    BY <1>a, <1>4 DEF UpdateOne, UpdateMany, NoOp
  <2>3. \/ category'[b] = category[b]
        \/ op[r].field = "category" /\ category'[b] = op[r].category
    BY <1>a, <1>1, <2>1, <2>2, ChangedLinks
  <2>4. category'[b] # category[b]
    BY <1>1, <2>2 DEF Orphans, Existing
  <2> QED BY <2>2, <2>3, <2>4
<1>5. CASE RemoveBlocks(r)
  <2>1. category'[b] = category[b] /\ categories' = categories
    BY <1>1, <1>5 DEF RemoveBlocks
  <2> QED BY <1>1, <2>1 DEF Orphans, Existing
<1>6. CASE RemoveCategory(r)
  <2>1. Flow(op[r].category) = {}
    BY <1>b, <1>6 DEF RemoveCategory, At, Served, Resting, Ended, Ready, FoundStill
  <2>2. category' = category /\ categories \ {op[r].category} \subseteq categories'
    BY <1>6 DEF RemoveCategory
  <2>3. b \in Existing /\ category[b] = op[r].category
    BY <1>1, <2>2 DEF Orphans, Existing
  <2> QED BY <2>1, <2>3 DEF Flow
<1>7. Insert(r) \/ UpdateOne(r) \/ UpdateMany(r) \/ RemoveBlocks(r) \/ RemoveCategory(r)
  BY <1>2 DEF RequestStep, Send, Validate, FindMoved, FindLinked, FindInner, UpdateInner,
         InnerDone, UpdateOuter, OuterDone, SkipUpdate, FindDeleted, CheckConversations,
         CheckFallback, CutAttached, CutNext, CheckBlocks, FailCall
<1> QED BY <1>3, <1>4, <1>5, <1>6, <1>7

\* What is not a request leaves the flows as they are.
LEMMA RestLeavesFlows ==
  ASSUME [Next]_vars, ~\E r \in Reqs : RequestStep(r)
  PROVE  Orphans' = Orphans /\ \A b : Dangling(b)' = Dangling(b)
BY SameGraph DEF Next, Crash, ConversationStep, Match, FollowAttached, WaitForReply,
   EndConversation, vars

\* No step leaves a link to a block that does not exist, but for an update that
\* names that block itself.
THEOREM NeverDangling == Spec => NoDangling
<1> DEFINE Tidy == \A b \in Blocks :
             Dangling(b)' \subseteq Dangling(b) \cup UNION {Named(r) : r \in Reqs}
<1>1. TypeOK /\ ServedOps /\ (~mode.overlap => Sequential) /\ [Next]_vars
        => [~mode.overlap => Tidy]_vars
  <2> SUFFICES ASSUME Typed, Sequential, [Next]_vars, NEW b \in Blocks
               PROVE  Dangling(b)' \subseteq Dangling(b) \cup UNION {Named(r) : r \in Reqs}
    BY DEF Typed
  <2>1. CASE \E r \in Reqs : RequestStep(r)
    <3>1. PICK r \in Reqs : Dangling(b)' \subseteq Dangling(b) \cup Named(r)
      BY <2>1, LinksThere
    <3> QED BY <3>1
  <2> QED BY <2>1, RestLeavesFlows
<1> QED BY <1>1, TypeCorrect, AlwaysInOrder, PTL DEF Spec, NoDangling

\* No block is left in, or created in, a category that is gone, but by an update
\* that names that category.
THEOREM CategoriesOutliveBlocks == Spec => CategoryOfBlockExists
<1> DEFINE Filed == \A b \in Orphans' \ Orphans :
             \E r \in Reqs : /\ At(r, "write") /\ op[r].field = "category"
                             /\ op[r].category = category'[b]
<1>1. TypeOK /\ ServedOps /\ (~mode.overlap => Sequential) /\ [Next]_vars
        => [~mode.overlap => Filed]_vars
  <2> SUFFICES ASSUME Typed, Sequential, [Next]_vars, NEW b \in Orphans' \ Orphans
               PROVE  \E r \in Reqs : /\ At(r, "write") /\ op[r].field = "category"
                                      /\ op[r].category = category'[b]
    BY DEF Typed
  <2>1. CASE \E r \in Reqs : RequestStep(r)
    BY <2>1, CategoriesThere
  <2> QED BY <2>1, RestLeavesFlows
<1> QED BY <1>1, TypeCorrect, AlwaysInOrder, PTL DEF Spec, CategoryOfBlockExists

\* The only steps that refuse a request come before any that writes.
LEMMA RefusedAtCheck ==
  ASSUME Typed, [Next]_vars, NEW r \in Reqs, Served(r), pc'[r] = "refused"
  PROVE  pc[r] \in Refusable /\ UNCHANGED graph
<1> USE DEF Goto
<1>a. pc \in [Reqs -> Steps]
  BY DEF Typed, ServedOps
<1>b. pc[r] # "refused"
  BY DEF Served, Resting, Ended
<1>1. PICK q \in Reqs : RequestStep(q)
  <2>1. ~Crash
    BY <1>b DEF Crash
  <2>2. \A v \in Convs : ~ConversationStep(v)
    BY <1>b DEF ConversationStep, Match, FollowAttached, WaitForReply, EndConversation
  <2> QED BY <1>b, <2>1, <2>2 DEF Next, vars
<1>2. q = r
  BY <1>b, <1>1, OthersKept DEF Kept
<1>3. ASSUME NEW how \in {"ok", "failed"}, Answer(r, how) PROVE FALSE
  BY <1>a, <1>3 DEF Answer
<1>4. \/ Validate(r) \/ CheckConversations(r) \/ CheckFallback(r) \/ CheckBlocks(r)
  <2>1. ~Send(r)
    BY DEF Send, At, Served, Resting
  <2>2. ~(Insert(r) \/ UpdateOne(r) \/ UpdateMany(r) \/ RemoveBlocks(r) \/ RemoveCategory(r) \/ FailCall(r))
    BY <1>3 DEF Insert, UpdateOne, UpdateMany, RemoveBlocks, RemoveCategory, FailCall
  <2>3. ~(\/ FindMoved(r) \/ FindLinked(r) \/ FindInner(r) \/ InnerDone(r) \/ OuterDone(r)
          \/ FindDeleted(r) \/ CutAttached(r) \/ CutNext(r))
    BY <1>a DEF FindMoved, FindLinked, FindInner, InnerDone, OuterDone, FindDeleted,
       CutAttached, CutNext
  <2>4. ~(UpdateInner(r) \/ UpdateOuter(r))
    BY <1>b DEF UpdateInner, UpdateOuter
  <2> QED BY <1>1, <1>2, <2>1, <2>2, <2>3, <2>4 DEF RequestStep
<1> QED BY <1>4 DEF Validate, CheckConversations, CheckFallback, CheckBlocks, At, Refusable,
           graph

\* A request that is refused has changed no block and no link.
THEOREM RefusalsChangeNothing == Spec => RefusedLeavesGraph
<1> DEFINE Refusal == ~mode.overlap => \A r \in Reqs :
             Served(r) /\ pc'[r] = "refused" =>
               graph' = <<before.category, before.next, before.attached>>
<1>1. TypeOK /\ ServedOps /\ (~mode.overlap => Sequential) /\ [Next]_vars => [Refusal]_vars
  <2> SUFFICES ASSUME Typed, Sequential, [Next]_vars, NEW r \in Reqs, Served(r), pc'[r] = "refused"
               PROVE  graph' = <<before.category, before.next, before.attached>>
    BY DEF Typed
  <2>1. pc[r] \in Refusable /\ UNCHANGED graph
    BY RefusedAtCheck
  <2> QED BY <2>1 DEF Sequential, Ready, NothingWritten, graph
<1> QED BY <1>1, TypeCorrect, AlwaysInOrder, PTL DEF Spec, RefusedLeavesGraph

-----------------------------------------------------------------------------
(* Graphs as the editor draws them, and what keeps them so.                *)

\* The types of the three functions that make up a graph.
GraphType(c, n, a) ==
  /\ c \in [Blocks -> Categories \cup {Unused, Gone}]
  /\ n \in [Blocks -> SUBSET Blocks]
  /\ a \in [Blocks -> Blocks \cup {NoBlock}]

\* The types of a graph and WellDrawn of FlowGraph, link by link.
DrawnWell(c, n, a) ==
  /\ GraphType(c, n, a)
  /\ \A b \in Blocks :
       /\ \A x \in n[b] : c[x] \in Categories /\ c[x] = c[b]
       /\ a[b] # NoBlock => c[a[b]] \in Categories /\ c[a[b]] = c[b]
       /\ a[b] = NoBlock \/ n[b] = {}

\* The links between the blocks that move and those that stay are gone.
Relocated(c, n, a, ids, k, c1, n1, a1) ==
  \A b \in Blocks :
    /\ c1[b] = IF b \in ids THEN k ELSE c[b]
    /\ n1[b] = {x \in n[b] : x \in ids <=> b \in ids}
    /\ a1[b] = IF a[b] \in ids <=> b \in ids THEN a[b] ELSE NoBlock

LEMMA RelocateDrawnWell ==
  ASSUME NEW c, NEW n, NEW a, DrawnWell(c, n, a), NEW ids, NEW k \in Categories,
         NEW c1, NEW n1, NEW a1, GraphType(c1, n1, a1), Relocated(c, n, a, ids, k, c1, n1, a1)
  PROVE  DrawnWell(c1, n1, a1)
<1> USE DEF Relocated, GraphType
<1>1. ASSUME NEW b \in Blocks, NEW x \in n1[b] PROVE c1[x] \in Categories /\ c1[x] = c1[b]
  <2>1. x \in n[b] /\ x \in Blocks /\ (x \in ids <=> b \in ids)
    BY <1>1 DEF DrawnWell
  <2> QED BY <2>1 DEF DrawnWell
<1>2. ASSUME NEW b \in Blocks, a1[b] # NoBlock
      PROVE  c1[a1[b]] \in Categories /\ c1[a1[b]] = c1[b]
  <2>1. a1[b] = a[b] /\ a[b] \in Blocks /\ (a[b] \in ids <=> b \in ids)
    BY <1>2 DEF DrawnWell
  <2> QED BY <1>2, <2>1 DEF DrawnWell
<1>3. ASSUME NEW b \in Blocks PROVE a1[b] = NoBlock \/ n1[b] = {}
  BY DEF DrawnWell
<1> QED BY <1>1, <1>2, <1>3 DEF DrawnWell

\* The removed blocks have taken the links to them along.
Removed(c, n, a, ids, c1, n1, a1) ==
  \A b \in Blocks :
    /\ c1[b] = IF b \in ids THEN Gone ELSE c[b]
    /\ n1[b] = IF b \in ids THEN {} ELSE n[b] \ ids
    /\ a1[b] = IF b \in ids \/ a[b] \in ids THEN NoBlock ELSE a[b]

LEMMA RemoveDrawnWell ==
  ASSUME NEW c, NEW n, NEW a, DrawnWell(c, n, a), NEW ids,
         NEW c1, NEW n1, NEW a1, GraphType(c1, n1, a1), Removed(c, n, a, ids, c1, n1, a1)
  PROVE  DrawnWell(c1, n1, a1)
<1> USE DEF Removed, GraphType
<1>1. ASSUME NEW b \in Blocks, NEW x \in n1[b] PROVE c1[x] \in Categories /\ c1[x] = c1[b]
  <2>1. x \in n[b] /\ x \in Blocks /\ x \notin ids /\ b \notin ids
    BY <1>1 DEF DrawnWell
  <2> QED BY <2>1 DEF DrawnWell
<1>2. ASSUME NEW b \in Blocks, a1[b] # NoBlock
      PROVE  c1[a1[b]] \in Categories /\ c1[a1[b]] = c1[b]
  <2>1. a1[b] = a[b] /\ a[b] \in Blocks /\ a[b] \notin ids /\ b \notin ids
    BY <1>2 DEF DrawnWell
  <2> QED BY <1>2, <2>1 DEF DrawnWell
<1>3. ASSUME NEW b \in Blocks PROVE a1[b] = NoBlock \/ n1[b] = {}
  BY DEF DrawnWell
<1> QED BY <1>1, <1>2, <1>3 DEF DrawnWell

LEMMA LoseDrawnWell ==
  ASSUME NEW c, NEW n, NEW a, DrawnWell(c, n, a),
         NEW n1 \in [Blocks -> SUBSET Blocks], NEW a1 \in [Blocks -> Blocks \cup {NoBlock}],
         \A b \in Blocks : n1[b] \subseteq n[b] /\ a1[b] \in {a[b], NoBlock}
  PROVE  DrawnWell(c, n1, a1)
BY DEF DrawnWell, GraphType

\* A block that gets other links, of one kind and within its flow.
LEMMA LinkDrawnWell ==
  ASSUME NEW c, NEW n, NEW a, DrawnWell(c, n, a), NEW b \in Blocks,
         NEW s \in SUBSET Blocks, NEW t \in Blocks \cup {NoBlock},
         \A x \in s : c[x] \in Categories /\ c[x] = c[b],
         t # NoBlock => c[t] \in Categories /\ c[t] = c[b],
         t = NoBlock \/ s = {}
  PROVE  DrawnWell(c, [n EXCEPT ![b] = s], [a EXCEPT ![b] = t])
BY DEF DrawnWell, GraphType

-----------------------------------------------------------------------------
(* How far the graph is from the one before the request.                   *)

\* The flow c, and the links of a block, before the request.
FlowBefore(c) == {b \in Blocks : before.category[b] \in Categories /\ before.category[b] = c}

LinksBefore(b) == before.next[b] \cup ({before.attached[b]} \ {NoBlock})

\* The payload is one that the editor composes from the graph it was shown.
Drawn(o) ==
  /\ o.kind \notin {"patch", "patchMany"}
  /\ o.kind = "create" =>
       /\ before.category[o.block] = Unused
       /\ o.next \subseteq FlowBefore(o.category)
       /\ o.attached \in FlowBefore(o.category) \cup {NoBlock}
       /\ o.attached = NoBlock \/ o.next = {}
  /\ o.kind = "draw" =>
       /\ before.category[o.block] \in Categories /\ before.attached[o.block] = NoBlock
       /\ o.next \subseteq FlowBefore(before.category[o.block])
  /\ o.kind = "attach" =>
       /\ before.category[o.block] \in Categories /\ before.next[o.block] = {}
       /\ o.attached \in FlowBefore(before.category[o.block]) \cup {NoBlock}
  /\ o.kind = "move" =>
       o.ids # {} /\ \E c \in Categories \ {o.category} : o.ids \subseteq FlowBefore(c)
  /\ o.kind = "delete" =>
       o.ids # {} /\ \A b \in o.ids : before.category[b] \in Categories

\* The links of b are what they were.
IsSame(b) == next[b] = before.next[b] /\ attached[b] = before.attached[b]

\* The links of b between ids and the other blocks are cut.
IsCut(b, ids) ==
  /\ next[b] = {x \in before.next[b] : x \in ids <=> b \in ids}
  /\ attached[b] = IF before.attached[b] \in ids <=> b \in ids THEN before.attached[b] ELSE NoBlock

\* The blocks outside ids that linked into it.
Linking(ids) == {b \in Blocks \ ids : LinksBefore(b) \cap ids # {}}

\* The request holds a copy of the links that b had.
Seen(r, b) == seenNext[r][b] = before.next[b] /\ seenAttached[r][b] = before.attached[b]

\* A move: found, linked and copied, then cut block by block.
MoveStage(r) ==
  /\ pc[r] \in {"linked", "inner", "updateInner", "updateOuter"} => found[r] = op[r].ids
  /\ pc[r] = "linked" => \A b \in op[r].ids : before.category[b] = source[r]
  /\ pc[r] \in {"inner", "updateInner", "updateOuter"} =>
       linked[r] = Linking(op[r].ids) /\ \A b \in linked[r] : Seen(r, b)
  /\ pc[r] = "updateInner" =>
       /\ todo[r] \subseteq op[r].ids
       /\ \A b \in op[r].ids : Seen(r, b)
       /\ \A b \in Blocks : IF b \in op[r].ids \ todo[r] THEN IsCut(b, op[r].ids) ELSE IsSame(b)
  /\ pc[r] = "updateOuter" =>
       /\ todo[r] \subseteq linked[r]
       /\ \A b \in Blocks : IF b \in todo[r] THEN IsSame(b) ELSE IsCut(b, op[r].ids)
  /\ pc[r] = "write" => \A b \in Blocks : IsCut(b, op[r].ids)

\* A deletion: the attached blocks, then the next blocks.
DeleteStage(r) ==
  /\ pc[r] \in {"cutNext", "remove"} => \A b \in Blocks :
       attached[b] = IF before.attached[b] \in op[r].ids THEN NoBlock ELSE before.attached[b]
  /\ pc[r] = "cutNext" => \A b \in Blocks : next[b] = before.next[b]
  /\ pc[r] = "remove" => \A b \in Blocks : next[b] = before.next[b] \ op[r].ids

\* The steps before the first write.
Untouched == CreateSteps \cup {"blocks", "moved", "linked", "inner", "find", "used", "fallback",
                               "cutAttached"}

\* Where a request is says how far the graph is from the one before it.
Stage(r) ==
  /\ \A b \in Blocks : category[b] = before.category[b]
  /\ op[r].kind \notin {"move", "delete"} \/ pc[r] \in Untouched => \A b \in Blocks : IsSame(b)
  /\ op[r].kind = "move" => MoveStage(r)
  /\ op[r].kind = "delete" => DeleteStage(r)

\* The invariant: in an orderly environment, graphs are as the editor draws them,
\* and a request in progress is at one of its stages.
InStages == Orderly => /\ DrawnWell(View.category, View.next, View.attached)
                       /\ \A r \in Reqs : Served(r) => Drawn(op[r]) /\ Stage(r)

-----------------------------------------------------------------------------
(* The editor's view.                                                      *)

\* The blocks collection as it is now.
Current == [category |-> category, next |-> next, attached |-> attached]

LEMMA ViewBefore ==
  ASSUME Orderly, NEW r \in Reqs, Served(r)
  PROVE  View = before
BY DEF View, Serving

LEMMA ViewCurrent ==
  ASSUME Orderly, \A r \in Reqs : ~Served(r)
  PROVE  View = Current
BY DEF View, Serving, Current

\* The same, after the step of a request.
LEMMA ViewAfter ==
  ASSUME Typed, Sequential, Orderly, NEW r \in Reqs, RequestStep(r)
  PROVE  /\ Orderly'
         /\ Served(r)' => View' = before'
         /\ ~Served(r)' => View' = Current'
<1>1. Orderly'
  BY RequestMode DEF Orderly, FreeHand
<1>2. \A q \in Reqs : q # r => ~Served(q)'
  BY OthersIdle DEF Sequential, Orderly
<1> QED BY <1>1, <1>2 DEF View, Serving, Current

LEMMA WellDrawnNow ==
  ASSUME DrawnWell(View.category, View.next, View.attached)
  PROVE  Abstract!WellDrawn
<1> DEFINE c == View.category
           n == View.next
           a == View.attached
<1>1. DrawnWell(c, n, a)
  OBVIOUS
<1> SUFFICES ASSUME NEW b \in Blocks
             PROVE  /\ n[b] \cup ({a[b]} \ {NoBlock}) \subseteq
                         {x \in {y \in Blocks : c[y] \in Categories} : c[x] = c[b]}
                    /\ a[b] = NoBlock \/ n[b] = {}
  BY DEF Abstract!WellDrawn, Abstract!Links, Abstract!Existing
<1> HIDE DEF c, n, a
<1> QED BY <1>1 DEF DrawnWell, GraphType

LEMMA WellDrawnAfter ==
  ASSUME NEW c, NEW n, NEW a, DrawnWell(c, n, a),
         View'.category = c, View'.next = n, View'.attached = a
  PROVE  Abstract!WellDrawn'
<1> SUFFICES ASSUME NEW b \in Blocks
             PROVE  /\ n[b] \cup ({a[b]} \ {NoBlock}) \subseteq
                         {x \in {y \in Blocks : c[y] \in Categories} : c[x] = c[b]}
                    /\ a[b] = NoBlock \/ n[b] = {}
  BY DEF Abstract!WellDrawn, Abstract!Links, Abstract!Existing
<1> QED BY DEF DrawnWell, GraphType

\* A step of the abstract specification, or none.
AbstractStep == [Abstract!Next]_(Abstract!vars)

LEMMA SameViewStep ==
  ASSUME View' = View
  PROVE  AbstractStep
BY DEF AbstractStep, Abstract!vars

\* A request that adds nothing: refused, failed, or cut off by a crash.
LEMMA LosingStep ==
  ASSUME NEW c, NEW n, NEW a, DrawnWell(c, n, a),
         View.category = c, View.next = n, View.attached = a,
         NEW n1 \in [Blocks -> SUBSET Blocks], NEW a1 \in [Blocks -> Blocks \cup {NoBlock}],
         \A b \in Blocks : n1[b] \subseteq n[b] /\ a1[b] \in {a[b], NoBlock},
         View'.category = c, View'.next = n1, View'.attached = a1
  PROVE  AbstractStep /\ DrawnWell(View'.category, View'.next, View'.attached)
<1>1. Abstract!LoseLinks
  BY DEF Abstract!LoseLinks
<1>2. DrawnWell(c, n1, a1)
  BY LoseDrawnWell
<1> QED BY <1>1, <1>2 DEF AbstractStep, Abstract!Next

LEMMA RelocateStep ==
  ASSUME NEW c, NEW n, NEW a, DrawnWell(c, n, a),
         View.category = c, View.next = n, View.attached = a,
         NEW ids \in SUBSET Blocks, ids # {}, \A b \in ids : c[b] \in Categories, NEW k \in Categories,
         NEW c1, NEW n1, NEW a1, GraphType(c1, n1, a1), Relocated(c, n, a, ids, k, c1, n1, a1),
         View'.category = c1, View'.next = n1, View'.attached = a1
  PROVE  AbstractStep /\ DrawnWell(View'.category, View'.next, View'.attached)
<1>1. ids \in (SUBSET Abstract!Existing) \ {{}}
  BY DEF Abstract!Existing
<1>2. /\ c1 = [b \in Blocks |-> IF b \in ids THEN k ELSE c[b]]
      /\ n1 = [b \in Blocks |-> {x \in n[b] : x \in ids <=> b \in ids}]
      /\ a1 = [b \in Blocks |-> IF a[b] \in ids <=> b \in ids THEN a[b] ELSE NoBlock]
  BY DEF Relocated, GraphType
<1>3. Abstract!Relocate(ids, k)
  BY <1>2 DEF Abstract!Relocate
<1>4. Abstract!Next
  BY <1>1, <1>3 DEF Abstract!Next
<1> QED BY <1>4, RelocateDrawnWell DEF AbstractStep

LEMMA RemoveStep ==
  ASSUME NEW c, NEW n, NEW a, DrawnWell(c, n, a),
         View.category = c, View.next = n, View.attached = a,
         NEW ids \in SUBSET Blocks, ids # {}, \A b \in ids : c[b] \in Categories,
         NEW c1, NEW n1, NEW a1, GraphType(c1, n1, a1), Removed(c, n, a, ids, c1, n1, a1),
         View'.category = c1, View'.next = n1, View'.attached = a1
  PROVE  AbstractStep /\ DrawnWell(View'.category, View'.next, View'.attached)
<1>1. ids \in (SUBSET Abstract!Existing) \ {{}}
  BY DEF Abstract!Existing
<1>2. /\ c1 = [b \in Blocks |-> IF b \in ids THEN Gone ELSE c[b]]
      /\ n1 = [b \in Blocks |-> IF b \in ids THEN {} ELSE n[b] \ ids]
      /\ a1 = [b \in Blocks |-> IF b \in ids \/ a[b] \in ids THEN NoBlock ELSE a[b]]
  BY DEF Removed, GraphType
<1>3. Abstract!Remove(ids)
  BY <1>2 DEF Abstract!Remove
<1>4. Abstract!Next
  BY <1>1, <1>3 DEF Abstract!Next
<1> QED BY <1>4, RemoveDrawnWell DEF AbstractStep

-----------------------------------------------------------------------------
(* The steps of a request, from the one that sends it to its answer.       *)

LEMMA StillServed ==
  ASSUME Typed, Sequential, InStages, Orderly, NEW r \in Reqs, RequestStep(r),
         Served(r), Served(r)', before' = before, op'[r] = op[r], Stage(r)'
  PROVE  AbstractStep /\ InStages'
<1>1. View' = View /\ Orderly'
  BY ViewBefore, ViewAfter
<1>2. \A q \in Reqs : q # r => ~Served(q)'
  BY OthersIdle DEF Sequential, Orderly
<1>3. Drawn(op[r])' <=> Drawn(op[r])
  BY DEF Drawn, FlowBefore
<1>4. Drawn(op[r])'
  BY <1>3 DEF InStages
<1> QED BY <1>1, <1>2, <1>4, SameViewStep DEF InStages

LEMMA NowAnswered ==
  ASSUME Typed, Sequential, Orderly, NEW r \in Reqs, RequestStep(r), ~Served(r)',
         DrawnWell(View'.category, View'.next, View'.attached)
  PROVE  InStages'
<1>1. \A q \in Reqs : ~Served(q)'
  BY OthersIdle DEF Sequential, Orderly
<1> QED BY <1>1 DEF InStages

LEMMA SendDrawn ==
  ASSUME Typed, Sequential, Orderly, DrawnWell(category, next, attached),
         NEW o \in Operations, before' = Current, UNCHANGED category
  PROVE  Drawn(o)'
<1> USE DEF Current
<1>a. /\ Existing \subseteq Blocks /\ \A b \in Existing : category[b] \in Categories
      /\ \A c \in Categories : Flow(c) = FlowBefore(c)'
  BY DEF Existing, Flow, FlowBefore
<1>b. o.kind \notin {"patch", "patchMany"} /\ ~FreeHand
  BY DEF Orderly, FreeHand, Operations
<1>1. CASE o \in Create
  BY <1>1, <1>a, <1>b DEF Create, Creations, Drawn
<1>2. CASE o \in DrawWithinFlow
  <2>1. /\ o.kind = "draw" /\ o.block \in Existing /\ attached[o.block] = NoBlock
        /\ \E x \in Flow(category[o.block]) : o.next \in {next[o.block] \cup {x}, next[o.block] \ {x}}
    BY <1>2 DEF DrawWithinFlow, Draw
  <2>2. next[o.block] \subseteq Flow(category[o.block])
    BY <1>a, <2>1 DEF DrawnWell, GraphType, Flow, Existing
  <2>3. category[o.block] \in Categories /\ o.next \subseteq Flow(category[o.block])
    BY <1>a, <2>1, <2>2
  <2>4. o.next \subseteq FlowBefore(category[o.block])'
    BY <2>3 DEF Flow, FlowBefore, Existing
  <2> QED BY <2>1, <2>3, <2>4 DEF Drawn
<1>3. CASE o \in Attach
  BY <1>3, <1>a DEF Attach, Drawn, FlowBefore
<1>4. CASE o \in Move
  <2>1. o.kind = "move" /\ o.ids # {} /\ \E c \in Categories \ {o.category} : o.ids \subseteq Flow(c)
    BY <1>4 DEF Move, Orderly
  <2> QED BY <1>a, <2>1 DEF Drawn
<1>5. CASE o \in Delete
  BY <1>5, <1>a DEF Delete, Drawn
<1>6. CASE o \in DeleteCategory
  BY <1>6 DEF DeleteCategory, Drawn
<1> QED BY <1>b, <1>1, <1>2, <1>3, <1>4, <1>5, <1>6 DEF Operations, Patch, PatchMany

LEMMA SendStages ==
  ASSUME Typed, Sequential, InStages, Orderly, NEW r \in Reqs, Send(r)
  PROVE  AbstractStep /\ InStages'
<1> USE DEF Current
<1>a. pc \in [Reqs -> Steps] /\ op \in [Reqs -> Requested \cup {NoOp}]
  BY DEF Typed, ServedOps
<1>1. PICK o \in Operations : op' = [op EXCEPT ![r] = o] /\ pc' = [pc EXCEPT ![r] = Handler[o.kind]]
  BY DEF Send, Goto
<1>2. before' = Current /\ UNCHANGED <<category, next, attached>>
  BY DEF Send, Orderly, graph
<1>3. View = Current
  BY ViewCurrent DEF Send, Orderly
<1>4. o \in Requested /\ StepOf(Handler[o.kind], o.kind)
  BY OperationTyped DEF Typed
<1>5. op'[r] = o /\ pc'[r] = Handler[o.kind]
  BY <1>a, <1>1
<1>6. Served(r)' /\ (o.kind = "move" => pc'[r] = "moved") /\ (o.kind = "delete" => pc'[r] = "find")
  BY <1>4, <1>5 DEF Served, Resting, Ended, Handler, Requested, Creating, Drawing, Attaching,
                   Patch, Moving, PatchMany, Deleting, DeletingCategory
<1>7. RequestStep(r)
  BY DEF RequestStep
<1>8. View' = View /\ Orderly'
  BY <1>2, <1>3, <1>6, <1>7, ViewAfter
<1>9. Stage(r)'
  BY <1>2, <1>5, <1>6 DEF Stage, IsSame, MoveStage, DeleteStage
<1>10. Drawn(op[r])'
  BY <1>2, <1>3, <1>5, SendDrawn DEF InStages, Drawn, FlowBefore
<1>11. \A q \in Reqs : q # r => ~Served(q)'
  BY <1>7, OthersIdle DEF Sequential, Orderly
<1> QED BY <1>8, <1>9, <1>10, <1>11, SameViewStep DEF InStages

\* What holds of a request in the middle of its handler.
LEMMA InTheMiddle ==
  ASSUME Typed, InStages, Orderly, NEW r \in Reqs, Served(r)
  PROVE  /\ Drawn(op[r]) /\ Stage(r) /\ op[r].kind \notin {"patch", "patchMany"}
         /\ DrawnWell(before.category, before.next, before.attached)
         /\ View = before
BY ViewBefore DEF InStages, Drawn

\* The blocks that a move or a deletion is about are there and, for a move, in one flow.
LEMMA IdsThere ==
  ASSUME Typed, Orderly, NEW r \in Reqs, Drawn(op[r]), Stage(r), op[r].kind \in {"move", "delete"}
  PROVE  /\ op[r].ids \subseteq Blocks /\ op[r].ids # {}
         /\ \A b \in op[r].ids : before.category[b] \in Categories
         /\ op[r].ids \cap Existing = op[r].ids
         /\ op[r].kind = "move" =>
              /\ op[r].category \in Categories
              /\ \A b \in op[r].ids : before.category[b] # op[r].category
              /\ \A b, x \in op[r].ids : before.category[b] = before.category[x]
<1>1. op[r] \in Requested \cup {NoOp}
  BY DEF Typed, ServedOps
<1>2. op[r].ids \subseteq Blocks /\ (op[r].kind = "move" => op[r].category \in Categories)
  BY <1>1, OpFields
<1>3. /\ op[r].ids # {} /\ \A b \in op[r].ids : before.category[b] \in Categories
      /\ op[r].kind = "move" =>
              /\ \A b \in op[r].ids : before.category[b] # op[r].category
              /\ \A b, x \in op[r].ids : before.category[b] = before.category[x]
  BY DEF Drawn, FlowBefore
<1>4. op[r].ids \cap Existing = op[r].ids
  BY <1>2, <1>3 DEF Stage, Existing
<1> QED BY <1>2, <1>3, <1>4

LEMMA CheckStages ==
  ASSUME Typed, InStages, Orderly, NEW r \in Reqs, Served(r)',
         \/ Validate(r) \/ CheckConversations(r) \/ CheckFallback(r) \/ CheckBlocks(r)
  PROVE  before' = before /\ op'[r] = op[r] /\ Stage(r)'
<1> USE DEF Goto, task
<1>a. /\ pc \in [Reqs -> Steps] /\ StepOf(pc[r], op[r].kind)
  BY DEF Typed, ServedOps
<1>b. ASSUME NEW how \in Ended, Answer(r, how) PROVE FALSE
  BY <1>b, AnswerEmpty
<1>c. /\ UNCHANGED <<category, next, attached, op, before>>
      /\ pc[r] \in Untouched /\ pc'[r] \in Untouched \cup {"remove"}
      /\ pc'[r] = "remove" => pc[r] = "blocks"
  BY <1>a, <1>b DEF Validate, CheckConversations, CheckFallback, CheckBlocks, At, Untouched,
                    CreateSteps, Ended, graph
<1>d. Served(r)
  BY <1>c DEF Served, Resting, Ended, Untouched, CreateSteps
<1>e. \A b \in Blocks : category[b] = before.category[b] /\ IsSame(b)
  BY <1>c, <1>d, InTheMiddle DEF Stage
<1>f. \A b \in Blocks : category'[b] = before'.category[b] /\ IsSame(b)'
  BY <1>c, <1>e DEF IsSame
<1>g. op[r].kind \notin {"move"} /\ (op[r].kind = "delete" => pc'[r] \in {"fallback", "cutAttached"})
  <2>1. op[r].kind # "move"
    BY <1>a DEF Validate, CheckConversations, CheckFallback, CheckBlocks, At, StepOf,
       CreateSteps,
                DeleteSteps
  <2>2. op[r].kind = "delete" => pc[r] \in {"used", "fallback"}
    BY <1>a DEF Validate, CheckConversations, CheckFallback, CheckBlocks, At, StepOf,
       CreateSteps
  <2> QED BY <1>a, <1>b, <2>1, <2>2 DEF Validate, CheckConversations, CheckFallback,
             CheckBlocks, At, Ended
<1> QED BY <1>c, <1>f, <1>g DEF Stage, DeleteStage

LEMMA FindStages ==
  ASSUME Typed, InStages, Orderly, NEW r \in Reqs,
         FindMoved(r) \/ FindLinked(r) \/ FindInner(r) \/ FindDeleted(r)
  PROVE  before' = before /\ op'[r] = op[r] /\ Stage(r)'
<1> USE DEF Goto, task
<1>a. /\ pc \in [Reqs -> Steps] /\ StepOf(pc[r], op[r].kind) /\ GraphTyped /\ TaskTyped
  BY TypeParts DEF Typed, ServedOps
<1>b. /\ UNCHANGED <<category, next, attached, op, before>>
      /\ pc[r] \in {"moved", "linked", "inner", "find"}
  BY DEF FindMoved, FindLinked, FindInner, FindDeleted, At, graph
<1>c. Served(r) /\ pc[r] \in Untouched
  BY <1>b DEF Served, Resting, Ended, Untouched
<1>d. Stage(r) /\ Drawn(op[r]) /\ DrawnWell(before.category, before.next, before.attached)
  BY <1>c, InTheMiddle
<1>e. \A b \in Blocks : category[b] = before.category[b] /\ IsSame(b)
  BY <1>c, <1>d DEF Stage
<1>f. \A b \in Blocks : category'[b] = before'.category[b] /\ IsSame(b)'
  BY <1>b, <1>e DEF IsSame
<1>g. /\ op[r].kind = IF pc[r] = "find" THEN "delete" ELSE "move"
      /\ op[r].ids \subseteq Blocks /\ op[r].ids # {}
      /\ op[r].ids \cap Existing = op[r].ids
  <2>1. op[r].kind = IF pc[r] = "find" THEN "delete" ELSE "move"
    BY <1>a, <1>b DEF StepOf, MoveSteps, DeleteSteps
  <2> QED BY <1>b, <1>d, <2>1, IdsThere
<1>1. CASE FindMoved(r)
  <2>1. found'[r] = op[r].ids
    BY <1>a, <1>1, <1>g DEF FindMoved, TaskTyped
  <2>2. pc'[r] = "linked" /\ \E first \in op[r].ids : source'[r] = category[first]
    BY <1>a, <1>1, <1>g, <2>1 DEF FindMoved, TaskTyped
  <2>3. op[r].kind = "move" /\ \A b \in op[r].ids : before.category[b] = source'[r]
    BY <1>1, <1>d, <1>e, <1>g, <2>2, IdsThere DEF FindMoved, At
  <2>4. MoveStage(r)'
    BY <1>b, <2>1, <2>2, <2>3 DEF MoveStage
  <2> QED BY <1>b, <1>f, <2>3, <2>4 DEF Stage
<1>2. CASE FindLinked(r)
  <2> DEFINE bs == {b \in Flow(source[r]) \ found[r] : Links(b) \cap found[r] # {}}
  <2>1. /\ op[r].kind = "move" /\ found[r] = op[r].ids
        /\ \A b \in op[r].ids : before.category[b] = source[r]
    BY <1>2, <1>d, <1>g DEF FindLinked, At, Stage, MoveStage
  <2>2. bs = Linking(op[r].ids)
    <3>1. \A b \in Blocks : Links(b) = LinksBefore(b)
      BY <1>e DEF Links, LinksBefore, IsSame
    <3>2. bs \subseteq Linking(op[r].ids)
      BY <2>1, <3>1 DEF Linking, Flow, Existing
    <3>3. ASSUME NEW b \in Linking(op[r].ids) PROVE b \in bs
      <4>1. b \in Blocks /\ b \notin op[r].ids /\ LinksBefore(b) \cap op[r].ids # {}
        BY <3>3 DEF Linking
      <4>2. PICK x \in op[r].ids : x \in LinksBefore(b)
        BY <4>1
      <4>3. before.category[b] = before.category[x] /\ before.category[x] \in Categories
        BY <1>d, <4>1, <4>2 DEF DrawnWell, LinksBefore
      <4>4. b \in Flow(source[r])
        BY <1>e, <2>1, <4>1, <4>3 DEF Flow, Existing
      <4> QED BY <2>1, <3>1, <4>1, <4>4
    <3> QED BY <3>2, <3>3
  <2>3. linked'[r] = bs /\ Copy(r, bs) /\ pc'[r] = "inner" /\ found' = found
    BY <1>a, <1>2 DEF FindLinked, TaskTyped
  <2>4. \A b \in bs : Seen(r, b)'
    <3>1. \A b \in bs : b \in Blocks
      BY <2>2 DEF Linking
    <3>2. \A b \in bs : seenNext'[r][b] = next[b] /\ seenAttached'[r][b] = attached[b]
      BY <1>a, <2>3, <3>1 DEF Copy, TaskTyped
    <3> QED BY <1>b, <1>e, <3>1, <3>2 DEF Seen, IsSame
  <2>5. MoveStage(r)'
    <3>1. Linking(op[r].ids)' = Linking(op[r].ids)
      BY <1>b DEF Linking, LinksBefore
    <3> HIDE DEF bs
    <3> QED BY <1>b, <2>1, <2>2, <2>3, <2>4, <3>1 DEF MoveStage
  <2> QED BY <1>b, <1>f, <2>1, <2>5 DEF Stage
<1>3. CASE FindInner(r)
  <2> DEFINE bs == {b \in found[r] \cap Existing : category[b] # op[r].category}
  <2>1. /\ op[r].kind = "move" /\ found[r] = op[r].ids /\ linked[r] = Linking(op[r].ids)
        /\ \A b \in linked[r] : Seen(r, b)
        /\ \A b \in op[r].ids : before.category[b] # op[r].category
    BY <1>3, <1>d, <1>g, IdsThere DEF FindInner, At, Stage, MoveStage
  <2>2. bs = op[r].ids
    BY <1>e, <1>g, <2>1
  <2>3. todo'[r] = bs /\ Copy(r, bs) /\ pc'[r] = "updateInner" /\ UNCHANGED <<found, linked>>
    BY <1>a, <1>3 DEF FindInner, TaskTyped
  <2>4. \A b \in op[r].ids \cup linked[r] : Seen(r, b)'
    <3>1. op[r].ids \cup linked[r] \subseteq Blocks
      BY <1>g, <2>1 DEF Linking
    <3>2. \A b \in Blocks : /\ seenNext'[r][b] = IF b \in bs THEN next[b] ELSE seenNext[r][b]
                            /\ seenAttached'[r][b] = IF b \in bs THEN attached[b] ELSE seenAttached[r][b]
      BY <1>a, <2>3 DEF Copy, TaskTyped
    <3> QED BY <1>b, <1>e, <2>1, <2>2, <3>1, <3>2 DEF Seen, IsSame
  <2>5. MoveStage(r)'
    <3>1. Linking(op[r].ids)' = Linking(op[r].ids)
      BY <1>b DEF Linking, LinksBefore
    <3> HIDE DEF bs
    <3> QED BY <1>b, <1>f, <2>1, <2>2, <2>3, <2>4, <3>1 DEF MoveStage
  <2> QED BY <1>b, <1>f, <2>1, <2>3, <2>5 DEF Stage, Untouched, CreateSteps
<1>4. CASE FindDeleted(r)
  <2>1. found'[r] = op[r].ids
    BY <1>a, <1>4, <1>g DEF FindDeleted, TaskTyped
  <2>2. pc'[r] = "used" /\ op[r].kind = "delete"
    BY <1>a, <1>4, <1>g, <2>1 DEF FindDeleted, At
  <2> QED BY <1>b, <1>f, <2>2 DEF Stage, DeleteStage
<1> QED BY <1>b, <1>1, <1>2, <1>3, <1>4

\* A block that no link connects with the moved ones needs no cut.
LEMMA UnlinkedIsCut ==
  ASSUME NEW ids \in SUBSET Blocks, NEW b \in Blocks, IsSame(b), b \notin ids, b \notin Linking(ids)
  PROVE  IsCut(b, ids)
<1>1. before.next[b] \cap ids = {} /\ before.attached[b] \notin ids
  BY DEF Linking, LinksBefore
<1> QED BY <1>1 DEF IsSame, IsCut

LEMMA LoopStages ==
  ASSUME Typed, InStages, Orderly, NEW r \in Reqs,
         UpdateInner(r) \/ InnerDone(r) \/ UpdateOuter(r) \/ OuterDone(r)
  PROVE  before' = before /\ op'[r] = op[r] /\ Stage(r)'
<1> USE DEF Goto, task
<1>a. /\ pc \in [Reqs -> Steps] /\ StepOf(pc[r], op[r].kind) /\ GraphTyped /\ TaskTyped
  BY TypeParts DEF Typed, ServedOps
<1>b. /\ UNCHANGED <<category, op, before, found, linked, seenNext, seenAttached>>
      /\ pc[r] \in {"updateInner", "updateOuter"}
  BY DEF UpdateInner, InnerDone, UpdateOuter, OuterDone, At, graph, SkipUpdate
<1>c. Served(r) /\ op[r].kind = "move"
  BY <1>a, <1>b DEF Served, Resting, Ended, StepOf, MoveSteps
<1>d. Stage(r) /\ Drawn(op[r]) /\ DrawnWell(before.category, before.next, before.attached)
  BY <1>c, InTheMiddle
<1> DEFINE ids == op[r].ids
<1>e. /\ ids \subseteq Blocks /\ ids \subseteq Existing /\ Linking(ids) \subseteq Blocks \ ids
      /\ \A b \in Linking(ids) : b \in Existing
  <2>1. ids \subseteq Blocks /\ ids \subseteq Existing
    BY <1>b, <1>c, <1>d, IdsThere
  <2>2. ASSUME NEW b \in Linking(ids) PROVE b \in Existing
    <3>1. b \in Blocks /\ LinksBefore(b) # {}
      BY DEF Linking
    <3>2. before.category[b] \in Categories
      BY <1>d, <3>1 DEF DrawnWell, LinksBefore
    <3> QED BY <1>d, <3>1, <3>2 DEF Stage, Existing
  <2> QED BY <2>1, <2>2 DEF Linking
<1>f. /\ found[r] = ids /\ linked[r] = Linking(ids) /\ \A b \in linked[r] : Seen(r, b)
      /\ Linking(ids)' = Linking(ids) /\ ids' = ids
      /\ \A b : Seen(r, b)' = Seen(r, b)
  BY <1>b, <1>c, <1>d DEF Stage, MoveStage, Linking, LinksBefore, Seen
<1>g. \A b \in Blocks : category'[b] = before'.category[b]
  BY <1>b, <1>d DEF Stage
<1>h. "db" \notin mode.faults
  BY DEF Orderly
<1> HIDE DEF ids
<1>1. CASE InnerDone(r)
  <2>1. /\ \A b \in Blocks : IF b \in ids THEN IsCut(b, ids) ELSE IsSame(b)
        /\ pc'[r] = "updateOuter" /\ todo'[r] = Linking(ids) /\ UNCHANGED <<next, attached>>
    BY <1>a, <1>c, <1>d, <1>f, <1>1 DEF InnerDone, At, Stage, MoveStage, graph, ids, TaskTyped
  <2>2. \A b \in Blocks : IF b \in Linking(ids) THEN IsSame(b) ELSE IsCut(b, ids)
    BY <1>e, <2>1, UnlinkedIsCut
  <2>3. \A b : (IsSame(b)' <=> IsSame(b)) /\ (IsCut(b, ids)' <=> IsCut(b, ids))
    BY <1>b, <1>f, <2>1 DEF IsSame, IsCut
  <2>4. MoveStage(r)'
    BY <1>b, <1>f, <2>1, <2>2, <2>3 DEF MoveStage, ids
  <2> QED BY <1>b, <1>c, <1>g, <2>1, <2>4 DEF Stage, Untouched, CreateSteps
<1>2. CASE OuterDone(r)
  <2>1. /\ \A b \in Blocks : IsCut(b, ids)
        /\ pc'[r] = "write" /\ UNCHANGED <<next, attached>>
    BY <1>a, <1>c, <1>d, <1>f, <1>2 DEF OuterDone, At, Stage, MoveStage, graph, ids
  <2>2. \A b : IsCut(b, ids)' <=> IsCut(b, ids)
    BY <1>b, <1>f, <2>1 DEF IsCut
  <2>3. MoveStage(r)'
    BY <1>b, <1>f, <2>1, <2>2 DEF MoveStage, ids
  <2> QED BY <1>b, <1>c, <1>g, <2>1, <2>3 DEF Stage, Untouched, CreateSteps
<1>3. CASE UpdateInner(r)
  <2>1. /\ todo[r] \subseteq ids /\ pc[r] = "updateInner" /\ pc' = pc
        /\ \A b \in ids : Seen(r, b)
        /\ \A b \in Blocks : IF b \in ids \ todo[r] THEN IsCut(b, ids) ELSE IsSame(b)
    BY <1>c, <1>d, <1>3 DEF UpdateInner, At, Stage, MoveStage, ids
  <2>2. PICK x \in todo[r] :
          /\ todo' = [todo EXCEPT ![r] = @ \ {x}]
          /\ next' = [next EXCEPT ![x] = seenNext[r][x] \cap found[r]]
          /\ attached' = [attached EXCEPT ![x] =
               IF seenAttached[r][x] \in found[r] THEN seenAttached[r][x] ELSE NoBlock]
    BY <1>e, <1>h, <1>3, <2>1 DEF UpdateInner, SkipUpdate
  <2>3. x \in ids /\ x \in Blocks /\ Seen(r, x) /\ todo'[r] = todo[r] \ {x}
    BY <1>a, <1>e, <2>1, <2>2 DEF TaskTyped
  <2>4. /\ next'[x] = before.next[x] \cap ids
        /\ attached'[x] = IF before.attached[x] \in ids THEN before.attached[x] ELSE NoBlock
    BY <1>a, <1>f, <2>2, <2>3 DEF Seen, GraphTyped
  <2>5. IsCut(x, ids)'
    BY <1>b, <1>f, <2>3, <2>4 DEF IsCut
  <2>6. \A b \in Blocks \ {x} : next'[b] = next[b] /\ attached'[b] = attached[b]
    BY <1>a, <2>2 DEF GraphTyped
  <2>7. \A b \in Blocks \ {x} : (IsSame(b)' <=> IsSame(b)) /\ (IsCut(b, ids)' <=> IsCut(b, ids))
    BY <1>b, <1>f, <2>6 DEF IsSame, IsCut
  <2>8. \A b \in Blocks : IF b \in ids \ todo'[r] THEN IsCut(b, ids)' ELSE IsSame(b)'
    BY <2>1, <2>3, <2>5, <2>7
  <2>9. MoveStage(r)'
    BY <1>b, <1>f, <2>1, <2>3, <2>8 DEF MoveStage, ids
  <2> QED BY <1>b, <1>c, <1>g, <2>1, <2>9 DEF Stage, Untouched, CreateSteps
<1>4. CASE UpdateOuter(r)
  <2>1. /\ todo[r] \subseteq Linking(ids) /\ pc[r] = "updateOuter" /\ pc' = pc
        /\ \A b \in Blocks : IF b \in todo[r] THEN IsSame(b) ELSE IsCut(b, ids)
    BY <1>c, <1>d, <1>f, <1>4 DEF UpdateOuter, At, Stage, MoveStage, ids
  <2>2. PICK x \in todo[r] :
          /\ todo' = [todo EXCEPT ![r] = @ \ {x}]
          /\ IF seenAttached[r][x] \in found[r]
             THEN attached' = [attached EXCEPT ![x] = NoBlock] /\ UNCHANGED next
             ELSE next' = [next EXCEPT ![x] = seenNext[r][x] \ found[r]] /\ UNCHANGED attached
    BY <1>e, <1>h, <1>4, <2>1 DEF UpdateOuter, SkipUpdate
  <2>3. x \notin ids /\ x \in Blocks /\ Seen(r, x) /\ todo'[r] = todo[r] \ {x} /\ IsSame(x)
    BY <1>a, <1>e, <1>f, <2>1, <2>2 DEF TaskTyped
  <2>4. before.attached[x] = NoBlock \/ before.next[x] = {}
    BY <1>d, <2>3 DEF DrawnWell
  <2>5. /\ next'[x] = before.next[x] \ ids
        /\ attached'[x] = IF before.attached[x] \in ids THEN NoBlock ELSE before.attached[x]
    <3>1. CASE before.attached[x] \in ids
      <4>1. before.next[x] = {}
        BY <1>e, <2>4, <3>1
      <4>2. attached' = [attached EXCEPT ![x] = NoBlock] /\ UNCHANGED next
        BY <1>f, <2>2, <2>3, <3>1 DEF Seen
      <4> QED BY <1>a, <2>3, <3>1, <4>1, <4>2 DEF IsSame, GraphTyped
    <3>2. CASE before.attached[x] \notin ids
      <4>1. next' = [next EXCEPT ![x] = before.next[x] \ ids] /\ UNCHANGED attached
        BY <1>f, <2>2, <2>3, <3>2 DEF Seen
      <4> QED BY <1>a, <2>3, <3>2, <4>1 DEF IsSame, GraphTyped
    <3> QED BY <3>1, <3>2
  <2>6. IsCut(x, ids)'
    BY <1>b, <1>f, <2>3, <2>5 DEF IsCut
  <2>7. \A b \in Blocks \ {x} : next'[b] = next[b] /\ attached'[b] = attached[b]
    BY <1>a, <2>2 DEF GraphTyped
  <2>8. \A b \in Blocks \ {x} : (IsSame(b)' <=> IsSame(b)) /\ (IsCut(b, ids)' <=> IsCut(b, ids))
    BY <1>b, <1>f, <2>7 DEF IsSame, IsCut
  <2>9. \A b \in Blocks : IF b \in todo'[r] THEN IsSame(b)' ELSE IsCut(b, ids)'
    BY <2>1, <2>3, <2>6, <2>8
  <2>10. MoveStage(r)'
    BY <1>b, <1>f, <2>1, <2>3, <2>9 DEF MoveStage, ids
  <2> QED BY <1>b, <1>c, <1>g, <2>1, <2>10 DEF Stage, Untouched, CreateSteps
<1> QED BY <1>b, <1>1, <1>2, <1>3, <1>4

LEMMA DeleteStages ==
  ASSUME Typed, InStages, Orderly, NEW r \in Reqs, CutAttached(r) \/ CutNext(r), Sequential
  PROVE  before' = before /\ op'[r] = op[r] /\ Stage(r)'
<1> USE DEF Goto, task
<1>a. /\ pc \in [Reqs -> Steps] /\ StepOf(pc[r], op[r].kind) /\ GraphTyped
  BY TypeParts DEF Typed, ServedOps
<1>b. UNCHANGED <<category, op, before>> /\ pc[r] \in {"cutAttached", "cutNext"}
  BY DEF CutAttached, CutNext, At
<1>c. Served(r) /\ op[r].kind = "delete"
  BY <1>a, <1>b DEF Served, Resting, Ended, StepOf, DeleteSteps
<1>d. Stage(r) /\ Drawn(op[r])
  BY <1>c, InTheMiddle
<1>e. found[r] = op[r].ids
  <2>1. found[r] = op[r].ids \cap Existing
    BY <1>b, <1>c DEF Sequential, Ready, FoundStill
  <2> QED BY <1>b, <1>c, <1>d, <2>1, IdsThere
<1>1. CASE CutAttached(r)
  <2>1. \A b \in Blocks : IsSame(b)
    BY <1>d, <1>1 DEF CutAttached, At, Stage, Untouched
  <2>2. pc'[r] = "cutNext" /\ UNCHANGED next
    BY <1>a, <1>1 DEF CutAttached
  <2>3. DeleteStage(r)'
    BY <1>b, <1>e, <1>1, <2>1, <2>2 DEF CutAttached, DeleteStage, IsSame
  <2> QED BY <1>b, <1>c, <1>d, <2>2, <2>3 DEF Stage, Untouched, CreateSteps
<1>2. CASE CutNext(r)
  <2>1. /\ \A b \in Blocks : next[b] = before.next[b]
        /\ \A b \in Blocks :
             attached[b] = IF before.attached[b] \in op[r].ids THEN NoBlock ELSE before.attached[b]
    BY <1>c, <1>d, <1>2 DEF CutNext, At, Stage, DeleteStage
  <2>2. pc'[r] = "remove" /\ UNCHANGED attached
    BY <1>a, <1>2 DEF CutNext
  <2>3. DeleteStage(r)'
    BY <1>b, <1>e, <1>2, <2>1, <2>2 DEF CutNext, DeleteStage
  <2> QED BY <1>b, <1>c, <1>d, <2>2, <2>3 DEF Stage, Untouched, CreateSteps
<1> QED BY <1>b, <1>1, <1>2

-----------------------------------------------------------------------------
(* The answer of a request.                                                *)

LEMMA AddDrawnWell ==
  ASSUME NEW c, NEW n, NEW a, DrawnWell(c, n, a), NEW b \in Blocks, c[b] = Unused,
         NEW k \in Categories, NEW s \in SUBSET Blocks, NEW t \in Blocks \cup {NoBlock},
         \A x \in s : c[x] = k, t # NoBlock => c[t] = k, t = NoBlock \/ s = {}
  PROVE  DrawnWell([c EXCEPT ![b] = k], [n EXCEPT ![b] = s], [a EXCEPT ![b] = t])
<1> DEFINE c1 == [c EXCEPT ![b] = k]
           n1 == [n EXCEPT ![b] = s]
           a1 == [a EXCEPT ![b] = t]
<1>1. GraphType(c1, n1, a1)
  BY DEF DrawnWell, GraphType
<1>2. /\ \A x \in Blocks : c1[x] = IF x = b THEN k ELSE c[x]
      /\ \A x \in Blocks : n1[x] = IF x = b THEN s ELSE n[x]
      /\ \A x \in Blocks : a1[x] = IF x = b THEN t ELSE a[x]
  BY DEF DrawnWell, GraphType
<1> HIDE DEF c1, n1, a1
<1>3. b \notin s /\ t # b
  OBVIOUS
<1>4. ASSUME NEW y \in Blocks
      PROVE  /\ \A x \in n1[y] : c1[x] \in Categories /\ c1[x] = c1[y]
             /\ a1[y] # NoBlock => c1[a1[y]] \in Categories /\ c1[a1[y]] = c1[y]
             /\ a1[y] = NoBlock \/ n1[y] = {}
  <2>1. CASE y = b
    BY <1>2, <1>3, <2>1
  <2>2. CASE y # b
    <3>1. /\ \A x \in n[y] : x \in Blocks /\ x # b
          /\ a[y] # NoBlock => a[y] \in Blocks /\ a[y] # b
      BY DEF DrawnWell, GraphType
    <3> QED BY <1>2, <2>2, <3>1 DEF DrawnWell
  <2> QED BY <2>1, <2>2
<1>5. DrawnWell(c1, n1, a1)
  BY <1>1, <1>4 DEF DrawnWell
<1> QED BY <1>5 DEF c1, n1, a1

LEMMA SameGraphs ==
  ASSUME GraphTyped, DrawnWell(before.category, before.next, before.attached),
         \A b \in Blocks : category[b] = before.category[b] /\ IsSame(b)
  PROVE  category = before.category /\ next = before.next /\ attached = before.attached
BY DEF GraphTyped, DrawnWell, GraphType, IsSame

\* However far a request has come, until its answer it has only lost links.
LEMMA StageLoses ==
  ASSUME Typed, NEW r \in Reqs, Served(r), Drawn(op[r]), Stage(r),
         DrawnWell(before.category, before.next, before.attached)
  PROVE  /\ category = before.category
         /\ \A b \in Blocks : /\ next[b] \subseteq before.next[b]
                              /\ attached[b] \in {before.attached[b], NoBlock}
<1>a. pc[r] \in Steps /\ StepOf(pc[r], op[r].kind) /\ GraphTyped
  BY TypeParts DEF Typed, ServedOps
<1>1. category = before.category
  BY <1>a DEF Stage, DrawnWell, GraphType, GraphTyped
<1>2. \A b \in Blocks : IsSame(b) =>
        next[b] \subseteq before.next[b] /\ attached[b] \in {before.attached[b], NoBlock}
  BY DEF IsSame
<1>3. \A b \in Blocks : IsCut(b, op[r].ids) =>
        next[b] \subseteq before.next[b] /\ attached[b] \in {before.attached[b], NoBlock}
  BY DEF IsCut
<1>4. CASE op[r].kind = "move"
  <2>1. pc[r] \in Untouched \cup {"updateInner", "updateOuter", "write"}
    BY <1>a, <1>4 DEF StepOf, Steps, CreateSteps, DeleteSteps, MoveSteps, Served, Untouched
  <2> QED BY <1>1, <1>2, <1>3, <1>4, <2>1 DEF Stage, MoveStage
<1>5. CASE op[r].kind = "delete"
  <2>1. pc[r] \in Untouched \cup {"cutNext", "remove"}
    BY <1>a, <1>5 DEF StepOf, Steps, CreateSteps, DeleteSteps, MoveSteps, Served, Untouched
  <2> QED BY <1>1, <1>2, <1>5, <2>1 DEF Stage, DeleteStage
<1> QED BY <1>1, <1>2, <1>4, <1>5 DEF Stage

\* A request that is refused, or cut off by a crash.
LEMMA LosingAnswer ==
  ASSUME Typed, Typed', InStages, Orderly, NEW r \in Reqs, Served(r),
         UNCHANGED <<category, next, attached>>, View' = Current'
  PROVE  AbstractStep /\ DrawnWell(View'.category, View'.next, View'.attached)
<1>1. /\ Drawn(op[r]) /\ Stage(r) /\ View = before
      /\ DrawnWell(before.category, before.next, before.attached)
  BY InTheMiddle
<1>2. /\ category = before.category
      /\ \A b \in Blocks : next[b] \subseteq before.next[b] /\ attached[b] \in {before.attached[b], NoBlock}
  BY <1>1, StageLoses
<1>3. next \in [Blocks -> SUBSET Blocks] /\ attached \in [Blocks -> Blocks \cup {NoBlock}]
  BY DEF Typed, TypeOK
<1>4. View'.category = before.category /\ View'.next = next /\ View'.attached = attached
  BY <1>2 DEF Current
<1> QED BY <1>1, <1>2, <1>3, <1>4, LosingStep

LEMMA CutStaysServed ==
  ASSUME Typed, NEW r \in Reqs, UpdateInner(r) \/ UpdateOuter(r) \/ CutAttached(r) \/ CutNext(r)
  PROVE  Served(r)'
BY DEF Typed, ServedOps, UpdateInner, UpdateOuter, CutAttached, CutNext, At, Goto, Served,
   Resting, Ended

\* What a request does to the flows, it does with its answer.
LEMMA AnswerAtomic ==
  ASSUME Typed, Typed', Sequential, InStages, Orderly, NEW r \in Reqs, RequestStep(r),
         Served(r), ~Served(r)'
  PROVE  AbstractStep /\ DrawnWell(View'.category, View'.next, View'.attached)
<1> USE DEF graph
<1>a. /\ pc[r] \in Steps /\ op[r] \in Requested \cup {NoOp} /\ StepOf(pc[r], op[r].kind)
      /\ GraphTyped
  BY TypeParts DEF Typed, ServedOps
<1>b. /\ Drawn(op[r]) /\ Stage(r) /\ op[r].kind \notin {"patch", "patchMany"} /\ View = before
      /\ DrawnWell(before.category, before.next, before.attached)
  BY InTheMiddle
<1>c. View' = Current' /\ "db" \notin mode.faults
  BY ViewAfter DEF Orderly
<1>d. /\ category' \in [Blocks -> Categories \cup {Unused, Gone}]
      /\ next' \in [Blocks -> SUBSET Blocks] /\ attached' \in [Blocks -> Blocks \cup {NoBlock}]
  BY DEF Typed, TypeOK
<1>e. /\ View'.category = category' /\ View'.next = next' /\ View'.attached = attached'
  BY <1>c DEF Current
<1>f. op[r].kind \notin {"move", "delete"} =>
        category = before.category /\ next = before.next /\ attached = before.attached
  BY <1>a, <1>b, SameGraphs DEF Stage
<1>1. CASE UNCHANGED <<category, next, attached>>
  BY <1>1, <1>c, LosingAnswer
<1>2. CASE Insert(r)
  <2> DEFINE b == op[r].block
             k == op[r].category
             s == op[r].next
             t == op[r].attached
  <2>1. op[r].kind = "create"
    BY <1>a, <1>2 DEF Insert, At, StepOf, CreateSteps
  <2>2. /\ b \in Blocks /\ k \in Categories /\ s \subseteq Blocks /\ t \in Blocks \cup {NoBlock}
    BY <1>a, <2>1, OpFields
  <2>3. /\ before.category[b] = Unused /\ s \subseteq FlowBefore(k)
        /\ t \in FlowBefore(k) \cup {NoBlock} /\ (t = NoBlock \/ s = {})
    BY <1>b, <2>1 DEF Drawn
  <2>4. /\ category' = [before.category EXCEPT ![b] = k]
        /\ next' = [before.next EXCEPT ![b] = s]
        /\ attached' = [before.attached EXCEPT ![b] = t]
    BY <1>f, <1>2, <2>1 DEF Insert
  <2>5. DrawnWell(category', next', attached')
    <3>1. (\A x \in s : before.category[x] = k) /\ (t # NoBlock => before.category[t] = k)
      BY <2>3 DEF FlowBefore
    <3> HIDE DEF b, k, s, t
    <3>2. DrawnWell([before.category EXCEPT ![b] = k], [before.next EXCEPT ![b] = s],
                    [before.attached EXCEPT ![b] = t])
      BY <1>b, <2>2, <2>3, <3>1, AddDrawnWell
    <3> QED BY <2>4, <3>2
  <2>6. Abstract!WellDrawn'
    BY <1>e, <2>5, WellDrawnAfter
  <2>7. s \in SUBSET Abstract!Existing /\ t \in Abstract!Existing \cup {NoBlock}
    BY <1>b, <2>3 DEF FlowBefore, Abstract!Existing
  <2>8. Abstract!Add(b, k)
    BY <1>b, <1>e, <2>3, <2>4, <2>6, <2>7 DEF Abstract!Add
  <2>9. Abstract!Next
    BY <2>2, <2>8 DEF Abstract!Next
  <2> QED BY <1>e, <2>5, <2>9 DEF AbstractStep
<1>3. CASE UpdateOne(r)
  <2> DEFINE b == op[r].block
  <2>1. op[r].kind \in {"draw", "attach"} /\ b \in Blocks /\ before.category[b] \in Categories
    BY <1>a, <1>b, <1>3, OpFields DEF UpdateOne, Drawn
  <2>2. b \in Existing /\ b \in Abstract!Existing
    BY <1>b, <2>1 DEF Existing, Stage, Abstract!Existing
  <2>3. CASE op[r].kind = "draw"
    <3> DEFINE s == op[r].next
    <3> HIDE DEF s
    <3>0. op[r].field = "next" /\ Change({b}, op[r]) /\ op[r].next = s
      BY <1>a, <1>3, <2>2, <2>3, OpFields DEF UpdateOne, s
    <3>1. /\ category' = before.category /\ next' = [before.next EXCEPT ![b] = s]
          /\ attached' = before.attached
      BY <1>b, <1>f, <2>3, <3>0 DEF Change, DrawnWell, GraphType
    <3>2. /\ before.attached[b] = NoBlock /\ s \subseteq FlowBefore(before.category[b])
      BY <1>b, <2>3 DEF Drawn, s
    <3>3. before.attached = [before.attached EXCEPT ![b] = NoBlock]
      BY <1>b, <3>2 DEF DrawnWell, GraphType
    <3>4. DrawnWell(category', next', attached')
      <4>1. \A x \in s : before.category[x] \in Categories /\ before.category[x] = before.category[b]
        BY <3>2 DEF FlowBefore
      <4>2. s \in SUBSET Blocks /\ NoBlock \in Blocks \cup {NoBlock}
        BY <3>2 DEF FlowBefore
      <4>3. DrawnWell(before.category, [before.next EXCEPT ![b] = s],
                      [before.attached EXCEPT ![b] = NoBlock])
        <5> HIDE DEF b
        <5> QED BY <1>b, <2>1, <4>1, <4>2, LinkDrawnWell
      <4> QED BY <3>1, <3>3, <4>3, Zenon
    <3>5. Abstract!WellDrawn'
      BY <1>e, <3>4, WellDrawnAfter
    <3>6. s \in SUBSET Abstract!Existing
      BY <1>b, <3>2 DEF FlowBefore, Abstract!Existing
    <3>7. Abstract!DrawNext(b)
      BY <1>b, <1>e, <3>1, <3>5, <3>6 DEF Abstract!DrawNext
    <3>8. Abstract!Next
      BY <2>2, <3>7 DEF Abstract!Next
    <3> QED BY <1>e, <3>4, <3>8 DEF AbstractStep
  <2>4. CASE op[r].kind = "attach"
    <3> DEFINE t == op[r].attached
    <3> HIDE DEF t
    <3>0. op[r].field = "attached" /\ Change({b}, op[r]) /\ op[r].attached = t
      BY <1>a, <1>3, <2>2, <2>4, OpFields DEF UpdateOne, t
    <3>1. /\ category' = before.category /\ next' = before.next
          /\ attached' = [before.attached EXCEPT ![b] = t]
      BY <1>b, <1>f, <2>4, <3>0 DEF Change, DrawnWell, GraphType
    <3>2. /\ before.next[b] = {} /\ t \in FlowBefore(before.category[b]) \cup {NoBlock}
      BY <1>b, <2>4 DEF Drawn, t
    <3>3. before.next = [before.next EXCEPT ![b] = {}]
      BY <1>b, <3>2 DEF DrawnWell, GraphType
    <3>4. DrawnWell(category', next', attached')
      <4>1. t # NoBlock => before.category[t] \in Categories /\ before.category[t] = before.category[b]
        BY <3>2 DEF FlowBefore
      <4>2. t \in Blocks \cup {NoBlock} /\ {} \in SUBSET Blocks
        BY <3>2 DEF FlowBefore
      <4>3. DrawnWell(before.category, [before.next EXCEPT ![b] = {}],
                      [before.attached EXCEPT ![b] = t])
        <5> HIDE DEF b
        <5> QED BY <1>b, <2>1, <4>1, <4>2, LinkDrawnWell
      <4> QED BY <3>1, <3>3, <4>3, Zenon
    <3>5. Abstract!WellDrawn'
      BY <1>e, <3>4, WellDrawnAfter
    <3>6. t \in Abstract!Existing \cup {NoBlock}
      BY <1>b, <3>2 DEF FlowBefore, Abstract!Existing
    <3>7. Abstract!DrawAttached(b)
      BY <1>b, <1>e, <3>1, <3>5, <3>6 DEF Abstract!DrawAttached
    <3>8. Abstract!Next
      BY <2>2, <3>7 DEF Abstract!Next
    <3> QED BY <1>e, <3>4, <3>8 DEF AbstractStep
  <2> QED BY <2>1, <2>3, <2>4
<1>4. CASE UpdateMany(r)
  <2> DEFINE ids == op[r].ids
             k == op[r].category
  <2>0. op[r].kind = "move" /\ op[r].field = "category"
    BY <1>a, <1>b, <1>4, OpFields DEF UpdateMany
  <2>1. /\ op[r].kind = "move" /\ pc[r] = "write" /\ UNCHANGED <<next, attached>>
        /\ category' = [b \in Blocks |-> IF b \in ids \cap Existing THEN k ELSE category[b]]
    BY <1>a, <1>4, <2>0 DEF UpdateMany, At, Change, GraphTyped
  <2>2. /\ ids \in SUBSET Blocks /\ ids # {} /\ \A b \in ids : before.category[b] \in Categories
        /\ k \in Categories /\ ids \cap Existing = ids
    BY <1>b, <2>1, IdsThere
  <2>3. \A b \in Blocks : category[b] = before.category[b] /\ IsCut(b, ids)
    BY <1>b, <2>1 DEF Stage, MoveStage
  <2>4. Relocated(before.category, before.next, before.attached, ids, k, category', next', attached')
    BY <2>1, <2>2, <2>3 DEF Relocated, IsCut
  <2> HIDE DEF ids, k
  <2> QED BY <1>b, <1>d, <1>e, <2>2, <2>4, RelocateStep DEF GraphType
<1>5. CASE RemoveBlocks(r)
  <2> DEFINE ids == op[r].ids
  <2>1. /\ op[r].kind = "delete" /\ pc[r] = "remove"
        /\ category' = [b \in Blocks |-> IF b \in ids \cap Existing THEN Gone ELSE category[b]]
        /\ next' = [b \in Blocks |-> IF b \in ids \cap Existing THEN {} ELSE next[b]]
        /\ attached' = [b \in Blocks |-> IF b \in ids \cap Existing THEN NoBlock ELSE attached[b]]
    BY <1>5 DEF RemoveBlocks, At
  <2>2. /\ ids \in SUBSET Blocks /\ ids # {} /\ \A b \in ids : before.category[b] \in Categories
        /\ ids \cap Existing = ids
    BY <1>b, <2>1, IdsThere
  <2>3. \A b \in Blocks :
          /\ category[b] = before.category[b] /\ next[b] = before.next[b] \ ids
          /\ attached[b] = IF before.attached[b] \in ids THEN NoBlock ELSE before.attached[b]
    BY <1>b, <2>1 DEF Stage, DeleteStage
  <2>4. Removed(before.category, before.next, before.attached, ids, category', next', attached')
    BY <2>1, <2>2, <2>3 DEF Removed
  <2> HIDE DEF ids
  <2> QED BY <1>b, <1>d, <1>e, <2>2, <2>4, RemoveStep DEF GraphType
<1>6. Insert(r) \/ UpdateOne(r) \/ UpdateMany(r) \/ RemoveBlocks(r) \/ UNCHANGED <<category, next, attached>>
  <2>1. CASE UpdateInner(r) \/ UpdateOuter(r) \/ CutAttached(r) \/ CutNext(r)
    BY <2>1, CutStaysServed
  <2> QED BY <2>1 DEF RequestStep, Send, Validate, FindMoved, FindLinked, FindInner, InnerDone,
             OuterDone,
         FindDeleted, CheckConversations, CheckFallback, CheckBlocks, RemoveCategory, FailCall
<1> QED BY <1>1, <1>2, <1>3, <1>4, <1>5, <1>6

-----------------------------------------------------------------------------
(* Every step of the requests, of the conversations, and of the server.    *)

LEMMA RequestAtomic ==
  ASSUME Typed, Typed', Sequential, InStages, Orderly, NEW r \in Reqs, RequestStep(r)
  PROVE  AbstractStep /\ InStages'
<1>1. CASE Send(r)
  BY <1>1, SendStages
<1>2. CASE ~Send(r) /\ ~Served(r)'
  <2>1. Served(r)
    BY <1>2 DEF RequestStep, Validate, Insert, UpdateOne, FindMoved, FindLinked, FindInner,
       UpdateInner, InnerDone, UpdateOuter, OuterDone, UpdateMany, FindDeleted,
       CheckConversations, CheckFallback, CutAttached, CutNext, RemoveBlocks, CheckBlocks,
       RemoveCategory, FailCall, At, Served, Resting, Ended
  <2> QED BY <1>2, <2>1, AnswerAtomic, NowAnswered
<1>3. CASE ~Send(r) /\ Served(r)'
  <2>1. /\ Served(r)
        /\ Validate(r) \/ CheckConversations(r) \/ CheckFallback(r) \/ CheckBlocks(r)
           \/ FindMoved(r) \/ FindLinked(r) \/ FindInner(r) \/ FindDeleted(r)
           \/ UpdateInner(r) \/ InnerDone(r) \/ UpdateOuter(r) \/ OuterDone(r)
           \/ CutAttached(r) \/ CutNext(r)
    <3>1. ASSUME NEW how \in Ended, Answer(r, how) PROVE FALSE
      <4>1. pc'[r] = how
        BY <3>1 DEF Answer, Goto, Typed, ServedOps
      <4> QED BY <1>3, <4>1 DEF Served, Resting
    <3>2. Served(r)
      BY <1>3 DEF RequestStep, Validate, Insert, UpdateOne, FindMoved, FindLinked, FindInner,
       UpdateInner, InnerDone, UpdateOuter, OuterDone, UpdateMany, FindDeleted,
       CheckConversations, CheckFallback, CutAttached, CutNext, RemoveBlocks, CheckBlocks,
       RemoveCategory, FailCall, At, Served, Resting, Ended
    <3>3. ~Insert(r) /\ ~UpdateOne(r) /\ ~UpdateMany(r) /\ ~RemoveBlocks(r) /\ ~RemoveCategory(r)
          /\ ~FailCall(r)
      BY <3>1 DEF Insert, UpdateOne, UpdateMany, RemoveBlocks, RemoveCategory, FailCall, Ended
    <3> QED BY <1>3, <3>2, <3>3 DEF RequestStep
  <2>2. before' = before /\ op'[r] = op[r] /\ Stage(r)'
    BY <1>3, <2>1, CheckStages, FindStages, LoopStages, DeleteStages
  <2> QED BY <1>3, <2>1, <2>2, StillServed
<1> QED BY <1>1, <1>2, <1>3

\* Every request that was served is gone, and what it did so far has lost links.
LEMMA CrashAtomic ==
  ASSUME Typed, Typed', InStages, Orderly, Crash
  PROVE  AbstractStep /\ InStages'
<1>1. PICK r \in Reqs : Served(r)
  BY DEF Crash
<1>2. UNCHANGED <<category, next, attached>> /\ Orderly' /\ \A q \in Reqs : ~Served(q)'
  BY DEF Crash, graph, Orderly, FreeHand, Served, Resting, Ended
<1>3. View' = Current'
  BY <1>2 DEF View, Serving, Current
<1>4. AbstractStep /\ DrawnWell(View'.category, View'.next, View'.attached)
  BY <1>1, <1>2, <1>3, LosingAnswer
<1> QED BY <1>2, <1>4 DEF InStages

\* The conversations and the steps of the environment do not touch the flows.
LEMMA RestAtomic ==
  ASSUME InStages, UNCHANGED <<mode, graph, pc, op, found, source, linked, todo,
                               seenNext, seenAttached, before>>
  PROVE  AbstractStep /\ InStages'
<1> USE DEF graph
<1>1. (Orderly' <=> Orderly) /\ View' = View
  BY DEF Orderly, FreeHand, View, Serving, Served
<1>2. \A r \in Reqs : /\ Served(r)' <=> Served(r)
                      /\ Drawn(op[r])' <=> Drawn(op[r])
                      /\ Stage(r)' <=> Stage(r)
  BY DEF Served, Drawn, FlowBefore, Stage, MoveStage, DeleteStage, IsSame, IsCut, Linking,
         LinksBefore, Seen
<1> QED BY <1>1, <1>2, SameViewStep DEF InStages

LEMMA StepAtomic ==
  ASSUME Typed, Typed', ~mode.overlap => Sequential, InStages, [Next]_vars
  PROVE  AbstractStep /\ InStages'
<1>1. UNCHANGED mode
  BY RequestMode DEF Next, vars, Crash, ConversationStep, Match, FollowAttached, WaitForReply,
                    EndConversation
<1>2. CASE ~Orderly
  <2>1. ~Orderly' /\ View' = View
    BY <1>1, <1>2 DEF Orderly, FreeHand, View, NoGraph, NoLinks, NoAttached
  <2> QED BY <2>1, SameViewStep DEF InStages
<1>3. CASE Orderly
  <2>1. Sequential
    BY <1>3 DEF Orderly
  <2>2. ASSUME NEW v \in Convs, ConversationStep(v) PROVE AbstractStep /\ InStages'
    BY <2>2, RestAtomic DEF ConversationStep, Match, FollowAttached, WaitForReply,
                            EndConversation, task
  <2>3. CASE UNCHANGED vars
    BY <2>3, RestAtomic DEF vars, task
  <2> QED BY <1>3, <2>1, <2>2, <2>3, RequestAtomic, CrashAtomic DEF Next
<1> QED BY <1>2, <1>3

LEMMA InitAtomic == Init => Abstract!Init /\ InStages
<1> SUFFICES ASSUME Init PROVE Abstract!Init /\ InStages
  OBVIOUS
<1>1. PICK g \in Flows : category = g.category /\ next = g.next /\ attached = g.attached
  BY DEF Init
<1>2. \A r \in Reqs : ~Served(r)
  BY DEF Init, Served, Resting
<1>3. /\ View.category \in [Blocks -> Categories \cup {Unused}]
      /\ View.next \in [Blocks -> SUBSET Blocks]
      /\ View.attached \in [Blocks -> Blocks \cup {NoBlock}]
      /\ DrawnWell(View.category, View.next, View.attached)
  <2>1. CASE Orderly
    <3>1. View.category = g.category /\ View.next = g.next /\ View.attached = g.attached
      BY <1>1, <1>2, <2>1, ViewCurrent DEF Current
    <3>2. /\ g.category \in [Blocks -> Categories \cup {Unused}]
          /\ g.next \in [Blocks -> SUBSET Blocks]
          /\ g.attached \in [Blocks -> Blocks \cup {NoBlock}]
      OBVIOUS
    <3>3. ASSUME NEW b \in Blocks
          PROVE  /\ g.next[b] \cup ({g.attached[b]} \ {NoBlock})
                      \subseteq {x \in Blocks : g.category[x] \in Categories /\ g.category[x] = g.category[b]}
                 /\ g.attached[b] = NoBlock \/ g.next[b] = {}
      OBVIOUS
    <3>4. DrawnWell(g.category, g.next, g.attached)
      BY <3>2, <3>3 DEF DrawnWell, GraphType
    <3> QED BY <3>1, <3>2, <3>4
  <2>2. CASE ~Orderly
    BY <2>2 DEF View, NoGraph, NoLinks, NoAttached, DrawnWell, GraphType
  <2> QED BY <2>1, <2>2
<1> QED BY <1>2, <1>3, WellDrawnNow DEF Abstract!Init, InStages

\* Requests of the editor that do not overlap are atomic: as seen from between
\* them, each has its whole effect on the flows at once, or is cut off by a crash
\* and has only lost links.
THEOREM RequestsAreAtomic == Spec => RequestsAtomic
<1>1. Typed /\ Typed' /\ (~mode.overlap => Sequential) /\ InStages /\ [Next]_vars
        => AbstractStep /\ InStages'
  BY StepAtomic
<1>2. Init => Abstract!Init /\ InStages
  BY InitAtomic
<1>3. Spec => []Typed
  BY TypeCorrect, PTL DEF Typed
<1> QED BY <1>1, <1>2, <1>3, AlwaysInOrder, PTL DEF Spec, RequestsAtomic, Abstract!Spec,
           AbstractStep

=============================================================================
