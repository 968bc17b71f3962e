------------------------------ MODULE BlockGraph ------------------------------
(***************************************************************************)
(* The blocks of the flows and the links between them: the requests of     *)
(* BlockController and CategoryController with the hooks of                *)
(* BlockRepository and CategoryRepository, and the conversations that walk *)
(* along the links meanwhile.                                              *)
(*                                                                         *)
(* The hooks are sequences of database calls without a transaction: one    *)
(* action below is one call, and what a request read before is a copy.     *)
(* The settings (the global fallback block) do not change here.            *)
(***************************************************************************)
EXTENDS FiniteSets

CONSTANTS
  Blocks, Categories, NoBlock, Unused, Gone,
  Reqs,   \* requests of editors and API clients
  Convs,  \* subscribers, with a conversation each
  Flows,  \* the graphs [category, next, attached] that may be there initially
  Modes   \* the environments considered

\* overlap: a request may be sent while another is served.
\* kinds: what is requested, see Operations.
\* faults: "db" (a database call fails), "crash" (the server stops).
ASSUME FlowAssumption ==
  /\ NoBlock \notin Blocks
  /\ Unused \notin Categories /\ Gone \notin Categories /\ Unused # Gone
  /\ Flows \subseteq [category : [Blocks -> Categories \cup {Unused}],
                      next     : [Blocks -> SUBSET Blocks],
                      attached : [Blocks -> Blocks \cup {NoBlock}]]
  /\ \A g \in Flows : \A b \in Blocks :
       /\ g.next[b] \cup ({g.attached[b]} \ {NoBlock})
            \subseteq {x \in Blocks : g.category[x] \in Categories /\ g.category[x] = g.category[b]}
       /\ g.attached[b] = NoBlock \/ g.next[b] = {}
  /\ Modes \subseteq [overlap : BOOLEAN,
                      kinds   : SUBSET {"create", "draw", "attach", "patch", "move", "patchMany",
                                        "delete", "deleteCategory"},
                      faults  : SUBSET {"db", "crash"}]

VARIABLES
  mode,         \* the environment of this behaviour
  category, next, attached, \* the blocks collection, see FlowGraph
  categories,   \* the categories collection
  fallbackBlock,\* fallback_block if global_fallback is set, or NoBlock
  current, ahead,   \* the active conversation's current and next, NoBlock if none
  reading, readNext, readAttached, \* the block a handler runs, and its copied links
  pc, op,       \* where the request is, and what it asks for
  found,        \* the ids its first query found
  source,       \* the category of the first of them
  linked,       \* the blocks that it found linking to those
  todo,         \* the blocks it has still to update one by one
  seenNext, seenAttached, \* the copies it made of their links
  since,        \* history: conversations stored since the request found no use
  before        \* history: the graph when the request was sent, unless overlapping

graph == <<category, next, attached>>
walk == <<current, ahead, reading, readNext, readAttached>>
task == <<found, source, linked, todo, seenNext, seenAttached>>

vars == <<mode, graph, categories, fallbackBlock, walk, pc, op, task, since, before>>

-----------------------------------------------------------------------------
Existing == {b \in Blocks : category[b] \in Categories}

Links(b) == next[b] \cup ({attached[b]} \ {NoBlock})

Flow(c) == {b \in Existing : category[b] = c}

Ended == {"ok", "refused", "failed"}
Resting == {"idle"} \cup Ended

Served(r) == pc[r] \notin Resting

NoOp == [kind |-> "none"]

NoLinks == [b \in Blocks |-> {}]
NoAttached == [b \in Blocks |-> NoBlock]
NoGraph == [category |-> [b \in Blocks |-> Unused], next |-> NoLinks, attached |-> NoAttached]

Init ==
  /\ mode \in Modes
  /\ \E g \in Flows :
       category = g.category /\ next = g.next /\ attached = g.attached
  /\ categories = Categories
  /\ fallbackBlock \in Existing \cup {NoBlock}
  /\ current = [v \in Convs |-> NoBlock]
  /\ ahead = [v \in Convs |-> {}]
  /\ reading = [v \in Convs |-> NoBlock]
  /\ readNext = [v \in Convs |-> {}]
  /\ readAttached = [v \in Convs |-> NoBlock]
  /\ pc = [r \in Reqs |-> "idle"]
  /\ op = [r \in Reqs |-> NoOp]
  /\ found = [r \in Reqs |-> {}]
  /\ source = [r \in Reqs |-> NoBlock]
  /\ linked = [r \in Reqs |-> {}]
  /\ todo = [r \in Reqs |-> {}]
  /\ seenNext = [r \in Reqs |-> NoLinks]
  /\ seenAttached = [r \in Reqs |-> NoAttached]
  /\ since = [r \in Reqs |-> {}]
  /\ before = NoGraph

At(r, l) == pc[r] = l
Goto(r, l) == pc' = [pc EXCEPT ![r] = l]

\* The request is answered, and what it had in memory is gone.
Answer(r, how) ==
  /\ Goto(r, how)
  /\ op' = [op EXCEPT ![r] = NoOp]
  /\ found' = [found EXCEPT ![r] = {}]
  /\ source' = [source EXCEPT ![r] = NoBlock]
  /\ linked' = [linked EXCEPT ![r] = {}]
  /\ todo' = [todo EXCEPT ![r] = {}]
  /\ seenNext' = [seenNext EXCEPT ![r] = NoLinks]
  /\ seenAttached' = [seenAttached EXCEPT ![r] = NoAttached]
  /\ since' = [since EXCEPT ![r] = {}]
  /\ before' = NoGraph

-----------------------------------------------------------------------------
(* The requests, as the visual editor composes them from the blocks it     *)
(* shows: one flow, and links of one kind at a time.  Clients of the API   *)
(* send what they like, and only a creation is checked.                    *)

FreeHand == {"patch", "patchMany"} \cap mode.kinds # {}

Creations == [kind : {"create"}, block : {b \in Blocks : category[b] = Unused},
              category : Categories, next : SUBSET Blocks, attached : Blocks \cup {NoBlock}]

Create == {o \in Creations :
             \/ FreeHand
             \/ /\ o.next \cup ({o.attached} \ {NoBlock}) \subseteq Flow(o.category)
                /\ o.attached = NoBlock \/ o.next = {}}

\* onConnect and handleEdgeClick: the block's other links, with or without one.
Draw == {[kind |-> "draw", block |-> b, field |-> "next", next |-> s] :
           b \in {x \in Existing : attached[x] = NoBlock}, s \in SUBSET Blocks}

DrawWithinFlow ==
  {o \in Draw : \E x \in Flow(category[o.block]) :
     o.next \in {next[o.block] \cup {x}, next[o.block] \ {x}}}

Attach == {o \in [kind : {"attach"}, block : {b \in Existing : next[b] = {}},
                  field : {"attached"}, attached : Existing \cup {NoBlock}] :
             o.attached # NoBlock => o.attached \in Flow(category[o.block])}

\* PATCH :id of any id with any well-formed value: links and categories that are
\* gone, too.  An update of several fields is as many requests here.
Patch == [kind : {"patch"}, block : Blocks, field : {"next"}, next : SUBSET Blocks]
    \cup [kind : {"patch"}, block : Blocks, field : {"attached"}, attached : Blocks \cup {NoBlock}]
    \cup [kind : {"patch"}, block : Blocks, field : {"category"}, category : Categories]

\* PATCH bulk with a category.  The dialog offers the other categories for the
\* selected blocks of one flow.
Move == {o \in [kind : {"move"}, ids : (SUBSET Blocks) \ {{}}, field : {"category"},
                category : Categories] :
           \/ FreeHand
           \/ /\ o.category \in categories
              /\ \E c \in Categories \ {o.category} : o.ids \subseteq Flow(c)}

\* PATCH bulk with links.
PatchMany ==
       [kind : {"patchMany"}, ids : (SUBSET Blocks) \ {{}}, field : {"next"}, next : SUBSET Blocks]
  \cup [kind : {"patchMany"}, ids : (SUBSET Blocks) \ {{}}, field : {"attached"},
        attached : Blocks \cup {NoBlock}]

Delete == [kind : {"delete"}, ids : (SUBSET Existing) \ {{}}]

DeleteCategory == [kind : {"deleteCategory"}, category : categories]

Operations == {o \in Create \cup DrawWithinFlow \cup Attach \cup Patch \cup Move \cup PatchMany
                       \cup Delete \cup DeleteCategory : o.kind \in mode.kinds}

\* Where the handler of a kind of request starts.
Handler == [create |-> "category", draw |-> "write", attach |-> "write",
            patch |-> "write", move |-> "moved", patchMany |-> "write",
            delete |-> "find", deleteCategory |-> "blocks"]

Send(r) ==
  /\ At(r, "idle")
  /\ mode.overlap \/ \A q \in Reqs : ~Served(q)
  /\ \E o \in Operations :
       op' = [op EXCEPT ![r] = o] /\ Goto(r, Handler[o.kind])
  /\ before' = IF mode.overlap THEN NoGraph
               ELSE [category |-> category, next |-> next, attached |-> attached]
  /\ UNCHANGED <<mode, graph, categories, fallbackBlock, walk, task, since>>

-----------------------------------------------------------------------------
(* BlockController.create(): one query per reference; any that finds       *)
(* nothing makes validate() throw, and nothing has been written by then.   *)

Referenced(r) ==
  CASE At(r, "category") -> op[r].category \in categories
    [] At(r, "attached") -> op[r].attached \in Existing \cup {NoBlock}
    [] At(r, "next")     -> op[r].next \subseteq Existing

Validate(r) ==
  /\ pc[r] \in {"category", "attached", "next"}
  /\ IF Referenced(r)
     THEN /\ Goto(r, [category |-> "attached", attached |-> "next", next |-> "insert"][pc[r]])
          /\ UNCHANGED <<op, task, since, before>>
     ELSE Answer(r, "refused")
  /\ UNCHANGED <<mode, graph, categories, fallbackBlock, walk>>

Insert(r) ==
  /\ At(r, "insert")
  /\ category' = [category EXCEPT ![op[r].block] = op[r].category]
  /\ next' = [next EXCEPT ![op[r].block] = op[r].next]
  /\ attached' = [attached EXCEPT ![op[r].block] = op[r].attached]
  /\ Answer(r, "ok")
  /\ UNCHANGED <<mode, categories, fallbackBlock, walk>>

-----------------------------------------------------------------------------
(* PATCH :id.  The references of a block that changes category stay: the   *)
(* two updateMany() of preUpdate() wrap $pull and $set in a $set, whose    *)
(* unknown paths the schema drops.                                         *)

Change(bs, o) ==
  /\ category' = [b \in Blocks |-> IF b \in bs /\ o.field = "category" THEN o.category
                                   ELSE category[b]]
  /\ next' = [b \in Blocks |-> IF b \in bs /\ o.field = "next" THEN o.next ELSE next[b]]
  /\ attached' = [b \in Blocks |-> IF b \in bs /\ o.field = "attached" THEN o.attached
                                   ELSE attached[b]]

\* findOneAndUpdate() of the payload; throws if there is no block.
UpdateOne(r) ==
  /\ At(r, "write") /\ op[r].kind \in {"draw", "attach", "patch"}
  /\ IF op[r].block \in Existing
     THEN Change({op[r].block}, op[r]) /\ Answer(r, "ok")
     ELSE UNCHANGED graph /\ Answer(r, "failed")
  /\ UNCHANGED <<mode, categories, fallbackBlock, walk>>

-----------------------------------------------------------------------------
(* PATCH bulk: preUpdateMany().                                            *)

\* Of the moved blocks, the first says which category they come from.
FindMoved(r) ==
  /\ At(r, "moved")
  /\ found' = [found EXCEPT ![r] = op[r].ids \cap Existing]
  /\ IF found'[r] = {}
     THEN Goto(r, "write") /\ UNCHANGED source
     ELSE /\ Goto(r, "linked")
          /\ \E first \in found'[r] : source' = [source EXCEPT ![r] = category[first]]
  /\ UNCHANGED <<mode, graph, categories, fallbackBlock, walk, op,
                 linked, todo, seenNext, seenAttached, since, before>>

Copy(r, bs) ==
  /\ seenNext' = [seenNext EXCEPT ![r] = [b \in Blocks |-> IF b \in bs THEN next[b] ELSE @[b]]]
  /\ seenAttached' = [seenAttached EXCEPT ![r] =
                        [b \in Blocks |-> IF b \in bs THEN attached[b] ELSE @[b]]]

FindLinked(r) ==
  /\ At(r, "linked")
  /\ LET bs == {b \in Flow(source[r]) \ found[r] : Links(b) \cap found[r] # {}}
     IN  linked' = [linked EXCEPT ![r] = bs] /\ Copy(r, bs)
  /\ Goto(r, "inner")
  /\ UNCHANGED <<mode, graph, categories, fallbackBlock, walk, op, found, source, todo, since, before>>

FindInner(r) ==
  /\ At(r, "inner")
  /\ LET bs == {b \in found[r] \cap Existing : category[b] # op[r].category}
     IN  todo' = [todo EXCEPT ![r] = bs] /\ Copy(r, bs)
  /\ Goto(r, "updateInner")
  /\ UNCHANGED <<mode, graph, categories, fallbackBlock, walk, op, found, source, linked, since, before>>

\* An error of one update is logged, and the loop goes on with the next block.
SkipUpdate(r, b) ==
  /\ "db" \in mode.faults \/ b \notin Existing
  /\ UNCHANGED graph

\* A bug: the moved block loses the links to blocks that move along, too.
UpdateInner_CutsAll(r) ==
  /\ At(r, "updateInner")
  /\ \E b \in todo[r] :
       /\ todo' = [todo EXCEPT ![r] = @ \ {b}]
       /\ \/ /\ b \in Existing
             /\ next' = [next EXCEPT ![b] = {}]
             /\ attached' = [attached EXCEPT ![b] = NoBlock]
             /\ UNCHANGED category
          \/ SkipUpdate(r, b)
  /\ UNCHANGED <<mode, categories, fallbackBlock, walk, pc, op, found, source, linked,
                 seenNext, seenAttached, since, before>>

\* The moved block keeps its links to blocks that move along.
UpdateInner(r) ==
  /\ At(r, "updateInner")
  /\ \E b \in todo[r] :
       /\ todo' = [todo EXCEPT ![r] = @ \ {b}]
       /\ \/ /\ b \in Existing
             /\ next' = [next EXCEPT ![b] = seenNext[r][b] \cap found[r]]
             /\ attached' = [attached EXCEPT ![b] =
                  IF seenAttached[r][b] \in found[r] THEN seenAttached[r][b] ELSE NoBlock]
             /\ UNCHANGED category
          \/ SkipUpdate(r, b)
  /\ UNCHANGED <<mode, categories, fallbackBlock, walk, pc, op, found, source, linked,
                 seenNext, seenAttached, since, before>>

InnerDone(r) ==
  /\ At(r, "updateInner") /\ todo[r] = {}
  /\ todo' = [todo EXCEPT ![r] = linked[r]]
  /\ Goto(r, "updateOuter")
  /\ UNCHANGED <<mode, graph, categories, fallbackBlock, walk, op, found, source, linked,
                 seenNext, seenAttached, since, before>>

\* A block that stays: its next links are looked at only if it is not attached
\* to a moved block.
UpdateOuter(r) ==
  /\ At(r, "updateOuter")
  /\ \E b \in todo[r] :
       /\ todo' = [todo EXCEPT ![r] = @ \ {b}]
       /\ \/ /\ b \in Existing
             /\ IF seenAttached[r][b] \in found[r]
                THEN attached' = [attached EXCEPT ![b] = NoBlock] /\ UNCHANGED next
                ELSE next' = [next EXCEPT ![b] = seenNext[r][b] \ found[r]] /\ UNCHANGED attached
             /\ UNCHANGED category
          \/ SkipUpdate(r, b)
  /\ UNCHANGED <<mode, categories, fallbackBlock, walk, pc, op, found, source, linked,
                 seenNext, seenAttached, since, before>>

OuterDone(r) ==
  /\ At(r, "updateOuter") /\ todo[r] = {}
  /\ Goto(r, "write")
  /\ UNCHANGED <<mode, graph, categories, fallbackBlock, walk, op, task, since, before>>

\* The update itself, of the blocks that match the ids of the request by now.
UpdateMany(r) ==
  /\ At(r, "write") /\ op[r].kind \in {"move", "patchMany"}
  /\ Change(op[r].ids \cap Existing, op[r])
  /\ Answer(r, "ok")
  /\ UNCHANGED <<mode, categories, fallbackBlock, walk>>

-----------------------------------------------------------------------------
(* DELETE :id and DELETE: preDelete().                                     *)

FindDeleted(r) ==
  /\ At(r, "find")
  /\ found' = [found EXCEPT ![r] = op[r].ids \cap Existing]
  /\ Goto(r, IF found'[r] = {} THEN "remove" ELSE "used")
  /\ UNCHANGED <<mode, graph, categories, fallbackBlock, walk, op,
                 source, linked, todo, seenNext, seenAttached, since, before>>

\* A bug: only the block the conversation waits at counts.
InUse_CurrentOnly == {current[v] : v \in Convs}

\* The ids of blocks that the active conversations refer to.
InUse == UNION {ahead[v] \cup {current[v]} : v \in Convs}

CheckConversations(r) ==
  /\ At(r, "used")
  /\ IF InUse \cap found[r] # {}
     THEN Answer(r, "refused")
     ELSE Goto(r, "fallback") /\ UNCHANGED <<op, task, since, before>>
  /\ UNCHANGED <<mode, graph, categories, fallbackBlock, walk>>

\* A bug: the setting is read only when the attached blocks are already cut.
CheckFallback_Late(r) ==
  /\ At(r, "fallback")
  /\ attached' = [b \in Blocks |-> IF attached[b] \in found[r] THEN NoBlock ELSE attached[b]]
  /\ IF fallbackBlock \in found[r]
     THEN Answer(r, "refused")
     ELSE Goto(r, "cutNext") /\ UNCHANGED <<op, task, since, before>>
  /\ UNCHANGED <<mode, category, next, categories, fallbackBlock, walk>>

CheckFallback(r) ==
  /\ At(r, "fallback")
  /\ IF fallbackBlock \in found[r]
     THEN Answer(r, "refused")
     ELSE Goto(r, "cutAttached") /\ UNCHANGED <<op, task, since, before>>
  /\ UNCHANGED <<mode, graph, categories, fallbackBlock, walk>>

CutAttached(r) ==
  /\ At(r, "cutAttached")
  /\ attached' = [b \in Blocks |-> IF attached[b] \in found[r] THEN NoBlock ELSE attached[b]]
  /\ Goto(r, "cutNext")
  /\ UNCHANGED <<mode, category, next, categories, fallbackBlock, walk, op, task, since, before>>

\* A bug: only blocks that link to nothing else are cleaned.
CutNext_Partly(r) ==
  /\ At(r, "cutNext")
  /\ next' = [b \in Blocks |-> IF next[b] \subseteq found[r] THEN {} ELSE next[b]]
  /\ Goto(r, "remove")
  /\ UNCHANGED <<mode, category, attached, categories, fallbackBlock, walk, op, task, since, before>>

CutNext(r) ==
  /\ At(r, "cutNext")
  /\ next' = [b \in Blocks |-> next[b] \ found[r]]
  /\ Goto(r, "remove")
  /\ UNCHANGED <<mode, category, attached, categories, fallbackBlock, walk, op, task, since, before>>

\* The deletion itself; the controller answers 404 if it deleted nothing.
RemoveBlocks(r) ==
  LET gone == op[r].ids \cap Existing
  IN  /\ At(r, "remove") /\ op[r].kind = "delete"
      /\ category' = [b \in Blocks |-> IF b \in gone THEN Gone ELSE category[b]]
      /\ next' = [b \in Blocks |-> IF b \in gone THEN {} ELSE next[b]]
      /\ attached' = [b \in Blocks |-> IF b \in gone THEN NoBlock ELSE attached[b]]
      /\ Answer(r, IF gone = {} THEN "failed" ELSE "ok")
      /\ UNCHANGED <<mode, categories, fallbackBlock, walk>>

-----------------------------------------------------------------------------
(* DELETE /category/:id: CategoryRepository.preDelete().                   *)

\* A bug: an id given as a list finds no block.
CheckBlocks_Never(r) ==
  /\ At(r, "blocks")
  /\ Goto(r, "remove")
  /\ UNCHANGED <<mode, graph, categories, fallbackBlock, walk, op, task, since, before>>

CheckBlocks(r) ==
  /\ At(r, "blocks")
  /\ IF Flow(op[r].category) # {}
     THEN Answer(r, "refused")
     ELSE Goto(r, "remove") /\ UNCHANGED <<op, task, since, before>>
  /\ UNCHANGED <<mode, graph, categories, fallbackBlock, walk>>

\* A category that is built in stays; which ones are is not kept.
RemoveCategory(r) ==
  /\ At(r, "remove") /\ op[r].kind = "deleteCategory"
  /\ \/ /\ categories' = categories \ {op[r].category}
        /\ Answer(r, IF op[r].category \in categories THEN "ok" ELSE "failed")
     \/ UNCHANGED categories /\ Answer(r, "failed")
  /\ UNCHANGED <<mode, graph, fallbackBlock, walk>>

-----------------------------------------------------------------------------
(* The conversations: triggerBlock(), from the block's query on.           *)

PastCheck(r) == /\ pc[r] \in {"fallback", "cutAttached", "cutNext", "remove"}
                /\ op[r].kind = "delete"

\* The block with its links as the populating query returns them.
Read(v, b) ==
  /\ reading' = [reading EXCEPT ![v] = b]
  /\ readNext' = [readNext EXCEPT ![v] = next[b] \cap Existing]
  /\ readAttached' = [readAttached EXCEPT ![v] = IF attached[b] \in Existing THEN attached[b]
                                                 ELSE NoBlock]

StopReading(v) ==
  /\ reading' = [reading EXCEPT ![v] = NoBlock]
  /\ readNext' = [readNext EXCEPT ![v] = {}]
  /\ readAttached' = [readAttached EXCEPT ![v] = NoBlock]

\* A message starts a conversation or matches a block the conversation waits for.
Match(v) ==
  /\ reading[v] = NoBlock
  /\ \E b \in IF current[v] = NoBlock THEN Existing ELSE ahead[v] \cap Existing : Read(v, b)
  /\ UNCHANGED <<mode, graph, categories, fallbackBlock, current, ahead, pc, op, task, since, before>>

FollowAttached(v) ==
  /\ readAttached[v] \in Existing
  /\ Read(v, readAttached[v])
  /\ UNCHANGED <<mode, graph, categories, fallbackBlock, current, ahead, pc, op, task, since, before>>

\* The conversation waits at the block: its document is updated.
WaitForReply(v) ==
  /\ reading[v] # NoBlock /\ readAttached[v] = NoBlock /\ readNext[v] # {}
  /\ current' = [current EXCEPT ![v] = reading[v]]
  /\ ahead' = [ahead EXCEPT ![v] = readNext[v]]
  /\ StopReading(v)
  /\ since' = [r \in Reqs |-> IF PastCheck(r) THEN since[r] \cup {v} ELSE {}]
  /\ UNCHANGED <<mode, graph, categories, fallbackBlock, pc, op, task, before>>

\* No link, or the attached block is gone.
EndConversation(v) ==
  /\ reading[v] # NoBlock
  /\ IF readAttached[v] = NoBlock THEN readNext[v] = {} ELSE readAttached[v] \notin Existing
  /\ current' = [current EXCEPT ![v] = NoBlock]
  /\ ahead' = [ahead EXCEPT ![v] = {}]
  /\ StopReading(v)
  /\ UNCHANGED <<mode, graph, categories, fallbackBlock, pc, op, task, since, before>>

-----------------------------------------------------------------------------
(* Faults.                                                                 *)

\* A database call of the request throws, outside the loops of a move.
FailCall(r) ==
  /\ "db" \in mode.faults
  /\ Served(r) /\ pc[r] \notin {"updateInner", "updateOuter"}
  /\ Answer(r, "failed")
  /\ UNCHANGED <<mode, graph, categories, fallbackBlock, walk>>

Crash ==
  /\ "crash" \in mode.faults
  /\ \E r \in Reqs : Served(r)
  /\ pc' = [r \in Reqs |-> IF Served(r) THEN "failed" ELSE pc[r]]
  /\ op' = [r \in Reqs |-> NoOp]
  /\ found' = [r \in Reqs |-> {}]
  /\ source' = [r \in Reqs |-> NoBlock]
  /\ linked' = [r \in Reqs |-> {}]
  /\ todo' = [r \in Reqs |-> {}]
  /\ seenNext' = [r \in Reqs |-> NoLinks]
  /\ seenAttached' = [r \in Reqs |-> NoAttached]
  /\ since' = [r \in Reqs |-> {}]
  /\ before' = NoGraph
  /\ reading' = [v \in Convs |-> NoBlock]
  /\ readNext' = [v \in Convs |-> {}]
  /\ readAttached' = [v \in Convs |-> NoBlock]
  /\ UNCHANGED <<mode, graph, categories, fallbackBlock, current, ahead>>

-----------------------------------------------------------------------------
RequestStep(r) ==
  \/ Send(r)
  \/ Validate(r) \/ Insert(r)
  \/ UpdateOne(r)
  \/ FindMoved(r) \/ FindLinked(r) \/ FindInner(r)
  \/ UpdateInner(r) \/ InnerDone(r) \/ UpdateOuter(r) \/ OuterDone(r) \/ UpdateMany(r)
  \/ FindDeleted(r) \/ CheckConversations(r) \/ CheckFallback(r)
  \/ CutAttached(r) \/ CutNext(r) \/ RemoveBlocks(r)
  \/ CheckBlocks(r) \/ RemoveCategory(r)
  \/ FailCall(r)

ConversationStep(v) ==
  Match(v) \/ FollowAttached(v) \/ WaitForReply(v) \/ EndConversation(v)

Next ==
  \/ \E r \in Reqs : RequestStep(r)
  \/ \E v \in Convs : ConversationStep(v)
  \/ Crash

Spec == Init /\ [][Next]_vars

TypeOK ==
  /\ mode \in Modes
  /\ category \in [Blocks -> Categories \cup {Unused, Gone}]
  /\ next \in [Blocks -> SUBSET Blocks]
  /\ attached \in [Blocks -> Blocks \cup {NoBlock}]
  /\ categories \subseteq Categories
  /\ fallbackBlock \in Blocks \cup {NoBlock}
  /\ current \in [Convs -> Blocks \cup {NoBlock}]
  /\ ahead \in [Convs -> SUBSET Blocks]
  /\ reading \in [Convs -> Blocks \cup {NoBlock}]
  /\ readNext \in [Convs -> SUBSET Blocks]
  /\ readAttached \in [Convs -> Blocks \cup {NoBlock}]
  /\ found \in [Reqs -> SUBSET Blocks]
  /\ source \in [Reqs -> Categories \cup {Unused, Gone, NoBlock}]
  /\ linked \in [Reqs -> SUBSET Blocks]
  /\ todo \in [Reqs -> SUBSET Blocks]
  /\ seenNext \in [Reqs -> [Blocks -> SUBSET Blocks]]
  /\ seenAttached \in [Reqs -> [Blocks -> Blocks \cup {NoBlock}]]
  /\ since \in [Reqs -> SUBSET Convs]

Dangling(b) == Links(b) \ Existing

\* The links that an unchecked update writes.
Named(r) ==
  IF At(r, "write") /\ op[r].kind \in {"patch", "patchMany"}
  THEN CASE op[r].field = "next" -> op[r].next
         [] op[r].field = "attached" -> {op[r].attached}
         [] OTHER -> {}
  ELSE {}

\* As long as requests do not overlap, no step leaves a link to a block that does
\* not exist, neither one that ends a request nor one that fails half-way, but for
\* the update that names that block itself.
NoDangling ==
  [][~mode.overlap =>
       \A b \in Blocks : Dangling(b)' \subseteq Dangling(b) \cup UNION {Named(r) : r \in Reqs}]_vars

\* What the editor alone may cause, in a mode without failing updates.
Orderly == /\ ~mode.overlap
           /\ "db" \notin mode.faults
           /\ ~FreeHand

Orphans == {b \in Existing : category[b] \notin categories}

\* A category with blocks is not deleted, and no block is created in one that is
\* gone: only an update that names such a category leaves a block without one.
CategoryOfBlockExists ==
  [][~mode.overlap => \A b \in Orphans' \ Orphans :
       \E r \in Reqs : /\ At(r, "write") /\ op[r].field = "category"
                       /\ op[r].category = category'[b]]_vars

Deletes(r) == pc[r] = "remove" /\ pc'[r] = "ok" /\ op[r].kind = "delete"

\* A block that an active conversation waits at or may go on to is deleted only
\* if the conversation came there after the deletion had checked for users.
UsedBlocksStay ==
  [][\A r \in Reqs : Deletes(r) =>
       \A v \in Convs \ since[r] : (ahead[v] \cup {current[v]}) \cap found[r] = {}]_vars

\* A request that is refused has changed no block and no link, whatever the
\* steps it went through before.
RefusedLeavesGraph ==
  [][~mode.overlap => \A r \in Reqs :
       Served(r) /\ pc'[r] = "refused" =>
         graph' = <<before.category, before.next, before.attached>>]_vars

\* The editor's view: while a request is served, the graph before it.
Serving == \E r \in Reqs : Served(r)

View == IF ~Orderly THEN NoGraph
        ELSE IF Serving THEN before
        ELSE [category |-> category, next |-> next, attached |-> attached]

Abstract == INSTANCE FlowGraph WITH
  category <- View.category, next <- View.next, attached <- View.attached

\* Seen from between the requests, each has its whole effect or only loses links.
RequestsAtomic == Abstract!Spec

=============================================================================
