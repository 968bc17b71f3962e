------------------------------ MODULE Analytics ------------------------------
(***************************************************************************)
(* What is counted about the messages of one sender: the last visit of the *)
(* subscriber and the insights of the day.                                 *)
(*                                                                         *)
(* ChatService finds or creates the subscriber of a message and announces  *)
(* the visit.  SubscriberService then saves it, while BotStatsService      *)
(* decides from its copy of the subscriber what to count; the message is   *)
(* logged and answered meanwhile.  Whatever is to be counted is an entry,  *)
(* handled on its own: the insight is found or created, and written.  An   *)
(* action is the code between two awaits.                                  *)
(***************************************************************************)
EXTENDS Integers, Sequences, Bags, SequencesExt, FiniteSetsExt

CONSTANTS
  MessageLimit,  \* bounds the messages
  EntryLimit,    \* bounds the entries handled at once
  Pauses,        \* how long the sender may be silent
  DayLength,
  Returning, RetentionReset, Retention, Loyalty,  \* the thresholds of config
  Modes          \* the environments considered; of each,
                 \* messages: how many there are; atOnce: how many of them
                 \* are handled at once; names: of the insights followed, none
                 \* of which depends on another; faults: "db": a database call
                 \* fails; "crash": the server stops

Messages == 1 .. MessageLimit

\* Names of insights.  One insight of a name is kept per day.
Names == {"Incoming", "Outgoing", "All Messages", "New users", "Returning users",
          "Loyalty", "Retentioned users"}

ASSUME AnalyticsAssumption ==
  /\ {MessageLimit, EntryLimit, DayLength, Returning, RetentionReset, Retention, Loyalty}
       \subseteq Nat \ {0}
  /\ Pauses \subseteq Nat \ {0}
  /\ Modes \subseteq [messages : 0 .. MessageLimit, atOnce : 1 .. MessageLimit,
                      names : SUBSET Names, faults : SUBSET {"db", "crash"}]

VARIABLES
  mode,         \* the environment of this behaviour, which never changes
  now,
  subscribers,  \* the documents with the sender's foreign_id, in the order created,
                \* each with its last visit and the start of its retention
  stage,        \* stage[m]: "sent", "find", "create", "found" or "visited"
  copy,         \* copy[m]: the document its handler works with
  tasks,        \* tasks[m]: what is still to be done of a visited message
  insights,     \* insights[n]: the values of the documents of name n of today
  entries,      \* bag of the entries being handled: name, stage, document and
                \* the value seen in it
  visits,       \* history: when messages of the sender were handled
  emitted,      \* history: emitted[n], the entries of today
  crossed       \* history: the names of which two entries were handled at once today

history == <<visits, emitted, crossed>>

vars == <<mode, now, subscribers, stage, copy, tasks, insights, entries, history>>

-----------------------------------------------------------------------------

NoDocument == [id |-> 0, lastvisit |-> 0, retainedFrom |-> 0]

Init ==
  /\ mode \in Modes
  /\ now = 0
  /\ subscribers = <<>>
  /\ stage = [m \in Messages |-> "sent"]
  /\ copy = [m \in Messages |-> NoDocument]
  /\ tasks = [m \in Messages |-> {}]
  /\ insights = [n \in Names |-> <<>>]
  /\ entries = EmptyBag
  /\ visits = {}
  /\ emitted = [n \in Names |-> 0]
  /\ crossed = {}

Fails == "db" \in mode.faults

Goto(m, s) == stage' = [stage EXCEPT ![m] = s]

Finish(m, t) == t \in tasks[m] /\ tasks' = [tasks EXCEPT ![m] = @ \ {t}]

Done(m) == stage[m] \in {"sent", "visited"} /\ tasks[m] = {}

Quiet == entries = EmptyBag /\ \A m \in Messages : Done(m)

Handling(n) == \E e \in BagToSet(entries) : e.name = n

-----------------------------------------------------------------------------
(* The entries: BotStatsService.handleStatEntry.                           *)

Entry(n, s, d, v) == [name |-> n, stage |-> s, doc |-> d, seen |-> v]

\* Entries of these names begin to be handled.
Emit(names) ==
  LET followed == names \cap mode.names
  IN  /\ BagCardinality(entries) + Cardinality(followed) <= EntryLimit
      /\ entries' = entries (+) SetToBag({Entry(n, "find", 0, 0) : n \in followed})
      /\ emitted' = [n \in Names |-> emitted[n] + IF n \in followed THEN 1 ELSE 0]
      /\ crossed' = crossed \cup {n \in followed : Handling(n)}

EmitNothing == UNCHANGED <<entries, emitted, crossed>>

Without(e) == entries (-) SetToBag({e})

Replace(e, f) == entries' = Without(e) (+) SetToBag({f})

\* The error of a failed call is logged, and the entry is lost.
Drop(e) == entries' = Without(e) /\ UNCHANGED insights

UnchangedForEntries == UNCHANGED <<mode, now, subscribers, stage, copy, tasks, history>>

\* findOneOrCreate: any insight of the name, if there are several.
FindInsight(e) ==
  /\ e.stage = "find"
  /\ \/ /\ insights[e.name] = <<>>
        /\ Replace(e, Entry(e.name, "create", 0, 0))
        /\ UNCHANGED insights
     \/ /\ \E i \in DOMAIN insights[e.name] :
             Replace(e, Entry(e.name, "update", i, insights[e.name][i]))
        /\ UNCHANGED insights
     \/ Fails /\ Drop(e)
  /\ UnchangedForEntries

CreateInsight_Counting(e) ==
  /\ e.stage = "create"
  /\ insights' = [insights EXCEPT ![e.name] = Append(@, 1)]
  /\ Replace(e, Entry(e.name, "update", Len(insights[e.name]) + 1, 1))
  /\ UnchangedForEntries
CreateInsight(e) ==
  /\ e.stage = "create"
  /\ \/ /\ insights' = [insights EXCEPT ![e.name] = Append(@, 0)]
        /\ Replace(e, Entry(e.name, "update", Len(insights[e.name]) + 1, 0))
     \/ Fails /\ Drop(e)
  /\ UnchangedForEntries

\* The value written is the one seen before, and one more.
UpdateInsight_OnlyFound(e) ==
  /\ e.stage = "update"
  /\ insights' = [insights EXCEPT ![e.name][e.doc] = IF e.seen > 0 THEN e.seen + 1 ELSE @]
  /\ entries' = Without(e)
  /\ UnchangedForEntries
UpdateInsight(e) ==
  /\ e.stage = "update"
  /\ \/ /\ insights' = [insights EXCEPT ![e.name][e.doc] = e.seen + 1]
        /\ entries' = Without(e)
     \/ Fails /\ Drop(e)
  /\ UnchangedForEntries

-----------------------------------------------------------------------------
(* The messages: ChatService.handleNewMessage.                             *)

\* A message comes after those sent before it.
Receive(m) ==
  /\ m <= mode.messages
  /\ stage[m] = "sent"
  /\ \A k \in Messages : k < m => stage[k] # "sent"
  /\ Cardinality({k \in Messages : ~Done(k)}) < mode.atOnce
  /\ Goto(m, "find")
  /\ UNCHANGED <<mode, now, subscribers, copy, tasks, insights, entries, history>>

\* The subscriber of a foreign_id: any, if there are several.  A message
\* whose subscriber cannot be read or created is given up.
FindSubscriber(m) ==
  /\ stage[m] = "find"
  /\ \/ subscribers = <<>> /\ Goto(m, "create") /\ UNCHANGED copy
     \/ \E i \in DOMAIN subscribers :
          /\ copy' = [copy EXCEPT ![m] = [subscribers[i] EXCEPT !.id = i]]
          /\ Goto(m, "found")
     \/ Fails /\ Goto(m, "visited") /\ UNCHANGED copy
  /\ UNCHANGED <<mode, now, subscribers, tasks, insights, entries, history>>

\* SubscriberRepository.postCreate counts a new user.
CreateSubscriber(m) ==
  /\ stage[m] = "create"
  /\ \/ LET new == [id |-> Len(subscribers) + 1, lastvisit |-> now, retainedFrom |-> now]
        IN  /\ subscribers' = Append(subscribers, new)
            /\ copy' = [copy EXCEPT ![m] = new]
            /\ Goto(m, "found")
            /\ Emit({"New users"})
     \/ Fails /\ Goto(m, "visited") /\ EmitNothing /\ UNCHANGED <<subscribers, copy>>
  /\ UNCHANGED <<mode, now, tasks, insights, visits>>

\* BotStatsService.handleLastVisit
VisitInsights(subscriber) ==
  LET silence == now - subscriber.lastvisit
  IN  {n \in {"Loyalty"} : silence > Loyalty}
        \cup {n \in {"Returning users"} : silence > Returning}
        \cup {n \in {"Retentioned users"} : now - subscriber.retainedFrom > Retention}

\* hook:user:lastvisit: SubscriberService begins to save the visit and
\* BotStatsService emits what it counts; then the message is logged and
\* answered.
Visit(m) ==
  /\ stage[m] = "found"
  /\ Goto(m, "visited")
  /\ tasks' = [tasks EXCEPT ![m] = {"save", "log", "answer"}]
  /\ Emit(VisitInsights(copy[m]))
  /\ visits' = visits \cup {now}
  /\ UNCHANGED <<mode, now, subscribers, copy, insights>>

\* SubscriberService.handleLastVisit: a silence longer than RetentionReset
\* begins a new retention.
Visited_Kept(subscriber) == [subscriber EXCEPT !.lastvisit = now]
Visited(subscriber) ==
  [subscriber EXCEPT
     !.retainedFrom = IF now - subscriber.lastvisit > RetentionReset THEN now ELSE @,
     !.lastvisit = now]

SaveVisit_Skip(m) ==
  /\ Finish(m, "save")
  /\ UNCHANGED <<mode, now, subscribers, stage, copy, insights, entries, history>>
SaveVisit(m) ==
  /\ Finish(m, "save")
  /\ \/ subscribers' = [subscribers EXCEPT ![copy[m].id] = Visited(copy[m])]
     \/ Fails /\ UNCHANGED subscribers
  /\ UNCHANGED <<mode, now, stage, copy, insights, entries, history>>

\* handleReceivedMessage
LogMessage(m) ==
  /\ Finish(m, "log")
  /\ Emit({"Incoming", "All Messages"}) \/ (Fails /\ EmitNothing)
  /\ UNCHANGED <<mode, now, subscribers, stage, copy, insights, visits>>

\* BotService.sendMessageToSubscriber, unless there is no answer.
Answer(m) ==
  /\ Finish(m, "answer")
  /\ Emit({"Outgoing", "All Messages"}) \/ EmitNothing
  /\ UNCHANGED <<mode, now, subscribers, stage, copy, insights, visits>>

-----------------------------------------------------------------------------
(* The environment.                                                        *)

\* What the handlers do takes no time by the clock of the thresholds.  A new
\* day has no insights yet, and those of a day that is over stay as they are.
Wait(d) ==
  /\ Quiet
  /\ \E m \in Messages : m <= mode.messages /\ stage[m] = "sent"
  /\ now \in visits
  /\ now' = now + d
  /\ IF now' \div DayLength = now \div DayLength
     THEN UNCHANGED <<insights, emitted, crossed>>
     ELSE /\ insights' = [n \in Names |-> <<>>]
          /\ emitted' = [n \in Names |-> 0]
          /\ crossed' = {}
  /\ UNCHANGED <<mode, subscribers, stage, copy, tasks, entries, visits>>

\* The server stops: what is being handled is lost.
Crash ==
  /\ "crash" \in mode.faults
  /\ ~Quiet
  /\ stage' = [m \in Messages |-> IF stage[m] = "sent" THEN "sent" ELSE "visited"]
  /\ tasks' = [m \in Messages |-> {}]
  /\ entries' = EmptyBag
  /\ UNCHANGED <<mode, now, subscribers, copy, insights, history>>

Next ==
  \/ \E m \in Messages :
       \/ Receive(m) \/ FindSubscriber(m) \/ CreateSubscriber(m) \/ Visit(m)
       \/ SaveVisit(m) \/ LogMessage(m) \/ Answer(m)
  \/ \E e \in BagToSet(entries) : FindInsight(e) \/ CreateInsight(e) \/ UpdateInsight(e)
  \/ \E d \in Pauses : Wait(d)
  \/ Crash

Spec == Init /\ [][Next]_vars

-----------------------------------------------------------------------------
(* Properties.                                                             *)

Documents == [id : Nat, lastvisit : Nat, retainedFrom : Nat]

TypeOK ==
  /\ mode \in Modes
  /\ now \in Nat
  /\ subscribers \in Seq(Documents)
  /\ stage \in [Messages -> {"sent", "find", "create", "found", "visited"}]
  /\ copy \in [Messages -> Documents]
  /\ tasks \in [Messages -> SUBSET {"save", "log", "answer"}]
  /\ visits \in SUBSET Nat

Alone == mode.atOnce = 1 /\ mode.faults = {}

Total(n) == FoldSeq(+, 0, insights[n])

Underway(n) ==
  MapThenSumSet(LAMBDA e : entries[e], {e \in BagToSet(entries) : e.name = n})

\* Whatever fails and however entries cross, no insight counts more than
\* there was to count today, not even when two messages create it at once
\* (handleStatEntry: what was seen, and one more, is written).
NeverOvercounted == \A n \in Names : Total(n) + Underway(n) <= emitted[n]

\* An insight of which no two entries were handled at once has one document,
\* which counts each of them (handleStatEntry, findOneOrCreate).
ExactUnlessCrossed ==
  mode.faults = {} =>
    \A n \in Names \ crossed : Total(n) + Underway(n) = emitted[n] /\ Len(insights[n]) <= 1

\* The schema of insights says of the value: "Total value of the insight for
\* the whole chosen granularity" (bot-stats.schema.ts:55).
TotalValue == mode.faults = {} /\ Quiet => \A n \in Names : Total(n) = emitted[n]

\* From the start of a subscriber's retention to the last visit there was no
\* silence longer than RetentionReset, though messages may be handled at once
\* with old copies, saves may fail and the sender may have two documents
\* (handleLastVisit of SubscriberService).
PeriodUnbroken ==
  \A i \in DOMAIN subscribers, v \in visits :
    subscribers[i].retainedFrom <= v /\ v < subscribers[i].lastvisit =>
      \E w \in visits : v < w /\ w <= v + RetentionReset

\* A sender who comes back after a silence is counted as returning, and, when
\* messages are handled one by one and nothing fails, nobody else is
\* (handleLastVisit of BotStatsService, which reads what the other
\* handleLastVisit saved).
Returned(n, threshold) ==
  \A m \in Messages :
    Visit(m) /\ visits # {} /\ n \in mode.names =>
      LET silence == now - Max(visits)
          counted == emitted'[n] > emitted[n]
      IN  /\ silence > threshold => counted
          /\ Alone /\ counted => silence > threshold

ReturnsCounted ==
  [][Returned("Returning users", Returning) /\ Returned("Loyalty", Loyalty)]_vars

=============================================================================
