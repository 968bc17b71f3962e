# Verification of Hexabot

TLA+ models of the core of Hexabot, their model checking with TLC and proofs of
their main properties with TLAPS. Paths below are relative to `src/api/src/`
unless they start with `src/`.

- [The system](#the-system)
- [The modules](#the-modules)
- [What is checked](#what-is-checked)
- [What is proved](#what-is-proved)
- [What the code does that one would not expect](#what-the-code-does-that-one-would-not-expect)
- [What is not modelled](#what-is-not-modelled)
- [Plan](#plan)

## The system

Hexabot is a chatbot builder. A NestJS server (`src/api`) keeps everything in
MongoDB; channels bring messages in and take replies out; a React admin
(`src/frontend`) edits flows of blocks, and a widget (`src/widget`) is the tab
of a visitor. The server is one Node process: handlers of different messages
interleave at every `await`, and they share the database, the sessions and the
event emitter, which runs listeners nobody waits for. There are no transactions.

### Components

**Conversation engine** (`chat/services/bot.service.ts`, `conversation.service.ts`).
*State:* the conversations: `active`, `current` block, `next` blocks, a `context` with
the number of local fallbacks, captured variables and pages. *Operations:* for a
message, find the active conversation of its sender, match one of its next
blocks (or the current block again, as a local fallback), write the context,
send the block, follow attached blocks and outcomes of plugins, and either store
the blocks a reply may lead to or emit the end of the conversation; without a
conversation, open one at an entry block, or send the global fallback.
*Interactions:* `BlockService.match`, the channel's `sendMessage`, events
`hook:conversation:end`, `hook:chatbot:sent`, `hook:analytics:*`. *Hard:* messages of one sender
overlap; the context is replaced as a whole by a copy several awaits old; the end
of a conversation is applied by a listener later; one call of a chain of blocks
fails after others replied. *Correct when:* a conversation waits at a question
only, moves along the drawn flow, is never revived, and a message is answered
by one conversation; fallbacks are bounded; messages and ends are handled.

**Block matching** (`chat/services/block.service.ts`). Pure: which of a list of
blocks answers an event, by payload, then text, then the predictions of the NLU
engine with weights and penalties; which block goes on with an outcome. *Hard:*
the order of the candidates decides; ambiguity is an answer of its own. *Correct
when:* the block that answers is the one its declarative description names.

**Chat intake** (`chat/services/chat.service.ts`). Listeners of `hook:chatbot:*`: create the
subscriber of a message, store its avatar, ask the NLU engine, leave the message to the bot
unless a user has taken the sender over; log sent, received, delivered and read
messages; end conversations. *Hard:* first messages of one sender may overlap;
`assignedTo` is looked at in a copy.

**Subscribers and labels** (`chat/services/subscriber.service.ts`,
`repositories/subscriber.repository.ts`). *State:* subscribers with labels and the user they
are assigned to. *Operations:* blocks assign labels, of which those of one group
exclude each other, and hand the subscriber over; operators do the same from
the inbox; labels are deleted. *Hard:* `updateLabels` is two writes; the labels to
remove come from a copy. *Correct when:* one label per group, a group is not
lost, and a subscriber who was taken over is left alone by the bot.

**Block graph** (`chat/repositories/block.repository.ts`, `category.repository.ts`, `controllers/block.controller.ts`,
`category.controller.ts`). *State:* blocks with a category (a flow of the editor), `nextBlocks` and
`attachedBlock`. *Operations:* create, draw links, attach, move to another category (many at once, or by an
update of one), delete one or many, delete a category. *Hard:* the hooks around a write are several queries; a
check is made awaits before the deletion it allows; conversations walk along links that are being cut. *Correct
when:* no step makes a link dangle or takes a block's category away unless an update asks for just that, blocks in use
stay, a request of the editor has its whole effect or none.

**Message log** (`chat/services/message.service.ts`). Messages by id, found or created;
history before and since a message; operators' messages are sent through the channel.

**Web channel** (`extensions/channels/web/base-web-channel.ts`) and **websocket**
(`websocket/websocket.gateway.ts`, `services/socket-event-dispatcher.service.ts`). *State:* the express session
(its `web` part: visitor, transport, `polling`), the copy every socket or HTTP
request has of it, a mutex per socket, rooms. *Operations:* connect, subscribe,
send messages and files, poll, disconnect. *Hard:* copies of the session are saved
whole; nobody waits for the save of the session that a socket opens with; a handler answers before its session is saved; uploads leave the mutex.
*Correct when:* a visitor's message is attributed to the visitor whose room the tab
is in, a session has one visitor, and every request is answered.

**Migrations** (`migration/migration.service.ts`). *State:* a document per migration that ran and
`db-version`. *Operations:* upgrade at boot, `migrate` one or all, up or down. *Hard:* failure
of one of several, crashes between the work, its record and `db-version`, two runners.
*Correct when:* nothing is recorded that was not done, nothing is skipped, nothing
is done twice.

**NLP** (`nlp/services/*`, `nlp/repositories/*`). *State:* entities, their values, annotations of samples that refer to
both, and the entities the NLU engine keeps. *Operations:* create, move a value, annotate a sample, delete one or many.
*Hard:* deletions cascade query by query, overlap with what refers to the deleted, and tell an engine that fails.
*Correct when:* references resolve and the engine mirrors the entities.

**Caches and settings** (`utils/decorators/cacheable.decorator.ts`, `setting/services/setting.service.ts`,
`i18n/services/language.service.ts`, …). *State:* entries with a time to live, in memory or Redis. *Operations:* reads
through the cache, writes whose listeners delete the entry. *Hard:* reads race with deletions, which are awaited, started
only, or never made. *Correct when:* an entry is out of date for a reason, and not for ever.

**Generic repository** (`utils/generics/*`). The events around every write, which the
listeners of the components above hang on.

**Users and permissions** (`user/*`). Roles, models and permissions, tokens for
invitations, resets and confirmations, the guard of the REST API.

**Analytics** (`analytics/*`, `handleLastVisit` of the subscribers). *State:* insights, one value per name and day;
the last visit and the start of the retention of a subscriber. *Operations:* a visit, a message or an answer emits
entries, each found or created, and written, on its own. *Hard:* entries and visits overlap; saves fail and are logged.
*Correct when:* nothing is counted too often, everything is counted, retentions have no long silence.

**Contents and menu** (`cms/*`):
content types, contents, a tree of menu items with cascading deletions.
**Attachments, helpers, plugins, mailer, extensions:** registries filled at start-up and
wrappers of storage, mail and external services. **Admin frontend and widget:** React.

### How they interact

```
 tab --socket/HTTP--> web channel --hook:chatbot:message--> chat intake --> NLU engine
                         ^                                      |
                         | sendMessage                          v
                         +----------------------- conversation engine --> block matching
                                                   |    |    |
                        hook:conversation:end <----+    |    +--> subscribers: labels, handover
                        (listener: chat intake)         v
                                                  conversations (MongoDB)

 chat intake --hook:user:lastvisit--> subscribers, analytics <--hook:stats:entry-- engine, intake
 editor ------> block graph --cuts links of--> blocks <--walks along-- conversation engine
 admin -------> nlp --hook:nlpEntity:*--> NLU engine;  any write --hook:*--> caches
```

## The modules

| module | models | extends |
|---|---|---|
| `ConversationLifecycle` | the life cycle the engine promises (abstract) | |
| `Bot` | conversation engine and the listener of ends | |
| `BlockMatch` | `BlockService.match` and `matchOutcome` | |
| `Subscriber` | chat intake of one sender, labels and handover | |
| `WebSession` | web channel and websocket sessions | |
| `Migration` | migrations | |
| `FlowGraph` | what the visual editor promises about flows (abstract) | |
| `BlockGraph` | requests on blocks and categories, call by call, and the conversations that walk along the links | |
| `ReadThrough` | a cached read and the writes that delete its entry | |
| `NlpDictionary` | NLP entities, values and annotations, and the engine's mirror | |
| `Analytics` | visits, retention and insights of one sender's messages | |
| `MC…` | instances for TLC | its module |
| `BotProofs`, `SubscriberProofs`, `WebSessionProofs`, `MigrationProofs`, `BlockGraphProofs`, `NlpDictionaryProofs`, `AnalyticsProofs` | theorems | the module |
| `BlockMatchProofs` | theorems about `BlockMatch`, and about the cache that the weights of NLU entities are read through | `BlockMatch`, `ReadThrough` |

In all of them an action is the code between two awaits: Node runs it without
interruption. A handler is a process with a location `pc`, its local copies of documents
are variables of their own (`seen`, `known`, `copy`, …), and a call that may fail has a disjunct
for the failure, enabled by the faults considered. In most modules a variable that never changes, `mode` (`use` in
`WebSession`), holds the environment of a behaviour: which requests there are, whether they overlap, what fails. One
run then covers several environments, and a property that needs one says so in its premise. `Bot` takes
`Overlap` and `Faults` as constants. What an exception is caught by, and where the
handler goes on, is the target location of that disjunct. A definition whose
name has a suffix (`NextAttempt_NoReset`) is a plausible bug of the definition it
precedes; nothing uses it but the check that the properties notice it.

### Bot

One process per message. `pc` follows the call tree of `handleMessageEvent`:

| location | code |
|---|---|
| `find` | `processConversationMessage`: `findOneAndPopulate` of the active conversation |
| `match`, `escape` | `handleOngoingConversationMessage`, `handleFlowEscapeFallback` |
| `store` | `proceedToNextBlock`: `storeContextData` |
| `process`, `send`, `follow`, `outcome` | `triggerBlock`: `processMessage`, `sendMessageToSubscriber`, attached block, outcome, next blocks |
| `entry`, `fallback` | entry blocks, global fallback |
| `create`, `storeEntry` | `startConversation` |

`convo` is the collection; conversations are named after the message that
opened them, for a message opens at most one. `seen[m]` is the copy that `find` read,
whose context `storeContextData` writes back. `ending` holds the conversations whose
`hook:conversation:end` was emitted and whose listener has not written yet: `EndConversation`. `sent` is a history variable.

Abstractions. Which block a message matches is a free choice among the
candidates (BlockMatch says which). Captured variables are the set of messages they
came from. The catalogue and the settings are constant. `getSettings` does not fail.
Pages of lists (`skip`) and quick replies are data. `handleCloseConversation` is left out: nothing in the
code emits its event. `SendBlock` is the whole of `sendMessageToSubscriber`, whose
labels and handover are the business of `Subscriber`.

`ConversationLifecycle` says what remains of a conversation seen from outside: absent,
opened once, asked one question after another, closed for good. `Bot!Lifecycle` is the refinement mapping:
the question of an active conversation is its current block.

### BlockMatch

Blocks of `BlockSet` are created one after the other, an event comes, and `Match`
or `MatchOutcome` answers it. All of `match` is there: channel and label filters, the stable sort by
number of labels, payload before text before prediction, the single match a
local fallback insists on, and the scores. A text stands for its spellings in either case; a
payload is the sequence of its colon-separated parts; confidences, weights and
the penalty are small integers, `Whole` being 1. `Only` is `Array.prototype.filter`,
a fold so that it can be proved about; the properties are stated without it, over sets.

### Subscriber

The messages of one sender (one foreign id). `FindSubscriber` … `EnrichEvent` are
`handleNewMessage`; `SendBlock` … `HandOver` are the part of `sendMessageToSubscriber`
that touches the subscriber, once per block of a chain of at most `mode.chain`.
`PullLabels` and `PushLabels` are the two writes of `updateLabels`. `free` (the messages since whose arrival
nobody had taken the sender over) and `held` (the groups a handler has put a label of in place, unless one stopped between the two writes and left
the group empty) are history. `foreign_id` is not unique,
so a subscriber is named after the message that created it; `Visitor` is the one that a
web session creates before any message. `Assign` and `EditLabels` are what operators do.
`handBack` and `handOverByForeignId` have no callers and are left out.

### WebSession

One browser session. `store` is `session.web` in the session store; `copy[c]` is what socket
`c`, or HTTP request `c`, has of it. Requests are numbered in the order they are sent. A socket's requests queue for
its mutex (`queue`), reload the session, run, and save it; what a socket loaded before it opened is saved
some time after, by nobody waited for (`opening`, `SaveOpening`; a save that fails is one that never lands), and `overtaken` is history: such a
save landed on a session saved since. An HTTP request loads the session when
it comes and saves it whole when it is answered (`resave: true`). `visitor[r]` is the
profile the handler of `r` works with. The session cookie exists already, joining a
room does not fail, polls find no messages and retry three times (their answer is
opaque). A tab that reconnects is another socket. The console channel, CORS, typing indicators
and downloads are left out.

### Migration

`status` is the migrations collection, `dbVersion` the metadata document. Each runner is a server or
command: `Boot`, `MigrateAll` and `MigrateOne` fill `todo`, `VerifyStatus` takes the next version in the
order of files' timestamps, `MigrateFile` runs it, `SaveStatus` and `SaveVersion` are the two writes of
`successCallback`. Bodies are opaque: done, failed (`"body"`), or done without a
result (`"silent"`). `executed`, `effect` and `repeated` are history variables.

### BlockGraph

A request of the editor or of an API client is a process that makes the database calls of its handler and of the
repositories' hooks one after the other; `op[r]` is its payload, and the variables of `task` are what it has read. The editor (`draw`, `attach`, `move`)
names what it shows. A client of the API (`patch`, `patchMany`) names any block and any category, those deleted included: only
`create` validates its references, and neither update of blocks does (`block.controller.ts:292-320`). One update writes one `field` (`Change`); an update of several is as many
requests here. `category`, `next` and `attached` are the
blocks collection: `Unused` is an id no block has yet, `Gone` that of a deleted block. `UpdateMany`, `CutNext` and
`CutAttached` are the queries by which a move removes the links that would cross flows. A conversation has a `current`
block and the blocks `ahead`, and its handler holds a copy of the links of the block it runs. `since` and `before` are history: when a
link was cut, and the graph when a request began.

`FlowGraph` is what the editor promises: each request has its whole effect at once, or at worst only loses links. The mapping `View` is
the graph before the request while one is served, and the graph itself otherwise; it is meant for requests that come one after the other.

### ReadThrough

One cached method: `version` counts the writes of the documents, `entry` is the version under the key. A read queries and stores;
a write is made between hooks whose listeners delete the key. The caches of Hexabot differ in how: awaited (permissions, menu, NLP map),
started only (settings), never (languages); `mode.clearing` is which. `overtaken`, `late` and `lost` are history.

### NlpDictionary

`here`, `values` and `notes` are the three collections; `owner[v]` is the entity of a value; `engine` is the set of entities the NLU engine knows. A
request creates an entity or a value, updates a value, annotates a sample, or deletes; its cascade is one action per query. `builtin` holds the
documents marked so: those shipped, and those that a client posts as built in, values by a later update as well; the queries of `BaseRepository` delete
none of them, so a built-in value outlives its entity. The entities a deletion tells the engine of are `todo`, the copies that its `find` returned with
the id they had then. `astray` is history: what was saved while what it refers to was being deleted, the built-in values a deletion left, and the entities
whose deletion read them while they were being created. Failing database calls are left
out: the event emitter swallows the error of a listener, so after one the document is deleted although its cascade stopped, and nothing about
references remains true. Ids and names are not used again, a saved sample has one annotation, and the engine's copy of values is left out, as are the
updates of an entity: a client may write `foreign_id` by hand, and then nothing is claimed of the engine.

### Analytics

The messages of one sender again, this time with the clock: `FindSubscriber`, `CreateSubscriber` and `Visit` are `handleNewMessage`; after the visit
three things are under way at once (`tasks`): saving the visit (`handleLastVisit` of `SubscriberService`), logging and answering the message. Each emits
entries, processes of their own in the bag `entries`: `FindInsight`, `CreateInsight`, `UpdateInsight` are `handleStatEntry`. The clock moves only when
nothing is being handled (thresholds are hours, handlers take milliseconds), and a new day begins with no insights. `visits`, `emitted` and `crossed` are history.

## What is checked

| run | instance | properties |
|---|---|---|
| `bot_overlap` | 3 messages, 2 subscribers, 6 blocks, writes and channel fail | `TypeOK`, `WaitsAtQuestion`, `AnsweredByOneConversation`, `LifecycleSpec` |
| `bot_quiet` | 4 messages one after the other, channel fails | `NoneForgotten`, `OneLiveConversation`, `AttemptWithinBlockLimit`, `CapturesKept`, `FollowsFlow`, `EveryMessageHandled` |
| `match_answers` | pairs of 38 blocks, 44 messages, 2 outcomes | `NamedAnswers`, `BestPredictionAnswers` |
| `subscribers` | 2 messages, chains of 2 blocks: overlapping with take overs, failures, crashes; in sequence with take overs; in sequence with label edits and failures (single blocks) | `OneLabelPerGroup`, `SilentWhileTakenOver`, `GroupsHeld` |
| `web_session` | a tab that sends files and polls, one that leaves and returns over socket and HTTP, both with failing queries; two tabs used in turn; 3 requests each | `RepliesReachSender`, `AcceptedOnceSubscribed`, `OneVisitor`, `HandedInOrder`, `EveryRequestAnswered` |
| `migrations` | 4 versions, one without a file: a booting server that crashes; one whose migrations and saves fail, too; all commands; and two runners of 2 versions with every fault | `RecordedWasExecuted`, `ExecutedOnce`, `NothingSkipped`, `AllMigrated`, `VersionOnlyAdvances` |
| `migration_skipped` | booting server, bodies fail | `RequiredApplied`, violated |
| `block_graph` | 3 blocks, 2 flows, 2 requests, 1 conversation; 3 initial graphs: the editor's requests in sequence with a crash; moves and deletions in sequence with failing calls; unchecked updates of API clients in sequence, of one block or of many; overlapping moves and deletions | `NoDangling`, `CategoryOfBlockExists`, `UsedBlocksStay`, `RefusedLeavesGraph`, `RequestsAtomic` |
| `read_through` | 2 readers, 2 writers, each kind of clearing and store with the faults it can meet | `StaleOnlyIfRaced`, `Freshens` |
| `nlp_dictionary` | 3 entities, one shipped, 1 value, 1 sample, 2 requests: overlapping; a crash; a failing engine | `ReferencesResolve`, `MirrorAgrees` |
| `analytics` | 3 messages, silences of 1, 3 and 8: one by one with all insights; two at once; two at once with failures and crashes | `NeverOvercounted`, `ExactUnlessCrossed`, `PeriodUnbroken`, `ReturnsCounted` |
| `analytics_total` | 1 message and its answer | `TotalValue`, violated |

What they show, by hazard: the conversation engine keeps its promises under stale copies and late ends; a chain of queries
without a transaction (labels, links, cascades, migrations) leaves only the intermediate states the properties describe, also
after a crash; what is decided from a copy (take over, retention, limits of fallbacks, the session's visitor) is decided rightly
in the environments named; what is not awaited (deletions of entries, insights) is applied in the end or lost for a reason that is stated.

Type invariants are proved (below); only that of `Bot` is part of a run, to keep the others within their time.

### Why these bounds

- *Bot.* Three messages are two of one subscriber that race and one of another; the smallest
  catalogue with every kind of block has six: a question with a local fallback, an
  information with an attached question, a plugin with outcomes, another
  entry and a last block. Four messages in sequence exhaust a limit of one local
  fallback: open, fall back, fall back, and the one that must not fall back again.
- *BlockMatch.* The properties compare pairs of blocks, so two blocks suffice; each kind of
  pattern is there, twice where patterns of one kind interact.
- *Subscriber.* Two labels of a group and a free one, two messages that race, chains of two blocks.
- *WebSession.* A subscription, a message after it and one request that interferes.
- *Migration.* The mode with two runners takes two versions because runners multiply the
  states; versions `2.2.9` and `2.2.11` differ as texts and as numbers.
- *BlockGraph.* The modes with API clients are apart from those with failing calls. Two flows and three blocks are a link kept and a link cut by the same move; the three graphs have a fan, a cycle, an
  attached block and an unused id. Two requests overlap in every way with each other and with the handler of one conversation.
- *ReadThrough.* A stale entry takes a read and a write; a second of each replaces or deletes what the first left.
- *NlpDictionary.* A deletion, and something that begins to refer to what is deleted.
- *Analytics.* A first message, and two that come after a silence at once with the same copy. The silences fall below, between and above the
  thresholds, which keep the order of those of `config/index.ts:206`. `EntryLimit` (3) bounds the entries handled at once: more messages wait.
  Insights of different names do not interact, so modes with overlap follow one or two names.

Environments without overlap are a bound on the environment, not on the code: the sender (in `WebSession` the browser, in `BlockGraph` the
editor) waits until the last message or request is handled. The properties that need it say so; otherwise they are false, see below.

`CHECK_DEADLOCK FALSE` appears where the finite supply of messages or requests is used
up at the end of every behaviour. A migration run never ends the system, so that
run checks deadlock.

### Fairness

Weak fairness of each handler's steps: Node resumes an `await` that settled and fires a timer,
and a call that neither succeeds nor fails is not modelled. Nothing obliges
senders to send, operators to act, or the server to crash. `Migration!RestartSpec` adds that a
server that stopped is started again, by the operator or the container's
restart policy. `FairCacheSpec` of `ReadThrough` adds that entries expire: their time to live (`CACHE_TTL`, `config/index.ts:155-158`) is set when they
are stored and not renewed by reads. `BlockGraph`, `NlpDictionary`, `Subscriber` and `Analytics` state safety only and need none. A mutex (`async-mutex`) serves its callers in the order they came.

`EveryMessageHandled` needs chains of attached and system blocks that are finite, as the catalogue's are:
the engine recurses through attached blocks and outcomes without a limit.

## What is proved

The theorems hold for every value of the constants that satisfies the named
assumption of the module (`CatalogueAssumption`, `MatchAssumption`, `LabelsAssumption`, `WebAssumption`, `FilesAssumption`, `FlowAssumption`, `CacheAssumption`,
`DictionaryAssumption`, `AnalyticsAssumption`) and whatever a theorem assumes besides: any catalogue of
blocks, number of messages, runners, requests or labels, any environment in `Modes`, any interleaving, any fault.

- **`TypeCorrect`** (seven modules, `CacheTypeCorrect` for `ReadThrough`). In `Bot` the type invariant is not inductive alone: a
  handler uses the conversation and the block it has, and `Located` says where it has
  one. `Migration` needs the same of the version a runner runs, `BlockGraph` of the request a handler serves (`ServedOps`),
  `NlpDictionary` of the value a request is about (`HasValue`).
- **`FallbacksBounded`**: `AttemptBounded`, which no run checks: only four overlapping messages of one subscriber could break it, and with failing
  writes their states are too many for a run (without failures TLC finds it to hold, and violated when the limit is not looked at). Handlers write counters from stale copies, so the invariant
  `Bounded` bounds every copy, and more tightly the copies from which a
  local fallback is attempted. Whatever order writes come in, the
  largest is one more than a copy within the limit.
- **`ConversationsWaitAtQuestions`**: `WaitsAtQuestion`. `Asking` says of every
  copy what the property says of documents, and that a local fallback runs
  the block at which its copy waits: this is why writing the copy's next blocks is right.
- **`OneConversationAnswers`**: `AnsweredByOneConversation`. `Replied`: nothing is sent
  before a block is triggered and, once one was, the handler never returns to
  the search of an entry block.
- **`EngineImplementsLifecycle`**: `Bot` implements `ConversationLifecycle`. `Living`: handlers work on
  conversations that exist, and a message that has not opened its conversation yet
  finds it absent, so it is opened once. `LifeStep` classifies what a step does to
  one document (`Unseen`, `Opens`, `Asks`, `Closes`) and `LifeStepRefines` maps each to a
  step of the life cycle or a stutter.
- **`ConversationsRemembered`**: `NoneForgotten`, when no write fails (`"db" \notin Faults`), also when messages overlap.
  `Opening`: a live conversation without a block is one whose opening message is about to give it one.
- **`FallbacksWithinBlockLimit`**, **`NothingCapturedIsLost`**, **`ConversationsFollowTheFlow`**: `AttemptWithinBlockLimit`, `CapturesKept` and
  `FollowsFlow`, for senders who wait for the bot (`~Overlap`), whichever calls fail. (The run has no failing writes, for its other
  properties need that; with `"db"` in `Faults` and three messages TLC finds these three to hold, too.) One invariant, `QuietInv`, carries the three.
  `Solo`: one message of a sender is handled at a time, its handler's copy equals the stored conversation, and before it searches one every end is applied
  or given up. `Fresh`: a conversation that does not exist holds nothing. `Walking`: the block a handler runs
  is one the flow leads to from where its copy waits, its counter at zero, or that block again, within the block's limit of fallbacks.
  That a context is stored as a whole is then harmless: the copy is never old. When messages of one sender overlap, TLC finds all three violated:
  `FollowsFlow` when a late local fallback writes its question back over a question from which the flow does not return to it.
- **`OneConversationLives`**: `OneLiveConversation`, for senders who wait and writes that do not fail (`~Overlap`, `"db" \notin Faults`); TLC finds
  it violated when either is dropped. `Lone`, inductive together with `QuietInv`: at most one conversation of a sender is live, and none
  where a handler looks for an entry block.
- **`NewerIsStrictOrder`**: `isNewerVersion` is a strict total order.
- **`RecordsAreTrue`**: `RecordedWasExecuted`, by `Honest`: what a runner is about to save it did.
- **`NothingTwice`**: `ExecutedOnce`, whose premise is one runner, no failing save, and bodies that return true or throw; `Recorded` ties
  the records to the last work done, but for the version being saved.
- **`BootOnlyAdvances`**: `VersionOnlyAdvances` for one server whose files are in the order of
  their versions, under every fault; `Ahead`: all that is still to run is newer than what runs.
- **`BootSkipsNothing`**: `NothingSkipped` under crashes; `Covered`: a version newer than
  `db-version` is up or still to be run.
- **`LabelsExclude`**: `OneLabelPerGroup` when messages do not overlap, operators leave labels
  alone and blocks assign one label of a group. `Current`: the handler's copy
  of the labels is the document's, except between the two writes.
- **`GroupsStayHeld`**: `GroupsHeld`, also for overlapping messages and failures, when operators leave labels alone. `Replacing`: each label a handler is
  about to remove has one of its group among those it adds, so that what the first write empties the second fills (`HeldStep`).
- **`TakeoverSilences`**: `SilentWhileTakenOver` for a sender whose only subscriber is the
  one of the web session, under every interleaving, edit and fault.
- **`MutexKeepsOrder`**: `HandedInOrder`, for every browser. `InTurn`: what is handled of a socket is the head of its queue, and `Sent` and `Queued` keep the
  queue in the order of sending, so whatever has been handed in is older than what waits (`Handing`).
- **`TabsShareVisitor`** and **`SubscribersAccepted`**: `OneVisitor` and `AcceptedOnceSubscribed`, for browsers all of whose uses without overlap are `Calm`: tabs subscribe
  over sockets and do not leave, and queries do not fail. TLC finds a counterexample when any part of `Calm` is dropped: a visitor who
  leaves is another one when back, requests over HTTP that overlap or a session that is not saved make two visitors, and a socket is refused the session
  that HTTP opened. `Steady`: the stored session, the copies of requests at work and the sockets' copies are of one visitor, unless nothing has been saved
  yet and the only request that could make a visitor is the one at work (`Alone`, `Joined`). Both properties are stated of behaviours where no save of what a socket
  opened with lands on a later one (`~overtaken`); otherwise TLC finds them violated by one tab.
- **`RepliesReachTab`**: `RepliesReachSender`, for browsers each of whose uses is `Calm` or has one tab (`OneTab`). Of a lone tab nothing else is asked, not even that
  queries succeed or that the save of what it opened with is in time: `Addressed`, what it sends is attributed to a visitor in whose room it is. With two tabs a visitor may change under the one that
  subscribed first, hence `Calm`. The uses of the run meet both hypotheses.
- **`UsedBlocksAlwaysStay`**: `UsedBlocksStay`, by `CheckedFree`: what a request that has made its check is about to delete was
  free when it looked, and nothing but a walking conversation uses it since.
- **`NeverDangling`**, **`CategoriesOutliveBlocks`**, **`RefusalsChangeNothing`**: the properties of requests in sequence, from `Sequential`: one request
  is served at a time (`Alone`), what it has found and copied is still so when it writes (`FoundStill`, `CopiesStill`), what the editor or a creation
  names exists (`AsksForExisting`), and it has not written before it may be refused (`NothingWritten`). The first two say of every step that a link which
  dangles after it, or a block without its category, did so before or is named by the unchecked update that the step is of.
- **`RequestsAreAtomic`**: `BlockGraph` implements `FlowGraph` for requests in sequence when updates do not fail. `InStages`: the
  graph before a request is well drawn, and between two queries the graph is that one with a known part of the effect, stage by stage; the last stage is a step of
  `FlowGraph`, every other is a stutter under `View`.
- **`NamedBlocksAnswer`**: `NamedAnswers`. `MatchInv`: blocks are created once, so a list of matches is as long as the set of blocks that match, and
  whether "several match" is a question about that set. A filter keeps what it should, once and in order (`OnlyKeeps`: the positions it keeps
  increase); the sort by labels returns the same blocks, those with more labels first (`PrioritizedFacts`); the first match then has the most labels.
- **`BestPredictionWins`**: `BestPredictionAnswers`. The entities that match() scores are the known ones of the prediction in their order (`Scored`), so the first
  that matches a pattern is the same one (`FirstFound`), the sums are the same (`ScoreIsTotal`), the score of a block is 0 or the largest total of
  its matching lists (`ScoreOfBlock`), and the fold over the blocks ends at one of the highest score (`BestOf`).
- **`OnlyRacesAreStale`**: `StaleOnlyIfRaced` for any number of readers and writers; what a reader has queried is the version of the documents
  unless a deletion overtook it or is outstanding.
- **`ReferencesAlwaysResolve`**: `ReferencesResolve`, by the order of the queries of a cascade: whoever refers to a deleted entity or value is removed
  before it, or began to refer to it meanwhile, or is a built-in value (`astray`). Nothing is said of samples, which have no existence of their own in the
  model, nor of the values of annotations if the server may crash.
- **`EngineKeptInStep`**: `MirrorAgrees`, however requests overlap and whatever calls of the engine fail, if the server does not crash. `EngineInv`: an entity that has an id of the engine is known there unless its
  deletion is past telling the engine (`Mirrored`), and if the engine never failed it knows exactly the entities stored here, but for those whose creation
  has not got to it and those whose deletion has (`Exactly`). `Registered` and `Requested` say which requests those are; when all are answered there are none. `Recorded`: an
  entity that a deletion found while it was being created, without an id yet, is `astray`.
- **`RetentionsUnbroken`**: `PeriodUnbroken`. `Kept` says the same of every copy a handler has, whatever document it will overwrite: what is saved from an unbroken copy is
  unbroken, for the visit itself is in `visits`, and time stands while a visit is being saved.
- **`ReturnsAlwaysCounted`**: `ReturnsCounted`. A copy is never newer than the last visit (`Dated`), so a silence is seen at least as long as it was; and messages handled one by
  one find what the one before has saved (`OneByOne`), so it is seen no longer.
- **`NothingOvercounted`**: `NeverOvercounted`. That sum is not inductive: an entry that saw less may be written later, and the value goes down while the
  entries counted do not. So each document is given a peak, over its value and over what any entry has seen of it; a write raises the peak by
  one at most and ends one entry, so peaks and entries underway together stay within what was emitted (`Peaks`).
- **`UncrossedExact`**: `ExactUnlessCrossed`. The only entry of a name has seen what its only document holds (`OneEntry`).

The last two are about sums of any length: `FoldSeq` over the values of documents, `MapThenSumSet` over a bag of entries; those about `BlockMatch` are about
folds over sequences of any length. The library's induction theorems
take an operator and cannot be used, so `AnalyticsProofs` and `BlockMatchProofs` start with induction over sets instead (`Counting`: a set that holds 0 and successors holds all numbers, from the
well-foundedness of `<`; `Collecting`: a family that holds the empty set and grows by elements holds a finite set). From these follow that the function the
folds choose exists (`FoldExists`), that any element may be taken out first (`FoldRemoves`), and how a sum changes with its terms (`SumSplits`, `SumGrows`,
`SumChanges`); in `BlockMatchProofs`, what a fold from left to right is worth after each prefix (`OnlySteps`, `FlattenSteps`, `BestSteps`).
In `AnalyticsProofs`, `Change` then classifies what a step does to the entries and insights of one name, and `CountsChange` shows that every step is of these kinds.

Every invariant and action property of a passing run is stated by a theorem. Only model-checked: the liveness properties, which are out of the prover's reach.

## What the code does that one would not expect

Checked, as a run that is violated:

- **A migration that fails is skipped for good** (`migration_skipped`). `runUpgrades` ignores the result of
  `runOne` (`migration.service.ts:337`) and goes on; the next success sets `db-version` past
  the failure, and no boot tries it again.

- **Insights lose counts** (`analytics_total`). `handleStatEntry` writes the value it has seen, and one more (`bot-stats.service.ts:123`). A message and its
  answer each emit "All Messages", so one message with a slow query is enough; entries of a new day may each create the insight. The schema
  calls it "Total value of the insight" (`bot-stats.schema.ts:55`). `NeverOvercounted` and `ExactUnlessCrossed` are what holds.

Met while modelling, and the reason why properties are stated as they are:

- A migration written as the README's example (`migration/README.md:88`) returns nothing; only a truthy
  result is recorded (`migration.service.ts:262`), so it runs at every boot.
- Rolling a version back stores it as the `db-version` too (`migration.service.ts:530`).
- Two messages of one sender handled at once can open two conversations, and leave the sender with two
  labels of a group (`subscriber.service.ts:208` looks at the copy in the event), where `label.schema.ts:45` says
  "only one allowed at a time".
- `updateLabels`, "atomically" by its comment (`subscriber.repository.ts:205`), is two writes: in
  between, or for good if the second fails, the group is empty. `GroupsHeld` is what holds.
- Of two blocks equally matched by a payload the oldest answers; the comments (`block.service.ts:188`, `199-200`) say
  the most recent, but blocks are read in ascending order (`base-repository.ts:452`).
- The guard "Can only request polling once at a time" (`base-web-channel.ts:559`) is a flag in a copy
  of the session that no other request sees while it is set. Retries wait 1, 2 and 4 seconds.
- `_handleEvent` does not wait for its asynchronous callback (`base-web-channel.ts:807`): a message can
  overtake the file sent before it, in spite of the mutex of the socket. `HandedInOrder` is stated of messages without files.
- The save of the session with which a socket opens is not awaited (`websocket.gateway.ts:229`): if it lands after that of the first subscription it erases
  the visitor. The next message is then refused and the next subscription creates a second visitor, in one tab that waits for every answer.
- Two tabs that subscribe at once create two visitors, and the session keeps the last one saved.
- A block with `max_attempts = n` is repeated `n + 1` times (`attempt <= maxAttempts`, `bot.service.ts:348`); a test pins this down.
- An update of one block that changes its category does not cut its links, whatever the comment says: `updateMany` wraps the `$pull` and the `$set` of the
  hook in a `$set`. A bulk move of blocks looks at the category of the first only, and a block that has both an
  attached block and next blocks keeps links across flows. Overlapping requests can leave dangling links.
- `PATCH` of one block or of many checks none of its references (`block.controller.ts:292-320`), so one request alone may link to a deleted block or put a
  block in a deleted category; `POST` checks them all.
- Whether a block is used is checked before its deletion, and a conversation may reach it in between (`block.repository.ts:344`).
- The listeners of updates of NLP entities and values take a query and an update, but are called with the updated
  document only, so updates do not reach the NLU engine (`nlp.service.ts:101`).
- Errors of listeners are swallowed by the event emitter: when a call of a cascade fails, the entity is deleted nevertheless. A value is found by its
  text only, so an annotation may hold another entity's value. A bulk deletion that includes a built-in entity removes its values and
  annotations though the entity stays. The values of an entity are removed before its annotations.
- A value that a client marked as built in stays when its entity is deleted, with one request at a time: `deleteMany` skips it (`base-repository.ts:810`).
- An entity deleted while its creation is storing the engine's id stays in the engine: the deletion uses the copy it found before
  (`nlp.service.ts:140-149`).
- With Redis the cached map of NLP entities, a JavaScript `Map`, is serialised as `{}`. Languages are cached and never deleted from the cache.
- A sender is counted as retained from the copy read before the visit: after a long silence the visit still counts ("Retentioned users"), and only
  then the retention begins anew (`bot-stats.service.ts:90`, `subscriber.service.ts:310`). A visit whose save fails makes the next silence look longer.
- Delivery and read events are ignored by default (`config/index.ts:147`), and the web channel's watermark is divided by 1000 (`wrapper.ts:314`).
- A reply is broadcast before it is logged, and a tab that subscribes replaces its messages by the history: a reply sent meanwhile may be in neither.

## What is not modelled

- The message log and its listeners (echo, sent, delivery, read). Each is one query by message id, and its effect is a flag.
- Updates of a block that clear its category. Updates of NLP entities, of the text of values and samples, training, and the languages' default; the settings' values; the avatar of a subscriber; deletion of labels.
- Users, roles and tokens: the guard is a lookup, the tokens are signed and stateless. Contents and menu: cascades like those of NLP,
  without listeners that call out.
- Message contents: templates, envelopes, attachments, languages. No property of the flow depends on them.
- Other channels than web; their messages reach the same engine.
- Registries, mail, storage, the admin and the widget: input, output and rendering. They, the data transfer objects, the bodies of the migrations and the
  React code are most of the repository's lines, which is why the modules stand for a small share of them: what has state that
  interleaves is some forty files of `src/api`.

## Plan

1. Written: the modules above and their proofs.
2. `MessageLog`: messages found or created by id, operators' messages, history and the tab that reads it while replies are broadcast; an abstract
   specification of a message's life (sent, delivered, read).
3. Deletion of labels in `Subscriber`; `isDefault` of languages in two writes; cascades of contents and menu.
4. Token life cycles of invitations and resets.
