------------------------------ MODULE WebSession ------------------------------
(***************************************************************************)
(* The web channel: BaseWebChannelHandler serves the requests of a visitor *)
(* that come over sockets, dispatched by SocketEventDispatcherService, and *)
(* over HTTP.  All of them share one session.                              *)
(*                                                                         *)
(* The session is a document.  An HTTP request loads a copy of its own and *)
(* saves it whole when it is answered (resave); a socket has one copy that *)
(* each of its requests reloads and saves, one request after the other.    *)
(* Requests are numbered in the order in which they are sent, and the      *)
(* visitor is a subscriber named after the request that created it.  The   *)
(* browser has the session's cookie already; a tab that reconnects is      *)
(* another socket.                                                         *)
(***************************************************************************)
EXTENDS Naturals, Sequences, FiniteSets

CONSTANTS
  ReqLimit,      \* a bound on the requests of a browser
  Sockets, Http, \* the connections: sockets, and HTTP
  NoWeb,         \* session.web is undefined
  Uses           \* the browsers considered; of each,
                 \* requests: how many it sends at most; sockets: those it opens;
                 \* socket, http: what it requests over a socket, over HTTP;
                 \* overlap: whether several connections are used at a time;
                 \* faults: "db" (a query fails)

Reqs == 1 .. ReqLimit

NoVisitor == 0

Kinds == {"subscribe", "message", "file", "poll", "leave"}

Web == [visitor : Reqs, isSocket : BOOLEAN, polling : BOOLEAN]

ASSUME WebAssumption ==
  /\ ReqLimit \in Nat
  /\ Http \notin Sockets
  /\ Reqs \cap Sockets = {}
  /\ NoWeb \notin Web
  /\ Uses \subseteq [requests : 0 .. ReqLimit, sockets : SUBSET Sockets,
                     socket : SUBSET (Kinds \ {"poll"}), http : SUBSET Kinds,
                     overlap : BOOLEAN, faults : SUBSET {"db"}]

VARIABLES
  use,       \* the browser of this behaviour, which never changes
  store,     \* the document: session.web, or NoWeb
  opening,   \* the sessions being saved that sockets had when they opened
  overtaken, \* history: one of them landed on a session saved since it was loaded
  copy,      \* copy[c]: session.web as socket c, or HTTP request c, has it
  state,     \* state[s]: "closed", "loaded" (its session), "open"
  greeted,   \* sockets whose connection has been handled
  room,      \* room[s]: the visitors whose messages socket s gets
  queue,     \* queue[s]: the mutex of s, the first request holds it
  pc, kind, conn, \* pc[r], kind[r], conn[r]: progress, kind, connection
  visitor,   \* visitor[r]: the profile the handler of r works with
  answer,    \* answer[r]: "none", "ok" or "refused"
  tries,     \* tries[r]: how often a poll found nothing
  uploads,   \* the messages whose file is being stored
  handed     \* history: messages in the order the bot got them

opens == <<opening, overtaken>>
session == <<use, opens, store, copy>>
sockets == <<state, greeted, room, queue>>
requests == <<kind, conn, visitor, answer, tries, uploads, handed>>
vars == <<session, sockets, pc, requests>>

-----------------------------------------------------------------------------

Init ==
  /\ use \in Uses
  /\ store = NoWeb
  /\ opening = {}
  /\ overtaken = FALSE
  /\ copy = [c \in Reqs \cup Sockets |-> NoWeb]
  /\ state = [s \in Sockets |-> "closed"]
  /\ greeted = {}
  /\ room = [s \in Sockets |-> {}]
  /\ queue = [s \in Sockets |-> <<>>]
  /\ pc = [r \in Reqs |-> "idle"]
  /\ kind = [r \in Reqs |-> "message"]
  /\ conn = [r \in Reqs |-> Http]
  /\ visitor = [r \in Reqs |-> NoVisitor]
  /\ answer = [r \in Reqs |-> "none"]
  /\ tries = [r \in Reqs |-> 0]
  /\ uploads = {}
  /\ handed = <<>>

IsSocket(r) == conn[r] # Http

\* req.session.web, for the request of a socket that of the socket.
Own(r) == IF IsSocket(r) THEN conn[r] ELSE r
Session(r) == copy[Own(r)]

At(r, l) == pc[r] = l
Goto(r, l) == pc' = [pc EXCEPT ![r] = l]

Pending(r) == pc[r] \notin {"idle", "done"} \/ r \in uploads

\* No connection but c is being set up or used.
OnlyUses(c) ==
  /\ \A r \in Reqs : Pending(r) => conn[r] = c
  /\ \A s \in Sockets \ {c} : state[s] # "loaded"

\* The request is answered; the session will be saved.
Answer(r, a) ==
  /\ answer' = [answer EXCEPT ![r] = a]
  /\ Goto(r, "save")

-----------------------------------------------------------------------------
(* Connections.                                                            *)

LoadSession(s) ==
  /\ state[s] = "closed"
  /\ s \in use.sockets
  /\ use.overlap \/ OnlyUses(s)
  /\ state' = [state EXCEPT ![s] = "loaded"]
  /\ copy' = [copy EXCEPT ![s] = store]
  /\ UNCHANGED <<use, opens, store, greeted, room, queue, pc, requests>>

\* The session is marked anonymous.  Nobody waits for it to be saved: the save
\* of what the socket has loaded may land later than saves that start after it.
\* One that fails, which is but logged, is one that never lands.
OpenSocket(s) ==
  /\ state[s] = "loaded"
  /\ state' = [state EXCEPT ![s] = "open"]
  /\ opening' = opening \cup {<<s, copy[s]>>}
  /\ UNCHANGED <<use, overtaken, store, copy, greeted, room, queue, pc, requests>>

SaveOpening(o) ==
  /\ opening' = opening \ {o}
  /\ store' = o[2]
  /\ overtaken' = (overtaken \/ store # o[2])
  /\ UNCHANGED <<use, copy, sockets, pc, requests>>

\* The listener of 'hook:websocket:connection'.
Greet(s) ==
  /\ state[s] = "open"
  /\ s \notin greeted
  /\ greeted' = greeted \cup {s}
  /\ room' = [room EXCEPT ![s] = @ \cup (IF copy[s] = NoWeb THEN {} ELSE {copy[s].visitor})]
  /\ UNCHANGED <<session, state, queue, pc, requests>>

-----------------------------------------------------------------------------
(* The dispatcher, and the session of HTTP requests.                       *)

SendRequest(r, k, c) ==
  /\ At(r, "idle")
  /\ r <= use.requests
  /\ \A q \in 1 .. r - 1 : ~At(q, "idle")
  /\ use.overlap \/ OnlyUses(c)
  /\ kind' = [kind EXCEPT ![r] = k]
  /\ conn' = [conn EXCEPT ![r] = c]
  /\ IF c = Http
     THEN /\ copy' = [copy EXCEPT ![r] = store]
          /\ Goto(r, "handle")
          /\ UNCHANGED queue
     ELSE /\ state[c] = "open"
          /\ queue' = [queue EXCEPT ![c] = Append(@, r)]
          /\ Goto(r, "queued")
          /\ UNCHANGED copy
  /\ UNCHANGED <<use, opens, store, state, greeted, room, visitor, answer, tries, uploads, handed>>

Holds_Always(r) == TRUE
Holds(r) == r = Head(queue[conn[r]])

\* The mutex is acquired and the session reloaded, or the request refused.
ReloadSession_Not(r) ==
  /\ At(r, "queued")
  /\ Holds(r)
  /\ Goto(r, "handle")
  /\ UNCHANGED <<session, sockets, requests>>
ReloadSession(r) ==
  /\ At(r, "queued")
  /\ Holds(r)
  /\ \/ /\ copy' = [copy EXCEPT ![conn[r]] = store]
        /\ Goto(r, "handle")
        /\ UNCHANGED <<queue, answer>>
     \/ /\ "db" \in use.faults
        /\ answer' = [answer EXCEPT ![r] = "refused"]
        /\ queue' = [queue EXCEPT ![conn[r]] = Tail(@)]
        /\ Goto(r, "done")
        /\ UNCHANGED copy
  /\ UNCHANGED <<use, opens, store, state, greeted, room, kind, conn, visitor, tries, uploads, handed>>

\* The session is saved when an HTTP request is answered; after the handler of
\* a socket's request has returned, with or without success, and then the
\* mutex is released.
SaveSession_Unsaved(r) ==
  /\ At(r, "save")
  /\ IF IsSocket(r) THEN queue' = [queue EXCEPT ![conn[r]] = Tail(@)]
                    ELSE UNCHANGED queue
  /\ Goto(r, "done")
  /\ UNCHANGED <<session, state, greeted, room, requests>>
SaveSession_Keep(r) ==
  /\ At(r, "save")
  /\ store' = Session(r)
  /\ Goto(r, "done")
  /\ UNCHANGED <<use, opens, copy, sockets, requests>>
SaveSession(r) ==
  /\ At(r, "save")
  /\ \/ store' = Session(r)
     \/ "db" \in use.faults /\ UNCHANGED store
  /\ IF IsSocket(r) THEN queue' = [queue EXCEPT ![conn[r]] = Tail(@)]
                    ELSE UNCHANGED queue
  /\ Goto(r, "done")
  /\ UNCHANGED <<use, opens, copy, state, greeted, room, requests>>

-----------------------------------------------------------------------------
(* subscribe() and _disconnect.                                            *)

\* getOrCreateSession finds the subscriber of the session, or creates one.
Subscribe(r) ==
  /\ At(r, "handle") /\ kind[r] = "subscribe"
  /\ \/ /\ Session(r) # NoWeb
        /\ visitor' = [visitor EXCEPT ![r] = Session(r).visitor]
        /\ Goto(r, "join")
        /\ UNCHANGED answer
     \/ /\ Session(r) = NoWeb
        /\ Goto(r, "create")
        /\ UNCHANGED <<visitor, answer>>
     \/ "db" \in use.faults /\ Answer(r, "refused") /\ UNCHANGED visitor
  /\ UNCHANGED <<session, sockets, kind, conn, tries, uploads, handed>>

CreateVisitor(r) ==
  /\ At(r, "create")
  /\ \/ /\ visitor' = [visitor EXCEPT ![r] = r]
        /\ copy' = [copy EXCEPT ![Own(r)] =
                      [visitor |-> r, isSocket |-> IsSocket(r), polling |-> FALSE]]
        /\ Goto(r, "join")
        /\ UNCHANGED answer
     \/ "db" \in use.faults /\ Answer(r, "refused") /\ UNCHANGED <<visitor, copy>>
  /\ UNCHANGED <<use, opens, store, sockets, kind, conn, tries, uploads, handed>>

\* A socket joins the room of the visitor; then the history is fetched.
JoinRoom(r) ==
  /\ At(r, "join")
  /\ IF IsSocket(r) THEN room' = [room EXCEPT ![conn[r]] = @ \cup {visitor[r]}]
                    ELSE UNCHANGED room
  /\ \/ Answer(r, "ok")
     \/ "db" \in use.faults /\ Answer(r, "refused")
  /\ UNCHANGED <<session, state, greeted, queue, kind, conn, visitor, tries,
                 uploads, handed>>

Leave(r) ==
  /\ At(r, "handle") /\ kind[r] = "leave"
  /\ copy' = [copy EXCEPT ![Own(r)] = NoWeb]
  /\ Answer(r, "ok")
  /\ UNCHANGED <<use, opens, store, sockets, kind, conn, visitor, tries, uploads, handed>>

-----------------------------------------------------------------------------
(* _handleEvent.                                                           *)

\* validateSession; a socket is refused a session that HTTP opened, not the
\* other way round.
Valid(r) == Session(r) # NoWeb /\ (IsSocket(r) => Session(r).isSocket)

RefuseMessage(r) ==
  /\ At(r, "handle") /\ kind[r] \in {"message", "file"}
  /\ ~Valid(r)
  /\ Answer(r, "refused")
  /\ UNCHANGED <<session, sockets, kind, conn, visitor, tries, uploads, handed>>

HandleMessage(r) ==
  /\ At(r, "handle") /\ kind[r] = "message"
  /\ Valid(r)
  /\ visitor' = [visitor EXCEPT ![r] = Session(r).visitor]
  /\ handed' = Append(handed, r)
  /\ Answer(r, "ok")
  /\ UNCHANGED <<session, sockets, kind, conn, tries, uploads>>

\* Nobody waits for the upload but the response: the handler of a socket's
\* request returns.
HandleFile(r) ==
  /\ At(r, "handle") /\ kind[r] = "file"
  /\ Valid(r)
  /\ visitor' = [visitor EXCEPT ![r] = Session(r).visitor]
  /\ uploads' = uploads \cup {r}
  /\ Goto(r, IF IsSocket(r) THEN "save" ELSE "upload")
  /\ UNCHANGED <<session, sockets, kind, conn, answer, tries, handed>>

StoreFile(r) ==
  /\ r \in uploads
  /\ uploads' = uploads \ {r}
  /\ \/ handed' = Append(handed, r) /\ answer' = [answer EXCEPT ![r] = "ok"]
     \/ /\ "db" \in use.faults
        /\ answer' = [answer EXCEPT ![r] = "refused"]
        /\ UNCHANGED handed
  /\ pc' = IF IsSocket(r) THEN pc ELSE [pc EXCEPT ![r] = "save"]
  /\ UNCHANGED <<session, sockets, kind, conn, visitor, tries>>

-----------------------------------------------------------------------------
(* getMessageQueue, the long polling.                                      *)

TryLimit == 3

StartPoll(r) ==
  /\ At(r, "handle") /\ kind[r] = "poll"
  /\ IF Session(r) # NoWeb /\ ~Session(r).polling
     THEN /\ copy' = [copy EXCEPT ![r].polling = TRUE]
          /\ Goto(r, "poll")
          /\ UNCHANGED answer
     ELSE Answer(r, "refused") /\ UNCHANGED copy
  /\ UNCHANGED <<use, opens, store, sockets, kind, conn, visitor, tries, uploads, handed>>

\* There are no messages: it tries again later, three times at most.
RetryPoll(r) ==
  /\ At(r, "poll")
  /\ tries[r] < TryLimit
  /\ tries' = [tries EXCEPT ![r] = @ + 1]
  /\ UNCHANGED <<session, sockets, pc, kind, conn, visitor, answer, uploads, handed>>

EndPoll(r) ==
  /\ At(r, "poll")
  /\ copy' = [copy EXCEPT ![r].polling = FALSE]
  /\ \/ Answer(r, "ok")
     \/ "db" \in use.faults /\ Answer(r, "refused")
  /\ UNCHANGED <<use, opens, store, sockets, kind, conn, visitor, tries, uploads, handed>>

-----------------------------------------------------------------------------

RequestStep(r) ==
  \/ ReloadSession(r) \/ SaveSession(r)
  \/ Subscribe(r) \/ CreateVisitor(r) \/ JoinRoom(r) \/ Leave(r)
  \/ RefuseMessage(r) \/ HandleMessage(r) \/ HandleFile(r) \/ StoreFile(r)
  \/ StartPoll(r) \/ RetryPoll(r) \/ EndPoll(r)

Next ==
  \/ \E s \in Sockets : LoadSession(s) \/ OpenSocket(s) \/ Greet(s)
  \/ \E o \in opening : SaveOpening(o)
  \/ \E r \in Reqs :
       \/ \E k \in use.http : SendRequest(r, k, Http)
       \/ \E k \in use.socket, s \in Sockets : SendRequest(r, k, s)
       \/ RequestStep(r)

Spec == Init /\ [][Next]_vars

\* Node resumes every awaited call that settles, and every timer.
FairSpec == Spec /\ \A r \in Reqs : WF_vars(RequestStep(r))

-----------------------------------------------------------------------------
(* Properties.                                                             *)

TypeOK ==
  /\ use \in Uses
  /\ store \in Web \cup {NoWeb}
  /\ opening \in SUBSET (Sockets \X (Web \cup {NoWeb}))
  /\ overtaken \in BOOLEAN
  /\ copy \in [Reqs \cup Sockets -> Web \cup {NoWeb}]
  /\ state \in [Sockets -> {"closed", "loaded", "open"}]
  /\ greeted \in SUBSET Sockets
  /\ room \in [Sockets -> SUBSET Reqs]
  /\ queue \in [Sockets -> Seq(Reqs)]
  /\ pc \in [Reqs -> {"idle", "queued", "handle", "create", "join", "upload",
                      "poll", "save", "done"}]
  /\ kind \in [Reqs -> Kinds]
  /\ conn \in [Reqs -> Sockets \cup {Http}]
  /\ visitor \in [Reqs -> Reqs \cup {NoVisitor}]
  /\ answer \in [Reqs -> {"none", "ok", "refused"}]
  /\ tries \in [Reqs -> 0 .. TryLimit]
  /\ uploads \in SUBSET Reqs
  /\ handed \in Seq(Reqs)

Before(q, r, seq) == \E i, j \in DOMAIN seq : i < j /\ seq[i] = q /\ seq[j] = r

\* q and r were sent over one socket, in that order.
Precedes(q, r) == q < r /\ IsSocket(r) /\ conn[q] = conn[r]

Handed(r) == \E i \in DOMAIN handed : handed[i] = r

\* A browser with one tab, whatever else it does.
OneTab(u) == \A s, t \in u.sockets : s = t

\* The bot's replies reach the tab that subscribed before it sent the message:
\* the message is not attributed to a visitor whose room the socket is not, or
\* not yet, in.  True of one tab, whatever is requested over HTTP meanwhile and
\* however late the session is saved that it opened with; of several, unless such
\* a save undoes a later one.
RepliesReachSender ==
  OneTab(use) \/ ~overtaken => \A q, r \in Reqs :
    Precedes(q, r) /\ kind[q] = "subscribe" /\ answer[q] # "refused" /\ Handed(r) =>
      visitor[r] \in room[conn[r]]

\* A message that follows a subscription over its socket is not refused, even
\* if nobody waits for the answer to the subscription.  True of several tabs
\* used one after the other, as long as they stay, nothing fails, sessions are
\* opened over sockets (Calm in WebSessionProofs), and the save of a session that
\* a socket opened with does not land after those of its requests: that may
\* happen to one tab that subscribes as soon as it is connected, and undoes the
\* subscription.
AcceptedOnceSubscribed ==
  ~use.overlap /\ ~overtaken => \A q, r \in Reqs :
    Precedes(q, r) /\ kind[q] = "subscribe" /\ answer[q] # "refused" =>
      ~(kind[r] = "message" /\ answer[r] = "refused")

\* However often tabs subscribe, one after the other, the session has one
\* visitor (getOrCreateSession).  True under the same conditions.
OneVisitor ==
  ~use.overlap /\ ~overtaken => \A q, r \in Reqs :
    visitor[q] # NoVisitor /\ visitor[r] # NoVisitor => visitor[q] = visitor[r]

\* The messages of one socket reach the bot in the order they were sent:
\* "Prevent racing conditions from the same socket" (handleEvent).  Not true of
\* files, for whose upload the mutex does not wait.
HandedInOrder ==
  "file" \notin use.socket =>
    \A q, r \in Reqs : Precedes(q, r) => ~Before(r, q, handed)

\* Every request is answered, and holds its socket's mutex no longer.
EveryRequestAnswered ==
  \A r \in Reqs : pc[r] # "idle" ~> At(r, "done") /\ answer[r] # "none"

=============================================================================
