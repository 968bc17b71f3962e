-------------------------- MODULE WebSessionProofs --------------------------
(***************************************************************************)
(* Proofs about WebSession, for any number of tabs, of requests and of     *)
(* browsers to choose from: the mutex of a socket takes its requests in    *)
(* turn, who subscribed is in the room, and the copies of the session stay *)
(* in step with the stored one as long as one connection is used at a      *)
(* time.  The invariant holds of every browser; what needs a calm one is   *)
(* conditional on it.                                                      *)
(***************************************************************************)
EXTENDS WebSession, TLAPS

-----------------------------------------------------------------------------
(* The invariant.                                                          *)

Working == {"handle", "create", "join", "upload", "poll", "save"}

\* What the browser requests over the connection of r.
Asked(r) == IF IsSocket(r) THEN use.socket ELSE use.http

\* A request is handled by the handler of its kind, over the connection it needs,
\* and what the next step of its handler reads is there.
Served ==
  /\ \A s \in Sockets : state[s] # "closed" => s \in use.sockets
  /\ \A r \in Reqs :
       /\ pc[r] = "idle" => ~IsSocket(r)
       /\ pc[r] = "queued" => IsSocket(r)
       /\ IsSocket(r) => state[conn[r]] = "open"
       /\ pc[r] # "idle" => kind[r] \in Asked(r)
       /\ pc[r] \in {"create", "join"} => kind[r] = "subscribe"
       /\ pc[r] = "join" => visitor[r] \in Reqs
       /\ pc[r] = "upload" => ~IsSocket(r) /\ r \in uploads
       /\ pc[r] = "poll" => kind[r] = "poll" /\ copy[r] \in Web
       /\ r \in uploads => /\ kind[r] = "file" /\ visitor[r] \in Reqs
                           /\ pc[r] \in (IF IsSocket(r) THEN {"save", "done"} ELSE {"upload"})

\* The mutex of a socket: requests are queued in the order they were sent, and
\* only the first is handled.
Queued ==
  /\ \A s \in Sockets :
       /\ \A i \in DOMAIN queue[s] :
            /\ conn[queue[s][i]] = s
            /\ pc[queue[s][i]] = "queued" \/ (i = 1 /\ pc[queue[s][i]] \in Working)
       /\ \A i, j \in DOMAIN queue[s] : i < j => queue[s][i] < queue[s][j]
  /\ \A r \in Reqs : IsSocket(r) /\ pc[r] \notin {"idle", "done"} =>
       \E i \in DOMAIN queue[conn[r]] : queue[conn[r]][i] = r

Base == TypeOK /\ Served /\ Queued

\* Requests are sent in the order of their numbers.
Sent == \A q, r \in Reqs : q < r /\ pc[q] = "idle" => pc[r] = "idle"

\* A socket's request is handled after those sent before it.
InTurn == \A q, r \in Reqs : Precedes(q, r) /\ pc[r] # "queued" => pc[q] = "done"

\* Handlers attribute to a visitor what they hand, and their requests settle.
Handing == \A i \in DOMAIN handed :
  /\ pc[handed[i]] \in {"save", "done"}
  /\ kind[handed[i]] \in {"message", "file"}
  /\ visitor[handed[i]] \in Reqs

\* A socket that has subscribed is in the room of its visitor.
Joined == \A r \in Reqs :
  IsSocket(r) /\ kind[r] = "subscribe" /\ pc[r] \in {"save", "done"} /\ answer[r] # "refused" =>
    visitor[r] \in Reqs /\ visitor[r] \in room[conn[r]]

\* Only handlers set the visitor and the answer.
Untouched == \A r \in Reqs :
  /\ pc[r] \in {"idle", "queued", "handle", "create"} => visitor[r] = NoVisitor
  /\ pc[r] \notin {"save", "done"} => answer[r] = "none"

\* The visitors in whose room a tab is, or is about to be.
Entrants == {v \in Reqs :
  \/ \E s \in use.sockets : v \in room[s]
  \/ \E p \in Reqs : pc[p] = "join" /\ IsSocket(p) /\ visitor[p] = v}

\* The session as it is stored, as it is being saved, and as connections and
\* requests have it.
Sessions == {store} \cup {o[2] : o \in opening} \cup {copy[c] : c \in Reqs \cup Sockets}

\* The visitors that sockets created are in a room, or about to be.
OpenedHere == \A w \in Sessions : w # NoWeb /\ w.isSocket => w.visitor \in Entrants

\* What a lone tab sends is attributed to a visitor in whose room it is.
Addressed == OneTab(use) => \A r \in Reqs :
  IsSocket(r) /\ kind[r] \in {"message", "file"} /\ visitor[r] # NoVisitor =>
    visitor[r] \in room[conn[r]]

\* Browsers that use one connection at a time do: what is pending has one
\* connection, and nothing is while a tab connects.
Alone == ~use.overlap =>
  /\ \A q, r \in Reqs : Pending(q) /\ Pending(r) => conn[q] = conn[r]
  /\ \A s \in Sockets : state[s] = "loaded" => \A r \in Reqs : ~Pending(r)
  /\ \A s, t \in Sockets : state[s] = "loaded" /\ state[t] = "loaded" => s = t

\* A browser that uses its connections one at a time, whose tabs subscribe over
\* their sockets and stay, and whose queries do not fail.  None of this can be
\* left out: a visitor who leaves is another when back, requests over HTTP that
\* overlap, and sessions that are not saved, create two visitors, and sockets
\* are refused the sessions that HTTP opened.
Calm(u) ==
  /\ ~u.overlap /\ u.faults = {}
  /\ "leave" \notin u.socket \cup u.http
  /\ "subscribe" \notin u.http

\* Only sockets open sessions, if nobody subscribes over HTTP.
OverSocket == "subscribe" \notin use.http => \A w \in Sessions : w # NoWeb => w.isSocket

\* Two sessions are of the same visitor, or of none.
Same(v, w) == (v = NoWeb <=> w = NoWeb) /\ (v # NoWeb => v.visitor = w.visitor)

\* A request at step l (sock: of a socket), that works for visitor v in session
\* mine, is in step with the stored session st: both have the visitor, unless the
\* request has just created it and its session is yet to be saved.
InStep(l, sock, v, mine, st) ==
  /\ l \in Working /\ (st # NoWeb \/ l \notin {"join", "save"} \/ ~sock) => Same(mine, st)
  /\ l = "create" => mine = NoWeb
  /\ l \in {"join", "save"} /\ v # NoVisitor => mine # NoWeb /\ mine.visitor = v
  /\ v # NoVisitor => \/ st # NoWeb /\ st.visitor = v
                      \/ st = NoWeb /\ sock /\ l \in {"join", "save"}

\* In a calm browser requests, and tabs that connect, have the stored visitor, as
\* long as what a tab loaded is not saved over what has been saved since.
Steady == Calm(use) /\ ~overtaken =>
  /\ \A s \in Sockets : state[s] = "loaded" => Same(copy[s], store)
  /\ \A r \in Reqs : InStep(pc[r], IsSocket(r), visitor[r], Session(r), store)

\* The invariant of every browser.
Inv ==
  /\ Base /\ Sent /\ InTurn /\ Handing /\ Joined /\ Untouched
  /\ OpenedHere /\ Addressed /\ OverSocket /\ Alone /\ Steady

-----------------------------------------------------------------------------
(* Types, and what the handlers rely on.                                   *)

\* What connections do by themselves.
Connects ==
  \/ \E s \in Sockets : LoadSession(s) \/ OpenSocket(s) \/ Greet(s)
  \/ \E o \in opening : SaveOpening(o)

\* What the session and the connection of a request are.
LEMMA Fields ==
  ASSUME TypeOK, NEW r \in Reqs
  PROVE  /\ Own(r) \in Reqs \cup Sockets /\ Session(r) \in Web \cup {NoWeb}
         /\ conn[r] \in Sockets <=> IsSocket(r)
         /\ IsSocket(r) => Own(r) = conn[r] /\ Session(r) = copy[conn[r]]
         /\ ~IsSocket(r) => conn[r] = Http /\ Own(r) = r /\ Session(r) = copy[r]
         /\ Session(r) # NoWeb => Session(r).visitor \in Reqs
         /\ \A p \in Reqs : p # r => Own(r) # p
         /\ NoVisitor \notin Reqs
<1>1. NoVisitor \notin Reqs
  BY DEF NoVisitor, Reqs
<1>2. conn[r] \in Sockets \cup {Http} /\ Http \notin Sockets
  BY WebAssumption DEF TypeOK
<1>3. copy \in [Reqs \cup Sockets -> Web \cup {NoWeb}]
  BY DEF TypeOK
<1>4. \A w \in Web : w.visitor \in Reqs
  BY DEF Web
<1>5. \A p \in Reqs : p \notin Sockets
  BY WebAssumption
<1> QED BY <1>1, <1>2, <1>3, <1>4, <1>5 DEF Own, Session, IsSocket

\* What is known of a browser.
LEMMA UseFields ==
  ASSUME use \in Uses
  PROVE  /\ use.requests \in Nat /\ use.sockets \subseteq Sockets
         /\ use.socket \subseteq Kinds \ {"poll"} /\ use.http \subseteq Kinds
         /\ use.overlap \in BOOLEAN /\ use.faults \subseteq {"db"}
BY WebAssumption

\* Served, of one request.
LEMMA ServedFields ==
  ASSUME Served, NEW r \in Reqs
  PROVE  /\ pc[r] = "idle" => ~IsSocket(r)
         /\ pc[r] = "queued" => IsSocket(r)
         /\ IsSocket(r) => state[conn[r]] = "open"
         /\ pc[r] # "idle" => kind[r] \in Asked(r)
         /\ pc[r] \in {"create", "join"} => kind[r] = "subscribe"
         /\ pc[r] = "join" => visitor[r] \in Reqs
         /\ pc[r] = "upload" => ~IsSocket(r) /\ r \in uploads
         /\ pc[r] = "poll" => kind[r] = "poll" /\ copy[r] \in Web
BY DEF Served

\* The type of the queues.
LEMMA QueueType == TypeOK => queue \in [Sockets -> Seq(Reqs)]
BY DEF TypeOK

\* The initial states have the right types.
LEMMA TypeInit == Init => TypeOK
<1> SUFFICES ASSUME Init PROVE TypeOK
  OBVIOUS
<1>1. /\ use \in Uses /\ store \in Web \cup {NoWeb}
      /\ opening \in SUBSET (Sockets \X (Web \cup {NoWeb})) /\ overtaken \in BOOLEAN
  BY DEF Init
<1>2. /\ copy \in [Reqs \cup Sockets -> Web \cup {NoWeb}]
      /\ state \in [Sockets -> {"closed", "loaded", "open"}]
      /\ greeted \in SUBSET Sockets /\ room \in [Sockets -> SUBSET Reqs]
  BY DEF Init
<1>3. queue \in [Sockets -> Seq(Reqs)] /\ handed \in Seq(Reqs)
  BY DEF Init
<1>4. /\ pc \in [Reqs -> {"idle", "queued", "handle", "create", "join", "upload", "poll", "save", "done"}]
      /\ kind \in [Reqs -> Kinds] /\ conn \in [Reqs -> Sockets \cup {Http}]
  BY DEF Init, Kinds
<1>5. visitor \in [Reqs -> Reqs \cup {NoVisitor}] /\ answer \in [Reqs -> {"none", "ok", "refused"}]
  BY DEF Init
<1>6. tries \in [Reqs -> 0 .. TryLimit] /\ uploads \in SUBSET Reqs
  BY DEF Init, TryLimit
<1> QED BY <1>1, <1>2, <1>3, <1>4, <1>5, <1>6 DEF TypeOK

\* A request that is being handled is the first of its socket's queue.
LEMMA QueueFirst ==
  ASSUME Base, NEW r \in Reqs, IsSocket(r), pc[r] \notin {"idle", "done"}
  PROVE  /\ queue[conn[r]] \in Seq(Reqs) /\ queue[conn[r]] # <<>>
         /\ pc[r] # "queued" => r = Head(queue[conn[r]])
BY DEF Base, TypeOK, Queued, IsSocket

\* Every step keeps the types.
LEMMA TypeNext ==
  ASSUME Base, [Next]_vars PROVE TypeOK'
<1> USE DEF TypeOK, Base, At, Goto, opens, session, sockets, requests, Answer
<1>1. ASSUME NEW s \in Sockets, LoadSession(s) PROVE TypeOK'
  <2>1. copy' \in [Reqs \cup Sockets -> Web \cup {NoWeb}]
    BY <1>1 DEF LoadSession
  <2>2. state' \in [Sockets -> {"closed", "loaded", "open"}]
    BY <1>1 DEF LoadSession
  <2> QED BY <1>1, <2>1, <2>2 DEF LoadSession
<1>2. ASSUME NEW s \in Sockets, OpenSocket(s) PROVE TypeOK'
  <2>1. opening' \in SUBSET (Sockets \X (Web \cup {NoWeb}))
    BY <1>2 DEF OpenSocket
  <2>2. state' \in [Sockets -> {"closed", "loaded", "open"}]
    BY <1>2 DEF OpenSocket
  <2> QED BY <1>2, <2>1, <2>2 DEF OpenSocket
<1>20. ASSUME NEW o \in opening, SaveOpening(o) PROVE TypeOK'
  <2>1. store' \in Web \cup {NoWeb} /\ opening' \in SUBSET (Sockets \X (Web \cup {NoWeb}))
    BY <1>20 DEF SaveOpening
  <2>2. overtaken' \in BOOLEAN
    BY <1>20 DEF SaveOpening
  <2> QED BY <1>20, <2>1, <2>2 DEF SaveOpening
<1>3. ASSUME NEW s \in Sockets, Greet(s) PROVE TypeOK'
  <2>1. greeted' \in SUBSET Sockets
    BY <1>3 DEF Greet, Web
  <2>2. room' \in [Sockets -> SUBSET Reqs]
    BY <1>3 DEF Greet, Web
  <2> QED BY <1>3, <2>1, <2>2 DEF Greet
<1>4. ASSUME NEW r \in Reqs, NEW k \in Kinds,
               NEW c \in Sockets \cup {Http}, SendRequest(r, k, c) PROVE TypeOK'
  <2>1. copy' \in [Reqs \cup Sockets -> Web \cup {NoWeb}]
    BY <1>4 DEF SendRequest
  <2>2. queue' \in [Sockets -> Seq(Reqs)]
    <3>1. CASE c = Http
      BY <1>4, <3>1 DEF SendRequest
    <3>2. CASE c \in Sockets /\ c # Http
      <4>1. queue[c] \in Seq(Reqs) /\ Append(queue[c], r) \in Seq(Reqs)
        BY <3>2
      <4>2. queue' = [queue EXCEPT ![c] = Append(queue[c], r)]
        BY <1>4, <3>2 DEF SendRequest
      <4> HIDE DEF TypeOK
      <4> QED BY <3>2, <4>1, <4>2, QueueType
    <3> QED BY <3>1, <3>2, WebAssumption
  <2>3. pc' \in [Reqs -> {"idle", "queued", "handle", "create", "join", "upload",
                      "poll", "save", "done"}]
    <3>1. pc' = [pc EXCEPT ![r] = "handle"] \/ pc' = [pc EXCEPT ![r] = "queued"]
      BY <1>4 DEF SendRequest
    <3> QED BY <3>1
  <2>4. kind' \in [Reqs -> Kinds]
    BY <1>4 DEF SendRequest
  <2>5. conn' \in [Reqs -> Sockets \cup {Http}]
    BY <1>4 DEF SendRequest
  <2> QED BY <1>4, <2>1, <2>2, <2>3, <2>4, <2>5 DEF SendRequest
<1>5. ASSUME NEW r \in Reqs, ReloadSession(r) PROVE TypeOK'
  <2>1. conn[r] \in Sockets /\ queue[conn[r]] \in Seq(Reqs) /\ queue[conn[r]] # <<>>
    BY <1>5, QueueFirst, Fields, ServedFields DEF ReloadSession
  <2>2. Tail(queue[conn[r]]) \in Seq(Reqs)
    BY <2>1
  <2>3. copy' \in [Reqs \cup Sockets -> Web \cup {NoWeb}]
    BY <1>5, <2>1 DEF ReloadSession
  <2>4. queue' \in [Sockets -> Seq(Reqs)]
    <3>1. queue' = queue \/ queue' = [queue EXCEPT ![conn[r]] = Tail(queue[conn[r]])]
      BY <1>5 DEF ReloadSession
    <3> HIDE DEF TypeOK
    <3> QED BY <2>1, <2>2, <3>1, QueueType
  <2>5. pc' \in [Reqs -> {"idle", "queued", "handle", "create", "join", "upload",
                      "poll", "save", "done"}]
    BY <1>5 DEF ReloadSession
  <2>6. answer' \in [Reqs -> {"none", "ok", "refused"}]
    BY <1>5 DEF ReloadSession
  <2> QED BY <1>5, <2>3, <2>4, <2>5, <2>6 DEF ReloadSession
<1>6. ASSUME NEW r \in Reqs, SaveSession(r) PROVE TypeOK'
  <2>1. store' \in Web \cup {NoWeb}
    BY <1>6, QueueFirst, Fields DEF SaveSession
  <2>2. queue' \in [Sockets -> Seq(Reqs)]
    <3>1. CASE IsSocket(r)
      <4>1. conn[r] \in Sockets /\ queue[conn[r]] \in Seq(Reqs) /\ queue[conn[r]] # <<>>
        BY <1>6, <3>1, QueueFirst, Fields DEF SaveSession
      <4>2. Tail(queue[conn[r]]) \in Seq(Reqs)
        BY <4>1
      <4>3. queue' = [queue EXCEPT ![conn[r]] = Tail(queue[conn[r]])]
        BY <1>6, <3>1 DEF SaveSession
      <4> HIDE DEF TypeOK
      <4> QED BY <4>1, <4>2, <4>3, QueueType
    <3> QED BY <1>6, <3>1 DEF SaveSession
  <2>3. pc' \in [Reqs -> {"idle", "queued", "handle", "create", "join", "upload",
                      "poll", "save", "done"}]
    BY <1>6, QueueFirst, Fields DEF SaveSession
  <2> QED BY <1>6, <2>1, <2>2, <2>3 DEF SaveSession
<1>7. ASSUME NEW r \in Reqs, Subscribe(r) PROVE TypeOK'
  <2>1. pc' \in [Reqs -> {"idle", "queued", "handle", "create", "join", "upload",
                      "poll", "save", "done"}]
    BY <1>7, Fields DEF Subscribe, Web
  <2>2. visitor' \in [Reqs -> Reqs \cup {NoVisitor}]
    BY <1>7, Fields DEF Subscribe, Web
  <2>3. answer' \in [Reqs -> {"none", "ok", "refused"}]
    BY <1>7, Fields DEF Subscribe, Web
  <2> QED BY <1>7, <2>1, <2>2, <2>3 DEF Subscribe
<1>8. ASSUME NEW r \in Reqs, CreateVisitor(r) PROVE TypeOK'
  <2>1. copy' \in [Reqs \cup Sockets -> Web \cup {NoWeb}]
    <3>1. [visitor |-> r, isSocket |-> IsSocket(r), polling |-> FALSE] \in Web
      BY DEF Web, IsSocket
    <3>2. copy' = copy \/ copy' = [copy EXCEPT ![Own(r)] =
                                  [visitor |-> r, isSocket |-> IsSocket(r), polling |-> FALSE]]
      BY <1>8 DEF CreateVisitor
    <3>3. copy \in [Reqs \cup Sockets -> Web \cup {NoWeb}] /\ Own(r) \in Reqs \cup Sockets
      BY Fields
    <3> HIDE DEF TypeOK
    <3> QED BY <3>1, <3>2, <3>3
  <2>2. pc' \in [Reqs -> {"idle", "queued", "handle", "create", "join", "upload",
                      "poll", "save", "done"}]
    BY <1>8, Fields DEF CreateVisitor, Web
  <2>3. visitor' \in [Reqs -> Reqs \cup {NoVisitor}]
    BY <1>8 DEF CreateVisitor
  <2>4. answer' \in [Reqs -> {"none", "ok", "refused"}]
    BY <1>8, Fields DEF CreateVisitor, Web
  <2> QED BY <1>8, <2>1, <2>2, <2>3, <2>4 DEF CreateVisitor
<1>9. ASSUME NEW r \in Reqs, JoinRoom(r) PROVE TypeOK'
  <2>1. room' \in [Sockets -> SUBSET Reqs]
    <3>1. visitor[r] \in Reqs /\ (IsSocket(r) => conn[r] \in Sockets)
      BY <1>9, Fields, ServedFields DEF JoinRoom
    <3>2. room' = room \/ (IsSocket(r) /\ room' = [room EXCEPT ![conn[r]] = room[conn[r]] \cup {visitor[r]}])
      BY <1>9 DEF JoinRoom
    <3>3. room \in [Sockets -> SUBSET Reqs]
      OBVIOUS
    <3> HIDE DEF TypeOK
    <3> QED BY <3>1, <3>2, <3>3
  <2>2. pc' \in [Reqs -> {"idle", "queued", "handle", "create", "join", "upload",
                      "poll", "save", "done"}]
    BY <1>9, Fields DEF JoinRoom, Served
  <2>3. answer' \in [Reqs -> {"none", "ok", "refused"}]
    BY <1>9, Fields DEF JoinRoom, Served
  <2> QED BY <1>9, <2>1, <2>2, <2>3 DEF JoinRoom
<1>10. ASSUME NEW r \in Reqs, Leave(r) PROVE TypeOK'
  <2>1. copy' \in [Reqs \cup Sockets -> Web \cup {NoWeb}]
    BY <1>10, Fields DEF Leave
  <2>2. pc' \in [Reqs -> {"idle", "queued", "handle", "create", "join", "upload",
                      "poll", "save", "done"}]
    BY <1>10, Fields DEF Leave
  <2>3. answer' \in [Reqs -> {"none", "ok", "refused"}]
    BY <1>10, Fields DEF Leave
  <2> QED BY <1>10, <2>1, <2>2, <2>3 DEF Leave
<1>11. ASSUME NEW r \in Reqs, RefuseMessage(r) PROVE TypeOK'
  <2>1. pc' \in [Reqs -> {"idle", "queued", "handle", "create", "join", "upload",
                      "poll", "save", "done"}]
    BY <1>11 DEF RefuseMessage
  <2>2. answer' \in [Reqs -> {"none", "ok", "refused"}]
    BY <1>11 DEF RefuseMessage
  <2> QED BY <1>11, <2>1, <2>2 DEF RefuseMessage
<1>12. ASSUME NEW r \in Reqs, HandleMessage(r) PROVE TypeOK'
  <2>1. pc' \in [Reqs -> {"idle", "queued", "handle", "create", "join", "upload",
                      "poll", "save", "done"}]
    BY <1>12, Fields DEF HandleMessage, Valid, Web
  <2>2. visitor' \in [Reqs -> Reqs \cup {NoVisitor}]
    BY <1>12, Fields DEF HandleMessage, Valid, Web
  <2>3. answer' \in [Reqs -> {"none", "ok", "refused"}]
    BY <1>12, Fields DEF HandleMessage, Valid, Web
  <2>4. handed' \in Seq(Reqs)
    BY <1>12, Fields DEF HandleMessage, Valid, Web
  <2> QED BY <1>12, <2>1, <2>2, <2>3, <2>4 DEF HandleMessage
<1>13. ASSUME NEW r \in Reqs, HandleFile(r) PROVE TypeOK'
  <2>1. pc' \in [Reqs -> {"idle", "queued", "handle", "create", "join", "upload",
                      "poll", "save", "done"}]
    BY <1>13, Fields DEF HandleFile, Valid, Web
  <2>2. visitor' \in [Reqs -> Reqs \cup {NoVisitor}]
    BY <1>13, Fields DEF HandleFile, Valid, Web
  <2>3. uploads' \in SUBSET Reqs
    BY <1>13, Fields DEF HandleFile, Valid, Web
  <2> QED BY <1>13, <2>1, <2>2, <2>3 DEF HandleFile
<1>14. ASSUME NEW r \in Reqs, StoreFile(r) PROVE TypeOK'
  <2>1. pc' \in [Reqs -> {"idle", "queued", "handle", "create", "join", "upload",
                      "poll", "save", "done"}]
    BY <1>14 DEF StoreFile
  <2>2. answer' \in [Reqs -> {"none", "ok", "refused"}]
    BY <1>14 DEF StoreFile
  <2>3. uploads' \in SUBSET Reqs
    BY <1>14 DEF StoreFile
  <2>4. handed' \in Seq(Reqs)
    <3>1. Append(handed, r) \in Seq(Reqs)
      OBVIOUS
    <3> QED BY <1>14, <3>1 DEF StoreFile
  <2> QED BY <1>14, <2>1, <2>2, <2>3, <2>4 DEF StoreFile
<1>15. ASSUME NEW r \in Reqs, StartPoll(r) PROVE TypeOK'
  <2>1. Session(r) = copy[r] /\ copy[r] \in Web \cup {NoWeb}
    BY <1>15, Fields, ServedFields, UseFields DEF StartPoll, Asked
  <2>2. copy' \in [Reqs \cup Sockets -> Web \cup {NoWeb}]
    <3>1. copy[r] # NoWeb => [copy[r] EXCEPT !.polling = TRUE] \in Web
      BY <2>1 DEF Web
    <3>2. copy' = copy \/ (copy[r] # NoWeb /\ copy' = [copy EXCEPT ![r] = [copy[r] EXCEPT !.polling = TRUE]])
      BY <1>15, <2>1 DEF StartPoll
    <3>3. copy \in [Reqs \cup Sockets -> Web \cup {NoWeb}]
      OBVIOUS
    <3> HIDE DEF TypeOK
    <3> QED BY <3>1, <3>2, <3>3
  <2>3. pc' \in [Reqs -> {"idle", "queued", "handle", "create", "join", "upload",
                      "poll", "save", "done"}]
    <3>1. pc' = [pc EXCEPT ![r] = "poll"] \/ pc' = [pc EXCEPT ![r] = "save"]
      BY <1>15 DEF StartPoll
    <3> QED BY <3>1
  <2>4. answer' \in [Reqs -> {"none", "ok", "refused"}]
    BY <1>15 DEF StartPoll
  <2> QED BY <1>15, <2>2, <2>3, <2>4 DEF StartPoll
<1>16. ASSUME NEW r \in Reqs, RetryPoll(r) PROVE TypeOK'
  <2>1. tries[r] \in 0 .. 3 /\ (tries[r] < 3 => tries[r] + 1 \in 0 .. 3)
    BY DEF TryLimit
  <2>2. tries' \in [Reqs -> 0 .. TryLimit]
    BY <1>16, <2>1 DEF RetryPoll, TryLimit
  <2> QED BY <1>16, <2>2 DEF RetryPoll
<1>17. ASSUME NEW r \in Reqs, EndPoll(r) PROVE TypeOK'
  <2>1. copy[r] \in Web
    BY <1>17, ServedFields DEF EndPoll
  <2>2. [copy[r] EXCEPT !.polling = FALSE] \in Web
    BY <2>1 DEF Web
  <2>3. copy' \in [Reqs \cup Sockets -> Web \cup {NoWeb}]
    BY <1>17, <2>2 DEF EndPoll
  <2>4. pc' \in [Reqs -> {"idle", "queued", "handle", "create", "join", "upload",
                      "poll", "save", "done"}]
    BY <1>17 DEF EndPoll
  <2>5. answer' \in [Reqs -> {"none", "ok", "refused"}]
    BY <1>17 DEF EndPoll
  <2> QED BY <1>17, <2>3, <2>4, <2>5 DEF EndPoll
<1>18. CASE UNCHANGED vars
  BY <1>18 DEF vars
<1> QED
  BY <1>1, <1>2, <1>3, <1>4, <1>5, <1>6, <1>7, <1>8, <1>9, <1>10, <1>11, <1>12, <1>13, <1>14,
     <1>15,
     <1>16, <1>17, <1>18, <1>20, UseFields DEF Next, RequestStep

-----------------------------------------------------------------------------
(* The turns of requests.                                                  *)

\* It is r's turn: it is handled, or the first in the queue of its socket.
Turn(r) ==
  /\ pc[r] = "queued" \/ pc[r] \in Working
  /\ IsSocket(r) => r = Head(queue[conn[r]]) /\ queue[conn[r]] # <<>>

\* r goes on, ends, or is sent over c.
Moves(r) == \E l \in Working : Turn(r) /\ pc' = [pc EXCEPT ![r] = l] /\ UNCHANGED <<conn, queue>>
Ends(r) ==
  /\ Turn(r)
  /\ pc' = [pc EXCEPT ![r] = "done"]
  /\ queue' = IF IsSocket(r) THEN [queue EXCEPT ![conn[r]] = Tail(queue[conn[r]])] ELSE queue
  /\ conn' = conn
Begins(r, c) ==
  /\ pc[r] = "idle"
  /\ \A q \in 1 .. r - 1 : pc[q] # "idle"
  /\ conn' = [conn EXCEPT ![r] = c]
  /\ \/ c = Http /\ pc' = [pc EXCEPT ![r] = "handle"] /\ queue' = queue
     \/ /\ c \in Sockets /\ c # Http
        /\ pc' = [pc EXCEPT ![r] = "queued"]
        /\ queue' = [queue EXCEPT ![c] = Append(queue[c], r)]

\* A step begins, moves on or ends one request, or leaves all where they are.
LEMMA Progress ==
  ASSUME Base, [Next]_vars
  PROVE  \/ UNCHANGED <<pc, conn, queue>>
         \/ \E r \in Reqs : Moves(r) \/ Ends(r) \/ (\E c \in Sockets \cup {Http} : Begins(r, c))
<1> DEFINE G == \/ UNCHANGED <<pc, conn, queue>>
         \/ \E r \in Reqs : Moves(r) \/ Ends(r) \/ (\E c \in Sockets \cup {Http} : Begins(r, c))
<1> USE DEF At, Goto, opens, session, sockets, requests, Answer
<1>1. CASE Connects
  BY <1>1 DEF Connects, LoadSession, OpenSocket, SaveOpening, Greet
<1>2. ASSUME NEW r \in Reqs, NEW k \in Kinds, NEW c \in Sockets \cup {Http}, SendRequest(r, k, c)
      PROVE  Begins(r, c)
  BY <1>2, WebAssumption DEF SendRequest, Begins
<1> DEFINE Acts(r) == Subscribe(r) \/ CreateVisitor(r) \/ JoinRoom(r) \/ Leave(r) \/ RefuseMessage(r)
   \/ HandleMessage(r) \/ HandleFile(r) \/ StartPoll(r) \/ EndPoll(r)
<1>3. ASSUME NEW r \in Reqs, Acts(r) PROVE Moves(r)
  <2>1. pc[r] \in Working /\ conn' = conn /\ queue' = queue
    BY <1>3 DEF Subscribe, CreateVisitor, JoinRoom, Leave, RefuseMessage, HandleMessage,
       HandleFile, StartPoll, EndPoll, Working
  <2>2. \E l \in Working : pc' = [pc EXCEPT ![r] = l]
    BY <1>3 DEF Subscribe, CreateVisitor, JoinRoom, Leave, RefuseMessage, HandleMessage,
       HandleFile, StartPoll, EndPoll, Working
  <2>3. Turn(r)
    BY <2>1, QueueFirst DEF Turn, Working
  <2> QED BY <2>1, <2>2, <2>3 DEF Moves
<1>4. ASSUME NEW r \in Reqs, ReloadSession(r) PROVE Moves(r) \/ Ends(r)
  <2>1. Turn(r) /\ IsSocket(r)
    BY <1>4, QueueFirst, ServedFields DEF ReloadSession, Turn, Holds, Base
  <2> QED BY <1>4, <2>1 DEF ReloadSession, Moves, Ends, Working
<1>5. ASSUME NEW r \in Reqs, SaveSession(r) PROVE Ends(r)
  <2>1. Turn(r)
    BY <1>5, QueueFirst, ServedFields DEF SaveSession, Turn, Working
  <2> QED BY <1>5, <2>1 DEF SaveSession, Ends
<1>6. ASSUME NEW r \in Reqs, StoreFile(r) PROVE UNCHANGED <<pc, conn, queue>> \/ Moves(r)
  <2>1. UNCHANGED <<conn, queue>>
    BY <1>6 DEF StoreFile
  <2>2. CASE IsSocket(r)
    BY <1>6, <2>1, <2>2 DEF StoreFile
  <2>3. CASE ~IsSocket(r)
    <3>1. pc[r] = "upload"
      BY <1>6, <2>3 DEF StoreFile, Base, Served
    <3> QED BY <1>6, <2>1, <2>3, <3>1 DEF StoreFile, Moves, Turn, Working
  <2> QED BY <2>2, <2>3
<1>7. ASSUME NEW r \in Reqs, RetryPoll(r) PROVE UNCHANGED <<pc, conn, queue>>
  BY <1>7 DEF RetryPoll
<1>8. CASE UNCHANGED vars
  BY <1>8 DEF vars
<1>10. CASE \E r \in Reqs :
       \/ \E k \in use.http : SendRequest(r, k, Http)
       \/ \E k \in use.socket, s \in Sockets : SendRequest(r, k, s)
  BY <1>2, <1>10, UseFields DEF Base, TypeOK
<1>11. CASE \E r \in Reqs : RequestStep(r)
  BY <1>3, <1>4, <1>5, <1>6, <1>7, <1>11 DEF RequestStep
<1> QED BY <1>1, <1>8, <1>10, <1>11 DEF Next, Connects

\* Every step keeps the order in which requests are sent.
LEMMA SentNext ==
  ASSUME Base, Sent, [Next]_vars PROVE Sent'
<1>1. pc \in [Reqs -> {"idle", "queued", "handle", "create", "join", "upload", "poll", "save", "done"}]
  BY DEF Base, TypeOK
<1>2. CASE UNCHANGED <<pc, conn, queue>>
  BY <1>2 DEF Sent
<1>3. ASSUME NEW r \in Reqs, Moves(r) \/ Ends(r) PROVE Sent'
  BY <1>1, <1>3 DEF Moves, Ends, Turn, Working, Sent
<1>4. ASSUME NEW r \in Reqs, NEW c \in Sockets \cup {Http}, Begins(r, c) PROVE Sent'
  <2>1. pc' = [pc EXCEPT ![r] = "handle"] \/ pc' = [pc EXCEPT ![r] = "queued"]
    BY <1>4 DEF Begins
  <2>2. \A q \in Reqs : q < r => q \in 1 .. r - 1
    BY WebAssumption DEF Reqs
  <2>3. \A q \in Reqs : q < r => pc[q] # "idle"
    BY <1>4, <2>2 DEF Begins
  <2> QED BY <1>1, <2>1, <2>3 DEF Sent
<1> QED BY <1>2, <1>3, <1>4, Progress

\* The rest of a queue: what was behind the first.
LEMMA HeadTail ==
  ASSUME NEW S, NEW q \in Seq(S), q # <<>>
  PROVE  /\ Head(q) = q[1] /\ 1 \in DOMAIN q
         /\ Tail(q) \in Seq(S)
         /\ \A i \in DOMAIN Tail(q) : i \in Nat /\ i + 1 \in DOMAIN q /\ Tail(q)[i] = q[i + 1]
         /\ \A i \in DOMAIN q : i # 1 => i - 1 \in DOMAIN Tail(q) /\ Tail(q)[i - 1] = q[i]
OBVIOUS
\* A longer queue: what was there, and the last.
LEMMA LastAppended ==
  ASSUME NEW S, NEW q \in Seq(S), NEW x \in S
  PROVE  /\ Append(q, x) \in Seq(S)
         /\ \A i \in DOMAIN Append(q, x) : (i \in DOMAIN q /\ Append(q, x)[i] = q[i])
              \/ (i = Len(q) + 1 /\ Append(q, x)[i] = x)
         /\ \A i \in DOMAIN q : i \in DOMAIN Append(q, x)
         /\ Len(q) + 1 \in DOMAIN Append(q, x)
OBVIOUS

\* Every step keeps the queues in order, with the request that is handled first.
LEMMA QueuedNext ==
  ASSUME Base, Sent, [Next]_vars PROVE Queued'
<1>1. /\ pc \in [Reqs -> {"idle", "queued", "handle", "create", "join", "upload", "poll", "save", "done"}]
      /\ conn \in [Reqs -> Sockets \cup {Http}] /\ Queued /\ queue \in [Sockets -> Seq(Reqs)]
  BY DEF Base, TypeOK
<1>0. /\ \A r \in Reqs : IsSocket(r) => pc[r] # "idle" /\ conn[r] \in Sockets
      /\ \A r \in Reqs : r \in Nat
  BY Fields, ServedFields, WebAssumption DEF Base, Reqs
<1>2. CASE UNCHANGED <<pc, conn, queue>>
  BY <1>1, <1>2 DEF Queued, IsSocket
<1>3. ASSUME NEW r \in Reqs, Moves(r) PROVE Queued'
  <2>1. PICK l \in Working : pc' = [pc EXCEPT ![r] = l] /\ Turn(r) /\ UNCHANGED <<conn, queue>>
    BY <1>3 DEF Moves
  <2>2. l \notin {"idle", "done", "queued"}
    BY <2>1 DEF Working
  <2>3. ASSUME NEW s \in Sockets, NEW i \in DOMAIN queue[s]
        PROVE  pc'[queue[s][i]] = "queued" \/ (i = 1 /\ pc'[queue[s][i]] \in Working)
    <3>1. queue[s] \in Seq(Reqs) /\ queue[s][i] \in Reqs
      BY <1>1, <2>3
    <3>2. CASE queue[s][i] = r
      <4>1. conn[r] = s /\ IsSocket(r)
        BY <1>1, <2>3, <3>2, WebAssumption DEF Queued, IsSocket
      <4>2. r = queue[s][1]
        BY <2>1, <4>1, <3>1, HeadTail DEF Turn
      <4>3. i = 1 \/ (1 < i /\ 1 \in DOMAIN queue[s])
        BY <2>3, <3>1
      <4>4. i = 1
        BY <1>1, <1>0, <3>2, <4>2, <4>3 DEF Queued
      <4> QED BY <1>1, <2>1, <3>1, <3>2, <4>4
    <3>3. CASE queue[s][i] # r
      BY <1>1, <2>1, <2>3, <3>1, <3>3 DEF Queued
    <3> QED BY <3>2, <3>3
  <2>4. ASSUME NEW q \in Reqs, conn[q] # Http, pc'[q] \notin {"idle", "done"}
        PROVE  \E i \in DOMAIN queue[conn[q]] : queue[conn[q]][i] = q
    <3>1. pc[q] \notin {"idle", "done"}
      BY <1>1, <2>1, <2>4 DEF Turn, Working
    <3> QED BY <1>1, <2>4, <3>1 DEF Queued, IsSocket
  <2> QED BY <1>1, <2>1, <2>3, <2>4 DEF Queued, IsSocket
<1>4. ASSUME NEW r \in Reqs, Ends(r) PROVE Queued'
  <2>1. CASE ~IsSocket(r)
    <3>1. queue' = queue /\ conn' = conn /\ pc' = [pc EXCEPT ![r] = "done"]
      BY <1>4, <2>1 DEF Ends
    <3>2. \A s \in Sockets : \A i \in DOMAIN queue[s] : queue[s][i] \in Reqs /\ queue[s][i] # r
      BY <1>1, <2>1, WebAssumption DEF Queued, IsSocket
    <3> QED BY <1>1, <2>1, <3>1, <3>2 DEF Queued, IsSocket
  <2>2. CASE IsSocket(r)
    <3> DEFINE c == conn[r]
    <3>1. c \in Sockets /\ queue[c] \in Seq(Reqs) /\ queue[c] # <<>> /\ r = queue[c][1]
      BY <1>0, <1>1, <1>4, <2>2, HeadTail DEF Ends, Turn
    <3>2. conn' = conn /\ pc' = [pc EXCEPT ![r] = "done"] /\ queue' = [queue EXCEPT ![c] = Tail(queue[c])]
      BY <1>4, <2>2 DEF Ends
    <3> DEFINE t == Tail(queue[c])
    <3>3. /\ t \in Seq(Reqs) 
          /\ \A i \in DOMAIN t : i \in Nat /\ i + 1 \in DOMAIN queue[c] /\ t[i] = queue[c][i + 1]
          /\ \A i \in DOMAIN queue[c] : i # 1 => i - 1 \in DOMAIN t /\ t[i - 1] = queue[c][i]
      BY <3>1, HeadTail
    <3> HIDE DEF t, c
    <3>9. c = conn[r] /\ queue' = [queue EXCEPT ![c] = t]
      BY <3>2 DEF c, t
    <3>4. ASSUME NEW s \in Sockets PROVE
               /\ \A i \in DOMAIN queue'[s] : conn[queue'[s][i]] = s /\ queue'[s][i] \in Reqs /\ queue'[s][i] # r 
                      /\ (pc[queue'[s][i]] = "queued" \/ (i = 1 /\ pc[queue'[s][i]] \in Working))
               /\ \A i, j \in DOMAIN queue'[s] : i < j => queue'[s][i] < queue'[s][j]
      <4>1. CASE s = c
        <5>1. queue'[s] = t
          BY <3>9, <4>1, <1>1
        <5>2. \A i \in DOMAIN t : i \in Nat /\ i + 1 # 1 /\ 1 < i + 1 /\ 1 \in DOMAIN queue[c]
          BY <3>1, <3>3
        <5>4. \A i \in DOMAIN t : queue[c][1] < queue[c][i + 1]
          BY <1>1, <3>1, <3>3, <5>2 DEF Queued
        <5>5. \A i \in DOMAIN t : t[i] \in Reqs /\ t[i] # r
          BY <1>0, <3>1, <3>3, <5>4
        <5>6. \A i \in DOMAIN t : conn[t[i]] = s /\ pc[t[i]] = "queued"
          BY <1>1, <3>1, <3>3, <4>1, <5>2 DEF Queued
        <5>7. \A i, j \in DOMAIN t : i < j => i + 1 < j + 1
          BY <3>3
        <5>8. \A i, j \in DOMAIN t : i < j => t[i] < t[j]
          BY <1>1, <3>1, <3>3, <5>7 DEF Queued
        <5> QED BY <5>1, <5>5, <5>6, <5>8
      <4>2. CASE s # c
        <5>1. queue'[s] = queue[s] /\ queue[s] \in Seq(Reqs)
          BY <1>1, <3>9, <4>2
        <5>2. \A i \in DOMAIN queue[s] : queue[s][i] \in Reqs /\ queue[s][i] # r
          BY <1>1, <5>1, <3>9, <4>2 DEF Queued
        <5> QED BY <1>1, <5>1, <5>2 DEF Queued
      <4> QED BY <4>1, <4>2
    <3>5. ASSUME NEW q \in Reqs, conn[q] # Http, pc'[q] \notin {"idle", "done"}
          PROVE  \E i \in DOMAIN queue'[conn[q]] : queue'[conn[q]][i] = q
      <4>1. q # r /\ pc[q] \notin {"idle", "done"} /\ conn[q] \in Sockets
        BY <1>0, <1>1, <3>2, <3>5
      <4>2. PICK i \in DOMAIN queue[conn[q]] : queue[conn[q]][i] = q
        BY <1>1, <3>5, <4>1 DEF Queued, IsSocket
      <4>3. CASE conn[q] = c
        <5>1. i # 1
          BY <3>1, <4>1, <4>2, <4>3
        <5> QED BY <1>1, <3>1, <3>3, <3>9, <4>1, <4>2, <4>3, <5>1
      <4>4. CASE conn[q] # c
        BY <1>1, <3>9, <4>1, <4>2, <4>4
      <4> QED BY <4>3, <4>4
    <3> QED BY <1>1, <3>2, <3>4, <3>5 DEF Queued, IsSocket
  <2> QED BY <2>1, <2>2
<1>5. ASSUME NEW r \in Reqs, NEW c \in Sockets \cup {Http}, Begins(r, c) PROVE Queued'
  <2>0. \A s \in Sockets : \A i \in DOMAIN queue[s] : queue[s][i] \in Reqs /\ pc[queue[s][i]] # "idle"
    BY <1>1 DEF Queued, Working
  <2>1. \A s \in Sockets : \A i \in DOMAIN queue[s] : queue[s][i] \in Reqs /\ queue[s][i] # r
    BY <1>5, <2>0 DEF Begins
  <2>2. CASE c = Http /\ pc' = [pc EXCEPT ![r] = "handle"] /\ queue' = queue
    <3>1. conn' = [conn EXCEPT ![r] = Http]
      BY <1>5, <2>2 DEF Begins
    <3> QED BY <1>1, <2>1, <2>2, <3>1 DEF Queued, IsSocket
  <2>3. CASE /\ c \in Sockets /\ c # Http
             /\ pc' = [pc EXCEPT ![r] = "queued"]
             /\ queue' = [queue EXCEPT ![c] = Append(queue[c], r)]
    <3>1. conn' = [conn EXCEPT ![r] = c] /\ queue[c] \in Seq(Reqs)
      BY <1>1, <1>5, <2>3 DEF Begins
    <3> DEFINE a == Append(queue[c], r)
    <3>2. /\ a \in Seq(Reqs)
          /\ \A i \in DOMAIN a : (i \in DOMAIN queue[c] /\ a[i] = queue[c][i])
                                 \/ (i = Len(queue[c]) + 1 /\ a[i] = r)
          /\ \A i \in DOMAIN queue[c] : i \in DOMAIN a /\ i <= Len(queue[c])
          /\ Len(queue[c]) + 1 \in DOMAIN a /\ Len(queue[c]) \in Nat
      BY <3>1, LastAppended
    <3>3. queue' = [queue EXCEPT ![c] = a]
      BY <2>3
    <3> HIDE DEF a
    <3>4. ASSUME NEW i \in DOMAIN queue[c] PROVE queue[c][i] < r
      <4>1. queue[c][i] \in Reqs /\ queue[c][i] \in Nat /\ r \in Nat /\ pc[queue[c][i]] # "idle"
        BY <1>0, <2>0, <2>3
      <4>2. ~(r < queue[c][i])
        BY <1>5, <4>1 DEF Sent, Begins
      <4> QED BY <2>1, <2>3, <3>4, <4>1, <4>2
    <3>5. \A i \in DOMAIN a : /\ conn'[a[i]] = c
                              /\ pc'[a[i]] = "queued" \/ (i = 1 /\ pc'[a[i]] \in Working)
      BY <1>1, <2>1, <2>3, <3>1, <3>2 DEF Queued
    <3>6. \A i, j \in DOMAIN a : i < j => a[i] < a[j]
      BY <1>1, <2>3, <3>1, <3>2, <3>4 DEF Queued
    <3>7. \A s \in Sockets : s # c => queue'[s] = queue[s]
      BY <1>1, <3>3
    <3>8. queue'[c] = a
      BY <1>1, <2>3, <3>3
    <3>9. ASSUME NEW q \in Reqs, conn'[q] # Http, pc'[q] \notin {"idle", "done"}
          PROVE  \E i \in DOMAIN queue'[conn'[q]] : queue'[conn'[q]][i] = q
      <4>1. CASE q = r
        BY <1>1, <3>1, <3>2, <3>8, <4>1, <2>1, <2>3
      <4>2. CASE q # r
        <5>1. conn'[q] = conn[q] /\ pc'[q] = pc[q] /\ conn[q] \in Sockets
          BY <1>1, <2>3, <3>1, <3>9, <4>2
        <5>2. PICK i \in DOMAIN queue[conn[q]] : queue[conn[q]][i] = q
          BY <1>1, <3>9, <5>1 DEF Queued, IsSocket
        <5> QED BY <3>2, <3>7, <3>8, <5>1, <5>2
      <4> QED BY <4>1, <4>2
    <3>10. ASSUME NEW s \in Sockets, s # c PROVE
             /\ \A i \in DOMAIN queue[s] : conn'[queue[s][i]] = s /\ (pc'[queue[s][i]] = "queued" \/ (i = 1 /\ pc'[queue[s][i]] \in Working))
             /\ \A i, j \in DOMAIN queue[s] : i < j => queue[s][i] < queue[s][j]
      BY <1>1, <2>1, <2>3, <3>1, <3>10 DEF Queued
    <3> QED BY <3>5, <3>6, <3>7, <3>8, <3>9, <3>10 DEF Queued, IsSocket
  <2> QED BY <1>5, <2>2, <2>3 DEF Begins
<1> QED BY <1>2, <1>3, <1>4, <1>5, Progress

\* What was sent over a socket before the request whose turn it is, is done.
LEMMA FirstOfQueue ==
  ASSUME Base, NEW q \in Reqs, NEW r \in Reqs, Precedes(q, r), Turn(r)
  PROVE  pc[q] = "done"
<1>1. /\ conn[r] \in Sockets /\ queue[conn[r]] \in Seq(Reqs) /\ queue[conn[r]] # <<>> /\ IsSocket(q)
      /\ r = queue[conn[r]][1] /\ q \in Nat /\ r \in Nat /\ q < r /\ conn[q] = conn[r] /\ pc[q] # "idle"
  BY Fields, ServedFields, HeadTail, WebAssumption DEF Base, TypeOK, Turn, Precedes, IsSocket,
     Reqs
<1>2. ASSUME pc[q] # "done" PROVE FALSE
  <2>1. PICK i \in DOMAIN queue[conn[r]] : queue[conn[r]][i] = q
    BY <1>1, <1>2 DEF Base, Queued
  <2>2. i > 1 /\ 1 \in DOMAIN queue[conn[r]]
    BY <1>1, <2>1
  <2> QED BY <1>1, <2>1, <2>2 DEF Base, Queued
<1> QED BY <1>2

\* Every step takes the requests of a socket in turn.
LEMMA InTurnNext ==
  ASSUME Base, Sent, InTurn, [Next]_vars PROVE InTurn'
<1>1. /\ pc \in [Reqs -> {"idle", "queued", "handle", "create", "join", "upload", "poll", "save", "done"}]
      /\ conn \in [Reqs -> Sockets \cup {Http}]
  BY DEF Base, TypeOK
<1>2. CASE UNCHANGED <<pc, conn, queue>>
  BY <1>2 DEF InTurn, Precedes, IsSocket
<1>3. ASSUME NEW r \in Reqs, Moves(r) \/ Ends(r) PROVE InTurn'
  <2>1. Turn(r) /\ conn' = conn /\ pc[r] # "done" /\ \E l \in Working \cup {"done"} : pc' = [pc EXCEPT ![r] = l]
    BY <1>3 DEF Moves, Ends, Turn, Working
  <2>2. \A q \in Reqs : Precedes(q, r) => pc[q] = "done"
    BY <2>1, FirstOfQueue
  <2>3. \A p \in Reqs : Precedes(r, p) => pc[p] = "queued" /\ p # r
    BY <2>1, WebAssumption DEF InTurn, Precedes, Reqs
  <2> QED BY <1>1, <2>1, <2>2, <2>3 DEF InTurn, Precedes, IsSocket
<1>4. ASSUME NEW r \in Reqs, NEW c \in Sockets \cup {Http}, Begins(r, c) PROVE InTurn'
  <2>1. pc[r] = "idle" /\ conn' = [conn EXCEPT ![r] = c] /\ (c = Http \/ pc' = [pc EXCEPT ![r] = "queued"])
       /\ \E l \in {"handle", "queued"} : pc' = [pc EXCEPT ![r] = l]
    BY <1>4 DEF Begins
  <2>2. \A p \in Reqs : r < p => pc[p] = "idle"
    BY <2>1 DEF Sent
  <2>3. \A p \in Reqs : p # r /\ IsSocket(p) => ~(r < p)
    BY <2>2, ServedFields DEF Base
  <2>4. ASSUME NEW q \in Reqs, NEW p \in Reqs, q < p /\ conn'[p] # Http /\ conn'[q] = conn'[p], pc'[p] # "queued"
        PROVE  pc'[q] = "done"
    <3>1. p # r
      BY <1>1, <2>1, <2>4
    <3>2. q # r
      BY <1>1, <2>1, <2>3, <2>4, <3>1 DEF IsSocket
    <3> QED BY <1>1, <2>1, <2>4, <3>1, <3>2 DEF InTurn, Precedes, IsSocket
  <2> QED BY <2>4 DEF InTurn, Precedes, IsSocket
<1> QED BY <1>2, <1>3, <1>4, Progress

-----------------------------------------------------------------------------
(* The handlers.                                                           *)

\* A step of one request keeps Served if that request is as Served has it.
LEMMA ServedBy ==
  ASSUME Base, NEW r \in Reqs, UNCHANGED <<use, state, kind, conn>>, pc[r] # "idle",
         \A p \in Reqs : p # r => /\ pc'[p] = pc[p] /\ visitor'[p] = visitor[p]
                                  /\ copy'[p] = copy[p] /\ (p \in uploads' <=> p \in uploads),
         pc'[r] \in {"handle", "create", "join", "upload", "poll", "save", "done"},
         pc'[r] \in {"create", "join"} => kind[r] = "subscribe",
         pc'[r] = "join" => visitor'[r] \in Reqs,
         pc'[r] = "upload" => ~IsSocket(r) /\ r \in uploads',
         pc'[r] = "poll" => kind[r] = "poll" /\ copy'[r] \in Web,
         r \in uploads' => /\ kind[r] = "file" /\ visitor'[r] \in Reqs
                           /\ IsSocket(r) => pc'[r] \in {"save", "done"}
                           /\ ~IsSocket(r) => pc'[r] = "upload"
  PROVE  Served'
<1>1. \A s \in Sockets : state'[s] # "closed" => s \in use'.sockets
  BY DEF Base, Served
<1>2. ASSUME NEW p \in Reqs, p # r PROVE
       /\ pc'[p] = "idle" => ~(conn'[p] # Http)
       /\ pc'[p] = "queued" => (conn'[p] # Http)
       /\ (conn'[p] # Http) => state'[conn'[p]] = "open"
       /\ pc'[p] # "idle" => kind'[p] \in IF conn'[p] # Http THEN use'.socket ELSE use'.http
       /\ pc'[p] \in {"create", "join"} => kind'[p] = "subscribe"
       /\ pc'[p] = "join" => visitor'[p] \in Reqs
       /\ pc'[p] = "upload" => ~(conn'[p] # Http) /\ p \in uploads'
       /\ pc'[p] = "poll" => kind'[p] = "poll" /\ copy'[p] \in Web
       /\ p \in uploads' => /\ kind'[p] = "file" /\ visitor'[p] \in Reqs
                            /\ pc'[p] \in (IF conn'[p] # Http THEN {"save", "done"} ELSE {"upload"})
  BY <1>2 DEF Base, Served, IsSocket, Asked
<1>3.  /\ pc'[r] = "idle" => ~(conn'[r] # Http)
       /\ pc'[r] = "queued" => (conn'[r] # Http)
       /\ (conn'[r] # Http) => state'[conn'[r]] = "open"
       /\ pc'[r] # "idle" => kind'[r] \in IF conn'[r] # Http THEN use'.socket ELSE use'.http
       /\ pc'[r] \in {"create", "join"} => kind'[r] = "subscribe"
       /\ pc'[r] = "join" => visitor'[r] \in Reqs
       /\ pc'[r] = "upload" => ~(conn'[r] # Http) /\ r \in uploads'
       /\ pc'[r] = "poll" => kind'[r] = "poll" /\ copy'[r] \in Web
       /\ r \in uploads' => /\ kind'[r] = "file" /\ visitor'[r] \in Reqs
                            /\ pc'[r] \in (IF conn'[r] # Http THEN {"save", "done"} ELSE {"upload"})
  BY DEF Base, Served, IsSocket, Asked
<1> QED BY <1>1, <1>2, <1>3 DEF Served, Asked, IsSocket

\* Every step keeps what the handlers rely on.
LEMMA ServedNext ==
  ASSUME Base, [Next]_vars PROVE Served'
<1> USE DEF At, Goto, opens, session, sockets, requests, Answer
<1>0. /\ TypeOK /\ Served
      /\ \A p, r \in Reqs : p # r => Own(r) # p /\ (IsSocket(r) => conn[r] # p)
  BY Fields, WebAssumption DEF Base
<1>1. ASSUME NEW s \in Sockets, LoadSession(s) PROVE Served'
  <2>1. \A p \in Reqs : p # s /\ copy'[p] = copy[p]
    BY <1>0, <1>1, WebAssumption DEF LoadSession, TypeOK
  <2>2. \A t \in Sockets : state[t] = "open" => state'[t] = "open"
    BY <1>0, <1>1 DEF LoadSession, TypeOK
  <2>3. \A t \in Sockets : state'[t] # "closed" => t \in use.sockets
    BY <1>0, <1>1 DEF LoadSession, TypeOK, Served
  <2>4. UNCHANGED <<use, pc, kind, conn, visitor, uploads>>
    BY <1>1 DEF LoadSession
  <2>5. \A p \in Reqs : IsSocket(p) => conn[p] \in Sockets
    BY <1>0, Fields
  <2> QED BY <1>0, <2>1, <2>2, <2>3, <2>4, <2>5 DEF Served, Asked, IsSocket
<1>2. ASSUME NEW s \in Sockets, OpenSocket(s) \/ Greet(s) PROVE Served'
  BY <1>0, <1>2 DEF OpenSocket, Greet, TypeOK, Served, Asked, IsSocket
<1>20. ASSUME NEW o, SaveOpening(o) PROVE Served'
  BY <1>0, <1>20 DEF SaveOpening, Served, Asked, IsSocket
<1>4. ASSUME NEW r \in Reqs, NEW c \in Sockets \cup {Http}, NEW k \in IF c = Http THEN use.http ELSE use.socket,
             SendRequest(r, k, c)
      PROVE  Served'
  BY <1>0, <1>4, Fields DEF SendRequest, TypeOK, Served, Asked, IsSocket
<1> DEFINE Acts(r) == \/ ReloadSession(r) \/ SaveSession(r) \/ Subscribe(r) \/ CreateVisitor(r) \/ JoinRoom(r) \/ Leave(r)
                      \/ RefuseMessage(r) \/ HandleMessage(r) \/ HandleFile(r) \/ StoreFile(r)
                      \/ StartPoll(r) \/ RetryPoll(r) \/ EndPoll(r)
<1>5. ASSUME NEW r \in Reqs, Acts(r) PROVE Served'
  <2> USE DEF ReloadSession, SaveSession, Subscribe, CreateVisitor, JoinRoom, Leave, RefuseMessage,
         HandleMessage, HandleFile, StoreFile, StartPoll, RetryPoll, EndPoll
  <2>1. UNCHANGED <<use, state, kind, conn>>
    BY <1>5
  <2>2. pc[r] # "idle"
    BY <1>5, <1>0 DEF Served
  <2>3. ASSUME NEW p \in Reqs, p # r
        PROVE  pc'[p] = pc[p] /\ visitor'[p] = visitor[p] /\ (p \in uploads' <=> p \in uploads)
    BY <1>0, <1>5, <2>3 DEF TypeOK
  <2>4. ASSUME NEW p \in Reqs, p # r
        PROVE  copy'[p] = copy[p]
    BY <1>0, <1>5, <2>4, ServedFields DEF TypeOK
  <2>5. pc'[r] \in {"handle", "create", "join", "upload", "poll", "save", "done"}
    <3>1. CASE StoreFile(r)
      <4>1. IsSocket(r) => pc[r] \in {"save", "done"}
        BY <1>0, <3>1 DEF Served
      <4> QED BY <1>0, <3>1, <4>1 DEF TypeOK
    <3>2. CASE ~StoreFile(r)
      <4>1. pc' = pc \/ \E l \in {"handle", "create", "join", "upload", "poll", "save", "done"} : pc' = [pc EXCEPT ![r] = l]
        BY <1>5, <3>2
      <4>2. pc' = pc => pc[r] = "poll"
        BY <1>0, <1>5, <3>2 DEF TypeOK
      <4> QED BY <1>0, <4>1, <4>2 DEF TypeOK
    <3> QED BY <3>1, <3>2
  <2>6. pc'[r] \in {"create", "join"} => kind[r] = "subscribe"
    <3>1. CASE Subscribe(r) \/ CreateVisitor(r) \/ StoreFile(r)
      BY <1>0, <3>1, ServedFields DEF TypeOK
    <3>2. CASE ~(Subscribe(r) \/ CreateVisitor(r) \/ StoreFile(r))
      <4>1. pc'[r] \notin {"create", "join"}
        BY <1>0, <1>5, <3>2 DEF TypeOK
      <4> QED BY <4>1
    <3> QED BY <3>1, <3>2
  <2>7. pc'[r] = "join" => visitor'[r] \in Reqs
    <3>1. CASE Subscribe(r) \/ CreateVisitor(r)
      BY <1>0, <3>1, Fields DEF TypeOK
    <3>2. CASE StoreFile(r)
      BY <1>0, <3>2 DEF TypeOK, Served
    <3>3. CASE ~(Subscribe(r) \/ CreateVisitor(r) \/ StoreFile(r))
      <4>1. pc'[r] # "join"
        BY <1>0, <1>5, <3>3 DEF TypeOK
      <4> QED BY <4>1
    <3> QED BY <3>1, <3>2, <3>3
  <2>8. pc'[r] = "upload" => ~IsSocket(r) /\ r \in uploads'
    <3>1. CASE HandleFile(r)
      BY <1>0, <3>1 DEF TypeOK
    <3>2. CASE StoreFile(r)
      BY <1>0, <3>2 DEF TypeOK, Served
    <3>3. CASE ~(HandleFile(r) \/ StoreFile(r))
      <4>1. pc'[r] # "upload"
        BY <1>0, <1>5, <3>3 DEF TypeOK
      <4> QED BY <4>1
    <3> QED BY <3>1, <3>2, <3>3
  <2>9. pc'[r] = "poll" => kind[r] = "poll" /\ copy'[r] \in Web
    <3>1. CASE StartPoll(r)
      <4>1. kind[r] = "poll" /\ copy[r] = Session(r)
        <5>1. kind[r] = "poll" /\ pc[r] = "handle"
          BY <3>1
        <5>2. "poll" \notin use.socket
          BY <1>0, UseFields DEF TypeOK
        <5>3. ~IsSocket(r)
          BY <1>0, <5>1, <5>2, ServedFields DEF Asked
        <5> QED BY <1>0, <5>1, <5>3, Fields
      <4>2. pc'[r] = "poll" => copy[r] \in Web /\ copy' = [copy EXCEPT ![r] = [copy[r] EXCEPT !.polling = TRUE]]
        BY <1>0, <3>1, <4>1 DEF TypeOK
      <4>3. copy[r] \in Web => [copy[r] EXCEPT !.polling = TRUE] \in Web
        BY DEF Web
      <4>4. copy \in [Reqs \cup Sockets -> Web \cup {NoWeb}]
        BY <1>0 DEF TypeOK
      <4> QED BY <4>1, <4>2, <4>3, <4>4
    <3>2. CASE RetryPoll(r)
      BY <1>0, <3>2, ServedFields DEF TypeOK
    <3> QED BY <1>0, <1>5, <3>1, <3>2, ServedFields DEF TypeOK
  <2>10. r \in uploads' => /\ kind[r] = "file" /\ visitor'[r] \in Reqs
                           /\ IsSocket(r) => pc'[r] \in {"save", "done"}
                           /\ ~IsSocket(r) => pc'[r] = "upload"
    <3>1. CASE HandleFile(r)
      BY <1>0, <3>1, Fields DEF TypeOK, Valid
    <3>2. CASE ~HandleFile(r)
      BY <1>0, <1>5, <3>2 DEF TypeOK, Served
    <3> QED BY <3>1, <3>2
  <2> QED BY <2>1, <2>2, <2>3, <2>4, <2>5, <2>6, <2>7, <2>8, <2>9, <2>10, ServedBy
<1>6. CASE UNCHANGED vars
  BY <1>0, <1>6 DEF vars, Served, Asked, IsSocket
<1> QED BY <1>0, <1>1, <1>2, <1>4, <1>5, <1>6, <1>20, UseFields, WebAssumption DEF Next, RequestStep, TypeOK

-----------------------------------------------------------------------------
(* What is handed to the bot, and who has subscribed.                      *)

\* A request that is answered, or whose handler has returned, changes no more but
\* for the answer to an upload.
LEMMA SettledStays ==
  ASSUME Base, [Next]_vars, NEW x \in Reqs, pc[x] \in {"save", "done"}
  PROVE  /\ pc'[x] \in {"save", "done"} /\ kind'[x] = kind[x] /\ conn'[x] = conn[x] /\ visitor'[x] = visitor[x]
         /\ answer'[x] = answer[x] \/ kind[x] = "file"
<1> USE DEF At, Goto, opens, session, sockets, requests, Answer
<1>0. TypeOK /\ Served
  BY DEF Base
<1>1. CASE Connects
  BY <1>1 DEF Connects, LoadSession, OpenSocket, SaveOpening, Greet
<1>2. CASE \E r \in Reqs, k \in Kinds, c \in Sockets \cup {Http} : SendRequest(r, k, c)
  BY <1>0, <1>2 DEF SendRequest, TypeOK
<1>3. CASE \E r \in Reqs : RequestStep(r)
  <2> USE DEF ReloadSession, SaveSession, Subscribe, CreateVisitor, JoinRoom, Leave, RefuseMessage,
         HandleMessage, HandleFile, StoreFile, StartPoll, RetryPoll, EndPoll
  <2>1. PICK r \in Reqs : RequestStep(r)
    BY <1>3
  <2>2. CASE x # r
    BY <1>0, <2>1, <2>2 DEF RequestStep, TypeOK
  <2>3. CASE x = r /\ SaveSession(r)
    BY <1>0, <2>3 DEF TypeOK
  <2>4. CASE x = r /\ StoreFile(r)
    BY <1>0, <2>4 DEF TypeOK, Served
  <2> QED BY <2>1, <2>2, <2>3, <2>4 DEF RequestStep
<1>4. CASE UNCHANGED vars
  BY <1>4 DEF vars
<1> QED BY <1>0, <1>1, <1>2, <1>3, <1>4, UseFields DEF Next, Connects, TypeOK

\* The browser never changes, and sockets leave no room.
LEMMA RoomsGrow ==
  ASSUME Base, [Next]_vars
  PROVE  use' = use /\ \A s \in Sockets : room[s] \subseteq room'[s]
<1> USE DEF At, Goto, opens, session, sockets, requests, Answer
<1>0. room \in [Sockets -> SUBSET Reqs] /\ use \in Uses
  BY DEF Base, TypeOK
<1>1. ASSUME NEW s \in Sockets, LoadSession(s) \/ OpenSocket(s) PROVE use' = use /\ room' = room
  BY <1>1 DEF LoadSession, OpenSocket
<1>8. ASSUME NEW o, SaveOpening(o) PROVE use' = use /\ room' = room
  BY <1>8 DEF SaveOpening
<1>2. ASSUME NEW s \in Sockets, Greet(s)
      PROVE  use' = use /\ \E v : room' = [room EXCEPT ![s] = room[s] \cup v]
  BY <1>2 DEF Greet
<1>3. ASSUME NEW r \in Reqs, NEW k, NEW c, SendRequest(r, k, c) PROVE use' = use /\ room' = room
  BY <1>3 DEF SendRequest
<1>4. ASSUME NEW r \in Reqs, JoinRoom(r)
      PROVE  use' = use /\ (room' = room \/ \E v : room' = [room EXCEPT ![conn[r]] = room[conn[r]] \cup v])
  BY <1>4 DEF JoinRoom
<1>5. ASSUME NEW r \in Reqs, RequestStep(r), ~JoinRoom(r) PROVE use' = use /\ room' = room
  BY <1>5 DEF RequestStep, ReloadSession, SaveSession, Subscribe, CreateVisitor, Leave,
     RefuseMessage,
         HandleMessage, HandleFile, StoreFile, StartPoll, RetryPoll, EndPoll
<1>6. CASE UNCHANGED vars
  BY <1>6 DEF vars
<1>7. ASSUME NEW s, NEW v, room' = [room EXCEPT ![s] = room[s] \cup v]
      PROVE  \A t \in Sockets : room[t] \subseteq room'[t]
  BY <1>0, <1>7
<1> QED BY <1>1, <1>2, <1>3, <1>4, <1>5, <1>6, <1>7, <1>8 DEF Next

\* What a step hands to the bot: nothing, a message at its handler or a stored file.
LEMMA Hands ==
  ASSUME Base, [Next]_vars
  PROVE  \/ handed' = handed
         \/ \E r \in Reqs :
              /\ handed' = Append(handed, r)
              /\ pc'[r] \in {"save", "done"} /\ kind'[r] \in {"message", "file"} /\ visitor'[r] \in Reqs
              /\ (kind[r] = "message" /\ pc[r] = "handle") \/ r \in uploads
              /\ conn' = conn
<1> USE DEF At, Goto, opens, session, sockets, requests, Answer
<1>0. TypeOK /\ Served
  BY DEF Base
<1>1. CASE Connects
  BY <1>1 DEF Connects, LoadSession, OpenSocket, SaveOpening, Greet
<1>2. CASE \E r \in Reqs, k \in Kinds, c \in Sockets \cup {Http} : SendRequest(r, k, c)
  BY <1>2 DEF SendRequest
<1>3. ASSUME NEW r \in Reqs, HandleMessage(r)
      PROVE  /\ handed' = Append(handed, r) /\ pc'[r] = "save" /\ kind'[r] = "message" /\ visitor'[r] \in Reqs
             /\ kind[r] = "message" /\ pc[r] = "handle" /\ conn' = conn
  BY <1>0, <1>3, Fields DEF HandleMessage, TypeOK, Valid
<1>4. ASSUME NEW r \in Reqs, StoreFile(r)
      PROVE  /\ handed' = handed \/ handed' = Append(handed, r)
             /\ pc'[r] \in {"save", "done"} /\ kind'[r] = "file" /\ visitor'[r] \in Reqs
             /\ r \in uploads /\ conn' = conn
  BY <1>0, <1>4 DEF StoreFile, TypeOK, Served
<1>5. ASSUME NEW r \in Reqs, RequestStep(r), ~HandleMessage(r), ~StoreFile(r) PROVE handed' = handed
  BY <1>5 DEF RequestStep, ReloadSession, SaveSession, Subscribe, CreateVisitor, JoinRoom,
     Leave, RefuseMessage,
         HandleFile, StartPoll, RetryPoll, EndPoll
<1>6. CASE UNCHANGED vars
  BY <1>6 DEF vars
<1>7. CASE \E r \in Reqs : RequestStep(r)
  BY <1>3, <1>4, <1>5, <1>7
<1> QED BY <1>0, <1>1, <1>2, <1>6, <1>7, UseFields DEF Next, Connects, TypeOK

\* Every step keeps the facts about what is handed.
LEMMA HandingNext ==
  ASSUME Base, Handing, [Next]_vars PROVE Handing'
<1>1. handed \in Seq(Reqs)
  BY DEF Base, TypeOK
<1>2. \A i \in DOMAIN handed : /\ pc'[handed[i]] \in {"save", "done"}
                               /\ kind'[handed[i]] \in {"message", "file"}
                               /\ visitor'[handed[i]] \in Reqs
  BY <1>1, SettledStays DEF Handing
<1>3. CASE handed' = handed
  BY <1>2, <1>3 DEF Handing
<1>4. ASSUME NEW r \in Reqs, handed' = Append(handed, r),
             pc'[r] \in {"save", "done"} /\ kind'[r] \in {"message", "file"} /\ visitor'[r] \in Reqs
      PROVE  Handing'
  <2>1. \A i \in DOMAIN handed' : (i \in DOMAIN handed /\ handed'[i] = handed[i]) \/ handed'[i] = r
    BY <1>1, <1>4, LastAppended
  <2> QED BY <1>2, <1>4, <2>1 DEF Handing
<1> QED BY <1>3, <1>4, Hands

\* Every step keeps the messages of a socket in order.
LEMMA HandedInOrderNext ==
  ASSUME Base, InTurn, Handing, HandedInOrder, [Next]_vars PROVE HandedInOrder'
<1>1. /\ handed \in Seq(Reqs) /\ use' = use /\ use \in Uses
  BY RoomsGrow DEF Base, TypeOK
<1>2. SUFFICES ASSUME "file" \notin use.socket, NEW q \in Reqs, NEW p \in Reqs, Precedes(q, p)',
                      NEW i \in DOMAIN handed', NEW j \in DOMAIN handed', i < j, handed'[i] = p, handed'[j] = q
               PROVE  FALSE
  BY <1>1 DEF HandedInOrder, Before
<1>3. \A x \in Reqs, k \in DOMAIN handed : handed[k] = x => pc[x] \in {"save", "done"} /\ conn'[x] = conn[x]
  BY SettledStays DEF Handing
<1>4. CASE handed' = handed
  <2>1. Precedes(q, p)
    BY <1>2, <1>3, <1>4 DEF Precedes, IsSocket
  <2> QED BY <1>2, <1>4, <2>1 DEF HandedInOrder, Before
<1>5. ASSUME NEW r \in Reqs, handed' = Append(handed, r), conn' = conn,
             (kind[r] = "message" /\ pc[r] = "handle") \/ r \in uploads
      PROVE  FALSE
  <2>0. Precedes(q, p)
    BY <1>2, <1>5 DEF Precedes, IsSocket
  <2>1. \A k \in DOMAIN handed' : (k \in DOMAIN handed /\ handed'[k] = handed[k]) \/ (k = Len(handed) + 1 /\ handed'[k] = r)
    BY <1>1, <1>5, LastAppended
  <2>2. i \in DOMAIN handed /\ handed[i] = p
    BY <1>1, <1>2, <2>1, <1>5
  <2>3. pc[p] # "queued"
    BY <1>3, <2>2
  <2>4. pc[q] = "done"
    BY <2>0, <2>3 DEF InTurn
  <2>5. q \notin uploads
    <3>1. IsSocket(q)
      BY <2>0 DEF Precedes, IsSocket
    <3>2. q \in uploads => kind[q] = "file" /\ kind[q] \in use.socket
      BY <2>4, <3>1 DEF Base, Served, Asked
    <3> QED BY <1>2, <3>2
  <2>6. q # r
    BY <1>5, <2>4, <2>5
  <2>7. j \in DOMAIN handed /\ handed[j] = q
    BY <1>2, <2>1, <2>6
  <2> QED BY <1>2, <2>0, <2>2, <2>7 DEF HandedInOrder, Before
<1> QED BY <1>4, <1>5, Hands

\* Every step keeps a subscribed socket in the room of its visitor.
LEMMA JoinedNext ==
  ASSUME Base, Joined, [Next]_vars PROVE Joined'
<1> USE DEF At, Goto, opens, session, sockets, requests, Answer
<1>0. TypeOK /\ Served /\ conn \in [Reqs -> Sockets \cup {Http}]
  BY DEF Base, TypeOK
<1>1. SUFFICES ASSUME NEW x \in Reqs, conn'[x] # Http, kind'[x] = "subscribe", pc'[x] \in {"save", "done"},
                      answer'[x] # "refused"
               PROVE  visitor'[x] \in Reqs /\ visitor'[x] \in room'[conn'[x]]
  BY DEF Joined, IsSocket
<1>2. CASE pc[x] \in {"save", "done"}
  <2>1. kind[x] = "subscribe" /\ IsSocket(x) /\ answer[x] # "refused" /\ visitor'[x] = visitor[x] /\ conn'[x] = conn[x]
    BY <1>1, <1>2, SettledStays DEF IsSocket
  <2>2. conn[x] \in Sockets
    BY <1>0, <2>1 DEF IsSocket
  <2> QED BY <1>2, <2>1, <2>2, RoomsGrow DEF Joined
<1>3. CASE pc[x] \notin {"save", "done"}
  <2>1. CASE JoinRoom(x)
    <3>1. visitor[x] \in Reqs /\ IsSocket(x) /\ conn[x] \in Sockets
      BY <1>0, <1>1, <2>1, Fields, ServedFields DEF JoinRoom, IsSocket
    <3>2. room' = [room EXCEPT ![conn[x]] = @ \cup {visitor[x]}] /\ visitor' = visitor /\ conn' = conn
      BY <2>1, <3>1 DEF JoinRoom
    <3> QED BY <1>0, <3>1, <3>2 DEF TypeOK
  <2>2. CASE ~JoinRoom(x)
    <3>1. CASE Connects
      BY <1>1, <1>3, <3>1 DEF Connects, LoadSession, OpenSocket, SaveOpening, Greet
    <3>2. CASE \E r \in Reqs, k \in Kinds, c \in Sockets \cup {Http} : SendRequest(r, k, c)
      BY <1>0, <1>1, <1>3, <3>2 DEF SendRequest, TypeOK
    <3>3. CASE \E r \in Reqs : RequestStep(r)
      <4> USE DEF ReloadSession, SaveSession, Subscribe, CreateVisitor, JoinRoom, Leave, RefuseMessage,
             HandleMessage, HandleFile, StoreFile, StartPoll, RetryPoll, EndPoll
      <4>1. PICK r \in Reqs : RequestStep(r)
        BY <3>3
      <4>2. CASE x # r
        BY <1>0, <1>1, <1>3, <4>1, <4>2 DEF RequestStep, TypeOK
      <4>3. CASE x = r
        <5>1. CASE StoreFile(r) \/ HandleFile(r) \/ EndPoll(r)
          BY <1>0, <1>1, <4>3, <5>1 DEF TypeOK, Served
        <5>2. CASE ~(StoreFile(r) \/ HandleFile(r) \/ EndPoll(r))
          BY <1>0, <1>1, <1>3, <2>2, <4>1, <4>3, <5>2 DEF TypeOK, RequestStep
        <5> QED BY <5>1, <5>2
      <4> QED BY <4>2, <4>3
    <3>4. CASE UNCHANGED vars
      BY <1>1, <1>3, <3>4 DEF vars
    <3> QED BY <1>0, <3>1, <3>2, <3>3, <3>4, UseFields DEF Next, Connects, TypeOK
  <2> QED BY <2>1, <2>2
<1> QED BY <1>2, <1>3

\* Every step keeps requests without visitor and answer until they are handled.
LEMMA UntouchedNext ==
  ASSUME Base, Untouched, [Next]_vars PROVE Untouched'
<1> USE DEF At, Goto, opens, session, sockets, requests, Answer
<1>0. TypeOK /\ Served
  BY DEF Base
<1>1. CASE Connects
  BY <1>1 DEF Connects, LoadSession, OpenSocket, SaveOpening, Greet, Untouched
<1>2. CASE \E r \in Reqs, k \in Kinds, c \in Sockets \cup {Http} : SendRequest(r, k, c)
  <2>1. PICK r \in Reqs, k \in Kinds, c \in Sockets \cup {Http} : SendRequest(r, k, c)
    BY <1>2
  <2>2. pc[r] = "idle" /\ visitor' = visitor /\ answer' = answer /\ \E l \in {"queued", "handle"} : pc' = [pc EXCEPT ![r] = l]
    BY <2>1 DEF SendRequest
  <2>3. pc \in [Reqs -> {"idle", "queued", "handle", "create", "join", "upload", "poll", "save", "done"}]
    BY <1>0 DEF TypeOK
  <2> QED BY <2>2, <2>3 DEF Untouched
<1>3. CASE \E r \in Reqs : RequestStep(r)
  <2> USE DEF ReloadSession, SaveSession, Subscribe, CreateVisitor, JoinRoom, Leave, RefuseMessage,
         HandleMessage, HandleFile, StoreFile, StartPoll, RetryPoll, EndPoll
  <2>1. PICK r \in Reqs : RequestStep(r)
    BY <1>3
  <2>2. ASSUME NEW x \in Reqs, x # r
        PROVE  pc'[x] = pc[x] /\ visitor'[x] = visitor[x] /\ answer'[x] = answer[x]
    BY <1>0, <2>1, <2>2 DEF RequestStep, TypeOK
  <2>3. pc'[r] \in {"idle", "queued", "handle", "create"} => visitor'[r] = NoVisitor
    <3>1. CASE StoreFile(r)
      BY <1>0, <3>1 DEF TypeOK, Served
    <3>2. CASE ~StoreFile(r)
      BY <1>0, <2>1, <3>2 DEF RequestStep, TypeOK, Untouched
    <3> QED BY <3>1, <3>2
  <2>4. pc'[r] \notin {"save", "done"} => answer'[r] = "none"
    <3>1. CASE StoreFile(r)
      BY <1>0, <3>1 DEF TypeOK, Served
    <3>2. CASE ~StoreFile(r)
      BY <1>0, <2>1, <3>2 DEF RequestStep, TypeOK, Untouched
    <3> QED BY <3>1, <3>2
  <2> QED BY <2>2, <2>3, <2>4 DEF Untouched
<1>4. CASE UNCHANGED vars
  BY <1>4 DEF vars, Untouched
<1> QED BY <1>0, <1>1, <1>2, <1>3, <1>4, UseFields DEF Next, Connects, TypeOK

-----------------------------------------------------------------------------
(* Whose sessions there are, and where their visitors are.                 *)

\* A session is a copy of one that was there, or that of a visitor just created.
LEMMA SessionsComeFrom ==
  ASSUME Base, [Next]_vars, NEW w \in Sessions', w # NoWeb
  PROVE  \/ \E v \in Sessions : v # NoWeb /\ w.visitor = v.visitor /\ w.isSocket = v.isSocket
         \/ \E r \in Reqs : /\ pc[r] = "create" /\ pc'[r] = "join" /\ visitor'[r] = r /\ conn'[r] = conn[r]
                            /\ w.visitor = r /\ w.isSocket = IsSocket(r)
<1> USE DEF At, Goto, opens, session, sockets, requests, Answer
<1> DEFINE Held == w \in Sessions
<1>0. /\ TypeOK /\ Served /\ copy \in [Reqs \cup Sockets -> Web \cup {NoWeb}]
      /\ pc \in [Reqs -> {"idle", "queued", "handle", "create", "join", "upload", "poll", "save", "done"}]
      /\ conn \in [Reqs -> Sockets \cup {Http}] /\ visitor \in [Reqs -> Reqs \cup {NoVisitor}]
  BY DEF Base, TypeOK
<1>1. CASE Connects
  <2>1. ASSUME NEW s \in Sockets, LoadSession(s) \/ OpenSocket(s) \/ Greet(s) PROVE Held
    BY <1>0, <2>1 DEF LoadSession, OpenSocket, Greet, Sessions
  <2>2. ASSUME NEW o \in opening, SaveOpening(o) PROVE Held
    BY <1>0, <2>2 DEF SaveOpening, Sessions
  <2> QED BY <1>1, <2>1, <2>2 DEF Connects
<1>2. ASSUME NEW r \in Reqs, NEW k, NEW c, SendRequest(r, k, c) PROVE Held
  BY <1>0, <1>2 DEF SendRequest, Sessions
<1>3. ASSUME NEW r \in Reqs, ReloadSession(r) \/ SaveSession(r) PROVE Held
  <2>1. opening' = opening /\ (store' = store \/ store' = copy[Own(r)])
    BY <1>3 DEF ReloadSession, SaveSession, Session
  <2>2. copy' = copy \/ copy' = [copy EXCEPT ![conn[r]] = store]
    BY <1>3 DEF ReloadSession, SaveSession
  <2>3. Own(r) \in Reqs \cup Sockets
    BY <1>0, Fields
  <2> QED BY <1>0, <2>1, <2>2, <2>3 DEF Sessions
<1>4. ASSUME NEW r \in Reqs, CreateVisitor(r)
      PROVE  \/ Held
             \/ /\ pc[r] = "create" /\ pc'[r] = "join" /\ visitor'[r] = r /\ conn'[r] = conn[r]
                /\ w.visitor = r /\ w.isSocket = IsSocket(r)
  <2>1. opening' = opening /\ store' = store /\ conn' = conn /\ pc[r] = "create" /\ Own(r) \in Reqs \cup Sockets
    BY <1>0, <1>4, Fields DEF CreateVisitor
  <2>2. CASE copy' = copy
    BY <2>1, <2>2 DEF Sessions
  <2>3. CASE copy' # copy
    <3>1. /\ pc' = [pc EXCEPT ![r] = "join"] /\ visitor' = [visitor EXCEPT ![r] = r]
          /\ copy' = [copy EXCEPT ![Own(r)] = [visitor |-> r, isSocket |-> IsSocket(r), polling |-> FALSE]]
      BY <1>4, <2>3 DEF CreateVisitor
    <3>2. Held \/ w = [visitor |-> r, isSocket |-> IsSocket(r), polling |-> FALSE]
      BY <1>0, <2>1, <3>1 DEF Sessions
    <3>3. pc'[r] = "join" /\ visitor'[r] = r
      BY <1>0, <3>1
    <3> QED BY <2>1, <3>2, <3>3
  <2> QED BY <2>2, <2>3
<1>5. ASSUME NEW r \in Reqs, Leave(r) PROVE Held
  <2>1. opening' = opening /\ store' = store /\ copy' = [copy EXCEPT ![Own(r)] = NoWeb]
    BY <1>5 DEF Leave
  <2> QED BY <1>0, <2>1 DEF Sessions
<1>6. ASSUME NEW r \in Reqs, StartPoll(r) \/ EndPoll(r)
      PROVE  \E v \in Sessions : v # NoWeb /\ w.visitor = v.visitor /\ w.isSocket = v.isSocket
  <2>1. /\ opening' = opening /\ store' = store
        /\ \/ copy' = copy
           \/ \E b \in BOOLEAN : copy' = [copy EXCEPT ![r] = [copy[r] EXCEPT !.polling = b]]
    BY <1>6 DEF StartPoll, EndPoll
  <2>2. copy' # copy => copy[r] \in Web
    <3>1. CASE StartPoll(r)
      <4>1. kind[r] = "poll" /\ pc[r] = "handle"
        BY <3>1 DEF StartPoll
      <4>2. "poll" \notin use.socket
        BY <1>0, UseFields DEF TypeOK
      <4>3. Session(r) = copy[r]
        BY <1>0, <4>1, <4>2, Fields, ServedFields DEF Asked
      <4> QED BY <1>0, <3>1, <4>3 DEF StartPoll
    <3>2. CASE EndPoll(r)
      BY <1>0, <3>2, ServedFields DEF EndPoll
    <3> QED BY <1>6, <3>1, <3>2
  <2>3. CASE w \in Sessions
    BY <2>3
  <2>4. CASE w \notin Sessions
    <3>1. PICK b \in BOOLEAN : copy' = [copy EXCEPT ![r] = [copy[r] EXCEPT !.polling = b]]
      BY <2>1, <2>4 DEF Sessions
    <3>2. copy[r] \in Web /\ copy[r] # NoWeb
      <4>1. copy' # copy
        BY <2>1, <2>4 DEF Sessions
      <4>2. w = [copy[r] EXCEPT !.polling = b]
        BY <1>0, <2>1, <2>4, <3>1 DEF Sessions
      <4> QED BY <1>6, <2>2, <2>4, <4>1, WebAssumption
    <3>3. w = [copy[r] EXCEPT !.polling = b]
      BY <1>0, <2>1, <2>4, <3>1 DEF Sessions
    <3>4. w.visitor = copy[r].visitor /\ w.isSocket = copy[r].isSocket
      BY <3>2, <3>3 DEF Web
    <3> QED BY <3>2, <3>4 DEF Sessions
  <2> QED BY <2>3, <2>4
<1>7. ASSUME NEW r \in Reqs, RequestStep(r), ~ReloadSession(r), ~SaveSession(r), ~CreateVisitor(r), ~Leave(r),
             ~StartPoll(r), ~EndPoll(r)
      PROVE  Held
  <2>1. opening' = opening /\ store' = store /\ copy' = copy
    BY <1>7 DEF RequestStep, Subscribe, JoinRoom, RefuseMessage, HandleMessage, HandleFile,
       StoreFile, RetryPoll
  <2> QED BY <2>1 DEF Sessions
<1>8. CASE UNCHANGED vars
  BY <1>8 DEF vars, Sessions
<1> QED BY <1>1, <1>2, <1>3, <1>4, <1>5, <1>6, <1>7, <1>8 DEF Next, Connects

\* Every step keeps the sessions those of sockets, if only sockets subscribe.
LEMMA OverSocketNext ==
  ASSUME Base, OverSocket, [Next]_vars PROVE OverSocket'
<1>1. SUFFICES ASSUME "subscribe" \notin use.http, NEW w \in Sessions', w # NoWeb PROVE w.isSocket
  BY RoomsGrow DEF OverSocket
<1>2. ASSUME NEW r \in Reqs, pc[r] = "create" PROVE IsSocket(r)
  BY <1>1, <1>2, ServedFields DEF Base, Asked
<1> QED BY <1>1, <1>2, SessionsComeFrom DEF OverSocket

\* Who entered stays: in a room, or about to join one.
LEMMA EntrantsStay ==
  ASSUME Base, [Next]_vars PROVE Entrants \subseteq Entrants'
<1> USE DEF At, Goto, opens, session, sockets, requests, Answer
<1>0. /\ TypeOK /\ Served /\ use' = use /\ \A s \in Sockets : room[s] \subseteq room'[s]
      /\ use.sockets \subseteq Sockets
  BY RoomsGrow, UseFields DEF Base, TypeOK
<1>1. ASSUME NEW v \in Reqs, NEW s \in use.sockets, v \in room[s] PROVE v \in Entrants'
  BY <1>0, <1>1 DEF Entrants
<1>2. ASSUME NEW p \in Reqs, pc[p] = "join", IsSocket(p) PROVE visitor[p] \in Entrants'
  <2>1. visitor[p] \in Reqs /\ conn[p] \in Sockets /\ conn[p] \in use.sockets
    BY <1>0, <1>2, Fields DEF Served
  <2>2. CASE JoinRoom(p)
    <3>1. room' = [room EXCEPT ![conn[p]] = @ \cup {visitor[p]}]
      BY <1>2, <2>2 DEF JoinRoom
    <3>2. room \in [Sockets -> SUBSET Reqs]
      BY <1>0 DEF TypeOK
    <3>3. visitor[p] \in room'[conn[p]]
      BY <2>1, <3>1, <3>2
    <3> QED BY <1>0, <2>1, <3>3 DEF Entrants
  <2>3. CASE ~JoinRoom(p)
    <3>1. CASE Connects
      BY <1>2, <2>1, <3>1 DEF Connects, LoadSession, OpenSocket, SaveOpening, Greet, Entrants, IsSocket
    <3>2. CASE \E r \in Reqs, k \in Kinds, c \in Sockets \cup {Http} : SendRequest(r, k, c)
      <4>1. pc'[p] = pc[p] /\ conn'[p] = conn[p] /\ visitor'[p] = visitor[p]
        BY <1>0, <1>2, <3>2 DEF SendRequest, TypeOK
      <4> QED BY <1>2, <2>1, <4>1 DEF Entrants, IsSocket
    <3>3. CASE \E r \in Reqs : RequestStep(r)
      <4>1. PICK r \in Reqs : RequestStep(r)
        BY <3>3
      <4>2. pc'[p] = pc[p] /\ visitor'[p] = visitor[p] /\ conn'[p] = conn[p]
        <5> USE DEF ReloadSession, SaveSession, Subscribe, CreateVisitor, JoinRoom, Leave, RefuseMessage,
         HandleMessage, HandleFile, StoreFile, StartPoll, RetryPoll, EndPoll
        <5>1. CASE p # r
          BY <1>0, <4>1, <5>1 DEF RequestStep, TypeOK
        <5>2. CASE p = r
          BY <1>0, <1>2, <2>3, <4>1, <5>2 DEF RequestStep, TypeOK, Served
        <5> QED BY <5>1, <5>2
      <4> QED BY <1>2, <2>1, <4>2 DEF Entrants, IsSocket
    <3>4. CASE UNCHANGED vars
      BY <1>2, <2>1, <3>4 DEF vars, Entrants, IsSocket
    <3> QED BY <1>0, <3>1, <3>2, <3>3, <3>4, UseFields DEF Next, Connects, TypeOK
  <2> QED BY <2>2, <2>3
<1> QED BY <1>1, <1>2 DEF Entrants

\* Every step keeps the visitors of sockets' sessions in a room, or about to join.
LEMMA OpenedHereNext ==
  ASSUME Base, OpenedHere, [Next]_vars PROVE OpenedHere'
<1>1. SUFFICES ASSUME NEW w \in Sessions', w # NoWeb, w.isSocket PROVE w.visitor \in Entrants'
  BY DEF OpenedHere
<1>2. ASSUME NEW v \in Sessions, v # NoWeb, v.isSocket, v.visitor = w.visitor
      PROVE  w.visitor \in Entrants'
  BY <1>2, EntrantsStay DEF OpenedHere
<1>3. ASSUME NEW r \in Reqs, pc'[r] = "join", visitor'[r] = r, conn'[r] = conn[r], IsSocket(r), w.visitor = r
      PROVE  w.visitor \in Entrants'
  BY <1>3 DEF Entrants, IsSocket
<1> QED BY <1>1, <1>2, <1>3, SessionsComeFrom

\* Of the requests of one socket one is handled at a time.
LEMMA OneTurn ==
  ASSUME Base, NEW p \in Reqs, NEW r \in Reqs, conn[p] = conn[r], IsSocket(r),
         pc[p] \in Working \cup {"queued"}, p = Head(queue[conn[p]]) \/ pc[p] # "queued", 
         pc[r] \in Working \cup {"queued"}, r = Head(queue[conn[r]]) \/ pc[r] # "queued"
  PROVE  p = r
<1>1. IsSocket(p)
  BY DEF IsSocket
<1>2. pc[p] \notin {"idle", "done"} /\ pc[r] \notin {"idle", "done"}
  BY DEF Working
<1> QED BY <1>1, <1>2, QueueFirst

\* Every step keeps what a lone tab's messages are attributed to in its room.
LEMMA AddressedNext ==
  ASSUME Base, OpenedHere, Untouched, Addressed, [Next]_vars PROVE Addressed'
<1> USE DEF At, Goto, opens, session, sockets, requests, Answer
<1>0. /\ TypeOK /\ Served /\ use' = use /\ \A s \in Sockets : room[s] \subseteq room'[s]
      /\ conn \in [Reqs -> Sockets \cup {Http}]
  BY RoomsGrow DEF Base, TypeOK
<1>1. SUFFICES ASSUME OneTab(use), NEW x \in Reqs, conn'[x] # Http, kind'[x] \in {"message", "file"}, visitor'[x] # NoVisitor
               PROVE  visitor'[x] \in room'[conn'[x]]
  BY <1>0 DEF Addressed, IsSocket
<1>2. CASE conn'[x] = conn[x] /\ kind'[x] = kind[x] /\ visitor'[x] = visitor[x]
  <2>1. IsSocket(x) /\ conn[x] \in Sockets
    BY <1>0, <1>1, <1>2 DEF IsSocket
  <2> QED BY <1>0, <1>1, <1>2, <2>1 DEF Addressed
<1>3. ASSUME HandleMessage(x) \/ HandleFile(x) PROVE visitor'[x] \in room'[conn'[x]]
  <2>1. /\ pc[x] = "handle" /\ Session(x) # NoWeb /\ conn' = conn
        /\ visitor'[x] = Session(x).visitor /\ (IsSocket(x) => Session(x).isSocket)
    BY <1>0, <1>3 DEF HandleMessage, HandleFile, Valid, TypeOK
  <2>2. IsSocket(x) /\ conn[x] \in Sockets /\ conn[x] \in use.sockets
    BY <1>0, <1>1, <2>1 DEF IsSocket, Served
  <2>3. Session(x) \in Sessions
    BY <1>0, Fields DEF Sessions, Session
  <2>4. visitor'[x] \in Entrants
    BY <2>1, <2>2, <2>3 DEF OpenedHere
  <2>5. \A p \in Reqs : ~(pc[p] = "join" /\ IsSocket(p))
    <3>1. SUFFICES ASSUME NEW p \in Reqs, pc[p] = "join", IsSocket(p) PROVE FALSE
      OBVIOUS
    <3>2. conn[p] \in use.sockets
      BY <1>0, <3>1 DEF Served, IsSocket
    <3>3. conn[p] = conn[x]
      BY <1>1, <2>2, <3>2 DEF OneTab
    <3> QED BY <2>1, <2>2, <3>1, <3>3, OneTurn DEF Working
  <2>6. \E s \in use.sockets : visitor'[x] \in room[s]
    BY <2>4, <2>5 DEF Entrants
  <2> QED BY <1>0, <1>1, <2>1, <2>2, <2>6 DEF OneTab
<1>4. CASE Connects
  BY <1>2, <1>4 DEF Connects, LoadSession, OpenSocket, SaveOpening, Greet
<1>5. CASE \E r \in Reqs, k \in Kinds, c \in Sockets \cup {Http} : SendRequest(r, k, c)
  <2>1. PICK r \in Reqs, k \in Kinds, c \in Sockets \cup {Http} : SendRequest(r, k, c)
    BY <1>5
  <2>2. x # r
    BY <1>1, <2>1 DEF SendRequest, Untouched
  <2> QED BY <1>0, <1>2, <2>1, <2>2 DEF SendRequest, TypeOK
<1>6. CASE \E r \in Reqs : RequestStep(r) /\ (~(HandleMessage(r) \/ HandleFile(r)) \/ x # r)
  <2> USE DEF ReloadSession, SaveSession, Subscribe, CreateVisitor, JoinRoom, Leave, RefuseMessage,
         HandleMessage, HandleFile, StoreFile, StartPoll, RetryPoll, EndPoll
  <2>1. PICK r \in Reqs : RequestStep(r) /\ (~(HandleMessage(r) \/ HandleFile(r)) \/ x # r)
    BY <1>6
  <2>2. conn' = conn /\ kind' = kind
    BY <2>1 DEF RequestStep
  <2>3. visitor'[x] = visitor[x]
    <3>1. CASE x # r
      BY <1>0, <2>1, <3>1 DEF RequestStep, TypeOK
    <3>2. CASE x = r
      <4>1. ~(Subscribe(r) \/ CreateVisitor(r))
        BY <1>0, <1>1, <2>2, <3>2, ServedFields
      <4> QED BY <2>1, <3>2, <4>1 DEF RequestStep
    <3> QED BY <3>1, <3>2
  <2> QED BY <1>2, <2>2, <2>3
<1>7. CASE UNCHANGED vars
  BY <1>2, <1>7 DEF vars
<1> QED BY <1>0, <1>3, <1>4, <1>5, <1>6, <1>7, UseFields DEF Next, Connects, RequestStep, TypeOK

-----------------------------------------------------------------------------
(* Browsers that use one connection at a time.                             *)

\* Only sending a request makes it pending.
LEMMA PendingBefore ==
  ASSUME Base, [Next]_vars, NEW x \in Reqs, pc'[x] \notin {"idle", "done"} \/ x \in uploads'
  PROVE  \/ Pending(x) /\ conn'[x] = conn[x]
         \/ \E k \in Kinds, c \in Sockets \cup {Http} : SendRequest(x, k, c) /\ conn'[x] = c
<1> USE DEF At, Goto, opens, session, sockets, requests, Answer
<1>0. TypeOK /\ Served
  BY DEF Base
<1>1. CASE Connects
  BY <1>1 DEF Connects, LoadSession, OpenSocket, SaveOpening, Greet, Pending
<1>2. CASE \E r \in Reqs, k \in Kinds, c \in Sockets \cup {Http} : SendRequest(r, k, c)
  <2>1. PICK r \in Reqs, k \in Kinds, c \in Sockets \cup {Http} : SendRequest(r, k, c)
    BY <1>2
  <2>2. CASE x = r
    <3>1. conn'[x] = c
      BY <1>0, <2>1, <2>2 DEF SendRequest, TypeOK
    <3> QED BY <2>1, <2>2, <3>1
  <2>3. CASE x # r
    BY <1>0, <2>1, <2>3 DEF SendRequest, TypeOK, Pending
  <2> QED BY <2>2, <2>3
<1>3. CASE \E r \in Reqs : RequestStep(r)
  <2> USE DEF ReloadSession, SaveSession, Subscribe, CreateVisitor, JoinRoom, Leave, RefuseMessage,
         HandleMessage, HandleFile, StoreFile, StartPoll, RetryPoll, EndPoll
  <2>1. PICK r \in Reqs : RequestStep(r)
    BY <1>3
  <2>2. CASE x # r
    BY <1>0, <2>1, <2>2 DEF RequestStep, TypeOK, Pending
  <2>3. CASE x = r /\ ~SaveSession(r)
    BY <1>0, <2>1, <2>3 DEF RequestStep, TypeOK, Pending
  <2>4. CASE x = r /\ SaveSession(r)
    BY <1>0, <2>1, <2>4 DEF TypeOK, Pending
  <2> QED BY <2>2, <2>3, <2>4
<1>4. CASE UNCHANGED vars
  BY <1>4 DEF vars, Pending
<1> QED BY <1>0, <1>1, <1>2, <1>3, <1>4, UseFields DEF Next, Connects, TypeOK

\* Every step keeps to one connection at a time, where the browser does.
LEMMA AloneNext ==
  ASSUME Base, Alone, [Next]_vars PROVE Alone'
<1>0. TypeOK /\ Served /\ use' = use /\ state \in [Sockets -> {"closed", "loaded", "open"}] /\ Http \notin Sockets
  BY RoomsGrow, WebAssumption DEF Base, TypeOK
<1> DEFINE Busy(x) == pc'[x] \notin {"idle", "done"} \/ x \in uploads'
<1>1. SUFFICES ASSUME ~use.overlap
               PROVE  /\ \A q, r \in Reqs : Busy(q) /\ Busy(r) => conn'[q] = conn'[r]
                      /\ \A s \in Sockets : state'[s] = "loaded" => \A r \in Reqs : ~Busy(r)
                      /\ \A s, t \in Sockets : state'[s] = "loaded" /\ state'[t] = "loaded" => s = t
  BY <1>0 DEF Alone, Pending
<1>2. CASE \E r \in Reqs, k \in Kinds, c \in Sockets \cup {Http} : SendRequest(r, k, c)
  <2>1. PICK r \in Reqs, k \in Kinds, c \in Sockets \cup {Http} : SendRequest(r, k, c)
    BY <1>2
  <2>2. /\ OnlyUses(c) /\ state' = state /\ uploads' = uploads /\ pc[r] = "idle" /\ conn' = [conn EXCEPT ![r] = c]
        /\ \E l \in {"handle", "queued"} : pc' = [pc EXCEPT ![r] = l]
        /\ c \in Sockets => state[c] = "open"
    BY <1>0, <1>1, <2>1 DEF SendRequest, At, Goto, sockets
  <2>3. \A s \in Sockets : state'[s] # "loaded"
    BY <2>2 DEF OnlyUses
  <2>4. \A q \in Reqs : Busy(q) => conn'[q] = c
    BY <1>0, <2>2 DEF OnlyUses, Pending, TypeOK
  <2> QED BY <2>3, <2>4
<1>3. CASE ~(\E r \in Reqs, k \in Kinds, c \in Sockets \cup {Http} : SendRequest(r, k, c))
  <2>0. \A q \in Reqs : Busy(q) => Pending(q) /\ conn'[q] = conn[q]
    BY <1>3, PendingBefore
  <2>1. ASSUME NEW s \in Sockets, LoadSession(s)
        PROVE  /\ \A t \in Sockets : state'[t] = "loaded" => t = s
               /\ \A r \in Reqs : ~Pending(r)
    <3>1. OnlyUses(s) /\ state[s] = "closed" /\ state' = [state EXCEPT ![s] = "loaded"]
      BY <1>1, <2>1 DEF LoadSession
    <3>2. \A r \in Reqs : conn[r] # s
      BY <1>0, <3>1 DEF Served, IsSocket
    <3> QED BY <1>0, <3>1, <3>2 DEF OnlyUses
  <2>2. CASE \E s \in Sockets : LoadSession(s)
    BY <2>0, <2>1, <2>2
  <2>3. CASE ~(\E s \in Sockets : LoadSession(s))
    <3>1. \A t \in Sockets : state'[t] = "loaded" => state[t] = "loaded"
      <4> USE DEF sockets
      <4>1. CASE Connects
        BY <1>0, <2>3, <4>1 DEF Connects, OpenSocket, SaveOpening, Greet
      <4>2. CASE \E r \in Reqs : RequestStep(r)
        BY <4>2 DEF RequestStep, ReloadSession, SaveSession, Subscribe, CreateVisitor, JoinRoom,
           Leave, RefuseMessage,
         HandleMessage, HandleFile, StoreFile, StartPoll, RetryPoll, EndPoll
      <4>3. CASE UNCHANGED vars
        BY <4>3 DEF vars
      <4> QED BY <1>0, <1>3, <2>3, <4>1, <4>2, <4>3, UseFields DEF Next, Connects, TypeOK
    <3> QED BY <1>1, <2>0, <3>1 DEF Alone
  <2> QED BY <2>2, <2>3
<1> QED BY <1>2, <1>3

\* What has been undone is so for good.
LEMMA OvertakenStays ==
  ASSUME TypeOK, [Next]_vars, overtaken PROVE overtaken'
<1> USE DEF At, Goto, opens, session, sockets, requests, Answer
<1>1. CASE Connects
  BY <1>1 DEF Connects, LoadSession, OpenSocket, SaveOpening, Greet
<1>2. CASE \E r \in Reqs, k \in Kinds, c \in Sockets \cup {Http} : SendRequest(r, k, c)
  BY <1>2 DEF SendRequest
<1>3. CASE \E r \in Reqs : RequestStep(r)
  BY <1>3 DEF RequestStep, ReloadSession, SaveSession, Subscribe, CreateVisitor, JoinRoom, Leave,
     RefuseMessage, HandleMessage, HandleFile, StoreFile, StartPoll, RetryPoll, EndPoll
<1>4. CASE UNCHANGED vars
  BY <1>4 DEF vars
<1> QED BY <1>1, <1>2, <1>3, <1>4, UseFields DEF Next, Connects, TypeOK

\* Being in step depends on who the stored visitor is, not on the rest of the session.
LEMMA InStepSame ==
  ASSUME NEW l, NEW sock, NEW v, NEW m, NEW st, InStep(l, sock, v, m, st), NEW st1, Same(st1, st)
  PROVE  InStep(l, sock, v, m, st1)
BY DEF InStep, Same

\* The session of a request that is not handled is no matter.
LEMMA InStepIdle ==
  ASSUME NEW l, NEW sock, NEW v, NEW m, NEW st, InStep(l, sock, v, m, st), NEW m1, l \notin Working
  PROVE  InStep(l, sock, v, m1, st)
BY DEF InStep, Working

\* Nobody else works while the request of a socket does, in a calm browser.
LEMMA WorksAlone ==
  ASSUME Base, Alone, ~use.overlap, NEW r \in Reqs, IsSocket(r), pc[r] \in Working, NEW x \in Reqs, x # r
  PROVE  pc[x] \notin Working
<1>1. ASSUME pc[x] \in Working PROVE FALSE
  <2>1. Pending(x) /\ Pending(r)
    BY <1>1 DEF Pending, Working
  <2>2. conn[x] = conn[r]
    BY <2>1 DEF Alone
  <2>3. pc[x] # "queued" /\ pc[r] # "queued"
    BY <1>1 DEF Working
  <2> QED BY <1>1, <2>2, <2>3, OneTurn
<1> QED BY <1>1

\* The sessions that request r does not work with stay in step with the stored one.
LEMMA OthersInStep ==
  ASSUME Base, Steady, Calm(use), ~overtaken, NEW r \in Reqs, [Next]_vars,
         pc[r] \in Working \cup {"queued"}, pc[r] = "queued" => r = Head(queue[conn[r]]) /\ IsSocket(r),
         UNCHANGED <<state, conn>>,
         \A x \in Reqs : x # r => pc'[x] = pc[x] /\ visitor'[x] = visitor[x],
         \A c \in Reqs \cup Sockets : c # Own(r) => copy'[c] = copy[c]
  PROVE  /\ \A s \in Sockets : state'[s] = "loaded" => Same(copy'[s], store)
         /\ \A x \in Reqs : x # r => InStep(pc'[x], IsSocket(x)', visitor'[x], Session(x)', store)
<1>0. TypeOK /\ Served /\ Own(r) \in Reqs \cup Sockets
  BY Fields DEF Base
<1>1. ASSUME NEW s \in Sockets, state'[s] = "loaded" PROVE Same(copy'[s], store)
  <2>1. s # Own(r)
    <3>1. IsSocket(r) => Own(r) = conn[r] /\ state[conn[r]] = "open"
      BY <1>0, Fields, ServedFields
    <3>2. ~IsSocket(r) => Own(r) = r /\ r \notin Sockets
      BY <1>0, Fields, WebAssumption
    <3> QED BY <1>1, <3>1, <3>2
  <2> QED BY <1>1, <2>1 DEF Steady
<1>2. ASSUME NEW x \in Reqs, x # r
      PROVE  InStep(pc'[x], conn'[x] # Http, visitor'[x], copy'[IF conn'[x] # Http THEN conn'[x] ELSE x], store)
  <2>1. InStep(pc[x], conn[x] # Http, visitor[x], copy[Own(x)], store)
    BY DEF Steady, IsSocket, Session
  <2>2. Own(x) = IF conn'[x] # Http THEN conn'[x] ELSE x
    BY DEF Own, IsSocket
  <2>3. Own(x) \in Reqs \cup Sockets
    BY <1>0, Fields
  <2>4. CASE Own(x) # Own(r)
    <3>1. copy'[Own(x)] = copy[Own(x)]
      BY <2>3, <2>4
    <3> QED BY <1>2, <2>1, <2>2, <3>1
  <2>5. CASE Own(x) = Own(r)
    <3>1. conn[x] = conn[r] /\ IsSocket(r)
      BY <1>0, <1>2, <2>5, Fields, WebAssumption DEF TypeOK
    <3>2. pc[x] \notin Working
      <4>1. "queued" \notin Working
        BY DEF Working
      <4> QED BY <1>2, <3>1, <4>1, OneTurn
    <3> QED BY <1>2, <2>1, <2>2, <3>2, InStepIdle
  <2> QED BY <2>4, <2>5
<1> QED BY <1>1, <1>2 DEF IsSocket, Session, Own

\* A step of one request that saves nothing keeps all in step if it keeps itself so.
LEMMA SteadyBy ==
  ASSUME Base, Steady, NEW r \in Reqs, [Next]_vars,
         pc[r] \in Working \cup {"queued"}, pc[r] = "queued" => r = Head(queue[conn[r]]) /\ IsSocket(r),
         UNCHANGED <<use, state, conn, store>>,
         \A x \in Reqs : x # r => pc'[x] = pc[x] /\ visitor'[x] = visitor[x],
         \A c \in Reqs \cup Sockets : c # Own(r) => copy'[c] = copy[c],
         Calm(use) => InStep(pc'[r], IsSocket(r), visitor'[r], copy'[Own(r)], store)
  PROVE  Steady'
<1>1. SUFFICES ASSUME Calm(use), ~overtaken'
               PROVE  /\ \A s \in Sockets : state'[s] = "loaded" => Same(copy'[s], store')
                      /\ \A x \in Reqs : InStep(pc'[x], IsSocket(x)', visitor'[x], Session(x)', store')
  BY DEF Steady
<1>3. ~overtaken
  BY <1>1, OvertakenStays DEF Base
<1>2. InStep(pc'[r], IsSocket(r)', visitor'[r], Session(r)', store')
  BY <1>1 DEF IsSocket, Session, Own
<1> QED BY <1>1, <1>2, <1>3, OthersInStep

\* Every step keeps the sessions of a calm browser in step with the stored one.
LEMMA SteadyNext ==
  ASSUME Base, Alone, Steady, [Next]_vars PROVE Steady'
<1> USE DEF At, Goto, opens, session, sockets, requests, Answer
<1>0. /\ TypeOK /\ Served /\ use' = use /\ copy \in [Reqs \cup Sockets -> Web \cup {NoWeb}]
      /\ pc \in [Reqs -> {"idle", "queued", "handle", "create", "join", "upload", "poll", "save", "done"}]
      /\ conn \in [Reqs -> Sockets \cup {Http}] /\ visitor \in [Reqs -> Reqs \cup {NoVisitor}]
      /\ state \in [Sockets -> {"closed", "loaded", "open"}] /\ NoVisitor \notin Reqs
      /\ \A x \in Reqs : Own(x) \in Reqs \cup Sockets
  BY RoomsGrow, Fields DEF Base, TypeOK, NoVisitor, Reqs
<1>01. SUFFICES ASSUME Calm(use), ~overtaken' PROVE Steady'
  BY <1>0 DEF Steady
<1>001. ~overtaken
  BY <1>0, <1>01, OvertakenStays
<1>02. /\ use.faults = {} /\ ~use.overlap /\ \A x \in Reqs : pc[x] # "idle" => kind[x] # "leave" /\ (kind[x] = "subscribe" => IsSocket(x))
  BY <1>0, <1>01, ServedFields DEF Calm, Asked
<1>03. /\ \A s \in Sockets : state[s] = "loaded" => Same(copy[s], store)
       /\ \A x \in Reqs : InStep(pc[x], IsSocket(x), visitor[x], Session(x), store)
  BY <1>01, <1>001 DEF Steady
<1>1. ASSUME NEW s \in Sockets, LoadSession(s) PROVE Steady'
  <2>1. copy' = [copy EXCEPT ![s] = store] /\ state[s] = "closed" /\ state' = [state EXCEPT ![s] = "loaded"]
        /\ UNCHANGED <<store, pc, conn, visitor>>
    BY <1>1 DEF LoadSession
  <2>2. ASSUME NEW x \in Reqs PROVE Own(x) # s
    BY <1>0, <2>1, Fields, ServedFields, WebAssumption
  <2>3. \A x \in Reqs : copy'[Own(x)] = copy[Own(x)]
    BY <1>0, <2>1, <2>2
  <2>4. \A t \in Sockets : state'[t] = "loaded" => Same(copy'[t], store)
    BY <1>0, <1>03, <2>1 DEF Same
  <2> QED BY <1>03, <2>1, <2>3, <2>4 DEF Steady, IsSocket, Session, Own
<1>2. ASSUME NEW s \in Sockets, OpenSocket(s) PROVE Steady'
  <2>1. /\ \A t \in Sockets : state'[t] = "loaded" => state[t] = "loaded"
        /\ UNCHANGED <<store, copy, pc, conn, visitor>>
    BY <1>0, <1>2 DEF OpenSocket
  <2> QED BY <1>03, <2>1 DEF Steady, IsSocket, Session, Own
<1>20. ASSUME NEW o, SaveOpening(o) PROVE Steady'
  <2>1. store' = store /\ UNCHANGED <<copy, state, pc, conn, visitor>>
    BY <1>01, <1>20 DEF SaveOpening
  <2> QED BY <1>03, <2>1 DEF Steady, IsSocket, Session, Own
<1>3. ASSUME NEW s \in Sockets, Greet(s) PROVE Steady'
  BY <1>03, <1>3 DEF Greet, Steady, IsSocket, Session, Own
<1>4. ASSUME NEW r \in Reqs, NEW k \in Kinds, NEW c \in Sockets \cup {Http}, SendRequest(r, k, c)
      PROVE  Steady'
  <2>1. pc[r] = "idle" /\ ~IsSocket(r) /\ conn' = [conn EXCEPT ![r] = c] /\ UNCHANGED <<store, state, visitor>>
    BY <1>0, <1>4, ServedFields DEF SendRequest
  <2>2. \/ c = Http /\ copy' = [copy EXCEPT ![r] = store] /\ pc' = [pc EXCEPT ![r] = "handle"]
        \/ c # Http /\ copy' = copy /\ pc' = [pc EXCEPT ![r] = "queued"]
    BY <1>4 DEF SendRequest
  <2>3. \A t \in Sockets : copy'[t] = copy[t]
    BY <1>0, <2>2, WebAssumption
  <2>4. ASSUME NEW x \in Reqs, x # r
        PROVE  InStep(pc'[x], conn'[x] # Http, visitor'[x], copy'[IF conn'[x] # Http THEN conn'[x] ELSE x], store')
    <3>1. conn'[x] = conn[x] /\ pc'[x] = pc[x] /\ visitor'[x] = visitor[x]
      BY <1>0, <2>1, <2>2, <2>4
    <3>2. Own(x) # r
      BY <1>0, <2>4, Fields, WebAssumption
    <3>3. copy'[Own(x)] = copy[Own(x)]
      BY <1>0, <2>2, <3>2
    <3> QED BY <1>03, <2>1, <3>1, <3>3 DEF Own, IsSocket, Session
  <2>5. InStep(pc'[r], conn'[r] # Http, visitor'[r], copy'[IF conn'[r] # Http THEN conn'[r] ELSE r], store')
    <3>1. InStep("idle", IsSocket(r), visitor[r], Session(r), store)
      BY <1>03, <2>1
    <3>2. visitor[r] # NoVisitor => store # NoWeb /\ store.visitor = visitor[r]
      BY <3>1 DEF InStep
    <3>3. CASE c = Http
      <4>1. conn'[r] = Http /\ pc'[r] = "handle" /\ copy'[r] = store
        BY <1>0, <2>1, <2>2, <3>3
      <4> QED BY <2>1, <3>2, <4>1 DEF InStep, Same
    <3>4. CASE c # Http
      <4>1. pc'[r] = "queued"
        BY <1>0, <2>1, <2>2, <3>4
      <4> QED BY <2>1, <3>2, <4>1 DEF InStep, Working
    <3> QED BY <3>3, <3>4
  <2> QED BY <1>03, <2>1, <2>3, <2>4, <2>5 DEF Steady, IsSocket, Session, Own
<1>5. ASSUME NEW r \in Reqs, ReloadSession(r) PROVE Steady'
  <2>1. /\ pc[r] = "queued" /\ IsSocket(r) /\ r = Head(queue[conn[r]]) /\ Own(r) = conn[r] 
        /\ copy' = [copy EXCEPT ![conn[r]] = store] /\ pc' = [pc EXCEPT ![r] = "handle"]
        /\ UNCHANGED <<use, store, state, conn, visitor>>
    BY <1>0, <1>02, <1>5, Fields, ServedFields DEF ReloadSession, Holds
  <2>2. copy'[Own(r)] = store /\ pc'[r] = "handle"
    BY <1>0, <2>1
  <2>3. InStep("queued", IsSocket(r), visitor[r], Session(r), store)
    BY <1>03, <2>1
  <2>4. InStep(pc'[r], IsSocket(r), visitor'[r], copy'[Own(r)], store)
    BY <2>1, <2>2, <2>3 DEF InStep, Same
  <2>5. \A x \in Reqs : x # r => pc'[x] = pc[x] /\ visitor'[x] = visitor[x]
    BY <1>0, <2>1
  <2>6. \A c \in Reqs \cup Sockets : c # Own(r) => copy'[c] = copy[c]
    BY <1>0, <2>1
  <2> QED BY <2>1, <2>4, <2>5, <2>6, SteadyBy
<1>6. ASSUME NEW r \in Reqs, SaveSession(r) PROVE Steady'
  <2>1. pc[r] = "save" /\ store' = Session(r) /\ pc' = [pc EXCEPT ![r] = "done"] /\ UNCHANGED <<copy, state, conn, visitor>>
    BY <1>02, <1>6 DEF SaveSession
  <2>2. /\ \A s \in Sockets : state'[s] = "loaded" => Same(copy'[s], store)
        /\ \A x \in Reqs : x # r => InStep(pc'[x], IsSocket(x)', visitor'[x], Session(x)', store)
    <3>1. pc[r] \in Working /\ pc[r] # "queued"
      BY <2>1 DEF Working
    <3>2. \A x \in Reqs : x # r => pc'[x] = pc[x] /\ visitor'[x] = visitor[x]
      BY <1>0, <2>1
    <3> QED BY <1>01, <1>001, <2>1, <3>1, <3>2, OthersInStep
  <2>3. InStep("save", IsSocket(r), visitor[r], Session(r), store)
    BY <1>03, <2>1
  <2>4. \A s \in Sockets : state'[s] # "loaded"
    <3>1. Pending(r)
      BY <2>1 DEF Pending
    <3> QED BY <1>02, <2>1, <3>1 DEF Alone
  <2>5. ASSUME NEW x \in Reqs, x # r
        PROVE  InStep(pc'[x], IsSocket(x)', visitor'[x], Session(x)', store')
    <3>0. InStep(pc'[x], IsSocket(x)', visitor'[x], Session(x)', store)
      BY <2>2, <2>5
    <3>1. CASE store # NoWeb \/ ~IsSocket(r)
      <4>1. Same(store', store)
        BY <2>1, <2>3, <3>1 DEF InStep, Working
      <4> HIDE DEF At
      <4> QED BY <3>0, <4>1, InStepSame
    <3>2. CASE store = NoWeb /\ IsSocket(r)
      <4>1. pc'[x] \notin Working
        <5>1. pc[r] \in Working
          BY <2>1 DEF Working
        <5>2. pc'[x] = pc[x]
          BY <1>0, <2>1, <2>5
        <5> QED BY <1>02, <2>5, <3>2, <5>1, <5>2, WorksAlone
      <4>2. visitor'[x] = NoVisitor
        BY <3>0, <3>2, <4>1 DEF InStep, Working
      <4> QED BY <4>1, <4>2 DEF InStep, Working
    <3> QED BY <3>1, <3>2
  <2>6. InStep(pc'[r], IsSocket(r)', visitor'[r], Session(r)', store')
    <3>1. pc'[r] = "done" /\ visitor'[r] = visitor[r]
      BY <1>0, <2>1
    <3>2. visitor[r] # NoVisitor => store' # NoWeb /\ store'.visitor = visitor[r]
      BY <2>1, <2>3 DEF InStep
    <3> QED BY <3>1, <3>2 DEF InStep, Working
  <2> QED BY <2>4, <2>5, <2>6 DEF Steady
<1>7. ASSUME NEW r \in Reqs,
             \/ Subscribe(r) \/ CreateVisitor(r) \/ JoinRoom(r) \/ Leave(r) \/ RefuseMessage(r)
             \/ HandleMessage(r) \/ HandleFile(r) \/ StartPoll(r) \/ EndPoll(r)
      PROVE  Steady'
  <2> USE DEF Subscribe, CreateVisitor, JoinRoom, Leave, RefuseMessage, HandleMessage, HandleFile, StartPoll, EndPoll
  <2>1. UNCHANGED <<use, state, conn, store>>
    BY <1>7
  <2>2. \A x \in Reqs : x # r => pc'[x] = pc[x] /\ visitor'[x] = visitor[x]
    BY <1>0, <1>7
  <2>3. pc[r] \in Working /\ pc[r] # "queued"
    BY <1>7 DEF Working
  <2>4. InStep(pc[r], IsSocket(r), visitor[r], Session(r), store)
    BY <1>03
  <2>5. (StartPoll(r) \/ EndPoll(r)) => Own(r) = r
    <3>1. CASE StartPoll(r)
      <4>1. kind[r] = "poll" /\ pc[r] = "handle"
        BY <3>1
      <4>2. "poll" \notin use.socket
        BY <1>0, UseFields DEF TypeOK
      <4> QED BY <1>0, <4>1, <4>2, Fields, ServedFields DEF Asked
    <3>2. CASE EndPoll(r)
      <4>1. kind[r] = "poll" /\ pc[r] = "poll"
        BY <1>0, <3>2, ServedFields
      <4>2. "poll" \notin use.socket
        BY <1>0, UseFields DEF TypeOK
      <4> QED BY <1>0, <4>1, <4>2, Fields, ServedFields DEF Asked
    <3> QED BY <3>1, <3>2
  <2>6. \A c \in Reqs \cup Sockets : c # Own(r) => copy'[c] = copy[c]
    BY <1>0, <1>7, <2>5
  <2>7. InStep(pc'[r], IsSocket(r), visitor'[r], copy'[Own(r)], store)
    <3>0. Session(r) = copy[Own(r)] /\ Own(r) \in Reqs \cup Sockets
      BY <1>0 DEF Session
    <3>1. CASE Subscribe(r)
      <4>1. /\ pc[r] = "handle" /\ copy' = copy
            /\ \/ Session(r) # NoWeb /\ visitor'[r] = Session(r).visitor /\ pc'[r] = "join"
               \/ Session(r) = NoWeb /\ visitor'[r] = visitor[r] /\ pc'[r] = "create"
        BY <1>0, <1>02, <3>1
      <4> QED BY <2>4, <3>0, <4>1 DEF InStep, Same, Working
    <3>2. CASE CreateVisitor(r)
      <4>1. IsSocket(r) /\ pc[r] = "create"
        BY <1>0, <1>02, <3>2, ServedFields
      <4>2. visitor'[r] = r /\ pc'[r] = "join" /\ copy'[Own(r)] = [visitor |-> r, isSocket |-> IsSocket(r), polling |-> FALSE]
        BY <1>0, <1>02, <3>2
      <4>3. copy'[Own(r)] \in Web
        BY <4>2 DEF Web, IsSocket
      <4>4. copy'[Own(r)] # NoWeb /\ copy'[Own(r)].visitor = r
        <5>1. NoWeb \notin Web
          BY WebAssumption
        <5>2. copy'[Own(r)].visitor = r
          BY <4>2
        <5> QED BY <4>3, <5>1, <5>2
      <4>5. store = NoWeb
        BY <2>4, <4>1 DEF InStep, Same, Working
      <4> QED BY <4>1, <4>2, <4>4, <4>5 DEF InStep
    <3>3. CASE JoinRoom(r)
      <4>1. pc[r] = "join" /\ pc'[r] = "save" /\ copy' = copy /\ visitor' = visitor
        BY <1>0, <1>02, <3>3
      <4> QED BY <2>4, <3>0, <4>1 DEF InStep, Working
    <3>4. CASE Leave(r)
      BY <1>02, <3>4
    <3>5. CASE RefuseMessage(r)
      <4>1. pc[r] = "handle" /\ pc'[r] = "save" /\ copy' = copy /\ visitor' = visitor
        BY <1>0, <1>02, <3>5
      <4> QED BY <2>4, <3>0, <4>1 DEF InStep, Working, Same
    <3>6. CASE HandleMessage(r) \/ HandleFile(r)
      <4>1. pc[r] = "handle" /\ pc'[r] \in {"save", "upload"} /\ copy' = copy /\ visitor'[r] = Session(r).visitor /\ Session(r) # NoWeb
        BY <1>0, <1>02, <3>6 DEF Valid
      <4> QED BY <2>4, <3>0, <4>1 DEF InStep, Working, Same
    <3>7. CASE StartPoll(r)
      <4>1. /\ pc[r] = "handle" /\ pc'[r] \in {"poll", "save"} /\ visitor' = visitor
            /\ \/ copy' = copy
               \/ copy[r] # NoWeb /\ copy' = [copy EXCEPT ![r] = [copy[r] EXCEPT !.polling = TRUE]]
        BY <1>0, <2>5, <3>0, <3>7
      <4>2. copy[r] # NoWeb => copy[r] \in Web /\ [copy[r] EXCEPT !.polling = TRUE] \in Web /\ [copy[r] EXCEPT !.polling = TRUE].visitor = copy[r].visitor
        BY <1>0 DEF Web
      <4>3. (copy[r] = NoWeb <=> copy'[r] = NoWeb) /\ (copy[r] # NoWeb => copy'[r].visitor = copy[r].visitor)
        BY <1>0, <4>1, <4>2, WebAssumption
      <4> QED BY <2>4, <2>5, <3>0, <3>7, <4>1, <4>3 DEF InStep, Working, Same
    <3>8. CASE EndPoll(r)
      <4>1. /\ pc[r] = "poll" /\ pc'[r] = "save" /\ visitor' = visitor /\ copy[r] \in Web
            /\ copy' = [copy EXCEPT ![r] = [copy[r] EXCEPT !.polling = FALSE]]
        BY <1>0, <3>8, ServedFields
      <4>2. [copy[r] EXCEPT !.polling = FALSE] \in Web /\ [copy[r] EXCEPT !.polling = FALSE].visitor = copy[r].visitor
        BY <4>1 DEF Web
      <4>3. copy[r] # NoWeb /\ copy'[r] # NoWeb /\ copy'[r].visitor = copy[r].visitor
        BY <1>0, <4>1, <4>2, WebAssumption
      <4> QED BY <2>4, <2>5, <3>0, <3>8, <4>1, <4>3 DEF InStep, Working, Same
    <3> QED BY <1>7, <3>1, <3>2, <3>3, <3>4, <3>5, <3>6, <3>7, <3>8
  <2> QED BY <2>1, <2>2, <2>3, <2>6, <2>7, SteadyBy
<1>8. ASSUME NEW r \in Reqs, StoreFile(r) PROVE Steady'
  <2>1. UNCHANGED <<use, state, conn, store, copy, visitor>>
    BY <1>8 DEF StoreFile
  <2>2. CASE IsSocket(r)
    <3>1. pc' = pc
      BY <1>8, <2>2 DEF StoreFile
    <3> QED BY <1>03, <2>1, <3>1 DEF Steady, IsSocket, Session, Own
  <2>3. CASE ~IsSocket(r)
    <3>1. pc[r] = "upload" /\ pc'[r] = "save" /\ \A x \in Reqs : x # r => pc'[x] = pc[x]
      BY <1>0, <1>8, <2>3 DEF StoreFile, Served
    <3>2. InStep("upload", IsSocket(r), visitor[r], Session(r), store)
      BY <1>03, <3>1
    <3>3. InStep("save", IsSocket(r), visitor[r], Session(r), store)
      BY <2>3, <3>2 DEF InStep, Working, Same
    <3>4. \A x \in Reqs : InStep(pc'[x], IsSocket(x), visitor[x], Session(x), store)
      BY <1>03, <3>1, <3>3
    <3> QED BY <1>03, <2>1, <3>4 DEF Steady, IsSocket, Session, Own
  <2> QED BY <2>2, <2>3
<1>9. ASSUME NEW r \in Reqs, RetryPoll(r) PROVE Steady'
  BY <1>03, <1>9 DEF RetryPoll, Steady, IsSocket, Session, Own
<1>10. CASE UNCHANGED vars
  BY <1>03, <1>10 DEF vars, Steady, IsSocket, Session, Own
<1> QED BY <1>0, <1>1, <1>2, <1>3, <1>4, <1>5, <1>6, <1>7, <1>8, <1>9, <1>10, <1>20, UseFields
           DEF Next, RequestStep, TypeOK

\* What is asked, and over which connection, never changes once it is sent.
LEMMA SentStays ==
  ASSUME Base, [Next]_vars, NEW x \in Reqs
  PROVE  /\ pc[x] # "idle" => conn'[x] = conn[x] /\ kind'[x] = kind[x]
         /\ pc'[x] \in {"save", "done"} => pc[x] # "idle"
<1> USE DEF At, Goto, opens, session, sockets, requests, Answer
<1>0. TypeOK /\ Served
  BY DEF Base
<1>1. CASE Connects
  BY <1>1 DEF Connects, LoadSession, OpenSocket, SaveOpening, Greet
<1>2. CASE \E r \in Reqs, k \in Kinds, c \in Sockets \cup {Http} : SendRequest(r, k, c)
  BY <1>0, <1>2 DEF SendRequest, TypeOK
<1>3. CASE \E r \in Reqs : RequestStep(r)
  <2> USE DEF ReloadSession, SaveSession, Subscribe, CreateVisitor, JoinRoom, Leave, RefuseMessage,
         HandleMessage, HandleFile, StoreFile, StartPoll, RetryPoll, EndPoll
  <2>1. PICK r \in Reqs : RequestStep(r)
    BY <1>3
  <2>2. conn' = conn /\ kind' = kind
    BY <2>1 DEF RequestStep
  <2>3. pc[r] # "idle"
    BY <1>0, <2>1 DEF RequestStep, Served
  <2>4. x # r => pc'[x] = pc[x]
    BY <1>0, <2>1 DEF RequestStep, TypeOK
  <2> QED BY <2>2, <2>3, <2>4
<1>4. CASE UNCHANGED vars
  BY <1>4 DEF vars
<1> QED BY <1>0, <1>1, <1>2, <1>3, <1>4, UseFields DEF Next, Connects, TypeOK

\* Every step of a calm browser accepts what follows a subscription.
LEMMA AcceptedNext ==
  ASSUME Base, InTurn, InTurn', Joined, Untouched, Untouched', OverSocket, Steady, AcceptedOnceSubscribed, [Next]_vars,
         ~use.overlap => Calm(use)
  PROVE  AcceptedOnceSubscribed'
<1> USE DEF At, Goto, opens, session, sockets, requests, Answer
<1>0. TypeOK /\ Served /\ use' = use
  BY RoomsGrow DEF Base
<1>1. SUFFICES ASSUME ~use.overlap, ~overtaken', NEW q \in Reqs, NEW x \in Reqs, Precedes(q, x)', kind'[q] = "subscribe",
                      answer'[q] # "refused", kind'[x] = "message", answer'[x] = "refused"
               PROVE  FALSE
  BY <1>0 DEF AcceptedOnceSubscribed
<1>01. ~overtaken
  BY <1>0, <1>1, OvertakenStays
<1>2. pc'[x] \in {"save", "done"}
  BY <1>1 DEF Untouched
<1>3. pc'[q] = "done"
  BY <1>1, <1>2 DEF InTurn
<1>4. /\ conn'[q] = conn[q] /\ kind[q] = "subscribe" /\ conn'[x] = conn[x] /\ kind[x] = "message"
      /\ pc[x] # "idle"
  BY <1>1, <1>2, <1>3, SentStays
<1>5. Precedes(q, x)
  BY <1>1, <1>4 DEF Precedes, IsSocket
<1>6. CASE pc[x] \in {"save", "done"}
  <2>1. answer[x] = "refused"
    BY <1>1, <1>4, <1>6, SettledStays
  <2>2. pc[q] = "done"
    BY <1>5, <1>6 DEF InTurn
  <2>3. answer[q] # "refused"
    BY <1>1, <1>4, <2>2, SettledStays
  <2> QED BY <1>01, <1>1, <1>4, <1>5, <2>1, <2>3 DEF AcceptedOnceSubscribed
<1>7. CASE pc[x] \notin {"save", "done"}
  <2>1. answer[x] = "none" /\ answer' # answer
    BY <1>1, <1>7 DEF Untouched
  <2>2. RefuseMessage(x)
    <3>1. \E r \in Reqs : RequestStep(r)
      <4>1. ~Connects
        BY <2>1 DEF Connects, LoadSession, OpenSocket, SaveOpening, Greet
      <4>2. \A r \in Reqs, k \in Kinds, c \in Sockets \cup {Http} : ~SendRequest(r, k, c)
        BY <2>1 DEF SendRequest
      <4>3. ~UNCHANGED vars
        BY <2>1 DEF vars
      <4> QED BY <1>0, <4>1, <4>2, <4>3, UseFields DEF Next, Connects, TypeOK
    <3> USE DEF ReloadSession, SaveSession, Subscribe, CreateVisitor, JoinRoom, Leave, RefuseMessage,
         HandleMessage, HandleFile, StoreFile, StartPoll, RetryPoll, EndPoll
    <3>2. RequestStep(x)
      BY <1>0, <1>1, <2>1, <3>1 DEF RequestStep, TypeOK
    <3>3. use.faults = {}
      BY <1>1 DEF Calm
    <3>4. pc[x] \notin {"create", "join", "poll"}
      BY <1>0, <1>4, ServedFields
    <3>5. ~(StartPoll(x) \/ Subscribe(x) \/ Leave(x))
      BY <1>4
    <3> QED BY <1>0, <1>1, <2>1, <3>2, <3>3, <3>4, <3>5 DEF RequestStep, TypeOK
  <2>3. pc[x] = "handle" /\ ~Valid(x) /\ answer' = [answer EXCEPT ![x] = "refused"]
    BY <2>2 DEF RefuseMessage
  <2>4. pc[q] = "done"
    BY <1>5, <2>3 DEF InTurn
  <2>5. answer[q] # "refused"
    BY <1>1, <1>4, <2>4, SettledStays
  <2>6. IsSocket(q) /\ IsSocket(x) /\ visitor[q] \in Reqs /\ NoVisitor \notin Reqs
    BY <1>0, <1>4, <1>5, <2>4, <2>5, Fields DEF Joined, Precedes, IsSocket
  <2>7. InStep("done", IsSocket(q), visitor[q], Session(q), store) /\ InStep("handle", IsSocket(x), visitor[x], Session(x), store)
    BY <1>01, <1>1, <2>3, <2>4 DEF Steady
  <2>8. store # NoWeb
    BY <2>6, <2>7 DEF InStep
  <2>9. Session(x) # NoWeb
    BY <2>7, <2>8 DEF InStep, Same, Working
  <2>10. Session(x).isSocket
    BY <1>0, <1>1, <2>9, Fields DEF OverSocket, Calm, Sessions, Session
  <2> QED BY <2>3, <2>9, <2>10 DEF Valid
<1> QED BY <1>6, <1>7

\* All who work for a visitor, in a calm browser, work for the stored one.
LEMMA VisitorsAgree ==
  ASSUME Base, Alone, Steady, ~use.overlap => Calm(use)
  PROVE  OneVisitor
<1>1. SUFFICES ASSUME ~use.overlap, ~overtaken, NEW q \in Reqs, NEW r \in Reqs, q # r, visitor[q] # NoVisitor, visitor[r] # NoVisitor
               PROVE  visitor[q] = visitor[r]
  BY DEF OneVisitor
<1>2. InStep(pc[q], IsSocket(q), visitor[q], Session(q), store) /\ InStep(pc[r], IsSocket(r), visitor[r], Session(r), store)
  BY <1>1 DEF Steady
<1>3. CASE store # NoWeb
  BY <1>1, <1>2, <1>3 DEF InStep
<1>4. CASE store = NoWeb
  <2>1. pc[q] \in Working /\ pc[r] \in Working /\ IsSocket(q)
    BY <1>1, <1>2, <1>4 DEF InStep, Working
  <2> QED BY <1>1, <2>1, WorksAlone
<1> QED BY <1>3, <1>4

\* The bot's replies reach the tab, which is alone or whose visitor is the only one,
\* unless the save of what a tab loaded undoes a later one.
LEMMA RepliesReach ==
  ASSUME Base, InTurn, Handing, Joined, Calm(use) => OneVisitor, Addressed, OneTab(use) \/ Calm(use)
  PROVE  RepliesReachSender
<1>0. TypeOK /\ handed \in Seq(Reqs)
  BY DEF Base, TypeOK
<1>1. SUFFICES ASSUME OneTab(use) \/ ~overtaken, NEW q \in Reqs, NEW r \in Reqs,
                      Precedes(q, r), kind[q] = "subscribe", answer[q] # "refused", Handed(r)
               PROVE  visitor[r] \in room[conn[r]]
  BY DEF RepliesReachSender
<1>2. pc[r] \in {"save", "done"} /\ kind[r] \in {"message", "file"} /\ visitor[r] \in Reqs /\ NoVisitor \notin Reqs
  BY <1>0, <1>1, Fields DEF Handing, Handed
<1>3. CASE OneTab(use)
  BY <1>1, <1>2, <1>3 DEF Addressed, Precedes
<1>4. CASE Calm(use) /\ ~OneTab(use)
  <2>1. pc[q] = "done" /\ IsSocket(q)
    BY <1>1, <1>2 DEF InTurn, Precedes, IsSocket
  <2>2. visitor[q] \in Reqs /\ visitor[q] \in room[conn[q]]
    BY <1>1, <2>1 DEF Joined
  <2>3. visitor[q] = visitor[r]
    BY <1>1, <1>2, <1>4, <2>2 DEF OneVisitor, Calm
  <2> QED BY <1>1, <2>2, <2>3 DEF Precedes
<1> QED BY <1>3, <1>4

-----------------------------------------------------------------------------
(* The theorems.                                                           *)

\* The invariant holds in the initial states.
LEMMA InvInit == Init => Inv
<1> SUFFICES ASSUME Init PROVE Inv
  OBVIOUS
<1>1. Served /\ Queued
  BY DEF Init, Served, Queued, IsSocket, Asked
<1>2. Sent /\ InTurn /\ Handing /\ Joined /\ Untouched
  BY DEF Init, Sent, InTurn, Precedes, Handing, Joined, Untouched, IsSocket
<1>3. OpenedHere /\ OverSocket
  BY DEF Init, OpenedHere, OverSocket, Sessions
<1>4. Addressed /\ Alone
  BY DEF Init, Addressed, Alone, Pending, IsSocket
<1>5. Steady
  BY DEF Init, Steady, InStep, Working, IsSocket
<1> QED BY <1>1, <1>2, <1>3, <1>4, <1>5, TypeInit DEF Inv, Base

\* Every step keeps the invariant.
LEMMA InvNext == Inv /\ [Next]_vars => Inv'
<1> SUFFICES ASSUME Inv, [Next]_vars PROVE Inv'
  OBVIOUS
<1>1. Base'
  BY TypeNext, ServedNext, QueuedNext DEF Inv, Base
<1>2. Sent' /\ InTurn' /\ Handing' /\ Joined' /\ Untouched'
  BY SentNext, InTurnNext, HandingNext, JoinedNext, UntouchedNext DEF Inv
<1>3. OpenedHere' /\ Addressed' /\ OverSocket'
  BY OpenedHereNext, AddressedNext, OverSocketNext DEF Inv
<1>4. Alone' /\ Steady'
  BY AloneNext, SteadyNext DEF Inv
<1> QED BY <1>1, <1>2, <1>3, <1>4 DEF Inv

\* The invariant holds of every browser: any number of tabs and requests, any
\* overlap, any failing queries.
LEMMA AlwaysInv == Spec => []Inv
BY InvInit, InvNext, PTL DEF Spec

\* The session, its copies, the queues and the requests are always of the right
\* shape, and a long polling request has the session it polls for.
THEOREM TypeCorrect == Spec => []TypeOK
<1>1. Inv => TypeOK
  BY DEF Inv, Base
<1> QED BY <1>1, AlwaysInv, PTL

\* The mutex of SocketEventDispatcherService keeps the order of a socket's
\* messages, for any number of sockets and requests: none reaches the bot before
\* one that was sent earlier over the same socket.
THEOREM MutexKeepsOrder == Spec => []HandedInOrder
<1>1. Init => HandedInOrder
  BY DEF Init, HandedInOrder, Before
<1>2. Inv /\ HandedInOrder /\ [Next]_vars => HandedInOrder'
  BY HandedInOrderNext DEF Inv
<1> QED BY <1>1, <1>2, AlwaysInv, PTL DEF Spec

\* Tabs of one browser, used one after the other, share the visitor that the
\* first of them created, as long as no save of what a tab opened with lands on
\* what has been saved since.
THEOREM TabsShareVisitor ==
  ASSUME \A u \in Uses : ~u.overlap => Calm(u)
  PROVE  Spec => []OneVisitor
<1>1. Inv => OneVisitor
  BY VisitorsAgree DEF Inv, Base, TypeOK
<1> QED BY <1>1, AlwaysInv, PTL

\* In such a browser, and as long, a message that follows a subscription over its
\* socket is not refused.
THEOREM SubscribersAccepted ==
  ASSUME \A u \in Uses : ~u.overlap => Calm(u)
  PROVE  Spec => []AcceptedOnceSubscribed
<1>1. Init => AcceptedOnceSubscribed
  BY DEF Init, AcceptedOnceSubscribed, Precedes, IsSocket
<1>2. Inv /\ Inv' /\ AcceptedOnceSubscribed /\ [Next]_vars => AcceptedOnceSubscribed'
  BY AcceptedNext DEF Inv, Base, TypeOK
<1> QED BY <1>1, <1>2, AlwaysInv, PTL DEF Spec

\* The bot's replies reach the tab that subscribed before it sent the message, if
\* the browser has one tab, whatever it requests over HTTP meanwhile, whatever
\* fails and however late saves land; or if it is calm and no save of what a tab
\* opened with lands on what has been saved since.
THEOREM RepliesReachTab ==
  ASSUME \A u \in Uses : OneTab(u) \/ Calm(u)
  PROVE  Spec => []RepliesReachSender
<1>1. Inv => RepliesReachSender
  <2> SUFFICES ASSUME Inv PROVE RepliesReachSender
    OBVIOUS
  <2>1. OneTab(use) \/ Calm(use)
    BY DEF Inv, Base, TypeOK
  <2>2. ASSUME Calm(use) PROVE OneVisitor
    BY <2>2, VisitorsAgree DEF Inv
  <2> QED BY <2>1, <2>2, RepliesReach DEF Inv
<1> QED BY <1>1, AlwaysInv, PTL

=============================================================================
