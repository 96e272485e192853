----------------------------- MODULE Signaling -----------------------------
(***************************************************************************)
(* The signaling connection: a SignalingClient (webrtc/signaling/          *)
(* client.go) with the goroutines that serve it, and the program that owns *)
(* it.  The receiver runs one client after another (startWebRTCReceiver in *)
(* cmd/recv/recv.go) until it is cancelled and publishes the client's id   *)
(* in a file; the WebRTC sender sends one offer and waits for its answer;  *)
(* the scan only looks at the peers.                                       *)
(*                                                                         *)
(* Data abstracted: an offer is its number on this connection, a message   *)
(* to send is counted, a delay (the reconnect backoff) is a step that ends *)
(* at some time.  Once a new connection is dialled, goroutines of the one  *)
(* before, all of them told to end, are forgotten.                         *)
(***************************************************************************)
EXTENDS Integers, Sequences, FiniteSets, FiniteSetsExt, SequencesExt

CONSTANTS
    Peer,            \* peer ids
    Incoming,        \* the kinds of message the server sends to each program
    MaxPeers,        \* MaxPeers
    OfferCap,        \* capacity of offerChan
    SendCap,         \* capacity of sendChan
    InfoCap,         \* capacity of msgChan
    CallbackTTL,     \* answerCallbackTTL, in ticks
    MaxOffers,       \* bound: offers per connection
    WireCap          \* bound: messages under way from the server

Program == {"recv", "send", "scan"}
Kind    == {"offer", "answer", "join", "update", "left", "info"}

ASSUME SignalingAssumption ==
    /\ IsFiniteSet(Peer) /\ Incoming \in [Program -> SUBSET Kind]
    /\ {MaxPeers, CallbackTTL, MaxOffers} \subseteq Nat
    /\ {OfferCap, SendCap, InfoCap, WireCap} \subseteq Nat \ {0}

VARIABLES
    program,    \* who owns the client
    cancelled,  \* the receiver's context is done
    sup,        \* where the owner is
    idfile,     \* the file with the client's id exists
    hello,      \* waitForHello: its context, its watcher, the read deadline
    net,        \* the socket, messages under way, the server's members, offers sent
    done,       \* the done channel is closed
    rd,         \* readLoop and the message it holds
    inbox,      \* offerChan, the subscription, and what became of the offers
    info,       \* messages in msgChan, which nobody reads
    app,        \* the goroutine that takes offers, or sends one
    sendq,      \* messages in sendChan
    writer,     \* writeLoop
    loops,      \* pingLoop and tokenRefreshLoop
    peers,      \* peers
    answer      \* age of the callback in onAnswer; answers in the sender's channel

ownVars  == <<program, cancelled, sup, idfile>>
sendVars == <<sendq, writer, loops>>
vars == <<ownVars, hello, net, done, rd, inbox, info, app, sendVars, peers, answer>>

-----------------------------------------------------------------------------
Loop     == {"ping", "refresh"}
OfferNo  == 1..MaxOffers
Message  == [kind : Kind, peer : Peer \cup {"none"}, no : 0..MaxOffers]
NoMsg    == [kind |-> "info", peer |-> "none", no |-> 0]
NoCallback == CallbackTTL + 2

TypeOK ==
    /\ program \in Program /\ cancelled \in BOOLEAN /\ idfile \in BOOLEAN /\ done \in BOOLEAN
    /\ sup \in {"start", "connect", "hello", "unwatch", "failed", "session", "serve",
                "cancel", "lost", "leave", "closing", "wait", "exit", "ended"}
    /\ hello \in [ctx : BOOLEAN, ok : BOOLEAN, deadline : {"none", "future", "past"},
                  watcher : {"none", "watching", "firing", "done"}]
    /\ net \in [sock : {"none", "up", "silent", "reset", "closed"}, wire : Seq(Message),
                members : SUBSET Peer, sent : 0..MaxOffers]
    /\ Len(net.wire) <= WireCap
    /\ rd \in [pc : {"none", "read", "load", "block", "try", "call", "ended"}, msg : Message]
    /\ inbox \in [offers : Seq(OfferNo), subscribed : BOOLEAN, mark : 0..MaxOffers,
                  read : 0..MaxOffers, handled : SUBSET OfferNo]
    /\ Len(inbox.offers) <= OfferCap
    /\ info \in 0..InfoCap /\ sendq \in 0..SendCap
    /\ app \in {"none", "start", "select", "check", "send", "await", "ended"}
    /\ writer \in {"none", "idle", "ended"}
    /\ loops \in [Loop -> {"none", "idle", "send", "ended"}]
    /\ peers \subseteq Peer /\ Cardinality(peers) <= MaxPeers
    /\ answer \in [age : 0..NoCallback, queued : 0..1]

NoInbox == [offers |-> <<>>, subscribed |-> FALSE, mark |-> 0, read |-> 0, handled |-> {}]

\* A killed receiver leaves its id file behind.
Init ==
    /\ program \in Program /\ cancelled = FALSE
    /\ sup = IF program = "recv" THEN "start" ELSE "connect"
    /\ idfile \in {FALSE, program = "recv"}
    /\ hello = [ctx |-> FALSE, ok |-> FALSE, deadline |-> "none", watcher |-> "none"]
    /\ net = [sock |-> "none", wire |-> <<>>, members |-> {}, sent |-> 0]
    /\ done = FALSE /\ rd = [pc |-> "none", msg |-> NoMsg]
    /\ inbox = NoInbox /\ info = 0 /\ app = "none"
    /\ sendq = 0 /\ writer = "none" /\ loops = [l \in Loop |-> "none"]
    /\ peers = {} /\ answer = [age |-> NoCallback, queued |-> 0]

-----------------------------------------------------------------------------
(* Connecting: ConnectWithContext and waitForHello *)

\* A signal, or a component that failed; the connect context derives from it.
Cancel ==
    /\ program = "recv" /\ ~cancelled
    /\ cancelled' = TRUE /\ hello' = [hello EXCEPT !.ctx = TRUE]
    /\ UNCHANGED <<program, sup, idfile, net, done, rd, inbox, info, app, sendVars, peers, answer>>

RemoveOldId ==
    /\ sup = "start"
    /\ sup' = "connect" /\ idfile' = FALSE
    /\ UNCHANGED <<program, cancelled, hello, net, done, rd, inbox, info, app, sendVars, peers, answer>>

LoopHead ==
    /\ sup = "connect" /\ cancelled
    /\ sup' = "exit"
    /\ UNCHANGED <<program, cancelled, idfile, hello, net, done, rd, inbox, info, app, sendVars, peers, answer>>

DialFails ==
    /\ sup = "connect"
    /\ sup' = "failed"
    /\ UNCHANGED <<program, cancelled, idfile, hello, net, done, rd, inbox, info, app, sendVars, peers, answer>>

\* A new client; the watcher starts and the read deadline is ten seconds away.
Dial ==
    /\ sup = "connect" /\ ~cancelled
    /\ sup' = "hello"
    /\ hello' = [ctx |-> FALSE, ok |-> FALSE, deadline |-> "future", watcher |-> "watching"]
    /\ \E m \in IF "join" \in Incoming[program] THEN SUBSET Peer ELSE {{}} :
          net' = [sock |-> "up", wire |-> <<>>, members |-> m, sent |-> 0]
    /\ done' = FALSE /\ rd' = [pc |-> "none", msg |-> NoMsg]
    /\ inbox' = NoInbox /\ info' = 0 /\ app' = "none"
    /\ sendq' = 0 /\ writer' = "none" /\ loops' = [l \in Loop |-> "none"]
    /\ peers' = {} /\ answer' = [age |-> NoCallback, queued |-> 0]
    /\ UNCHANGED <<program, cancelled, idfile>>

\* connectTimeout
ConnectTimeout ==
    /\ sup = "hello" /\ ~hello.ctx
    /\ hello' = [hello EXCEPT !.ctx = TRUE]
    /\ UNCHANGED <<ownVars, net, done, rd, inbox, info, app, sendVars, peers, answer>>

\* The watcher's select, then what it does.
Watch ==
    /\ \/ /\ hello.watcher = "watching" /\ hello.ctx
          /\ hello' = [hello EXCEPT !.watcher = "firing"]
       \/ /\ hello.watcher = "watching" /\ sup # "hello"
          /\ hello' = [hello EXCEPT !.watcher = "done"]
       \/ /\ hello.watcher = "firing"
          /\ hello' = [hello EXCEPT !.watcher = "done", !.deadline = "past"]
    /\ UNCHANGED <<ownVars, net, done, rd, inbox, info, app, sendVars, peers, answer>>

\* the first MaxPeers of the members
Cut(M) == IF Cardinality(M) <= MaxPeers THEN {M} ELSE kSubset(MaxPeers, M)

HelloArrives ==
    /\ sup = "hello" /\ hello.deadline # "past"
    /\ sup' = "unwatch" /\ hello' = [hello EXCEPT !.ok = TRUE]
    /\ peers' \in Cut(net.members)
    /\ UNCHANGED <<program, cancelled, idfile, net, done, rd, inbox, info, app, sendVars, answer>>

\* A read error, something else than HELLO, or no client in it.
HelloFails ==
    /\ sup = "hello"
    /\ sup' = "unwatch" /\ hello' = [hello EXCEPT !.ok = FALSE]
    /\ UNCHANGED <<program, cancelled, idfile, net, done, rd, inbox, info, app, sendVars, peers, answer>>

NotWaited == TRUE

\* <-watchDone
Watched == hello.watcher = "done"

\* The deferred function clears the deadline; then the loops start, or the
\* socket is closed.  Returning cancels the connect context.
Connected ==
    /\ sup = "unwatch" /\ Watched
    /\ hello' = [hello EXCEPT !.deadline = "none", !.ctx = TRUE]
    /\ sup' = IF hello.ok THEN "session" ELSE "failed"
    /\ IF hello.ok
       THEN /\ rd' = [rd EXCEPT !.pc = "read"] /\ writer' = "idle"
            /\ loops' = [loops EXCEPT !["ping"] = "idle"]
            /\ UNCHANGED net
       ELSE /\ net' = [net EXCEPT !.sock = "closed"]
            /\ UNCHANGED <<rd, writer, loops>>
    /\ UNCHANGED <<program, cancelled, idfile, done, inbox, info, app, sendq, peers, answer>>

-----------------------------------------------------------------------------
(* The owner *)

\* SetTokenGenerator, the id file, ListenForOffersWithContext; writing the file
\* may fail.
BeginSession ==
    /\ sup = "session"
    /\ sup' = "serve"
    /\ app' = IF program = "scan" THEN "none" ELSE "start"
    /\ IF program = "recv"
       THEN idfile' \in {idfile, TRUE} /\ loops' = [loops EXCEPT !["refresh"] = "idle"]
       ELSE UNCHANGED <<idfile, loops>>
    /\ UNCHANGED <<program, cancelled, hello, net, done, rd, inbox, info, sendq, writer, peers, answer>>

SessionCancelled ==
    /\ sup = "serve" /\ cancelled
    /\ sup' = "cancel"
    /\ UNCHANGED <<program, cancelled, idfile, hello, net, done, rd, inbox, info, app, sendVars, peers, answer>>

IdKept == idfile

\* the stale id goes before the clean-up
IdCleared == FALSE

SessionLost ==
    /\ program = "recv" /\ sup = "serve" /\ done
    /\ sup' = "lost" /\ idfile' = IdCleared
    /\ UNCHANGED <<program, cancelled, hello, net, done, rd, inbox, info, app, sendVars, peers, answer>>

\* The transfer is over, or nobody answered; the scan has waited long enough.
Leave ==
    /\ program # "recv" /\ sup = "serve" /\ app \in {"none", "ended"}
    /\ sup' = "leave"
    /\ UNCHANGED <<program, cancelled, idfile, hello, net, done, rd, inbox, info, app, sendVars, peers, answer>>

\* Close: the first caller closes done, then forgets the callbacks and closes
\* the socket; every other caller waits for that.
CloseSocket ==
    /\ done /\ net.sock # "closed"
    /\ net' = [net EXCEPT !.sock = "closed", !.wire = <<>>]
    /\ answer' = [answer EXCEPT !.age = NoCallback]
    /\ UNCHANGED <<ownVars, hello, done, rd, inbox, info, app, sendVars, peers>>

CallClose ==
    /\ sup \in {"cancel", "lost", "leave"}
    /\ done' = TRUE
    /\ sup' = IF sup = "lost" THEN "closing" ELSE "exit"
    /\ UNCHANGED <<program, cancelled, idfile, hello, net, rd, inbox, info, app, sendVars, peers, answer>>

AfterSession ==
    /\ sup = "closing" /\ net.sock = "closed"
    /\ sup' = "wait"
    /\ UNCHANGED <<program, cancelled, idfile, hello, net, done, rd, inbox, info, app, sendVars, peers, answer>>

NoRetry == FALSE

\* only the receiver tries again
Retry == program = "recv" /\ ~cancelled

ConnectFailed ==
    /\ sup = "failed"
    /\ IF Retry THEN sup' = "wait" /\ idfile' = FALSE
       ELSE sup' = "exit" /\ UNCHANGED idfile
    /\ UNCHANGED <<program, cancelled, hello, net, done, rd, inbox, info, app, sendVars, peers, answer>>

\* waitReconnect
WaitReconnect ==
    /\ sup = "wait"
    /\ sup' = IF cancelled THEN "exit" ELSE "connect"
    /\ UNCHANGED <<program, cancelled, idfile, hello, net, done, rd, inbox, info, app, sendVars, peers, answer>>

\* The deferred removal.
Exit ==
    /\ sup = "exit" /\ (done => net.sock = "closed")
    /\ sup' = "ended" /\ idfile' = FALSE
    /\ UNCHANGED <<program, cancelled, hello, net, done, rd, inbox, info, app, sendVars, peers, answer>>

-----------------------------------------------------------------------------
(* readLoop *)

Post(n) == IF n < InfoCap THEN n + 1 ELSE n

\* UPDATE never adds a peer
Known(p) == p \in peers

handlePeerUpdate(m) ==
    IF m.kind = "left" THEN peers \ {m.peer}
    ELSE IF \/ m.kind = "join" /\ Cardinality(peers) < MaxPeers
            \/ m.kind = "update" /\ Known(m.peer)
    THEN peers \cup {m.peer}
    ELSE peers

\* the callback leaves the map before it is called
TakenCallback == NoCallback

Receive ==
    /\ rd.pc = "read" /\ net.wire # <<>>
    /\ net.sock # "closed" /\ hello.deadline # "past"
    /\ LET m == Head(net.wire) IN
       /\ net' = [net EXCEPT !.wire = Tail(@)]
       /\ peers' = handlePeerUpdate(m)
       /\ \/ /\ m.kind = "offer"
             /\ rd' = [pc |-> "load", msg |-> m]
             /\ inbox' = [inbox EXCEPT !.read = m.no]
             /\ UNCHANGED <<info, answer>>
          \/ /\ m.kind = "answer" /\ answer.age < NoCallback
             /\ rd' = [pc |-> "call", msg |-> m]
             /\ answer' = [answer EXCEPT !.age = TakenCallback]
             /\ UNCHANGED <<inbox, info>>
          \/ /\ m.kind # "offer" /\ (m.kind = "answer" => answer.age = NoCallback)
             /\ info' = Post(info)
             /\ UNCHANGED <<rd, inbox, answer>>
    /\ UNCHANGED <<ownVars, hello, done, app, sendVars>>

\* The sender's callback: answerChan <- answer, or an answer it cannot read.
Callback ==
    /\ rd.pc = "call"
    /\ \/ answer.queued = 0 /\ answer' = [answer EXCEPT !.queued = 1]
       \/ UNCHANGED answer /\ answer.queued = 0
    /\ rd' = [pc |-> "read", msg |-> NoMsg]
    /\ UNCHANGED <<ownVars, hello, net, done, inbox, info, app, sendVars, peers>>

LossyChoice == "try"

\* Whether the send may drop the offer
OfferChoice == IF inbox.subscribed THEN "block" ELSE "try"

LoadSubscribed ==
    /\ rd.pc = "load"
    /\ rd' = [rd EXCEPT !.pc = OfferChoice]
    /\ UNCHANGED <<ownVars, hello, net, done, inbox, info, app, sendVars, peers, answer>>

PutOffer ==
    /\ rd.pc \in {"block", "try"}
    /\ IF Len(inbox.offers) < OfferCap
       THEN inbox' = [inbox EXCEPT !.offers = Append(@, rd.msg.no)]
       ELSE rd.pc = "try" /\ UNCHANGED inbox
    /\ rd' = [pc |-> "read", msg |-> NoMsg]
    /\ UNCHANGED <<ownVars, hello, net, done, info, app, sendVars, peers, answer>>

OfferAbandoned ==
    /\ rd.pc = "block" /\ done
    /\ rd' = [pc |-> "ended", msg |-> NoMsg]
    /\ UNCHANGED <<ownVars, hello, net, done, inbox, info, app, sendVars, peers, answer>>

\* Close, wait for it, close the channels.
ReadFails ==
    /\ rd.pc = "read"
    /\ net.sock \in {"reset", "closed"} \/ hello.deadline = "past"
    /\ rd' = [pc |-> "ended", msg |-> NoMsg]
    /\ done' = TRUE
    /\ UNCHANGED <<ownVars, hello, net, inbox, info, app, sendVars, peers, answer>>

-----------------------------------------------------------------------------
(* The goroutine that takes offers, or sends one *)

\* Evaluating Offers() subscribes; the sender registers its callback.
AppStarts ==
    /\ app = "start"
    /\ IF program = "recv"
       THEN /\ app' = "select"
            /\ inbox' = [inbox EXCEPT !.subscribed = TRUE, !.mark = inbox.read]
            /\ UNCHANGED answer
       ELSE /\ app' = "check"
            /\ answer' = [answer EXCEPT !.age = 0]
            /\ UNCHANGED inbox
    /\ UNCHANGED <<ownVars, hello, net, done, rd, info, sendVars, peers>>

\* AcceptOffer is busy or fails, or has an answer to send.
TakeOffer ==
    /\ app = "select" /\ inbox.offers # <<>>
    /\ app' \in {"select", "check"}
    /\ inbox' = [inbox EXCEPT !.offers = Tail(@), !.handled = @ \cup {Head(inbox.offers)}]
    /\ UNCHANGED <<ownVars, hello, net, done, rd, info, sendVars, peers, answer>>

\* enqueue: the two selects
EnqueueCheck ==
    /\ app = "check"
    /\ app' = IF ~done THEN "send" ELSE IF program = "recv" THEN "select" ELSE "ended"
    /\ UNCHANGED <<ownVars, hello, net, done, rd, inbox, info, sendVars, peers, answer>>

EnqueueSend ==
    /\ app = "send"
    /\ \/ /\ sendq < SendCap /\ sendq' = sendq + 1
          /\ app' = IF program = "recv" THEN "select" ELSE "await"
       \/ /\ done /\ UNCHANGED sendq
          /\ app' = IF program = "recv" THEN "select" ELSE "ended"
    /\ UNCHANGED <<ownVars, hello, net, done, rd, inbox, info, writer, loops, peers, answer>>

\* The sender gets its answer or stops waiting.
AwaitAnswer ==
    /\ app = "await"
    /\ app' = "ended"
    /\ answer' \in {answer, [answer EXCEPT !.queued = 0]}
    /\ UNCHANGED <<ownVars, hello, net, done, rd, inbox, info, sendVars, peers>>

\* The context is done, or offerChan is closed and empty.
OffersEnd ==
    /\ app = "select"
    /\ cancelled \/ (rd.pc = "ended" /\ net.sock = "closed" /\ inbox.offers = <<>>)
    /\ app' = "ended"
    /\ UNCHANGED <<ownVars, hello, net, done, rd, inbox, info, sendVars, peers, answer>>

-----------------------------------------------------------------------------
(* writeLoop, pingLoop, tokenRefreshLoop, answerCallbackCleanupLoop *)

\* Nothing acknowledges what is written to a peer that is gone: the kernel, or
\* the write deadline, gives up on it some time later.
Write ==
    /\ writer = "idle" /\ sendq > 0
    /\ sendq' = sendq - 1
    /\ IF net.sock \in {"up", "silent"}
       THEN /\ net' = IF net.sock = "silent" THEN [net EXCEPT !.sock = "reset"] ELSE net
            /\ UNCHANGED <<writer, done>>
       ELSE writer' = "ended" /\ done' = TRUE /\ UNCHANGED net
    /\ UNCHANGED <<ownVars, hello, rd, inbox, info, app, loops, peers, answer>>

WriterEnds ==
    /\ writer = "idle" /\ done
    /\ writer' = "ended"
    /\ UNCHANGED <<ownVars, hello, net, done, rd, inbox, info, app, sendq, loops, peers, answer>>

\* the ticker of loop l
Ticks(l) == loops[l] = "idle"

\* A full sendChan blocks the loop.
Tick(l) ==
    /\ Ticks(l)
    /\ IF sendq < SendCap THEN sendq' = sendq + 1 /\ UNCHANGED loops
       ELSE loops' = [loops EXCEPT ![l] = "send"] /\ UNCHANGED sendq
    /\ UNCHANGED <<ownVars, hello, net, done, rd, inbox, info, app, writer, peers, answer>>

LoopSends(l) ==
    /\ loops[l] = "send" /\ sendq < SendCap
    /\ sendq' = sendq + 1 /\ loops' = [loops EXCEPT ![l] = "idle"]
    /\ UNCHANGED <<ownVars, hello, net, done, rd, inbox, info, app, writer, peers, answer>>

WaitsForRoom(l) == loops[l] = "idle"

\* both selects of a loop have the done case
SeesDone(l) == loops[l] \in {"idle", "send"}

LoopEnds(l) ==
    /\ SeesDone(l) /\ done
    /\ loops' = [loops EXCEPT ![l] = "ended"]
    /\ UNCHANGED <<ownVars, hello, net, done, rd, inbox, info, app, sendq, writer, peers, answer>>

\* A tick of the clock; a callback too old for the clean-up is forgotten.
CallbackAges ==
    /\ answer.age <= CallbackTTL + 1 /\ sup = "serve"
    /\ answer' = [answer EXCEPT !.age = @ + 1]
    /\ UNCHANGED <<ownVars, hello, net, done, rd, inbox, info, app, sendVars, peers>>

-----------------------------------------------------------------------------
(* The server and the network *)

\* the server puts a message on the wire; its members and offers are now m and n
Put(kind, p, no, m, n) ==
    net' = [net EXCEPT !.wire = Append(@, [kind |-> kind, peer |-> p, no |-> no]),
                       !.members = m, !.sent = n]

Deliver(kind) ==
    /\ net.sock = "up" /\ Len(net.wire) < WireCap /\ rd.pc \notin {"none", "ended"}
    /\ kind \in Incoming[program]
    /\ \/ /\ kind = "offer" /\ net.sent < MaxOffers
          /\ Put(kind, "none", net.sent + 1, net.members, net.sent + 1)
       \/ kind = "join" /\ \E p \in Peer \ net.members :
                              Put(kind, p, 0, net.members \cup {p}, net.sent)
       \/ kind = "update" /\ \E p \in net.members : Put(kind, p, 0, net.members, net.sent)
       \/ kind = "left" /\ \E p \in net.members : Put(kind, p, 0, net.members \ {p}, net.sent)
       \/ kind \in {"answer", "info"} /\ Put(kind, "none", 0, net.members, net.sent)
    /\ UNCHANGED <<ownVars, hello, done, rd, inbox, info, app, sendVars, peers, answer>>

\* The server or the network closes the connection, or falls silent.
Breaks ==
    /\ net.sock = "up" /\ rd.pc # "none"
    /\ \E s \in {"silent", "reset"} : net' = [net EXCEPT !.sock = s]
    /\ UNCHANGED <<ownVars, hello, done, rd, inbox, info, app, sendVars, peers, answer>>

-----------------------------------------------------------------------------
Owner == \/ RemoveOldId \/ LoopHead \/ DialFails \/ Dial \/ HelloFails \/ Connected
         \/ BeginSession \/ SessionCancelled \/ SessionLost \/ Leave \/ CallClose
         \/ AfterSession \/ ConnectFailed \/ WaitReconnect \/ Exit

Reader == Receive \/ Callback \/ LoadSubscribed \/ PutOffer \/ OfferAbandoned \/ ReadFails

App == AppStarts \/ TakeOffer \/ EnqueueCheck \/ EnqueueSend
         \/ AwaitAnswer \/ OffersEnd

Writer == Write \/ WriterEnds

Looper(l) == Tick(l) \/ LoopSends(l) \/ LoopEnds(l)

\* Each of these happens at most a few times per connection.
Runtime == Watch \/ CloseSocket

Next ==
    \/ Cancel \/ ConnectTimeout \/ HelloArrives \/ Owner \/ Runtime
    \/ Reader \/ App \/ Writer \/ CallbackAges
    \/ \E l \in Loop : Looper(l)
    \/ \E kind \in Kind : Deliver(kind)
    \/ Breaks

Spec == Init /\ [][Next]_vars

\* Goroutines run, tickers tick, and a server tried again and again says HELLO
\* at last.
Fairness ==
    /\ WF_vars(Owner) /\ SF_vars(Dial) /\ SF_vars(HelloArrives) /\ WF_vars(Runtime)
    /\ WF_vars(Reader) /\ WF_vars(App) /\ WF_vars(Writer)
    /\ \A l \in Loop : WF_vars(Looper(l))

FairSpec == Spec /\ Fairness

-----------------------------------------------------------------------------
(* Properties *)

Established == sup \in {"session", "serve"}

\* An established connection has no read deadline: the watcher of the connect
\* context, which is cancelled as soon as the connection stands, can no longer
\* set one in the past.
NotPoisoned == Established => hello.deadline = "none" /\ hello.watcher # "firing"

\* Every offer read since the receiver subscribed has reached it, waits in the
\* channel or is held by the blocked reader until the connection closes, and
\* they wait in the order in which they came.
OffersReliable ==
    /\ inbox.subscribed /\ ~done =>
          \A o \in (inbox.mark + 1)..inbox.read :
              \/ o \in inbox.handled \cup ToSet(inbox.offers)
              \/ rd.pc \in {"load", "block"} /\ rd.msg.no = o
    /\ \A i, j \in DOMAIN inbox.offers : i < j => inbox.offers[i] < inbox.offers[j]
    /\ \A o \in inbox.handled, q \in ToSet(inbox.offers) : o < q

\* The id file exists only while the session it names is being served or
\* closed: never while the receiver connects, waits, or has ended, whatever an
\* earlier process left behind.
IdFileLive == idfile => sup \in {"start", "serve", "cancel", "exit"}

\* The peers are members of the server's room, but for those whose departure
\* is still under way, as long as the connection stands, and never more than
\* the limit.
PeersTrack ==
    /\ net.sock # "closed" =>
          peers \subseteq net.members \cup {m.peer : m \in {w \in ToSet(net.wire) : w.kind = "left"}}
    /\ Cardinality(peers) <= MaxPeers

\* The sender's callback finds room in its channel of one: however many answers
\* arrive, and whether or not somebody still waits for one, readLoop is never
\* stuck in it.
CallbackFree == rd.pc = "call" => answer.queued = 0

\* The client is ready for whatever arrives: no stale deadline, no peer too
\* many or gone for good, no callback that blocks, within the types.
ClientSound == TypeOK /\ NotPoisoned /\ PeersTrack /\ CallbackFree

\* A connection that breaks is noticed, even when the server only falls silent
\* and no read ever fails by itself; and a receiver whose connection ended has
\* another some time later, unless it is cancelled.
Reconnects ==
    /\ net.sock \in {"silent", "reset"} ~> done
    /\ program = "recv" /\ done ~> (Established /\ ~done) \/ cancelled

\* A cancelled receiver, and a sender or scan that leaves, end with every
\* goroutine of the client ended, the socket closed and no id file.
EndsClean ==
    cancelled \/ sup = "leave" ~>
        /\ sup = "ended" /\ ~idfile /\ net.sock \in {"none", "closed"}
        /\ rd.pc \in {"none", "ended"} /\ writer \in {"none", "ended"}
        /\ \A l \in Loop : loops[l] \in {"none", "ended"}
        /\ app \in {"none", "ended"}

=============================================================================
