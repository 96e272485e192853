-------------------------- MODULE SignalingProofs --------------------------
(***************************************************************************)
(* Proofs about the signaling connection: whatever the server sends and    *)
(* whenever the connection ends, the client's peers are the server's, its  *)
(* readLoop never waits in an answer callback, an established connection   *)
(* has no read deadline, offers reach the receiver in order and without a  *)
(* gap, and the id file exists only while it names a session.              *)
(***************************************************************************)
EXTENDS Signaling, FiniteSetTheorems, TLAPS

-----------------------------------------------------------------------------
(* The inductive invariant *)

\* Only the receiver publishes an id, and only in a session.
IdInv ==
    /\ IdFileLive
    /\ idfile \/ sup = "start" => program = "recv"

\* A connection stands only after the watcher has ended and the deadline was
\* cleared; the watcher never starts again on the same connection.
DeadlineInv == Established => hello.deadline = "none" /\ hello.watcher = "done"

\* Message i on the wire says that p has left.
Departs(i, p) == net.wire[i].kind = "left" /\ net.wire[i].peer = p

\* A peer in the table, or about to join it, is a member of the room or has a
\* departure under way behind it.
PeerInv ==
    net.sock # "closed" =>
        /\ \A p \in peers : p \in net.members \/ \E i \in DOMAIN net.wire : Departs(i, p)
        /\ \A i \in DOMAIN net.wire : net.wire[i].kind = "join" =>
              /\ net.wire[i].peer \in Peer
              /\ \/ net.wire[i].peer \in net.members
                 \/ \E j \in DOMAIN net.wire : i < j /\ Departs(j, net.wire[i].peer)

\* Until Connected readLoop does not run, and until BeginSession nobody takes
\* offers or waits for an answer.
StartInv ==
    /\ sup \in {"hello", "unwatch"} => rd.pc = "none"
    /\ sup \in {"hello", "unwatch", "session"} => app = "none"

\* The callback is registered once; from then on it is in the map, being
\* called with the channel empty, or gone.
AnswerInv ==
    /\ app \in {"none", "start"} => answer.age = NoCallback /\ answer.queued = 0 /\ rd.pc # "call"
    /\ answer.age < NoCallback => answer.queued = 0 /\ rd.pc # "call"
    /\ rd.pc = "call" => answer.queued = 0

\* The offers in q are those from r (the last one read) to n (the last one
\* sent), in order and without a gap.
Offers(q, i) == q[i].kind = "offer"

Numbered(q, r, n) ==
    /\ r <= n /\ (r = n \/ \E i \in DOMAIN q : Offers(q, i) /\ q[i].no = n)
    /\ \A i \in DOMAIN q : Offers(q, i) =>
          /\ r < q[i].no /\ q[i].no <= n
          /\ \/ q[i].no = r + 1
             \/ \E j \in DOMAIN q : j < i /\ Offers(q, j) /\ q[j].no = q[i].no - 1
    /\ \A i, j \in DOMAIN q : i < j /\ Offers(q, i) /\ Offers(q, j) => q[i].no < q[j].no

\* Nothing is lost on the wire while the connection stands.
NumberInv == net.sock # "closed" => Numbered(net.wire, inbox.read, net.sent)

\* The reader's hands: the offer it holds is the last one read, and everything
\* in the channel or handled came before.  It tries to send without waiting
\* only an offer that was read before the subscription.
Holding == rd.pc \in {"load", "block", "try"}

HoldInv ==
    /\ Holding => rd.msg.no = inbox.read /\ inbox.read > 0
    /\ \A o \in inbox.handled \cup ToSet(inbox.offers) :
          o <= inbox.read /\ (Holding => o < inbox.read)
    /\ rd.pc = "try" /\ inbox.subscribed => inbox.mark = inbox.read
    /\ inbox.mark <= inbox.read

IndInv ==
    /\ TypeOK /\ IdInv /\ DeadlineInv /\ PeerInv /\ StartInv /\ AnswerInv
    /\ NumberInv /\ HoldInv /\ OffersReliable

-----------------------------------------------------------------------------
(* Sequences *)

\* What is left of a sequence after its head was taken.
LEMMA TailFacts ==
    ASSUME NEW S, NEW q \in Seq(S), q # <<>>
    PROVE  /\ Tail(q) \in Seq(S) /\ Len(Tail(q)) = Len(q) - 1
           /\ 1 \in DOMAIN q /\ Head(q) = q[1] /\ Head(q) \in S
           /\ \A i \in DOMAIN Tail(q) : i + 1 \in DOMAIN q /\ Tail(q)[i] = q[i + 1]
           /\ \A i \in DOMAIN q : i > 1 => i - 1 \in DOMAIN Tail(q) /\ Tail(q)[i - 1] = q[i]
           /\ \A i \in DOMAIN q : i \in Nat /\ i >= 1
           /\ \A i \in DOMAIN Tail(q) : i \in Nat /\ i >= 1
  OBVIOUS

\* What a sequence is after an element was put at its end.
LEMMA AppendFacts ==
    ASSUME NEW S, NEW q \in Seq(S), NEW e \in S
    PROVE  /\ Append(q, e) \in Seq(S) /\ Len(Append(q, e)) = Len(q) + 1
           /\ Len(q) + 1 \in DOMAIN Append(q, e) /\ Append(q, e)[Len(q) + 1] = e
           /\ \A i \in DOMAIN q :
                 i \in DOMAIN Append(q, e) /\ Append(q, e)[i] = q[i] /\ i < Len(q) + 1
           /\ \A i \in DOMAIN Append(q, e) : i \in DOMAIN q \/ i = Len(q) + 1
           /\ \A i \in DOMAIN q : i \in Nat
  OBVIOUS

\* The last element joins, and the head leaves, the set of a sequence's elements.
LEMMA ElementFacts ==
    ASSUME NEW S, NEW q \in Seq(S), NEW e \in S
    PROVE  /\ ToSet(Append(q, e)) = ToSet(q) \cup {e}
           /\ q # <<>> => ToSet(q) = {Head(q)} \cup ToSet(Tail(q))
<1>1. ToSet(Append(q, e)) = ToSet(q) \cup {e}
  BY AppendFacts DEF ToSet
<1>2. ASSUME q # <<>>
      PROVE  ToSet(q) = {Head(q)} \cup ToSet(Tail(q))
  <2>1. ASSUME NEW i \in DOMAIN q
        PROVE  q[i] \in {Head(q)} \cup ToSet(Tail(q))
    <3>1. CASE i = 1
      BY <1>2, <3>1, TailFacts
    <3>2. CASE i > 1
      BY <1>2, <3>2, TailFacts DEF ToSet
    <3>3. QED
      BY <1>2, <3>1, <3>2, TailFacts
  <2>2. ASSUME NEW i \in DOMAIN Tail(q)
        PROVE  Tail(q)[i] \in ToSet(q)
    BY <1>2, TailFacts DEF ToSet
  <2>3. Head(q) \in ToSet(q)
    BY <1>2, TailFacts DEF ToSet
  <2>4. QED
    BY <2>1, <2>2, <2>3 DEF ToSet
<1>3. QED
  BY <1>1, <1>2

-----------------------------------------------------------------------------
(* Types *)

\* The assumption on the constants, one by one.
LEMMA ConstantFacts ==
    /\ MaxPeers \in Nat /\ CallbackTTL \in Nat /\ MaxOffers \in Nat
    /\ OfferCap \in Nat \ {0} /\ SendCap \in Nat \ {0}
    /\ InfoCap \in Nat \ {0} /\ WireCap \in Nat \ {0}
    /\ NoCallback \in Nat /\ NoCallback = CallbackTTL + 2
  BY SignalingAssumption DEF NoCallback

\* The parts of TypeOK.
OwnOK ==
    /\ program \in Program /\ cancelled \in BOOLEAN /\ idfile \in BOOLEAN /\ done \in BOOLEAN
    /\ sup \in {"start", "connect", "hello", "unwatch", "failed", "session", "serve",
                "cancel", "lost", "leave", "closing", "wait", "exit", "ended"}

HelloState == [ctx : BOOLEAN, ok : BOOLEAN, deadline : {"none", "future", "past"},
               watcher : {"none", "watching", "firing", "done"}]
NetState   == [sock : {"none", "up", "silent", "reset", "closed"}, wire : Seq(Message),
               members : SUBSET Peer, sent : 0..MaxOffers]
ReadState  == [pc : {"none", "read", "load", "block", "try", "call", "ended"}, msg : Message]
InboxState == [offers : Seq(OfferNo), subscribed : BOOLEAN, mark : 0..MaxOffers,
               read : 0..MaxOffers, handled : SUBSET OfferNo]

AnswerState == [age : 0..NoCallback, queued : 0..1]

NetOK   == net \in NetState /\ Len(net.wire) <= WireCap
InboxOK == inbox \in InboxState /\ Len(inbox.offers) <= OfferCap
LoopOK  == /\ info \in 0..InfoCap /\ sendq \in 0..SendCap
           /\ app \in {"none", "start", "select", "check", "send", "await", "ended"}
           /\ writer \in {"none", "idle", "ended"}
           /\ loops \in [Loop -> {"none", "idle", "send", "ended"}]
PeersOK == peers \subseteq Peer /\ Cardinality(peers) <= MaxPeers

\* TypeOK is the conjunction of these parts.
LEMMA TypeParts ==
    TypeOK <=> /\ OwnOK /\ hello \in HelloState /\ NetOK /\ rd \in ReadState /\ InboxOK
               /\ LoopOK /\ PeersOK /\ answer \in AnswerState
  BY DEF TypeOK, AnswerState, OwnOK, HelloState, NetOK, NetState, ReadState, InboxOK,
         InboxState, LoopOK, PeersOK

\* No message, and an empty channel of offers.
LEMMA Nothing ==
    NoMsg \in Message /\ NoInbox \in InboxState /\ Len(NoInbox.offers) = 0
  BY ConstantFacts DEF NoMsg, Message, Kind, NoInbox, InboxState

\* The owner's variables keep their types.
LEMMA OwnTypes == IndInv /\ [Next]_vars => OwnOK'
<1> SUFFICES ASSUME IndInv, [Next]_vars
             PROVE  OwnOK'
  OBVIOUS
<1>1. CASE Cancel
  BY <1>1 DEF Cancel, IndInv, TypeOK, OwnOK, ownVars, sendVars
<1>2. CASE HelloArrives
  BY <1>2 DEF HelloArrives, IndInv, TypeOK, OwnOK, ownVars, sendVars, Cut, kSubset
<1>3. CASE RemoveOldId
  BY <1>3 DEF RemoveOldId, IndInv, TypeOK, OwnOK, ownVars, sendVars
<1>4. CASE LoopHead
  BY <1>4 DEF LoopHead, IndInv, TypeOK, OwnOK, ownVars, sendVars
<1>5. CASE DialFails
  BY <1>5 DEF DialFails, IndInv, TypeOK, OwnOK, ownVars, sendVars
<1>6. CASE Dial
  BY <1>6 DEF Dial, IndInv, TypeOK, OwnOK, ownVars, sendVars, NoInbox, NoMsg
<1>7. CASE HelloFails
  BY <1>7 DEF HelloFails, IndInv, TypeOK, OwnOK, ownVars, sendVars
<1>8. CASE Connected
  BY <1>8 DEF Connected, IndInv, TypeOK, OwnOK, ownVars, sendVars, Watched
<1>9. CASE BeginSession
  BY <1>9 DEF BeginSession, IndInv, TypeOK, OwnOK, ownVars, sendVars
<1>10. CASE SessionCancelled
  BY <1>10 DEF SessionCancelled, IndInv, TypeOK, OwnOK, ownVars, sendVars
<1>11. CASE SessionLost
  BY <1>11 DEF SessionLost, IndInv, TypeOK, OwnOK, ownVars, sendVars, IdCleared
<1>12. CASE Leave
  BY <1>12 DEF Leave, IndInv, TypeOK, OwnOK, ownVars, sendVars
<1>13. CASE CallClose
  BY <1>13 DEF CallClose, IndInv, TypeOK, OwnOK, ownVars, sendVars
<1>14. CASE AfterSession
  BY <1>14 DEF AfterSession, IndInv, TypeOK, OwnOK, ownVars, sendVars
<1>15. CASE ConnectFailed
  BY <1>15 DEF ConnectFailed, IndInv, TypeOK, OwnOK, ownVars, sendVars, Retry
<1>16. CASE WaitReconnect
  BY <1>16 DEF WaitReconnect, IndInv, TypeOK, OwnOK, ownVars, sendVars
<1>17. CASE Exit
  BY <1>17 DEF Exit, IndInv, TypeOK, OwnOK, ownVars, sendVars
<1>18. CASE ReadFails
  BY <1>18 DEF ReadFails, IndInv, TypeOK, OwnOK, ownVars, sendVars, NoMsg
<1>19. CASE Write
  BY <1>19 DEF Write, IndInv, TypeOK, OwnOK, ownVars, sendVars
<1>20. CASE UNCHANGED <<program, cancelled, sup, idfile, done>>
  BY <1>20 DEF IndInv, TypeOK, OwnOK, ownVars, sendVars
<1>21. QED
  BY <1>1, <1>2, <1>3, <1>4, <1>5, <1>6, <1>7, <1>8, <1>9, <1>10, <1>11, <1>12, <1>13, <1>14,
     <1>15, <1>16, <1>17, <1>18, <1>19, <1>20
     DEF Next, Owner, Runtime, Reader, App, Writer, Looper, ConnectTimeout, Watch,
        CloseSocket, Receive, Callback, LoadSubscribed, PutOffer, OfferAbandoned, AppStarts,
           TakeOffer, EnqueueCheck, EnqueueSend, AwaitAnswer, OffersEnd, WriterEnds,
              CallbackAges, Tick, LoopSends, LoopEnds, Deliver, Breaks, vars, ownVars, sendVars

\* The variables of waitForHello keep their types.
LEMMA HelloTypes == IndInv /\ [Next]_vars => (hello \in HelloState)'
<1> SUFFICES ASSUME IndInv, [Next]_vars
             PROVE  (hello \in HelloState)'
  OBVIOUS
<1>1. CASE Cancel
  BY <1>1 DEF Cancel, IndInv, TypeOK, HelloState, ownVars, sendVars
<1>2. CASE ConnectTimeout
  BY <1>2 DEF ConnectTimeout, IndInv, TypeOK, HelloState, ownVars, sendVars
<1>3. CASE HelloArrives
  BY <1>3 DEF HelloArrives, IndInv, TypeOK, HelloState, ownVars, sendVars, Cut, kSubset
<1>4. CASE Dial
  BY <1>4 DEF Dial, IndInv, TypeOK, HelloState, ownVars, sendVars, NoInbox, NoMsg
<1>5. CASE HelloFails
  BY <1>5 DEF HelloFails, IndInv, TypeOK, HelloState, ownVars, sendVars
<1>6. CASE Connected
  BY <1>6 DEF Connected, IndInv, TypeOK, HelloState, ownVars, sendVars, Watched
<1>7. CASE Watch
  <2>1. \/ hello' = [hello EXCEPT !.watcher = "firing"]
        \/ hello' = [hello EXCEPT !.watcher = "done"]
        \/ hello' = [hello EXCEPT !.watcher = "done", !.deadline = "past"]
    BY <1>7 DEF Watch
  <2>2. hello \in HelloState
    BY TypeParts DEF IndInv
  <2>3. QED
    BY <2>1, <2>2 DEF HelloState
<1>8. CASE UNCHANGED <<hello>>
  BY <1>8 DEF IndInv, TypeOK, HelloState, ownVars, sendVars
<1>9. QED
  BY <1>1, <1>2, <1>3, <1>4, <1>5, <1>6, <1>7, <1>8
     DEF Next, Owner, Runtime, Reader, App, Writer, Looper, RemoveOldId, LoopHead, DialFails,
        BeginSession, SessionCancelled, SessionLost, Leave, CallClose, AfterSession,
           ConnectFailed, WaitReconnect, Exit, CloseSocket, Receive, Callback,
              LoadSubscribed, PutOffer, OfferAbandoned, ReadFails, AppStarts, TakeOffer,
                 EnqueueCheck, EnqueueSend, AwaitAnswer, OffersEnd, Write, WriterEnds,
                    CallbackAges, Tick, LoopSends, LoopEnds, Deliver, Breaks, vars, ownVars,
                       sendVars

\* readLoop keeps its types.
LEMMA ReadTypes == IndInv /\ [Next]_vars => (rd \in ReadState)'
<1> SUFFICES ASSUME IndInv, [Next]_vars
             PROVE  (rd \in ReadState)'
  OBVIOUS
<1>1. CASE Dial
  BY <1>1, Nothing DEF Dial, ReadState
<1>2. CASE Connected
  BY <1>2, Nothing DEF Connected, IndInv, TypeOK, ReadState, ownVars, sendVars, Watched
<1>3. CASE Receive
  <2>1. Head(net.wire) \in Message
    BY <1>3 DEF Receive, IndInv, TypeOK
  <2>2. QED
    BY <1>3, <2>1 DEF Receive, IndInv, TypeOK, ReadState
<1>4. CASE Callback
  BY <1>4, Nothing DEF Callback, ReadState
<1>5. CASE LoadSubscribed
  BY <1>5, Nothing DEF LoadSubscribed, IndInv, TypeOK, ReadState, ownVars, sendVars, OfferChoice
<1>6. CASE PutOffer
  BY <1>6, Nothing DEF PutOffer, ReadState
<1>7. CASE OfferAbandoned
  BY <1>7, Nothing DEF OfferAbandoned, ReadState
<1>8. CASE ReadFails
  BY <1>8, Nothing DEF ReadFails, ReadState
<1>9. CASE UNCHANGED <<rd>>
  BY <1>9 DEF IndInv, TypeOK, ReadState, ownVars, sendVars
<1>10. QED
  BY <1>1, <1>2, <1>3, <1>4, <1>5, <1>6, <1>7, <1>8, <1>9
     DEF Next, Owner, Runtime, Reader, App, Writer, Looper, Cancel, ConnectTimeout,
        HelloArrives, RemoveOldId, LoopHead, DialFails, HelloFails, BeginSession,
           SessionCancelled, SessionLost, Leave, CallClose, AfterSession, ConnectFailed,
              WaitReconnect, Exit, Watch, CloseSocket, AppStarts, TakeOffer, EnqueueCheck,
                 EnqueueSend, AwaitAnswer, OffersEnd, Write, WriterEnds, CallbackAges, Tick,
                    LoopSends, LoopEnds, Deliver, Breaks, vars, ownVars, sendVars

\* offerChan keeps its type and its bound.
LEMMA InboxTypes == IndInv /\ [Next]_vars => InboxOK'
<1> SUFFICES ASSUME IndInv, [Next]_vars
             PROVE  InboxOK'
  OBVIOUS
<1>1. CASE Dial
  BY <1>1, Nothing, ConstantFacts DEF Dial, InboxOK
<1>2. CASE Receive
  <2>1. Head(net.wire) \in Message
    BY <1>2 DEF Receive, IndInv, TypeOK
  <2>2. Head(net.wire).no \in 0..MaxOffers
    BY <2>1 DEF Message
  <2>3. QED
    BY <1>2, <2>2, ZenonT(30) DEF Receive, IndInv, TypeOK, InboxOK, InboxState
<1>3. CASE PutOffer
  <2>1. rd.msg.no \in OfferNo
    <3>1. rd.pc \in {"block", "try"}
      BY <1>3 DEF PutOffer
    <3>2. inbox.read \in 0..MaxOffers
      BY DEF IndInv, TypeOK
    <3>3. QED
      BY <3>1, <3>2, ConstantFacts DEF IndInv, HoldInv, Holding, OfferNo
  <2>2. CASE UNCHANGED inbox
    BY <2>2 DEF IndInv, TypeOK, InboxOK, InboxState
  <2>3. CASE /\ Len(inbox.offers) < OfferCap
             /\ inbox' = [inbox EXCEPT !.offers = Append(@, rd.msg.no)]
    <3>1. /\ Append(inbox.offers, rd.msg.no) \in Seq(OfferNo)
          /\ Len(Append(inbox.offers, rd.msg.no)) <= OfferCap
      <4>1. inbox.offers \in Seq(OfferNo)
        BY DEF IndInv, TypeOK
      <4>2. QED
        BY <2>1, <2>3, <4>1, AppendFacts, ConstantFacts
    <3>2. QED
      BY <2>3, <3>1 DEF IndInv, TypeOK, InboxOK, InboxState
  <2>4. QED
    BY <1>3, <2>2, <2>3 DEF PutOffer
<1>4. CASE AppStarts
  <2>1. CASE UNCHANGED inbox
    BY <2>1 DEF IndInv, TypeOK, InboxOK, InboxState
  <2>2. CASE inbox' = [inbox EXCEPT !.subscribed = TRUE, !.mark = inbox.read]
    BY <2>2 DEF IndInv, TypeOK, InboxOK, InboxState
  <2>3. QED
    BY <1>4, <2>1, <2>2 DEF AppStarts
<1>5. CASE TakeOffer
  <2>1. /\ Tail(inbox.offers) \in Seq(OfferNo) /\ Len(Tail(inbox.offers)) <= OfferCap
        /\ inbox.handled \cup {Head(inbox.offers)} \in SUBSET OfferNo
    <3>1. /\ inbox.offers \in Seq(OfferNo) /\ inbox.offers # <<>> /\ Len(inbox.offers) <= OfferCap
          /\ inbox.handled \in SUBSET OfferNo
      BY <1>5 DEF TakeOffer, IndInv, TypeOK
    <3>2. QED
      BY <3>1, TailFacts, ConstantFacts
  <2>2. QED
    BY <1>5, <2>1 DEF TakeOffer, IndInv, TypeOK, InboxOK, InboxState
<1>6. CASE UNCHANGED <<inbox>>
  BY <1>6 DEF IndInv, TypeOK, InboxOK, InboxState, ownVars, sendVars
<1>7. QED
  BY <1>1, <1>2, <1>3, <1>4, <1>5, <1>6
     DEF Next, Owner, Runtime, Reader, App, Writer, Looper, Cancel, ConnectTimeout,
        HelloArrives, RemoveOldId, LoopHead, DialFails, HelloFails, Connected, BeginSession,
           SessionCancelled, SessionLost, Leave, CallClose, AfterSession, ConnectFailed,
              WaitReconnect, Exit, Watch, CloseSocket, Callback, LoadSubscribed,
                 OfferAbandoned, ReadFails, EnqueueCheck, EnqueueSend, AwaitAnswer,
                    OffersEnd, Write, WriterEnds, CallbackAges, Tick, LoopSends, LoopEnds,
                       Deliver, Breaks, vars, ownVars, sendVars

\* The socket and the wire keep their types and bounds.
LEMMA NetTypes == IndInv /\ [Next]_vars => NetOK'
<1> SUFFICES ASSUME IndInv, [Next]_vars
             PROVE  NetOK'
  OBVIOUS
<1>1. CASE Dial
  <2>1. PICK m \in SUBSET Peer : net' = [sock |-> "up", wire |-> <<>>, members |-> m, sent |-> 0]
    BY <1>1 DEF Dial
  <2>2. QED
    BY <2>1, ConstantFacts DEF NetOK, NetState
<1>2. CASE Connected
  <2>1. UNCHANGED net \/ net' = [net EXCEPT !.sock = "closed"]
    BY <1>2 DEF Connected
  <2>2. QED
    BY <2>1 DEF IndInv, TypeOK, NetOK, NetState
<1>3. CASE CloseSocket
  <2>1. net' = [net EXCEPT !.sock = "closed", !.wire = <<>>]
    BY <1>3 DEF CloseSocket
  <2>2. <<>> \in Seq(Message) /\ Len(<<>>) <= WireCap
    BY ConstantFacts
  <2>3. QED
    BY <2>1, <2>2 DEF IndInv, TypeOK, NetOK, NetState
<1>4. CASE Receive
  <2>1. Tail(net.wire) \in Seq(Message) /\ Len(Tail(net.wire)) <= WireCap
    BY <1>4, ConstantFacts, SMTT(30) DEF Receive, IndInv, TypeOK
  <2>2. QED
    BY <1>4, <2>1 DEF Receive, IndInv, TypeOK, NetOK, NetState
<1>5. CASE Write
  <2>1. UNCHANGED net \/ net' = [net EXCEPT !.sock = "reset"]
    BY <1>5 DEF Write
  <2>2. QED
    BY <2>1 DEF IndInv, TypeOK, NetOK, NetState
<1>6. ASSUME NEW kind \in Kind, Deliver(kind)
      PROVE  NetOK'
  <2>1. PICK q \in Peer \cup {"none"}, no \in 0..MaxOffers, m \in SUBSET Peer, n \in 0..MaxOffers :
              Put(kind, q, no, m, n)
    <3>1. /\ 0 \in 0..MaxOffers /\ net.sent \in 0..MaxOffers /\ net.members \in SUBSET Peer
          /\ net.sent < MaxOffers => net.sent + 1 \in 0..MaxOffers
      BY ConstantFacts DEF IndInv, TypeOK
    <3>2. \A q \in Peer : net.members \cup {q} \in SUBSET Peer /\ net.members \ {q} \in SUBSET Peer
      BY <3>1
    <3>3. QED
      BY <1>6, <3>1, <3>2, Zenon DEF Deliver
  <2>2. [kind |-> kind, peer |-> q, no |-> no] \in Message
    BY DEF Message
  <2>3. /\ Append(net.wire, [kind |-> kind, peer |-> q, no |-> no]) \in Seq(Message)
        /\ Len(Append(net.wire, [kind |-> kind, peer |-> q, no |-> no])) <= WireCap
    BY <1>6, <2>2, ConstantFacts DEF Deliver, IndInv, TypeOK
  <2>4. QED
    BY <2>1, <2>3 DEF Put, IndInv, TypeOK, NetOK, NetState
<1>7. CASE Breaks
  BY <1>7 DEF Breaks, IndInv, TypeOK, NetOK, NetState, ownVars, sendVars
<1>8. CASE UNCHANGED <<net>>
  BY <1>8 DEF IndInv, TypeOK, NetOK, NetState, ownVars, sendVars
<1>9. QED
  BY <1>1, <1>2, <1>3, <1>4, <1>5, <1>6, <1>7, <1>8
     DEF Next, Owner, Runtime, Reader, App, Writer, Looper, Cancel, ConnectTimeout,
        HelloArrives, RemoveOldId, LoopHead, DialFails, HelloFails, BeginSession,
           SessionCancelled, SessionLost, Leave, CallClose, AfterSession, ConnectFailed,
              WaitReconnect, Exit, Watch, Callback, LoadSubscribed, PutOffer, OfferAbandoned,
                 ReadFails, AppStarts, TakeOffer, EnqueueCheck, EnqueueSend, AwaitAnswer,
                    OffersEnd, WriterEnds, CallbackAges, Tick, LoopSends, LoopEnds, vars,
                       ownVars, sendVars

\* The queues stay within their capacities.
LEMMA LoopTypes == IndInv /\ [Next]_vars => LoopOK'
<1> SUFFICES ASSUME IndInv, [Next]_vars
             PROVE  LoopOK'
  OBVIOUS
<1>1. CASE Dial
  BY <1>1, ConstantFacts DEF Dial, IndInv, TypeOK, LoopOK, ownVars, sendVars, NoInbox, NoMsg
<1>2. CASE Connected
  <2>1. loops' = loops \/ loops' = [loops EXCEPT !["ping"] = "idle"]
    BY <1>2 DEF Connected
  <2>2. loops' \in [Loop -> {"none", "idle", "send", "ended"}]
    BY <2>1 DEF IndInv, TypeOK
  <2>3. QED
    BY <1>2, <2>2 DEF Connected, IndInv, TypeOK, LoopOK
<1>3. CASE BeginSession
  <2>1. loops' = loops \/ loops' = [loops EXCEPT !["refresh"] = "idle"]
    BY <1>3 DEF BeginSession
  <2>2. loops' \in [Loop -> {"none", "idle", "send", "ended"}]
    BY <2>1 DEF IndInv, TypeOK
  <2>3. QED
    BY <1>3, <2>2 DEF BeginSession, IndInv, TypeOK, LoopOK
<1>4. CASE Receive
  <2>1. info' = info \/ info' = Post(info)
    BY <1>4 DEF Receive
  <2>2. info' \in 0..InfoCap
    BY <2>1, ConstantFacts DEF IndInv, TypeOK, Post
  <2>3. QED
    BY <1>4, <2>2 DEF Receive, IndInv, TypeOK, LoopOK, sendVars
<1>5. CASE AppStarts
  BY <1>5, ConstantFacts DEF AppStarts, IndInv, TypeOK, LoopOK, ownVars, sendVars
<1>6. CASE TakeOffer
  BY <1>6, ConstantFacts DEF TakeOffer, IndInv, TypeOK, LoopOK, ownVars, sendVars
<1>7. CASE EnqueueCheck
  BY <1>7, ConstantFacts DEF EnqueueCheck, IndInv, TypeOK, LoopOK, ownVars, sendVars
<1>8. CASE EnqueueSend
  BY <1>8, ConstantFacts DEF EnqueueSend, IndInv, TypeOK, LoopOK, ownVars, sendVars
<1>9. CASE AwaitAnswer
  BY <1>9, ConstantFacts DEF AwaitAnswer, IndInv, TypeOK, LoopOK, ownVars, sendVars
<1>10. CASE OffersEnd
  BY <1>10, ConstantFacts DEF OffersEnd, IndInv, TypeOK, LoopOK, ownVars, sendVars
<1>11. CASE Write
  <2>1. sendq' \in 0..SendCap /\ writer' \in {"none", "idle", "ended"}
    <3>1. /\ writer' \in {writer, "ended"} /\ writer \in {"none", "idle", "ended"}
          /\ sendq > 0 /\ sendq' = sendq - 1 /\ sendq \in 0..SendCap
      BY <1>11 DEF Write, IndInv, TypeOK
    <3>2. QED
      BY <3>1, ConstantFacts
  <2>2. UNCHANGED <<info, app, loops>>
    BY <1>11 DEF Write
  <2>3. QED
    BY <2>1, <2>2 DEF IndInv, TypeOK, LoopOK
<1>12. CASE WriterEnds
  BY <1>12, ConstantFacts DEF WriterEnds, IndInv, TypeOK, LoopOK, ownVars, sendVars
<1>13. ASSUME NEW l \in Loop, Tick(l)
      PROVE  LoopOK'
  <2>1. sendq' \in 0..SendCap
    BY <1>13, ConstantFacts DEF Tick, IndInv, TypeOK
  <2>2. loops' = loops \/ loops' = [loops EXCEPT ![l] = "send"]
    BY <1>13 DEF Tick
  <2>3. UNCHANGED <<info, app, writer>>
    BY <1>13 DEF Tick
  <2>4. QED
    BY <2>1, <2>2, <2>3 DEF IndInv, TypeOK, LoopOK
<1>14. ASSUME NEW l \in Loop, LoopSends(l)
      PROVE  LoopOK'
  BY <1>14, ConstantFacts DEF LoopSends, IndInv, TypeOK, LoopOK, ownVars, sendVars
<1>15. ASSUME NEW l \in Loop, LoopEnds(l)
      PROVE  LoopOK'
  BY <1>15, ConstantFacts DEF LoopEnds, IndInv, TypeOK, LoopOK, ownVars, sendVars, SeesDone
<1>16. CASE UNCHANGED <<info, app, sendq, writer, loops>>
  BY <1>16 DEF IndInv, TypeOK, LoopOK, ownVars, sendVars
<1>17. QED
  BY <1>1, <1>2, <1>3, <1>4, <1>5, <1>6, <1>7, <1>8, <1>9, <1>10, <1>11, <1>12, <1>13, <1>14,
     <1>15, <1>16
     DEF Next, Owner, Runtime, Reader, App, Writer, Looper, Cancel, ConnectTimeout,
        HelloArrives, RemoveOldId, LoopHead, DialFails, HelloFails, SessionCancelled,
           SessionLost, Leave, CallClose, AfterSession, ConnectFailed, WaitReconnect, Exit,
              Watch, CloseSocket, Callback, LoadSubscribed, PutOffer, OfferAbandoned,
                 ReadFails, CallbackAges, Deliver, Breaks, vars, ownVars, sendVars

\* The table stays within MaxPeers.
LEMMA PeersTypes == IndInv /\ [Next]_vars => PeersOK'
<1> SUFFICES ASSUME IndInv, [Next]_vars
             PROVE  PeersOK'
  OBVIOUS
<1>1. CASE HelloArrives
  <2>1. peers' \subseteq Peer
    BY <1>1 DEF HelloArrives, IndInv, TypeOK, Cut, kSubset
  <2>2. IsFiniteSet(net.members) /\ Cardinality(net.members) \in Nat
    BY SignalingAssumption, FS_Subset, FS_CardinalityType DEF IndInv, TypeOK
  <2>3. Cardinality(peers') <= MaxPeers
    <3>1. CASE Cardinality(net.members) <= MaxPeers
      BY <1>1, <3>1 DEF HelloArrives, Cut
    <3>2. CASE ~(Cardinality(net.members) <= MaxPeers)
      BY <1>1, <3>2, ConstantFacts DEF HelloArrives, Cut, kSubset
    <3>3. QED
      BY <3>1, <3>2
  <2>4. QED
    BY <2>1, <2>3 DEF PeersOK
<1>2. CASE Dial
  BY <1>2, FS_EmptySet, ConstantFacts DEF Dial, PeersOK
<1>3. CASE Receive
  <2> DEFINE m == Head(net.wire)
  <2>1. IsFiniteSet(peers) /\ Cardinality(peers) \in Nat
    BY SignalingAssumption, FS_Subset, FS_CardinalityType DEF IndInv, TypeOK
  <2>2. peers' = handlePeerUpdate(m)
    BY <1>3 DEF Receive
  <2>3. CASE peers' = peers
    BY <2>3 DEF IndInv, TypeOK, PeersOK
  <2>4. CASE peers' = peers \ {m.peer}
    <3>1. Cardinality(peers') <= Cardinality(peers) /\ Cardinality(peers') \in Nat
      BY <2>1, <2>4, FS_Subset, FS_CardinalityType
    <3>2. QED
      BY <2>1, <2>4, <3>1, ConstantFacts DEF IndInv, TypeOK, PeersOK
  <2>5. CASE m.kind = "join" /\ Cardinality(peers) < MaxPeers /\ peers' = peers \cup {m.peer}
    <3>1. net.wire # <<>> /\ net.sock # "closed"
      BY <1>3 DEF Receive
    <3>2. 1 \in DOMAIN net.wire /\ m = net.wire[1]
      BY <3>1 DEF IndInv, TypeOK
    <3>3. m.peer \in Peer
      BY <2>5, <3>1, <3>2 DEF IndInv, PeerInv
    <3>4. Cardinality(peers') \in {Cardinality(peers), Cardinality(peers) + 1}
      BY <2>1, <2>5, FS_AddElement
    <3>5. QED
      BY <2>1, <2>5, <3>3, <3>4, ConstantFacts DEF IndInv, TypeOK, PeersOK
  <2>6. QED
    BY <2>2, <2>3, <2>4, <2>5 DEF handlePeerUpdate, Known
<1>4. CASE UNCHANGED <<peers>>
  BY <1>4 DEF IndInv, TypeOK, PeersOK, ownVars, sendVars
<1>5. QED
  BY <1>1, <1>2, <1>3, <1>4
     DEF Next, Owner, Runtime, Reader, App, Writer, Looper, Cancel, ConnectTimeout,
        RemoveOldId, LoopHead, DialFails, HelloFails, Connected, BeginSession,
           SessionCancelled, SessionLost, Leave, CallClose, AfterSession, ConnectFailed,
              WaitReconnect, Exit, Watch, CloseSocket, Callback, LoadSubscribed, PutOffer,
                 OfferAbandoned, ReadFails, AppStarts, TakeOffer, EnqueueCheck, EnqueueSend,
                    AwaitAnswer, OffersEnd, Write, WriterEnds, CallbackAges, Tick, LoopSends,
                       LoopEnds, Deliver, Breaks, vars, ownVars, sendVars

\* The callback's age and the answers keep their types.
LEMMA AnswerTypes == IndInv /\ [Next]_vars => (answer \in AnswerState)'
<1> SUFFICES ASSUME IndInv, [Next]_vars
             PROVE  (answer \in AnswerState)'
  OBVIOUS
<1>0. answer \in AnswerState
  BY TypeParts DEF IndInv
<1>1. CASE Dial
  BY <1>1, ConstantFacts DEF Dial, AnswerState
<1>2. CASE CloseSocket
  <2>1. answer' = [answer EXCEPT !.age = NoCallback]
    BY <1>2 DEF CloseSocket
  <2>2. NoCallback \in 0..NoCallback
    BY ConstantFacts
  <2>3. QED
    BY <1>0, <2>1, <2>2 DEF AnswerState
<1>3. CASE Receive
  <2>1. answer' = answer \/ answer' = [answer EXCEPT !.age = NoCallback]
    BY <1>3 DEF Receive, TakenCallback
  <2>2. NoCallback \in 0..NoCallback
    BY ConstantFacts
  <2>3. QED
    BY <1>0, <2>1, <2>2 DEF AnswerState
<1>4. CASE Callback
  <2>1. answer' = answer \/ answer' = [answer EXCEPT !.queued = 1]
    BY <1>4 DEF Callback
  <2>2. QED
    BY <1>0, <2>1 DEF AnswerState
<1>5. CASE AppStarts
  <2>1. answer' = answer \/ answer' = [answer EXCEPT !.age = 0]
    BY <1>5 DEF AppStarts
  <2>2. 0 \in 0..NoCallback
    BY ConstantFacts
  <2>3. QED
    BY <1>0, <2>1, <2>2 DEF AnswerState
<1>6. CASE AwaitAnswer
  <2>1. answer' = answer \/ answer' = [answer EXCEPT !.queued = 0]
    BY <1>6 DEF AwaitAnswer
  <2>2. QED
    BY <1>0, <2>1 DEF AnswerState
<1>7. CASE CallbackAges
  <2>1. answer.age <= CallbackTTL + 1 /\ answer' = [answer EXCEPT !.age = answer.age + 1]
    BY <1>7, <1>0 DEF CallbackAges, AnswerState
  <2>2. answer.age + 1 \in 0..NoCallback
    BY <1>0, <2>1, ConstantFacts DEF AnswerState
  <2>3. QED
    BY <1>0, <2>1, <2>2 DEF AnswerState
<1>8. CASE UNCHANGED <<answer>>
  BY <1>0, <1>8 DEF AnswerState
<1>9. QED
  BY <1>1, <1>2, <1>3, <1>4, <1>5, <1>6, <1>7, <1>8
     DEF Next, Owner, Runtime, Reader, App, Writer, Looper, Cancel, ConnectTimeout,
        HelloArrives, RemoveOldId, LoopHead, DialFails, HelloFails, Connected, BeginSession,
           SessionCancelled, SessionLost, Leave, CallClose, AfterSession, ConnectFailed,
              WaitReconnect, Exit, Watch, LoadSubscribed, PutOffer, OfferAbandoned,
                 ReadFails, TakeOffer, EnqueueCheck, EnqueueSend, OffersEnd, Write,
                    WriterEnds, Tick, LoopSends, LoopEnds, Deliver, Breaks, vars, ownVars,
                       sendVars

\* Every step keeps the types.
LEMMA TypeStep == IndInv /\ [Next]_vars => TypeOK'
  BY OwnTypes, HelloTypes, ReadTypes, InboxTypes, NetTypes, LoopTypes, PeersTypes, AnswerTypes,
     TypeParts, PTL

\* The id file is removed before, or as, its session ends.
LEMMA IdStep == IndInv /\ [Next]_vars => IdInv'
<1> SUFFICES ASSUME IndInv, [Next]_vars
             PROVE  IdInv'
  OBVIOUS
<1>1. CASE HelloArrives
  BY <1>1 DEF HelloArrives, IndInv, TypeOK, IdInv, IdFileLive, ownVars, sendVars, Cut, kSubset
<1>2. CASE RemoveOldId
  BY <1>2 DEF RemoveOldId, IndInv, TypeOK, IdInv, IdFileLive, ownVars, sendVars
<1>3. CASE LoopHead
  BY <1>3 DEF LoopHead, IndInv, TypeOK, IdInv, IdFileLive, ownVars, sendVars
<1>4. CASE DialFails
  BY <1>4 DEF DialFails, IndInv, TypeOK, IdInv, IdFileLive, ownVars, sendVars
<1>5. CASE Dial
  BY <1>5 DEF Dial, IndInv, TypeOK, IdInv, IdFileLive, ownVars, sendVars, NoInbox, NoMsg
<1>6. CASE HelloFails
  BY <1>6 DEF HelloFails, IndInv, TypeOK, IdInv, IdFileLive, ownVars, sendVars
<1>7. CASE Connected
  BY <1>7 DEF Connected, IndInv, TypeOK, IdInv, IdFileLive, ownVars, sendVars, Watched
<1>8. CASE BeginSession
  BY <1>8 DEF BeginSession, IndInv, TypeOK, IdInv, IdFileLive, ownVars, sendVars
<1>9. CASE SessionCancelled
  BY <1>9 DEF SessionCancelled, IndInv, TypeOK, IdInv, IdFileLive, ownVars, sendVars
<1>10. CASE SessionLost
  BY <1>10 DEF SessionLost, IndInv, TypeOK, IdInv, IdFileLive, ownVars, sendVars, IdCleared
<1>11. CASE Leave
  BY <1>11 DEF Leave, IndInv, TypeOK, IdInv, IdFileLive, ownVars, sendVars
<1>12. CASE CallClose
  BY <1>12 DEF CallClose, IndInv, TypeOK, IdInv, IdFileLive, ownVars, sendVars
<1>13. CASE AfterSession
  BY <1>13 DEF AfterSession, IndInv, TypeOK, IdInv, IdFileLive, ownVars, sendVars
<1>14. CASE ConnectFailed
  BY <1>14 DEF ConnectFailed, IndInv, TypeOK, IdInv, IdFileLive, ownVars, sendVars, Retry
<1>15. CASE WaitReconnect
  BY <1>15 DEF WaitReconnect, IndInv, TypeOK, IdInv, IdFileLive, ownVars, sendVars
<1>16. CASE Exit
  BY <1>16 DEF Exit, IndInv, TypeOK, IdInv, IdFileLive, ownVars, sendVars
<1>17. CASE UNCHANGED <<program, sup, idfile>>
  BY <1>17 DEF IndInv, TypeOK, IdInv, IdFileLive, ownVars, sendVars
<1>18. QED
  BY <1>1, <1>2, <1>3, <1>4, <1>5, <1>6, <1>7, <1>8, <1>9, <1>10, <1>11, <1>12, <1>13, <1>14,
     <1>15, <1>16, <1>17
     DEF Next, Owner, Runtime, Reader, App, Writer, Looper, Cancel, ConnectTimeout, Watch,
        CloseSocket, Receive, Callback, LoadSubscribed, PutOffer, OfferAbandoned, ReadFails,
           AppStarts, TakeOffer, EnqueueCheck, EnqueueSend, AwaitAnswer, OffersEnd, Write,
              WriterEnds, CallbackAges, Tick, LoopSends, LoopEnds, Deliver, Breaks, vars,
                 ownVars, sendVars

\* The deadline stays cleared.
LEMMA DeadlineStep == IndInv /\ [Next]_vars => DeadlineInv'
<1> SUFFICES ASSUME IndInv, [Next]_vars
             PROVE  DeadlineInv'
  OBVIOUS
<1>1. CASE Cancel
  BY <1>1 DEF Cancel, IndInv, TypeOK, DeadlineInv, Established, ownVars, sendVars
<1>2. CASE ConnectTimeout
  BY <1>2 DEF ConnectTimeout, IndInv, TypeOK, DeadlineInv, Established, ownVars, sendVars
<1>3. CASE HelloArrives
  BY <1>3 DEF HelloArrives, IndInv, TypeOK, DeadlineInv, Established, ownVars, sendVars, Cut,
     kSubset
<1>4. CASE RemoveOldId
  BY <1>4 DEF RemoveOldId, IndInv, TypeOK, DeadlineInv, Established, ownVars, sendVars
<1>5. CASE LoopHead
  BY <1>5 DEF LoopHead, IndInv, TypeOK, DeadlineInv, Established, ownVars, sendVars
<1>6. CASE DialFails
  BY <1>6 DEF DialFails, IndInv, TypeOK, DeadlineInv, Established, ownVars, sendVars
<1>7. CASE Dial
  BY <1>7 DEF Dial, IndInv, TypeOK, DeadlineInv, Established, ownVars, sendVars, NoInbox, NoMsg
<1>8. CASE HelloFails
  BY <1>8 DEF HelloFails, IndInv, TypeOK, DeadlineInv, Established, ownVars, sendVars
<1>9. CASE Connected
  BY <1>9 DEF Connected, IndInv, TypeOK, DeadlineInv, Established, ownVars, sendVars, Watched
<1>10. CASE BeginSession
  BY <1>10 DEF BeginSession, IndInv, TypeOK, DeadlineInv, Established, ownVars, sendVars
<1>11. CASE SessionCancelled
  BY <1>11 DEF SessionCancelled, IndInv, TypeOK, DeadlineInv, Established, ownVars, sendVars
<1>12. CASE SessionLost
  BY <1>12 DEF SessionLost, IndInv, TypeOK, DeadlineInv, Established, ownVars, sendVars,
     IdCleared
<1>13. CASE Leave
  BY <1>13 DEF Leave, IndInv, TypeOK, DeadlineInv, Established, ownVars, sendVars
<1>14. CASE CallClose
  BY <1>14 DEF CallClose, IndInv, TypeOK, DeadlineInv, Established, ownVars, sendVars
<1>15. CASE AfterSession
  BY <1>15 DEF AfterSession, IndInv, TypeOK, DeadlineInv, Established, ownVars, sendVars
<1>16. CASE ConnectFailed
  BY <1>16 DEF ConnectFailed, IndInv, TypeOK, DeadlineInv, Established, ownVars, sendVars, Retry
<1>17. CASE WaitReconnect
  BY <1>17 DEF WaitReconnect, IndInv, TypeOK, DeadlineInv, Established, ownVars, sendVars
<1>18. CASE Exit
  BY <1>18 DEF Exit, IndInv, TypeOK, DeadlineInv, Established, ownVars, sendVars
<1>19. CASE Watch
  BY <1>19 DEF Watch, IndInv, TypeOK, DeadlineInv, Established, ownVars, sendVars
<1>20. CASE UNCHANGED <<sup, hello>>
  BY <1>20 DEF IndInv, TypeOK, DeadlineInv, Established, ownVars, sendVars
<1>21. QED
  BY <1>1, <1>2, <1>3, <1>4, <1>5, <1>6, <1>7, <1>8, <1>9, <1>10, <1>11, <1>12, <1>13, <1>14,
     <1>15, <1>16, <1>17, <1>18, <1>19, <1>20
     DEF Next, Owner, Runtime, Reader, App, Writer, Looper, CloseSocket, Receive, Callback,
        LoadSubscribed, PutOffer, OfferAbandoned, ReadFails, AppStarts, TakeOffer,
           EnqueueCheck, EnqueueSend, AwaitAnswer, OffersEnd, Write, WriterEnds,
              CallbackAges, Tick, LoopSends, LoopEnds, Deliver, Breaks, vars, ownVars, sendVars

\* The goroutines start in order.
LEMMA StartStep == IndInv /\ [Next]_vars => StartInv'
<1> SUFFICES ASSUME IndInv, [Next]_vars
             PROVE  StartInv'
  OBVIOUS
<1>1. CASE HelloArrives
  BY <1>1 DEF HelloArrives, IndInv, TypeOK, StartInv, ownVars, sendVars, Cut, kSubset
<1>2. CASE RemoveOldId
  BY <1>2 DEF RemoveOldId, IndInv, TypeOK, StartInv, ownVars, sendVars
<1>3. CASE LoopHead
  BY <1>3 DEF LoopHead, IndInv, TypeOK, StartInv, ownVars, sendVars
<1>4. CASE DialFails
  BY <1>4 DEF DialFails, IndInv, TypeOK, StartInv, ownVars, sendVars
<1>5. CASE Dial
  BY <1>5 DEF Dial, IndInv, TypeOK, StartInv, ownVars, sendVars, NoInbox, NoMsg
<1>6. CASE HelloFails
  BY <1>6 DEF HelloFails, IndInv, TypeOK, StartInv, ownVars, sendVars
<1>7. CASE Connected
  BY <1>7 DEF Connected, IndInv, TypeOK, StartInv, ownVars, sendVars, Watched
<1>8. CASE BeginSession
  BY <1>8 DEF BeginSession, IndInv, TypeOK, StartInv, ownVars, sendVars
<1>9. CASE SessionCancelled
  BY <1>9 DEF SessionCancelled, IndInv, TypeOK, StartInv, ownVars, sendVars
<1>10. CASE SessionLost
  BY <1>10 DEF SessionLost, IndInv, TypeOK, StartInv, ownVars, sendVars, IdCleared
<1>11. CASE Leave
  BY <1>11 DEF Leave, IndInv, TypeOK, StartInv, ownVars, sendVars
<1>12. CASE CallClose
  BY <1>12 DEF CallClose, IndInv, TypeOK, StartInv, ownVars, sendVars
<1>13. CASE AfterSession
  BY <1>13 DEF AfterSession, IndInv, TypeOK, StartInv, ownVars, sendVars
<1>14. CASE ConnectFailed
  BY <1>14 DEF ConnectFailed, IndInv, TypeOK, StartInv, ownVars, sendVars, Retry
<1>15. CASE WaitReconnect
  BY <1>15 DEF WaitReconnect, IndInv, TypeOK, StartInv, ownVars, sendVars
<1>16. CASE Exit
  BY <1>16 DEF Exit, IndInv, TypeOK, StartInv, ownVars, sendVars
<1>17. CASE Receive
  BY <1>17 DEF Receive, IndInv, TypeOK, StartInv, ownVars, sendVars, Post, handlePeerUpdate,
     Known, TakenCallback
<1>18. CASE Callback
  BY <1>18 DEF Callback, IndInv, TypeOK, StartInv, ownVars, sendVars, NoMsg
<1>19. CASE LoadSubscribed
  BY <1>19 DEF LoadSubscribed, IndInv, TypeOK, StartInv, ownVars, sendVars, OfferChoice
<1>20. CASE PutOffer
  BY <1>20 DEF PutOffer, IndInv, TypeOK, StartInv, ownVars, sendVars, NoMsg
<1>21. CASE OfferAbandoned
  BY <1>21 DEF OfferAbandoned, IndInv, TypeOK, StartInv, ownVars, sendVars, NoMsg
<1>22. CASE ReadFails
  BY <1>22 DEF ReadFails, IndInv, TypeOK, StartInv, ownVars, sendVars, NoMsg
<1>23. CASE AppStarts
  BY <1>23 DEF AppStarts, IndInv, TypeOK, StartInv, ownVars, sendVars
<1>24. CASE TakeOffer
  BY <1>24 DEF TakeOffer, IndInv, TypeOK, StartInv, ownVars, sendVars
<1>25. CASE EnqueueCheck
  BY <1>25 DEF EnqueueCheck, IndInv, TypeOK, StartInv, ownVars, sendVars
<1>26. CASE EnqueueSend
  BY <1>26 DEF EnqueueSend, IndInv, TypeOK, StartInv, ownVars, sendVars
<1>27. CASE AwaitAnswer
  BY <1>27 DEF AwaitAnswer, IndInv, TypeOK, StartInv, ownVars, sendVars
<1>28. CASE OffersEnd
  BY <1>28 DEF OffersEnd, IndInv, TypeOK, StartInv, ownVars, sendVars
<1>29. CASE UNCHANGED <<sup, rd, app>>
  BY <1>29 DEF IndInv, TypeOK, StartInv, ownVars, sendVars
<1>30. QED
  BY <1>1, <1>2, <1>3, <1>4, <1>5, <1>6, <1>7, <1>8, <1>9, <1>10, <1>11, <1>12, <1>13, <1>14,
     <1>15, <1>16, <1>17, <1>18, <1>19, <1>20, <1>21, <1>22, <1>23, <1>24, <1>25, <1>26,
        <1>27, <1>28, <1>29
     DEF Next, Owner, Runtime, Reader, App, Writer, Looper, Cancel, ConnectTimeout, Watch,
        CloseSocket, Write, WriterEnds, CallbackAges, Tick, LoopSends, LoopEnds, Deliver,
           Breaks, vars, ownVars, sendVars

\* The callback leaves the map once, and is called with the channel empty.
LEMMA AnswerStep == IndInv /\ [Next]_vars => AnswerInv'
<1> SUFFICES ASSUME IndInv, [Next]_vars
             PROVE  AnswerInv'
  OBVIOUS
<1>1. CASE Dial
  BY <1>1, ConstantFacts DEF Dial, IndInv, TypeOK, AnswerInv, StartInv, ownVars, sendVars,
     NoInbox, NoMsg
<1>2. CASE Connected
  BY <1>2, ConstantFacts, SMTT(30) DEF Connected, IndInv, TypeOK, AnswerInv, StartInv, ownVars,
     sendVars, Watched
<1>3. CASE BeginSession
  BY <1>3, ConstantFacts DEF BeginSession, IndInv, TypeOK, AnswerInv, StartInv, ownVars,
     sendVars
<1>4. CASE CloseSocket
  <2>1. answer' = [answer EXCEPT !.age = NoCallback] /\ UNCHANGED <<rd, app>>
    BY <1>4 DEF CloseSocket
  <2>2. answer'.age = NoCallback /\ answer'.queued = answer.queued
    BY <2>1 DEF IndInv, TypeOK
  <2>3. QED
    BY <2>1, <2>2, ConstantFacts DEF IndInv, AnswerInv
<1>5. CASE Receive
  <2>1. \/ answer' = answer /\ rd'.pc # "call"
        \/ /\ answer.age < NoCallback /\ answer' = [answer EXCEPT !.age = TakenCallback]
    BY <1>5 DEF Receive
  <2>2. UNCHANGED app /\ rd.pc = "read"
    BY <1>5 DEF Receive
  <2>3. CASE answer' = answer /\ rd'.pc # "call"
    BY <2>2, <2>3, ConstantFacts DEF IndInv, AnswerInv
  <2>4. CASE answer.age < NoCallback /\ answer' = [answer EXCEPT !.age = TakenCallback]
    <3>1. answer'.age = NoCallback /\ answer'.queued = answer.queued /\ answer.age \in Nat
      BY <2>4, ConstantFacts DEF IndInv, TypeOK, TakenCallback
    <3>2. QED
      BY <2>2, <2>4, <3>1, ConstantFacts DEF IndInv, AnswerInv
  <2>5. QED
    BY <2>1, <2>3, <2>4
<1>6. CASE Callback
  <2>1. rd.pc = "call" /\ rd'.pc = "read" /\ UNCHANGED app
    BY <1>6 DEF Callback
  <2>2. answer' = answer \/ answer' = [answer EXCEPT !.queued = 1]
    BY <1>6 DEF Callback
  <2>3. answer'.age = answer.age /\ answer.age \in 0..NoCallback
    BY <2>2 DEF IndInv, TypeOK
  <2>4. QED
    BY <2>1, <2>3, ConstantFacts DEF IndInv, AnswerInv
<1>7. CASE LoadSubscribed
  BY <1>7, ConstantFacts DEF LoadSubscribed, IndInv, TypeOK, AnswerInv, StartInv, ownVars,
     sendVars, OfferChoice
<1>8. CASE PutOffer
  BY <1>8, ConstantFacts DEF PutOffer, IndInv, TypeOK, AnswerInv, StartInv, ownVars,
     sendVars, NoMsg
<1>9. CASE OfferAbandoned
  BY <1>9, ConstantFacts DEF OfferAbandoned, IndInv, TypeOK, AnswerInv, StartInv, ownVars,
     sendVars, NoMsg
<1>10. CASE ReadFails
  BY <1>10, ConstantFacts DEF ReadFails, IndInv, TypeOK, AnswerInv, StartInv, ownVars,
     sendVars, NoMsg
<1>11. CASE AppStarts
  BY <1>11, ConstantFacts, SMTT(30) DEF AppStarts, IndInv, TypeOK, AnswerInv, StartInv, ownVars, sendVars
<1>12. CASE TakeOffer
  BY <1>12, ConstantFacts DEF TakeOffer, IndInv, TypeOK, AnswerInv, StartInv, ownVars, sendVars
<1>13. CASE EnqueueCheck
  BY <1>13, ConstantFacts DEF EnqueueCheck, IndInv, TypeOK, AnswerInv, StartInv, ownVars,
     sendVars
<1>14. CASE EnqueueSend
  BY <1>14, ConstantFacts DEF EnqueueSend, IndInv, TypeOK, AnswerInv, StartInv, ownVars,
     sendVars
<1>15. CASE AwaitAnswer
  BY <1>15, ConstantFacts, SMTT(30) DEF AwaitAnswer, IndInv, TypeOK, AnswerInv, StartInv, ownVars,
     sendVars
<1>16. CASE OffersEnd
  BY <1>16, ConstantFacts DEF OffersEnd, IndInv, TypeOK, AnswerInv, StartInv, ownVars, sendVars
<1>17. CASE CallbackAges
  <2>1. answer'.age = answer.age + 1 /\ answer'.queued = answer.queued /\ answer.age \in Nat
    BY <1>17 DEF CallbackAges, IndInv, TypeOK
  <2>2. UNCHANGED <<rd, app>> /\ answer.age < NoCallback
    BY <1>17, <2>1, ConstantFacts DEF CallbackAges
  <2>3. QED
    BY <2>1, <2>2, ConstantFacts DEF IndInv, AnswerInv
<1>18. CASE UNCHANGED <<rd, app, answer>>
  BY <1>18 DEF IndInv, TypeOK, AnswerInv, StartInv, ownVars, sendVars
<1>19. QED
  BY <1>1, <1>2, <1>3, <1>4, <1>5, <1>6, <1>7, <1>8, <1>9, <1>10, <1>11, <1>12, <1>13, <1>14,
     <1>15, <1>16, <1>17, <1>18
     DEF Next, Owner, Runtime, Reader, App, Writer, Looper, Cancel, ConnectTimeout,
        HelloArrives, RemoveOldId, LoopHead, DialFails, HelloFails, SessionCancelled,
           SessionLost, Leave, CallClose, AfterSession, ConnectFailed, WaitReconnect, Exit,
              Watch, Write, WriterEnds, Tick, LoopSends, LoopEnds, Deliver, Breaks, vars,
                 ownVars, sendVars

\* Only CloseSocket, Receive, Deliver and Dial change more of the network than
\* the state of the socket.
LEMMA SocketOnly ==
    ASSUME IndInv, Connected \/ Write \/ Breaks
    PROVE  /\ net'.wire = net.wire /\ net'.members = net.members /\ net'.sent = net.sent
           /\ net'.sock # "closed" => net.sock # "closed"
<1>1. CASE Connected
  <2>1. net' = net \/ net' = [net EXCEPT !.sock = "closed"]
    BY <1>1 DEF Connected
  <2>2. QED
    BY <2>1 DEF IndInv, TypeOK
<1>2. CASE Write
  <2>1. net' = net \/ (net.sock = "silent" /\ net' = [net EXCEPT !.sock = "reset"])
    BY <1>2 DEF Write
  <2>2. QED
    BY <2>1 DEF IndInv, TypeOK
<1>3. CASE Breaks
  BY <1>3 DEF Breaks, IndInv, TypeOK
<1>4. QED
  BY <1>1, <1>2, <1>3

\* Receive takes the head of the wire, with the connection standing.
LEMMA Received ==
    ASSUME IndInv, Receive
    PROVE  /\ net.wire # <<>> /\ net.wire \in Seq(Message) /\ net.sock # "closed"
           /\ net'.wire = Tail(net.wire) /\ net'.members = net.members
           /\ net'.sent = net.sent /\ net'.sock = net.sock
  BY DEF Receive, IndInv, TypeOK

\* Deliver puts a message at the end of the wire.
LEMMA Delivered ==
    ASSUME IndInv, NEW kind \in Kind, NEW p, NEW no, NEW m, NEW n, Put(kind, p, no, m, n)
    PROVE  /\ net'.wire = Append(net.wire, [kind |-> kind, peer |-> p, no |-> no])
           /\ net'.members = m /\ net'.sent = n /\ net'.sock = net.sock
  BY DEF Put, IndInv, TypeOK

\* The table follows the room.
LEMMA PeerStep == IndInv /\ [Next]_vars => PeerInv'
<1> SUFFICES ASSUME IndInv, [Next]_vars
             PROVE  PeerInv'
  OBVIOUS
<1>1. CASE HelloArrives
  <2>1. peers' \subseteq net.members /\ UNCHANGED net
    BY <1>1 DEF HelloArrives, Cut, kSubset
  <2>2. QED
    BY <2>1 DEF IndInv, PeerInv, Departs
<1>2. CASE Dial
  <2>1. net'.wire = <<>> /\ peers' = {}
    BY <1>2 DEF Dial
  <2>2. QED
    BY <2>1 DEF PeerInv
<1>3. CASE Connected
  <2>1. UNCHANGED peers
    BY <1>3 DEF Connected
  <2>2. QED
    BY <1>3, <2>1, SocketOnly DEF IndInv, PeerInv, Departs
<1>4. CASE CloseSocket
  <2>1. net'.sock = "closed"
    BY <1>4 DEF CloseSocket, IndInv, TypeOK
  <2>2. QED
    BY <2>1 DEF PeerInv
<1>5. CASE Receive
  <2> DEFINE q == net.wire
             m == Head(q)
  <2>1. /\ q # <<>> /\ q \in Seq(Message) /\ net.sock # "closed"
        /\ net'.wire = Tail(q) /\ net'.members = net.members
    BY <1>5, Received
  <2>2. peers' = handlePeerUpdate(m)
    BY <1>5 DEF Receive
  <2>3. ASSUME NEW p, \E i \in DOMAIN q : i > 1 /\ Departs(i, p)
        PROVE  \E i \in DOMAIN net'.wire : net'.wire[i].kind = "left" /\ net'.wire[i].peer = p
    <3>1. PICK i \in DOMAIN q : i > 1 /\ Departs(i, p)
      BY <2>3
    <3>2. i - 1 \in DOMAIN Tail(q) /\ Tail(q)[i - 1] = q[i]
      BY <2>1, <3>1, TailFacts
    <3>3. QED
      BY <2>1, <3>1, <3>2 DEF Departs
  <2>4. ASSUME NEW p \in peers'
        PROVE  \/ p \in net'.members
               \/ \E i \in DOMAIN net'.wire : net'.wire[i].kind = "left" /\ net'.wire[i].peer = p
    <3>1. CASE p \in peers /\ ~(m.kind = "left" /\ m.peer = p)
      <4>1. p \in net.members \/ \E i \in DOMAIN q : Departs(i, p)
        BY <2>1, <3>1 DEF IndInv, PeerInv
      <4>2. p \in net.members \/ \E i \in DOMAIN q : i > 1 /\ Departs(i, p)
        <5>1. ~Departs(1, p) /\ \A i \in DOMAIN q : i = 1 \/ i > 1
          BY <2>1, <3>1, TailFacts DEF Departs
        <5>2. QED
          BY <4>1, <5>1
      <4>3. QED
        BY <2>1, <2>3, <4>2
    <3>2. CASE m.kind = "join" /\ p = m.peer
      <4>1. 1 \in DOMAIN q /\ q[1].kind = "join" /\ q[1].peer = p
        BY <2>1, <3>2, TailFacts
      <4>2. p \in net.members \/ \E i \in DOMAIN q : 1 < i /\ Departs(i, p)
        BY <2>1, <4>1 DEF IndInv, PeerInv
      <4>3. QED
        BY <2>1, <2>3, <4>2, TailFacts
    <3>3. QED
      BY <2>2, <3>1, <3>2 DEF handlePeerUpdate, Known
  <2>5. ASSUME NEW i \in DOMAIN net'.wire, net'.wire[i].kind = "join"
        PROVE  /\ net'.wire[i].peer \in Peer
               /\ \/ net'.wire[i].peer \in net'.members
                  \/ \E j \in DOMAIN net'.wire :
                        i < j /\ net'.wire[j].kind = "left" /\ net'.wire[j].peer = net'.wire[i].peer
    <3>1. i + 1 \in DOMAIN q /\ q[i + 1] = net'.wire[i] /\ i \in Nat /\ i >= 1
      BY <2>1, TailFacts
    <3>2. /\ q[i + 1].peer \in Peer
          /\ \/ q[i + 1].peer \in net.members
             \/ \E j \in DOMAIN q : i + 1 < j /\ Departs(j, q[i + 1].peer)
      BY <2>1, <2>5, <3>1 DEF IndInv, PeerInv
    <3>3. CASE q[i + 1].peer \in net.members
      BY <2>1, <3>1, <3>2, <3>3
    <3>4. CASE \E j \in DOMAIN q : i + 1 < j /\ Departs(j, q[i + 1].peer)
      <4>1. PICK j \in DOMAIN q : i + 1 < j /\ Departs(j, q[i + 1].peer)
        BY <3>4
      <4>2. j \in Nat /\ j > 1 /\ j - 1 > i
        BY <2>1, <3>1, <4>1, TailFacts
      <4>3. j - 1 \in DOMAIN net'.wire /\ net'.wire[j - 1] = q[j]
        <5>1. \A t \in DOMAIN q : t > 1 => t - 1 \in DOMAIN Tail(q) /\ Tail(q)[t - 1] = q[t]
          BY <2>1, TailFacts
        <5>2. QED
          BY <2>1, <4>2, <5>1
      <4>4. QED
        BY <3>1, <3>2, <4>1, <4>2, <4>3 DEF Departs
    <3>5. QED
      BY <3>2, <3>3, <3>4
  <2>6. QED
    BY <2>4, <2>5 DEF PeerInv, Departs
<1>6. CASE Write
  <2>1. UNCHANGED peers
    BY <1>6 DEF Write
  <2>2. QED
    BY <1>6, <2>1, SocketOnly DEF IndInv, PeerInv, Departs
<1>7. ASSUME NEW kind \in Kind, Deliver(kind)
      PROVE  PeerInv'
  <2> DEFINE q == net.wire
             k == Len(q) + 1
  <2>0. net.sock = "up" /\ q \in Seq(Message) /\ net.members \subseteq Peer /\ UNCHANGED peers
    BY <1>7 DEF Deliver, IndInv, TypeOK
  <2>1. PICK p \in Peer \cup {"none"}, no \in 0..MaxOffers, m \in SUBSET Peer, n \in 0..MaxOffers :
              /\ Put(kind, p, no, m, n)
              /\ kind = "join" => p \in Peer /\ p \in m
              /\ \A r \in net.members : r \in m \/ (kind = "left" /\ p = r)
    <3>1. /\ 0 \in 0..MaxOffers /\ net.sent \in 0..MaxOffers /\ net.members \in SUBSET Peer
          /\ net.sent < MaxOffers => net.sent + 1 \in 0..MaxOffers
      BY ConstantFacts DEF IndInv, TypeOK
    <3>2. \A r \in Peer : net.members \cup {r} \in SUBSET Peer /\ net.members \ {r} \in SUBSET Peer
      BY <3>1
    <3>3. CASE kind = "offer"
      BY <1>7, <3>1, <3>3, Zenon DEF Deliver
    <3>4. CASE kind \in {"update", "answer", "info"}
      BY <1>7, <3>1, <3>4, Zenon DEF Deliver
    <3>5. CASE kind = "join"
      <4>1. PICK p \in Peer \ net.members : Put(kind, p, 0, net.members \cup {p}, net.sent)
        BY <1>7, <3>5 DEF Deliver
      <4>2. /\ p \in Peer /\ p \in net.members \cup {p} /\ net.members \cup {p} \in SUBSET Peer
            /\ \A r \in net.members : r \in net.members \cup {p}
        BY <3>2, <4>1
      <4>3. QED
        BY <3>1, <3>5, <4>1, <4>2, Zenon
    <3>6. CASE kind = "left"
      <4>1. PICK p \in net.members : Put(kind, p, 0, net.members \ {p}, net.sent)
        BY <1>7, <3>6 DEF Deliver
      <4>2. /\ p \in Peer /\ net.members \ {p} \in SUBSET Peer
            /\ \A r \in net.members : r \in net.members \ {p} \/ p = r
        BY <3>1, <3>2, <4>1
      <4>3. QED
        BY <3>1, <3>6, <4>1, <4>2, Zenon
    <3>7. QED
      BY <3>3, <3>4, <3>5, <3>6 DEF Kind
  <2>2. PICK e \in Message : e = [kind |-> kind, peer |-> p, no |-> no]
    BY DEF Message
  <2>3. net'.wire = Append(q, e) /\ net'.members = m
    BY <2>1, <2>2, Delivered
  <2>4. /\ \A i \in DOMAIN q : i \in DOMAIN net'.wire /\ net'.wire[i] = q[i] /\ i < k
        /\ k \in DOMAIN net'.wire /\ net'.wire[k] = e
        /\ \A i \in DOMAIN net'.wire : i \in DOMAIN q \/ i = k
    BY <2>0, <2>3, AppendFacts
  <2>5. /\ \A r \in peers : r \in net.members \/ \E i \in DOMAIN q : Departs(i, r)
        /\ \A i \in DOMAIN q : q[i].kind = "join" =>
              /\ q[i].peer \in Peer
              /\ q[i].peer \in net.members \/ \E j \in DOMAIN q : i < j /\ Departs(j, q[i].peer)
    BY <2>0 DEF IndInv, PeerInv
  <2>6. ASSUME NEW r \in net.members
        PROVE  r \in net'.members \/ (e.kind = "left" /\ e.peer = r)
    BY <2>1, <2>2, <2>3
  <2>7. ASSUME NEW r \in peers'
        PROVE  \/ r \in net'.members
               \/ \E i \in DOMAIN net'.wire : net'.wire[i].kind = "left" /\ net'.wire[i].peer = r
    BY <2>0, <2>4, <2>5, <2>6 DEF Departs
  <2>8. ASSUME NEW i \in DOMAIN net'.wire, net'.wire[i].kind = "join"
        PROVE  /\ net'.wire[i].peer \in Peer
               /\ \/ net'.wire[i].peer \in net'.members
                  \/ \E j \in DOMAIN net'.wire :
                        i < j /\ net'.wire[j].kind = "left" /\ net'.wire[j].peer = net'.wire[i].peer
    <3>1. CASE i = k
      BY <2>1, <2>2, <2>3, <2>4, <2>8, <3>1
    <3>2. CASE i \in DOMAIN q
      BY <2>4, <2>5, <2>6, <2>8, <3>2 DEF Departs
    <3>3. QED
      BY <2>4, <3>1, <3>2
  <2>9. QED
    BY <2>7, <2>8 DEF PeerInv, Departs
<1>8. CASE Breaks
  <2>1. UNCHANGED peers
    BY <1>8 DEF Breaks
  <2>2. QED
    BY <1>8, <2>1, SocketOnly DEF IndInv, PeerInv, Departs
<1>9. CASE UNCHANGED <<net, peers>>
  BY <1>9 DEF IndInv, TypeOK, PeerInv, Departs, ownVars, sendVars
<1>10. QED
  BY <1>1, <1>2, <1>3, <1>4, <1>5, <1>6, <1>7, <1>8, <1>9
     DEF Next, Owner, Runtime, Reader, App, Writer, Looper, Cancel, ConnectTimeout,
        RemoveOldId, LoopHead, DialFails, HelloFails, BeginSession, SessionCancelled,
           SessionLost, Leave, CallClose, AfterSession, ConnectFailed, WaitReconnect, Exit,
              Watch, Callback, LoadSubscribed, PutOffer, OfferAbandoned, ReadFails,
                 AppStarts, TakeOffer, EnqueueCheck, EnqueueSend, AwaitAnswer, OffersEnd,
                    WriterEnds, CallbackAges, Tick, LoopSends, LoopEnds, vars, ownVars, sendVars

\* Taking the head leaves the rest numbered from there on.
LEMMA NumberedTail ==
    ASSUME NEW q \in Seq(Message), q # <<>>, NEW r \in Nat, NEW n \in Nat, NEW t \in Nat,
           Numbered(q, r, n), t = IF Head(q).kind = "offer" THEN Head(q).no ELSE r
    PROVE  Numbered(Tail(q), t, n)
<1>1. /\ 1 \in DOMAIN q /\ Head(q) = q[1]
      /\ \A i \in DOMAIN q : i \in Nat /\ i >= 1
      /\ \A i \in DOMAIN q : i > 1 => i - 1 \in DOMAIN Tail(q) /\ Tail(q)[i - 1] = q[i]
      /\ \A i \in DOMAIN Tail(q) :
            i + 1 \in DOMAIN q /\ Tail(q)[i] = q[i + 1] /\ i \in Nat /\ i >= 1
  BY TailFacts
<1>2. \A i \in DOMAIN q : q[i].no \in Nat
  <2>1. ASSUME NEW i \in DOMAIN q
        PROVE  q[i].no \in Nat
    <3>1. q[i] \in Message
      OBVIOUS
    <3>2. QED
      BY <3>1, ConstantFacts DEF Message
  <2>2. QED
    BY <2>1
<1>3. Offers(q, 1) => t = q[1].no /\ q[1].no = r + 1
  BY <1>1, <1>2 DEF Numbered, Offers
<1>4. ~Offers(q, 1) => t = r
  BY <1>1 DEF Offers
<1>5. t <= n /\ (t = n \/ \E i \in DOMAIN q : i > 1 /\ Offers(q, i) /\ q[i].no = n)
  BY <1>1, <1>2, <1>3, <1>4 DEF Numbered
<1>6. ASSUME NEW i \in DOMAIN q, i > 1, Offers(q, i)
      PROVE  /\ t < q[i].no /\ q[i].no <= n
             /\ \/ q[i].no = t + 1
                \/ \E j \in DOMAIN q : 1 < j /\ j < i /\ Offers(q, j) /\ q[j].no = q[i].no - 1
  <2>1. CASE Offers(q, 1)
    <3>1. t < q[i].no /\ q[i].no <= n
      BY <1>1, <1>2, <1>3, <1>6, <2>1 DEF Numbered
    <3>2. \E j \in DOMAIN q : j < i /\ Offers(q, j) /\ q[j].no = q[i].no - 1
      BY <1>2, <1>3, <1>6, <2>1, <3>1 DEF Numbered
    <3>3. QED
      BY <1>1, <1>2, <1>3, <2>1, <3>1, <3>2
  <2>2. CASE ~Offers(q, 1)
    <3>1. /\ r < q[i].no /\ q[i].no <= n
          /\ q[i].no = r + 1 \/ \E j \in DOMAIN q : j < i /\ Offers(q, j) /\ q[j].no = q[i].no - 1
      BY <1>6 DEF Numbered
    <3>2. \A j \in DOMAIN q : Offers(q, j) => 1 < j
      BY <1>1, <2>2
    <3>3. QED
      BY <1>4, <2>2, <3>1, <3>2
  <2>3. QED
    BY <2>1, <2>2
<1>7. \A i \in DOMAIN Tail(q) : Offers(Tail(q), i) <=> Offers(q, i + 1)
  BY <1>1 DEF Offers
<1>8. t <= n /\ (t = n \/ \E i \in DOMAIN Tail(q) : Offers(Tail(q), i) /\ Tail(q)[i].no = n)
  <2>1. ASSUME NEW i \in DOMAIN q, i > 1, Offers(q, i), q[i].no = n
        PROVE  i - 1 \in DOMAIN Tail(q) /\ Offers(Tail(q), i - 1) /\ Tail(q)[i - 1].no = n
    BY <1>1, <2>1 DEF Offers
  <2>2. QED
    BY <1>5, <2>1
<1>9. ASSUME NEW i \in DOMAIN Tail(q), Offers(Tail(q), i)
      PROVE  /\ t < Tail(q)[i].no /\ Tail(q)[i].no <= n
             /\ \/ Tail(q)[i].no = t + 1
                \/ \E j \in DOMAIN Tail(q) :
                      j < i /\ Offers(Tail(q), j) /\ Tail(q)[j].no = Tail(q)[i].no - 1
  <2>1. i + 1 \in DOMAIN q /\ Offers(q, i + 1) /\ i + 1 > 1 /\ Tail(q)[i] = q[i + 1]
    BY <1>1, <1>7, <1>9
  <2>2. /\ t < q[i + 1].no /\ q[i + 1].no <= n
        /\ \/ q[i + 1].no = t + 1
           \/ \E j \in DOMAIN q : 1 < j /\ j < i + 1 /\ Offers(q, j) /\ q[j].no = q[i + 1].no - 1
    BY <1>6, <2>1
  <2>3. ASSUME NEW j \in DOMAIN q, 1 < j, j < i + 1, Offers(q, j), q[j].no = q[i + 1].no - 1
        PROVE  /\ j - 1 \in DOMAIN Tail(q) /\ j - 1 < i /\ Offers(Tail(q), j - 1)
               /\ Tail(q)[j - 1].no = Tail(q)[i].no - 1
    <3>1. j - 1 \in DOMAIN Tail(q) /\ Tail(q)[j - 1] = q[j] /\ j - 1 < i
      BY <1>1, <2>3, SMTT(30)
    <3>2. QED
      BY <2>1, <2>3, <3>1 DEF Offers
  <2>4. QED
    BY <2>1, <2>2, <2>3
<1>10. ASSUME NEW i \in DOMAIN Tail(q), NEW j \in DOMAIN Tail(q), i < j,
              Offers(Tail(q), i), Offers(Tail(q), j)
       PROVE  Tail(q)[i].no < Tail(q)[j].no
  BY <1>1, <1>7, <1>10 DEF Numbered
<1>11. QED
  BY <1>8, <1>9, <1>10 DEF Numbered

\* Putting the next offer, or another message, at the end keeps them numbered.
LEMMA NumberedAppend ==
    ASSUME NEW q \in Seq(Message), NEW e \in Message, NEW r \in Nat, NEW n \in Nat, NEW t \in Nat,
           Numbered(q, r, n),
           IF e.kind = "offer" THEN t = n + 1 /\ e.no = n + 1 ELSE t = n
    PROVE  Numbered(Append(q, e), r, t)
<1> DEFINE k == Len(q) + 1
           z == Append(q, e)
<1>1. /\ \A i \in DOMAIN q : i \in DOMAIN z /\ z[i] = q[i] /\ i < k /\ i \in Nat
      /\ k \in DOMAIN z /\ z[k] = e /\ k \in Nat
      /\ \A i \in DOMAIN z : i \in DOMAIN q \/ i = k
  BY AppendFacts
<1>2. \A i \in DOMAIN q : q[i].no \in Nat
  <2>1. ASSUME NEW i \in DOMAIN q
        PROVE  q[i].no \in Nat
    <3>1. q[i] \in Message
      OBVIOUS
    <3>2. QED
      BY <3>1, ConstantFacts DEF Message
  <2>2. QED
    BY <2>1
<1>3. /\ \A i \in DOMAIN q : Offers(z, i) <=> Offers(q, i)
      /\ Offers(z, k) => z[k].no = n + 1 /\ t = n + 1
      /\ t >= n /\ (t = n \/ (Offers(z, k) /\ t = n + 1))
  BY <1>1 DEF Offers
<1> HIDE DEF k, z
<1>4. r <= t /\ (r = t \/ \E i \in DOMAIN z : Offers(z, i) /\ z[i].no = t)
  <2>1. CASE t = n
    BY <1>1, <1>3, <2>1 DEF Numbered
  <2>2. CASE Offers(z, k) /\ t = n + 1
    BY <1>1, <1>3, <2>2 DEF Numbered
  <2>3. QED
    BY <1>3, <2>1, <2>2
<1>5. ASSUME NEW i \in DOMAIN z, Offers(z, i)
      PROVE  /\ r < z[i].no /\ z[i].no <= t
             /\ \/ z[i].no = r + 1
                \/ \E j \in DOMAIN z : j < i /\ Offers(z, j) /\ z[j].no = z[i].no - 1
  <2>1. CASE i = k
    <3>1. z[i].no = n + 1 /\ t = n + 1 /\ r <= n
      BY <1>3, <1>5, <2>1 DEF Numbered
    <3>2. ASSUME NEW j \in DOMAIN q, Offers(q, j), q[j].no = n
          PROVE  j \in DOMAIN z /\ j < i /\ Offers(z, j) /\ z[j].no = z[i].no - 1
      BY <1>1, <1>3, <2>1, <3>1, <3>2
    <3>3. QED
      BY <3>1, <3>2 DEF Numbered
  <2>2. CASE i \in DOMAIN q
    <3>1. z[i] = q[i] /\ Offers(q, i) /\ q[i].no \in Nat
      BY <1>1, <1>2, <1>3, <1>5, <2>2
    <3>2. /\ r < q[i].no /\ q[i].no <= n
          /\ q[i].no = r + 1 \/ \E j \in DOMAIN q : j < i /\ Offers(q, j) /\ q[j].no = q[i].no - 1
      BY <2>2, <3>1 DEF Numbered
    <3>3. ASSUME NEW j \in DOMAIN q, j < i, Offers(q, j), q[j].no = q[i].no - 1
          PROVE  j \in DOMAIN z /\ Offers(z, j) /\ z[j].no = z[i].no - 1
      BY <1>1, <1>3, <3>1, <3>3
    <3>4. q[i].no <= t
      BY <1>3, <3>1, <3>2
    <3>5. QED
      BY <3>1, <3>2, <3>3, <3>4
  <2>3. QED
    BY <1>1, <2>1, <2>2
<1>6. ASSUME NEW i \in DOMAIN z, NEW j \in DOMAIN z, i < j, Offers(z, i), Offers(z, j)
      PROVE  z[i].no < z[j].no
  <2>1. i \in DOMAIN q
    BY <1>1, <1>6
  <2>2. CASE j = k
    BY <1>1, <1>2, <1>3, <1>6, <2>1, <2>2 DEF Numbered
  <2>3. CASE j \in DOMAIN q
    BY <1>1, <1>3, <1>6, <2>1, <2>3 DEF Numbered
  <2>4. QED
    BY <1>1, <2>2, <2>3
<1>7. Numbered(z, r, t)
  BY <1>4, <1>5, <1>6 DEF Numbered
<1>8. QED
  BY <1>7 DEF z

\* The offers under way stay numbered without a gap.
LEMMA NumberStep == IndInv /\ [Next]_vars => NumberInv'
<1> SUFFICES ASSUME IndInv, [Next]_vars
             PROVE  NumberInv'
  OBVIOUS
<1>1. CASE Dial
  <2>1. net'.wire = <<>> /\ net'.sent = 0 /\ inbox'.read = 0
    BY <1>1 DEF Dial, NoInbox
  <2>2. QED
    BY <2>1 DEF NumberInv, Numbered, Offers
<1>2. CASE Connected
  <2>1. UNCHANGED inbox
    BY <1>2 DEF Connected
  <2>2. QED
    BY <1>2, <2>1, SocketOnly DEF IndInv, NumberInv
<1>3. CASE CloseSocket
  <2>1. net'.sock = "closed"
    BY <1>3 DEF CloseSocket, IndInv, TypeOK
  <2>2. QED
    BY <2>1 DEF NumberInv
<1>4. CASE Receive
  <2> DEFINE m == Head(net.wire)
  <2>1. /\ net.wire # <<>> /\ net.wire \in Seq(Message) /\ net.sock # "closed"
        /\ net'.wire = Tail(net.wire) /\ net'.sent = net.sent
    BY <1>4, Received
  <2>2. inbox'.read = IF m.kind = "offer" THEN m.no ELSE inbox.read
    BY <1>4 DEF Receive, IndInv, TypeOK
  <2>3. m \in Message /\ m.no \in Nat /\ inbox.read \in Nat /\ net.sent \in Nat
    <3>1. m \in Message
      BY <2>1
    <3>2. QED
      BY <3>1, ConstantFacts DEF Message, IndInv, TypeOK
  <2>4. inbox'.read \in Nat
    BY <2>2, <2>3
  <2>5. Numbered(net.wire, inbox.read, net.sent)
    BY <2>1 DEF IndInv, NumberInv
  <2>6. Numbered(Tail(net.wire), inbox'.read, net.sent)
    BY <2>1, <2>2, <2>3, <2>4, <2>5, NumberedTail
  <2>7. QED
    BY <2>1, <2>6 DEF NumberInv
<1>5. CASE PutOffer
  <2>1. inbox'.read = inbox.read /\ UNCHANGED net
    BY <1>5 DEF PutOffer, IndInv, TypeOK
  <2>2. QED
    BY <2>1 DEF IndInv, NumberInv
<1>6. CASE AppStarts
  <2>1. inbox' = inbox \/ inbox' = [inbox EXCEPT !.subscribed = TRUE, !.mark = inbox.read]
    BY <1>6 DEF AppStarts
  <2>2. inbox'.read = inbox.read /\ UNCHANGED net
    BY <1>6, <2>1 DEF AppStarts, IndInv, TypeOK
  <2>3. QED
    BY <2>2 DEF IndInv, NumberInv
<1>7. CASE TakeOffer
  <2>1. inbox'.read = inbox.read /\ UNCHANGED net
    BY <1>7 DEF TakeOffer, IndInv, TypeOK
  <2>2. QED
    BY <2>1 DEF IndInv, NumberInv
<1>8. CASE Write
  <2>1. UNCHANGED inbox
    BY <1>8 DEF Write
  <2>2. QED
    BY <1>8, <2>1, SocketOnly DEF IndInv, NumberInv
<1>9. ASSUME NEW kind \in Kind, Deliver(kind)
      PROVE  NumberInv'
  <2>0. /\ net.sock = "up" /\ net.wire \in Seq(Message) /\ UNCHANGED inbox
        /\ net.sent \in Nat /\ inbox.read \in Nat
    BY <1>9 DEF Deliver, IndInv, TypeOK
  <2>1. PICK p \in Peer \cup {"none"}, no \in 0..MaxOffers, m \in SUBSET Peer, n \in 0..MaxOffers :
              /\ Put(kind, p, no, m, n)
              /\ \/ kind = "offer" /\ no = net.sent + 1 /\ n = net.sent + 1
                 \/ kind # "offer" /\ n = net.sent
    <3>1. /\ 0 \in 0..MaxOffers /\ net.sent \in 0..MaxOffers /\ net.members \in SUBSET Peer
          /\ net.sent < MaxOffers => net.sent + 1 \in 0..MaxOffers
      BY ConstantFacts DEF IndInv, TypeOK
    <3>2. \A r \in Peer : net.members \cup {r} \in SUBSET Peer /\ net.members \ {r} \in SUBSET Peer
      BY <3>1
    <3>3. CASE kind = "offer"
      BY <1>9, <3>1, <3>3, Zenon DEF Deliver
    <3>4. CASE kind # "offer"
      BY <1>9, <3>1, <3>2, <3>4, Zenon DEF Deliver
    <3>5. QED
      BY <3>3, <3>4
  <2>2. PICK e \in Message : e = [kind |-> kind, peer |-> p, no |-> no]
    BY DEF Message
  <2>3. net'.wire = Append(net.wire, e) /\ net'.sent = n /\ n \in Nat
    BY <2>1, <2>2, Delivered, ConstantFacts
  <2>4. Numbered(net.wire, inbox.read, net.sent)
    BY <2>0 DEF IndInv, NumberInv
  <2>5. IF e.kind = "offer" THEN n = net.sent + 1 /\ e.no = net.sent + 1 ELSE n = net.sent
    BY <2>1, <2>2
  <2>6. Numbered(Append(net.wire, e), inbox.read, n)
    BY <2>0, <2>3, <2>4, <2>5, NumberedAppend
  <2>7. QED
    BY <2>0, <2>3, <2>6 DEF NumberInv
<1>10. CASE Breaks
  <2>1. UNCHANGED inbox
    BY <1>10 DEF Breaks
  <2>2. QED
    BY <1>10, <2>1, SocketOnly DEF IndInv, NumberInv
<1>11. CASE UNCHANGED <<net, inbox>>
  BY <1>11 DEF IndInv, NumberInv
<1>12. QED
  BY <1>1, <1>2, <1>3, <1>4, <1>5, <1>6, <1>7, <1>8, <1>9, <1>10, <1>11
     DEF Next, Owner, Runtime, Reader, App, Writer, Looper, Cancel, ConnectTimeout,
        HelloArrives, RemoveOldId, LoopHead, DialFails, HelloFails, BeginSession,
           SessionCancelled, SessionLost, Leave, CallClose, AfterSession, ConnectFailed,
              WaitReconnect, Exit, Watch, Callback, LoadSubscribed, OfferAbandoned,
                 ReadFails, EnqueueCheck, EnqueueSend, AwaitAnswer, OffersEnd, WriterEnds,
                    CallbackAges, Tick, LoopSends, LoopEnds, vars, ownVars, sendVars

\* What Receive does to the reader's hands: an offer is the next one.
LEMMA ReceivedNext ==
    ASSUME IndInv, Receive
    PROVE  /\ rd.pc = "read" /\ UNCHANGED done
           /\ inbox'.handled = inbox.handled /\ inbox'.offers = inbox.offers
           /\ inbox'.mark = inbox.mark /\ inbox'.subscribed = inbox.subscribed
           /\ \/ rd'.pc = "load" /\ rd'.msg.no = inbox'.read /\ inbox'.read = inbox.read + 1
              \/ rd'.pc \in {"call", "read"} /\ inbox'.read = inbox.read
<1> DEFINE m == Head(net.wire)
<1>1. /\ net.wire # <<>> /\ net.wire \in Seq(Message) /\ net.sock # "closed"
  BY Received
<1>2. rd.pc = "read" /\ UNCHANGED done
  BY DEF Receive
<1>3. inbox' = inbox \/ inbox' = [inbox EXCEPT !.read = m.no]
  BY DEF Receive
<1>4. /\ inbox'.handled = inbox.handled /\ inbox'.offers = inbox.offers
      /\ inbox'.mark = inbox.mark /\ inbox'.subscribed = inbox.subscribed
  BY <1>3 DEF IndInv, TypeOK
<1>5. \/ /\ m.kind = "offer" /\ rd' = [pc |-> "load", msg |-> m]
         /\ inbox' = [inbox EXCEPT !.read = m.no]
      \/ inbox' = inbox /\ (rd' = [pc |-> "call", msg |-> m] \/ rd' = rd)
  BY DEF Receive
<1>6. m.kind = "offer" => m.no = inbox.read + 1
  <2>1. 1 \in DOMAIN net.wire /\ m = net.wire[1] /\ \A j \in DOMAIN net.wire : ~(j < 1)
    BY <1>1, TailFacts
  <2>2. Numbered(net.wire, inbox.read, net.sent)
    BY <1>1 DEF IndInv, NumberInv
  <2>3. QED
    BY <2>1, <2>2 DEF Numbered, Offers
<1>7. CASE /\ m.kind = "offer" /\ rd' = [pc |-> "load", msg |-> m]
           /\ inbox' = [inbox EXCEPT !.read = m.no]
  <2>1. inbox'.read = m.no
    BY <1>7 DEF IndInv, TypeOK
  <2>2. QED
    BY <1>2, <1>4, <1>6, <1>7, <2>1
<1>8. CASE inbox' = inbox /\ (rd' = [pc |-> "call", msg |-> m] \/ rd' = rd)
  BY <1>2, <1>4, <1>8
<1>9. QED
  BY <1>5, <1>7, <1>8

\* What PutOffer does: the offer held goes to the end of the channel, unless
\* it may be dropped and there is no room.
LEMMA PutLast ==
    ASSUME IndInv, PutOffer
    PROVE  /\ rd.pc \in {"block", "try"} /\ rd'.pc = "read" /\ UNCHANGED done
           /\ inbox'.handled = inbox.handled /\ inbox'.read = inbox.read
           /\ inbox'.mark = inbox.mark /\ inbox'.subscribed = inbox.subscribed
           /\ inbox.offers \in Seq(OfferNo) /\ rd.msg.no = inbox.read /\ inbox.read \in OfferNo
           /\ \/ inbox'.offers = Append(inbox.offers, inbox.read)
              \/ rd.pc = "try" /\ inbox'.offers = inbox.offers
<1>1. /\ rd.pc \in {"block", "try"} /\ rd'.pc = "read" /\ UNCHANGED done
  BY DEF PutOffer
<1>2. inbox.offers \in Seq(OfferNo) /\ rd.msg.no = inbox.read /\ inbox.read \in OfferNo
  BY <1>1, ConstantFacts DEF IndInv, TypeOK, HoldInv, Holding, OfferNo
<1>3. \/ inbox' = [inbox EXCEPT !.offers = Append(inbox.offers, rd.msg.no)]
      \/ rd.pc = "try" /\ inbox' = inbox
  BY DEF PutOffer, IndInv, TypeOK
<1>4. CASE inbox' = [inbox EXCEPT !.offers = Append(inbox.offers, rd.msg.no)]
  BY <1>1, <1>2, <1>4 DEF IndInv, TypeOK
<1>5. CASE rd.pc = "try" /\ inbox' = inbox
  BY <1>1, <1>2, <1>5
<1>6. QED
  BY <1>3, <1>4, <1>5

\* What TakeOffer does: the head of the channel is handled.
LEMMA TakenHead ==
    ASSUME IndInv, TakeOffer
    PROVE  /\ inbox.offers \in Seq(OfferNo) /\ inbox.offers # <<>> /\ UNCHANGED <<rd, done>>
           /\ inbox'.offers = Tail(inbox.offers)
           /\ inbox'.handled = inbox.handled \cup {Head(inbox.offers)}
           /\ inbox'.read = inbox.read /\ inbox'.mark = inbox.mark
           /\ inbox'.subscribed = inbox.subscribed
  BY DEF TakeOffer, IndInv, TypeOK

\* What AppStarts does to the channel: the receiver subscribes at what is read.
LEMMA Subscribes ==
    ASSUME IndInv, AppStarts
    PROVE  /\ UNCHANGED <<rd, done>>
           /\ inbox'.offers = inbox.offers /\ inbox'.handled = inbox.handled
           /\ inbox'.read = inbox.read
           /\ \/ inbox'.mark = inbox.read
              \/ inbox'.mark = inbox.mark /\ inbox'.subscribed = inbox.subscribed
<1>1. inbox' = inbox \/ inbox' = [inbox EXCEPT !.subscribed = TRUE, !.mark = inbox.read]
  BY DEF AppStarts
<1>2. QED
  BY <1>1 DEF AppStarts, IndInv, TypeOK

\* The reader holds the last offer it read.
LEMMA HoldStep == IndInv /\ [Next]_vars => HoldInv'
<1> SUFFICES ASSUME IndInv, [Next]_vars
             PROVE  HoldInv'
  OBVIOUS
<1>1. CASE Dial
  <2>1. rd'.pc = "none" /\ inbox' = NoInbox
    BY <1>1 DEF Dial
  <2>2. QED
    BY <2>1 DEF HoldInv, Holding, NoInbox, ToSet
<1>2. CASE Connected
  <2>1. UNCHANGED inbox /\ rd.pc = "none" /\ rd'.pc \in {"none", "read"}
    BY <1>2 DEF Connected, IndInv, TypeOK, StartInv
  <2>2. QED
    BY <2>1 DEF IndInv, HoldInv, Holding
<1>3. CASE Receive
  <2>0. inbox.read \in Nat /\ inbox.mark \in Nat
    BY DEF IndInv, TypeOK
  <2>1. \A o \in inbox.handled \cup ToSet(inbox.offers) : o \in Nat
    BY ConstantFacts, SMTT(30) DEF IndInv, TypeOK, OfferNo, ToSet
  <2>2. QED
    BY <1>3, <2>0, <2>1, ReceivedNext DEF IndInv, HoldInv, Holding
<1>4. CASE Callback
  BY <1>4 DEF Callback, IndInv, HoldInv, Holding, StartInv, NoMsg
<1>5. CASE LoadSubscribed
  <2>1. UNCHANGED inbox /\ rd.pc = "load" /\ rd'.pc = OfferChoice /\ rd'.msg = rd.msg
    BY <1>5 DEF LoadSubscribed, IndInv, TypeOK
  <2>2. QED
    BY <2>1 DEF IndInv, HoldInv, Holding, OfferChoice
<1>6. CASE PutOffer
  <2>0. inbox.read \in Nat /\ inbox.mark \in Nat
    BY DEF IndInv, TypeOK
  <2>1. ToSet(inbox'.offers) \subseteq ToSet(inbox.offers) \cup {inbox.read}
    <3>1. CASE inbox'.offers = Append(inbox.offers, inbox.read)
      BY <1>6, <3>1, PutLast, ElementFacts
    <3>2. CASE inbox'.offers = inbox.offers
      BY <3>2
    <3>3. QED
      BY <1>6, <3>1, <3>2, PutLast
  <2>2. QED
    BY <1>6, <2>0, <2>1, PutLast DEF IndInv, HoldInv, Holding
<1>7. CASE OfferAbandoned
  BY <1>7 DEF OfferAbandoned, IndInv, HoldInv, Holding, StartInv, NoMsg
<1>8. CASE ReadFails
  BY <1>8 DEF ReadFails, IndInv, HoldInv, Holding, StartInv, NoMsg
<1>9. CASE AppStarts
  <2>0. inbox.read \in Nat /\ inbox.mark \in Nat
    BY DEF IndInv, TypeOK
  <2>1. QED
    BY <1>9, <2>0, Subscribes DEF IndInv, HoldInv, Holding
<1>10. CASE TakeOffer
  <2>1. inbox'.handled \cup ToSet(inbox'.offers) = inbox.handled \cup ToSet(inbox.offers)
    BY <1>10, TakenHead, ElementFacts
  <2>2. QED
    BY <1>10, <2>1, TakenHead DEF IndInv, HoldInv, Holding
<1>11. CASE UNCHANGED <<rd, inbox>>
  BY <1>11 DEF IndInv, HoldInv, Holding, StartInv
<1>12. QED
  BY <1>1, <1>2, <1>3, <1>4, <1>5, <1>6, <1>7, <1>8, <1>9, <1>10, <1>11
     DEF Next, Owner, Runtime, Reader, App, Writer, Looper, Cancel, ConnectTimeout,
        HelloArrives, RemoveOldId, LoopHead, DialFails, HelloFails, BeginSession,
           SessionCancelled, SessionLost, Leave, CallClose, AfterSession, ConnectFailed,
              WaitReconnect, Exit, Watch, CloseSocket, EnqueueCheck, EnqueueSend,
                 AwaitAnswer, OffersEnd, Write, WriterEnds, CallbackAges, Tick, LoopSends,
                    LoopEnds, Deliver, Breaks, vars, ownVars, sendVars

\* No offer is lost or overtaken.
LEMMA OfferStep == IndInv /\ [Next]_vars => OffersReliable'
<1> SUFFICES ASSUME IndInv, [Next]_vars
             PROVE  OffersReliable'
  OBVIOUS
<1>1. CASE Dial
  <2>1. rd'.pc = "none" /\ inbox' = NoInbox
    BY <1>1 DEF Dial
  <2>2. QED
    BY <2>1 DEF OffersReliable, NoInbox, ToSet
<1>2. CASE Connected
  <2>1. UNCHANGED <<inbox, done>> /\ rd.pc = "none"
    BY <1>2 DEF Connected, IndInv, StartInv
  <2>2. QED
    BY <2>1 DEF IndInv, OffersReliable
<1>3. CASE CallClose
  <2>1. UNCHANGED <<rd, inbox>> /\ done'
    BY <1>3 DEF CallClose
  <2>2. QED
    BY <2>1 DEF IndInv, OffersReliable
<1>4. CASE Receive
  <2>0. inbox.read \in Nat /\ inbox.mark \in Nat
    BY DEF IndInv, TypeOK
  <2>1. inbox'.subscribed /\ ~done' =>
              \A o \in (inbox'.mark + 1)..inbox'.read :
                  \/ o \in inbox'.handled \cup ToSet(inbox'.offers)
                  \/ rd'.pc \in {"load", "block"} /\ rd'.msg.no = o
    <3>1. /\ rd.pc = "read" /\ inbox'.mark = inbox.mark
          /\ inbox'.handled = inbox.handled /\ inbox'.offers = inbox.offers
          /\ inbox'.subscribed /\ ~done' => inbox.subscribed /\ ~done
      BY <1>4, ReceivedNext
    <3>2. ASSUME inbox.subscribed, ~done, NEW o \in (inbox.mark + 1)..inbox.read
          PROVE  o \in inbox.handled \cup ToSet(inbox.offers)
      BY <3>1, <3>2 DEF IndInv, OffersReliable
    <3>3. \/ rd'.pc = "load" /\ rd'.msg.no = inbox.read + 1 /\ inbox'.read = inbox.read + 1
          \/ inbox'.read = inbox.read
      BY <1>4, ReceivedNext
    <3>4. QED
      BY <2>0, <3>1, <3>2, <3>3
  <2>2. QED
    BY <1>4, <2>1, ReceivedNext DEF IndInv, OffersReliable
<1>5. CASE Callback
  <2>1. UNCHANGED <<inbox, done>> /\ rd.pc = "call"
    BY <1>5 DEF Callback
  <2>2. QED
    BY <2>1 DEF IndInv, OffersReliable
<1>6. CASE LoadSubscribed
  <2>1. UNCHANGED <<inbox, done>> /\ rd.pc = "load" /\ rd'.pc = OfferChoice /\ rd'.msg = rd.msg
    BY <1>6 DEF LoadSubscribed, IndInv, TypeOK
  <2>2. QED
    BY <2>1 DEF IndInv, OffersReliable, OfferChoice
<1>7. CASE PutOffer
  <2>0. inbox.read \in Nat /\ inbox.mark \in Nat
    BY DEF IndInv, TypeOK
  <2> DEFINE q == inbox.offers
  <2>1. /\ \A o \in inbox.handled \cup ToSet(q) : o < inbox.read
        /\ rd.pc = "try" /\ inbox.subscribed => inbox.mark = inbox.read
    BY <1>7, PutLast DEF IndInv, HoldInv, Holding
  <2>2. CASE inbox'.offers = q
    BY <1>7, <2>0, <2>1, <2>2, PutLast DEF IndInv, OffersReliable
  <2>3. CASE inbox'.offers = Append(q, inbox.read)
    <3>1. /\ q \in Seq(OfferNo) /\ inbox.read \in OfferNo
          /\ ToSet(inbox'.offers) = ToSet(q) \cup {inbox.read}
      BY <1>7, <2>3, PutLast, ElementFacts
    <3>2. inbox'.subscribed /\ ~done' =>
              \A o \in (inbox'.mark + 1)..inbox'.read :
                  o \in inbox'.handled \cup ToSet(inbox'.offers)
      BY <1>7, <3>1, PutLast DEF IndInv, OffersReliable
    <3>3. \A i, j \in DOMAIN inbox'.offers : i < j => inbox'.offers[i] < inbox'.offers[j]
      <4>1. /\ \A i \in DOMAIN q : inbox'.offers[i] = q[i] /\ i < Len(q) + 1 /\ i \in Nat
            /\ inbox'.offers[Len(q) + 1] = inbox.read /\ Len(q) + 1 \in Nat
            /\ \A i \in DOMAIN inbox'.offers : i \in DOMAIN q \/ i = Len(q) + 1
        BY <2>3, <3>1, AppendFacts
      <4>2. \A i \in DOMAIN q : q[i] < inbox.read
        BY <2>1 DEF ToSet
      <4>3. \A i, j \in DOMAIN q : i < j => q[i] < q[j]
        BY DEF IndInv, OffersReliable
      <4>4. QED
        BY <4>1, <4>2, <4>3
    <3>4. \A o \in inbox'.handled, z \in ToSet(inbox'.offers) : o < z
      <4>1. \A o \in inbox.handled, z \in ToSet(q) : o < z
        BY DEF IndInv, OffersReliable
      <4>2. QED
        BY <1>7, <2>1, <3>1, <4>1, PutLast
    <3>5. QED
      BY <3>2, <3>3, <3>4 DEF OffersReliable
  <2>4. QED
    BY <1>7, <2>2, <2>3, PutLast
<1>8. CASE OfferAbandoned
  <2>1. UNCHANGED <<inbox, done>> /\ done
    BY <1>8 DEF OfferAbandoned
  <2>2. QED
    BY <2>1 DEF IndInv, OffersReliable
<1>9. CASE ReadFails
  <2>1. UNCHANGED inbox /\ done'
    BY <1>9 DEF ReadFails
  <2>2. QED
    BY <2>1 DEF IndInv, OffersReliable
<1>10. CASE AppStarts
  <2>0. inbox.read \in Nat /\ inbox.mark \in Nat
    BY DEF IndInv, TypeOK
  <2>1. inbox'.subscribed /\ ~done' =>
              \A o \in (inbox'.mark + 1)..inbox'.read :
                  \/ o \in inbox'.handled \cup ToSet(inbox'.offers)
                  \/ rd'.pc \in {"load", "block"} /\ rd'.msg.no = o
    <3>1. CASE inbox'.mark = inbox.read
      <4>1. (inbox'.mark + 1)..inbox'.read = {}
        BY <1>10, <2>0, <3>1, Subscribes
      <4>2. QED
        BY <4>1
    <3>2. CASE inbox'.mark = inbox.mark /\ inbox'.subscribed = inbox.subscribed
      BY <1>10, <3>2, Subscribes DEF IndInv, OffersReliable
    <3>3. QED
      BY <1>10, <3>1, <3>2, Subscribes
  <2>2. QED
    BY <1>10, <2>1, Subscribes DEF IndInv, OffersReliable
<1>11. CASE TakeOffer
  <2> DEFINE q == inbox.offers
  <2>1. /\ q \in Seq(OfferNo) /\ q # <<>> /\ inbox'.offers = Tail(q)
        /\ inbox'.handled = inbox.handled \cup {Head(q)}
        /\ ToSet(q) = {Head(q)} \cup ToSet(Tail(q))
    BY <1>11, TakenHead, ElementFacts
  <2>2. inbox'.subscribed /\ ~done' =>
              \A o \in (inbox'.mark + 1)..inbox'.read :
                  \/ o \in inbox'.handled \cup ToSet(inbox'.offers)
                  \/ rd'.pc \in {"load", "block"} /\ rd'.msg.no = o
    BY <1>11, <2>1, TakenHead DEF IndInv, OffersReliable
  <2>3. \A i, j \in DOMAIN q : i < j => q[i] < q[j]
    BY DEF IndInv, OffersReliable
  <2>4. /\ 1 \in DOMAIN q /\ Head(q) = q[1]
        /\ \A i \in DOMAIN Tail(q) :
              i + 1 \in DOMAIN q /\ Tail(q)[i] = q[i + 1] /\ i \in Nat /\ i >= 1
    BY <2>1, TailFacts
  <2>5. \A i, j \in DOMAIN inbox'.offers : i < j => inbox'.offers[i] < inbox'.offers[j]
    BY <2>1, <2>3, <2>4
  <2>6. \A z \in ToSet(Tail(q)) : Head(q) < z
    BY <2>3, <2>4 DEF ToSet
  <2>7. \A o \in inbox'.handled, z \in ToSet(inbox'.offers) : o < z
    <3>1. \A o \in inbox.handled, z \in ToSet(q) : o < z
      BY DEF IndInv, OffersReliable
    <3>2. QED
      BY <2>1, <2>6, <3>1
  <2>8. QED
    BY <2>2, <2>5, <2>7 DEF OffersReliable
<1>12. CASE Write
  <2>1. UNCHANGED <<rd, inbox>> /\ (done' \/ UNCHANGED done)
    BY <1>12 DEF Write
  <2>2. QED
    BY <2>1 DEF IndInv, OffersReliable
<1>13. CASE UNCHANGED <<rd, inbox, done>>
  BY <1>13 DEF IndInv, OffersReliable
<1>14. QED
  BY <1>1, <1>2, <1>3, <1>4, <1>5, <1>6, <1>7, <1>8, <1>9, <1>10, <1>11, <1>12, <1>13
     DEF Next, Owner, Runtime, Reader, App, Writer, Looper, Cancel, ConnectTimeout,
        HelloArrives, RemoveOldId, LoopHead, DialFails, HelloFails, BeginSession,
           SessionCancelled, SessionLost, Leave, AfterSession, ConnectFailed, WaitReconnect,
              Exit, Watch, CloseSocket, EnqueueCheck, EnqueueSend, AwaitAnswer, OffersEnd,
                 WriterEnds, CallbackAges, Tick, LoopSends, LoopEnds, Deliver, Breaks, vars,
                    ownVars, sendVars

-----------------------------------------------------------------------------
(* The theorems *)

\* The program starts in the invariant.
LEMMA InitInv == Init => IndInv
<1> SUFFICES ASSUME Init PROVE IndInv
  OBVIOUS
<1>1. TypeOK
  <2>1. OwnOK
    BY DEF Init, OwnOK, Program
  <2>2. hello \in HelloState
    BY DEF Init, HelloState
  <2>3. NetOK
    BY ConstantFacts DEF Init, NetOK, NetState
  <2>4. rd \in ReadState
    BY Nothing DEF Init, ReadState
  <2>5. InboxOK
    BY Nothing, ConstantFacts DEF Init, InboxOK
  <2>6. LoopOK
    BY ConstantFacts DEF Init, LoopOK
  <2>7. PeersOK
    BY FS_EmptySet, ConstantFacts DEF Init, PeersOK
  <2>8. answer \in AnswerState
    BY ConstantFacts DEF Init, AnswerState
  <2>9. QED
    BY <2>1, <2>2, <2>3, <2>4, <2>5, <2>6, <2>7, <2>8, TypeParts
<1>2. IdInv /\ DeadlineInv /\ StartInv
  BY DEF Init, IdInv, IdFileLive, DeadlineInv, Established, StartInv
<1>3. AnswerInv
  BY ConstantFacts DEF Init, AnswerInv
<1>4. PeerInv /\ NumberInv
  BY DEF Init, PeerInv, NumberInv, Numbered, Offers, NoInbox
<1>5. HoldInv /\ OffersReliable
  BY DEF Init, HoldInv, Holding, OffersReliable, NoInbox, ToSet
<1>6. QED
  BY <1>1, <1>2, <1>3, <1>4, <1>5 DEF IndInv

\* The inductive invariant holds in every reachable state.
THEOREM Invariance == Spec => []IndInv
<1>1. IndInv /\ [Next]_vars => IndInv'
  BY TypeStep, IdStep, DeadlineStep, PeerStep, StartStep, AnswerStep, NumberStep, HoldStep,
     OfferStep DEF IndInv
<1>2. QED
  BY InitInv, <1>1, PTL DEF Spec

\* Whatever messages, departures and answers arrive, and however long the
\* connection took, the client is ready for the next message: no stale read
\* deadline, no peer that is gone for good, no callback that blocks readLoop.
THEOREM ClientStaysSound == Spec => []ClientSound
<1>1. IndInv => ClientSound
  <2> SUFFICES ASSUME IndInv PROVE ClientSound
    OBVIOUS
  <2>1. NotPoisoned
    BY DEF IndInv, DeadlineInv, NotPoisoned
  <2>2. PeersTrack
    <3>1. Cardinality(peers) <= MaxPeers
      BY DEF IndInv, TypeOK
    <3>2. ASSUME net.sock # "closed", NEW p \in peers
          PROVE  p \in net.members \cup {m.peer : m \in {w \in ToSet(net.wire) : w.kind = "left"}}
      BY <3>2 DEF IndInv, PeerInv, Departs, ToSet
    <3>3. QED
      BY <3>1, <3>2 DEF PeersTrack
  <2>3. CallbackFree
    BY DEF IndInv, AnswerInv, CallbackFree
  <2>4. QED
    BY <2>1, <2>2, <2>3 DEF ClientSound, IndInv
<1>2. QED
  BY Invariance, <1>1, PTL

\* From its subscription on, every offer that the receiver's readLoop reads
\* reaches it, once and in order, as long as the connection stands.
THEOREM OffersArrive == Spec => []OffersReliable
<1>1. IndInv => OffersReliable
  BY DEF IndInv
<1>2. QED
  BY Invariance, <1>1, PTL

\* The id file never outlives the session it names.
THEOREM IdFileNamesSession == Spec => []IdFileLive
<1>1. IndInv => IdFileLive
  BY DEF IndInv, IdInv
<1>2. QED
  BY Invariance, <1>1, PTL

=============================================================================
