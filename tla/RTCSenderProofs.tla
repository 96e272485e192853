-------------------------- MODULE RTCSenderProofs --------------------------
(***************************************************************************)
(* Proofs about the WebRTC sender, for every set of files, every number of *)
(* frames per file and every buffer limit: success means that every file   *)
(* was saved, the frames reach the remote side under the right headers,    *)
(* and the send buffer is bounded although headers are sent without        *)
(* waiting.                                                                *)
(***************************************************************************)
EXTENDS RTCSender, FiniteSetTheorems, TLAPS

-----------------------------------------------------------------------------
(* The inductive invariant *)

SetUp == {"start", "answer", "accept"}
Body  == {"data", "arm", "recheck", "low", "push"}   \* within the frames of a file
After == {"release", "disconnect", "exit"}

\* Where the main goroutine is says what it knows of its queue.
QueueInv ==
    /\ Len(queue) <= Cardinality(File)
    /\ \A i, j \in DOMAIN queue : queue[i] = queue[j] => i = j
    /\ pc \in SetUp => queue = <<>> /\ index = 1
    /\ pc \in Body \cup {"file", "ack"} => index <= Len(queue)
    /\ pc = "flush" \/ outcome = "ok" => index = Len(queue) + 1
    /\ outcome = "ok" => pc \in After

\* A header is sent ahead exactly when there is a next file.
HeaderInv ==
    /\ pc \in SetUp => ~announced
    /\ pc = "file" => (announced <=> index > 1)
    /\ pc \in Body => ~announced
    /\ pc \in Body \ {"data"} => chunk < Chunks
    /\ pc = "ack" => (announced <=> index < Len(queue))

\* Acknowledgements under way, in the channel or on the wire.
Acks == ToSet(remote.replies) \cup ToSet(s.results)

\* A good acknowledgement is for a file that was saved or strayed, and so is
\* every file the sender has left behind.
SavedInv ==
    /\ \A a \in Acks : a.ok => a.id \in remote.saved \cup remote.stray
    /\ \A i \in DOMAIN queue : i < index => queue[i] \in remote.saved \cup remote.stray

(* A position in the stream of frames that queue q makes is a file number j,  *)
(* zero before the first header and Len(q) + 1 after the delimiter, and the   *)
(* number g of its frames that have passed.                                   *)

\* Frame f leads from position (j, g) to (h, k).
Passes(q, f, j, g, h, k) ==
    \/ /\ f.kind = "header" /\ j < Len(q) /\ f.file = q[j + 1]
       /\ j = 0 \/ g = Chunks
       /\ h = j + 1 /\ k = 0
    \/ /\ f.kind = "data" /\ j \in DOMAIN q /\ f.file = q[j]
       /\ g < Chunks /\ h = j /\ k = g + 1
    \/ /\ f.kind = "end" /\ j = Len(q)
       /\ j = 0 \/ g = Chunks
       /\ h = j + 1 /\ k = 0

Before(j, g, h, k) == j < h \/ (j = h /\ g < k)

\* The frames of w lead from position (j, g) to (h, k), by way of the positions
\* (J[i], G[i]).
Framed(q, w, J, G) ==
    /\ \A i \in 1..Len(w) : Passes(q, w[i], J[i - 1], G[i - 1], J[i], G[i])
    /\ \A i, l \in 0..Len(w) : i < l => Before(J[i], G[i], J[l], G[l])

Leads(q, w, j, g, h, k) ==
    \E J \in [0..Len(w) -> 0..(Len(q) + 1)], G \in [0..Len(w) -> 0..Chunks] :
        /\ Framed(q, w, J, G)
        /\ J[0] = j /\ G[0] = g /\ J[Len(w)] = h /\ G[Len(w)] = k

\* The remote side is at position (j, g).
RemoteAt(q, cur, got, j, g) ==
    /\ got = g
    /\ IF j \in DOMAIN q THEN cur = {q[j]} ELSE cur = {} /\ g = 0

\* The main goroutine, unless it has failed or finished, is at position (j, g).
SenderAt(j, g) ==
    /\ pc \in SetUp => j = 0 /\ g = 0
    /\ pc = "file" => j = (IF announced THEN index ELSE 0) /\ g = 0
    /\ pc \in Body => j = index /\ g = chunk
    /\ pc = "ack" => j = index + 1 /\ g = 0

\* Unless one strayed, acknowledgements are for files that have passed.
AcksPassed(j) ==
    remote.stray = {} => \A a \in Acks : \E i \in DOMAIN queue : i < j /\ a.id = queue[i]

\* The wire leads from the remote side to the main goroutine.
FrameInv ==
    /\ ~remote.garbled
    /\ \E j, h \in 0..(Len(queue) + 1), g, k \in 0..Chunks :
          /\ Leads(queue, wire, j, g, h, k)
          /\ RemoteAt(queue, remote.cur, remote.got, j, g)
          /\ SenderAt(h, k)
          /\ AcksPassed(j)

\* Nothing is on the wire before the first file, and, unless an
\* acknowledgement strayed, nothing when the next file begins.
FlowInv ==
    /\ pc \in SetUp => wire = <<>>
    /\ pc = "push" => Room
    /\ pc \in {"recheck", "low"} => threshold = Limit
    /\ NoMissedDrain
    /\ remote.stray = {} => /\ Len(wire) <= Limit + 2
                            /\ pc \in Body => Len(wire) <= Limit + 1
                            /\ pc = "file" => wire = <<>>

IndInv ==
    /\ TypeOK /\ QueueInv /\ HeaderInv /\ SavedInv /\ FrameInv /\ FlowInv

-----------------------------------------------------------------------------
(* Sequences and the framing of the stream *)

\* What is left of a sequence after its head was taken.
LEMMA TailFacts ==
    ASSUME NEW S, NEW q \in Seq(S), q # <<>>
    PROVE  /\ Tail(q) \in Seq(S) /\ Len(Tail(q)) = Len(q) - 1 /\ Len(q) \in Nat /\ Len(q) >= 1
           /\ 1 \in DOMAIN q /\ Head(q) = q[1] /\ Head(q) \in S
           /\ \A i \in 1..(Len(q) - 1) : Tail(q)[i] = q[i + 1]
           /\ ToSet(Tail(q)) \subseteq ToSet(q) /\ Head(q) \in ToSet(q)
<1>1. /\ Tail(q) \in Seq(S) /\ Len(Tail(q)) = Len(q) - 1 /\ Len(q) \in Nat /\ Len(q) >= 1
      /\ 1 \in DOMAIN q /\ Head(q) = q[1] /\ Head(q) \in S
      /\ \A i \in 1..(Len(q) - 1) : Tail(q)[i] = q[i + 1] /\ i + 1 \in DOMAIN q
      /\ DOMAIN Tail(q) = 1..(Len(q) - 1)
  OBVIOUS
<1>2. QED
  BY <1>1 DEF ToSet

\* What a sequence is after an element was put at its end.
LEMMA AppendFacts ==
    ASSUME NEW S, NEW q \in Seq(S), NEW e \in S
    PROVE  /\ Append(q, e) \in Seq(S) /\ Len(Append(q, e)) = Len(q) + 1 /\ Len(q) \in Nat
           /\ Append(q, e)[Len(q) + 1] = e
           /\ \A i \in 1..Len(q) : Append(q, e)[i] = q[i]
           /\ ToSet(Append(q, e)) = ToSet(q) \cup {e}
<1>1. /\ Append(q, e) \in Seq(S) /\ Len(Append(q, e)) = Len(q) + 1 /\ Len(q) \in Nat
      /\ Append(q, e)[Len(q) + 1] = e
      /\ \A i \in 1..Len(q) : Append(q, e)[i] = q[i]
      /\ DOMAIN Append(q, e) = 1..(Len(q) + 1) /\ DOMAIN q = 1..Len(q)
  OBVIOUS
<1>2. QED
  BY <1>1 DEF ToSet

\* An empty wire leads nowhere.
LEMMA LeadsNowhere ==
    ASSUME NEW q \in Seq(File), NEW j \in 0..(Len(q) + 1), NEW g \in 0..Chunks
    PROVE  Leads(q, <<>>, j, g, j, g)
<1> DEFINE J == [i \in 0..0 |-> j]
           G == [i \in 0..0 |-> g]
<1>1. /\ J \in [0..Len(<<>>) -> 0..(Len(q) + 1)] /\ G \in [0..Len(<<>>) -> 0..Chunks]
      /\ J[0] = j /\ G[0] = g
  OBVIOUS
<1>2. Framed(q, <<>>, J, G)
  BY DEF Framed
<1>3. Len(<<>>) = 0
  OBVIOUS
<1> HIDE DEF J, G
<1>4. QED
  BY <1>1, <1>2, <1>3 DEF Leads

\* A frame that passes from the end of the wire makes it longer.
LEMMA LeadsFurther ==
    ASSUME NEW q \in Seq(File), NEW w \in Seq(Frame), NEW f \in Frame,
           NEW j, NEW g, NEW h \in 0..(Len(q) + 1), NEW k \in 0..Chunks,
           NEW a \in 0..(Len(q) + 1), NEW b \in 0..Chunks,
           Leads(q, w, j, g, h, k), Passes(q, f, h, k, a, b)
    PROVE  Leads(q, Append(w, f), j, g, a, b)
<1> DEFINE n == Len(w)
           z == Append(w, f)
<1>1. PICK J \in [0..n -> 0..(Len(q) + 1)], G \in [0..n -> 0..Chunks] :
         Framed(q, w, J, G) /\ J[0] = j /\ G[0] = g /\ J[n] = h /\ G[n] = k
  BY DEF Leads
<1> DEFINE JJ == [i \in 0..(n + 1) |-> IF i = n + 1 THEN a ELSE J[i]]
           GG == [i \in 0..(n + 1) |-> IF i = n + 1 THEN b ELSE G[i]]
<1>2. n \in Nat /\ Len(z) = n + 1 /\ z[n + 1] = f /\ \A i \in 1..n : z[i] = w[i]
  BY AppendFacts
<1>3. /\ JJ \in [0..Len(z) -> 0..(Len(q) + 1)] /\ GG \in [0..Len(z) -> 0..Chunks]
      /\ JJ[n + 1] = a /\ GG[n + 1] = b
      /\ \A i \in 0..n : JJ[i] = J[i] /\ GG[i] = G[i]
  BY <1>2
<1> HIDE DEF JJ, GG, z
<1>4. Before(h, k, a, b)
  BY DEF Passes, Before
<1>5. ASSUME NEW i \in 1..(n + 1)
      PROVE  Passes(q, z[i], JJ[i - 1], GG[i - 1], JJ[i], GG[i])
  <2>1. CASE i = n + 1
    <3>1. /\ z[i] = f /\ JJ[i - 1] = h /\ GG[i - 1] = k /\ JJ[i] = a /\ GG[i] = b
      BY <1>1, <1>2, <1>3, <2>1
    <3>2. QED
      BY <3>1
  <2>2. CASE i \in 1..n
    <3>1. /\ z[i] = w[i] /\ JJ[i - 1] = J[i - 1] /\ GG[i - 1] = G[i - 1]
          /\ JJ[i] = J[i] /\ GG[i] = G[i]
      BY <1>2, <1>3, <2>2
    <3>2. QED
      BY <1>1, <2>2, <3>1 DEF Framed
  <2>3. QED
    BY <1>2, <2>1, <2>2
<1>6. ASSUME NEW i \in 0..(n + 1), NEW l \in 0..(n + 1), i < l
      PROVE  Before(JJ[i], GG[i], JJ[l], GG[l])
  <2>1. i \in 0..n /\ JJ[i] = J[i] /\ GG[i] = G[i]
    BY <1>2, <1>3, <1>6
  <2>2. CASE l = n + 1
    <3>1. i = n \/ Before(J[i], G[i], h, k)
      <4>1. n \in 0..n /\ (i # n => i < n)
        BY <1>2, <2>1
      <4>2. i < n => Before(J[i], G[i], J[n], G[n])
        BY <1>1, <2>1, <4>1 DEF Framed
      <4>3. QED
        BY <1>1, <4>1, <4>2
    <3>2. J[i] \in Nat /\ G[i] \in Nat /\ h \in Nat /\ k \in Nat /\ a \in Nat /\ b \in Nat
      BY <2>1, SenderAssumption
    <3>3. QED
      BY <1>1, <1>3, <1>4, <2>1, <2>2, <3>1, <3>2 DEF Before
  <2>3. CASE l \in 0..n
    <3>1. JJ[l] = J[l] /\ GG[l] = G[l]
      BY <1>3, <2>3
    <3>2. QED
      BY <1>1, <1>6, <2>1, <2>3, <3>1 DEF Framed
  <2>4. QED
    BY <1>2, <2>2, <2>3
<1>7. Framed(q, z, JJ, GG)
  BY <1>2, <1>5, <1>6 DEF Framed, z
<1>8. JJ[0] = j /\ GG[0] = g /\ JJ[Len(z)] = a /\ GG[Len(z)] = b
  <2>1. 0 \in 0..n /\ Len(z) = n + 1
    BY <1>2 DEF z
  <2>2. QED
    BY <1>1, <1>3, <2>1
<1>9. Leads(q, z, j, g, a, b)
  BY <1>3, <1>7, <1>8 DEF Leads
<1>10. QED
  BY <1>9 DEF z

\* The head of the wire passes the remote side; the rest leads on from there.
LEMMA LeadsOn ==
    ASSUME NEW q \in Seq(File), NEW w \in Seq(Frame), w # <<>>,
           NEW j, NEW g, NEW h, NEW k, Leads(q, w, j, g, h, k)
    PROVE  \E a \in 0..(Len(q) + 1), b \in 0..Chunks :
              Passes(q, Head(w), j, g, a, b) /\ Leads(q, Tail(w), a, b, h, k)
<1> DEFINE n == Len(w)
           z == Tail(w)
<1>1. PICK J \in [0..n -> 0..(Len(q) + 1)], G \in [0..n -> 0..Chunks] :
         Framed(q, w, J, G) /\ J[0] = j /\ G[0] = g /\ J[n] = h /\ G[n] = k
  BY DEF Leads
<1> DEFINE JJ == [i \in 0..(n - 1) |-> J[i + 1]]
           GG == [i \in 0..(n - 1) |-> G[i + 1]]
<1>2. n \in Nat /\ n >= 1 /\ Len(z) = n - 1 /\ Head(w) = w[1] /\ \A i \in 1..(n - 1) : z[i] = w[i + 1]
  BY TailFacts
<1>3. /\ JJ \in [0..Len(z) -> 0..(Len(q) + 1)] /\ GG \in [0..Len(z) -> 0..Chunks]
      /\ \A i \in 0..(n - 1) : JJ[i] = J[i + 1] /\ GG[i] = G[i + 1]
  BY <1>2
<1> HIDE DEF JJ, GG, z
<1>4. ASSUME NEW i \in 1..(n - 1)
      PROVE  Passes(q, z[i], JJ[i - 1], GG[i - 1], JJ[i], GG[i])
  <2>1. /\ z[i] = w[i + 1] /\ JJ[i - 1] = J[i] /\ GG[i - 1] = G[i]
        /\ JJ[i] = J[i + 1] /\ GG[i] = G[i + 1]
    BY <1>2, <1>3
  <2>2. i + 1 \in 1..n /\ (i + 1) - 1 = i
    BY <1>2
  <2>3. Passes(q, w[i + 1], J[(i + 1) - 1], G[(i + 1) - 1], J[i + 1], G[i + 1])
    BY <1>1, <2>2 DEF Framed
  <2>4. QED
    BY <2>1, <2>2, <2>3
<1>5. ASSUME NEW i \in 0..(n - 1), NEW l \in 0..(n - 1), i < l
      PROVE  Before(JJ[i], GG[i], JJ[l], GG[l])
  <2>1. i + 1 \in 0..n /\ l + 1 \in 0..n /\ i + 1 < l + 1
    BY <1>2, <1>5
  <2>2. Before(J[i + 1], G[i + 1], J[l + 1], G[l + 1])
    BY <1>1, <2>1 DEF Framed
  <2>3. QED
    BY <1>3, <2>2
<1>6. Framed(q, z, JJ, GG)
  BY <1>2, <1>4, <1>5 DEF Framed, z
<1>7. JJ[0] = J[1] /\ GG[0] = G[1] /\ JJ[Len(z)] = h /\ GG[Len(z)] = k
  BY <1>1, <1>2, <1>3
<1>8. Leads(q, z, J[1], G[1], h, k)
  BY <1>3, <1>6, <1>7 DEF Leads
<1>9. Passes(q, Head(w), j, g, J[1], G[1])
  <2>1. 1 \in 1..n /\ 1 - 1 = 0
    BY <1>2
  <2>2. Passes(q, w[1], J[1 - 1], G[1 - 1], J[1], G[1])
    BY <1>1, <2>1 DEF Framed
  <2>3. QED
    BY <1>1, <1>2, <2>1, <2>2
<1>10. J[1] \in 0..(Len(q) + 1) /\ G[1] \in 0..Chunks
  <2>1. 1 \in 0..n
    BY <1>2
  <2>2. QED
    BY <1>1, <2>1
<1>11. QED
  BY <1>8, <1>9, <1>10 DEF z

\* The two ends of a wire meet exactly when it is empty.
LEMMA LeadsForward ==
    ASSUME NEW q \in Seq(File), NEW w \in Seq(Frame), NEW j, NEW g, NEW h, NEW k,
           Leads(q, w, j, g, h, k)
    PROVE  IF w = <<>> THEN j = h /\ g = k ELSE Before(j, g, h, k)
<1>1. PICK J \in [0..Len(w) -> 0..(Len(q) + 1)], G \in [0..Len(w) -> 0..Chunks] :
         Framed(q, w, J, G) /\ J[0] = j /\ G[0] = g /\ J[Len(w)] = h /\ G[Len(w)] = k
  BY DEF Leads
<1>2. Len(w) \in Nat /\ (Len(w) = 0 <=> w = <<>>)
  OBVIOUS
<1>3. Len(w) > 0 => Before(J[0], G[0], J[Len(w)], G[Len(w)])
  BY <1>1, <1>2 DEF Framed
<1>4. QED
  BY <1>1, <1>2, <1>3

-----------------------------------------------------------------------------
(* What each step keeps of the types *)

MainOK ==
    /\ pc \in SetUp \cup Body \cup After \cup {"hangup", "file", "ack", "flush"}
    /\ outcome \in {"pending", "ok", "error"}
    /\ queue \in Seq(File) /\ index \in 1..(Cardinality(File) + 1)
    /\ chunk \in 0..Chunks

SenderOK == s \in Sender /\ Len(s.accepted) <= 1 /\ Len(s.results) <= 1

EventOK ==
    /\ opening \in {"no", "due", "stuck", "done"}
    /\ link \in {"none", "connecting", "answered", "open", "closed"}
    /\ closing \in {"no", "handler", "done"} /\ threshold \in {0, Limit}

FlagOK == pairing \in BOOLEAN /\ low \in BOOLEAN /\ announced \in BOOLEAN

WireOK == wire \in Seq(Frame)

RemoteState == [cur : SUBSET File, got : 0..Chunks, saved : SUBSET File, stray : SUBSET File,
                replies : Seq(Ack), garbled : BOOLEAN]

RemoteOK == remote \in RemoteState

\* The type invariant is the conjunction of these parts.
LEMMA TypeParts ==
    TypeOK <=> MainOK /\ SenderOK /\ EventOK /\ FlagOK /\ WireOK /\ RemoteOK
  BY DEF TypeOK, MainOK, SenderOK, EventOK, FlagOK, WireOK, RemoteOK, RemoteState, SetUp, Body, After

\* The sizes the model is given.
LEMMA Sizes == Chunks \in Nat /\ Limit \in Nat /\ Cardinality(File) \in Nat
  BY SenderAssumption, FS_CardinalityType

\* A queue that prepareSendQueue makes holds files of ours, each once.
LEMMA QueuesOf ==
    ASSUME NEW ids, NEW q \in prepareSendQueue(ids)
    PROVE  /\ q \in Seq(File) /\ Len(q) \in Nat /\ Len(q) <= Cardinality(File)
           /\ \A i, j \in DOMAIN q : q[i] = q[j] => i = j
<1> DEFINE n == Cardinality(ids \cap File)
<1>1. n \in Nat /\ n <= Cardinality(File)
  BY SenderAssumption, FS_Subset, FS_CardinalityType
<1>2. q \in [1..n -> ids \cap File] /\ \A i, j \in 1..n : i # j => q[i] # q[j]
  BY DEF prepareSendQueue, SetToSeqs
<1> HIDE DEF n
<1>3. q \in Seq(File) /\ Len(q) = n /\ DOMAIN q = 1..n
  BY <1>1, <1>2
<1>4. QED
  BY <1>1, <1>2, <1>3

\* What AwaitAcceptance does: it starts on a queue, ends an empty list, or fails.
LEMMA Acceptance ==
    ASSUME TypeOK, AwaitAcceptance
    PROVE  /\ pc = "accept" /\ UNCHANGED <<index, chunk, announced, remote>>
           /\ s'.results = s.results
           /\ \/ /\ queue' \in Seq(File) /\ queue' # <<>> /\ Len(queue') <= Cardinality(File)
                 /\ \A i, j \in DOMAIN queue' : queue'[i] = queue'[j] => i = j
                 /\ pc' = "file" /\ UNCHANGED <<outcome, wire>>
              \/ /\ queue' = <<>> /\ pc' = "flush" /\ UNCHANGED outcome
                 /\ wire' = Append(wire, [kind |-> "end"])
              \/ /\ queue' = <<>> \/ UNCHANGED queue
                 /\ pc' \in {"release", "hangup"} /\ outcome' = "error" /\ UNCHANGED wire
<1>1. s \in Sender
  BY DEF TypeOK
<1>2. pc = "accept" /\ UNCHANGED <<index, chunk, announced, remote>> /\ s'.results = s.results
  BY <1>1 DEF AwaitAcceptance, StartSending, Fails, Sender
<1>3. CASE \E q \in prepareSendQueue(Head(s.accepted)) : StartSending(q)
  <2>1. PICK q \in prepareSendQueue(Head(s.accepted)) : StartSending(q)
    BY <1>3
  <2>2. /\ q \in Seq(File) /\ Len(q) <= Cardinality(File)
        /\ \A i, j \in DOMAIN q : q[i] = q[j] => i = j
    BY QueuesOf
  <2>3. QED
    BY <1>2, <2>1, <2>2 DEF StartSending
<1>4. CASE Fails("hangup") /\ UNCHANGED wire
  BY <1>2, <1>4 DEF Fails
<1>5. CASE Fails("release") /\ UNCHANGED wire
  BY <1>2, <1>5 DEF Fails
<1>6. QED
  BY <1>3, <1>4, <1>5 DEF AwaitAcceptance

Accepted == Seq(SUBSET (File \cup {Stranger}))

\* The fields of the sender's state have their types,
LEMMA SenderParts ==
    ASSUME NEW t \in Sender
    PROVE  /\ t.state \in State /\ t.closed \in BOOLEAN /\ t.accepted \in Accepted
           /\ t.declined \in 0..1 /\ t.errors \in 0..1 /\ t.results \in Seq(Ack)
  BY DEF Sender, Accepted

\* and each can take any value of its type.
LEMMA SenderField ==
    ASSUME NEW t \in Sender, NEW v \in State, NEW x \in Accepted, NEW d \in 0..1, NEW e \in 0..1,
           NEW y \in Seq(Ack)
    PROVE  /\ [t EXCEPT !.state = v] \in Sender /\ [t EXCEPT !.accepted = x] \in Sender
           /\ [t EXCEPT !.errors = e] \in Sender /\ [t EXCEPT !.declined = d] \in Sender
           /\ [t EXCEPT !.results = y] \in Sender /\ [t EXCEPT !.closed = TRUE] \in Sender
           /\ [t EXCEPT !.state = v, !.errors = e] \in Sender
           /\ [t EXCEPT !.state = v, !.accepted = x] \in Sender
           /\ [t EXCEPT !.results = y, !.errors = e] \in Sender
<1> DEFINE X == Accepted
           Y == Seq(Ack)
<1>1. /\ Sender = [state : State, closed : BOOLEAN, accepted : X, declined : 0..1, errors : 0..1,
                   results : Y]
      /\ x \in X /\ y \in Y
  BY DEF Sender, Accepted
<1> HIDE DEF X, Y
<1>2. QED
  BY <1>1, Zenon

\* What closes the sender's state when it fails is a state again.
LEMMA FailLocked ==
    ASSUME NEW t \in Sender
    PROVE  failLocked(t) \in Sender /\ failLocked(t).accepted = t.accepted
           /\ failLocked(t).results = t.results /\ failLocked(t).closed = t.closed
<1>1. /\ Offer(t.errors) \in 0..1 /\ "done" \in State
      /\ t.accepted \in Accepted /\ t.declined \in 0..1 /\ t.results \in Seq(Ack)
  BY SenderParts DEF Offer, State
<1>2. /\ [t EXCEPT !.state = "done"] \in Sender
      /\ [t EXCEPT !.state = "done", !.errors = Offer(t.errors)] \in Sender
  BY <1>1, SenderField, Zenon
<1>3. failLocked(t) \in Sender
  BY <1>2 DEF failLocked
<1>4. /\ failLocked(t).accepted = t.accepted /\ failLocked(t).results = t.results
      /\ failLocked(t).closed = t.closed
  <2> DEFINE e == Offer(t.errors)
  <2>1. failLocked(t) = (IF t.closed THEN [t EXCEPT !.state = "done"]
                         ELSE [t EXCEPT !.state = "done", !.errors = e])
    BY SMTT(30) DEF failLocked
  <2> HIDE DEF e
  <2>2. QED
    BY <2>1 DEF Sender
<1>5. QED
  BY <1>3, <1>4

\* Callbacks, messages, the network and the remote side leave the main goroutine
\* alone.
LEMMA MainKept ==
    ASSUME [Next]_vars
    PROVE  Main \/ UNCHANGED mainVars
<1>1. CASE Callback
  BY <1>1 DEF Callback, HandleClose, startNonceExchange, ErrorTaken, PairAnswered,
     callbackUnchanged
<1>2. CASE Message
  BY <1>2 DEF Message, handleNonceResponse, handleTokenResponse, handleFileAcceptance,
     handleFileResponse, callbackUnchanged
<1>3. CASE ChannelOpens \/ ConnectionLost \/ RemoteReads
  BY <1>3 DEF ChannelOpens, ConnectionLost, RemoteReads
<1>4. CASE \E f \in File, ok \in BOOLEAN : RemoteStrays(f, ok)
  BY <1>4 DEF RemoteStrays
<1>5. CASE UNCHANGED vars
  BY <1>5 DEF vars
<1>6. QED
  BY <1>1, <1>2, <1>3, <1>4, <1>5 DEF Next

\* The main goroutine stays at a place of its own, within its queue.
LEMMA MainStep == IndInv /\ [Next]_vars => MainOK'
<1> SUFFICES ASSUME IndInv, [Next]_vars
             PROVE  MainOK'
  OBVIOUS
<1>0. MainOK /\ TypeOK /\ Len(queue) <= Cardinality(File) /\ (pc = "ack" => index <= Len(queue))
  BY TypeParts DEF IndInv, QueueInv
<1>1. CASE Start
  BY <1>1, <1>0, Sizes DEF Start, MainOK, mainVars, SetUp, Body, After, Goto, Fails
<1>2. CASE AwaitAnswer
  BY <1>2, <1>0, Sizes DEF AwaitAnswer, MainOK, mainVars, SetUp, Body, After, Goto, Fails
<1>3. CASE AwaitAcceptance
  <2>1. pc' \in {"file", "flush", "release", "hangup"} /\ queue' \in Seq(File)
    <3>1. queue \in Seq(File) /\ <<>> \in Seq(File)
      BY <1>0 DEF MainOK
    <3>2. QED
      BY <1>3, <1>0, <3>1, Acceptance
  <2>2. outcome' \in {"pending", "ok", "error"} /\ UNCHANGED <<index, chunk>>
    BY <1>3, <1>0, Acceptance DEF MainOK
  <2>3. QED
    BY <1>0, <2>1, <2>2 DEF MainOK, SetUp, After
<1>4. CASE BeginFile
  <2>1. /\ pc' \in {"release", "data"} /\ outcome' \in {outcome, "error"} /\ UNCHANGED <<queue, index>>
        /\ chunk' \in {0, chunk}
    BY <1>4 DEF BeginFile, SendFails, Fails
  <2>2. QED
    BY <1>0, <2>1, Sizes DEF MainOK, After, Body
<1>5. CASE SendChunk
  <2>1. /\ pc' \in {"release", "data"} /\ outcome' \in {outcome, "error"} /\ UNCHANGED <<queue, index>>
        /\ chunk' = chunk \/ (chunk < Chunks /\ chunk' = chunk + 1)
    BY <1>5 DEF SendChunk, SendFails, Fails
  <2>2. QED
    BY <1>0, <2>1, Sizes DEF MainOK, After, Body
<1>6. CASE BufferFull
  BY <1>6, <1>0, Sizes DEF BufferFull, MainOK, mainVars, SetUp, Body, After, Goto
<1>7. CASE Arm
  BY <1>7, <1>0, Sizes DEF Arm, MainOK, mainVars, SetUp, Body, After, Goto
<1>8. CASE Recheck
  BY <1>8, <1>0, Sizes DEF Recheck, MainOK, mainVars, SetUp, Body, After, Goto, AfterRecheck
<1>9. CASE AwaitLow
  BY <1>9, <1>0, Sizes DEF AwaitLow, MainOK, mainVars, SetUp, Body, After, Goto, Fails
<1>10. CASE EndFile
  BY <1>10, <1>0, Sizes DEF EndFile, MainOK, mainVars, SetUp, Body, After, SendFails, Fails
<1>11. CASE AwaitAck
  BY <1>11, <1>0, Sizes DEF AwaitAck, MainOK, mainVars, SetUp, Body, After, Fails
<1>12. CASE Flush
  BY <1>12, <1>0, Sizes DEF Flush, MainOK, mainVars, SetUp, Body, After, Fails
<1>13. CASE Close
  BY <1>13, <1>0, Sizes DEF Close, MainOK, mainVars, SetUp, Body, After, Goto
<1>14. CASE ClosePeer
  BY <1>14, <1>0, Sizes, SMTT(30) DEF ClosePeer, MainOK, mainVars, SetUp, Body, After, Goto
<1>15. CASE UNCHANGED <<pc, outcome, queue, index, chunk>>
  BY <1>0, <1>15 DEF MainOK, mainVars, SetUp, Body, After
<1>16. QED
  BY <1>1, <1>2, <1>3, <1>4, <1>5, <1>6, <1>7, <1>8, <1>9, <1>10, <1>11, <1>12, <1>13, <1>14,
     <1>15, MainKept DEF Main, mainVars

\* The fields under the mutex keep their types, the channels their capacity.
LEMMA SenderStep == IndInv /\ [Next]_vars => SenderOK'
<1> SUFFICES ASSUME IndInv, [Next]_vars
             PROVE  SenderOK'
  OBVIOUS
<1>0. s \in Sender /\ Len(s.accepted) <= 1 /\ Len(s.results) <= 1 /\ RemoteOK
  BY TypeParts DEF IndInv, SenderOK
<1>a. /\ s.state \in State /\ s.accepted \in Accepted /\ s.results \in Seq(Ack)
      /\ s.errors \in 0..1 /\ s.declined \in 0..1
  BY <1>0, SenderParts
<1>b. /\ <<>> \in Accepted /\ <<>> \in Seq(Ack) /\ Len(<<>>) = 0
      /\ Offer(s.errors) \in 0..1 /\ Offer(s.declined) \in 0..1 /\ 0 \in 0..1 /\ 1 \in 0..1
      /\ "done" \in State /\ "nonce" \in State /\ "token" \in State /\ "pin" \in State
      /\ "accept" \in State /\ "sending" \in State
  <2>1. <<>> \in Accepted /\ <<>> \in Seq(Ack) /\ Len(<<>>) = 0
    BY DEF Accepted
  <2>2. Offer(s.errors) \in 0..1 /\ Offer(s.declined) \in 0..1 /\ 0 \in 0..1 /\ 1 \in 0..1
    BY <1>a DEF Offer
  <2>3. QED
    BY <2>1, <2>2, Zenon DEF State
<1>c. /\ [s EXCEPT !.accepted = <<>>] \in Sender /\ [s EXCEPT !.results = <<>>] \in Sender
      /\ [s EXCEPT !.declined = 0] \in Sender /\ [s EXCEPT !.errors = 0] \in Sender
      /\ [s EXCEPT !.errors = 1] \in Sender /\ [s EXCEPT !.closed = TRUE] \in Sender
      /\ [s EXCEPT !.errors = Offer(s.errors)] \in Sender
      /\ [s EXCEPT !.declined = Offer(s.declined)] \in Sender
  <2>1. [s EXCEPT !.accepted = <<>>] \in Sender /\ [s EXCEPT !.results = <<>>] \in Sender
    BY <1>0, <1>a, <1>b, SenderField, Zenon
  <2>2. /\ [s EXCEPT !.declined = 0] \in Sender /\ [s EXCEPT !.errors = 0] \in Sender
        /\ [s EXCEPT !.errors = 1] \in Sender /\ [s EXCEPT !.closed = TRUE] \in Sender
    BY <1>0, <1>a, <1>b, SenderField, ZenonT(30)
  <2>3. /\ [s EXCEPT !.errors = Offer(s.errors)] \in Sender
        /\ [s EXCEPT !.declined = Offer(s.declined)] \in Sender
    BY <1>0, <1>a, <1>b, SenderField, ZenonT(30)
  <2>4. QED
    BY <2>1, <2>2, <2>3
<1>d. \A v \in State : [s EXCEPT !.state = v] \in Sender
  BY <1>0, <1>a, SenderField, Zenon
<1>1. CASE AwaitAcceptance
  <2>1. s' \in Sender
    BY <1>1, <1>0, <1>c DEF AwaitAcceptance
  <2>2. (s'.accepted = s.accepted \/ s'.accepted = <<>>) /\ s'.results = s.results
    BY <1>1, <1>0 DEF AwaitAcceptance, Sender
  <2>3. QED
    BY <1>0, <1>b, <2>1, <2>2 DEF SenderOK
<1>2. CASE AwaitAck
  <2>1. s' \in Sender
    BY <1>2, <1>0, <1>c DEF AwaitAck
  <2>2. (s'.results = s.results \/ s'.results = <<>>) /\ s'.accepted = s.accepted
    BY <1>2, <1>0 DEF AwaitAck, Sender
  <2>3. QED
    BY <1>0, <1>b, <2>1, <2>2 DEF SenderOK
<1>3. CASE Flush
  <2>1. s' \in Sender
    BY <1>3, <1>0, <1>b, <1>c, <1>d, FailLocked DEF Flush
  <2>2. s'.results = s.results /\ s'.accepted = s.accepted
    BY <1>3, <1>0, FailLocked DEF Flush, Sender
  <2>3. QED
    BY <1>0, <2>1, <2>2 DEF SenderOK
<1>4. CASE Close
  <2>1. s' \in Sender
    BY <1>4, <1>0, <1>b, <1>c, <1>d, FailLocked DEF Close
  <2>2. s'.results = s.results /\ s'.accepted = s.accepted
    BY <1>4, <1>0, FailLocked DEF Close, Sender
  <2>3. QED
    BY <1>0, <2>1, <2>2 DEF SenderOK
<1>5. CASE HandleClose
  <2>1. s' \in Sender
    BY <1>5, <1>0, <1>b, <1>c, <1>d, FailLocked DEF HandleClose
  <2>2. s'.results = s.results /\ s'.accepted = s.accepted
    BY <1>5, <1>0, FailLocked DEF HandleClose, Sender
  <2>3. QED
    BY <1>0, <2>1, <2>2 DEF SenderOK
<1>6. CASE startNonceExchange
  <2>1. s' \in Sender
    BY <1>6, <1>0, <1>b, <1>c, <1>d, FailLocked DEF startNonceExchange
  <2>2. s'.results = s.results /\ s'.accepted = s.accepted
    BY <1>6, <1>0, FailLocked DEF startNonceExchange, Sender
  <2>3. QED
    BY <1>0, <2>1, <2>2 DEF SenderOK
<1>7. CASE ErrorTaken
  <2>1. s' \in Sender
    BY <1>7, <1>0, <1>b, <1>c, <1>d, FailLocked DEF ErrorTaken
  <2>2. s'.results = s.results /\ s'.accepted = s.accepted
    BY <1>7, <1>0, FailLocked DEF ErrorTaken, Sender
  <2>3. QED
    BY <1>0, <2>1, <2>2 DEF SenderOK
<1>8. CASE handleNonceResponse
  <2>1. s' \in Sender
    BY <1>8, <1>0, <1>b, <1>c, <1>d, FailLocked DEF handleNonceResponse
  <2>2. s'.results = s.results /\ s'.accepted = s.accepted
    BY <1>8, <1>0, FailLocked DEF handleNonceResponse, Sender
  <2>3. QED
    BY <1>0, <2>1, <2>2 DEF SenderOK
<1>9. CASE handleTokenResponse
  <2>1. s' \in Sender
    <3>1. s' = failLocked(s) \/ \E next \in {"pin", "accept"} : s' = [s EXCEPT !.state = next]
      BY <1>9 DEF handleTokenResponse
    <3>2. QED
      BY <1>0, <1>b, <1>d, <3>1, FailLocked
  <2>2. s'.results = s.results /\ s'.accepted = s.accepted
    BY <1>9, <1>0, FailLocked DEF handleTokenResponse, Sender
  <2>3. QED
    BY <1>0, <2>1, <2>2 DEF SenderOK
<1>10. CASE handleFileAcceptance
  <2>1. CASE \E ids \in SUBSET (File \cup {Stranger}) :
                s' = [s EXCEPT !.state = "sending",
                               !.accepted = IF ~s.closed /\ s.accepted = <<>>
                                             THEN <<ids>> ELSE s.accepted]
    <3>1. PICK ids \in SUBSET (File \cup {Stranger}) :
                s' = [s EXCEPT !.state = "sending",
                               !.accepted = IF ~s.closed /\ s.accepted = <<>>
                                             THEN <<ids>> ELSE s.accepted]
      BY <2>1
    <3>2. <<ids>> \in Accepted /\ Len(<<ids>>) = 1
      BY DEF Accepted
    <3> DEFINE x == IF ~s.closed /\ s.accepted = <<>> THEN <<ids>> ELSE s.accepted
    <3>3. x \in Accepted /\ Len(x) <= 1
      BY <1>0, <1>a, <3>2
    <3>4. s' = [s EXCEPT !.state = "sending", !.accepted = x]
      BY <3>1, Zenon
    <3> HIDE DEF x
    <3>5. s' \in Sender
      BY <1>0, <1>a, <1>b, <3>3, <3>4, SenderField, Zenon
    <3>6. s'.accepted = x /\ s'.results = s.results
      BY <1>0, <3>4 DEF Sender
    <3>7. QED
      BY <1>0, <3>3, <3>5, <3>6 DEF SenderOK
  <2>2. CASE s' = (IF s.closed THEN s ELSE [s EXCEPT !.declined = Offer(s.declined)])
    <3>1. s' \in Sender
      BY <1>0, <1>c, <2>2
    <3>2. s'.accepted = s.accepted /\ s'.results = s.results
      BY <1>0, <2>2 DEF Sender
    <3>3. QED
      BY <1>0, <3>1, <3>2 DEF SenderOK
  <2>3. CASE s' = failLocked(s) \/ s' = s
    BY <1>0, <2>3, FailLocked DEF SenderOK
  <2>4. QED
    BY <1>10, <2>1, <2>2, <2>3 DEF handleFileAcceptance
<1>11. CASE handleFileResponse
  <2> DEFINE a == Head(remote.replies)
             y == IF s.results = <<>> THEN <<a>> ELSE s.results
             e == IF a.ok THEN s.errors ELSE Offer(s.errors)
  <2>1. a \in Ack
    BY <1>11, <1>0, TailFacts DEF handleFileResponse, RemoteOK, RemoteState
  <2>2. y \in Seq(Ack) /\ Len(y) <= 1 /\ e \in 0..1
    <3>1. <<a>> \in Seq(Ack) /\ Len(<<a>>) = 1
      BY <2>1
    <3>2. QED
      BY <1>0, <1>a, <1>b, <3>1
  <2>3. s' = s \/ s' = [s EXCEPT !.results = y, !.errors = e]
    BY <1>11 DEF handleFileResponse
  <2> HIDE DEF a, y, e
  <2>4. s' \in Sender
    <3>1. [s EXCEPT !.results = y, !.errors = e] \in Sender
      BY <1>0, <1>a, <2>2, SenderField, Zenon
    <3>2. QED
      BY <1>0, <2>3, <3>1, Zenon
  <2>5. s'.accepted = s.accepted /\ (s'.results = s.results \/ s'.results = y)
    BY <1>0, <2>3 DEF Sender
  <2>6. QED
    BY <1>0, <2>2, <2>4, <2>5 DEF SenderOK
<1>12. CASE UNCHANGED <<s>>
  BY <1>0, <1>12 DEF SenderOK
<1>13. QED
  BY <1>1, <1>2, <1>3, <1>4, <1>5, <1>6, <1>7, <1>8, <1>9, <1>10, <1>11, <1>12
     DEF Next, Main, Callback, Message, Start, AwaitAnswer, BeginFile, SendChunk, BufferFull,
        Arm, Recheck, AwaitLow, EndFile, ClosePeer, PairAnswered, ChannelOpens,
        ConnectionLost, RemoteReads, RemoteStrays, vars, mainVars, peerVars, flowVars,
        callbackUnchanged, Goto, Fails, SendFails

\* The connection and its callbacks stay in their states.
LEMMA EventStep == IndInv /\ [Next]_vars => EventOK'
<1> SUFFICES ASSUME IndInv, [Next]_vars
             PROVE  EventOK'
  OBVIOUS
<1>0. EventOK
  BY TypeParts DEF IndInv
<1>1. CASE Start
  BY <1>1, <1>0 DEF Start, vars, mainVars, peerVars, flowVars, callbackUnchanged, EventOK
<1>2. CASE AwaitAnswer
  BY <1>2, <1>0 DEF AwaitAnswer, vars, mainVars, peerVars, flowVars, callbackUnchanged, EventOK
<1>3. CASE Arm
  BY <1>3, <1>0 DEF Arm, vars, mainVars, peerVars, flowVars, callbackUnchanged, EventOK
<1>4. CASE ClosePeer
  BY <1>4, <1>0 DEF ClosePeer, vars, mainVars, peerVars, flowVars, callbackUnchanged, EventOK
<1>5. CASE HandleClose
  BY <1>5, <1>0 DEF HandleClose, vars, mainVars, peerVars, flowVars, callbackUnchanged, EventOK
<1>6. CASE startNonceExchange
  BY <1>6, <1>0 DEF startNonceExchange, vars, mainVars, peerVars, flowVars,
     callbackUnchanged, EventOK
<1>7. CASE ErrorTaken
  BY <1>7, <1>0 DEF ErrorTaken, vars, mainVars, peerVars, flowVars, callbackUnchanged, EventOK
<1>8. CASE ChannelOpens
  BY <1>8, <1>0 DEF ChannelOpens, vars, mainVars, peerVars, flowVars, callbackUnchanged, EventOK
<1>9. CASE ConnectionLost
  BY <1>9, <1>0 DEF ConnectionLost, vars, mainVars, peerVars, flowVars, callbackUnchanged,
     EventOK
<1>10. CASE UNCHANGED <<opening, link, closing, threshold>>
  BY <1>0, <1>10 DEF EventOK
<1>11. QED
  BY <1>1, <1>2, <1>3, <1>4, <1>5, <1>6, <1>7, <1>8, <1>9, <1>10
     DEF Next, Main, Callback, Message, AwaitAcceptance, BeginFile, SendChunk, BufferFull,
        Recheck, AwaitLow, EndFile, AwaitAck, Flush, Close, PairAnswered,
        handleNonceResponse, handleTokenResponse, handleFileAcceptance,
        handleFileResponse, RemoteReads, RemoteStrays, vars, mainVars, peerVars,
        flowVars, callbackUnchanged, Goto, Fails, SendFails

\* The flags stay flags.
LEMMA FlagStep == IndInv /\ [Next]_vars => FlagOK'
<1> SUFFICES ASSUME IndInv, [Next]_vars
             PROVE  FlagOK'
  OBVIOUS
<1>0. FlagOK
  BY TypeParts DEF IndInv
<1>1. CASE BeginFile
  BY <1>1, <1>0 DEF BeginFile, SendFails, Fails, FlagOK
<1>2. CASE AwaitLow
  BY <1>2, <1>0 DEF AwaitLow, Goto, Fails, FlagOK
<1>3. CASE EndFile
  <2>1. announced' = announced \/ announced' = (index < Len(queue))
    BY <1>3 DEF EndFile, SendFails, Fails
  <2>2. (index < Len(queue)) \in BOOLEAN
    OBVIOUS
  <2>3. UNCHANGED <<pairing, low>>
    BY <1>3 DEF EndFile
  <2>4. QED
    BY <1>0, <2>1, <2>2, <2>3 DEF FlagOK
<1>4. CASE PairAnswered
  BY <1>4, <1>0 DEF PairAnswered, vars, mainVars, peerVars, flowVars, callbackUnchanged,
     FlagOK
<1>5. CASE handleFileAcceptance
  BY <1>5, <1>0 DEF handleFileAcceptance, vars, mainVars, peerVars, flowVars,
     callbackUnchanged, FlagOK
<1>6. CASE handleFileResponse
  BY <1>6, <1>0 DEF handleFileResponse, FlagOK, mainVars, flowVars
<1>7. CASE RemoteReads
  <2>1. low' \in BOOLEAN /\ UNCHANGED <<pairing, announced>>
    BY <1>7 DEF RemoteReads, mainVars
  <2>2. QED
    BY <1>0, <2>1 DEF FlagOK
<1>8. CASE UNCHANGED <<pairing, low, announced>>
  BY <1>0, <1>8 DEF FlagOK
<1>9. QED
  BY <1>1, <1>2, <1>3, <1>4, <1>5, <1>6, <1>7, <1>8
     DEF Next, Main, Callback, Message, Start, AwaitAnswer, AwaitAcceptance, SendChunk,
        BufferFull, Arm, Recheck, AwaitAck, Flush, Close, ClosePeer, HandleClose,
        startNonceExchange, ErrorTaken, handleNonceResponse, handleTokenResponse,
        ChannelOpens, ConnectionLost, RemoteStrays, vars, mainVars, peerVars, flowVars,
        callbackUnchanged, StartSending, Goto, Fails, SendFails

\* What the sender puts on the wire are frames.
LEMMA WireStep == IndInv /\ [Next]_vars => WireOK'
<1> SUFFICES ASSUME IndInv, [Next]_vars
             PROVE  WireOK'
  OBVIOUS
<1>0. /\ TypeOK /\ wire \in Seq(Frame) /\ queue \in Seq(File) /\ index \in 1..(Cardinality(File) + 1)
      /\ pc \in Body \cup {"file", "ack"} => index <= Len(queue)
  BY DEF IndInv, TypeOK, QueueInv
<1>a. [kind |-> "end"] \in Frame
  BY DEF Frame
<1>b. ASSUME NEW f \in File PROVE /\ [kind |-> "header", file |-> f] \in Frame
                                  /\ [kind |-> "data", file |-> f] \in Frame
  BY DEF Frame
<1>1. CASE AwaitAcceptance
  <2>1. wire' = wire \/ wire' = Append(wire, [kind |-> "end"])
    BY <1>0, <1>1, Acceptance
  <2>2. Append(wire, [kind |-> "end"]) \in Seq(Frame)
    BY <1>0, <1>a, AppendFacts
  <2>3. QED
    BY <1>0, <2>1, <2>2 DEF WireOK
<1>2. CASE BeginFile
  <2>1. queue[index] \in File
    BY <1>2, <1>0 DEF BeginFile
  <2>2. QED
    <3> DEFINE f == [kind |-> "header", file |-> queue[index]]
    <3>1. f \in Frame
      BY <1>b, <2>1
    <3>2. wire' = wire \/ wire' = Append(wire, f)
      BY <1>2 DEF BeginFile, SendFails
    <3> HIDE DEF f
    <3>3. QED
      BY <1>0, <3>1, <3>2, AppendFacts DEF WireOK
<1>3. CASE SendChunk
  <2>1. queue[index] \in File
    BY <1>3, <1>0 DEF SendChunk, Body
  <2>2. QED
    <3> DEFINE f == [kind |-> "data", file |-> queue[index]]
    <3>1. f \in Frame
      BY <1>b, <2>1
    <3>2. wire' = wire \/ wire' = Append(wire, f)
      BY <1>3 DEF SendChunk, SendFails
    <3> HIDE DEF f
    <3>3. QED
      BY <1>0, <3>1, <3>2, AppendFacts DEF WireOK
<1>4. CASE EndFile
  <2>1. index < Len(queue) => queue[index + 1] \in File
    BY <1>4, <1>0 DEF EndFile
  <2> DEFINE f == IF index < Len(queue) THEN [kind |-> "header", file |-> queue[index + 1]]
                  ELSE [kind |-> "end"]
  <2>2. f \in Frame
    BY <1>a, <1>b, <2>1
  <2>3. wire' = wire \/ wire' = Append(wire, f)
    BY <1>4 DEF EndFile, SendFails
  <2> HIDE DEF f
  <2>4. QED
    BY <1>0, <2>2, <2>3, AppendFacts DEF WireOK
<1>5. CASE ClosePeer
  <2>1. wire' = wire \/ wire' = <<>>
    BY <1>5 DEF ClosePeer
  <2>2. <<>> \in Seq(Frame)
    OBVIOUS
  <2>3. QED
    BY <1>0, <2>1, <2>2 DEF WireOK
<1>6. CASE RemoteReads
  BY <1>6, <1>0, TailFacts DEF RemoteReads, WireOK
<1>7. CASE UNCHANGED <<wire>>
  BY <1>0, <1>7 DEF WireOK
<1>8. QED
  BY <1>1, <1>2, <1>3, <1>4, <1>5, <1>6, <1>7
     DEF Next, Main, Callback, Message, Start, AwaitAnswer, BufferFull, Arm, Recheck,
        AwaitLow, AwaitAck, Flush, Close, HandleClose, startNonceExchange, ErrorTaken,
        PairAnswered, handleNonceResponse, handleTokenResponse, handleFileAcceptance,
        handleFileResponse, ChannelOpens, ConnectionLost, RemoteStrays, vars, mainVars,
        peerVars, flowVars, callbackUnchanged, Goto, Fails, SendFails

\* The end of a file, as the remote side sees it.
LEMMA FinishedFacts ==
    ASSUME NEW rem \in RemoteState, NEW ok \in BOOLEAN
    PROVE  /\ Finished(rem, ok) \in RemoteState
           /\ rem.cur = {} => Finished(rem, ok) = rem
           /\ \A f \in File : rem.cur = {f} =>
                 /\ Finished(rem, ok).cur = {} /\ Finished(rem, ok).got = 0
                 /\ Finished(rem, ok).stray = rem.stray /\ rem.saved \subseteq Finished(rem, ok).saved
                 /\ rem.got = Chunks => Finished(rem, ok).garbled = rem.garbled
                 /\ \E a \in Ack : /\ a.id = f /\ (a.ok => f \in Finished(rem, ok).saved)
                                   /\ Finished(rem, ok).replies = Append(rem.replies, a)
<1>1. CASE rem.cur = {}
  BY <1>1 DEF Finished
<1>2. CASE rem.cur # {}
  <2> DEFINE f == CHOOSE x \in rem.cur : TRUE
             whole == rem.got = Chunks /\ ok
             a == [id |-> f, ok |-> whole]
             saved == IF whole THEN rem.saved \cup {f} ELSE rem.saved
             garbled == rem.garbled \/ rem.got # Chunks
             replies == Append(rem.replies, a)
  <2>1. f \in File /\ f \in rem.cur
    BY <1>2 DEF RemoteState
  <2>2. whole \in BOOLEAN /\ garbled \in BOOLEAN
    OBVIOUS
  <2>3. a \in Ack
    BY <2>1, <2>2 DEF Ack
  <2>4. Finished(rem, ok) = [rem EXCEPT !.cur = {}, !.got = 0, !.saved = saved,
                                        !.garbled = garbled, !.replies = replies]
    BY <1>2 DEF Finished
  <2>5. a.id = f /\ (a.ok => f \in saved) /\ saved \in SUBSET File /\ rem.saved \subseteq saved
    <3>1. rem.saved \subseteq File
      BY DEF RemoteState
    <3>2. a.id = f /\ a.ok = whole
      OBVIOUS
    <3> HIDE DEF f, a, whole
    <3>3. QED
      BY <2>1, <3>1, <3>2
  <2>6. rem.got = Chunks => garbled = rem.garbled
    BY DEF RemoteState
  <2>7. replies \in Seq(Ack) /\ replies = Append(rem.replies, a)
    BY <2>3 DEF RemoteState
  <2>8. \A x \in File : rem.cur = {x} => f = x
    BY <2>1
  <2> HIDE DEF f, a, whole, saved, garbled, replies
  <2>9. /\ Finished(rem, ok).cur = {} /\ Finished(rem, ok).got = 0
        /\ Finished(rem, ok).stray = rem.stray /\ Finished(rem, ok).saved = saved
        /\ Finished(rem, ok).garbled = garbled /\ Finished(rem, ok).replies = replies
    BY <2>4 DEF RemoteState
  <2>b. Finished(rem, ok) \in RemoteState
    <3> DEFINE R == Seq(Ack)
    <3>1. /\ RemoteState = [cur : SUBSET File, got : 0..Chunks, saved : SUBSET File,
                            stray : SUBSET File, replies : R, garbled : BOOLEAN]
          /\ replies \in R /\ 0 \in 0..Chunks
      BY <2>7, Sizes DEF RemoteState
    <3> HIDE DEF R
    <3>2. QED
      BY <2>2, <2>4, <2>5, <3>1
  <2>10. QED
    BY <1>2, <2>3, <2>5, <2>6, <2>7, <2>8, <2>9, <2>b
<1>3. QED
  BY <1>1, <1>2

\* The remote side reads frame, at the head of the wire.
Reads(frame, ok) ==
    \/ /\ frame.kind = "header"
       /\ remote' = [Finished(remote, ok) EXCEPT !.cur = {frame.file}]
    \/ /\ frame.kind = "data"
       /\ remote' = [remote EXCEPT !.got = IF @ < Chunks THEN @ + 1 ELSE @,
                                   !.garbled = @ \/ remote.cur # {frame.file} \/ remote.got = Chunks]
    \/ /\ frame.kind = "end"
       /\ remote' = Finished(remote, ok)

\* RemoteReads reads the head of the wire.
LEMMA ReadsFrame == RemoteReads => \E ok \in BOOLEAN : Reads(Head(wire), ok)
  BY Zenon DEF RemoteReads, Reads

\* A remote side that reads a frame is still one.
LEMMA ReadsType ==
    ASSUME remote \in RemoteState, NEW frame, frame.kind # "end" => frame.file \in File,
           NEW ok \in BOOLEAN, Reads(frame, ok), Finished(remote, ok) \in RemoteState
    PROVE  remote' \in RemoteState
<1> DEFINE R == Seq(Ack)
           n == IF remote.got < Chunks THEN remote.got + 1 ELSE remote.got
           b == remote.garbled \/ remote.cur # {frame.file} \/ remote.got = Chunks
<1>1. RemoteState = [cur : SUBSET File, got : 0..Chunks, saved : SUBSET File,
                     stray : SUBSET File, replies : R, garbled : BOOLEAN]
  BY DEF RemoteState
<1>2. b \in BOOLEAN
  OBVIOUS
<1>3. n \in 0..Chunks
  BY <1>1, Sizes
<1>4. \/ /\ frame.kind = "header" /\ remote' = [Finished(remote, ok) EXCEPT !.cur = {frame.file}]
      \/ frame.kind = "data" /\ remote' = [remote EXCEPT !.got = n, !.garbled = b]
      \/ frame.kind = "end" /\ remote' = Finished(remote, ok)
  BY DEF Reads
<1> HIDE DEF R, n, b
<1>5. CASE frame.kind = "header" /\ remote' = [Finished(remote, ok) EXCEPT !.cur = {frame.file}]
  BY <1>1, <1>5
<1>6. CASE frame.kind = "data" /\ remote' = [remote EXCEPT !.got = n, !.garbled = b]
  BY <1>1, <1>2, <1>3, <1>6
<1>7. QED
  BY <1>4, <1>5, <1>6

\* The remote side stays a remote side.
LEMMA RemoteStep == IndInv /\ [Next]_vars => RemoteOK'
<1> SUFFICES ASSUME IndInv, [Next]_vars
             PROVE  RemoteOK'
  OBVIOUS
<1>0. remote \in RemoteState /\ wire \in Seq(Frame)
  BY TypeParts DEF IndInv, RemoteOK, WireOK
<1>1. CASE handleFileResponse
  <2>1. Tail(remote.replies) \in Seq(Ack)
    BY <1>1, <1>0, TailFacts DEF handleFileResponse, RemoteState
  <2>2. QED
    BY <1>1, <1>0, <2>1 DEF handleFileResponse, RemoteOK, RemoteState
<1>2. CASE RemoteReads
  <2>1. Head(wire) \in Frame
    BY <1>2, <1>0, TailFacts DEF RemoteReads
  <2>2. PICK ok \in BOOLEAN : Reads(Head(wire), ok)
    BY <1>2, ReadsFrame
  <2>3. Head(wire).kind # "end" => Head(wire).file \in File
    BY <2>1 DEF Frame
  <2>4. Finished(remote, ok) \in RemoteState
    BY <1>0, FinishedFacts
  <2>5. QED
    BY <1>0, <2>2, <2>3, <2>4, ReadsType DEF RemoteOK
<1>3. ASSUME NEW f \in File, NEW ok \in BOOLEAN, RemoteStrays(f, ok)
      PROVE  RemoteOK'
  <2>1. [id |-> f, ok |-> ok] \in Ack
    BY DEF Ack
  <2>2. Append(remote.replies, [id |-> f, ok |-> ok]) \in Seq(Ack)
    BY <1>0, <2>1 DEF RemoteState
  <2>3. QED
    BY <1>3, <1>0, <2>2 DEF RemoteStrays, RemoteOK, RemoteState
<1>4. CASE UNCHANGED <<remote>>
  BY <1>0, <1>4 DEF RemoteOK
<1>5. QED
  BY <1>1, <1>2, <1>3, <1>4
     DEF Next, Main, Callback, Message, Start, AwaitAnswer, AwaitAcceptance, BeginFile,
        SendChunk, BufferFull, Arm, Recheck, AwaitLow, EndFile, AwaitAck, Flush, Close,
        ClosePeer, HandleClose, startNonceExchange, ErrorTaken, PairAnswered,
        handleNonceResponse, handleTokenResponse, handleFileAcceptance, ChannelOpens,
        ConnectionLost, vars, mainVars, peerVars, flowVars, callbackUnchanged, Goto,
        Fails, SendFails

-----------------------------------------------------------------------------
(* What each step keeps of the invariant *)

\* The main goroutine keeps within its queue.
LEMMA QueueStep == IndInv /\ [Next]_vars => QueueInv'
<1> SUFFICES ASSUME IndInv, [Next]_vars
             PROVE  QueueInv'
  OBVIOUS
<1>0. /\ QueueInv /\ TypeOK /\ index \in Nat /\ queue \in Seq(File) /\ Len(queue) \in Nat
      /\ Cardinality(File) \in Nat
  BY Sizes DEF IndInv, TypeOK
<1>1. CASE Start
  BY <1>1, <1>0 DEF Start, QueueInv, mainVars, SetUp, Body, After, Goto, Fails
<1>2. CASE AwaitAnswer
  BY <1>2, <1>0 DEF AwaitAnswer, QueueInv, mainVars, SetUp, Body, After, Goto, Fails
<1>3. CASE AwaitAcceptance
  <2>1. pc = "accept" /\ index = 1 /\ outcome # "ok" /\ queue = <<>> /\ UNCHANGED index
    BY <1>3, <1>0, Acceptance DEF QueueInv, SetUp, After
  <2>2. Len(<<>>) = 0 /\ DOMAIN <<>> = {}
    OBVIOUS
  <2>3. CASE queue' # <<>>
    <3>1. /\ queue' \in Seq(File) /\ Len(queue') <= Cardinality(File) /\ pc' = "file"
          /\ \A i, j \in DOMAIN queue' : queue'[i] = queue'[j] => i = j
          /\ UNCHANGED outcome
      BY <1>3, <1>0, <2>1, <2>3, Acceptance
    <3>2. Len(queue') \in Nat /\ Len(queue') >= 1
      BY <2>3, <3>1
    <3>3. QED
      BY <2>1, <3>1, <3>2 DEF QueueInv, SetUp, Body
  <2>4. CASE queue' = <<>>
    <3>1. \/ pc' = "flush" /\ outcome' = outcome
          \/ pc' \in {"release", "hangup"} /\ outcome' = "error"
      BY <1>3, <1>0, <2>4, Acceptance
    <3>2. QED
      BY <1>0, <2>1, <2>2, <2>4, <3>1 DEF QueueInv, SetUp, Body
  <2>5. QED
    BY <2>3, <2>4
<1>4. CASE BeginFile
  BY <1>4, <1>0 DEF BeginFile, QueueInv, mainVars, SetUp, Body, After, SendFails, Fails,
     HeaderNeeded
<1>5. CASE SendChunk
  BY <1>5, <1>0 DEF SendChunk, QueueInv, mainVars, SetUp, Body, After, SendFails, Fails
<1>6. CASE BufferFull
  BY <1>6, <1>0 DEF BufferFull, QueueInv, mainVars, SetUp, Body, After, Goto
<1>7. CASE Arm
  BY <1>7, <1>0 DEF Arm, QueueInv, mainVars, SetUp, Body, After, Goto
<1>8. CASE Recheck
  BY <1>8, <1>0 DEF Recheck, QueueInv, mainVars, SetUp, Body, After, Goto, AfterRecheck
<1>9. CASE AwaitLow
  BY <1>9, <1>0 DEF AwaitLow, QueueInv, mainVars, SetUp, Body, After, Goto, Fails
<1>10. CASE EndFile
  BY <1>10, <1>0 DEF EndFile, QueueInv, mainVars, SetUp, Body, After, SendFails, Fails
<1>11. CASE AwaitAck
  BY <1>11, <1>0 DEF AwaitAck, QueueInv, mainVars, SetUp, Body, After, Fails
<1>12. CASE Flush
  BY <1>12, <1>0 DEF Flush, QueueInv, mainVars, SetUp, Body, After, Fails
<1>13. CASE Close
  BY <1>13, <1>0 DEF Close, QueueInv, mainVars, SetUp, Body, After, Goto
<1>14. CASE ClosePeer
  BY <1>14, <1>0, SMTT(30) DEF ClosePeer, QueueInv, mainVars, SetUp, Body, After, Goto
<1>15. CASE UNCHANGED <<pc, outcome, queue, index>>
  BY <1>0, <1>15 DEF QueueInv, mainVars, SetUp, Body, After
<1>16. QED
  BY <1>1, <1>2, <1>3, <1>4, <1>5, <1>6, <1>7, <1>8, <1>9, <1>10, <1>11, <1>12, <1>13, <1>14,
     <1>15, MainKept DEF Main, mainVars

\* A header is ahead of its file only between two files.
LEMMA HeaderStep == IndInv /\ [Next]_vars => HeaderInv'
<1> SUFFICES ASSUME IndInv, [Next]_vars
             PROVE  HeaderInv'
  OBVIOUS
<1>0. /\ HeaderInv /\ index \in Nat /\ queue \in Seq(File) /\ Len(queue) \in Nat /\ chunk \in Nat
      /\ announced \in BOOLEAN /\ index >= 1
  BY Sizes DEF IndInv, TypeOK
<1>1. CASE Start
  BY <1>1, <1>0 DEF Start, HeaderInv, mainVars, SetUp, Body, Goto, Fails
<1>2. CASE AwaitAnswer
  BY <1>2, <1>0 DEF AwaitAnswer, HeaderInv, mainVars, SetUp, Body, Goto, Fails
<1>3. CASE AwaitAcceptance
  <2>1. /\ pc = "accept" /\ index = 1 /\ UNCHANGED <<index, announced>>
        /\ pc' \in {"file", "flush", "release", "hangup"}
    BY <1>3, Acceptance DEF IndInv, QueueInv, SetUp
  <2>2. QED
    BY <1>0, <2>1 DEF HeaderInv, SetUp, Body
<1>4. CASE BeginFile
  <2>1. \/ pc' = "release"
        \/ pc' = "data" /\ announced' = FALSE
    BY <1>4 DEF BeginFile, SendFails, Fails
  <2>2. QED
    BY <2>1 DEF HeaderInv, SetUp, Body
<1>5. CASE SendChunk
  <2>1. pc \in Body /\ (pc' = "release" \/ (pc' = "data" /\ UNCHANGED announced))
    BY <1>5 DEF SendChunk, SendFails, Fails, Body
  <2>2. QED
    BY <1>0, <2>1 DEF HeaderInv, SetUp, Body
<1>6. CASE BufferFull
  BY <1>6, <1>0 DEF BufferFull, HeaderInv, mainVars, SetUp, Body, Goto
<1>7. CASE Arm
  BY <1>7, <1>0 DEF Arm, HeaderInv, mainVars, SetUp, Body, Goto
<1>8. CASE Recheck
  BY <1>8, <1>0 DEF Recheck, HeaderInv, mainVars, SetUp, Body, Goto, AfterRecheck
<1>9. CASE AwaitLow
  BY <1>9, <1>0 DEF AwaitLow, HeaderInv, mainVars, SetUp, Body, Goto, Fails
<1>10. CASE EndFile
  <2>1. \/ pc' = "release"
        \/ pc' = "ack" /\ announced' = (index < Len(queue)) /\ UNCHANGED <<index, queue>>
    BY <1>10 DEF EndFile, SendFails, Fails
  <2>2. QED
    BY <2>1 DEF HeaderInv, SetUp, Body
<1>11. CASE AwaitAck
  BY <1>11, <1>0 DEF AwaitAck, HeaderInv, mainVars, SetUp, Body, Fails
<1>12. CASE Flush
  BY <1>12, <1>0 DEF Flush, HeaderInv, mainVars, SetUp, Body, Fails
<1>13. CASE Close
  BY <1>13, <1>0 DEF Close, HeaderInv, mainVars, SetUp, Body, Goto
<1>14. CASE ClosePeer
  BY <1>14, <1>0 DEF ClosePeer, HeaderInv, mainVars, SetUp, Body, Goto
<1>15. CASE UNCHANGED <<pc, queue, index, chunk, announced>>
  BY <1>0, <1>15 DEF HeaderInv, mainVars, SetUp, Body
<1>16. QED
  BY <1>1, <1>2, <1>3, <1>4, <1>5, <1>6, <1>7, <1>8, <1>9, <1>10, <1>11, <1>12, <1>13, <1>14,
     <1>15, MainKept DEF Main, mainVars

\* A step that is not the remote side's leaves it where it is, and at most
\* takes acknowledgements away.
Calm ==
    /\ Acks' \subseteq Acks
    /\ remote'.cur = remote.cur /\ remote'.got = remote.got /\ remote'.saved = remote.saved
    /\ remote'.stray = remote.stray /\ remote'.garbled = remote.garbled

\* Only the remote side's own steps are not calm.
LEMMA CalmSteps ==
    ASSUME IndInv, [Next]_vars
    PROVE  Calm \/ RemoteReads \/ \E f \in File, ok \in BOOLEAN : RemoteStrays(f, ok)
<1>0. s \in Sender /\ remote \in RemoteState /\ s.results \in Seq(Ack) /\ TypeOK
  BY TypeParts, SenderParts DEF IndInv, SenderOK, RemoteOK
<1>1. CASE UNCHANGED remote /\ s'.results = s.results
  BY <1>1 DEF Calm, Acks
<1>2. CASE AwaitAcceptance
  BY <1>0, <1>1, <1>2, Acceptance
<1>3. CASE AwaitAck
  <2>1. UNCHANGED remote /\ s'.results \in {s.results, <<>>}
    BY <1>0, <1>3 DEF AwaitAck, Sender
  <2>2. ToSet(<<>>) = {}
    BY DEF ToSet
  <2>3. QED
    BY <2>1, <2>2 DEF Calm, Acks
<1>4. CASE handleFileResponse
  <2> DEFINE a == Head(remote.replies)
  <2>1. remote.replies \in Seq(Ack) /\ remote.replies # <<>>
    BY <1>0, <1>4 DEF handleFileResponse, RemoteState
  <2>2. a \in ToSet(remote.replies) /\ ToSet(Tail(remote.replies)) \subseteq ToSet(remote.replies)
    BY <2>1, TailFacts
  <2>3. ToSet(<<a>>) = {a}
    BY DEF ToSet
  <2>4. remote' = [remote EXCEPT !.replies = Tail(remote.replies)]
    BY <1>4 DEF handleFileResponse
  <2>5. s'.results \in {s.results, <<a>>}
    BY <1>0, <1>4 DEF handleFileResponse, Sender
  <2> HIDE DEF a
  <2>6. /\ remote'.replies = Tail(remote.replies)
        /\ remote'.cur = remote.cur /\ remote'.got = remote.got /\ remote'.saved = remote.saved
        /\ remote'.stray = remote.stray /\ remote'.garbled = remote.garbled
    BY <1>0, <2>4 DEF RemoteState
  <2>7. QED
    BY <2>2, <2>3, <2>5, <2>6 DEF Calm, Acks
<1>5. CASE Flush
  BY <1>0, <1>1, <1>5, FailLocked DEF Flush, Sender
<1>6. CASE Close
  BY <1>0, <1>1, <1>6, FailLocked DEF Close, Sender
<1>7. CASE HandleClose
  BY <1>0, <1>1, <1>7, FailLocked DEF HandleClose, Sender
<1>8. CASE startNonceExchange
  BY <1>0, <1>1, <1>8, FailLocked DEF startNonceExchange, Sender, callbackUnchanged
<1>9. CASE ErrorTaken
  BY <1>0, <1>1, <1>9, FailLocked DEF ErrorTaken, Sender, callbackUnchanged
<1>10. CASE handleNonceResponse
  BY <1>0, <1>1, <1>10, FailLocked DEF handleNonceResponse, Sender, callbackUnchanged
<1>11. CASE handleTokenResponse
  BY <1>0, <1>1, <1>11, FailLocked DEF handleTokenResponse, Sender, callbackUnchanged
<1>12. CASE handleFileAcceptance
  <2>1. UNCHANGED remote
    BY <1>12 DEF handleFileAcceptance, callbackUnchanged
  <2>2. s'.results = s.results
    BY <1>0, <1>12, FailLocked DEF handleFileAcceptance, Sender
  <2>3. QED
    BY <1>1, <2>1, <2>2
<1>13. CASE UNCHANGED <<s, remote>>
  BY <1>1, <1>13
<1>14. ASSUME \/ Start \/ AwaitAnswer \/ BeginFile \/ SendChunk \/ BufferFull \/ Arm \/ Recheck
              \/ AwaitLow \/ EndFile \/ ClosePeer
       PROVE  UNCHANGED <<s, remote>>
  <2>1. CASE Start \/ AwaitAnswer
    BY <2>1 DEF Start, AwaitAnswer
  <2>2. CASE BeginFile \/ SendChunk \/ EndFile
    BY <2>2 DEF BeginFile, SendChunk, EndFile
  <2>3. CASE BufferFull \/ Arm \/ Recheck \/ AwaitLow
    BY <2>3 DEF BufferFull, Arm, Recheck, AwaitLow
  <2>4. CASE ClosePeer
    BY <2>4 DEF ClosePeer
  <2>5. QED
    BY <1>14, <2>1, <2>2, <2>3, <2>4
<1>15. ASSUME PairAnswered \/ ChannelOpens \/ ConnectionLost \/ UNCHANGED vars
       PROVE  UNCHANGED <<s, remote>>
  BY <1>15 DEF PairAnswered, ChannelOpens, ConnectionLost, vars, callbackUnchanged
<1>16. CASE Main
  BY <1>2, <1>3, <1>5, <1>6, <1>13, <1>14, <1>16 DEF Main
<1>17. CASE Callback
  BY <1>7, <1>8, <1>9, <1>13, <1>15, <1>17 DEF Callback
<1>18. CASE Message
  BY <1>4, <1>10, <1>11, <1>12, <1>18, SMTT(30) DEF Message
<1>19. QED
  BY <1>13, <1>15, <1>16, <1>17, <1>18 DEF Next

\* Only two steps move the queue or the place in it.
LEMMA QueueKept ==
    ASSUME [Next]_vars
    PROVE  AwaitAcceptance \/ (AwaitAck /\ index' # index) \/ UNCHANGED <<queue, index>>
<1>1. CASE UNCHANGED mainVars
  BY <1>1 DEF mainVars
<1>2. CASE Start \/ AwaitAnswer \/ BeginFile \/ SendChunk \/ EndFile
  BY <1>2 DEF Start, AwaitAnswer, BeginFile, SendChunk, EndFile, mainVars, Goto, Fails, SendFails
<1>3. CASE BufferFull \/ Arm \/ Recheck \/ AwaitLow
  BY <1>3 DEF BufferFull, Arm, Recheck, AwaitLow, mainVars, Goto, Fails, SendFails
<1>4. CASE AwaitAck \/ Flush \/ Close \/ ClosePeer
  BY <1>4 DEF AwaitAck, Flush, Close, ClosePeer, mainVars, Goto, Fails, SendFails
<1>5. QED
  BY <1>1, <1>2, <1>3, <1>4, MainKept DEF Main

\* Remote side r differs from rem at most by an acknowledgement of file j.
Replied(rem, r, q, j) ==
    \/ r.replies = rem.replies
    \/ \E a \in Ack : /\ r.replies = Append(rem.replies, a)
                      /\ j \in DOMAIN q /\ a.id = q[j]
                      /\ a.ok => a.id \in r.saved

\* The remote side at the end of file j: it acknowledges that file.
LEMMA Finishing ==
    ASSUME NEW rem \in RemoteState, NEW ok \in BOOLEAN, NEW q \in Seq(File), NEW j \in 0..Len(q), NEW g,
           RemoteAt(q, rem.cur, rem.got, j, g), j = 0 \/ g = Chunks
    PROVE  /\ Finished(rem, ok) \in RemoteState
           /\ Finished(rem, ok).cur = {} /\ Finished(rem, ok).got = 0
           /\ Finished(rem, ok).garbled = rem.garbled /\ Finished(rem, ok).stray = rem.stray
           /\ rem.saved \subseteq Finished(rem, ok).saved
           /\ Replied(rem, Finished(rem, ok), q, j)
<1>1. Finished(rem, ok) \in RemoteState
  BY FinishedFacts
<1>2. CASE j = 0
  <2>1. j \notin DOMAIN q
    BY <1>2
  <2>2. rem.cur = {} /\ rem.got = 0
    BY <2>1 DEF RemoteAt
  <2>3. Finished(rem, ok) = rem
    BY <2>2, FinishedFacts
  <2>4. QED
    BY <1>1, <2>2, <2>3 DEF Replied
<1>3. CASE j # 0
  <2>1. j \in DOMAIN q /\ q[j] \in File
    BY <1>3
  <2>2. rem.cur = {q[j]} /\ rem.got = Chunks
    BY <1>3, <2>1 DEF RemoteAt
  <2>3. /\ Finished(rem, ok).cur = {} /\ Finished(rem, ok).got = 0
        /\ Finished(rem, ok).stray = rem.stray /\ rem.saved \subseteq Finished(rem, ok).saved
        /\ rem.got = Chunks => Finished(rem, ok).garbled = rem.garbled
        /\ \E a \in Ack : /\ a.id = q[j] /\ (a.ok => q[j] \in Finished(rem, ok).saved)
                          /\ Finished(rem, ok).replies = Append(rem.replies, a)
    BY <2>1, <2>2, FinishedFacts
  <2>4. Replied(rem, Finished(rem, ok), q, j)
    BY <2>1, <2>3 DEF Replied
  <2>5. QED
    BY <1>1, <2>2, <2>3, <2>4
<1>4. QED
  BY <1>2, <1>3

\* The remote side at position (j, g) reads the frame that leads to (h, k).
LEMMA Reading ==
    ASSUME remote \in RemoteState, NEW q \in Seq(File), NEW frame, NEW ok \in BOOLEAN,
           NEW j \in 0..(Len(q) + 1), NEW g \in 0..Chunks, NEW h, NEW k,
           Reads(frame, ok), RemoteAt(q, remote.cur, remote.got, j, g), Passes(q, frame, j, g, h, k)
    PROVE  /\ RemoteAt(q, remote'.cur, remote'.got, h, k)
           /\ remote'.garbled = remote.garbled /\ remote'.stray = remote.stray
           /\ remote.saved \subseteq remote'.saved
           /\ Replied(remote, remote', q, j)
           /\ j < h \/ (j = h /\ remote'.replies = remote.replies)
<1> DEFINE r == Finished(remote, ok)
<1>0. Len(q) \in Nat /\ DOMAIN q = 1..Len(q)
  OBVIOUS
<1>1. CASE frame.kind = "data"
  <2>1. /\ j \in DOMAIN q /\ frame.file = q[j] /\ g < Chunks /\ h = j /\ k = g + 1
    BY <1>1 DEF Passes
  <2>2. remote.cur = {frame.file} /\ remote.got = g
    BY <2>1 DEF RemoteAt
  <2>3. remote' = [remote EXCEPT !.got = g + 1, !.garbled = remote.garbled]
    <3>1. remote.got < Chunks /\ remote.got # Chunks
      BY <2>1, <2>2, Sizes
    <3>2. remote' = [remote EXCEPT !.got = IF remote.got < Chunks THEN remote.got + 1 ELSE remote.got,
                        !.garbled = remote.garbled \/ remote.cur # {frame.file} \/ remote.got = Chunks]
      BY <1>1 DEF Reads
    <3>3. (remote.garbled \/ remote.cur # {frame.file} \/ remote.got = Chunks) = remote.garbled
      BY <2>2, <3>1 DEF RemoteState
    <3>4. QED
      BY <2>2, <3>1, <3>2, <3>3
  <2>4. /\ remote'.cur = remote.cur /\ remote'.got = g + 1 /\ remote'.garbled = remote.garbled
        /\ remote'.stray = remote.stray /\ remote'.saved = remote.saved
        /\ remote'.replies = remote.replies
    BY <2>3 DEF RemoteState
  <2>5. QED
    BY <1>0, <2>1, <2>2, <2>4 DEF RemoteAt, Replied
<1>2. CASE frame.kind # "data"
  <2>1. /\ j \in 0..Len(q) /\ (j = 0 \/ g = Chunks) /\ h = j + 1 /\ k = 0
        /\ IF h \in DOMAIN q THEN frame.kind = "header" /\ frame.file = q[h] ELSE frame.kind = "end"
    BY <1>0, <1>2 DEF Passes
  <2>2. /\ r \in RemoteState /\ r.cur = {} /\ r.got = 0
        /\ r.garbled = remote.garbled /\ r.stray = remote.stray /\ remote.saved \subseteq r.saved
        /\ Replied(remote, r, q, j)
    BY <2>1, Finishing, ZenonT(30)
  <2>3. IF frame.kind = "header" THEN remote' = [r EXCEPT !.cur = {frame.file}] ELSE remote' = r
    BY <1>2, <2>1 DEF Reads
  <2> HIDE DEF r
  <2>4. /\ remote'.got = 0 /\ remote'.garbled = r.garbled /\ remote'.stray = r.stray
        /\ remote'.saved = r.saved /\ remote'.replies = r.replies
        /\ remote'.cur = IF frame.kind = "header" THEN {frame.file} ELSE {}
    BY <2>2, <2>3 DEF RemoteState
  <2>5. RemoteAt(q, remote'.cur, remote'.got, h, k)
    BY <2>1, <2>4 DEF RemoteAt
  <2>6. j < h
    BY <2>1
  <2>7. Replied(remote, remote', q, j)
    BY <2>2, <2>4 DEF Replied
  <2>8. QED
    BY <2>2, <2>4, <2>5, <2>6, <2>7
<1>3. QED
  BY <1>1, <1>2

\* Good acknowledgements stay true, and so does what is behind the sender.
LEMMA SavedStep == IndInv /\ [Next]_vars => SavedInv'
<1> SUFFICES ASSUME IndInv, [Next]_vars
             PROVE  SavedInv'
  OBVIOUS
<1>0. /\ SavedInv /\ TypeOK /\ index \in Nat /\ queue \in Seq(File) /\ Len(queue) \in Nat
      /\ remote \in RemoteState /\ s \in Sender /\ wire \in Seq(Frame)
  BY TypeParts DEF IndInv, TypeOK, RemoteOK
<1>1. CASE Calm /\ UNCHANGED <<queue, index>>
  BY <1>0, <1>1 DEF Calm, SavedInv
<1>2. CASE AwaitAcceptance
  <2>1. UNCHANGED remote /\ index' = 1 /\ s'.results = s.results
    BY <1>0, <1>2, Acceptance DEF IndInv, QueueInv, SetUp
  <2>2. Acks' = Acks
    BY <2>1 DEF Acks
  <2>3. \A i \in DOMAIN queue' : ~(i < 1)
    <3>1. queue' \in Seq(File)
      BY MainStep DEF MainOK
    <3>2. QED
      BY <3>1
  <2>4. QED
    BY <1>0, <2>1, <2>2, <2>3 DEF SavedInv
<1>3. CASE AwaitAck /\ ~ UNCHANGED index
  <2>1. /\ UNCHANGED <<queue, remote>> /\ index' = index + 1 /\ s.results # <<>>
        /\ Head(s.results).id = queue[index] /\ Head(s.results).ok /\ s' = [s EXCEPT !.results = <<>>]
    BY <1>3 DEF AwaitAck, Fails, GoodAck
  <2>2. s.results \in Seq(Ack)
    BY <1>0, SenderParts
  <2>3. Head(s.results) \in Acks
    BY <2>1, <2>2, TailFacts DEF Acks
  <2>4. queue[index] \in remote.saved \cup remote.stray
    BY <1>0, <2>1, <2>3 DEF SavedInv
  <2>5. Acks' \subseteq Acks
    <3>1. s'.results = <<>> /\ ToSet(<<>>) = {}
      BY <1>0, <2>1 DEF Sender, ToSet
    <3>2. QED
      BY <2>1, <3>1 DEF Acks
  <2>6. \A i \in DOMAIN queue : i < index + 1 => i < index \/ i = index
    BY <1>0
  <2>7. QED
    BY <1>0, <2>1, <2>4, <2>5, <2>6 DEF SavedInv
<1>4. ASSUME NEW f \in File, NEW ok \in BOOLEAN, RemoteStrays(f, ok)
      PROVE  SavedInv'
  <2> DEFINE a == [id |-> f, ok |-> ok]
  <2>1. a \in Ack /\ a.id = f
    BY DEF Ack
  <2>2. /\ UNCHANGED <<queue, index, s>>
        /\ remote' = [remote EXCEPT !.stray = remote.stray \cup {f}, !.replies = Append(remote.replies, a)]
    BY <1>4 DEF RemoteStrays, mainVars
  <2> HIDE DEF a
  <2>3. remote'.stray = remote.stray \cup {f} /\ remote'.replies = Append(remote.replies, a)
        /\ remote'.saved = remote.saved
    BY <1>0, <2>2 DEF RemoteState
  <2>4. ToSet(Append(remote.replies, a)) = ToSet(remote.replies) \cup {a}
    <3>1. remote.replies \in Seq(Ack)
      BY <1>0 DEF RemoteState
    <3>2. QED
      BY <2>1, <3>1, AppendFacts
  <2>5. Acks' = Acks \cup {a}
    BY <2>2, <2>3, <2>4 DEF Acks
  <2>6. QED
    BY <1>0, <2>1, <2>2, <2>3, <2>5 DEF SavedInv
<1>5. CASE RemoteReads
  <2>1. UNCHANGED <<queue, index, s>>
    BY <1>5 DEF RemoteReads, mainVars
  <2>2. PICK j \in 0..(Len(queue) + 1), h \in 0..(Len(queue) + 1), g \in 0..Chunks, k \in 0..Chunks :
           Leads(queue, wire, j, g, h, k) /\ RemoteAt(queue, remote.cur, remote.got, j, g)
    BY DEF IndInv, FrameInv
  <2>3. PICK a \in 0..(Len(queue) + 1), b \in 0..Chunks : Passes(queue, Head(wire), j, g, a, b)
    BY <1>0, <1>5, <2>2, LeadsOn DEF RemoteReads
  <2>4. PICK ok \in BOOLEAN : Reads(Head(wire), ok)
    BY <1>5, ReadsFrame
  <2>5. /\ RemoteAt(queue, remote'.cur, remote'.got, a, b)
        /\ remote.saved \subseteq remote'.saved /\ remote'.stray = remote.stray
        /\ Replied(remote, remote', queue, j)
    <3>1. remote \in RemoteState /\ queue \in Seq(File) /\ RemoteAt(queue, remote.cur, remote.got, j, g)
      BY <1>0, <2>2
    <3>2. QED
      BY <2>3, <2>4, <3>1, Reading
  <2>6. \A x \in Acks' : x \in Acks \/ (x.ok => x.id \in remote'.saved)
    <3>1. remote.replies \in Seq(Ack)
      BY <1>0 DEF RemoteState
    <3>2. CASE remote'.replies = remote.replies
      BY <2>1, <3>2 DEF Acks
    <3>3. ASSUME NEW x \in Ack, remote'.replies = Append(remote.replies, x),
                 x.ok => x.id \in remote'.saved
          PROVE  \A y \in Acks' : y \in Acks \/ (y.ok => y.id \in remote'.saved)
      <4>1. ToSet(remote'.replies) = ToSet(remote.replies) \cup {x}
        BY <3>1, <3>3, AppendFacts
      <4>2. QED
        BY <2>1, <3>3, <4>1 DEF Acks
    <3>4. QED
      BY <2>5, <3>2, <3>3 DEF Replied
  <2>7. QED
    BY <1>0, <2>1, <2>5, <2>6 DEF SavedInv
<1>6. QED
  BY <1>1, <1>2, <1>3, <1>4, <1>5, CalmSteps, QueueKept

\* A step of the sender's own, seen from the frames: the wire leads from where
\* the remote side is to where the main goroutine is now.
LEMMA FrameBy ==
    ASSUME Calm, UNCHANGED queue, ~remote.garbled,
           NEW j \in 0..(Len(queue) + 1), NEW g \in 0..Chunks,
           NEW a \in 0..(Len(queue) + 1), NEW b \in 0..Chunks,
           RemoteAt(queue, remote.cur, remote.got, j, g), AcksPassed(j),
           Leads(queue, wire', j, g, a, b), SenderAt(a, b)'
    PROVE  FrameInv'
<1>1. /\ remote'.cur = remote.cur /\ remote'.got = remote.got /\ ~remote'.garbled
      /\ remote'.stray = remote.stray /\ Acks' \subseteq Acks
  BY DEF Calm
<1>2. AcksPassed(j)'
  BY <1>1 DEF AcksPassed
<1>3. Leads(queue', wire', j, g, a, b) /\ RemoteAt(queue', remote'.cur, remote'.got, j, g)
  BY <1>1
<1>4. j \in 0..(Len(queue') + 1) /\ a \in 0..(Len(queue') + 1)
  OBVIOUS
<1>5. QED
  BY <1>1, <1>2, <1>3, <1>4 DEF FrameInv

\* The wire always leads from the remote side to the main goroutine.
LEMMA FrameStep == IndInv /\ [Next]_vars => FrameInv'
<1> SUFFICES ASSUME IndInv, [Next]_vars
             PROVE  FrameInv'
  OBVIOUS
<1>0. /\ TypeOK /\ queue \in Seq(File) /\ Len(queue) \in Nat /\ wire \in Seq(Frame)
      /\ index \in Nat /\ index >= 1 /\ chunk \in 0..Chunks /\ Chunks \in Nat
      /\ remote \in RemoteState /\ s \in Sender /\ ~remote.garbled
      /\ DOMAIN queue = 1..Len(queue)
  BY Sizes, TypeParts, SMTT(30) DEF IndInv, TypeOK, RemoteOK, FrameInv
<1>a. /\ pc \in SetUp => queue = <<>> /\ index = 1 /\ wire = <<>> /\ ~announced
      /\ pc \in Body \cup {"file", "ack"} => index <= Len(queue)
      /\ pc = "file" => (announced <=> index > 1)
      /\ pc = "ack" => (announced <=> index < Len(queue))
  BY DEF IndInv, QueueInv, HeaderInv, FlowInv
<1>b. PICK j \in 0..(Len(queue) + 1), h \in 0..(Len(queue) + 1), g \in 0..Chunks, k \in 0..Chunks :
         /\ Leads(queue, wire, j, g, h, k)
         /\ RemoteAt(queue, remote.cur, remote.got, j, g)
         /\ SenderAt(h, k)
         /\ AcksPassed(j)
  BY DEF IndInv, FrameInv
\* the sender's position stays
<1>1. CASE Calm /\ UNCHANGED <<queue, wire>> /\ SenderAt(h, k)'
  <2>1. Leads(queue, wire', j, g, h, k)
    BY <1>1, <1>b
  <2>2. QED
    BY <1>0, <1>1, <1>b, <2>1, FrameBy
<1>2. CASE Calm /\ UNCHANGED <<queue, wire>> /\ pc' \in After \cup {"hangup", "flush"}
  <2>1. SenderAt(h, k)'
    BY <1>2 DEF SenderAt, SetUp, Body, After
  <2>2. QED
    BY <1>1, <1>2, <2>1
<1>3. CASE Calm /\ UNCHANGED <<pc, queue, index, chunk, announced, wire>>
  <2>1. SenderAt(h, k)'
    BY <1>3, <1>b DEF SenderAt
  <2>2. QED
    BY <1>1, <1>3, <2>1
\* it moves by a frame of its own
<1>4. ASSUME Calm, UNCHANGED queue, NEW f \in Frame, wire' = Append(wire, f),
             NEW a \in 0..(Len(queue) + 1), NEW b \in 0..Chunks,
             Passes(queue, f, h, k, a, b), SenderAt(a, b)'
      PROVE  FrameInv'
  <2>1. Leads(queue, wire', j, g, a, b)
    BY <1>0, <1>4, <1>b, LeadsFurther
  <2>2. QED
    BY <1>0, <1>4, <1>b, <2>1, FrameBy
<1>5. CASE (Start \/ AwaitAnswer) /\ Calm
  <2>1. pc \in SetUp /\ UNCHANGED <<queue, wire>> /\ pc' \in SetUp \cup After \cup {"hangup"}
    BY <1>5 DEF Start, AwaitAnswer, Goto, Fails, flowVars, SetUp, After
  <2>2. CASE pc' \in SetUp
    <3>1. SenderAt(h, k)'
      BY <1>b, <2>1, <2>2 DEF SenderAt, SetUp, Body
    <3>2. QED
      BY <1>1, <1>5, <2>1, <3>1
  <2>3. QED
    BY <1>2, <1>5, <2>1, <2>2
<1>6. CASE AwaitAcceptance /\ Calm
  <2>1. /\ pc = "accept" /\ UNCHANGED <<index, announced, remote>> /\ queue = <<>> /\ wire = <<>>
        /\ index = 1 /\ ~announced
    BY <1>0, <1>6, <1>a, Acceptance DEF SetUp
  <2>2. h = 0 /\ k = 0 /\ j = 0 /\ g = 0
    BY <1>0, <1>b, <2>1, LeadsForward DEF SenderAt, SetUp
  <2>3. remote.cur = {} /\ remote.got = 0 /\ (remote.stray = {} => Acks = {})
    <3>1. DOMAIN queue = {}
      BY <2>1
    <3>2. QED
      BY <1>b, <2>2, <3>1 DEF RemoteAt, AcksPassed
  <2>4. queue' \in Seq(File) /\ Len(queue') \in Nat /\ 0 \notin DOMAIN queue' /\ 0 \in 0..Chunks
    <3>1. queue' \in Seq(File)
      BY MainStep DEF MainOK
    <3>2. QED
      BY <1>0, <3>1
  <2>5. /\ RemoteAt(queue', remote'.cur, remote'.got, 0, 0) /\ ~remote'.garbled /\ AcksPassed(0)'
    <3>1. remote'.stray = {} => Acks' = {}
      BY <1>6, <2>1, <2>3 DEF Calm
    <3>2. QED
      BY <1>0, <2>1, <2>3, <2>4, <3>1 DEF RemoteAt, AcksPassed
  <2>6. CASE UNCHANGED wire
    <3>1. Leads(queue', wire', 0, 0, 0, 0)
      BY <2>1, <2>4, <2>6, LeadsNowhere
    <3>2. pc' \in {"file", "release", "hangup"}
      <4>1. Append(wire, [kind |-> "end"]) # wire
        BY <2>1
      <4>2. QED
        BY <1>0, <1>6, <2>6, <4>1, Acceptance
    <3>3. SenderAt(0, 0)'
      BY <2>1, <3>2 DEF SenderAt, SetUp, Body
    <3>4. QED
      BY <2>4, <2>5, <3>1, <3>3 DEF FrameInv
  <2>7. CASE wire' = Append(wire, [kind |-> "end"]) /\ queue' = <<>> /\ pc' = "flush"
    <3> DEFINE f == [kind |-> "end"]
    <3>1. f \in Frame /\ f.kind = "end"
      BY DEF Frame
    <3>2. Len(queue') = 0 /\ 1 \in 0..(Len(queue') + 1) /\ 0 \in 0..(Len(queue') + 1)
      BY <2>7
    <3>3. wire' = Append(<<>>, f) /\ <<>> \in Seq(Frame)
      BY <2>1, <2>7
    <3> HIDE DEF f
    <3>4. Passes(queue', f, 0, 0, 1, 0)
      BY <3>1, <3>2 DEF Passes
    <3>5. Leads(queue', <<>>, 0, 0, 0, 0)
      BY <2>4, LeadsNowhere
    <3>6. Leads(queue', wire', 0, 0, 1, 0)
      BY <2>4, <3>1, <3>2, <3>3, <3>4, <3>5, LeadsFurther
    <3>7. SenderAt(1, 0)'
      BY <2>7 DEF SenderAt, SetUp, Body
    <3>8. QED
      BY <2>4, <2>5, <3>2, <3>6, <3>7 DEF FrameInv
  <2>8. QED
    BY <1>0, <1>6, <2>6, <2>7, Acceptance
<1>7. CASE BeginFile /\ Calm
  <2>1. CASE Fails("release") /\ UNCHANGED wire
    BY <1>2, <1>7, <2>1 DEF Fails, After
  <2>2. CASE ~(Fails("release") /\ UNCHANGED wire)
    <3> DEFINE f == [kind |-> "header", file |-> queue[index]]
    <3>1. /\ pc = "file" /\ pc' = "data" /\ chunk' = 0 /\ UNCHANGED <<queue, index>>
          /\ wire' = IF announced THEN wire ELSE Append(wire, f)
      BY <1>7, <2>2 DEF BeginFile, SendFails, HeaderNeeded
    <3>2. h = (IF announced THEN index ELSE 0) /\ k = 0
      BY <1>b, <3>1 DEF SenderAt
    <3>3. SenderAt(index, 0)'
      BY <3>1 DEF SenderAt, SetUp, Body
    <3>4. CASE announced
      BY <1>1, <1>7, <3>1, <3>2, <3>3, <3>4
    <3>5. CASE ~announced
      <4>1. index = 1 /\ 1 <= Len(queue) /\ queue[1] \in File
        BY <1>0, <1>a, <3>1, <3>5
      <4>2. f \in Frame /\ f.kind = "header" /\ f.file = queue[1]
        BY <4>1 DEF Frame
      <4> HIDE DEF f
      <4>3. Passes(queue, f, h, k, 1, 0)
        BY <1>0, <3>2, <3>5, <4>1, <4>2 DEF Passes
      <4>4. 1 \in 0..(Len(queue) + 1) /\ 0 \in 0..Chunks
        BY <1>0, <4>1
      <4>a. SenderAt(1, 0)'
        BY <3>1, <4>1 DEF SenderAt, SetUp, Body
      <4>5. QED
        BY <1>4, <1>7, <3>1, <3>5, <4>2, <4>3, <4>4, <4>a
    <3>6. QED
      BY <3>4, <3>5
  <2>3. QED
    BY <2>1, <2>2
<1>8. CASE SendChunk /\ Calm
  <2>1. CASE Fails("release") /\ UNCHANGED wire
    BY <1>2, <1>8, <2>1 DEF Fails, After
  <2>2. CASE ~(Fails("release") /\ UNCHANGED wire)
    <3> DEFINE f == [kind |-> "data", file |-> queue[index]]
    <3>1. /\ pc \in Body /\ pc' = "data" /\ chunk < Chunks /\ chunk' = chunk + 1
          /\ UNCHANGED <<queue, index>> /\ wire' = Append(wire, f)
      BY <1>8, <2>2 DEF SendChunk, SendFails, Body
    <3>2. h = index /\ k = chunk /\ index \in DOMAIN queue /\ queue[index] \in File
      BY <1>0, <1>a, <1>b, <3>1 DEF SenderAt
    <3>3. f \in Frame /\ f.kind = "data" /\ f.file = queue[index]
      BY <3>2 DEF Frame
    <3> HIDE DEF f
    <3>4. Passes(queue, f, h, k, h, k + 1)
      BY <3>1, <3>2, <3>3 DEF Passes
    <3>5. k + 1 \in 0..Chunks
      BY <1>0, <3>1, <3>2
    <3>6. SenderAt(h, k + 1)'
      BY <3>1, <3>2 DEF SenderAt, SetUp, Body
    <3>7. QED
      BY <1>4, <1>8, <3>1, <3>3, <3>4, <3>5, <3>6
  <2>3. QED
    BY <2>1, <2>2
<1>9. CASE (BufferFull \/ Arm \/ Recheck \/ AwaitLow) /\ Calm
  <2>1. /\ pc \in Body /\ UNCHANGED <<queue, index, chunk, wire>> /\ pc' \in Body \cup {"release"}
    BY <1>9 DEF BufferFull, Arm, Recheck, AwaitLow, AfterRecheck, Goto, Fails, flowVars, Body
  <2>2. CASE pc' \in Body
    <3>1. SenderAt(h, k)'
      BY <1>b, <2>1, <2>2 DEF SenderAt, SetUp, Body
    <3>2. QED
      BY <1>1, <1>9, <2>1, <3>1
  <2>3. QED
    BY <1>2, <1>9, <2>1, <2>2 DEF After
<1>10. CASE EndFile /\ Calm
  <2>1. CASE Fails("release") /\ UNCHANGED wire
    BY <1>2, <1>10, <2>1 DEF Fails, After
  <2>2. CASE ~(Fails("release") /\ UNCHANGED wire)
    <3> DEFINE f == IF index < Len(queue) THEN [kind |-> "header", file |-> queue[index + 1]]
                    ELSE [kind |-> "end"]
    <3>1. /\ pc = "data" /\ pc' = "ack" /\ chunk = Chunks
          /\ UNCHANGED <<queue, index>> /\ wire' = Append(wire, f)
      BY <1>10, <2>2 DEF EndFile, SendFails
    <3>2. h = index /\ k = Chunks /\ index <= Len(queue)
      BY <1>a, <1>b, <3>1 DEF SenderAt, Body
    <3>3. /\ f \in Frame
          /\ IF index < Len(queue) THEN f.kind = "header" /\ f.file = queue[index + 1] ELSE f.kind = "end"
      <4>1. index < Len(queue) => queue[index + 1] \in File
        BY <1>0
      <4>2. QED
        BY <4>1 DEF Frame
    <3> HIDE DEF f
    <3>4. Passes(queue, f, h, k, index + 1, 0)
      BY <1>0, <3>2, <3>3 DEF Passes
    <3>5. index + 1 \in 0..(Len(queue) + 1) /\ 0 \in 0..Chunks
      BY <1>0, <3>2
    <3>6. SenderAt(index + 1, 0)'
      BY <3>1 DEF SenderAt, SetUp, Body
    <3>7. QED
      BY <1>4, <1>10, <3>1, <3>3, <3>4, <3>5, <3>6
  <2>3. QED
    BY <2>1, <2>2
<1>11. CASE AwaitAck /\ Calm
  <2>1. UNCHANGED <<queue, wire>>
    BY <1>11 DEF AwaitAck, Fails, flowVars
  <2>2. CASE pc' \in {"release", "flush"}
    BY <1>2, <1>11, <2>1, <2>2 DEF After
  <2>3. CASE pc' \notin {"release", "flush"}
    <3>1. pc = "ack" /\ pc' = "file" /\ index' = index + 1 /\ UNCHANGED announced /\ index < Len(queue)
      BY <1>11, <2>3 DEF AwaitAck, Fails
    <3>2. SenderAt(h, k)'
      BY <1>a, <1>b, <3>1 DEF SenderAt, SetUp, Body
    <3>3. QED
      BY <1>1, <1>11, <2>1, <3>2
  <2>4. QED
    BY <2>2, <2>3
<1>12. CASE (Flush \/ Close) /\ Calm
  <2>1. UNCHANGED <<queue, wire>> /\ pc' \in After
    BY <1>12 DEF Flush, Close, Goto, Fails, flowVars, After
  <2>2. QED
    BY <1>2, <1>12, <2>1
<1>13. CASE ClosePeer /\ Calm
  <2>1. CASE UNCHANGED <<mainVars, wire>>
    BY <1>3, <1>13, <2>1 DEF mainVars
  <2>2. CASE ~ UNCHANGED <<mainVars, wire>>
    <3>1. wire' = <<>> /\ pc' \in {"release", "exit"} /\ UNCHANGED queue
      BY <1>13, <2>2 DEF ClosePeer, Goto
    <3>2. Leads(queue, wire', j, g, j, g)
      BY <1>0, <3>1, LeadsNowhere
    <3>3. SenderAt(j, g)'
      BY <3>1 DEF SenderAt, SetUp, Body
    <3>4. QED
      BY <1>0, <1>13, <1>b, <3>1, <3>2, <3>3, FrameBy
  <2>3. QED
    BY <2>1, <2>2
<1>14. ASSUME NEW f \in File, NEW ok \in BOOLEAN, RemoteStrays(f, ok)
       PROVE  FrameInv'
  <2>1. /\ UNCHANGED <<pc, index, chunk, announced, queue, wire>>
        /\ remote'.stray = remote.stray \cup {f} /\ remote'.cur = remote.cur
        /\ remote'.got = remote.got /\ remote'.garbled = remote.garbled
    BY <1>0, <1>14 DEF RemoteStrays, mainVars, flowVars, RemoteState
  <2>2. AcksPassed(j)' /\ SenderAt(h, k)'
    BY <1>b, <2>1 DEF AcksPassed, SenderAt
  <2>3. Leads(queue', wire', j, g, h, k) /\ RemoteAt(queue', remote'.cur, remote'.got, j, g)
    BY <1>b, <2>1
  <2>4. j \in 0..(Len(queue') + 1) /\ h \in 0..(Len(queue') + 1) /\ ~remote'.garbled
    BY <1>0, <2>1
  <2>5. QED
    BY <2>2, <2>3, <2>4 DEF FrameInv
<1>15. CASE RemoteReads
  <2>1. /\ UNCHANGED <<pc, index, chunk, announced, queue, s>> /\ wire # <<>> /\ wire' = Tail(wire)
    BY <1>15 DEF RemoteReads, mainVars
  <2>2. PICK a \in 0..(Len(queue) + 1), b \in 0..Chunks :
           Passes(queue, Head(wire), j, g, a, b) /\ Leads(queue, Tail(wire), a, b, h, k)
    BY <1>0, <1>b, <2>1, LeadsOn
  <2>3. PICK ok \in BOOLEAN : Reads(Head(wire), ok)
    BY <1>15, ReadsFrame
  <2>4. /\ RemoteAt(queue, remote'.cur, remote'.got, a, b)
        /\ remote'.garbled = remote.garbled /\ remote'.stray = remote.stray
        /\ Replied(remote, remote', queue, j)
        /\ j < a \/ (j = a /\ remote'.replies = remote.replies)
    <3>1. remote \in RemoteState /\ queue \in Seq(File) /\ RemoteAt(queue, remote.cur, remote.got, j, g)
      BY <1>0, <1>b
    <3>2. QED
      BY <2>2, <2>3, <3>1, Reading
  <2>5. AcksPassed(a)'
    <3>1. remote.replies \in Seq(Ack) /\ j \in Nat /\ a \in Nat
      BY <1>0 DEF RemoteState
    <3>2. remote.stray = {} => \A x \in Acks : \E i \in DOMAIN queue : i < a /\ x.id = queue[i]
      BY <1>0, <1>b, <2>4, <3>1 DEF AcksPassed
    <3>3. CASE remote'.replies = remote.replies
      <4>1. Acks' = Acks
        BY <2>1, <3>3 DEF Acks
      <4>2. QED
        BY <2>1, <2>4, <3>2, <4>1 DEF AcksPassed
    <3>4. CASE remote'.replies # remote.replies
      <4>1. PICK x \in Ack : /\ remote'.replies = Append(remote.replies, x)
                             /\ j \in DOMAIN queue /\ x.id = queue[j]
        BY <2>4, <3>4 DEF Replied
      <4>2. ToSet(remote'.replies) = ToSet(remote.replies) \cup {x}
        BY <3>1, <4>1, AppendFacts
      <4>3. Acks' = Acks \cup {x}
        BY <2>1, <4>2 DEF Acks
      <4>4. j < a
        BY <2>4, <3>4
      <4>5. QED
        BY <2>1, <2>4, <3>2, <4>1, <4>3, <4>4 DEF AcksPassed
    <3>5. QED
      BY <3>3, <3>4
  <2>6. SenderAt(h, k)'
    BY <1>b, <2>1 DEF SenderAt
  <2>7. QED
    BY <1>0, <2>1, <2>2, <2>4, <2>5, <2>6 DEF FrameInv
<1>16. CASE UNCHANGED <<pc, queue, index, chunk, announced, wire>> /\ Calm
  BY <1>3, <1>16
<1>17. Calm \/ RemoteReads \/ \E f \in File, ok \in BOOLEAN : RemoteStrays(f, ok)
  BY CalmSteps
<1>18. CASE Calm
  <2>1. \/ Start \/ AwaitAnswer \/ AwaitAcceptance \/ BeginFile \/ SendChunk \/ BufferFull \/ Arm
        \/ Recheck \/ AwaitLow \/ EndFile \/ AwaitAck \/ Flush \/ Close \/ ClosePeer
        \/ RemoteReads \/ \E f \in File, ok \in BOOLEAN : RemoteStrays(f, ok)
        \/ UNCHANGED <<pc, queue, index, chunk, announced, wire>>
    BY DEF Next, Main, Callback, Message, HandleClose, startNonceExchange, ErrorTaken, PairAnswered,
       handleNonceResponse, handleTokenResponse, handleFileAcceptance, handleFileResponse,
       ChannelOpens, ConnectionLost, vars, mainVars, flowVars, callbackUnchanged
  <2>2. QED
    BY <1>5, <1>6, <1>7, <1>8, <1>9, <1>10, <1>11, <1>12, <1>13, <1>14, <1>15, <1>16, <1>18, <2>1
<1>19. QED
  BY <1>14, <1>15, <1>17, <1>18

\* A good acknowledgement of the current file has come only after every frame
\* before it was read, unless one strayed.
LEMMA GoodAckDrains ==
    ASSUME IndInv, pc = "ack", remote.stray = {}, s.results # <<>>,
           Head(s.results).id = queue[index]
    PROVE  wire = <<>>
<1>0. /\ queue \in Seq(File) /\ wire \in Seq(Frame) /\ index \in Nat /\ index >= 1
      /\ index <= Len(queue) /\ Len(queue) \in Nat /\ DOMAIN queue = 1..Len(queue)
      /\ \A i, j \in DOMAIN queue : queue[i] = queue[j] => i = j
  BY DEF IndInv, TypeOK, QueueInv
<1>1. Head(s.results) \in Acks
  <2>1. s.results \in Seq(Ack)
    BY TypeParts, SenderParts DEF IndInv, SenderOK
  <2>2. QED
    BY <2>1, TailFacts DEF Acks
<1>2. PICK j \in 0..(Len(queue) + 1), h \in 0..(Len(queue) + 1), g \in 0..Chunks, k \in 0..Chunks :
         Leads(queue, wire, j, g, h, k) /\ SenderAt(h, k) /\ AcksPassed(j)
  BY DEF IndInv, FrameInv
<1>3. h = index + 1 /\ k = 0
  BY <1>2 DEF SenderAt
<1>4. PICK i \in DOMAIN queue : i < j /\ queue[index] = queue[i]
  BY <1>1, <1>2 DEF AcksPassed
<1>5. index < j
  BY <1>0, <1>4
<1>6. ~Before(j, g, h, k)
  BY <1>0, <1>3, <1>5, Sizes DEF Before
<1>7. QED
  BY <1>0, <1>2, <1>6, LeadsForward

\* The buffer stays bounded and no drain is missed.
LEMMA FlowStep == IndInv /\ [Next]_vars => FlowInv'
<1> SUFFICES ASSUME IndInv, [Next]_vars
             PROVE  FlowInv'
  OBVIOUS
<1>0. /\ FlowInv /\ TypeOK /\ wire \in Seq(Frame) /\ Len(wire) \in Nat /\ Limit \in Nat
      /\ Len(<<>>) = 0 /\ <<>> \in Seq(Frame)
      /\ threshold \in {0, Limit} /\ low \in BOOLEAN
      /\ remote \in RemoteState
  BY Sizes, TypeParts DEF IndInv, TypeOK, RemoteOK
<1>a. ASSUME NEW f
      PROVE  Len(Append(wire, f)) = Len(wire) + 1
  BY <1>0
<1>1. CASE Calm /\ UNCHANGED <<pc, wire, low, threshold>>
  BY <1>0, <1>1 DEF FlowInv, NoMissedDrain, Room, Calm
<1>2. CASE Calm /\ UNCHANGED wire /\ pc' \in After \cup {"hangup", "flush"}
  BY <1>0, <1>2 DEF FlowInv, NoMissedDrain, Calm, SetUp, Body, After
<1>3. CASE (Start \/ AwaitAnswer) /\ Calm
  <2>1. pc \in SetUp /\ UNCHANGED wire /\ pc' \in SetUp \cup After \cup {"hangup"}
    BY <1>3 DEF Start, AwaitAnswer, Goto, Fails, flowVars, SetUp, After
  <2>2. QED
    BY <1>0, <1>2, <1>3, <2>1 DEF FlowInv, NoMissedDrain, Calm, SetUp, Body, After
<1>4. CASE AwaitAcceptance /\ Calm
  <2>1. wire = <<>> /\ pc' \in {"file", "flush", "release", "hangup"}
        /\ (wire' = wire \/ (wire' = Append(wire, [kind |-> "end"]) /\ pc' = "flush"))
    BY <1>0, <1>4, Acceptance DEF FlowInv, SetUp
  <2>2. Len(wire') <= 1
    BY <1>0, <1>a, <2>1
  <2>3. QED
    BY <1>0, <1>4, <2>1, <2>2 DEF FlowInv, NoMissedDrain, Calm, SetUp, Body
<1>5. CASE BeginFile /\ Calm
  <2>1. pc = "file" /\ (pc' = "release" \/ pc' = "data")
        /\ (wire' = wire \/ wire' = Append(wire, [kind |-> "header", file |-> queue[index]]))
    BY <1>5 DEF BeginFile, SendFails, Fails
  <2>2. Len(wire') \in Nat /\ Len(wire') <= Len(wire) + 1
    BY <1>0, <1>a, <2>1
  <2>3. remote.stray = {} => Len(wire) = 0
    BY <1>0, <2>1 DEF FlowInv
  <2>4. QED
    BY <1>0, <1>5, <2>1, <2>2, <2>3 DEF FlowInv, NoMissedDrain, Calm, SetUp, Body
<1>6. CASE SendChunk /\ Calm
  <2>1. Len(wire) <= Limit /\ (pc' = "release" \/ pc' = "data")
        /\ (wire' = wire \/ wire' = Append(wire, [kind |-> "data", file |-> queue[index]]))
    BY <1>0, <1>6 DEF SendChunk, SendFails, Fails, FlowInv, Room
  <2>2. Len(wire') \in Nat /\ Len(wire') <= Len(wire) + 1
    BY <1>0, <1>a, <2>1
  <2>3. QED
    BY <1>0, <1>6, <2>1, <2>2 DEF FlowInv, NoMissedDrain, Calm, SetUp, Body
<1>7. CASE BufferFull /\ Calm
  <2>1. pc = "data" /\ pc' = "arm" /\ UNCHANGED <<wire, low, threshold>>
    BY <1>7 DEF BufferFull, Goto, flowVars
  <2>2. QED
    BY <1>0, <1>7, <2>1 DEF FlowInv, NoMissedDrain, Calm, SetUp, Body
<1>8. CASE Arm /\ Calm
  <2>1. pc = "arm" /\ pc' = "recheck" /\ threshold' = Limit /\ UNCHANGED wire
    BY <1>8 DEF Arm, Goto
  <2>2. QED
    BY <1>0, <1>8, <2>1 DEF FlowInv, NoMissedDrain, Calm, SetUp, Body
<1>9. CASE Recheck /\ Calm
  <2>1. pc = "recheck" /\ pc' = (IF Room THEN "push" ELSE "low") /\ UNCHANGED <<wire, threshold>>
    BY <1>9 DEF Recheck, AfterRecheck, Goto, flowVars
  <2>2. QED
    BY <1>0, <1>9, <2>1 DEF FlowInv, NoMissedDrain, Room, Calm, SetUp, Body
<1>10. CASE AwaitLow /\ Calm
  <2>1. /\ pc = "low" /\ UNCHANGED <<wire, threshold>>
        /\ (pc' = "release" \/ pc' = (IF Room THEN "push" ELSE "low"))
    BY <1>10 DEF AwaitLow, Goto, Fails
  <2>2. QED
    BY <1>0, <1>10, <2>1 DEF FlowInv, NoMissedDrain, Room, Calm, SetUp, Body
<1>11. CASE EndFile /\ Calm
  <2> DEFINE f == IF index < Len(queue) THEN [kind |-> "header", file |-> queue[index + 1]]
                  ELSE [kind |-> "end"]
  <2>1. /\ pc = "data" /\ (pc' = "release" \/ pc' = "ack")
        /\ (wire' = wire \/ wire' = Append(wire, f))
    BY <1>11 DEF EndFile, SendFails, Fails
  <2> HIDE DEF f
  <2>2. Len(wire') \in Nat /\ Len(wire') <= Len(wire) + 1
    BY <1>0, <1>a, <2>1
  <2>3. QED
    BY <1>0, <1>11, <2>1, <2>2 DEF FlowInv, NoMissedDrain, Calm, SetUp, Body
<1>12. CASE AwaitAck /\ Calm
  <2>1. UNCHANGED <<wire, low, threshold>>
    BY <1>12 DEF AwaitAck, flowVars
  <2>2. CASE pc' \in {"release", "flush"}
    BY <1>2, <1>12, <2>1, <2>2 DEF After
  <2>3. CASE pc' \notin {"release", "flush"}
    <3>1. pc = "ack" /\ pc' = "file" /\ s.results # <<>> /\ Head(s.results).id = queue[index]
      BY <1>12, <2>3 DEF AwaitAck, Fails, GoodAck
    <3>2. remote.stray = {} => wire = <<>>
      BY <3>1, GoodAckDrains
    <3>3. QED
      BY <1>0, <1>12, <2>1, <3>1, <3>2 DEF FlowInv, NoMissedDrain, Calm, SetUp, Body
  <2>4. QED
    BY <2>2, <2>3
<1>13. CASE (Flush \/ Close) /\ Calm
  <2>1. UNCHANGED wire /\ pc' \in After
    BY <1>13 DEF Flush, Close, Goto, Fails, flowVars, After
  <2>2. QED
    BY <1>2, <1>13, <2>1
<1>14. CASE ClosePeer /\ Calm
  <2>1. UNCHANGED <<low, threshold>>
    BY <1>14 DEF ClosePeer
  <2>2. CASE UNCHANGED <<mainVars, wire>>
    BY <1>1, <1>14, <2>1, <2>2 DEF mainVars
  <2>3. CASE ~ UNCHANGED <<mainVars, wire>>
    <3>1. wire' = <<>> /\ pc' \in {"release", "exit"}
      BY <1>14, <2>3 DEF ClosePeer, Goto
    <3>2. QED
      BY <1>0, <3>1 DEF FlowInv, NoMissedDrain, SetUp, Body
  <2>4. QED
    BY <2>2, <2>3
<1>15. ASSUME NEW f \in File, NEW ok \in BOOLEAN, RemoteStrays(f, ok)
       PROVE  FlowInv'
  <2>1. UNCHANGED <<pc, wire, low, threshold>> /\ remote'.stray = remote.stray \cup {f}
    BY <1>0, <1>15 DEF RemoteStrays, mainVars, flowVars, RemoteState
  <2>2. remote'.stray # {}
    BY <2>1
  <2>3. QED
    BY <1>0, <2>1, <2>2 DEF FlowInv, NoMissedDrain, Room
<1>16. CASE RemoteReads
  <2>1. /\ UNCHANGED <<pc, threshold>> /\ wire # <<>> /\ wire' = Tail(wire)
        /\ low' = (low \/ (Len(wire) > threshold /\ Len(wire) - 1 <= threshold))
    BY <1>16 DEF RemoteReads, mainVars
  <2>2. Len(wire') = Len(wire) - 1 /\ Len(wire) >= 1
    BY <1>0, <2>1, TailFacts
  <2>3. remote'.stray = remote.stray
    <3>1. PICK j \in 0..(Len(queue) + 1), h \in 0..(Len(queue) + 1), g \in 0..Chunks, k \in 0..Chunks :
             Leads(queue, wire, j, g, h, k) /\ RemoteAt(queue, remote.cur, remote.got, j, g)
      BY DEF IndInv, FrameInv
    <3>2. queue \in Seq(File)
      BY DEF IndInv, TypeOK
    <3>3. PICK a \in 0..(Len(queue) + 1), b \in 0..Chunks : Passes(queue, Head(wire), j, g, a, b)
      BY <1>0, <2>1, <3>1, <3>2, LeadsOn
    <3>4. PICK ok \in BOOLEAN : Reads(Head(wire), ok)
      BY <1>16, ReadsFrame
    <3>5. remote \in RemoteState /\ RemoteAt(queue, remote.cur, remote.got, j, g)
      BY <1>0, <3>1
    <3>6. QED
      BY <3>2, <3>3, <3>4, <3>5, Reading
  <2>4. NoMissedDrain'
    <3>1. CASE pc = "low"
      <4>1. threshold = Limit /\ (Len(wire) <= Limit => low)
        BY <1>0, <3>1 DEF FlowInv, NoMissedDrain, Room
      <4>2. Len(wire') <= Limit => Len(wire) <= Limit \/ (Len(wire) > Limit /\ Len(wire) - 1 <= Limit)
        BY <1>0, <2>2
      <4>3. Len(wire') <= Limit => low'
        BY <2>1, <4>1, <4>2
      <4>4. QED
        BY <4>3 DEF NoMissedDrain, Room
    <3>2. CASE pc # "low"
      BY <2>1, <3>2 DEF NoMissedDrain
    <3>3. QED
      BY <3>1, <3>2
  <2>5. pc \notin SetUp /\ (pc = "file" => remote.stray # {})
    BY <1>0, <2>1 DEF FlowInv
  <2>6. pc = "push" => Room'
    BY <1>0, <2>2 DEF FlowInv, Room
  <2>7. QED
    BY <1>0, <2>1, <2>2, <2>3, <2>4, <2>5, <2>6 DEF FlowInv
<1>17. Calm \/ RemoteReads \/ \E f \in File, ok \in BOOLEAN : RemoteStrays(f, ok)
  BY CalmSteps
<1>18. CASE Calm
  <2>1. \/ Start \/ AwaitAnswer \/ AwaitAcceptance \/ BeginFile \/ SendChunk \/ BufferFull \/ Arm
        \/ Recheck \/ AwaitLow \/ EndFile \/ AwaitAck \/ Flush \/ Close \/ ClosePeer
        \/ RemoteReads \/ \E f \in File, ok \in BOOLEAN : RemoteStrays(f, ok)
        \/ UNCHANGED <<pc, wire, low, threshold>>
    BY DEF Next, Main, Callback, Message, HandleClose, startNonceExchange, ErrorTaken, PairAnswered,
       handleNonceResponse, handleTokenResponse, handleFileAcceptance, handleFileResponse,
       ChannelOpens, ConnectionLost, vars, mainVars, flowVars, callbackUnchanged
  <2>2. QED
    BY <1>1, <1>3, <1>4, <1>5, <1>6, <1>7, <1>8, <1>9, <1>10, <1>11, <1>12, <1>13, <1>14, <1>15,
       <1>16, <1>18, <2>1
<1>19. QED
  BY <1>15, <1>16, <1>17, <1>18

-----------------------------------------------------------------------------
(* The theorems *)

\* The inductive invariant holds at the start.
LEMMA InitInv == Init => IndInv
<1> SUFFICES ASSUME Init
             PROVE  IndInv
  OBVIOUS
<1>0. /\ queue = <<>> /\ wire = <<>> /\ index = 1 /\ chunk = 0 /\ pc = "start" /\ announced = FALSE
      /\ Len(<<>>) = 0 /\ DOMAIN <<>> = {} /\ ToSet(<<>>) = {} /\ outcome = "pending"
  BY DEF Init, ToSet
<1>1. TypeOK
  <2>1. MainOK /\ EventOK /\ WireOK
    BY Sizes DEF Init, MainOK, EventOK, WireOK, SetUp
  <2>2. FlagOK
    BY DEF Init, FlagOK
  <2>3. SenderOK
    BY DEF Init, SenderOK, Sender, State
  <2>4. RemoteOK
    BY Sizes DEF Init, RemoteOK, RemoteState
  <2>5. QED
    BY <2>1, <2>2, <2>3, <2>4, TypeParts
<1>2. HeaderInv
  BY <1>0 DEF Init, HeaderInv, SetUp, Body
<1>3. QueueInv
  BY <1>0, Sizes DEF QueueInv, SetUp, Body, After
<1>4. Acks = {} /\ SavedInv
  BY <1>0 DEF Init, Acks, SavedInv
<1>5. FrameInv
  <2>1. queue \in Seq(File) /\ 0 \in 0..(Len(queue) + 1) /\ 0 \in 0..Chunks /\ 0 \notin DOMAIN queue
    BY <1>0, Sizes
  <2>2. Leads(queue, wire, 0, 0, 0, 0)
    BY <1>0, <2>1, LeadsNowhere
  <2>3. RemoteAt(queue, remote.cur, remote.got, 0, 0) /\ ~remote.garbled
    BY <2>1 DEF Init, RemoteAt
  <2>4. SenderAt(0, 0) /\ AcksPassed(0)
    BY <1>0, <1>4 DEF SenderAt, AcksPassed, SetUp, Body
  <2>5. QED
    BY <2>1, <2>2, <2>3, <2>4 DEF FrameInv
<1>6. FlowInv
  BY <1>0, Sizes DEF FlowInv, NoMissedDrain, SetUp, Body
<1>7. QED
  BY <1>1, <1>2, <1>3, <1>4, <1>5, <1>6 DEF IndInv

\* The inductive invariant holds in every reachable state.
THEOREM Invariance == Spec => []IndInv
<1>1. IndInv /\ [Next]_vars => IndInv'
  <2> SUFFICES ASSUME IndInv, [Next]_vars
               PROVE  IndInv'
    OBVIOUS
  <2>1. TypeOK'
    <3>1. (MainOK /\ SenderOK /\ EventOK /\ FlagOK /\ WireOK /\ RemoteOK)'
      BY MainStep, SenderStep, EventStep, FlagStep, WireStep, RemoteStep
    <3>2. QED
      BY <3>1 DEF TypeOK, MainOK, SenderOK, EventOK, FlagOK, WireOK, RemoteOK, RemoteState, SetUp,
         Body, After
  <2>2. QED
    BY <2>1, QueueStep, HeaderStep, SavedStep, FrameStep, FlowStep DEF IndInv
<1>2. QED
  BY InitInv, <1>1, PTL DEF Spec

\* SendFiles returns nil only when every file of its queue was saved whole or
\* acknowledged under its own id.
THEOREM SuccessIsTrue == Spec => []SuccessMeansSaved
<1>1. IndInv => SuccessMeansSaved
  <2> SUFFICES ASSUME IndInv, outcome = "ok", NEW f \in Range(queue)
               PROVE  f \in remote.saved \cup remote.stray
    BY DEF SuccessMeansSaved
  <2>1. queue \in Seq(File) /\ index = Len(queue) + 1
    BY DEF IndInv, TypeOK, QueueInv
  <2>2. PICK i \in DOMAIN queue : f = queue[i]
    BY DEF Range
  <2>3. i < index
    BY <2>1
  <2>4. QED
    BY <2>2, <2>3 DEF IndInv, SavedInv
<1>2. QED
  BY Invariance, <1>1, PTL

\* Although headers are sent ahead, the remote side reads every data frame
\* under its own file's header and every end with all of the file's frames.
THEOREM FramesStayInOrder == Spec => []WireFramed
<1>1. IndInv => WireFramed
  BY DEF IndInv, FrameInv, WireFramed
<1>2. QED
  BY Invariance, <1>1, PTL

\* Whatever the limit and the number of files: no drain is missed while the
\* sender waits, and the buffer holds at most two frames above the limit.
THEOREM FlowStaysSound == Spec => []FlowSound
<1>1. IndInv => FlowSound
  BY DEF IndInv, FlowInv, FlowSound, BufferBounded
<1>2. QED
  BY Invariance, <1>1, PTL

=============================================================================
