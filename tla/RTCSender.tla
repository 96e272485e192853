----------------------------- MODULE RTCSender -----------------------------
(***************************************************************************)
(* The WebRTC sender (webrtc/transfer/sender.go) over its PeerConnection   *)
(* (peer.go), driven by sendViaWebRTC: Send, SendFiles, Close.             *)
(*                                                                         *)
(* Four goroutines meet on the sender's mutex: the main one, the data      *)
(* channel's open callback, its message callback (messages are handled one *)
(* at a time) and whoever runs notifyClose.  The main goroutine reads the  *)
(* channels the callbacks write, each of capacity one.  pc is where it is; *)
(* a select of the code is one disjunct per case.                          *)
(*                                                                         *)
(* Data abstracted: a frame is one unit of the send buffer, every file has *)
(* Chunks frames, handshake messages are not queued (each is answered      *)
(* before the next), tokens, nonces and keys are valid or not.  The remote *)
(* side is external: it may send any handshake message at any time, reads  *)
(* frames in order, and acknowledges a file when its end arrives; MaxStray *)
(* acknowledgements come out of turn.                                      *)
(***************************************************************************)
EXTENDS Integers, Sequences, FiniteSets, SequencesExt

CONSTANTS
    File,      \* ids of the files offered
    Stranger,  \* an id the remote may accept although it was not offered
    Chunks,    \* data frames of a file
    Limit,     \* maxBufferedAmount, in frames
    MaxStray   \* bound: acknowledgements out of turn

ASSUME SenderAssumption ==
    /\ IsFiniteSet(File) /\ Stranger \notin File
    /\ Chunks \in Nat /\ Limit \in Nat /\ MaxStray \in Nat

VARIABLES
    pc,        \* the main goroutine
    outcome,   \* what Send and SendFiles returned
    queue,     \* prepareSendQueue's result
    index,     \* the file being sent
    chunk,     \* frames of it sent
    announced, \* headerAlreadySent
    s,         \* the sender's fields under its mutex, and its channels
    opening,   \* the open callback
    pairing,   \* the message callback is inside onPairRequest
    link,      \* pion's connection and data channel
    closing,   \* notifyClose's once: "no", "handler" is being called, "done"
    wire,      \* the data channel's send buffer
    low,       \* a token in bufferedAmountLow
    threshold, \* the data channel's BufferedAmountLowThreshold
    remote     \* the receiving side

mainVars == <<pc, outcome, queue, index, chunk, announced>>
peerVars == <<link, closing>>
flowVars == <<wire, low, threshold>>
vars == <<mainVars, s, opening, pairing, peerVars, flowVars, remote>>

-----------------------------------------------------------------------------
Ack   == [id : File, ok : BOOLEAN]
Frame == [kind : {"header", "data"}, file : File] \cup {[kind |-> "end"]}
State == {"init", "nonce", "token", "pin", "accept", "sending", "done"}

Sender == [state : State, closed : BOOLEAN, accepted : Seq(SUBSET (File \cup {Stranger})),
           declined : 0..1, errors : 0..1, results : Seq(Ack)]

TypeOK ==
    /\ pc \in {"start", "answer", "accept", "hangup", "file", "data", "arm", "recheck", "low",
               "push", "ack", "flush", "release", "disconnect", "exit"}
    /\ outcome \in {"pending", "ok", "error"}
    /\ queue \in Seq(File) /\ index \in 1..(Cardinality(File) + 1)
    /\ chunk \in 0..Chunks /\ announced \in BOOLEAN
    /\ s \in Sender /\ Len(s.accepted) <= 1 /\ Len(s.results) <= 1
    /\ pairing \in BOOLEAN /\ low \in BOOLEAN
    /\ opening \in {"no", "due", "stuck", "done"}
    /\ link \in {"none", "connecting", "answered", "open", "closed"}
    /\ closing \in {"no", "handler", "done"}
    /\ wire \in Seq(Frame) /\ threshold \in {0, Limit}
    /\ remote \in [cur : SUBSET File, got : 0..Chunks, saved : SUBSET File, stray : SUBSET File,
                   replies : Seq(Ack), garbled : BOOLEAN]

Init ==
    /\ pc = "start" /\ outcome = "pending"
    /\ queue = <<>> /\ index = 1 /\ chunk = 0 /\ announced = FALSE
    /\ s = [state |-> "init", closed |-> FALSE, accepted |-> <<>>, declined |-> 0,
            errors |-> 0, results |-> <<>>]
    /\ opening = "no" /\ pairing = FALSE
    /\ link = "none" /\ closing = "no"
    /\ wire = <<>> /\ low = FALSE /\ threshold = 0
    /\ remote = [cur |-> {}, got |-> 0, saved |-> {}, stray |-> {}, replies |-> <<>>,
                 garbled |-> FALSE]

\* peer.Done is closed
Closed == closing # "no"

\* Critical sections are steps; only startNonceExchange can be caught holding
\* the mutex, in its send on the errors channel.
MutexFree == opening # "stuck"

\* whether a send works: never once Done is closed, and not always before
Sends == {FALSE, link = "open" /\ ~Closed}

-----------------------------------------------------------------------------
(* The main goroutine: Send *)

Goto(p) == pc' = p /\ UNCHANGED <<outcome, queue, index, chunk, announced>>

\* Send or SendFiles returns an error; sendViaWebRTC goes on to Close.
Fails(p) == pc' = p /\ outcome' = "error" /\ UNCHANGED <<queue, index, chunk, announced>>

\* NewPeerConnection, the handlers, CreateOffer, OnAnswer, SendOffer: the first
\* may fail before there is a peer, the others close it.
Start ==
    /\ pc = "start"
    /\ \/ Fails("release") /\ UNCHANGED link
       \/ link' = "connecting" /\ (Goto("answer") \/ Fails("hangup"))
    /\ UNCHANGED <<s, opening, pairing, closing, flowVars, remote>>

AwaitAnswer ==
    /\ pc = "answer"
    /\ \/ Goto("accept") /\ link' = "answered"
       \/ Fails("hangup") /\ UNCHANGED link         \* SetAnswer failed, or answerTimeout
       \/ Closed /\ Fails("release") /\ UNCHANGED link
    /\ UNCHANGED <<s, opening, pairing, closing, flowVars, remote>>

\* The accepted ids that name a file of ours, in the order of a map iteration.
prepareSendQueue(ids) == SetToSeqs(ids \cap File)

\* SendFiles begins right after Send; with nothing to send it only ends the list.
StartSending(q) ==
    /\ queue' = q
    /\ UNCHANGED <<index, chunk, announced>>
    /\ \/ q # <<>> /\ pc' = "file" /\ UNCHANGED <<outcome, wire>>
       \/ /\ q = <<>>
          /\ \E sent \in Sends :
                /\ wire' = IF sent THEN Append(wire, [kind |-> "end"]) ELSE wire
                /\ pc' = IF sent THEN "flush" ELSE "release"
                /\ outcome' = IF sent THEN outcome ELSE "error"

AwaitAcceptance ==
    /\ pc = "accept"
    /\ \/ /\ s.accepted # <<>>
          /\ s' = [s EXCEPT !.accepted = <<>>]
          /\ \E q \in prepareSendQueue(Head(s.accepted)) : StartSending(q)
       \/ /\ s.declined = 1
          /\ s' = [s EXCEPT !.declined = 0]
          /\ Fails("hangup") /\ UNCHANGED wire
       \/ /\ s.errors = 1
          /\ s' = [s EXCEPT !.errors = 0]
          /\ Fails("hangup") /\ UNCHANGED wire
       \/ Closed /\ Fails("release") /\ UNCHANGED <<s, wire>>
       \/ Fails("hangup") /\ UNCHANGED <<s, wire>>          \* fileAcceptTimeout
    /\ UNCHANGED <<opening, pairing, peerVars, low, threshold, remote>>

-----------------------------------------------------------------------------
(* The main goroutine: SendFiles *)

SendFails == Fails("release") /\ UNCHANGED wire

HeaderAlways == TRUE

HeaderNeeded == ~announced

\* The file is opened and its header sent unless the previous one announced it.
BeginFile ==
    /\ pc = "file"
    /\ \/ SendFails                                          \* os.Open or the send failed
       \/ /\ HeaderNeeded => TRUE \in Sends
          /\ wire' = IF HeaderNeeded
                     THEN Append(wire, [kind |-> "header", file |-> queue[index]]) ELSE wire
          /\ pc' = "data" /\ chunk' = 0 /\ announced' = FALSE
          /\ UNCHANGED <<outcome, queue, index>>
    /\ UNCHANGED <<s, opening, pairing, peerVars, low, threshold, remote>>

Room == Len(wire) <= Limit

\* One frame of the file, once WaitBufferBelowWithTimeout let it through.
SendChunk ==
    /\ pc = "push" \/ (pc = "data" /\ Room)
    /\ chunk < Chunks
    /\ \/ SendFails                                          \* reading or sending failed
       \/ /\ TRUE \in Sends
          /\ wire' = Append(wire, [kind |-> "data", file |-> queue[index]])
          /\ chunk' = chunk + 1 /\ pc' = "data"
          /\ UNCHANGED <<outcome, queue, index, announced>>
    /\ UNCHANGED <<s, opening, pairing, peerVars, low, threshold, remote>>

\* WaitBufferBelowWithTimeout saw too much in the buffer: it sets the threshold,
BufferFull ==
    /\ pc = "data" /\ chunk < Chunks /\ ~Room
    /\ Goto("arm")
    /\ UNCHANGED <<s, opening, pairing, peerVars, flowVars, remote>>

Arm ==
    /\ pc = "arm"
    /\ threshold' = Limit
    /\ Goto("recheck")
    /\ UNCHANGED <<s, opening, pairing, peerVars, wire, low, remote>>

AfterRecheckBlind == "low"

AfterRecheck == IF Room THEN "push" ELSE "low"

\* looks again, because the buffer may have drained before,
Recheck ==
    /\ pc = "recheck"
    /\ Goto(AfterRecheck)
    /\ UNCHANGED <<s, opening, pairing, peerVars, flowVars, remote>>

\* and waits for the event, the connection's end or the timer.
AwaitLow ==
    /\ pc = "low"
    /\ \/ /\ low
          /\ low' = FALSE
          /\ IF Room THEN Goto("push") ELSE Goto("low")
       \/ Fails("release") /\ UNCHANGED low                  \* Done or bufferBackpressureTimeout
    /\ UNCHANGED <<s, opening, pairing, peerVars, wire, threshold, remote>>

\* After the data: the next file's header ahead of time, or the final delimiter.
EndFile ==
    /\ pc = "data" /\ chunk = Chunks
    /\ \/ SendFails
       \/ /\ TRUE \in Sends
          /\ wire' = Append(wire, IF index < Len(queue)
                                  THEN [kind |-> "header", file |-> queue[index + 1]]
                                  ELSE [kind |-> "end"])
          /\ announced' = (index < Len(queue))
          /\ pc' = "ack"
          /\ UNCHANGED <<outcome, queue, index, chunk>>
    /\ UNCHANGED <<s, opening, pairing, peerVars, low, threshold, remote>>

GoodAckOfAny(a) == a.ok

GoodAck(a) == a.id = queue[index] /\ a.ok

AckTimeoutMissing == FALSE

\* time.After(fileAcceptTimeout)
AckTimeout == TRUE

AwaitAck ==
    /\ pc = "ack"
    /\ \/ /\ s.results # <<>>
          /\ s' = [s EXCEPT !.results = <<>>]
          /\ IF GoodAck(Head(s.results))
             THEN /\ index' = index + 1
                  /\ pc' = IF index < Len(queue) THEN "file" ELSE "flush"
                  /\ UNCHANGED <<outcome, queue, chunk, announced>>
             ELSE Fails("release")
       \/ (Closed \/ AckTimeout) /\ Fails("release") /\ UNCHANGED s
    /\ UNCHANGED <<opening, pairing, peerVars, flowVars, remote>>

\* WaitBufferEmptyWithTimeout; a timeout alone is only logged.  The state is
\* set without the mutex.
Flush ==
    /\ pc = "flush"
    /\ \/ Closed /\ Fails("release") /\ UNCHANGED s
       \/ /\ wire = <<>> \/ ~Closed
          /\ s' = [s EXCEPT !.state = "done"]
          /\ pc' = "release" /\ outcome' = "ok"
          /\ UNCHANGED <<queue, index, chunk, announced>>
    /\ UNCHANGED <<opening, pairing, peerVars, flowVars, remote>>

-----------------------------------------------------------------------------
(* The main goroutine: Close *)

\* The flag is set and the channels are closed in one critical section.
Close ==
    /\ pc = "release" /\ MutexFree
    /\ s' = [s EXCEPT !.closed = TRUE]
    /\ Goto(IF link = "none" THEN "exit" ELSE "disconnect")
    /\ UNCHANGED <<opening, pairing, peerVars, flowVars, remote>>

\* PeerConnection.Close: notifyClose, or waiting for the one that is running,
ClosePeer ==
    /\ pc \in {"hangup", "disconnect"}
    /\ \/ closing = "no" /\ closing' = "handler" /\ UNCHANGED <<mainVars, link, wire>>
       \/ /\ closing = "done"                                \* then the connection
          /\ link' = "closed" /\ wire' = <<>>
          /\ Goto(IF pc = "hangup" THEN "release" ELSE "exit")
          /\ UNCHANGED closing
    /\ UNCHANGED <<s, opening, pairing, low, threshold, remote>>

-----------------------------------------------------------------------------
(* Callbacks *)

Offer(n) == IF n = 0 THEN 1 ELSE n     \* a send that does not wait

failLocked(t) ==
    IF t.closed THEN [t EXCEPT !.state = "done"]
    ELSE [t EXCEPT !.state = "done", !.errors = Offer(@)]

callbackUnchanged == <<mainVars, peerVars, flowVars, remote>>

ChannelOpens ==
    /\ link = "answered"
    /\ link' = "open" /\ opening' = "due"
    /\ UNCHANGED <<mainVars, s, pairing, closing, flowVars, remote>>

\* ICE disconnected or failed, the channel closed or broke: notifyClose.
ConnectionLost ==
    /\ link \in {"connecting", "answered", "open"} /\ closing = "no"
    /\ closing' = "handler"
    /\ UNCHANGED <<mainVars, s, opening, pairing, link, flowVars, remote>>

\* The handler Send gave to OnClose.
HandleClose ==
    /\ closing = "handler" /\ MutexFree
    /\ closing' = "done"
    /\ s' = IF ~s.closed /\ s.state # "done" THEN failLocked(s) ELSE s
    /\ UNCHANGED <<mainVars, opening, pairing, link, flowVars, remote>>

\* The open callback; a failure is sent on errors and may wait there, mutex held.
startNonceExchange ==
    /\ opening = "due"
    /\ \E sent \in Sends :
          /\ s' = IF sent THEN [s EXCEPT !.state = "nonce"]
                  ELSE IF ~s.closed THEN [s EXCEPT !.errors = Offer(@)] ELSE s
          /\ opening' = IF ~sent /\ ~s.closed /\ s.errors = 1 THEN "stuck" ELSE "done"
    /\ UNCHANGED <<callbackUnchanged, pairing>>

ErrorTaken ==
    /\ opening = "stuck" /\ s.errors = 0
    /\ s' = [s EXCEPT !.errors = 1]
    /\ opening' = "done"
    /\ UNCHANGED <<callbackUnchanged, pairing>>

\* The message callback can run.
Delivers == link = "open" /\ MutexFree /\ ~pairing

handleNonceResponse ==
    /\ Delivers /\ s.state = "nonce"
    /\ TRUE \in Sends
    /\ s' = [s EXCEPT !.state = "token"]
    /\ UNCHANGED <<callbackUnchanged, opening, pairing>>

\* OK leads to the file list, PIN_REQUIRED to a PIN, a refusal to failLocked.
handleTokenResponse ==
    /\ Delivers /\ s.state \in {"token", "pin"}
    /\ \/ s' = failLocked(s)                                 \* refused, or the PIN not sent
       \/ TRUE \in Sends /\ \E next \in {"pin", "accept"} : s' = [s EXCEPT !.state = next]
    /\ UNCHANGED <<callbackUnchanged, opening, pairing>>

handleFileAcceptance ==
    /\ Delivers /\ s.state = "accept"
    /\ \/ /\ s' = IF s.closed THEN s ELSE [s EXCEPT !.declined = Offer(@)]
          /\ UNCHANGED pairing
       \/ s' = failLocked(s) /\ UNCHANGED pairing            \* PAIR with a wrong key
       \/ pairing' = TRUE /\ UNCHANGED s                     \* PAIR: the mutex is released
       \/ /\ \E ids \in SUBSET (File \cup {Stranger}) :
                s' = [s EXCEPT !.state = "sending",
                               !.accepted = IF ~s.closed /\ @ = <<>> THEN <<ids>> ELSE @]
          /\ UNCHANGED pairing
    /\ UNCHANGED <<callbackUnchanged, opening>>

\* onPairRequest returned; either answer is sent and the state stays.
PairAnswered ==
    /\ pairing /\ MutexFree
    /\ pairing' = FALSE
    /\ UNCHANGED <<callbackUnchanged, s, opening>>

\* A file_response: the result and, for a failure, an error, if there is room;
\* after Close it is ignored.
handleFileResponse ==
    /\ Delivers /\ remote.replies # <<>>
    /\ LET a == Head(remote.replies)
       IN s' = IF s.closed THEN s
               ELSE [s EXCEPT !.results = IF @ = <<>> THEN <<a>> ELSE @,
                              !.errors = IF a.ok THEN @ ELSE Offer(@)]
    /\ remote' = [remote EXCEPT !.replies = Tail(@)]
    /\ UNCHANGED <<mainVars, opening, pairing, peerVars, flowVars>>

-----------------------------------------------------------------------------
(* The remote side *)

\* The end of the current file, if there is one: it is acknowledged, as saved
\* only if all of it came.
Finished(rem, ok) ==
    IF rem.cur = {} THEN rem
    ELSE LET f == CHOOSE x \in rem.cur : TRUE
             whole == rem.got = Chunks /\ ok
         IN [rem EXCEPT !.cur = {}, !.got = 0,
                        !.saved = IF whole THEN @ \cup {f} ELSE @,
                        !.garbled = @ \/ rem.got # Chunks,
                        !.replies = Append(@, [id |-> f, ok |-> whole])]

\* The remote reads a frame; the buffer shrinks, and crossing the threshold
\* puts a token into bufferedAmountLow unless one is there.
RemoteReads ==
    /\ link = "open" /\ wire # <<>>
    /\ wire' = Tail(wire)
    /\ low' = (low \/ (Len(wire) > threshold /\ Len(wire) - 1 <= threshold))
    /\ LET frame == Head(wire)
       IN \E ok \in BOOLEAN :
          \/ /\ frame.kind = "header"
             /\ remote' = [Finished(remote, ok) EXCEPT !.cur = {frame.file}]
          \/ /\ frame.kind = "data"
             /\ remote' = [remote EXCEPT !.got = IF @ < Chunks THEN @ + 1 ELSE @,
                                         !.garbled = @ \/ remote.cur # {frame.file}
                                                       \/ remote.got = Chunks]
          \/ /\ frame.kind = "end"
             /\ remote' = Finished(remote, ok)
    /\ UNCHANGED <<mainVars, s, opening, pairing, peerVars, threshold>>

RemoteStrays(f, ok) ==
    /\ link = "open" /\ s.state = "sending"
    /\ f \notin remote.stray /\ Cardinality(remote.stray) < MaxStray
    /\ remote' = [remote EXCEPT !.stray = @ \cup {f},
                                !.replies = Append(@, [id |-> f, ok |-> ok])]
    /\ UNCHANGED <<mainVars, s, opening, pairing, peerVars, flowVars>>

-----------------------------------------------------------------------------
Main ==
    \/ Start \/ AwaitAnswer \/ AwaitAcceptance
    \/ BeginFile \/ SendChunk \/ BufferFull \/ Arm \/ Recheck \/ AwaitLow
    \/ EndFile \/ AwaitAck \/ Flush \/ Close \/ ClosePeer

Callback ==
    \/ HandleClose \/ startNonceExchange \/ ErrorTaken \/ PairAnswered

Message ==
    \/ handleNonceResponse \/ handleTokenResponse \/ handleFileAcceptance \/ handleFileResponse

Next ==
    \/ Main \/ Callback \/ Message
    \/ ChannelOpens \/ ConnectionLost \/ RemoteReads
    \/ \E f \in File, ok \in BOOLEAN : RemoteStrays(f, ok)

Spec == Init /\ [][Next]_vars

\* Goroutines run and timers fire.  Nothing is assumed of the remote side.
FairSpec ==
    /\ Spec
    /\ WF_vars(Main) /\ WF_vars(HandleClose) /\ WF_vars(startNonceExchange) /\ WF_vars(ErrorTaken)

-----------------------------------------------------------------------------
(* Properties *)

\* SendFiles reports success only if every file it was to send was saved whole
\* or acknowledged under its own id: an acknowledgement that is late, doubled
\* or out of turn is not taken for another file's.
SuccessMeansSaved ==
    outcome = "ok" => Range(queue) \subseteq remote.saved \cup remote.stray

\* The remote side sees every data frame under its own file's header and
\* every file end with all of its frames, although headers are sent ahead.
WireFramed == ~remote.garbled

\* While the sender waits for the buffer to drain, a token is there as soon as
\* it has: no drain is missed between reading the amount and arming the event.
NoMissedDrain == pc = "low" /\ Room => low

\* Headers and the delimiter are sent without waiting, and yet the send buffer
\* never holds more than two frames above the limit.
BufferBounded == remote.stray = {} => Len(wire) <= Limit + 2

\* Flow control neither sleeps through a drain nor lets the buffer grow
\* (WaitBufferBelowWithTimeout and the sends that do not call it).
FlowSound == TypeOK /\ NoMissedDrain /\ BufferBounded

\* The program ends whatever the remote side does or does not do, unless the
\* open callback is caught with the mutex held.
EndsOrStuck == <>(pc = "exit" \/ opening = "stuck")

=============================================================================
