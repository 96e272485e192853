---------------------------- MODULE RTCReceiver ----------------------------
(***************************************************************************)
(* The WebRTC receiver (webrtc/transfer/receiver.go): one receive session  *)
(* at a time, its handshake, its file writers, and the connections whose   *)
(* callbacks drive it.                                                     *)
(*                                                                         *)
(* Three kinds of goroutines meet on the receiver's mutex: the offer       *)
(* listener in AcceptOffer, the data-channel callback of every connection  *)
(* that still delivers, and the close callbacks.  A message handler does   *)
(* not know which connection called it.  handleFileList drops the mutex    *)
(* around the selection callback.  The receiver's fields are one record r; *)
(* an operator Op(s) gives the record a method leaves.                     *)
(*                                                                         *)
(* Data abstracted: keys, nonces and tokens to whether they verify, file   *)
(* contents to a count of chunks, chunked control messages to the          *)
(* assembled message; whether a finished file is kept or removed leaves    *)
(* the same receiver.  A sender may send anything at any time.             *)
(***************************************************************************)
EXTENDS Integers, FiniteSets

CONSTANTS
    Conn,            \* peer connections, one per offer
    Peer,            \* signaling IDs of senders
    File,            \* file IDs
    None,            \* no connection, no file
    Pin,             \* whether the receiver has a PIN
    RequirePairing,  \* the require-pairing option
    Size,            \* declared size of a file, in chunks
    MaxPINAttempts   \* constants.MaxPINAttempts

ASSUME ReceiverAssumption ==
    /\ None \notin Conn \cup File
    /\ {Pin, RequirePairing} \subseteq BOOLEAN
    /\ Size \in Nat /\ MaxPINAttempts \in Nat \ {0}

VARIABLES
    r,        \* the RTCReceiver
    conn,     \* state of each PeerConnection
    listen,   \* the offer listener's AcceptOffer call
    picks,    \* handleFileList calls inside onSelectFiles, with the files they saw
    blocked,  \* blockedPeers
    down      \* receiver.Close was called: the signaling client is gone

vars == <<r, conn, listen, picks, blocked, down>>

-----------------------------------------------------------------------------
State == {"nonce", "token", "pin", "list", "pair", "files", "receiving", "done"}

\* "new" created, "open" the data channel is open, "lost" the close was
\* reported (ICE disconnected, error) but messages still arrive, "closed"
ConnState == {"none", "new", "open", "lost", "closed"}

Receiver ==
    [peer : Conn \cup {None}, accepting : BOOLEAN, state : State,
     sender : Peer \cup {None}, pinAttempts : 0..MaxPINAttempts, pinOK : BOOLEAN,
     key : BOOLEAN, paired : BOOLEAN,
     files : SUBSET File, accepted : SUBSET File, tokens : SUBSET File,
     cur : File \cup {None}, bytes : 0..Size,
     paths : SUBSET File, active : BOOLEAN,
     closing : SUBSET Conn, stray : BOOLEAN]

Listener == [pc : {"idle", "checked", "reserved", "installed"},
             conn : Conn \cup {None}, peer : Peer \cup {None}]

Idle == [pc |-> "idle", conn |-> None, peer |-> None]

Init ==
    /\ r = [peer |-> None, accepting |-> FALSE, state |-> "nonce", sender |-> None,
            pinAttempts |-> 0, pinOK |-> FALSE, key |-> FALSE, paired |-> FALSE,
            files |-> {}, accepted |-> {}, tokens |-> {}, cur |-> None, bytes |-> 0,
            paths |-> {}, active |-> FALSE,
            closing |-> {}, stray |-> FALSE]
    /\ conn = [c \in Conn |-> "none"]
    /\ listen = Idle
    /\ picks = {} /\ blocked = {} /\ down = FALSE

-----------------------------------------------------------------------------
(* Methods that run with the mutex held.                                   *)

cleanupPartialFilesLocked(s) ==
    [s EXCEPT !.paths = {}, !.active = FALSE, !.cur = None, !.bytes = 0]

\* the connection stays until its goroutine has closed it
DropPeerLate(s) ==
    [s EXCEPT !.closing = IF s.peer = None THEN @ ELSE @ \cup {s.peer}]

\* hand the connection to a goroutine that closes it
DropPeer(s) ==
    [s EXCEPT !.peer = None, !.closing = IF s.peer = None THEN @ ELSE @ \cup {s.peer}]

terminateLocked(s) == DropPeer([cleanupPartialFilesLocked(s) EXCEPT !.state = "done"])

CleanupForgetsFiles(s, c) ==
    IF s.peer # c THEN s
    ELSE [s EXCEPT !.peer = None, !.accepting = FALSE, !.state = "done"]

handlePeerClosed(s, c) ==
    IF s.peer # c THEN s
    ELSE [cleanupPartialFilesLocked(s) EXCEPT !.peer = None, !.accepting = FALSE, !.state = "done"]

RejectForgets(s) == [s EXCEPT !.peer = None, !.cur = None, !.state = "files"]

rejectFileTransfer(s) == [DropPeer(s) EXCEPT !.cur = None, !.state = "files"]

cleanupCurrentFile(s) ==
    [s EXCEPT !.paths = @ \ {s.cur}, !.active = FALSE, !.cur = None, !.bytes = 0]

\* finishCurrentFile: kept and reported, or removed as incomplete or unsaved,
\* the file is no longer in progress
finishCurrentFile(s) ==
    [s EXCEPT !.paths = @ \ {s.cur}, !.active = FALSE, !.cur = None, !.bytes = 0]

\* startReceivingFile: the id must have a token that matches and be in the
\* current list; directory or file may fail
startReceivingFile(s, f, valid, creates) ==
    IF f \in s.tokens \cap s.files /\ valid /\ creates
    THEN [s EXCEPT !.paths = @ \cup {f}, !.active = TRUE, !.cur = f, !.bytes = 0,
                   !.state = "receiving"]
    ELSE rejectFileTransfer(s)

handleBinaryData(s) ==
    IF s.cur = None \/ s.bytes = Size THEN rejectFileTransfer(cleanupCurrentFile(s))
    ELSE [s EXCEPT !.bytes = @ + 1]

\* whether a send works: only on an open channel, and not always there
Sends == {FALSE, r.peer # None /\ conn[r.peer] = "open"}

\* acceptance with tokens for the ids that are listed and have a usable name;
\* when it cannot be sent the tokens stay
AcceptFiles(s, named, sent) ==
    LET t == [s EXCEPT !.tokens = @ \cup (named \cap s.files)]
    IN IF sent THEN [t EXCEPT !.state = "files"] ELSE t

-----------------------------------------------------------------------------
(* AcceptOffer, in the listener goroutine.                                 *)

CheckBlocked(c, p) ==
    /\ listen.pc = "idle" /\ conn[c] = "none" /\ p \notin blocked
    /\ listen' = [pc |-> "checked", conn |-> c, peer |-> p]
    /\ UNCHANGED <<r, conn, picks, blocked, down>>

BusyAccepting(s) == s.accepting

Busy(s) == s.accepting \/ (s.peer # None /\ s.state # "done")

ResetKeepsFiles(s, p) ==
    [DropPeer(cleanupPartialFilesLocked(s)) EXCEPT
        !.accepting = TRUE, !.state = "nonce", !.sender = p,
        !.pinAttempts = 0, !.pinOK = FALSE, !.key = FALSE, !.paired = FALSE, !.stray = FALSE]

ResetKeepsKey(s, p) ==
    [DropPeer(cleanupPartialFilesLocked(s)) EXCEPT
        !.accepting = TRUE, !.state = "nonce", !.sender = p,
        !.pinAttempts = 0, !.pinOK = FALSE, !.paired = FALSE,
        !.files = {}, !.accepted = {}, !.tokens = {}, !.stray = FALSE]

Reset(s, p) ==
    [DropPeer(cleanupPartialFilesLocked(s)) EXCEPT
        !.accepting = TRUE, !.state = "nonce", !.sender = p,
        !.pinAttempts = 0, !.pinOK = FALSE, !.key = FALSE, !.paired = FALSE,
        !.files = {}, !.accepted = {}, !.tokens = {}, !.stray = FALSE]

Reserve ==
    /\ listen.pc = "checked"
    /\ IF Busy(r) THEN r' = r /\ listen' = Idle
       ELSE r' = Reset(r, listen.peer) /\ listen' = [listen EXCEPT !.pc = "reserved"]
    /\ UNCHANGED <<conn, picks, blocked, down>>

\* the SDP or the new peer connection is bad
FailAccept ==
    /\ listen.pc = "reserved"
    /\ r' = [r EXCEPT !.accepting = FALSE, !.state = "done"]
    /\ listen' = Idle
    /\ UNCHANGED <<conn, picks, blocked, down>>

Install ==
    LET c == listen.conn
    IN /\ listen.pc = "reserved"
       /\ IF r.accepting
          THEN /\ r' = [r EXCEPT !.peer = c, !.accepting = FALSE]
               /\ conn' = [conn EXCEPT ![c] = "new"]
               /\ listen' = [listen EXCEPT !.pc = "installed"]
          ELSE /\ conn' = [conn EXCEPT ![c] = "closed"]
               /\ listen' = Idle /\ r' = r
       /\ UNCHANGED <<picks, blocked, down>>

\* the answer is sent, or fails and the connection is closed
Answer(sent) ==
    LET c == listen.conn
    IN /\ listen.pc = "installed" /\ (sent => ~down)
       /\ IF sent THEN r' = r /\ conn' = conn
          ELSE r' = handlePeerClosed(r, c) /\ conn' = [conn EXCEPT ![c] = "closed"]
       /\ listen' = Idle
       /\ UNCHANGED <<picks, blocked, down>>

-----------------------------------------------------------------------------
(* Connections.                                                            *)

ChannelOpens(c) ==
    /\ conn[c] = "new" /\ listen.conn # c
    /\ conn' = [conn EXCEPT ![c] = "open"]
    /\ UNCHANGED <<r, listen, picks, blocked, down>>

\* notifyClose: nobody closes the connection, and ICE may recover
ConnectionLost(c) ==
    /\ conn[c] \in {"new", "open"} /\ listen.conn # c
    /\ conn' = [conn EXCEPT ![c] = "lost"]
    /\ r' = handlePeerClosed(r, c)
    /\ UNCHANGED <<listen, picks, blocked, down>>

\* the goroutine of terminateLocked, rejectFileTransfer or the last delimiter
CloseDropped(c) ==
    /\ c \in r.closing
    /\ conn' = [conn EXCEPT ![c] = "closed"]
    /\ r' = [handlePeerClosed(r, c) EXCEPT !.closing = @ \ {c}]
    /\ UNCHANGED <<listen, picks, blocked, down>>

\* the callback of c runs: it delivers, and is not inside onSelectFiles
Delivers(c) == conn[c] \in {"open", "lost"} /\ \A k \in picks : k.conn # c

\* what a handler called by c leaves; history: another connection's session
By(c, s) == [s EXCEPT !.stray = @ \/ r.peer \notin {None, c}]

-----------------------------------------------------------------------------
(* Message handlers, one per receiver state.                               *)

HandleNonce(c) ==
    /\ Delivers(c) /\ r.state = "nonce" /\ TRUE \in Sends
    /\ r' = By(c, [r EXCEPT !.state = "token"])
    /\ UNCHANGED <<conn, listen, picks, blocked, down>>

AfterToken == IF Pin THEN "pin" ELSE "list"

\* a trusted sender is recognised only when pairing is required; the history
\* field paired notes that this session's sender was recognised or accepted
\* pairing
HandleToken(c) ==
    /\ Delivers(c) /\ r.state = "token"
    /\ \E known \in {FALSE, RequirePairing} :
          r' = By(c, [r EXCEPT !.key = @ \/ known, !.paired = @ \/ known, !.state = AfterToken])
    /\ UNCHANGED <<conn, listen, picks, blocked, down>>

LastTry(tries) == tries >= MaxPINAttempts

HandlePin(c, right) ==
    LET tries == r.pinAttempts + 1
        wrong == [r EXCEPT !.pinAttempts = tries]
    IN /\ Delivers(c) /\ r.state = "pin"
       /\ IF right THEN r' = By(c, [r EXCEPT !.state = "list", !.pinOK = TRUE]) /\ blocked' = blocked
          ELSE IF LastTry(tries)
          THEN r' = By(c, terminateLocked(wrong)) /\ blocked' = blocked \cup {r.sender}
          ELSE r' = By(c, wrong) /\ blocked' = blocked
       /\ UNCHANGED <<conn, listen, picks, down>>

\* the sender asks for a PIN of its own and the answer cannot be sent, or it
\* gives up
HandleSenderPin(c) ==
    /\ Delivers(c) /\ r.state = "list"
    /\ r' = By(c, terminateLocked(r))
    /\ UNCHANGED <<conn, listen, picks, blocked, down>>

HandleFileList(c, fs) ==
    /\ Delivers(c) /\ r.state = "list"
    /\ r' = By(c, [r EXCEPT !.files = fs])
    /\ picks' = picks \cup {[conn |-> c, files |-> fs]}
    /\ UNCHANGED <<conn, listen, blocked, down>>

\* the second half of handleFileList, whatever happened meanwhile
FilesSelected(k, ids) ==
    LET s == By(k.conn, [r EXCEPT !.accepted = ids])
    IN /\ k \in picks /\ ids \subseteq k.files
       /\ picks' = picks \ {k}
       /\ IF r.peer = None \/ ids = {} THEN r' = s
          ELSE IF RequirePairing /\ ~r.key
          THEN \E sent \in Sends : r' = [s EXCEPT !.state = IF sent THEN "pair" ELSE @]
          ELSE \E named \in SUBSET ids, sent \in Sends : r' = AcceptFiles(s, named, sent)
       /\ UNCHANGED <<conn, listen, blocked, down>>

\* PAIR accepted, with a public key that verifies the sender's token or
\* without one; a key that does not verify changes nothing
HandlePairAccepted(c, withKey) ==
    /\ Delivers(c) /\ r.state = "pair"
    /\ \E named \in SUBSET r.accepted, sent \in Sends :
          r' = By(c, AcceptFiles([r EXCEPT !.key = @ \/ withKey, !.paired = TRUE], named, sent))
    /\ UNCHANGED <<conn, listen, picks, blocked, down>>

HandlePairDeclined(c) ==
    /\ Delivers(c) /\ r.state = "pair"
    /\ IF RequirePairing THEN r' = By(c, terminateLocked(r))
       ELSE \E named \in SUBSET r.accepted, sent \in Sends :
               r' = By(c, AcceptFiles(r, named, sent))
    /\ UNCHANGED <<conn, listen, picks, blocked, down>>

HandleFileHeader(c, f, valid) ==
    /\ Delivers(c) /\ r.state = "files"
    /\ \E creates \in BOOLEAN : r' = By(c, startReceivingFile(r, f, valid, creates))
    /\ UNCHANGED <<conn, listen, picks, blocked, down>>

\* text that is no message, taken for file content without a header
HandleStrayText(c) ==
    /\ Delivers(c) /\ r.state = "files"
    /\ r' = By(c, handleBinaryData(r))
    /\ UNCHANGED <<conn, listen, picks, blocked, down>>

HandleData(c) ==
    /\ Delivers(c) /\ r.state = "receiving" /\ r.cur # None
    /\ r' = By(c, handleBinaryData(r))
    /\ UNCHANGED <<conn, listen, picks, blocked, down>>

\* a text frame ends the file: the final delimiter, the next header, or junk
HandleDelimiter(c) ==
    /\ Delivers(c) /\ r.state = "receiving" /\ r.cur # None
    /\ r' = By(c, DropPeer([finishCurrentFile(r) EXCEPT !.state = "done"]))
    /\ UNCHANGED <<conn, listen, picks, blocked, down>>

HandleNextHeader(c, f, valid) ==
    /\ Delivers(c) /\ r.state = "receiving" /\ r.cur # None
    /\ \E creates \in BOOLEAN :
          r' = By(c, startReceivingFile(finishCurrentFile(r), f, valid, creates))
    /\ UNCHANGED <<conn, listen, picks, blocked, down>>

HandleBadBoundary(c) ==
    /\ Delivers(c) /\ r.state = "receiving" /\ r.cur # None
    /\ r' = By(c, terminateLocked(finishCurrentFile(r)))
    /\ UNCHANGED <<conn, listen, picks, blocked, down>>

-----------------------------------------------------------------------------
\* Close, by the reconnect loop when signaling is lost; offers still queued
\* in the client may be taken up afterwards
Close ==
    /\ ~down
    /\ down' = TRUE
    /\ r' = DropPeer([cleanupPartialFilesLocked(r) EXCEPT !.accepting = FALSE, !.state = "done"])
    /\ UNCHANGED <<conn, listen, picks, blocked>>

\* pinBlockDuration passes
BlockExpires(p) ==
    /\ p \in blocked
    /\ blocked' = blocked \ {p}
    /\ UNCHANGED <<r, conn, listen, picks, down>>

Handshake(c) ==
    \/ HandleNonce(c) \/ HandleToken(c) \/ HandleSenderPin(c)
    \/ \E right \in BOOLEAN : HandlePin(c, right)
    \/ \E fs \in SUBSET File : HandleFileList(c, fs)
    \/ \E withKey \in BOOLEAN : HandlePairAccepted(c, withKey)
    \/ HandlePairDeclined(c)

Transfer(c) ==
    \/ \E f \in File, valid \in BOOLEAN : HandleFileHeader(c, f, valid)
    \/ HandleStrayText(c) \/ HandleData(c) \/ HandleDelimiter(c) \/ HandleBadBoundary(c)
    \/ \E f \in File, valid \in BOOLEAN : HandleNextHeader(c, f, valid)

Next ==
    \/ \E c \in Conn, p \in Peer : CheckBlocked(c, p)
    \/ Reserve \/ FailAccept \/ Install
    \/ \E sent \in BOOLEAN : Answer(sent)
    \/ \E c \in Conn : ChannelOpens(c) \/ ConnectionLost(c) \/ CloseDropped(c)
    \/ \E c \in Conn : Handshake(c) \/ Transfer(c)
    \/ \E k \in picks : \E ids \in SUBSET k.files : FilesSelected(k, ids)
    \/ Close
    \/ \E p \in Peer : BlockExpires(p)

Spec == Init /\ [][Next]_vars

-----------------------------------------------------------------------------
\* Types, and PIN attempts that end the session at MaxPINAttempts (handlePin).
TypeOK ==
    /\ r \in Receiver
    /\ conn \in [Conn -> ConnState]
    /\ listen \in Listener
    /\ picks \subseteq [conn : Conn, files : SUBSET File]
    /\ blocked \subseteq Peer \cup {None}
    /\ down \in BOOLEAN

\* The receiver refuses offers only for a live reason: an AcceptOffer under
\* way, or a session whose connection is up and not being closed.  No
\* interleaving of closes, rejects, lost connections and Close leaves it busy
\* for a connection that is gone (AcceptOffer, handlePeerClosed, terminateLocked).
BusyIsLive ==
    /\ r.accepting => listen.pc = "reserved" /\ r.peer = None
    /\ r.peer # None => /\ conn[r.peer] \in {"new", "open"}
                        /\ r.state # "done" /\ r.peer \notin r.closing

\* Every connection that was set up and not reported lost belongs to the
\* session or is being closed: neither an offer nor an abandoned accept
\* leaves one open without an owner (AcceptOffer, rejectFileTransfer, Close).
ConnectionOwned ==
    \A c \in Conn : conn[c] \in {"new", "open"} => c = r.peer \/ c \in r.closing

\* Until a handler called by another connection interferes, the four records
\* of the file in progress agree: currentFileID, the state, the open writer
\* and the activity report of OnTransferActivity; there is at most one
\* partial file.  The next AcceptOffer repairs what a stray handler broke.
FileStateAgrees ==
    r.stray \/ /\ r.state = "receiving" <=> r.cur # None
               /\ r.active <=> r.cur # None
               /\ r.paths = {r.cur} \ {None}

\* With a PIN no file token exists, and no file is written, in a session
\* whose PIN was not given: not even when the selection callback of an
\* earlier session's handleFileList returns into it (AcceptOffer's resets).
PinBeforeFiles == Pin /\ (r.tokens # {} \/ r.cur # None) => r.pinOK

\* With pairing required no file token exists, and no file is written, in a
\* session whose sender was neither recognised as trusted nor accepted
\* pairing: not for a key left by an earlier session, nor when that session's
\* selection returns into this one and skips PAIR, nor after PAIR_DECLINED
\* (handleToken, handleFileList, handlePairResponse, AcceptOffer's resets).
PairBeforeFiles == RequirePairing /\ (r.tokens # {} \/ r.cur # None) => r.paired

Slot == INSTANCE ReceiveSlot WITH
    reserved <- r.accepting,
    owner    <- r.peer,
    seen     <- {c \in Conn : conn[c] # "none"}

\* The receiver is one slot that senders take turns in: whatever offers,
\* losses, rejects and Close interleave, AcceptOffer takes the session from no
\* connection that has it, installs one only for a reservation still in force,
\* and none for a second time (AcceptOffer, handlePeerClosed, Close).
OneAtATime == Slot!Spec

\* "A duplicate or second sender must never tear down an in-progress
\* transfer": a message of another connection leaves the transfer alone.
LeavesTransfer(c) ==
    r.cur # None /\ r.peer \notin {None, c} /\ (Handshake(c) \/ Transfer(c))
        => r'.cur = r.cur /\ r'.bytes = r.bytes /\ r'.state = r.state

OthersIgnored == [][\A c \in Conn : LeavesTransfer(c)]_vars
=============================================================================
