------------------------- MODULE RTCReceiverProofs -------------------------
(***************************************************************************)
(* Proofs about RTCReceiver: types, the invariants of its session, its     *)
(* connections and its files, for every number of connections, senders,    *)
(* files and chunks.                                                       *)
(*                                                                         *)
(* Each operator on the receiver's record has a lemma for its type and one *)
(* for the fields it changes; the step lemmas, one per action, use those   *)
(* and not the definitions.  The last part shows that RTCReceiver          *)
(* implements ReceiveSlot.                                                 *)
(***************************************************************************)
EXTENDS RTCReceiver, TLAPS

\* The accept under way is for a connection that was not set up before; while
\* it holds the reservation the session is fresh, or was closed by Close.
ListenInv ==
    /\ listen.pc \in {"checked", "reserved"} => listen.conn \in Conn /\ conn[listen.conn] = "none"
    /\ listen.pc = "installed" => listen.conn \in Conn /\ conn[listen.conn] # "none"
    /\ listen.pc = "reserved" =>
          r.peer = None /\ (r.state = "nonce" \/ (r.state = "done" /\ ~r.accepting))

\* A session beyond the nonce has a connection, or is a rejected transfer; a
\* session that goes on has PIN attempts left.
StateInv ==
    /\ r.peer = None => r.state \in {"nonce", "done", "files", "receiving"}
    /\ r.accepting => r.state = "nonce"
    /\ r.state # "done" => r.pinAttempts < MaxPINAttempts
    /\ \A c \in r.closing : conn[c] # "none"

\* A selection under way holds up its own connection, so that only another
\* connection's handler can move its session on meanwhile.
PickInv ==
    \A k \in picks :
        /\ conn[k.conn] # "none"
        /\ ~r.stray /\ k.conn = r.peer => r.state = "list"
        /\ \A k2 \in picks : k2.conn = k.conn => k2 = k

\* The PIN was given before anything that leads to a token.
PinInv ==
    Pin => (r.state = "list" \/ r.files # {} \/ r.tokens # {} \/ r.cur # None => r.pinOK)

\* A key is kept, and a token issued where pairing is required, only after
\* this session's sender was recognised or accepted pairing.
PairInv ==
    /\ r.key => r.paired
    /\ RequirePairing /\ (r.tokens # {} \/ r.cur # None) => r.paired

\* The inductive invariant.
IndInv ==
    /\ TypeOK /\ ListenInv /\ StateInv /\ PickInv /\ PinInv
    /\ BusyIsLive /\ ConnectionOwned /\ FileStateAgrees /\ PairInv

-----------------------------------------------------------------------------
(* What each operator returns is a receiver.                               *)

\* The least values are in range, and None is no connection or file.
LEMMA Zero == 0 \in 0..Size /\ 0 \in 0..MaxPINAttempts /\ None \notin Conn /\ None \notin File
BY ReceiverAssumption

\* cleanupPartialFilesLocked returns a receiver.
LEMMA CleanupType == ASSUME NEW s \in Receiver PROVE cleanupPartialFilesLocked(s) \in Receiver
<1>1. {} \in SUBSET File OBVIOUS
<1> QED BY Zero, <1>1 DEF cleanupPartialFilesLocked, Receiver

\* DropPeer returns a receiver.
LEMMA DropPeerType == ASSUME NEW s \in Receiver PROVE DropPeer(s) \in Receiver
BY Zero DEF DropPeer, Receiver

\* Any state may be assigned.
LEMMA StateType ==
    ASSUME NEW s \in Receiver, NEW st \in State PROVE [s EXCEPT !.state = st] \in Receiver
BY DEF Receiver

\* terminateLocked returns a receiver.
LEMMA TerminateType == ASSUME NEW s \in Receiver PROVE terminateLocked(s) \in Receiver
BY CleanupType, DropPeerType, StateType DEF terminateLocked, State

\* handlePeerClosed returns a receiver.
LEMMA PeerClosedType ==
    ASSUME NEW s \in Receiver, NEW c PROVE handlePeerClosed(s, c) \in Receiver
<1> DEFINE t == cleanupPartialFilesLocked(s)
<1>1. t \in Receiver BY CleanupType
<1> HIDE DEF t
<1>2. [t EXCEPT !.peer = None, !.accepting = FALSE, !.state = "done"] \in Receiver
  BY ZenonT(60), <1>1 DEF Receiver, State
<1> QED BY <1>2 DEF handlePeerClosed, t

\* rejectFileTransfer returns a receiver.
LEMMA RejectType == ASSUME NEW s \in Receiver PROVE rejectFileTransfer(s) \in Receiver
<1> DEFINE t == DropPeer(s)
<1>1. t \in Receiver BY DropPeerType
<1> HIDE DEF t
<1>2. [t EXCEPT !.cur = None, !.state = "files"] \in Receiver BY <1>1 DEF Receiver, State
<1> QED BY <1>2 DEF rejectFileTransfer, t

\* cleanupCurrentFile returns a receiver.
LEMMA CleanupCurrentType == ASSUME NEW s \in Receiver PROVE cleanupCurrentFile(s) \in Receiver
<1>1. s.paths \ {s.cur} \in SUBSET File BY DEF Receiver
<1> QED BY Zero, <1>1 DEF cleanupCurrentFile, Receiver

\* finishCurrentFile returns a receiver.
LEMMA FinishType == ASSUME NEW s \in Receiver PROVE finishCurrentFile(s) \in Receiver
<1>1. s.paths \ {s.cur} \in SUBSET File BY DEF Receiver
<1> QED BY Zero, <1>1 DEF finishCurrentFile, Receiver

\* startReceivingFile returns a receiver.
LEMMA StartType ==
    ASSUME NEW s \in Receiver, NEW f \in File, NEW valid \in BOOLEAN, NEW creates \in BOOLEAN
    PROVE  startReceivingFile(s, f, valid, creates) \in Receiver
<1>1. s.paths \cup {f} \in SUBSET File BY DEF Receiver
<1>2. [s EXCEPT !.paths = s.paths \cup {f}, !.active = TRUE, !.cur = f, !.bytes = 0,
                !.state = "receiving"] \in Receiver
  BY Zero, <1>1 DEF Receiver, State
<1> QED BY <1>2, RejectType DEF startReceivingFile

\* handleBinaryData returns a receiver.
LEMMA BinaryType == ASSUME NEW s \in Receiver PROVE handleBinaryData(s) \in Receiver
<1>1. CASE s.cur = None \/ s.bytes = Size
  BY <1>1, CleanupCurrentType, RejectType DEF handleBinaryData
<1>2. CASE ~(s.cur = None \/ s.bytes = Size)
  <2> DEFINE n == s.bytes + 1
  <2>1. n \in 0..Size BY <1>2, ReceiverAssumption DEF Receiver
  <2>2. handleBinaryData(s) = [s EXCEPT !.bytes = n]
    BY <1>2, Zenon DEF handleBinaryData
  <2> HIDE DEF n
  <2> QED BY <2>1, <2>2 DEF Receiver
<1> QED BY <1>1, <1>2

\* AcceptFiles returns a receiver.
LEMMA AcceptType ==
    ASSUME NEW s \in Receiver, NEW named, NEW sent PROVE AcceptFiles(s, named, sent) \in Receiver
<1> DEFINE t == [s EXCEPT !.tokens = s.tokens \cup (named \cap s.files)]
<1>1. s.tokens \cup (named \cap s.files) \in SUBSET File BY DEF Receiver
<1>2. t \in Receiver BY <1>1 DEF Receiver
<1> HIDE DEF t
<1> QED BY <1>2, StateType DEF AcceptFiles, t, State

\* Reset returns a receiver.
LEMMA ResetType == ASSUME NEW s \in Receiver, NEW p \in Peer \cup {None} PROVE Reset(s, p) \in Receiver
<1> DEFINE t == DropPeer(cleanupPartialFilesLocked(s))
<1>1. t \in Receiver BY CleanupType, DropPeerType
<1>2. {} \in SUBSET File OBVIOUS
<1> HIDE DEF t
<1> DEFINE u == [t EXCEPT !.accepting = TRUE, !.state = "nonce", !.sender = p, !.pinAttempts = 0]
<1>3. u \in Receiver BY Zero, <1>1 DEF Receiver, State
<1>4. Reset(s, p) = [u EXCEPT !.pinOK = FALSE, !.key = FALSE, !.paired = FALSE, !.files = {},
                              !.accepted = {}, !.tokens = {}, !.stray = FALSE]
  BY DEF Reset, t
<1> HIDE DEF u
<1> QED BY ZenonT(60), <1>2, <1>3, <1>4 DEF Receiver

\* By returns a receiver.
LEMMA ByType == ASSUME NEW s \in Receiver, NEW c PROVE By(c, s) \in Receiver
BY DEF By, Receiver

-----------------------------------------------------------------------------
(* Which fields an operator changes.                                       *)

\* The fields that outlive a message handler unless it issues tokens.
SameSession(s, t) ==
    /\ t.accepting = s.accepting /\ t.pinAttempts = s.pinAttempts /\ t.pinOK = s.pinOK
    /\ t.files = s.files /\ t.tokens = s.tokens

\* The connection stays.
SamePeer(s, t) == t.peer = s.peer /\ t.closing = s.closing

\* The connection is handed over for closing.
Dropped(s, t) ==
    t.peer = None /\ t.closing = (IF s.peer = None THEN s.closing ELSE s.closing \cup {s.peer})

\* The two outcomes of startReceivingFile.
Rejected(s, t) ==
    /\ Dropped(s, t) /\ t.state = "files"
    /\ t.cur = None /\ t.active = s.active /\ t.paths = s.paths

Started(s, t, f) ==
    /\ SamePeer(s, t) /\ t.state = "receiving" /\ f \in s.tokens
    /\ t.cur = f /\ t.active = TRUE /\ t.paths = s.paths \cup {f}

\* No file is in progress and nothing is left of one.
NoFile(t) == t.cur = None /\ t.active = FALSE /\ t.paths = {}

\* The fields of the receiver after By.
LEMMA ByFields ==
    ASSUME NEW s \in Receiver, NEW c
    PROVE  LET t == By(c, s)
           IN /\ SameSession(s, t) /\ SamePeer(s, t)
              /\ t.state = s.state /\ t.cur = s.cur /\ t.active = s.active /\ t.paths = s.paths
              /\ t.key = s.key /\ t.paired = s.paired /\ (t.stray <=> s.stray \/ r.peer \notin {None, c})
BY DEF By, Receiver, SameSession, SamePeer

\* The fields of the receiver after DropPeer.
LEMMA DropPeerFields ==
    ASSUME NEW s \in Receiver
    PROVE  LET t == DropPeer(s)
           IN /\ SameSession(s, t) /\ Dropped(s, t)
              /\ t.state = s.state /\ t.cur = s.cur /\ t.active = s.active /\ t.paths = s.paths
              /\ t.key = s.key /\ t.paired = s.paired /\ t.stray = s.stray
BY DEF DropPeer, Receiver, SameSession, Dropped

\* The fields of the receiver after cleanupPartialFilesLocked.
LEMMA CleanupFields ==
    ASSUME NEW s \in Receiver
    PROVE  LET t == cleanupPartialFilesLocked(s)
           IN /\ SameSession(s, t) /\ SamePeer(s, t) /\ NoFile(t)
              /\ t.state = s.state /\ t.key = s.key /\ t.paired = s.paired /\ t.stray = s.stray
BY DEF cleanupPartialFilesLocked, Receiver, SameSession, SamePeer, NoFile

\* Assigning the state changes nothing else.
LEMMA StateFields ==
    ASSUME NEW s \in Receiver, NEW st
    PROVE  LET t == [s EXCEPT !.state = st]
           IN /\ SameSession(s, t) /\ SamePeer(s, t)
              /\ t.state = st /\ t.cur = s.cur /\ t.active = s.active /\ t.paths = s.paths
              /\ t.key = s.key /\ t.paired = s.paired /\ t.stray = s.stray
BY DEF Receiver, SameSession, SamePeer

\* The fields of the receiver after terminateLocked.
LEMMA TerminateFields ==
    ASSUME NEW s \in Receiver
    PROVE  LET t == terminateLocked(s)
           IN /\ SameSession(s, t) /\ Dropped(s, t) /\ NoFile(t)
              /\ t.state = "done" /\ t.key = s.key /\ t.paired = s.paired /\ t.stray = s.stray
<1> DEFINE a == cleanupPartialFilesLocked(s)
           b == [a EXCEPT !.state = "done"]
<1>1. a \in Receiver BY CleanupType
<1>2. b \in Receiver BY <1>1, StateType DEF State
<1>3. terminateLocked(s) = DropPeer(b) BY DEF terminateLocked
<1> HIDE DEF a, b
<1>4. /\ SameSession(s, a) /\ SamePeer(s, a) /\ NoFile(a)
      /\ a.key = s.key /\ a.paired = s.paired /\ a.stray = s.stray
  BY CleanupFields DEF a
<1>5. /\ SameSession(a, b) /\ SamePeer(a, b) /\ b.state = "done"
      /\ b.cur = a.cur /\ b.active = a.active /\ b.paths = a.paths
      /\ b.key = a.key /\ b.paired = a.paired /\ b.stray = a.stray
  BY <1>1, StateFields DEF b
<1> QED BY SMTT(40), <1>2, <1>3, <1>4, <1>5, DropPeerFields DEF SameSession, SamePeer, Dropped, NoFile

\* The fields of the receiver after finishCurrentFile.
LEMMA FinishFields ==
    ASSUME NEW s \in Receiver
    PROVE  LET t == finishCurrentFile(s)
           IN /\ SameSession(s, t) /\ SamePeer(s, t)
              /\ t.state = s.state /\ t.cur = None /\ t.active = FALSE /\ t.paths = s.paths \ {s.cur}
              /\ t.key = s.key /\ t.paired = s.paired /\ t.stray = s.stray
BY DEF finishCurrentFile, Receiver, SameSession, SamePeer

\* The fields of the receiver after rejectFileTransfer.
LEMMA RejectFields ==
    ASSUME NEW s \in Receiver
    PROVE  LET t == rejectFileTransfer(s)
           IN /\ SameSession(s, t) /\ Dropped(s, t)
              /\ t.state = "files" /\ t.cur = None /\ t.active = s.active /\ t.paths = s.paths
              /\ t.key = s.key /\ t.paired = s.paired /\ t.stray = s.stray
<1> DEFINE a == DropPeer(s)
<1>1. a \in Receiver BY DropPeerType
<1>2. rejectFileTransfer(s) = [a EXCEPT !.cur = None, !.state = "files"]
  BY DEF rejectFileTransfer
<1> HIDE DEF a
<1>3. /\ SameSession(s, a) /\ Dropped(s, a) /\ a.active = s.active /\ a.paths = s.paths
      /\ a.key = s.key /\ a.paired = s.paired /\ a.stray = s.stray
  BY DropPeerFields DEF a
<1> QED BY <1>1, <1>2, <1>3 DEF Receiver, SameSession, Dropped

\* The fields of the receiver after startReceivingFile.
LEMMA StartFields ==
    ASSUME NEW s \in Receiver, NEW f \in File, NEW valid \in BOOLEAN, NEW creates \in BOOLEAN
    PROVE  LET t == startReceivingFile(s, f, valid, creates)
           IN /\ SameSession(s, t) /\ t.key = s.key /\ t.paired = s.paired /\ t.stray = s.stray
              /\ Rejected(s, t) \/ Started(s, t, f)
<1>1. CASE f \in s.tokens \cap s.files /\ valid /\ creates
  BY <1>1 DEF startReceivingFile, Receiver, SameSession, SamePeer, Started
<1>2. CASE ~(f \in s.tokens \cap s.files /\ valid /\ creates)
  BY <1>2, RejectFields DEF startReceivingFile, Rejected
<1> QED BY <1>1, <1>2

\* The fields of the receiver after AcceptFiles.
LEMMA AcceptFields ==
    ASSUME NEW s \in Receiver, NEW named, NEW sent \in BOOLEAN
    PROVE  LET t == AcceptFiles(s, named, sent)
           IN /\ SamePeer(s, t) /\ t.state \in {s.state, "files"}
              /\ t.accepting = s.accepting /\ t.pinAttempts = s.pinAttempts /\ t.pinOK = s.pinOK
              /\ t.files = s.files /\ (t.tokens # {} => s.tokens # {} \/ s.files # {})
              /\ t.cur = s.cur /\ t.active = s.active /\ t.paths = s.paths
              /\ t.key = s.key /\ t.paired = s.paired /\ t.stray = s.stray
BY DEF AcceptFiles, Receiver, SamePeer

\* The fields of the receiver after Reset.
LEMMA ResetFields ==
    ASSUME NEW s \in Receiver, NEW p \in Peer \cup {None}
    PROVE  LET t == Reset(s, p)
           IN /\ Dropped(s, t) /\ NoFile(t) /\ t.state = "nonce" /\ t.accepting = TRUE
              /\ t.pinAttempts = 0 /\ t.files = {} /\ t.tokens = {} /\ t.key = FALSE
<1> DEFINE a == DropPeer(cleanupPartialFilesLocked(s))
<1>1. a \in Receiver BY CleanupType, DropPeerType
<1>2. Reset(s, p) = [a EXCEPT !.accepting = TRUE, !.state = "nonce", !.sender = p, !.pinAttempts = 0,
          !.pinOK = FALSE, !.key = FALSE, !.paired = FALSE, !.files = {}, !.accepted = {},
          !.tokens = {}, !.stray = FALSE]
  BY DEF Reset
<1>3. Dropped(s, a) /\ NoFile(a)
  <2> DEFINE b == cleanupPartialFilesLocked(s)
  <2>1. b \in Receiver /\ SamePeer(s, b) /\ NoFile(b)
    BY CleanupType, CleanupFields
  <2> HIDE DEF b
  <2>2. LET d == DropPeer(b)
        IN Dropped(b, d) /\ d.cur = b.cur /\ d.active = b.active /\ d.paths = b.paths
    BY <2>1, DropPeerFields
  <2> QED BY <2>1, <2>2 DEF b, SamePeer, Dropped, NoFile
<1> HIDE DEF a
<1> QED BY <1>1, <1>2, <1>3 DEF Receiver, Dropped, NoFile

\* The fields of the receiver after handlePeerClosed.
LEMMA PeerClosedFields ==
    ASSUME NEW s \in Receiver, NEW c, s.peer = c
    PROVE  LET t == handlePeerClosed(s, c)
           IN /\ t.peer = None /\ t.accepting = FALSE /\ t.state = "done" /\ NoFile(t)
              /\ t.closing = s.closing /\ t.pinOK = s.pinOK /\ t.files = s.files
              /\ t.tokens = s.tokens /\ t.key = s.key /\ t.paired = s.paired /\ t.stray = s.stray
<1> DEFINE a == cleanupPartialFilesLocked(s)
<1>1. a \in Receiver /\ SameSession(s, a) /\ SamePeer(s, a) /\ NoFile(a)
      /\ a.key = s.key /\ a.paired = s.paired /\ a.stray = s.stray
  BY CleanupType, CleanupFields
<1>2. handlePeerClosed(s, c) = [a EXCEPT !.peer = None, !.accepting = FALSE, !.state = "done"]
  BY DEF handlePeerClosed
<1> HIDE DEF a
<1> QED BY <1>1, <1>2 DEF Receiver, SameSession, SamePeer, NoFile

-----------------------------------------------------------------------------
(* One lemma per action, and one per group of handlers that end alike.     *)

\* A message handler that ends the session or rejects its file.
LEMMA DroppedStep ==
    ASSUME IndInv, r' \in Receiver, UNCHANGED <<conn, listen, picks>>,
           r.state \notin {"nonce", "done"}, r'.state \in {"done", "files"},
           r'.accepting = r.accepting, r'.pinOK = r.pinOK, r'.files = r.files, r'.tokens = r.tokens,
           r'.pinAttempts = r.pinAttempts \/ r'.state = "done",
           Dropped(r, r'), r'.cur = None
    PROVE  ListenInv' /\ StateInv' /\ PickInv' /\ PinInv' /\ BusyIsLive' /\ ConnectionOwned'
<1> USE DEF IndInv, TypeOK, Receiver, Dropped
<1>1. ListenInv' BY DEF ListenInv, StateInv
<1>2. StateInv' BY Zero DEF StateInv, ListenInv, BusyIsLive
<1>3. PickInv' BY Zero DEF PickInv
<1>4. PinInv' BY DEF PinInv
<1>5. BusyIsLive' BY DEF BusyIsLive, StateInv
<1>6. ConnectionOwned' BY DEF ConnectionOwned
<1> QED BY <1>1, <1>2, <1>3, <1>4, <1>5, <1>6

\* Termination by a handler, of the session as s has it.
LEMMA TerminatedStep ==
    ASSUME IndInv, NEW c \in Conn, NEW s \in Receiver, r' = By(c, terminateLocked(s)),
           UNCHANGED <<conn, listen, picks>>, r.state \notin {"nonce", "done"},
           s.accepting = r.accepting, s.pinOK = r.pinOK, s.files = r.files, s.tokens = r.tokens,
           SamePeer(r, s), s.stray = r.stray,
           s.key = r.key, s.paired = r.paired,
           blocked' \subseteq Peer \cup {None}, UNCHANGED down
    PROVE  IndInv'
<1> DEFINE t == terminateLocked(s)
<1>1. t \in Receiver BY TerminateType
<1>2. r' \in Receiver BY <1>1, ByType
<1>3. SameSession(s, t) /\ Dropped(s, t) /\ NoFile(t) /\ t.state = "done"
      /\ t.key = s.key /\ t.paired = s.paired
  BY TerminateFields
<1> HIDE DEF t
<1>4. /\ SameSession(t, r') /\ SamePeer(t, r') /\ r'.state = t.state /\ r'.cur = t.cur
      /\ r'.active = t.active /\ r'.paths = t.paths /\ r'.key = t.key /\ r'.paired = t.paired
  BY <1>1, ByFields DEF t
<1>5. TypeOK' BY <1>2 DEF IndInv, TypeOK
<1>6. ListenInv' /\ StateInv' /\ PickInv' /\ PinInv' /\ BusyIsLive' /\ ConnectionOwned'
  BY <1>2, <1>3, <1>4, DroppedStep DEF SameSession, SamePeer, Dropped, NoFile
<1>7. FileStateAgrees' BY <1>3, <1>4 DEF FileStateAgrees, NoFile
<1>8. PairInv' BY <1>3, <1>4 DEF IndInv, PairInv, SameSession, NoFile
<1> QED BY <1>5, <1>6, <1>7, <1>8 DEF IndInv

\* HandlePin keeps the invariant.
LEMMA HandlePinStep ==
    ASSUME IndInv, NEW c \in Conn, NEW right \in BOOLEAN, HandlePin(c, right)
    PROVE  IndInv'
<1> DEFINE n == r.pinAttempts + 1
           wrong == [r EXCEPT !.pinAttempts = n]
<1>1. r \in Receiver /\ r.state = "pin" BY DEF IndInv, TypeOK, HandlePin
<1>2. n \in 0..MaxPINAttempts BY <1>1, ReceiverAssumption DEF IndInv, StateInv, Receiver
<1>3. wrong \in Receiver BY <1>1, <1>2 DEF Receiver
<1>4. CASE right
  <2> DEFINE s == [r EXCEPT !.state = "list", !.pinOK = TRUE]
  <2>1. s \in Receiver BY <1>1 DEF Receiver, State
  <2>2. r' = By(c, s) /\ UNCHANGED <<conn, listen, picks, blocked, down>> /\ Delivers(c)
    BY <1>4 DEF HandlePin
  <2>3. r' \in Receiver BY <2>1, <2>2, ByType
  <2> USE DEF IndInv, Receiver
  <2>4. TypeOK' BY <2>2, <2>3 DEF TypeOK
  <2>5. ListenInv' BY <1>1, <2>1, <2>2 DEF ListenInv, By
  <2>6. StateInv' BY <1>1, <2>1, <2>2, Zero DEF StateInv, By
  <2>7. PickInv' BY <1>1, <2>1, <2>2, Zero DEF PickInv, By, TypeOK, Delivers
  <2>8. PinInv' BY <1>1, <2>1, <2>2 DEF PinInv, By
  <2>9. BusyIsLive' BY <1>1, <2>1, <2>2 DEF BusyIsLive, By
  <2>10. ConnectionOwned' BY <1>1, <2>1, <2>2 DEF ConnectionOwned, By
  <2>11. FileStateAgrees' BY <1>1, <2>1, <2>2 DEF FileStateAgrees, By
  <2>12. PairInv' BY <1>1, <2>1, <2>2 DEF PairInv, By
  <2> QED BY <2>4, <2>5, <2>6, <2>7, <2>8, <2>9, <2>10, <2>11, <2>12
<1>5. CASE ~right /\ LastTry(n)
  <2>1. /\ r' = By(c, terminateLocked(wrong)) /\ UNCHANGED <<conn, listen, picks, down>>
        /\ blocked' = blocked \cup {r.sender}
    BY <1>5 DEF HandlePin
  <2>2. blocked' \subseteq Peer \cup {None} BY <1>1, <2>1 DEF IndInv, TypeOK, Receiver
  <2>3. /\ wrong.accepting = r.accepting /\ wrong.pinOK = r.pinOK /\ wrong.files = r.files
        /\ wrong.tokens = r.tokens /\ SamePeer(r, wrong) /\ wrong.stray = r.stray
        /\ wrong.key = r.key /\ wrong.paired = r.paired
    BY <1>1 DEF Receiver, SamePeer
  <2> HIDE DEF wrong
  <2> QED BY <1>1, <1>3, <2>1, <2>2, <2>3, TerminatedStep
<1>6. CASE ~right /\ ~LastTry(n)
  <2>1. r' = By(c, wrong) /\ UNCHANGED <<conn, listen, picks, blocked, down>>
    BY <1>6 DEF HandlePin
  <2>2. r' \in Receiver BY <1>3, <2>1, ByType
  <2>3. n < MaxPINAttempts BY <1>2, <1>6, ReceiverAssumption DEF LastTry
  <2> USE DEF IndInv, Receiver
  <2>4. TypeOK' BY <2>1, <2>2 DEF TypeOK
  <2>5. ListenInv' BY <1>1, <1>3, <2>1 DEF ListenInv, By
  <2>6. StateInv' BY <1>1, <1>3, <2>1, <2>3, Zero DEF StateInv, By
  <2>7. PickInv' BY <1>1, <1>3, <2>1, Zero DEF PickInv, By, TypeOK
  <2>8. PinInv' BY <1>1, <1>3, <2>1 DEF PinInv, By
  <2>9. BusyIsLive' BY <1>1, <1>3, <2>1 DEF BusyIsLive, By
  <2>10. ConnectionOwned' BY <1>1, <1>3, <2>1 DEF ConnectionOwned, By
  <2>11. FileStateAgrees' BY <1>1, <1>3, <2>1 DEF FileStateAgrees, By
  <2>12. PairInv' BY <1>1, <1>3, <2>1 DEF PairInv, By
  <2> QED BY <2>4, <2>5, <2>6, <2>7, <2>8, <2>9, <2>10, <2>11, <2>12
<1> QED BY <1>4, <1>5, <1>6

\* HandleSenderPin keeps the invariant.
LEMMA HandleSenderPinStep ==
    ASSUME IndInv, NEW c \in Conn, HandleSenderPin(c) PROVE IndInv'
BY TerminatedStep DEF HandleSenderPin, SamePeer, IndInv, TypeOK

\* HandleBadBoundary keeps the invariant.
LEMMA HandleBadBoundaryStep ==
    ASSUME IndInv, NEW c \in Conn, HandleBadBoundary(c)
    PROVE  IndInv'
<1> DEFINE s == finishCurrentFile(r)
<1>1. /\ r \in Receiver /\ r.cur # None /\ r.state = "receiving" /\ r' = By(c, terminateLocked(s))
      /\ UNCHANGED <<conn, listen, picks, blocked, down>> /\ blocked \subseteq Peer \cup {None}
  BY DEF IndInv, TypeOK, HandleBadBoundary
<1>2. s \in Receiver BY <1>1, FinishType
<1>3. /\ SameSession(r, s) /\ SamePeer(r, s) /\ s.stray = r.stray
      /\ s.key = r.key /\ s.paired = r.paired
  BY <1>1, FinishFields
<1> HIDE DEF s
<1> QED BY <1>1, <1>2, <1>3, TerminatedStep DEF SameSession

\* HandleDelimiter keeps the invariant.
LEMMA HandleDelimiterStep ==
    ASSUME IndInv, NEW c \in Conn, HandleDelimiter(c)
    PROVE  IndInv'
<1> DEFINE s == finishCurrentFile(r)
           d == [s EXCEPT !.state = "done"]
           t == DropPeer(d)
<1>1. /\ r \in Receiver /\ r.cur # None /\ r.state = "receiving" /\ r' = By(c, t)
      /\ UNCHANGED <<conn, listen, picks, blocked, down>>
  BY DEF IndInv, TypeOK, HandleDelimiter
<1>2. s \in Receiver BY <1>1, FinishType
<1>3. /\ SameSession(r, s) /\ SamePeer(r, s) /\ s.stray = r.stray
      /\ s.cur = None /\ s.active = FALSE /\ s.paths = r.paths \ {r.cur}
      /\ s.key = r.key /\ s.paired = r.paired
  BY <1>1, FinishFields
<1> HIDE DEF s
<1>4. d \in Receiver BY <1>2, StateType DEF State
<1>5. /\ SameSession(s, d) /\ SamePeer(s, d) /\ d.state = "done" /\ d.stray = s.stray
      /\ d.cur = s.cur /\ d.active = s.active /\ d.paths = s.paths
      /\ d.key = s.key /\ d.paired = s.paired
  BY <1>2, StateFields
<1> HIDE DEF d
<1>6. t \in Receiver BY <1>4, DropPeerType
<1>7. /\ SameSession(d, t) /\ Dropped(d, t) /\ t.state = d.state /\ t.stray = d.stray
      /\ t.cur = d.cur /\ t.active = d.active /\ t.paths = d.paths
      /\ t.key = d.key /\ t.paired = d.paired
  BY <1>4, DropPeerFields
<1> HIDE DEF t
<1>8. r' \in Receiver BY <1>1, <1>6, ByType
<1>9. /\ SameSession(t, r') /\ SamePeer(t, r') /\ r'.state = t.state /\ r'.cur = t.cur
      /\ r'.active = t.active /\ r'.paths = t.paths
      /\ r'.key = t.key /\ r'.paired = t.paired /\ (t.stray => r'.stray)
  BY <1>1, <1>6, ByFields
<1>10. TypeOK' BY <1>1, <1>8 DEF IndInv, TypeOK
<1>11. ListenInv' /\ StateInv' /\ PickInv' /\ PinInv' /\ BusyIsLive' /\ ConnectionOwned'
  BY <1>1, <1>3, <1>5, <1>7, <1>8, <1>9, DroppedStep DEF SameSession, SamePeer, Dropped
<1>12. FileStateAgrees'
  BY <1>1, <1>3, <1>5, <1>7, <1>8, <1>9 DEF IndInv, FileStateAgrees, Receiver
<1>13. PairInv' BY <1>3, <1>5, <1>7, <1>9 DEF IndInv, PairInv, SameSession
<1> QED BY <1>10, <1>11, <1>12, <1>13 DEF IndInv

\* HandleNextHeader keeps the invariant.
LEMMA HandleNextHeaderStep ==
    ASSUME IndInv, NEW c \in Conn, NEW f \in File, NEW valid \in BOOLEAN,
           HandleNextHeader(c, f, valid)
    PROVE  IndInv'
<1>1. PICK creates \in BOOLEAN :
        r' = By(c, startReceivingFile(finishCurrentFile(r), f, valid, creates))
  BY DEF HandleNextHeader
<1> DEFINE s == finishCurrentFile(r)
           t == startReceivingFile(s, f, valid, creates)
<1>2. /\ r \in Receiver /\ r.cur # None /\ r.state = "receiving" /\ r' = By(c, t) /\ Delivers(c)
      /\ UNCHANGED <<conn, listen, picks, blocked, down>>
  BY <1>1 DEF IndInv, TypeOK, HandleNextHeader
<1>3. s \in Receiver BY <1>2, FinishType
<1>4. /\ SameSession(r, s) /\ SamePeer(r, s) /\ s.stray = r.stray
      /\ s.cur = None /\ s.active = FALSE /\ s.paths = r.paths \ {r.cur}
      /\ s.key = r.key /\ s.paired = r.paired
  BY <1>2, FinishFields
<1> HIDE DEF s
<1>5. t \in Receiver BY <1>3, StartType
<1>6. /\ SameSession(s, t) /\ t.key = s.key /\ t.paired = s.paired /\ t.stray = s.stray
      /\ Rejected(s, t) \/ Started(s, t, f)
  BY <1>3, StartFields
<1> HIDE DEF t
<1>7. r' \in Receiver BY <1>2, <1>5, ByType
<1>8. /\ SameSession(t, r') /\ SamePeer(t, r') /\ r'.state = t.state /\ r'.cur = t.cur
      /\ r'.active = t.active /\ r'.paths = t.paths /\ r'.key = t.key /\ r'.paired = t.paired
      /\ (r'.stray <=> t.stray \/ r.peer \notin {None, c})
  BY <1>2, <1>5, ByFields
<1>9. TypeOK' BY <1>2, <1>7 DEF IndInv, TypeOK
<1>10. PairInv' BY <1>4, <1>6, <1>8 DEF IndInv, PairInv, SameSession, Rejected, Started
<1>11. CASE Rejected(s, t)
  <2>1. ListenInv' /\ StateInv' /\ PickInv' /\ PinInv' /\ BusyIsLive' /\ ConnectionOwned'
    BY <1>2, <1>4, <1>6, <1>7, <1>8, <1>11, DroppedStep DEF SameSession, SamePeer, Dropped, Rejected
  <2>2. FileStateAgrees'
    BY <1>2, <1>4, <1>6, <1>7, <1>8, <1>11 DEF IndInv, FileStateAgrees, Receiver, Rejected
  <2> QED BY <1>9, <1>10, <2>1, <2>2 DEF IndInv
<1>12. CASE Started(s, t, f)
  <2>1. /\ SameSession(r, r') /\ SamePeer(r, r') /\ r'.state = "receiving" /\ f \in r.tokens
    BY <1>4, <1>6, <1>8, <1>12 DEF SameSession, SamePeer, Started
  <2> USE DEF IndInv, SameSession, SamePeer
  <2>2. ListenInv' BY <1>2, <2>1 DEF ListenInv
  <2>3. StateInv' BY <1>2, <2>1, Zero DEF StateInv
  <2>4. PickInv' BY <1>2, <1>4, <1>6, <1>8, <2>1, Zero DEF PickInv, TypeOK, Delivers, Receiver
  <2>5. PinInv' BY <1>2, <2>1 DEF PinInv
  <2>6. BusyIsLive' BY <1>2, <2>1 DEF BusyIsLive
  <2>7. ConnectionOwned' BY <1>2, <2>1 DEF ConnectionOwned
  <2>8. FileStateAgrees'
    BY <1>2, <1>4, <1>6, <1>7, <1>8, <1>12, Zero DEF FileStateAgrees, Receiver, Started
  <2> QED BY <1>9, <1>10, <2>2, <2>3, <2>4, <2>5, <2>6, <2>7, <2>8
<1> QED BY <1>6, <1>11, <1>12

\* A handler of c that answers the file list: it may issue tokens for listed
\* files and move on to the pair or the files state.
LEMMA SelectedStep ==
    ASSUME IndInv, NEW c \in Conn, r' \in Receiver, SamePeer(r, r'),
           r'.state \in {r.state, "pair", "files"}, r'.accepting = r.accepting,
           r'.pinAttempts = r.pinAttempts, r'.pinOK = r.pinOK, r'.files = r.files,
           r'.tokens # {} => r.tokens # {} \/ r.files # {},
           r'.cur = r.cur, r'.active = r.active, r'.paths = r.paths,
           r'.key => r'.paired, r.paired => r'.paired,
           RequirePairing /\ r'.tokens # {} => r.tokens # {} \/ r'.paired,
           r'.stray <=> r.stray \/ r.peer \notin {None, c},
           \/ r'.state = r.state
           \/ r.peer # None /\ (r.stray \/ r.state \in {"list", "pair"} \/ r.peer # c),
           UNCHANGED <<conn, listen, blocked, down>>, picks' \subseteq picks,
           \A k \in picks' : k.conn # c
    PROVE  IndInv'
<1> USE DEF IndInv
<1>1. r \in Receiver BY DEF TypeOK
<1>2. TypeOK' BY DEF TypeOK
<1>3. ListenInv' BY DEF ListenInv, SamePeer
<1>4. StateInv' BY <1>1 DEF StateInv, SamePeer, BusyIsLive
<1>5. PickInv' BY <1>1, Zero DEF PickInv, SamePeer, TypeOK, Receiver
<1>6. PinInv' BY DEF PinInv
<1>7. BusyIsLive' BY DEF BusyIsLive, SamePeer
<1>8. ConnectionOwned' BY DEF ConnectionOwned, SamePeer
<1>9. FileStateAgrees' BY <1>1, Zero DEF FileStateAgrees
<1>10. PairInv' BY DEF PairInv
<1> QED BY <1>2, <1>3, <1>4, <1>5, <1>6, <1>7, <1>8, <1>9, <1>10

\* The same after a pairing answer; s differs from r in the key only.
LEMMA AcceptedStep ==
    ASSUME IndInv, NEW c \in Conn, NEW s \in Receiver, NEW named, NEW sent \in BOOLEAN,
           SameSession(r, s), SamePeer(r, s), s.state = r.state, s.cur = r.cur,
           s.active = r.active, s.paths = r.paths, s.stray = r.stray,
           s.key => s.paired, r.paired => s.paired, RequirePairing => s.paired,
           r' = By(c, AcceptFiles(s, named, sent)), Delivers(c), r.state = "pair",
           UNCHANGED <<conn, listen, picks, blocked, down>>
    PROVE  IndInv'
<1> DEFINE t == AcceptFiles(s, named, sent)
<1>1. t \in Receiver BY AcceptType
<1>2. /\ SamePeer(s, t) /\ t.state \in {s.state, "files"}
      /\ t.accepting = s.accepting /\ t.pinAttempts = s.pinAttempts /\ t.pinOK = s.pinOK
      /\ t.files = s.files /\ (t.tokens # {} => s.tokens # {} \/ s.files # {})
      /\ t.cur = s.cur /\ t.active = s.active /\ t.paths = s.paths
      /\ t.key = s.key /\ t.paired = s.paired /\ t.stray = s.stray
  BY AcceptFields
<1> HIDE DEF t
<1>3. r' \in Receiver BY <1>1, ByType DEF t
<1>4. /\ SameSession(t, r') /\ SamePeer(t, r') /\ r'.state = t.state /\ r'.cur = t.cur
      /\ r'.active = t.active /\ r'.paths = t.paths /\ r'.key = t.key /\ r'.paired = t.paired
      /\ (r'.stray <=> t.stray \/ r.peer \notin {None, c})
  BY <1>1, ByFields DEF t
<1>5. r.peer # None /\ \A k \in picks' : k.conn # c BY DEF IndInv, StateInv, Delivers
<1>6. /\ SamePeer(r, r') /\ r'.state \in {r.state, "files"} /\ r'.accepting = r.accepting
      /\ r'.pinAttempts = r.pinAttempts /\ r'.pinOK = r.pinOK /\ r'.files = r.files
      /\ (r'.tokens # {} => r.tokens # {} \/ r.files # {})
      /\ (r'.key => r'.paired) /\ (r.paired => r'.paired) /\ (RequirePairing => r'.paired)
      /\ r'.cur = r.cur /\ r'.active = r.active /\ r'.paths = r.paths
      /\ (r'.stray <=> r.stray \/ r.peer \notin {None, c})
  BY <1>2, <1>4 DEF SameSession, SamePeer
<1> QED BY <1>3, <1>5, <1>6, SelectedStep

\* HandlePairDeclined keeps the invariant.
LEMMA HandlePairDeclinedStep ==
    ASSUME IndInv, NEW c \in Conn, HandlePairDeclined(c) PROVE IndInv'
<1>1. /\ r \in Receiver /\ r.state = "pair" /\ Delivers(c)
      /\ UNCHANGED <<conn, listen, picks, blocked, down>> /\ blocked \subseteq Peer \cup {None}
  BY DEF IndInv, TypeOK, HandlePairDeclined
<1>2. CASE RequirePairing
  BY <1>1, <1>2, TerminatedStep DEF HandlePairDeclined, SamePeer
<1>3. CASE ~RequirePairing
  <2>1. PICK named \in SUBSET r.accepted, sent \in Sends : r' = By(c, AcceptFiles(r, named, sent))
    BY <1>3 DEF HandlePairDeclined
  <2>2. sent \in BOOLEAN BY DEF Sends
  <2>3. r.key => r.paired BY DEF IndInv, PairInv
  <2> QED BY <1>1, <1>3, <2>1, <2>2, <2>3, AcceptedStep DEF SameSession, SamePeer
<1> QED BY <1>2, <1>3

\* HandlePairAccepted keeps the invariant.
LEMMA HandlePairAcceptedStep ==
    ASSUME IndInv, NEW c \in Conn, NEW withKey \in BOOLEAN, HandlePairAccepted(c, withKey)
    PROVE  IndInv'
<1> DEFINE key == r.key \/ withKey
           s == [r EXCEPT !.key = key, !.paired = TRUE]
<1>1. /\ r \in Receiver /\ r.state = "pair" /\ Delivers(c)
      /\ UNCHANGED <<conn, listen, picks, blocked, down>>
  BY DEF IndInv, TypeOK, HandlePairAccepted
<1>2. PICK named \in SUBSET r.accepted, sent \in Sends : r' = By(c, AcceptFiles(s, named, sent))
  BY DEF HandlePairAccepted
<1>3. sent \in BOOLEAN BY DEF Sends
<1>4. key \in BOOLEAN OBVIOUS
<1> HIDE DEF key
<1>5. s \in Receiver BY <1>1, <1>4 DEF Receiver
<1>6. /\ SameSession(r, s) /\ SamePeer(r, s) /\ s.state = r.state /\ s.cur = r.cur
      /\ s.active = r.active /\ s.paths = r.paths /\ s.stray = r.stray
      /\ s.paired
  BY <1>1 DEF Receiver, SameSession, SamePeer
<1> HIDE DEF s
<1> QED BY <1>1, <1>2, <1>3, <1>5, <1>6, AcceptedStep

\* Reserve keeps the invariant.
LEMMA ReserveStep == ASSUME IndInv, Reserve PROVE IndInv'
<1>1. CASE Busy(r)
  <2>1. UNCHANGED <<r, conn, picks, blocked, down>> /\ listen' = Idle BY <1>1 DEF Reserve
  <2>2. ~r.accepting BY DEF IndInv, BusyIsLive, Reserve
  <2> QED BY <2>1, <2>2 DEF IndInv, TypeOK, ListenInv, StateInv, PickInv, PinInv, BusyIsLive,
            ConnectionOwned, FileStateAgrees, PairInv, Idle, Listener
<1>2. CASE ~Busy(r)
  <2>1. /\ listen.pc = "checked" /\ r \in Receiver /\ r' = Reset(r, listen.peer)
        /\ listen' = [listen EXCEPT !.pc = "reserved"] /\ UNCHANGED <<conn, picks, blocked, down>>
    BY <1>2 DEF IndInv, TypeOK, Reserve
  <2>2. listen \in Listener /\ listen.peer \in Peer \cup {None}
    BY <2>1 DEF IndInv, TypeOK, ListenInv, Listener
  <2>3. r' \in Receiver BY <2>1, <2>2, ResetType
  <2>4. /\ Dropped(r, r') /\ NoFile(r') /\ r'.state = "nonce" /\ r'.accepting = TRUE
        /\ r'.pinAttempts = 0 /\ r'.files = {} /\ r'.tokens = {} /\ r'.key = FALSE
    BY <2>1, <2>2, ResetFields
  <2>5. listen' \in Listener /\ listen'.pc = "reserved" /\ listen'.conn = listen.conn
    BY <2>1, <2>2 DEF Listener
  <2> USE DEF IndInv
  <2>6. TypeOK' BY <2>1, <2>3, <2>5 DEF TypeOK
  <2>7. ListenInv' BY <2>1, <2>4, <2>5 DEF ListenInv, Dropped
  <2>8. StateInv' BY <2>1, <2>4, ReceiverAssumption DEF StateInv, Dropped, BusyIsLive
  <2>9. PickInv' BY <2>1, <2>4, Zero DEF PickInv, Dropped, TypeOK
  <2>10. PinInv' BY <2>4 DEF PinInv, NoFile
  <2>11. BusyIsLive' BY <2>4, <2>5 DEF BusyIsLive, Dropped
  <2>12. ConnectionOwned' BY <2>1, <2>4 DEF ConnectionOwned, Dropped
  <2>13. FileStateAgrees' BY <2>4 DEF FileStateAgrees, NoFile
  <2>14. PairInv' BY <2>4 DEF PairInv, NoFile
  <2> QED BY <2>6, <2>7, <2>8, <2>9, <2>10, <2>11, <2>12, <2>13, <2>14
<1> QED BY <1>1, <1>2

\* Install keeps the invariant.
LEMMA InstallStep == ASSUME IndInv, Install PROVE IndInv'
<1>1. /\ listen.pc = "reserved" /\ r \in Receiver /\ listen.conn \in Conn /\ conn[listen.conn] = "none"
      /\ listen \in Listener /\ conn \in [Conn -> ConnState] /\ r.peer = None
      /\ UNCHANGED <<picks, blocked, down>>
  BY DEF IndInv, TypeOK, ListenInv, Install
<1>2. CASE r.accepting
  <2>1. /\ r' = [r EXCEPT !.peer = listen.conn, !.accepting = FALSE]
        /\ conn' = [conn EXCEPT ![listen.conn] = "new"]
        /\ listen' = [listen EXCEPT !.pc = "installed"]
    BY <1>2 DEF Install
  <2>2. r' \in Receiver BY ZenonT(60), <1>1, <2>1 DEF Receiver
  <2>3. /\ r'.peer = listen.conn /\ r'.accepting = FALSE /\ r'.closing = r.closing
        /\ r'.state = r.state /\ r'.pinAttempts = r.pinAttempts /\ r'.pinOK = r.pinOK
        /\ r'.files = r.files /\ r'.tokens = r.tokens /\ r'.cur = r.cur /\ r'.active = r.active
        /\ r'.paths = r.paths /\ r'.key = r.key /\ r'.paired = r.paired /\ r'.stray = r.stray
    BY <1>1, <2>1 DEF Receiver
  <2>4. listen' \in Listener /\ listen'.pc = "installed" /\ listen'.conn = listen.conn
    BY <1>1, <2>1 DEF Listener
  <2>5. conn' \in [Conn -> ConnState] BY <1>1, <2>1 DEF ConnState
  <2>6. r.state = "nonce" BY <1>2 DEF IndInv, StateInv
  <2> USE DEF IndInv
  <2>7. TypeOK' BY <1>1, <2>2, <2>4, <2>5 DEF TypeOK
  <2>8. ListenInv' BY <1>1, <2>1, <2>4 DEF ListenInv
  <2>9. StateInv' BY <1>1, <2>1, <2>3, <2>6, Zero DEF StateInv
  <2>10. PickInv' BY <1>1, <2>1, <2>3 DEF PickInv, TypeOK
  <2>11. PinInv' BY <2>3 DEF PinInv
  <2>12. BusyIsLive' BY <1>1, <2>1, <2>3, <2>6 DEF BusyIsLive, StateInv
  <2>16. \A c \in Conn : conn'[c] = IF c = listen.conn THEN "new" ELSE conn[c] BY <1>1, <2>1
  <2>13. ConnectionOwned' BY <1>1, <2>3, <2>16, Zero DEF IndInv, ConnectionOwned
  <2>14. FileStateAgrees' BY <2>3 DEF FileStateAgrees
  <2>15. PairInv' BY <2>3 DEF PairInv
  <2> QED BY <2>7, <2>8, <2>9, <2>10, <2>11, <2>12, <2>13, <2>14, <2>15
<1>3. CASE ~r.accepting
  <2>1. r' = r /\ conn' = [conn EXCEPT ![listen.conn] = "closed"] /\ listen' = Idle
    BY <1>3 DEF Install
  <2>2. conn' \in [Conn -> ConnState] BY <1>1, <2>1 DEF ConnState
  <2>3. \A c \in Conn : conn'[c] = IF c = listen.conn THEN "closed" ELSE conn[c] BY <1>1, <2>1
  <2> USE DEF IndInv
  <2>4. TypeOK' BY <1>1, <2>1, <2>2 DEF TypeOK, Idle, Listener
  <2>5. ListenInv' BY <2>1 DEF ListenInv, Idle
  <2>6. StateInv' BY <1>1, <2>1, <2>3 DEF StateInv, Receiver
  <2>7. PickInv' BY <1>1, <2>1, <2>3 DEF PickInv, TypeOK
  <2>8. BusyIsLive' BY <1>1, <1>3, <2>1, <2>3 DEF BusyIsLive, Receiver
  <2>9. ConnectionOwned' BY <1>1, <2>1, <2>3 DEF ConnectionOwned
  <2> QED BY <1>1, <2>1, <2>4, <2>5, <2>6, <2>7, <2>8, <2>9
      DEF PinInv, FileStateAgrees, PairInv
<1> QED BY <1>2, <1>3

\* A connection goes down and its session, if it has one, with it.
LEMMA LostStep ==
    ASSUME IndInv, NEW c \in Conn, NEW w \in {"lost", "closed"}, conn[c] # "none",
           r' = handlePeerClosed(r, c), conn' = [conn EXCEPT ![c] = w],
           listen' = listen \/ listen' = Idle, listen.pc = "reserved" => listen' = listen,
           UNCHANGED <<picks, blocked, down>>
    PROVE  IndInv'
<1>1. r \in Receiver /\ conn \in [Conn -> ConnState] BY DEF IndInv, TypeOK
<1>2. r' \in Receiver BY <1>1, PeerClosedType
<1>3. \A d \in Conn : conn'[d] = IF d = c THEN w ELSE conn[d] BY <1>1
<1>4. conn' \in [Conn -> ConnState] BY <1>1 DEF ConnState
<1>5. \/ r' = r /\ r.peer # c
      \/ /\ r.peer = c /\ r'.peer = None /\ r'.accepting = FALSE /\ r'.state = "done" /\ NoFile(r')
         /\ r'.closing = r.closing /\ r'.pinOK = r.pinOK /\ r'.files = r.files
         /\ r'.tokens = r.tokens /\ r'.key = r.key /\ r'.paired = r.paired /\ r'.stray = r.stray
  BY ZenonT(60), <1>1, PeerClosedFields DEF handlePeerClosed
<1> USE DEF IndInv
<1>6. TypeOK' BY <1>2, <1>4 DEF TypeOK, Idle, Listener
<1>7. ListenInv' BY <1>3, <1>5 DEF ListenInv, Idle
<1>8. StateInv' BY <1>1, <1>3, <1>5 DEF StateInv, Receiver
<1>9. PickInv' BY <1>3, <1>5, Zero DEF PickInv, TypeOK
<1>10. PinInv' BY <1>5 DEF PinInv, NoFile
<1>11. BusyIsLive' BY <1>1, <1>3, <1>5 DEF BusyIsLive, Receiver
<1>12. ConnectionOwned' BY <1>3, <1>5 DEF ConnectionOwned
<1>13. FileStateAgrees' BY <1>5 DEF FileStateAgrees, NoFile
<1>14. PairInv' BY <1>5 DEF PairInv, NoFile
<1> QED BY <1>6, <1>7, <1>8, <1>9, <1>10, <1>11, <1>12, <1>13, <1>14

\* ConnectionLost keeps the invariant.
LEMMA ConnectionLostStep ==
    ASSUME IndInv, NEW c \in Conn, ConnectionLost(c) PROVE IndInv'
BY LostStep DEF ConnectionLost

\* Answer keeps the invariant.
LEMMA AnswerStep ==
    ASSUME IndInv, NEW sent \in BOOLEAN, Answer(sent) PROVE IndInv'
<1>1. listen.pc = "installed" /\ listen.conn \in Conn /\ conn[listen.conn] # "none"
  BY DEF IndInv, ListenInv, Answer
<1>2. CASE sent
  <2>1. UNCHANGED <<r, conn, picks, blocked, down>> /\ listen' = Idle BY <1>2 DEF Answer
  <2>2. ~r.accepting BY <1>1 DEF IndInv, BusyIsLive
  <2> QED BY <2>1, <2>2 DEF IndInv, TypeOK, ListenInv, StateInv, PickInv, PinInv, BusyIsLive,
            ConnectionOwned, FileStateAgrees, PairInv, Idle, Listener
<1>3. CASE ~sent
  BY <1>1, <1>3, LostStep DEF Answer
<1> QED BY <1>2, <1>3

\* CloseDropped keeps the invariant.
LEMMA CloseDroppedStep ==
    ASSUME IndInv, NEW c \in Conn, CloseDropped(c) PROVE IndInv'
<1>1. r \in Receiver /\ conn \in [Conn -> ConnState] /\ c \in r.closing /\ r.peer # c
  BY Zero DEF IndInv, TypeOK, CloseDropped, BusyIsLive
<1>2. /\ r' = [r EXCEPT !.closing = r.closing \ {c}] /\ conn' = [conn EXCEPT ![c] = "closed"]
      /\ UNCHANGED <<listen, picks, blocked, down>>
  BY <1>1 DEF CloseDropped, handlePeerClosed
<1>3. r' \in Receiver BY <1>1, <1>2 DEF Receiver
<1>4. /\ r'.peer = r.peer /\ r'.closing = r.closing \ {c} /\ r'.state = r.state
      /\ r'.accepting = r.accepting /\ r'.pinAttempts = r.pinAttempts /\ r'.pinOK = r.pinOK
      /\ r'.files = r.files /\ r'.tokens = r.tokens /\ r'.cur = r.cur /\ r'.active = r.active
      /\ r'.paths = r.paths /\ r'.key = r.key /\ r'.paired = r.paired /\ r'.stray = r.stray
  BY <1>1, <1>2 DEF Receiver
<1>5. \A d \in Conn : conn'[d] = IF d = c THEN "closed" ELSE conn[d] BY <1>1, <1>2
<1>6. conn' \in [Conn -> ConnState] BY <1>1, <1>2 DEF ConnState
<1> USE DEF IndInv
<1>7. TypeOK' BY <1>2, <1>3, <1>6 DEF TypeOK
<1>8. ListenInv' BY <1>1, <1>2, <1>4, <1>5 DEF ListenInv, StateInv
<1>9. StateInv' BY <1>1, <1>4, <1>5 DEF StateInv, Receiver
<1>10. PickInv' BY <1>2, <1>4, <1>5 DEF PickInv, TypeOK
<1>11. PinInv' BY <1>4 DEF PinInv
<1>12. BusyIsLive' BY <1>1, <1>2, <1>4, <1>5 DEF BusyIsLive, Receiver
<1>13. ConnectionOwned' BY <1>4, <1>5 DEF ConnectionOwned
<1>14. FileStateAgrees' BY <1>4 DEF FileStateAgrees
<1>15. PairInv' BY <1>4 DEF PairInv
<1> QED BY <1>7, <1>8, <1>9, <1>10, <1>11, <1>12, <1>13, <1>14, <1>15

\* Close keeps the invariant.
LEMMA CloseStep == ASSUME IndInv, Close PROVE IndInv'
<1> DEFINE a == cleanupPartialFilesLocked(r)
           b == [a EXCEPT !.accepting = FALSE, !.state = "done"]
<1>1. r' = DropPeer(b) /\ UNCHANGED <<conn, listen, picks, blocked>> /\ down' = TRUE
  BY DEF Close
<1>2. r \in Receiver BY DEF IndInv, TypeOK
<1>3. /\ a \in Receiver /\ SameSession(r, a) /\ SamePeer(r, a) /\ NoFile(a)
      /\ a.key = r.key /\ a.paired = r.paired /\ a.stray = r.stray
  BY <1>2, CleanupType, CleanupFields
<1> HIDE DEF a
<1>4. b \in Receiver BY <1>3 DEF Receiver, State
<1>5. /\ b.peer = r.peer /\ b.closing = r.closing /\ b.state = "done" /\ b.accepting = FALSE
      /\ b.pinOK = r.pinOK /\ b.files = r.files /\ b.tokens = r.tokens /\ NoFile(b)
      /\ b.key = r.key /\ b.paired = r.paired /\ b.stray = r.stray
  BY <1>3 DEF Receiver, SameSession, SamePeer, NoFile
<1> HIDE DEF b
<1>6. r' \in Receiver BY <1>1, <1>4, DropPeerType
<1>7. /\ SameSession(b, r') /\ Dropped(b, r') /\ r'.state = b.state /\ r'.stray = b.stray
      /\ r'.cur = b.cur /\ r'.active = b.active /\ r'.paths = b.paths
      /\ r'.key = b.key /\ r'.paired = b.paired
  BY <1>1, <1>4, DropPeerFields
<1>8. /\ Dropped(r, r') /\ r'.state = "done" /\ r'.accepting = FALSE /\ NoFile(r')
      /\ r'.pinOK = r.pinOK /\ r'.files = r.files /\ r'.tokens = r.tokens
      /\ r'.key = r.key /\ r'.paired = r.paired
  BY <1>5, <1>7 DEF SameSession, Dropped, NoFile
<1> USE DEF IndInv
<1>9. TypeOK' BY <1>1, <1>6 DEF TypeOK
<1>10. ListenInv' BY <1>1, <1>8 DEF ListenInv, Dropped
<1>11. StateInv' BY <1>1, <1>8 DEF StateInv, Dropped, BusyIsLive
<1>12. PickInv' BY <1>1, <1>8, Zero DEF PickInv, TypeOK, Dropped
<1>13. PinInv' BY <1>8 DEF PinInv, NoFile
<1>14. BusyIsLive' BY <1>1, <1>8 DEF BusyIsLive, Dropped
<1>15. ConnectionOwned' BY <1>1, <1>8 DEF ConnectionOwned, Dropped
<1>16. FileStateAgrees' BY <1>8 DEF FileStateAgrees, NoFile
<1>17. PairInv' BY <1>8 DEF PairInv, NoFile
<1> QED BY <1>9, <1>10, <1>11, <1>12, <1>13, <1>14, <1>15, <1>16, <1>17

\* A handler of c that only moves the handshake on.
LEMMA HandshakeStep ==
    ASSUME IndInv, NEW c \in Conn, NEW s \in Receiver, r' = By(c, s), Delivers(c),
           SamePeer(r, s), s.accepting = r.accepting, s.pinAttempts = r.pinAttempts,
           s.pinOK = r.pinOK, s.files = r.files, s.tokens = r.tokens, s.stray = r.stray,
           s.cur = r.cur, s.active = r.active, s.paths = r.paths,
           s.key => s.paired, r.paired => s.paired,
           r.peer # None, r.state # "receiving", s.state \in {"token", "pin", "list"},
           s.state = "list" => ~Pin,
           UNCHANGED <<conn, listen, picks, blocked, down>>
    PROVE  IndInv'
<1>1. r \in Receiver /\ r' \in Receiver BY ByType DEF IndInv, TypeOK
<1>2. /\ SamePeer(r, r') /\ SameSession(r, r') /\ r'.state = s.state
      /\ r'.cur = r.cur /\ r'.active = r.active /\ r'.paths = r.paths
      /\ (r'.key => r'.paired) /\ (r.paired => r'.paired)
      /\ (r'.stray <=> r.stray \/ r.peer \notin {None, c})
  BY ByFields DEF SameSession, SamePeer
<1> USE DEF IndInv, SameSession, SamePeer
<1>3. TypeOK' BY <1>1 DEF TypeOK
<1>4. ListenInv' BY <1>2 DEF ListenInv
<1>5. StateInv' BY <1>2 DEF StateInv, BusyIsLive
<1>6. PickInv' BY <1>1, <1>2, Zero DEF PickInv, TypeOK, Delivers, Receiver
<1>7. PinInv' BY <1>2 DEF PinInv
<1>8. BusyIsLive' BY <1>2 DEF BusyIsLive
<1>9. ConnectionOwned' BY <1>2 DEF ConnectionOwned
<1>10. FileStateAgrees' BY <1>1, <1>2 DEF FileStateAgrees
<1>11. PairInv' BY <1>2 DEF PairInv
<1> QED BY <1>3, <1>4, <1>5, <1>6, <1>7, <1>8, <1>9, <1>10, <1>11

\* HandleNonce keeps the invariant.
LEMMA HandleNonceStep ==
    ASSUME IndInv, NEW c \in Conn, HandleNonce(c) PROVE IndInv'
<1> DEFINE s == [r EXCEPT !.state = "token"]
<1>1. r \in Receiver BY DEF IndInv, TypeOK
<1>2. s \in Receiver BY <1>1, StateType DEF State
<1>3. /\ SameSession(r, s) /\ SamePeer(r, s) /\ s.state = "token" /\ s.cur = r.cur
      /\ s.active = r.active /\ s.paths = r.paths
      /\ s.key = r.key /\ s.paired = r.paired /\ s.stray = r.stray
  BY <1>1, StateFields
<1>4. /\ Delivers(c) /\ r.state = "nonce" /\ r.peer # None /\ r' = By(c, s)
      /\ UNCHANGED <<conn, listen, picks, blocked, down>>
  BY DEF HandleNonce, Sends
<1> HIDE DEF s
<1>5. r.key => r.paired BY DEF IndInv, PairInv
<1> QED BY <1>2, <1>3, <1>4, <1>5, HandshakeStep DEF SameSession

\* HandleToken keeps the invariant.
LEMMA HandleTokenStep ==
    ASSUME IndInv, NEW c \in Conn, HandleToken(c) PROVE IndInv'
<1>1. PICK known \in {FALSE, RequirePairing} :
        r' = By(c, [r EXCEPT !.key = r.key \/ known, !.paired = r.paired \/ known, !.state = AfterToken])
  BY DEF HandleToken
<1> DEFINE key == r.key \/ known
           paired == r.paired \/ known
           s == [r EXCEPT !.key = key, !.paired = paired, !.state = AfterToken]
<1>2. r \in Receiver /\ r.state = "token" BY DEF IndInv, TypeOK, HandleToken
<1>3. /\ key \in BOOLEAN /\ paired \in BOOLEAN
      /\ (key => paired) /\ (r.paired => paired)
  BY DEF IndInv, PairInv
<1>4. AfterToken \in {"pin", "list"} /\ (AfterToken = "list" => ~Pin) BY DEF AfterToken
<1>5. /\ Delivers(c) /\ r.peer # None /\ r' = By(c, s)
      /\ UNCHANGED <<conn, listen, picks, blocked, down>>
  BY <1>1, <1>2 DEF HandleToken, IndInv, StateInv
<1> HIDE DEF key, paired
<1>6. s \in Receiver BY <1>2, <1>3, <1>4 DEF Receiver, State
<1>7. /\ SameSession(r, s) /\ SamePeer(r, s) /\ s.state = AfterToken /\ s.cur = r.cur
      /\ s.active = r.active /\ s.paths = r.paths /\ s.stray = r.stray
      /\ (s.key => s.paired) /\ (r.paired => s.paired)
  BY <1>2, <1>3 DEF Receiver, SameSession, SamePeer
<1> HIDE DEF s
<1> QED BY <1>2, <1>4, <1>5, <1>6, <1>7, HandshakeStep DEF SameSession

\* FailAccept keeps the invariant.
LEMMA FailAcceptStep == ASSUME IndInv, FailAccept PROVE IndInv'
<1>1. /\ r \in Receiver /\ listen.pc = "reserved" /\ r.peer = None
      /\ r' = [r EXCEPT !.accepting = FALSE, !.state = "done"] /\ listen' = Idle
      /\ UNCHANGED <<conn, picks, blocked, down>>
  BY DEF IndInv, TypeOK, ListenInv, FailAccept
<1>2. r' \in Receiver
  <2> DEFINE a == [r EXCEPT !.accepting = FALSE]
  <2>1. a \in Receiver BY ZenonT(60), <1>1 DEF Receiver
  <2>2. r' = [a EXCEPT !.state = "done"] BY <1>1
  <2> HIDE DEF a
  <2> QED BY <2>1, <2>2, StateType DEF State
<1>3. /\ SamePeer(r, r') /\ r'.accepting = FALSE /\ r'.state = "done"
      /\ r'.pinOK = r.pinOK /\ r'.files = r.files /\ r'.tokens = r.tokens /\ r'.cur = r.cur
      /\ r'.active = r.active /\ r'.paths = r.paths
      /\ r'.key = r.key /\ r'.paired = r.paired /\ r'.stray = r.stray
  BY <1>1 DEF Receiver, SamePeer
<1> USE DEF IndInv, SamePeer
<1>4. TypeOK' BY <1>1, <1>2 DEF TypeOK, Idle, Listener
<1>5. ListenInv' BY <1>1 DEF ListenInv, Idle
<1>6. StateInv' BY <1>1, <1>3 DEF StateInv
<1>7. PickInv' BY <1>1, <1>3, Zero DEF PickInv, TypeOK
<1>8. PinInv' BY <1>3 DEF PinInv
<1>9. BusyIsLive' BY <1>1, <1>3 DEF BusyIsLive
<1>10. ConnectionOwned' BY <1>1, <1>3 DEF ConnectionOwned
<1>11. FileStateAgrees' BY <1>1, <1>3 DEF FileStateAgrees, ListenInv
<1>12. PairInv' BY <1>3 DEF PairInv
<1> QED BY <1>4, <1>5, <1>6, <1>7, <1>8, <1>9, <1>10, <1>11, <1>12

\* FilesSelected keeps the invariant.
LEMMA FilesSelectedStep ==
    ASSUME IndInv, NEW k \in picks, NEW ids \in SUBSET k.files, FilesSelected(k, ids)
    PROVE  IndInv'
<1> DEFINE a == [r EXCEPT !.accepted = ids]
           s == By(k.conn, a)
<1>1. r \in Receiver /\ k.conn \in Conn /\ ids \in SUBSET File BY DEF IndInv, TypeOK
<1>2. a \in Receiver BY <1>1 DEF Receiver
<1>3. /\ SameSession(r, a) /\ SamePeer(r, a) /\ a.state = r.state /\ a.cur = r.cur
      /\ a.active = r.active /\ a.paths = r.paths
      /\ a.key = r.key /\ a.paired = r.paired /\ a.stray = r.stray
  BY <1>1 DEF Receiver, SameSession, SamePeer
<1> HIDE DEF a
<1>4. s \in Receiver BY <1>2, ByType
<1>5. /\ SameSession(a, s) /\ SamePeer(a, s) /\ s.state = a.state /\ s.cur = a.cur
      /\ s.active = a.active /\ s.paths = a.paths /\ s.key = a.key /\ s.paired = a.paired
      /\ (s.stray <=> a.stray \/ r.peer \notin {None, k.conn})
  BY <1>2, ByFields
<1> HIDE DEF s
<1>6. /\ UNCHANGED <<conn, listen, blocked, down>> /\ picks' \subseteq picks
      /\ \A k2 \in picks' : k2.conn # k.conn
  BY DEF FilesSelected, IndInv, PickInv
<1>7. r.stray \/ r.state = "list" \/ r.peer # k.conn BY DEF IndInv, PickInv
<1>8. r.key => r.paired BY DEF IndInv, PairInv
<1>9. CASE r' = s
  BY <1>1, <1>3, <1>4, <1>5, <1>6, <1>8, <1>9, SelectedStep DEF SameSession, SamePeer
<1>10. CASE r.peer # None /\ \E sent \in Sends : r' = [s EXCEPT !.state = IF sent THEN "pair" ELSE s.state]
  <2>1. PICK st \in {s.state, "pair"} : r' = [s EXCEPT !.state = st] BY <1>10
  <2>2. st \in State BY <1>4, <2>1 DEF Receiver, State
  <2>3. r' \in Receiver BY <1>4, <2>1, <2>2, StateType
  <2>4. /\ SameSession(s, r') /\ SamePeer(s, r') /\ r'.state = st /\ r'.cur = s.cur
        /\ r'.active = s.active /\ r'.paths = s.paths
        /\ r'.key = s.key /\ r'.paired = s.paired /\ r'.stray = s.stray
    BY <1>4, <2>1, StateFields
  <2> QED BY <1>1, <1>3, <1>5, <1>6, <1>7, <1>8, <1>10, <2>1, <2>3, <2>4, SelectedStep
      DEF SameSession, SamePeer
<1>11. CASE r.peer # None /\ (RequirePairing => r.key)
        /\ \E named \in SUBSET ids, sent \in Sends : r' = AcceptFiles(s, named, sent)
  <2>1. PICK named \in SUBSET ids, sent \in BOOLEAN : r' = AcceptFiles(s, named, sent)
    BY <1>11 DEF Sends
  <2>2. r' \in Receiver BY <1>4, <2>1, AcceptType
  <2>3. /\ SamePeer(s, r') /\ r'.state \in {s.state, "files"}
        /\ r'.accepting = s.accepting /\ r'.pinAttempts = s.pinAttempts /\ r'.pinOK = s.pinOK
        /\ r'.files = s.files /\ (r'.tokens # {} => s.tokens # {} \/ s.files # {})
        /\ r'.cur = s.cur /\ r'.active = s.active /\ r'.paths = s.paths
        /\ r'.key = s.key /\ r'.paired = s.paired /\ r'.stray = s.stray
    BY <1>4, <2>1, AcceptFields
  <2> QED BY <1>1, <1>3, <1>5, <1>6, <1>7, <1>8, <1>11, <2>2, <2>3, SelectedStep
      DEF SameSession, SamePeer
<1> QED BY <1>9, <1>10, <1>11 DEF FilesSelected, s, a

\* CheckBlocked keeps the invariant.
LEMMA CheckBlockedStep ==
    ASSUME IndInv, NEW c \in Conn, NEW p \in Peer, CheckBlocked(c, p) PROVE IndInv'
BY Zero DEF CheckBlocked, IndInv, TypeOK, ListenInv, StateInv, PickInv, PinInv, BusyIsLive,
   ConnectionOwned, FileStateAgrees, PairInv, Listener

\* ChannelOpens keeps the invariant.
LEMMA ChannelOpensStep ==
    ASSUME IndInv, NEW c \in Conn, ChannelOpens(c)
    PROVE  IndInv'
<1> USE DEF IndInv, TypeOK, Receiver
<1>1. r' \in Receiver BY Zero DEF ChannelOpens
<1>2. TypeOK' BY <1>1, Zero DEF ChannelOpens, ConnState
<1> USE DEF ChannelOpens, ConnState
<1>3. ListenInv' BY <1>1, Zero DEF ListenInv, StateInv
<1>4. StateInv' BY <1>1, Zero DEF StateInv, BusyIsLive
<1>5. PickInv' BY <1>1, Zero DEF PickInv
<1>6. PinInv' BY <1>1, Zero DEF PinInv
<1>7. BusyIsLive' BY <1>1, Zero DEF BusyIsLive, StateInv
<1>8. ConnectionOwned' BY <1>1, Zero DEF ConnectionOwned
<1>9. FileStateAgrees' BY <1>1, Zero DEF FileStateAgrees
<1>10. PairInv' BY <1>1, Zero DEF PairInv
<1> QED BY <1>2, <1>3, <1>4, <1>5, <1>6, <1>7, <1>8, <1>9, <1>10

\* HandleFileList keeps the invariant.
LEMMA HandleFileListStep ==
    ASSUME IndInv, NEW c \in Conn, NEW fs \in SUBSET File, HandleFileList(c, fs)
    PROVE  IndInv'
<1> USE DEF IndInv, TypeOK, Receiver
<1>1. r' \in Receiver
  <2>1. [r EXCEPT !.files = fs] \in Receiver OBVIOUS
  <2> QED BY <2>1, ByType DEF HandleFileList
<1>2. TypeOK' BY <1>1, Zero DEF HandleFileList, ConnState
<1> USE DEF HandleFileList, By, Delivers
<1>3. ListenInv' BY <1>1, Zero DEF ListenInv, StateInv
<1>4. StateInv' BY <1>1, Zero DEF StateInv, BusyIsLive
<1>5. PickInv' BY <1>1, Zero DEF PickInv
<1>6. PinInv' BY <1>1, Zero DEF PinInv
<1>7. BusyIsLive' BY <1>1, Zero DEF BusyIsLive, StateInv
<1>8. ConnectionOwned' BY <1>1, Zero DEF ConnectionOwned
<1>9. FileStateAgrees' BY <1>1, Zero DEF FileStateAgrees
<1>10. PairInv' BY <1>1, Zero DEF PairInv
<1> QED BY <1>2, <1>3, <1>4, <1>5, <1>6, <1>7, <1>8, <1>9, <1>10

\* HandleFileHeader keeps the invariant.
LEMMA HandleFileHeaderStep ==
    ASSUME IndInv, NEW c \in Conn, NEW f \in File, NEW valid \in BOOLEAN, HandleFileHeader(c, f, valid)
    PROVE  IndInv'
<1> USE DEF IndInv, TypeOK, Receiver
<1>1. r' \in Receiver BY ByType, StartType, Zero DEF HandleFileHeader
<1>2. TypeOK' BY <1>1, Zero DEF HandleFileHeader, ConnState
<1> USE DEF HandleFileHeader, By, startReceivingFile, rejectFileTransfer, DropPeer, Delivers
<1>3. ListenInv' BY <1>1, Zero DEF ListenInv, StateInv
<1>4. StateInv' BY <1>1, Zero DEF StateInv, BusyIsLive
<1>5. PickInv' BY <1>1, Zero DEF PickInv
<1>6. PinInv' BY <1>1, Zero DEF PinInv
<1>7. BusyIsLive' BY <1>1, Zero DEF BusyIsLive, StateInv
<1>8. ConnectionOwned' BY <1>1, Zero DEF ConnectionOwned
<1>9. FileStateAgrees' BY <1>1, Zero DEF FileStateAgrees
<1>10. PairInv' BY <1>1, Zero DEF PairInv
<1> QED BY <1>2, <1>3, <1>4, <1>5, <1>6, <1>7, <1>8, <1>9, <1>10

\* HandleStrayText keeps the invariant.
LEMMA HandleStrayTextStep ==
    ASSUME IndInv, NEW c \in Conn, HandleStrayText(c)
    PROVE  IndInv'
<1> USE DEF IndInv, TypeOK, Receiver
<1>1. r' \in Receiver BY ByType, BinaryType, Zero DEF HandleStrayText
<1>2. TypeOK' BY <1>1, Zero DEF HandleStrayText, ConnState
<1> USE DEF HandleStrayText, By, handleBinaryData, cleanupCurrentFile, rejectFileTransfer,
            DropPeer, Delivers
<1>3. ListenInv' BY <1>1, Zero DEF ListenInv, StateInv
<1>4. StateInv' BY <1>1, Zero DEF StateInv, BusyIsLive
<1>5. PickInv' BY <1>1, Zero DEF PickInv
<1>6. PinInv' BY <1>1, Zero DEF PinInv
<1>7. BusyIsLive' BY <1>1, Zero DEF BusyIsLive, StateInv
<1>8. ConnectionOwned' BY <1>1, Zero DEF ConnectionOwned
<1>9. FileStateAgrees' BY <1>1, Zero DEF FileStateAgrees
<1>10. PairInv' BY <1>1, Zero DEF PairInv
<1> QED BY <1>2, <1>3, <1>4, <1>5, <1>6, <1>7, <1>8, <1>9, <1>10

\* HandleData keeps the invariant.
LEMMA HandleDataStep ==
    ASSUME IndInv, NEW c \in Conn, HandleData(c)
    PROVE  IndInv'
<1> USE DEF IndInv, TypeOK, Receiver
<1>1. r' \in Receiver BY ByType, BinaryType, Zero DEF HandleData
<1>2. TypeOK' BY <1>1, Zero DEF HandleData, ConnState
<1> USE DEF HandleData, By, handleBinaryData, cleanupCurrentFile, rejectFileTransfer, DropPeer, Delivers
<1>3. ListenInv' BY <1>1, Zero DEF ListenInv, StateInv
<1>4. StateInv' BY <1>1, Zero DEF StateInv, BusyIsLive
<1>5. PickInv' BY <1>1, Zero DEF PickInv
<1>6. PinInv' BY <1>1, Zero DEF PinInv
<1>7. BusyIsLive' BY <1>1, Zero DEF BusyIsLive, StateInv
<1>8. ConnectionOwned' BY <1>1, Zero DEF ConnectionOwned
<1>9. FileStateAgrees' BY <1>1, Zero DEF FileStateAgrees
<1>10. PairInv' BY <1>1, Zero DEF PairInv
<1> QED BY <1>2, <1>3, <1>4, <1>5, <1>6, <1>7, <1>8, <1>9, <1>10

\* BlockExpires keeps the invariant.
LEMMA BlockExpiresStep ==
    ASSUME IndInv, NEW p \in Peer, BlockExpires(p) PROVE IndInv'
BY Zero DEF BlockExpires, IndInv, TypeOK, ListenInv, StateInv, PickInv, PinInv, BusyIsLive,
   ConnectionOwned, FileStateAgrees, PairInv, Listener

-----------------------------------------------------------------------------
\* The invariant holds initially.
LEMMA InitInv == ASSUME Init PROVE IndInv
<1>1. r \in Receiver BY Zero DEF Init, Receiver, State
<1>2. TypeOK BY <1>1 DEF Init, TypeOK, ConnState, Listener, Idle
<1>3. ListenInv /\ StateInv /\ PickInv /\ PinInv
  BY ReceiverAssumption DEF Init, ListenInv, StateInv, PickInv, PinInv, Idle
<1>4. BusyIsLive /\ ConnectionOwned /\ FileStateAgrees /\ PairInv
  BY DEF Init, BusyIsLive, ConnectionOwned, FileStateAgrees, PairInv
<1> QED BY <1>2, <1>3, <1>4 DEF IndInv

\* Every step, of every action, keeps the invariant.
LEMMA NextInv == ASSUME IndInv, [Next]_vars PROVE IndInv'
<1>1. CASE UNCHANGED vars
  BY <1>1 DEF vars, IndInv, TypeOK, ListenInv, StateInv, PickInv, PinInv, BusyIsLive,
     ConnectionOwned, FileStateAgrees, PairInv
<1>2. ASSUME NEW c \in Conn, NEW p \in Peer, CheckBlocked(c, p) PROVE IndInv'
  BY <1>2, CheckBlockedStep
<1>3. ASSUME Reserve \/ FailAccept \/ Install PROVE IndInv'
  BY <1>3, ReserveStep, FailAcceptStep, InstallStep
<1>4. ASSUME NEW sent \in BOOLEAN, Answer(sent) PROVE IndInv'
  BY <1>4, AnswerStep
<1>5. ASSUME NEW c \in Conn, ChannelOpens(c) \/ ConnectionLost(c) \/ CloseDropped(c) PROVE IndInv'
  BY <1>5, ChannelOpensStep, ConnectionLostStep, CloseDroppedStep
<1>6. ASSUME NEW c \in Conn, Handshake(c) PROVE IndInv'
  BY <1>6, HandleNonceStep, HandleTokenStep, HandleSenderPinStep, HandlePinStep, HandleFileListStep,
     HandlePairAcceptedStep, HandlePairDeclinedStep DEF Handshake
<1>7. ASSUME NEW c \in Conn, Transfer(c) PROVE IndInv'
  BY <1>7, HandleFileHeaderStep, HandleStrayTextStep, HandleDataStep, HandleDelimiterStep,
     HandleBadBoundaryStep, HandleNextHeaderStep DEF Transfer
<1>8. ASSUME NEW k \in picks, NEW ids \in SUBSET k.files, FilesSelected(k, ids) PROVE IndInv'
  BY <1>8, FilesSelectedStep
<1>9. ASSUME Close PROVE IndInv'
  BY <1>9, CloseStep
<1>10. ASSUME NEW p \in Peer, BlockExpires(p) PROVE IndInv'
  BY <1>10, BlockExpiresStep
<1> QED BY <1>1, <1>2, <1>3, <1>4, <1>5, <1>6, <1>7, <1>8, <1>9, <1>10 DEF Next

-----------------------------------------------------------------------------
(* The theorems, for any number of connections, senders and files.         *)

\* The inductive invariant holds in every reachable state of the receiver.
THEOREM Invariance == Spec => []IndInv
<1>1. Init => IndInv BY InitInv
<1>2. IndInv /\ [Next]_vars => IndInv' BY NextInv
<1> QED BY <1>1, <1>2, PTL DEF Spec

\* The receiver's fields keep their types, and PIN attempts their bound.
THEOREM TypeCorrect == Spec => []TypeOK
<1>1. IndInv => TypeOK BY DEF IndInv
<1> QED BY <1>1, Invariance, PTL

\* AcceptOffer answers "busy" only while an accept is under way or the
\* session's connection is up: no failure path locks the receiver for good.
THEOREM RefusesForLiveReason == Spec => []BusyIsLive
<1>1. IndInv => BusyIsLive BY DEF IndInv
<1> QED BY <1>1, Invariance, PTL

\* No connection is left open that is neither the session's nor being closed,
\* unless its loss was reported.
THEOREM NoConnectionForgotten == Spec => []ConnectionOwned
<1>1. IndInv => ConnectionOwned BY DEF IndInv
<1> QED BY <1>1, Invariance, PTL

\* Until another connection's handler runs in a session, currentFileID, the
\* state, the writer and the activity report describe the same file.
THEOREM FileRecordsAgree == Spec => []FileStateAgrees
<1>1. IndInv => FileStateAgrees BY DEF IndInv
<1> QED BY <1>1, Invariance, PTL

\* With a PIN set, tokens and open files exist only after the right PIN was
\* given in the same session.
THEOREM PinFirst == Spec => []PinBeforeFiles
<1>1. IndInv => PinBeforeFiles BY DEF IndInv, PinInv, PinBeforeFiles
<1> QED BY <1>1, Invariance, PTL

\* With pairing required, tokens and open files exist only after the sender was
\* recognised as trusted or accepted pairing in the same session.
THEOREM PairFirst == Spec => []PairBeforeFiles
<1>1. IndInv => PairBeforeFiles BY DEF IndInv, PairInv, PairBeforeFiles
<1> QED BY <1>1, Invariance, PTL

-----------------------------------------------------------------------------
(* RTCReceiver implements ReceiveSlot: each step of the listener, of a     *)
(* handler or of a close maps to one step of the slot or to none.          *)

\* What a step of RTCReceiver is for ReceiveSlot.
SlotStep == [Slot!Next]_(Slot!slotVars)

\* A step that at most gives the slot up.
LEMMA KeepsOrReleases ==
    ASSUME r'.accepting = r.accepting, r'.peer \in {r.peer, None},
           {c \in Conn : conn'[c] # "none"} = {c \in Conn : conn[c] # "none"}
    PROVE  SlotStep
<1>1. CASE r'.peer = r.peer
  BY <1>1 DEF SlotStep, Slot!slotVars
<1>2. CASE r'.peer # r.peer
  BY <1>2 DEF SlotStep, Slot!Next, Slot!Release
<1>3. QED
  BY <1>1, <1>2

\* The connection of a handler is the session's afterwards or nobody's, and
\* the reservation is left alone.
LEMMA HandlerSlot ==
    ASSUME NEW c, NEW t \in Receiver, r' = By(c, t), UNCHANGED conn,
           t.accepting = r.accepting, t.peer \in {r.peer, None}
    PROVE  SlotStep
<1>1. r'.accepting = t.accepting /\ r'.peer = t.peer
  BY ByFields DEF SameSession, SamePeer
<1>2. QED
  BY <1>1, KeepsOrReleases

\* A header starts a file for the session or gives the slot up.
LEMMA StartSlot ==
    ASSUME NEW c, NEW s \in Receiver, s.peer = r.peer, s.accepting = r.accepting, UNCHANGED conn,
           NEW f \in File, NEW valid \in BOOLEAN, NEW creates \in BOOLEAN,
           r' = By(c, startReceivingFile(s, f, valid, creates))
    PROVE  SlotStep
<1> DEFINE t == startReceivingFile(s, f, valid, creates)
<1>1. t \in Receiver
  BY StartType
<1>2. t.accepting = s.accepting /\ t.peer \in {s.peer, None}
  <2>1. SameSession(s, t) /\ (Rejected(s, t) \/ Started(s, t, f))
    BY StartFields
  <2> HIDE DEF t
  <2>2. QED
    BY <2>1 DEF SameSession, Rejected, Started, Dropped, SamePeer
<1> HIDE DEF t
<1>3. QED
  BY <1>1, <1>2, HandlerSlot DEF t

\* The handshake leaves the slot alone or gives it up.
LEMMA HandshakeSlot ==
    ASSUME IndInv, NEW c \in Conn, Handshake(c)
    PROVE  SlotStep
<1>1. r \in Receiver
  BY DEF IndInv, TypeOK
<1>2. UNCHANGED conn
  BY DEF Handshake, HandleNonce, HandleToken, HandleSenderPin, HandlePin, HandleFileList,
         HandlePairAccepted, HandlePairDeclined
<1>3. ASSUME HandleNonce(c)
      PROVE  SlotStep
  BY <1>1, <1>2, <1>3, KeepsOrReleases DEF HandleNonce, By, Receiver
<1>4. ASSUME HandleToken(c)
      PROVE  SlotStep
  BY <1>1, <1>2, <1>4, KeepsOrReleases DEF HandleToken, By, Receiver
<1>5. ASSUME HandleSenderPin(c) \/ (RequirePairing /\ HandlePairDeclined(c))
      PROVE  SlotStep
  <2>1. r' = By(c, terminateLocked(r))
    BY <1>5 DEF HandleSenderPin, HandlePairDeclined
  <2>2. QED
    BY <1>1, <1>2, <2>1, TerminateType, TerminateFields, HandlerSlot DEF SameSession, Dropped
<1>6. ASSUME NEW right \in BOOLEAN, HandlePin(c, right)
      PROVE  SlotStep
  <2> DEFINE w == [r EXCEPT !.pinAttempts = r.pinAttempts + 1]
  <2>1. w.peer = r.peer /\ w.accepting = r.accepting
    BY <1>1 DEF Receiver
  <2>2. r.pinAttempts + 1 \in 0..MaxPINAttempts
    BY <1>1, <1>6, ReceiverAssumption DEF IndInv, StateInv, Receiver, HandlePin
  <2>3. w \in Receiver
    BY <1>1, <2>2 DEF Receiver
  <2>4. CASE r' = By(c, [r EXCEPT !.state = "list", !.pinOK = TRUE])
    BY <1>1, <1>2, <2>4, KeepsOrReleases DEF By, Receiver
  <2>5. CASE r' = By(c, terminateLocked(w))
    <3> HIDE DEF w
    <3>1. QED
      BY <1>2, <2>1, <2>3, <2>5, TerminateType, TerminateFields, HandlerSlot DEF SameSession, Dropped
  <2>6. CASE r' = By(c, w)
    <3> HIDE DEF w
    <3>1. QED
      BY <1>2, <2>1, <2>3, <2>6, HandlerSlot
  <2>7. QED
    BY <1>6, <2>4, <2>5, <2>6 DEF HandlePin
<1>7. ASSUME NEW fs \in SUBSET File, HandleFileList(c, fs)
      PROVE  SlotStep
  BY <1>1, <1>2, <1>7, KeepsOrReleases DEF HandleFileList, By, Receiver
<1>8. ASSUME NEW withKey \in BOOLEAN, HandlePairAccepted(c, withKey)
      PROVE  SlotStep
  BY <1>1, <1>2, <1>8, KeepsOrReleases DEF HandlePairAccepted, AcceptFiles, By, Receiver
<1>9. ASSUME ~RequirePairing, HandlePairDeclined(c)
      PROVE  SlotStep
  <2>1. PICK named \in SUBSET r.accepted, sent \in BOOLEAN : r' = By(c, AcceptFiles(r, named, sent))
    BY <1>9 DEF HandlePairDeclined, Sends
  <2>2. QED
    BY <1>1, <1>2, <2>1, AcceptType, AcceptFields, HandlerSlot DEF SamePeer
<1>10. QED
  BY <1>3, <1>4, <1>5, <1>6, <1>7, <1>8, <1>9 DEF Handshake

\* The transfer leaves the slot alone or gives it up.
LEMMA TransferSlot ==
    ASSUME IndInv, NEW c \in Conn, Transfer(c)
    PROVE  SlotStep
<1>1. r \in Receiver
  BY DEF IndInv, TypeOK
<1>2. UNCHANGED conn
  BY DEF Transfer, HandleFileHeader, HandleStrayText, HandleData, HandleDelimiter,
         HandleBadBoundary, HandleNextHeader
<1>3. ASSUME NEW f \in File, NEW valid \in BOOLEAN, HandleFileHeader(c, f, valid)
      PROVE  SlotStep
  <2>1. PICK creates \in BOOLEAN : r' = By(c, startReceivingFile(r, f, valid, creates))
    BY <1>3 DEF HandleFileHeader
  <2>2. QED
    BY <1>1, <1>2, <2>1, StartSlot
<1>4. ASSUME r' = By(c, handleBinaryData(r))
      PROVE  SlotStep
  BY <1>1, <1>2, <1>4, KeepsOrReleases
     DEF handleBinaryData, cleanupCurrentFile, rejectFileTransfer, DropPeer, By, Receiver
<1>5. ASSUME HandleStrayText(c)
      PROVE  SlotStep
  BY <1>4, <1>5 DEF HandleStrayText
<1>6. ASSUME HandleData(c)
      PROVE  SlotStep
  BY <1>4, <1>6 DEF HandleData
<1>7. ASSUME HandleDelimiter(c) \/ HandleBadBoundary(c)
      PROVE  SlotStep
  <2> DEFINE s == finishCurrentFile(r)
             d == [s EXCEPT !.state = "done"]
  <2>1. s \in Receiver /\ s.peer = r.peer /\ s.accepting = r.accepting
    BY <1>1, <1>7, FinishType, FinishFields DEF SameSession, SamePeer, HandleDelimiter, HandleBadBoundary
  <2>2. r' = By(c, DropPeer(d)) \/ r' = By(c, terminateLocked(s))
    BY <1>7 DEF HandleDelimiter, HandleBadBoundary
  <2> HIDE DEF s
  <2>3. d \in Receiver /\ d.peer = s.peer /\ d.accepting = s.accepting
    BY <2>1, StateType, StateFields DEF State, SameSession, SamePeer
  <2> HIDE DEF d
  <2>4. CASE r' = By(c, DropPeer(d))
    <3>1. DropPeer(d) \in Receiver /\ DropPeer(d).accepting = d.accepting /\ DropPeer(d).peer = None
      BY <2>3, DropPeerType, DropPeerFields DEF SameSession, Dropped
    <3>2. QED
      BY <1>2, <2>1, <2>3, <2>4, <3>1, HandlerSlot
  <2>5. CASE r' = By(c, terminateLocked(s))
    BY <1>2, <2>1, <2>5, TerminateType, TerminateFields, HandlerSlot DEF SameSession, Dropped
  <2>6. QED
    BY <2>2, <2>4, <2>5
<1>8. ASSUME NEW f \in File, NEW valid \in BOOLEAN,
             HandleNextHeader(c, f, valid)
      PROVE  SlotStep
  <2> DEFINE s == finishCurrentFile(r)
  <2>1. s \in Receiver /\ s.peer = r.peer /\ s.accepting = r.accepting
    BY <1>1, <1>8, FinishType, FinishFields DEF SameSession, SamePeer, HandleNextHeader
  <2>2. PICK creates \in BOOLEAN : r' = By(c, startReceivingFile(s, f, valid, creates))
    BY <1>8 DEF HandleNextHeader
  <2> HIDE DEF s
  <2>3. QED
    BY <1>2, <2>1, <2>2, StartSlot
<1>9. QED
  BY <1>3, <1>5, <1>6, <1>7, <1>8 DEF Transfer

\* A connection that is set up gets the slot or does not.
LEMMA GrantOrRefuse ==
    ASSUME NEW c \in Conn, Slot!Grant(c) \/ Slot!Refuse(c)
    PROVE  SlotStep
BY DEF SlotStep, Slot!Next

\* AcceptOffer reserves a free slot, and fills it or hands it back.
LEMMA AcceptSlot ==
    ASSUME IndInv, Reserve \/ FailAccept \/ Install
    PROVE  SlotStep
<1>1. r \in Receiver /\ listen \in Listener /\ conn \in [Conn -> ConnState]
  BY DEF IndInv, TypeOK
<1>2. ASSUME Reserve
      PROVE  SlotStep
  <2>1. UNCHANGED conn
    BY <1>2 DEF Reserve
  <2>2. CASE Busy(r)
    BY <1>2, <2>1, <2>2, KeepsOrReleases DEF Reserve
  <2>3. CASE ~Busy(r)
    <3>1. r.accepting = FALSE /\ r.peer = None
      BY <1>1, <2>3 DEF Busy, IndInv, BusyIsLive, Receiver
    <3>2. r'.accepting = TRUE /\ r'.peer = None
      <4>1. r' = Reset(r, listen.peer) /\ listen.peer \in Peer \cup {None}
        BY <1>1, <1>2, <2>3 DEF Reserve, Listener
      <4>2. QED
        BY <1>1, <4>1, ResetFields DEF Dropped
    <3>3. Slot!Reserve
      BY <2>1, <3>1, <3>2 DEF Slot!Reserve
    <3>4. QED
      BY <3>3 DEF SlotStep, Slot!Next
  <2>4. QED
    BY <2>2, <2>3
<1>3. ASSUME FailAccept
      PROVE  SlotStep
  <2>1. UNCHANGED conn /\ r'.accepting = FALSE /\ r'.peer = r.peer
    BY <1>1, <1>3 DEF FailAccept, Receiver
  <2>2. CASE r.accepting = FALSE
    BY <2>1, <2>2, KeepsOrReleases
  <2>3. CASE r.accepting = TRUE
    BY <2>1, <2>3 DEF SlotStep, Slot!Next, Slot!Abandon
  <2>4. QED
    BY <1>1, <2>2, <2>3 DEF Receiver
<1>4. ASSUME Install
      PROVE  SlotStep
  <2> DEFINE seen == {d \in Conn : conn[d] # "none"}
  <2>1. PICK c \in Conn : c = listen.conn /\ conn[c] = "none" /\ r.peer = None
    BY <1>4 DEF Install, IndInv, ListenInv
  <2>2. {d \in Conn : conn'[d] # "none"} = seen \cup {c}
    BY <1>1, <1>4, <2>1 DEF Install
  <2>3. CASE r.accepting = TRUE
    <3>1. r'.accepting = FALSE /\ r'.peer = c
      BY <1>1, <1>4, <2>1, <2>3 DEF Install, Receiver
    <3>2. Slot!Grant(c)
      BY <2>1, <2>2, <2>3, <3>1 DEF Slot!Grant
    <3>3. QED
      BY <2>1, <3>2, GrantOrRefuse
  <2>4. CASE r.accepting = FALSE
    <3>1. r' = r
      BY <1>4, <2>4 DEF Install
    <3>2. Slot!Refuse(c)
      BY <2>1, <2>2, <2>4, <3>1 DEF Slot!Refuse
    <3>3. QED
      BY <2>1, <3>2, GrantOrRefuse
  <2>5. QED
    BY <1>1, <2>3, <2>4 DEF Receiver
<1>5. QED
  BY <1>2, <1>3, <1>4

\* A connection that ends gives up its own slot and nobody else's.
LEMMA LostSlot ==
    ASSUME IndInv, NEW c \in Conn, NEW w \in {"open", "lost", "closed"}, conn[c] # "none",
           conn' = [conn EXCEPT ![c] = w],
           \/ r' = r
           \/ r' = handlePeerClosed(r, c)
           \/ r' = [handlePeerClosed(r, c) EXCEPT !.closing = @ \ {c}]
    PROVE  SlotStep
<1>1. r \in Receiver /\ conn \in [Conn -> ConnState]
  BY DEF IndInv, TypeOK
<1>2. {d \in Conn : conn'[d] # "none"} = {d \in Conn : conn[d] # "none"}
  BY <1>1
<1> DEFINE s == handlePeerClosed(r, c)
<1>3. s \in Receiver
  BY <1>1, PeerClosedType
<1>4. s.accepting = r.accepting /\ s.peer \in {r.peer, None}
  <2>1. CASE r.peer = c
    <3>1. r.accepting = FALSE
      BY <1>1, <2>1, Zero DEF IndInv, BusyIsLive, Receiver
    <3>2. QED
      BY <1>1, <2>1, <3>1, PeerClosedFields
  <2>2. CASE r.peer # c
    BY <2>2 DEF handlePeerClosed
  <2>3. QED
    BY <2>1, <2>2
<1> HIDE DEF s
<1>5. r'.accepting = r.accepting /\ r'.peer \in {r.peer, None}
  BY <1>3, <1>4 DEF s, Receiver
<1>6. QED
  BY <1>2, <1>5, KeepsOrReleases

\* Close ends the reservation or the session, whichever there is.
LEMMA CloseSlot ==
    ASSUME IndInv, Close
    PROVE  SlotStep
<1> DEFINE a == cleanupPartialFilesLocked(r)
           b == [a EXCEPT !.accepting = FALSE, !.state = "done"]
<1>1. r \in Receiver /\ UNCHANGED conn /\ r' = DropPeer(b)
  BY DEF IndInv, TypeOK, Close
<1>2. a \in Receiver /\ a.peer = r.peer
  BY <1>1, CleanupType, CleanupFields DEF SamePeer
<1> HIDE DEF a
<1>3. b \in Receiver /\ b.accepting = FALSE
  BY <1>2 DEF Receiver, State
<1> HIDE DEF b
<1>4. r'.accepting = FALSE /\ r'.peer = None
  BY <1>1, <1>3, DropPeerFields DEF SameSession, Dropped
<1>5. CASE r.accepting = FALSE
  BY <1>1, <1>4, <1>5, KeepsOrReleases
<1>6. CASE r.accepting = TRUE
  <2>1. r.peer = None
    BY <1>6 DEF IndInv, BusyIsLive
  <2>2. QED
    BY <1>1, <1>4, <1>6, <2>1 DEF SlotStep, Slot!Next, Slot!Abandon
<1>7. QED
  BY <1>1, <1>5, <1>6 DEF Receiver

\* The selection callback's return leaves the slot alone, whoever has it now.
LEMMA SelectedSlot ==
    ASSUME IndInv, NEW k \in picks, NEW ids \in SUBSET k.files, FilesSelected(k, ids)
    PROVE  SlotStep
<1> DEFINE a == [r EXCEPT !.accepted = ids]
           s == By(k.conn, a)
<1>1. r \in Receiver /\ ids \in SUBSET File
  BY DEF IndInv, TypeOK
<1>2. a \in Receiver /\ a.peer = r.peer /\ a.accepting = r.accepting
  BY <1>1 DEF Receiver
<1> HIDE DEF a
<1>3. s \in Receiver /\ s.peer = r.peer /\ s.accepting = r.accepting
  BY <1>2, ByType, ByFields DEF SameSession, SamePeer
<1> HIDE DEF s
<1>4. UNCHANGED conn
  BY DEF FilesSelected
<1>5. \/ r' = s
      \/ \E st : r' = [s EXCEPT !.state = st]
      \/ \E named \in SUBSET ids, sent \in Sends : r' = AcceptFiles(s, named, sent)
  BY DEF FilesSelected, s, a
<1>6. r'.peer = r.peer /\ r'.accepting = r.accepting
  BY <1>3, <1>5 DEF AcceptFiles, Receiver
<1>7. QED
  BY <1>4, <1>6, KeepsOrReleases

\* Every step of RTCReceiver is a step of ReceiveSlot or none.
LEMMA NextSlot == ASSUME IndInv, [Next]_vars PROVE SlotStep
<1>1. CASE UNCHANGED vars
  BY <1>1 DEF vars, SlotStep, Slot!slotVars
<1>2. ASSUME NEW c \in Conn, NEW p \in Peer, CheckBlocked(c, p)
      PROVE  SlotStep
  BY <1>2, KeepsOrReleases DEF CheckBlocked
<1>3. ASSUME NEW sent \in BOOLEAN, Answer(sent)
      PROVE  SlotStep
  <2>1. listen.conn \in Conn /\ conn[listen.conn] # "none"
    BY <1>3 DEF Answer, IndInv, ListenInv
  <2>2. CASE sent
    BY <1>3, <2>2, KeepsOrReleases DEF Answer
  <2>3. CASE ~sent
    BY <1>3, <2>1, <2>3, LostSlot DEF Answer
  <2>4. QED
    BY <2>2, <2>3
<1>4. ASSUME NEW c \in Conn, ChannelOpens(c) \/ ConnectionLost(c) \/ CloseDropped(c)
      PROVE  SlotStep
  <2>1. conn[c] # "none"
    BY <1>4 DEF ChannelOpens, ConnectionLost, CloseDropped, IndInv, StateInv
  <2>2. QED
    BY <1>4, <2>1, LostSlot DEF ChannelOpens, ConnectionLost, CloseDropped
<1>5. ASSUME NEW p \in Peer, BlockExpires(p)
      PROVE  SlotStep
  BY <1>5, KeepsOrReleases DEF BlockExpires
<1>6. QED
  BY <1>1, <1>2, <1>3, <1>4, <1>5, AcceptSlot, HandshakeSlot, TransferSlot, SelectedSlot, CloseSlot
     DEF Next

\* The receiver implements ReceiveSlot: AcceptOffer never takes the session
\* from a connection that has it, grants it only on a reservation that no
\* Close revoked, and to no connection twice.
THEOREM OneSessionAtATime == Spec => OneAtATime
<1>1. Init => Slot!Init
  BY DEF Init, Slot!Init
<1>2. IndInv /\ [Next]_vars => [Slot!Next]_(Slot!slotVars)
  BY NextSlot DEF SlotStep
<1>3. QED
  BY <1>1, <1>2, Invariance, PTL DEF Spec, OneAtATime, Slot!Spec
=============================================================================
