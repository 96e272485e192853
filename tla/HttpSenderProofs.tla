-------------------------- MODULE HttpSenderProofs --------------------------
(***************************************************************************)
(* Proofs about HttpSender, for every set of files, every positive number  *)
(* of workers and of attempts.                                             *)
(***************************************************************************)
EXTENDS HttpSender, FiniteSetTheorems, TLAPS

\* A worker that has a file, and one that has a connection.
Busy(w)   == worker[w].pc \in {"check", "acquire", "dialled", "stream"}
Linked(w) == worker[w].pc \in {"dialled", "stream"}

\* Every file is with one worker at most, and not also on offer.
JobInv ==
    /\ \A w \in Worker : Busy(w) => worker[w].file \in tokens \ todo
    /\ \A v, w \in Worker : Busy(v) /\ Busy(w) /\ worker[v].file = worker[w].file => v = w
    /\ \A w \in Worker : Linked(w) => worker[w].conn \in Conn

\* A file that is on offer, or whose answer is not ok, is not saved.
SavedInv ==
    /\ \A w \in Worker : worker[w].reply # "none" => worker[w].pc = "stream"
    /\ \A w \in Worker :
          Busy(w) => remote.saved[worker[w].file] = IF worker[w].reply = "ok" THEN 1 ELSE 0
    /\ \A f \in todo : remote.saved[f] = 0
    /\ \A f \in File : remote.saved[f] <= 1

\* Where Start is says what it knows and what its own Cancel has done.
StartInv ==
    /\ pc = "prepare" => /\ ~known /\ tokens = {}
                         /\ \A w \in Worker : worker[w] = Idle
                         /\ \A f \in File : remote.saved[f] = 0
    /\ result # "none" => pc = "ended"
    /\ pc \in {"prepare", "upload"} => cancel["start"].pc = "none"
    /\ result = "error" /\ known => cancel["start"].pc \in {"sent", "lost"}
    /\ cancel["start"].pc = "sent" => remote.session # "open"

\* Nothing is forgotten: without an error or an abort every accepted file is
\* on offer, with a worker or saved, and somebody is left to take what is on
\* offer.
DoneInv ==
    /\ ~errs /\ ~abort => \A f \in tokens \ todo : \/ remote.saved[f] = 1
                                                   \/ \E w \in Worker : Busy(w) /\ worker[w].file = f
    /\ pc = "upload" /\ todo # {} => \E w \in Worker : worker[w].pc # "ended"
    /\ OkMeansSaved

\* From the store of abort on no connection opens; what was open at the
\* snapshot is still to be closed.
CancelInv ==
    \A k \in Caller :
       /\ cancel[k].pc \notin {"none", "store"} => abort
       /\ cancel[k].pc = "close" => Active \subseteq cancel[k].conns
       /\ cancel[k].pc \in {"ask", "sent", "lost", "done"} => Active = {}

IndInv == TypeOK /\ JobInv /\ SavedInv /\ StartInv /\ DoneInv /\ CancelInv

-----------------------------------------------------------------------------
(* Types *)

WorkerState == [pc : {"idle", "check", "acquire", "dialled", "stream", "ended"},
                file : File \cup {NoFile}, tries : 0..(MaxAttempts - 1),
                conn : Conn \cup {NoConn}, reply : {"none", "ok", "checksum", "error"}]

CancelState == [pc : {"none", "store", "snapshot", "close", "ask", "sent", "lost", "done"},
                conns : SUBSET Conn]

\* A worker without a job, or with the start of one, is in a state of its own.
LEMMA WorkerStates ==
    /\ Idle \in WorkerState
    /\ [Idle EXCEPT !.pc = "ended"] \in WorkerState
    /\ \A f \in File, n \in 0..(MaxAttempts - 1) :
          [Idle EXCEPT !.pc = "check", !.file = f, !.tries = n] \in WorkerState
<1>1. 0 \in 0..(MaxAttempts - 1)
  BY HttpSenderAssumption
<1>2. QED
  BY <1>1 DEF Idle, WorkerState

\* What a worker's step does to its own state keeps its type.
LEMMA WorkerTypes == IndInv /\ [Next]_vars => worker' \in [Worker -> WorkerState]
<1> SUFFICES ASSUME IndInv, [Next]_vars
             PROVE  worker' \in [Worker -> WorkerState]
  OBVIOUS
<1>0. worker \in [Worker -> WorkerState]
  BY DEF IndInv, TypeOK, WorkerState
<1>1. ASSUME NEW T \in SUBSET File, PrepareAnswered(T)
      PROVE  worker' \in [Worker -> WorkerState]
  <2>1. PICK W \in SUBSET Worker :
              worker' = [w \in Worker |-> IF w \in W THEN Idle ELSE [Idle EXCEPT !.pc = "ended"]]
    BY <1>1 DEF PrepareAnswered
  <2>2. \A w \in Worker : (IF w \in W THEN Idle ELSE [Idle EXCEPT !.pc = "ended"]) \in WorkerState
    BY WorkerStates
  <2>3. QED
    BY <2>1, <2>2
<1>2. ASSUME NEW w \in Worker, NEW f \in File, TakeJob(w, f)
      PROVE  worker' \in [Worker -> WorkerState]
  <2>1. worker' = [worker EXCEPT ![w] = [worker[w] EXCEPT !.pc = "check", !.file = f]]
    BY <1>0, <1>2 DEF TakeJob
  <2>2. [worker[w] EXCEPT !.pc = "check", !.file = f] \in WorkerState
    BY <1>0 DEF WorkerState
  <2>3. QED
    BY <1>0, <2>1, <2>2
<1>3. ASSUME NEW w \in Worker, WorkerEnds(w)
      PROVE  worker' \in [Worker -> WorkerState]
  BY <1>0, <1>3 DEF WorkerEnds, WorkerState
<1>4. ASSUME NEW w \in Worker, NEW c \in Conn, Reuse(w, c) \/ Dial(w, c)
      PROVE  worker' \in [Worker -> WorkerState]
  BY <1>0, <1>4 DEF Reuse, Dial, WorkerState
<1>5. ASSUME NEW w \in Worker, NEW r \in {"ok", "checksum", "error"}, RemoteReplies(w, r)
      PROVE  worker' \in [Worker -> WorkerState]
  BY <1>0, <1>5 DEF RemoteReplies, WorkerState
<1>6. ASSUME NEW w \in Worker, NEW p \in {"acquire", "stream"},
             worker' = [worker EXCEPT ![w].pc = p]
      PROVE  worker' \in [Worker -> WorkerState]
  BY <1>0, <1>6 DEF WorkerState
<1>7. ASSUME NEW w \in Worker, worker' = [worker EXCEPT ![w] = Idle]
      PROVE  worker' \in [Worker -> WorkerState]
  BY <1>0, <1>7, WorkerStates
<1>8. ASSUME NEW w \in Worker, ReadReply(w)
      PROVE  worker' \in [Worker -> WorkerState]
  <2>1. CASE worker' = [worker EXCEPT ![w] = Idle]
    BY <1>7, <2>1
  <2>2. CASE /\ Retry(w)
             /\ worker' = [worker EXCEPT ![w] = [Idle EXCEPT !.pc = "check", !.file = worker[w].file,
                                                             !.tries = worker[w].tries + 1]]
    <3>1. worker[w].tries + 1 \in 0..(MaxAttempts - 1)
      BY <1>0, <2>2, HttpSenderAssumption DEF WorkerState, Retry
    <3>2. worker[w].file \in File
      BY <1>8 DEF ReadReply, IndInv, JobInv, Busy, TypeOK
    <3>3. QED
      BY <1>0, <2>2, <3>1, <3>2, WorkerStates
  <2>3. QED
    BY <1>8, <2>1, <2>2 DEF ReadReply
<1>9. ASSUME NEW w \in Worker, CheckAbort(w) \/ DialFails(w) \/ Track(w) \/ StreamFails(w)
      PROVE  worker' \in [Worker -> WorkerState]
  BY <1>6, <1>7, <1>9 DEF CheckAbort, DialFails, Track, StreamFails, GiveUp
<1>10. ASSUME worker' = worker
       PROVE  worker' \in [Worker -> WorkerState]
  BY <1>0, <1>10
<1>11. QED
  BY <1>1, <1>2, <1>3, <1>4, <1>5, <1>8, <1>9, <1>10
     DEF Next, Start, Work, Cancels, PrepareFails, AllDone, CancelReturns, Signal,
         StoreAbort, Snapshot, CloseOne, CloseDone, Ask, vars

\* Every step keeps the types.
LEMMA TypeStep == IndInv /\ [Next]_vars => TypeOK'
<1> SUFFICES ASSUME IndInv, [Next]_vars
             PROVE  TypeOK'
  OBVIOUS
<1>1. CASE PrepareFails
  BY <1>1 DEF PrepareFails, IndInv, TypeOK, jobVars, Idle
<1>2. ASSUME NEW T \in SUBSET File, PrepareAnswered(T)
      PROVE  TypeOK'
  BY <1>2, WorkerTypes DEF PrepareAnswered, IndInv, TypeOK, WorkerState, jobVars
<1>3. CASE AllDone
  BY <1>3 DEF AllDone, IndInv, TypeOK, jobVars, Idle, Failed
<1>4. CASE CancelReturns
  BY <1>4 DEF CancelReturns, IndInv, TypeOK, jobVars, Idle
<1>5. CASE Signal
  <2>1. cancel' \in [Caller -> CancelState]
    BY <1>5, ZenonT(40) DEF Signal, IndInv, TypeOK, CancelState
  <2>2. QED
    BY <1>5, <2>1 DEF Signal, IndInv, TypeOK, CancelState, jobVars
<1>6. ASSUME NEW w \in Worker, NEW f \in File, TakeJob(w, f)
      PROVE  TypeOK'
  BY <1>6, WorkerTypes DEF TakeJob, IndInv, TypeOK, WorkerState, jobVars
<1>7. ASSUME NEW w \in Worker, WorkerEnds(w)
      PROVE  TypeOK'
  BY <1>7, WorkerTypes DEF WorkerEnds, IndInv, TypeOK, WorkerState, jobVars
<1>8. ASSUME NEW w \in Worker, CheckAbort(w)
      PROVE  TypeOK'
  BY <1>8, WorkerTypes DEF CheckAbort, IndInv, TypeOK, WorkerState, jobVars
<1>9. ASSUME NEW w \in Worker, NEW c \in Conn, Reuse(w, c)
      PROVE  TypeOK'
  BY <1>9, WorkerTypes DEF Reuse, IndInv, TypeOK, WorkerState, jobVars
<1>10. ASSUME NEW w \in Worker, DialFails(w)
      PROVE  TypeOK'
  BY <1>10, WorkerTypes DEF DialFails, IndInv, TypeOK, WorkerState, jobVars
<1>11. ASSUME NEW w \in Worker, NEW c \in Conn, Dial(w, c)
      PROVE  TypeOK'
  BY <1>11, WorkerTypes DEF Dial, IndInv, TypeOK, WorkerState, jobVars
<1>12. ASSUME NEW w \in Worker, Track(w)
      PROVE  TypeOK'
  BY <1>12, WorkerTypes DEF Track, IndInv, TypeOK, WorkerState, jobVars, Refused
<1>13. ASSUME NEW w \in Worker, NEW r \in {"ok", "checksum", "error"}, RemoteReplies(w, r)
      PROVE  TypeOK'
  <2>1. worker[w].file \in File /\ remote.saved[worker[w].file] + 1 \in 0..2
    BY <1>13 DEF RemoteReplies, IndInv, TypeOK, JobInv, SavedInv, Busy
  <2>2. remote' \in [session : {"none", "open", "ended"}, saved : [File -> 0..2]]
    BY <1>13, <2>1 DEF RemoteReplies, IndInv, TypeOK
  <2>3. QED
    BY <1>13, <2>2, WorkerTypes DEF RemoteReplies, IndInv, TypeOK, WorkerState, jobVars
<1>14. ASSUME NEW w \in Worker, ReadReply(w)
      PROVE  TypeOK'
  <2>1. worker[w].conn \in Conn
    BY <1>14 DEF ReadReply, IndInv, JobInv, Linked
  <2>2. QED
    BY <1>14, <2>1, WorkerTypes DEF ReadReply, IndInv, TypeOK, WorkerState, jobVars
<1>15. ASSUME NEW w \in Worker, StreamFails(w)
      PROVE  TypeOK'
  BY <1>15, WorkerTypes DEF StreamFails, IndInv, TypeOK, WorkerState, jobVars, GiveUp
<1>16. ASSUME NEW k \in Caller, StoreAbort(k)
      PROVE  TypeOK'
  BY <1>16 DEF StoreAbort, IndInv, TypeOK, jobVars, Idle
<1>17. ASSUME NEW k \in Caller, Snapshot(k)
      PROVE  TypeOK'
  <2>1. cancel \in [Caller -> CancelState] /\ Active \in SUBSET Conn
    BY DEF IndInv, TypeOK, CancelState, Active
  <2>2. cancel' = [cancel EXCEPT ![k] = [cancel[k] EXCEPT !.pc = "close", !.conns = Active]]
    BY <1>17, <2>1 DEF Snapshot
  <2>3. [cancel[k] EXCEPT !.pc = "close", !.conns = Active] \in CancelState
    BY <2>1 DEF CancelState
  <2>4. cancel' \in [Caller -> CancelState]
    BY <2>1, <2>2, <2>3
  <2>5. QED
    BY <1>17, <2>4 DEF Snapshot, IndInv, TypeOK, CancelState, jobVars
<1>18. ASSUME NEW k \in Caller, NEW c \in Conn, CloseOne(k, c)
      PROVE  TypeOK'
  BY <1>18 DEF CloseOne, IndInv, TypeOK, jobVars, Idle
<1>19. ASSUME NEW k \in Caller, CloseDone(k)
      PROVE  TypeOK'
  BY <1>19 DEF CloseDone, IndInv, TypeOK, jobVars, Idle
<1>20. ASSUME NEW k \in Caller, Ask(k)
      PROVE  TypeOK'
  <2>1. cancel' \in [Caller -> CancelState]
    <3>1. CASE cancel' = [cancel EXCEPT ![k].pc = "sent"]
      BY <3>1 DEF IndInv, TypeOK, CancelState
    <3>2. CASE cancel' = [cancel EXCEPT ![k].pc = "lost"]
      BY <3>2 DEF IndInv, TypeOK, CancelState
    <3>3. QED
      BY <1>20, <3>1, <3>2 DEF Ask
  <2>2. remote' \in [session : {"none", "open", "ended"}, saved : [File -> 0..2]]
    BY <1>20 DEF Ask, IndInv, TypeOK, CancelRemote
  <2>3. QED
    BY <1>20, <2>1, <2>2 DEF Ask, IndInv, TypeOK, CancelState, jobVars
<1>21. CASE UNCHANGED vars
  BY <1>21 DEF vars, IndInv, TypeOK, jobVars, Idle
<1>22. QED
  BY <1>1, <1>2, <1>3, <1>4, <1>5, <1>6, <1>7, <1>8, <1>9, <1>10, <1>11, <1>12, <1>13, <1>14,
     <1>15, <1>16, <1>17, <1>18, <1>19, <1>20, <1>21
     DEF Next, Start, Work, Cancels

\* A job is handed to one worker.
LEMMA JobStep == IndInv /\ [Next]_vars => JobInv'
<1> SUFFICES ASSUME IndInv, [Next]_vars
             PROVE  JobInv'
  OBVIOUS
<1>1. CASE PrepareFails
  BY <1>1 DEF PrepareFails, IndInv, TypeOK, JobInv, StartInv, Busy, Linked, jobVars, Idle
<1>2. ASSUME NEW T \in SUBSET File, PrepareAnswered(T)
      PROVE  JobInv'
  BY <1>2 DEF PrepareAnswered, IndInv, TypeOK, JobInv, StartInv, Busy, Linked, jobVars, Idle
<1>3. CASE AllDone
  BY <1>3 DEF AllDone, IndInv, TypeOK, JobInv, StartInv, Busy, Linked, jobVars, Idle, Failed
<1>4. CASE CancelReturns
  BY <1>4 DEF CancelReturns, IndInv, TypeOK, JobInv, StartInv, Busy, Linked, jobVars, Idle
<1>5. CASE Signal
  BY <1>5 DEF Signal, IndInv, TypeOK, JobInv, StartInv, Busy, Linked, jobVars, Idle
<1>6. ASSUME NEW w \in Worker, NEW f \in File, TakeJob(w, f)
      PROVE  JobInv'
  BY <1>6 DEF TakeJob, IndInv, TypeOK, JobInv, StartInv, Busy, Linked, jobVars, Idle
<1>7. ASSUME NEW w \in Worker, WorkerEnds(w)
      PROVE  JobInv'
  BY <1>7 DEF WorkerEnds, IndInv, TypeOK, JobInv, StartInv, Busy, Linked, jobVars, Idle
<1>8. ASSUME NEW w \in Worker, CheckAbort(w)
      PROVE  JobInv'
  BY <1>8, SMTT(30) DEF CheckAbort, IndInv, TypeOK, JobInv, StartInv, Busy, Linked, jobVars, Idle
<1>9. ASSUME NEW w \in Worker, NEW c \in Conn, Reuse(w, c)
      PROVE  JobInv'
  BY <1>9 DEF Reuse, IndInv, TypeOK, JobInv, StartInv, Busy, Linked, jobVars, Idle
<1>10. ASSUME NEW w \in Worker, DialFails(w)
      PROVE  JobInv'
  BY <1>10 DEF DialFails, IndInv, TypeOK, JobInv, StartInv, Busy, Linked, jobVars, Idle
<1>11. ASSUME NEW w \in Worker, NEW c \in Conn, Dial(w, c)
      PROVE  JobInv'
  BY <1>11 DEF Dial, IndInv, TypeOK, JobInv, StartInv, Busy, Linked, jobVars, Idle
<1>12. ASSUME NEW w \in Worker, Track(w)
      PROVE  JobInv'
  <2>1. CASE worker' = [worker EXCEPT ![w] = Idle]
    BY <1>12, <2>1 DEF Track, IndInv, TypeOK, JobInv, Busy, Linked, Idle
  <2>2. CASE worker' = [worker EXCEPT ![w].pc = "stream"]
    BY <1>12, <2>2 DEF Track, IndInv, TypeOK, JobInv, Busy, Linked, Idle
  <2>3. QED
    BY <1>12, <2>1, <2>2 DEF Track
<1>13. ASSUME NEW w \in Worker, NEW r \in {"ok", "checksum", "error"}, RemoteReplies(w, r)
      PROVE  JobInv'
  BY <1>13 DEF RemoteReplies, IndInv, TypeOK, JobInv, StartInv, Busy, Linked, jobVars, Idle
<1>14. ASSUME NEW w \in Worker, ReadReply(w)
      PROVE  JobInv'
  BY <1>14 DEF ReadReply, IndInv, TypeOK, JobInv, StartInv, Busy, Linked, jobVars, Idle, Retry
<1>15. ASSUME NEW w \in Worker, StreamFails(w)
      PROVE  JobInv'
  BY <1>15 DEF StreamFails, IndInv, TypeOK, JobInv, StartInv, Busy, Linked, jobVars, Idle,
     GiveUp
<1>16. ASSUME NEW k \in Caller, StoreAbort(k)
      PROVE  JobInv'
  BY <1>16 DEF StoreAbort, IndInv, TypeOK, JobInv, StartInv, Busy, Linked, jobVars, Idle
<1>17. ASSUME NEW k \in Caller, Snapshot(k)
      PROVE  JobInv'
  BY <1>17 DEF Snapshot, IndInv, TypeOK, JobInv, StartInv, Busy, Linked, jobVars, Idle, Active
<1>18. ASSUME NEW k \in Caller, NEW c \in Conn, CloseOne(k, c)
      PROVE  JobInv'
  BY <1>18 DEF CloseOne, IndInv, TypeOK, JobInv, StartInv, Busy, Linked, jobVars, Idle
<1>19. ASSUME NEW k \in Caller, CloseDone(k)
      PROVE  JobInv'
  BY <1>19 DEF CloseDone, IndInv, TypeOK, JobInv, StartInv, Busy, Linked, jobVars, Idle
<1>20. ASSUME NEW k \in Caller, Ask(k)
      PROVE  JobInv'
  BY <1>20 DEF Ask, IndInv, TypeOK, JobInv, StartInv, Busy, Linked, jobVars, Idle, CancelRemote
<1>21. CASE UNCHANGED vars
  BY <1>21 DEF vars, IndInv, TypeOK, JobInv, StartInv, Busy, Linked, jobVars, Idle
<1>22. QED
  BY <1>1, <1>2, <1>3, <1>4, <1>5, <1>6, <1>7, <1>8, <1>9, <1>10, <1>11, <1>12, <1>13, <1>14,
     <1>15, <1>16, <1>17, <1>18, <1>19, <1>20, <1>21
     DEF Next, Start, Work, Cancels

\* A file is saved once.
LEMMA SavedStep == IndInv /\ [Next]_vars => SavedInv'
<1> SUFFICES ASSUME IndInv, [Next]_vars
             PROVE  SavedInv'
  OBVIOUS
<1>1. CASE PrepareFails
  BY <1>1 DEF PrepareFails, IndInv, TypeOK, JobInv, SavedInv, StartInv, Busy, jobVars, Idle
<1>2. ASSUME NEW T \in SUBSET File, PrepareAnswered(T)
      PROVE  SavedInv'
  BY <1>2 DEF PrepareAnswered, IndInv, TypeOK, JobInv, SavedInv, StartInv, Busy, jobVars, Idle
<1>3. CASE AllDone
  BY <1>3 DEF AllDone, IndInv, TypeOK, JobInv, SavedInv, StartInv, Busy, jobVars, Idle, Failed
<1>4. CASE CancelReturns
  BY <1>4 DEF CancelReturns, IndInv, TypeOK, JobInv, SavedInv, StartInv, Busy, jobVars, Idle
<1>5. CASE Signal
  BY <1>5 DEF Signal, IndInv, TypeOK, JobInv, SavedInv, StartInv, Busy, jobVars, Idle
<1>6. ASSUME NEW w \in Worker, NEW f \in File, TakeJob(w, f)
      PROVE  SavedInv'
  BY <1>6 DEF TakeJob, IndInv, TypeOK, JobInv, SavedInv, StartInv, Busy, jobVars, Idle
<1>7. ASSUME NEW w \in Worker, WorkerEnds(w)
      PROVE  SavedInv'
  BY <1>7 DEF WorkerEnds, IndInv, TypeOK, JobInv, SavedInv, StartInv, Busy, jobVars, Idle
<1>8. ASSUME NEW w \in Worker, CheckAbort(w)
      PROVE  SavedInv'
  BY <1>8, SMTT(30) DEF CheckAbort, IndInv, TypeOK, JobInv, SavedInv, StartInv, Busy, jobVars, Idle
<1>9. ASSUME NEW w \in Worker, NEW c \in Conn, Reuse(w, c)
      PROVE  SavedInv'
  BY <1>9 DEF Reuse, IndInv, TypeOK, JobInv, SavedInv, StartInv, Busy, jobVars, Idle
<1>10. ASSUME NEW w \in Worker, DialFails(w)
      PROVE  SavedInv'
  BY <1>10 DEF DialFails, IndInv, TypeOK, JobInv, SavedInv, StartInv, Busy, jobVars, Idle
<1>11. ASSUME NEW w \in Worker, NEW c \in Conn, Dial(w, c)
      PROVE  SavedInv'
  BY <1>11 DEF Dial, IndInv, TypeOK, JobInv, SavedInv, StartInv, Busy, jobVars, Idle
<1>12. ASSUME NEW w \in Worker, Track(w)
      PROVE  SavedInv'
  <2>1. CASE worker' = [worker EXCEPT ![w] = Idle]
    BY <1>12, <2>1 DEF Track, IndInv, TypeOK, JobInv, SavedInv, Busy, Idle
  <2>2. CASE worker' = [worker EXCEPT ![w].pc = "stream"]
    BY <1>12, <2>2 DEF Track, IndInv, TypeOK, JobInv, SavedInv, Busy, Idle
  <2>3. QED
    BY <1>12, <2>1, <2>2 DEF Track
<1>13. ASSUME NEW w \in Worker, NEW r \in {"ok", "checksum", "error"}, RemoteReplies(w, r)
      PROVE  SavedInv'
  BY <1>13 DEF RemoteReplies, IndInv, TypeOK, JobInv, SavedInv, StartInv, Busy, jobVars, Idle
<1>14. ASSUME NEW w \in Worker, ReadReply(w)
      PROVE  SavedInv'
  BY <1>14 DEF ReadReply, IndInv, TypeOK, JobInv, SavedInv, StartInv, Busy, jobVars, Idle, Retry
<1>15. ASSUME NEW w \in Worker, StreamFails(w)
      PROVE  SavedInv'
  BY <1>15 DEF StreamFails, IndInv, TypeOK, JobInv, SavedInv, StartInv, Busy, jobVars, Idle,
     GiveUp
<1>16. ASSUME NEW k \in Caller, StoreAbort(k)
      PROVE  SavedInv'
  BY <1>16 DEF StoreAbort, IndInv, TypeOK, JobInv, SavedInv, StartInv, Busy, jobVars, Idle
<1>17. ASSUME NEW k \in Caller, Snapshot(k)
      PROVE  SavedInv'
  BY <1>17 DEF Snapshot, IndInv, TypeOK, JobInv, SavedInv, StartInv, Busy, jobVars, Idle, Active
<1>18. ASSUME NEW k \in Caller, NEW c \in Conn, CloseOne(k, c)
      PROVE  SavedInv'
  BY <1>18 DEF CloseOne, IndInv, TypeOK, JobInv, SavedInv, StartInv, Busy, jobVars, Idle
<1>19. ASSUME NEW k \in Caller, CloseDone(k)
      PROVE  SavedInv'
  BY <1>19 DEF CloseDone, IndInv, TypeOK, JobInv, SavedInv, StartInv, Busy, jobVars, Idle
<1>20. ASSUME NEW k \in Caller, Ask(k)
      PROVE  SavedInv'
  BY <1>20 DEF Ask, IndInv, TypeOK, JobInv, SavedInv, StartInv, Busy, jobVars, Idle,
     CancelRemote
<1>21. CASE UNCHANGED vars
  BY <1>21 DEF vars, IndInv, TypeOK, JobInv, SavedInv, StartInv, Busy, jobVars, Idle
<1>22. QED
  BY <1>1, <1>2, <1>3, <1>4, <1>5, <1>6, <1>7, <1>8, <1>9, <1>10, <1>11, <1>12, <1>13, <1>14,
     <1>15, <1>16, <1>17, <1>18, <1>19, <1>20, <1>21
     DEF Next, Start, Work, Cancels

\* Start and its Cancel go together.
LEMMA StartStep == IndInv /\ [Next]_vars => StartInv'
<1> SUFFICES ASSUME IndInv, [Next]_vars
             PROVE  StartInv'
  OBVIOUS
<1>1. CASE PrepareFails
  BY <1>1 DEF PrepareFails, IndInv, TypeOK, StartInv, jobVars, Idle
<1>2. ASSUME NEW T \in SUBSET File, PrepareAnswered(T)
      PROVE  StartInv'
  BY <1>2 DEF PrepareAnswered, IndInv, TypeOK, StartInv, jobVars, Idle
<1>3. CASE AllDone
  BY <1>3 DEF AllDone, IndInv, TypeOK, StartInv, jobVars, Idle, Failed
<1>4. CASE CancelReturns
  BY <1>4 DEF CancelReturns, IndInv, TypeOK, StartInv, jobVars, Idle
<1>5. CASE Signal
  BY <1>5 DEF Signal, IndInv, TypeOK, StartInv, jobVars, Idle
<1>6. ASSUME NEW w \in Worker, NEW f \in File, TakeJob(w, f)
      PROVE  StartInv'
  BY <1>6 DEF TakeJob, IndInv, TypeOK, StartInv, jobVars, Idle
<1>7. ASSUME NEW w \in Worker, WorkerEnds(w)
      PROVE  StartInv'
  BY <1>7 DEF WorkerEnds, IndInv, TypeOK, StartInv, jobVars, Idle
<1>8. ASSUME NEW w \in Worker, CheckAbort(w)
      PROVE  StartInv'
  BY <1>8 DEF CheckAbort, IndInv, TypeOK, StartInv, jobVars, Idle
<1>9. ASSUME NEW w \in Worker, NEW c \in Conn, Reuse(w, c)
      PROVE  StartInv'
  BY <1>9 DEF Reuse, IndInv, TypeOK, StartInv, jobVars, Idle
<1>10. ASSUME NEW w \in Worker, DialFails(w)
      PROVE  StartInv'
  BY <1>10 DEF DialFails, IndInv, TypeOK, StartInv, jobVars, Idle
<1>11. ASSUME NEW w \in Worker, NEW c \in Conn, Dial(w, c)
      PROVE  StartInv'
  BY <1>11 DEF Dial, IndInv, TypeOK, StartInv, jobVars, Idle
<1>12. ASSUME NEW w \in Worker, Track(w)
      PROVE  StartInv'
  BY <1>12 DEF Track, IndInv, TypeOK, StartInv, jobVars, Idle, Refused
<1>13. ASSUME NEW w \in Worker, NEW r \in {"ok", "checksum", "error"}, RemoteReplies(w, r)
      PROVE  StartInv'
  BY <1>13 DEF RemoteReplies, IndInv, TypeOK, StartInv, jobVars, Idle
<1>14. ASSUME NEW w \in Worker, ReadReply(w)
      PROVE  StartInv'
  BY <1>14 DEF ReadReply, IndInv, TypeOK, StartInv, jobVars, Idle, Retry
<1>15. ASSUME NEW w \in Worker, StreamFails(w)
      PROVE  StartInv'
  BY <1>15 DEF StreamFails, IndInv, TypeOK, StartInv, jobVars, Idle, GiveUp
<1>16. ASSUME NEW k \in Caller, StoreAbort(k)
      PROVE  StartInv'
  BY <1>16 DEF StoreAbort, IndInv, TypeOK, StartInv, jobVars, Idle
<1>17. ASSUME NEW k \in Caller, Snapshot(k)
      PROVE  StartInv'
  <2>1. \/ cancel'["start"].pc = cancel["start"].pc
        \/ cancel["start"].pc = "snapshot" /\ cancel'["start"].pc = "close"
    BY <1>17 DEF Snapshot, IndInv, TypeOK, Caller
  <2>2. QED
    BY <1>17, <2>1 DEF Snapshot, IndInv, StartInv, jobVars
<1>18. ASSUME NEW k \in Caller, NEW c \in Conn, CloseOne(k, c)
      PROVE  StartInv'
  BY <1>18 DEF CloseOne, IndInv, TypeOK, StartInv, jobVars, Idle
<1>19. ASSUME NEW k \in Caller, CloseDone(k)
      PROVE  StartInv'
  BY <1>19 DEF CloseDone, IndInv, TypeOK, StartInv, jobVars, Idle
<1>20. ASSUME NEW k \in Caller, Ask(k)
      PROVE  StartInv'
  <2>1. CASE cancel' = [cancel EXCEPT ![k].pc = "sent"] /\ remote' = CancelRemote
    <3>1. remote'.session # "open" /\ remote'.saved = remote.saved
      BY <2>1 DEF CancelRemote, IndInv, TypeOK
    <3>2. \/ cancel'["start"].pc = cancel["start"].pc
          \/ cancel["start"].pc = "ask" /\ cancel'["start"].pc = "sent"
      BY <1>20, <2>1 DEF Ask, IndInv, TypeOK, Caller
    <3>3. QED
      BY <1>20, <3>1, <3>2 DEF Ask, IndInv, StartInv, jobVars
  <2>2. CASE cancel' = [cancel EXCEPT ![k].pc = "lost"] /\ remote' = remote
    BY <1>20, <2>2 DEF Ask, IndInv, TypeOK, StartInv, jobVars
  <2>3. QED
    BY <1>20, <2>1, <2>2 DEF Ask
<1>21. CASE UNCHANGED vars
  BY <1>21 DEF vars, IndInv, TypeOK, StartInv, jobVars, Idle
<1>22. QED
  BY <1>1, <1>2, <1>3, <1>4, <1>5, <1>6, <1>7, <1>8, <1>9, <1>10, <1>11, <1>12, <1>13, <1>14,
     <1>15, <1>16, <1>17, <1>18, <1>19, <1>20, <1>21
     DEF Next, Start, Work, Cancels

\* No file is forgotten.
LEMMA DoneStep == IndInv /\ [Next]_vars => DoneInv'
<1> SUFFICES ASSUME IndInv, [Next]_vars
             PROVE  DoneInv'
  OBVIOUS
<1>1. CASE PrepareFails
  BY <1>1 DEF PrepareFails, IndInv, TypeOK, JobInv, SavedInv, StartInv, DoneInv,
     OkMeansSaved, Busy, jobVars, Idle
<1>2. ASSUME NEW T \in SUBSET File, PrepareAnswered(T)
      PROVE  DoneInv'
  <2>1. /\ pc = "prepare" /\ tokens' = T /\ todo' = T /\ UNCHANGED <<result, abort, errs>>
    BY <1>2 DEF PrepareAnswered
  <2>2. PICK W \in SUBSET Worker :
              /\ Cardinality(W) = IF Cardinality(T) < Cardinality(Worker) THEN Cardinality(T)
                                  ELSE Cardinality(Worker)
              /\ worker' = [w \in Worker |-> IF w \in W THEN Idle ELSE [Idle EXCEPT !.pc =
                 "ended"]]
    BY <1>2 DEF PrepareAnswered
  <2>3. T # {} => W # {}
    <3>1. IsFiniteSet(T) /\ IsFiniteSet(Worker)
      BY HttpSenderAssumption, FS_Subset
    <3>2. T # {} => Cardinality(T) # 0 /\ Cardinality(Worker) # 0
      BY <3>1, HttpSenderAssumption, FS_EmptySet
    <3>3. W = {} => Cardinality(W) = 0
      BY FS_EmptySet
    <3>4. QED
      BY <2>2, <3>2, <3>3
  <2>4. todo' # {} => \E w \in Worker : worker'[w].pc # "ended"
    BY <2>1, <2>2, <2>3 DEF Idle
  <2>5. OkMeansSaved'
    BY <2>1 DEF IndInv, StartInv, OkMeansSaved
  <2>6. QED
    BY <2>1, <2>4, <2>5 DEF DoneInv
<1>3. CASE AllDone
  BY <1>3 DEF AllDone, IndInv, TypeOK, JobInv, SavedInv, StartInv, DoneInv, OkMeansSaved,
     Busy, jobVars, Idle, Failed
<1>4. CASE CancelReturns
  BY <1>4 DEF CancelReturns, IndInv, TypeOK, JobInv, SavedInv, StartInv, DoneInv,
     OkMeansSaved, Busy, jobVars, Idle
<1>5. CASE Signal
  BY <1>5 DEF Signal, IndInv, TypeOK, JobInv, SavedInv, StartInv, DoneInv, OkMeansSaved,
     Busy, jobVars, Idle
<1>6. ASSUME NEW w \in Worker, NEW f \in File, TakeJob(w, f)
      PROVE  DoneInv'
  BY <1>6 DEF TakeJob, IndInv, TypeOK, JobInv, SavedInv, StartInv, DoneInv, OkMeansSaved,
     Busy, jobVars, Idle
<1>7. ASSUME NEW w \in Worker, WorkerEnds(w)
      PROVE  DoneInv'
  BY <1>7 DEF WorkerEnds, IndInv, TypeOK, JobInv, SavedInv, StartInv, DoneInv, OkMeansSaved,
     Busy, jobVars, Idle
<1>8. ASSUME NEW w \in Worker, CheckAbort(w)
      PROVE  DoneInv'
  BY <1>8 DEF CheckAbort, IndInv, TypeOK, JobInv, SavedInv, StartInv, DoneInv, OkMeansSaved,
     Busy, jobVars, Idle
<1>9. ASSUME NEW w \in Worker, NEW c \in Conn, Reuse(w, c)
      PROVE  DoneInv'
  BY <1>9 DEF Reuse, IndInv, TypeOK, JobInv, SavedInv, StartInv, DoneInv, OkMeansSaved, Busy,
     jobVars, Idle
<1>10. ASSUME NEW w \in Worker, DialFails(w)
      PROVE  DoneInv'
  BY <1>10 DEF DialFails, IndInv, TypeOK, JobInv, SavedInv, StartInv, DoneInv, OkMeansSaved,
     Busy, jobVars, Idle
<1>11. ASSUME NEW w \in Worker, NEW c \in Conn, Dial(w, c)
      PROVE  DoneInv'
  BY <1>11 DEF Dial, IndInv, TypeOK, JobInv, SavedInv, StartInv, DoneInv, OkMeansSaved, Busy,
     jobVars, Idle
<1>12. ASSUME NEW w \in Worker, Track(w)
      PROVE  DoneInv'
  BY <1>12 DEF Track, IndInv, TypeOK, JobInv, SavedInv, StartInv, DoneInv, OkMeansSaved,
     Busy, jobVars, Idle, Refused
<1>13. ASSUME NEW w \in Worker, NEW r \in {"ok", "checksum", "error"}, RemoteReplies(w, r)
      PROVE  DoneInv'
  BY <1>13 DEF RemoteReplies, IndInv, TypeOK, JobInv, SavedInv, StartInv, DoneInv,
     OkMeansSaved, Busy, jobVars, Idle
<1>14. ASSUME NEW w \in Worker, ReadReply(w)
      PROVE  DoneInv'
  <2>1. /\ worker[w].pc = "stream" /\ Busy(w)
        /\ UNCHANGED <<pc, result, abort, tokens, todo, remote>>
    BY <1>14 DEF ReadReply, Busy
  <2>2. /\ \A v \in Worker \ {w} : worker'[v] = worker[v]
        /\ worker'[w].pc \in {"idle", "check"}
        /\ worker'[w].pc = "check" => worker'[w].file = worker[w].file
        /\ ~errs' => ~errs /\ (worker[w].reply = "ok" \/ worker'[w].pc = "check")
    BY <1>14 DEF ReadReply, IndInv, TypeOK, Idle
  <2>3. ASSUME ~errs', ~abort', NEW f \in tokens' \ todo'
        PROVE  \/ remote'.saved[f] = 1
               \/ \E v \in Worker : Busy(v)' /\ worker'[v].file = f
    <3>1. \/ remote.saved[f] = 1
          \/ \E v \in Worker : Busy(v) /\ worker[v].file = f
      BY <2>1, <2>2, <2>3 DEF IndInv, DoneInv
    <3>2. ASSUME NEW v \in Worker, v # w, Busy(v)
          PROVE  Busy(v)' /\ worker'[v].file = worker[v].file
      BY <2>2, <3>2 DEF Busy
    <3>3. CASE worker[w].file = f
      BY <2>1, <2>2, <2>3, <3>3 DEF IndInv, SavedInv, Busy
    <3>4. QED
      BY <2>1, <3>1, <3>2, <3>3
  <2>4. QED
    BY <2>1, <2>2, <2>3 DEF IndInv, DoneInv, OkMeansSaved
<1>15. ASSUME NEW w \in Worker, StreamFails(w)
      PROVE  DoneInv'
  BY <1>15 DEF StreamFails, IndInv, TypeOK, JobInv, SavedInv, StartInv, DoneInv,
     OkMeansSaved, Busy, jobVars, Idle, GiveUp
<1>16. ASSUME NEW k \in Caller, StoreAbort(k)
      PROVE  DoneInv'
  BY <1>16 DEF StoreAbort, IndInv, TypeOK, JobInv, SavedInv, StartInv, DoneInv, OkMeansSaved,
     Busy, jobVars, Idle
<1>17. ASSUME NEW k \in Caller, Snapshot(k)
      PROVE  DoneInv'
  BY <1>17 DEF Snapshot, IndInv, TypeOK, JobInv, SavedInv, StartInv, DoneInv, OkMeansSaved,
     Busy, jobVars, Idle, Active
<1>18. ASSUME NEW k \in Caller, NEW c \in Conn, CloseOne(k, c)
      PROVE  DoneInv'
  BY <1>18 DEF CloseOne, IndInv, TypeOK, JobInv, SavedInv, StartInv, DoneInv, OkMeansSaved,
     Busy, jobVars, Idle
<1>19. ASSUME NEW k \in Caller, CloseDone(k)
      PROVE  DoneInv'
  BY <1>19 DEF CloseDone, IndInv, TypeOK, JobInv, SavedInv, StartInv, DoneInv, OkMeansSaved,
     Busy, jobVars, Idle
<1>20. ASSUME NEW k \in Caller, Ask(k)
      PROVE  DoneInv'
  BY <1>20 DEF Ask, IndInv, TypeOK, JobInv, SavedInv, StartInv, DoneInv, OkMeansSaved, Busy,
     jobVars, Idle, CancelRemote
<1>21. CASE UNCHANGED vars
  BY <1>21 DEF vars, IndInv, TypeOK, JobInv, SavedInv, StartInv, DoneInv, OkMeansSaved, Busy,
     jobVars, Idle
<1>22. QED
  BY <1>1, <1>2, <1>3, <1>4, <1>5, <1>6, <1>7, <1>8, <1>9, <1>10, <1>11, <1>12, <1>13, <1>14,
     <1>15, <1>16, <1>17, <1>18, <1>19, <1>20, <1>21
     DEF Next, Start, Work, Cancels

\* After abort nothing opens.
LEMMA CancelStep == IndInv /\ [Next]_vars => CancelInv'
<1> SUFFICES ASSUME IndInv, [Next]_vars
             PROVE  CancelInv'
  OBVIOUS
<1>1. CASE PrepareFails
  BY <1>1 DEF PrepareFails, IndInv, TypeOK, CancelInv, Active, jobVars, Idle
<1>2. ASSUME NEW T \in SUBSET File, PrepareAnswered(T)
      PROVE  CancelInv'
  BY <1>2 DEF PrepareAnswered, IndInv, TypeOK, CancelInv, Active, jobVars, Idle
<1>3. CASE AllDone
  BY <1>3 DEF AllDone, IndInv, TypeOK, CancelInv, Active, jobVars, Idle, Failed
<1>4. CASE CancelReturns
  BY <1>4 DEF CancelReturns, IndInv, TypeOK, CancelInv, Active, jobVars, Idle
<1>5. CASE Signal
  BY <1>5 DEF Signal, IndInv, TypeOK, CancelInv, Active, jobVars, Idle
<1>6. ASSUME NEW w \in Worker, NEW f \in File, TakeJob(w, f)
      PROVE  CancelInv'
  BY <1>6 DEF TakeJob, IndInv, TypeOK, CancelInv, Active, jobVars, Idle
<1>7. ASSUME NEW w \in Worker, WorkerEnds(w)
      PROVE  CancelInv'
  BY <1>7 DEF WorkerEnds, IndInv, TypeOK, CancelInv, Active, jobVars, Idle
<1>8. ASSUME NEW w \in Worker, CheckAbort(w)
      PROVE  CancelInv'
  BY <1>8 DEF CheckAbort, IndInv, TypeOK, CancelInv, Active, jobVars, Idle
<1>9. ASSUME NEW w \in Worker, NEW c \in Conn, Reuse(w, c)
      PROVE  CancelInv'
  BY <1>9 DEF Reuse, IndInv, TypeOK, CancelInv, Active, jobVars, Idle
<1>10. ASSUME NEW w \in Worker, DialFails(w)
      PROVE  CancelInv'
  BY <1>10 DEF DialFails, IndInv, TypeOK, CancelInv, Active, jobVars, Idle
<1>11. ASSUME NEW w \in Worker, NEW c \in Conn, Dial(w, c)
      PROVE  CancelInv'
  BY <1>11 DEF Dial, IndInv, TypeOK, CancelInv, Active, jobVars, Idle
<1>12. ASSUME NEW w \in Worker, Track(w)
      PROVE  CancelInv'
  BY <1>12 DEF Track, IndInv, TypeOK, CancelInv, Active, jobVars, Idle, Refused
<1>13. ASSUME NEW w \in Worker, NEW r \in {"ok", "checksum", "error"}, RemoteReplies(w, r)
      PROVE  CancelInv'
  BY <1>13 DEF RemoteReplies, IndInv, TypeOK, CancelInv, Active, jobVars, Idle
<1>14. ASSUME NEW w \in Worker, ReadReply(w)
      PROVE  CancelInv'
  BY <1>14 DEF ReadReply, IndInv, TypeOK, CancelInv, Active, jobVars, Idle, Retry
<1>15. ASSUME NEW w \in Worker, StreamFails(w)
      PROVE  CancelInv'
  BY <1>15 DEF StreamFails, IndInv, TypeOK, CancelInv, Active, jobVars, Idle, GiveUp
<1>16. ASSUME NEW k \in Caller, StoreAbort(k)
      PROVE  CancelInv'
  BY <1>16 DEF StoreAbort, IndInv, TypeOK, CancelInv, Active, jobVars, Idle
<1>17. ASSUME NEW k \in Caller, Snapshot(k)
      PROVE  CancelInv'
  BY <1>17 DEF Snapshot, IndInv, TypeOK, CancelInv, Active, jobVars, Idle, Active
<1>18. ASSUME NEW k \in Caller, NEW c \in Conn, CloseOne(k, c)
      PROVE  CancelInv'
  BY <1>18 DEF CloseOne, IndInv, TypeOK, CancelInv, Active, jobVars, Idle
<1>19. ASSUME NEW k \in Caller, CloseDone(k)
      PROVE  CancelInv'
  BY <1>19 DEF CloseDone, IndInv, TypeOK, CancelInv, Active, jobVars, Idle
<1>20. ASSUME NEW k \in Caller, Ask(k)
      PROVE  CancelInv'
  BY <1>20 DEF Ask, IndInv, TypeOK, CancelInv, Active, jobVars, Idle, CancelRemote
<1>21. CASE UNCHANGED vars
  BY <1>21 DEF vars, IndInv, TypeOK, CancelInv, Active, jobVars, Idle
<1>22. QED
  BY <1>1, <1>2, <1>3, <1>4, <1>5, <1>6, <1>7, <1>8, <1>9, <1>10, <1>11, <1>12, <1>13, <1>14,
     <1>15, <1>16, <1>17, <1>18, <1>19, <1>20, <1>21
     DEF Next, Start, Work, Cancels

-----------------------------------------------------------------------------
\* Before Start nothing is offered, saved, dialled or cancelled.
LEMMA InitInv == Init => IndInv
<1> SUFFICES ASSUME Init
             PROVE  IndInv
  OBVIOUS
<1>1. TypeOK
  <2>1. worker \in [Worker -> WorkerState]
    BY WorkerStates DEF Init
  <2>2. cancel \in [Caller -> CancelState]
    BY DEF Init, CancelState
  <2>3. remote \in [session : {"none", "open", "ended"}, saved : [File -> 0..2]]
    BY DEF Init
  <2>4. QED
    BY <2>1, <2>2, <2>3 DEF Init, TypeOK, WorkerState, CancelState
<1>2. JobInv /\ SavedInv /\ StartInv
  BY DEF Init, JobInv, SavedInv, StartInv, Busy, Linked, Idle, Caller
<1>3. DoneInv /\ CancelInv
  BY DEF Init, DoneInv, OkMeansSaved, CancelInv
<1>4. QED
  BY <1>1, <1>2, <1>3 DEF IndInv

\* The strengthening behind the theorems below holds in every reachable state.
THEOREM Invariance == Spec => []IndInv
<1>1. IndInv /\ [Next]_vars => IndInv'
  BY TypeStep, JobStep, SavedStep, StartStep, DoneStep, CancelStep DEF IndInv
<1>2. QED
  BY <1>1, InitInv, PTL DEF Spec

\* Once Cancel (fwdsend.go) has closed the connections it found, no upload
\* connection is open or opens again, whatever was being dialled or pooled.
THEOREM CancelKeepsClosed == Spec => []CancelSticks
<1>1. IndInv => CancelSticks
  BY DEF IndInv, CancelInv, CancelSticks
<1>2. QED
  BY <1>1, Invariance, PTL

\* Workers, checksum retries and lost answers (sendFileWithRetry, sendFile)
\* never make the receiver save a file twice.
THEOREM SavedAtMostOnce == Spec => []SavedOnce
<1>1. IndInv => SavedOnce
  BY DEF IndInv, SavedInv, SavedOnce
<1>2. QED
  BY <1>1, Invariance, PTL

\* What Start returns is true: success without an abort means every accepted
\* file was saved, and an error after the session was prepared means it was
\* cancelled at the receiver, or the cancel request was lost.
THEOREM ResultIsTrue == Spec => []ResultTrue
<1>1. IndInv => ResultTrue
  BY DEF IndInv, DoneInv, StartInv, ResultTrue, FailureReleases
<1>2. QED
  BY <1>1, Invariance, PTL

=============================================================================
