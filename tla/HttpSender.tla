---------------------------- MODULE HttpSender -----------------------------
(***************************************************************************)
(* ForwardSender (localsend/send/fwdsend.go) and the send command that     *)
(* runs it: Start prepares a session, uploads the accepted files with a    *)
(* few workers and cancels the session if one failed, while the goroutine  *)
(* that waits for a signal may run Cancel beside it.  The process ends     *)
(* when Start returns.                                                     *)
(*                                                                         *)
(* The receiver is external: it accepts some files, answers an upload with *)
(* ok, a checksum failure or another error, closes its session when every  *)
(* file is saved or a cancel request arrives, and any answer may be lost.  *)
(* The HTTP client's pool is modelled by what it does: an idle connection  *)
(* is used again, and an upload with a body stream is never retried.       *)
(***************************************************************************)
EXTENDS Integers, FiniteSets

CONSTANTS
    File,         \* files offered
    Worker,       \* upload workers, uploadConcurrency of them
    MaxAttempts   \* maxUploadAttempts

ASSUME HttpSenderAssumption ==
    IsFiniteSet(File) /\ IsFiniteSet(Worker) /\ Worker # {} /\ MaxAttempts \in Nat \ {0}

VARIABLES
    pc,        \* where Start is
    result,    \* what it returned
    known,     \* fsp.session is set
    abort,     \* fsp.abort
    tokens,    \* files with a token
    todo,      \* jobs not handed out
    errs,      \* some file failed
    worker,    \* each worker's step, file, attempt, connection and answer
    conn,      \* each connection's state; the open ones are activeUploadConns
    pool,      \* idle connections of uploadClient
    cancel,    \* each caller of Cancel: its step and its snapshot
    remote     \* the receiver's session and how often it saved each file

jobVars == <<tokens, todo, errs>>
vars == <<pc, result, known, abort, jobVars, worker, conn, pool, cancel, remote>>

-----------------------------------------------------------------------------
Caller == {"signal", "start"}
Conn   == Worker           \* as many connections as workers: idle ones are used first
NoFile == "none"
NoConn == "none"
Idle   == [pc |-> "idle", file |-> NoFile, tries |-> 0, conn |-> NoConn, reply |-> "none"]

TypeOK ==
    /\ pc \in {"prepare", "upload", "cancel", "ended"} /\ result \in {"none", "ok", "error"}
    /\ {known, abort, errs} \subseteq BOOLEAN
    /\ tokens \subseteq File /\ todo \subseteq tokens
    /\ worker \in [Worker -> [pc : {"idle", "check", "acquire", "dialled", "stream", "ended"},
                              file : File \cup {NoFile}, tries : 0..(MaxAttempts - 1),
                              conn : Conn \cup {NoConn},
                              reply : {"none", "ok", "checksum", "error"}]]
    /\ conn \in [Conn -> {"free", "untracked", "open", "shut"}] /\ pool \subseteq Conn
    /\ cancel \in [Caller -> [pc : {"none", "store", "snapshot", "close", "ask", "sent", "lost", "done"},
                              conns : SUBSET Conn]]
    /\ remote \in [session : {"none", "open", "ended"}, saved : [File -> 0..2]]

Init ==
    /\ pc = "prepare" /\ result = "none" /\ known = FALSE /\ abort = FALSE
    /\ tokens = {} /\ todo = {} /\ errs = FALSE
    /\ worker = [w \in Worker |-> Idle] /\ conn = [c \in Conn |-> "free"] /\ pool = {}
    /\ cancel = [k \in Caller |-> [pc |-> "none", conns |-> {}]]
    /\ remote = [session |-> "none", saved |-> [f \in File |-> 0]]

-----------------------------------------------------------------------------
(* Start *)

\* The request fails, is refused, or its answer is lost after the receiver
\* opened a session.
PrepareFails ==
    /\ pc = "prepare"
    /\ pc' = "ended" /\ result' = "error"
    /\ \E s \in {"none", "open"} : remote' = [remote EXCEPT !.session = s]
    /\ UNCHANGED <<known, abort, jobVars, worker, conn, pool, cancel>>

\* As many workers as tokens, at most.
PrepareAnswered(T) ==
    /\ pc = "prepare"
    /\ pc' = "upload" /\ known' = TRUE
    /\ tokens' = T /\ todo' = T
    /\ remote' = [remote EXCEPT !.session = "open"]
    /\ \E W \in SUBSET Worker :
          /\ Cardinality(W) = IF Cardinality(T) < Cardinality(Worker) THEN Cardinality(T)
                              ELSE Cardinality(Worker)
          /\ worker' = [w \in Worker |-> IF w \in W THEN Idle ELSE [Idle EXCEPT !.pc = "ended"]]
    /\ UNCHANGED <<result, abort, errs, conn, pool, cancel>>

ForgetErrors == FALSE

\* a failed file leaves its error behind
Failed == errs

AllDone ==
    /\ pc = "upload" /\ \A w \in Worker : worker[w].pc = "ended"
    /\ IF Failed
       THEN /\ pc' = "cancel" /\ cancel' = [cancel EXCEPT !["start"].pc = "store"]
            /\ UNCHANGED result
       ELSE pc' = "ended" /\ result' = "ok" /\ UNCHANGED cancel
    /\ UNCHANGED <<known, abort, jobVars, worker, conn, pool, remote>>

-----------------------------------------------------------------------------
(* A worker: sendFileWithRetry and sendFile *)

TakeJob(w, f) ==
    /\ pc = "upload" /\ worker[w].pc = "idle" /\ f \in todo
    /\ todo' = todo \ {f}
    /\ worker' = [worker EXCEPT ![w].pc = "check", ![w].file = f]
    /\ UNCHANGED <<pc, result, known, abort, tokens, errs, conn, pool, cancel, remote>>

WorkerEnds(w) ==
    /\ pc = "upload" /\ worker[w].pc = "idle" /\ todo = {}
    /\ worker' = [worker EXCEPT ![w].pc = "ended"]
    /\ UNCHANGED <<pc, result, known, abort, jobVars, conn, pool, cancel, remote>>

\* An aborted upload returns no error.  Opening the file may fail.
CheckAbort(w) ==
    /\ worker[w].pc = "check"
    /\ \/ /\ abort
          /\ worker' = [worker EXCEPT ![w] = Idle] /\ UNCHANGED errs
       \/ /\ ~abort
          /\ \/ worker' = [worker EXCEPT ![w].pc = "acquire"] /\ UNCHANGED errs
             \/ worker' = [worker EXCEPT ![w] = Idle] /\ errs' = TRUE
    /\ UNCHANGED <<pc, result, known, abort, tokens, todo, conn, pool, cancel, remote>>

Reuse(w, c) ==
    /\ worker[w].pc = "acquire" /\ c \in pool
    /\ pool' = pool \ {c}
    /\ worker' = [worker EXCEPT ![w].pc = "stream", ![w].conn = c]
    /\ UNCHANGED <<pc, result, known, abort, jobVars, conn, cancel, remote>>

DialFails(w) ==
    /\ worker[w].pc = "acquire" /\ pool = {}
    /\ worker' = [worker EXCEPT ![w] = Idle] /\ errs' = TRUE
    /\ UNCHANGED <<pc, result, known, abort, tokens, todo, conn, pool, cancel, remote>>

Dial(w, c) ==
    /\ worker[w].pc = "acquire" /\ pool = {} /\ conn[c] = "free"
    /\ conn' = [conn EXCEPT ![c] = "untracked"]
    /\ worker' = [worker EXCEPT ![w].pc = "dialled", ![w].conn = c]
    /\ UNCHANGED <<pc, result, known, abort, jobVars, pool, cancel, remote>>

NotRefused == FALSE

\* abort, read under the mutex that guards the connections
Refused == abort

\* trackUploadDial, after the dial
Track(w) ==
    /\ worker[w].pc = "dialled"
    /\ IF Refused
       THEN /\ conn' = [conn EXCEPT ![worker[w].conn] = "free"]
            /\ worker' = [worker EXCEPT ![w] = Idle] /\ errs' = TRUE
       ELSE /\ conn' = [conn EXCEPT ![worker[w].conn] = "open"]
            /\ worker' = [worker EXCEPT ![w].pc = "stream"] /\ UNCHANGED errs
    /\ UNCHANGED <<pc, result, known, abort, tokens, todo, pool, cancel, remote>>

\* External: the receiver saves the file, or answers with an error.
RemoteReplies(w, reply) ==
    /\ worker[w].pc = "stream" /\ worker[w].reply = "none" /\ conn[worker[w].conn] = "open"
    /\ reply \in {"ok", "checksum"} => remote.session = "open"
    /\ worker' = [worker EXCEPT ![w].reply = reply]
    /\ LET f == worker[w].file
           n == remote.saved[f] + 1
           all == \A g \in tokens \ {f} : remote.saved[g] > 0
       IN remote' = IF reply = "ok"
                    THEN [session |-> IF all THEN "ended" ELSE "open",
                          saved |-> [remote.saved EXCEPT ![f] = n]]
                    ELSE remote
    /\ UNCHANGED <<pc, result, known, abort, jobVars, conn, pool, cancel>>

\* another attempt is left
Retry(w) == worker[w].tries + 1 < MaxAttempts

\* The answer is read: only a checksum failure is tried again.
ReadReply(w) ==
    /\ worker[w].pc = "stream" /\ worker[w].reply # "none" /\ conn[worker[w].conn] = "open"
    /\ pool' = pool \cup {worker[w].conn}
    /\ LET again == worker[w].reply = "checksum" /\ Retry(w) IN
       /\ worker' = [worker EXCEPT ![w] =
                       IF again THEN [Idle EXCEPT !.pc = "check", !.file = worker[w].file,
                                                  !.tries = worker[w].tries + 1]
                       ELSE Idle]
       /\ errs' = (errs \/ (worker[w].reply # "ok" /\ ~again))
    /\ UNCHANGED <<pc, result, known, abort, tokens, todo, conn, cancel, remote>>

RetryAll(w) == [Idle EXCEPT !.pc = "check", !.file = worker[w].file]

\* not ErrChecksum: the file is given up
GiveUp(w) == Idle

\* The connection is lost, or Cancel has closed it.
StreamFails(w) ==
    /\ worker[w].pc = "stream"
    /\ conn' = [conn EXCEPT ![worker[w].conn] = "free"]
    /\ worker' = [worker EXCEPT ![w] = GiveUp(w)] /\ errs' = TRUE
    /\ UNCHANGED <<pc, result, known, abort, tokens, todo, pool, cancel, remote>>

-----------------------------------------------------------------------------
(* Cancel *)

Alive == pc # "ended"

Signal ==
    /\ Alive /\ cancel["signal"].pc = "none"
    /\ cancel' = [cancel EXCEPT !["signal"].pc = "store"]
    /\ UNCHANGED <<pc, result, known, abort, jobVars, worker, conn, pool, remote>>

StoreAbort(k) ==
    /\ Alive /\ cancel[k].pc = "store"
    /\ abort' = TRUE /\ cancel' = [cancel EXCEPT ![k].pc = "snapshot"]
    /\ UNCHANGED <<pc, result, known, jobVars, worker, conn, pool, remote>>

ActiveNone == {}

\* activeUploadConns
Active == {c \in Conn : conn[c] = "open"}

Snapshot(k) ==
    /\ Alive /\ cancel[k].pc = "snapshot"
    /\ cancel' = [cancel EXCEPT ![k].pc = "close", ![k].conns = Active]
    /\ UNCHANGED <<pc, result, known, abort, jobVars, worker, conn, pool, remote>>

\* Closing one already gone does nothing.
CloseOne(k, c) ==
    /\ Alive /\ cancel[k].pc = "close" /\ c \in cancel[k].conns
    /\ cancel' = [cancel EXCEPT ![k].conns = @ \ {c}]
    /\ conn' = IF conn[c] = "open" THEN [conn EXCEPT ![c] = "shut"] ELSE conn
    /\ UNCHANGED <<pc, result, known, abort, jobVars, worker, pool, remote>>

CloseDone(k) ==
    /\ Alive /\ cancel[k].pc = "close" /\ cancel[k].conns = {}
    /\ cancel' = [cancel EXCEPT ![k].pc = IF known THEN "ask" ELSE "done"]
    /\ UNCHANGED <<pc, result, known, abort, jobVars, worker, conn, pool, remote>>

\* the receiver drops its session
CancelRemote == IF remote.session = "open" THEN [remote EXCEPT !.session = "ended"] ELSE remote

\* The request arrives, or is lost.
Ask(k) ==
    /\ Alive /\ cancel[k].pc = "ask"
    /\ \/ cancel' = [cancel EXCEPT ![k].pc = "sent"] /\ remote' = CancelRemote
       \/ cancel' = [cancel EXCEPT ![k].pc = "lost"] /\ UNCHANGED remote
    /\ UNCHANGED <<pc, result, known, abort, jobVars, worker, conn, pool>>

\* Start goes on after its own Cancel, whatever came of it.
CancelReturns ==
    /\ pc = "cancel" /\ cancel["start"].pc \in {"sent", "lost"}
    /\ pc' = "ended" /\ result' = "error"
    /\ UNCHANGED <<known, abort, jobVars, worker, conn, pool, cancel, remote>>

-----------------------------------------------------------------------------
Work(w) == \/ \E f \in File : TakeJob(w, f)
           \/ WorkerEnds(w) \/ CheckAbort(w)
           \/ \E c \in Conn : Reuse(w, c) \/ Dial(w, c)
           \/ DialFails(w) \/ Track(w) \/ ReadReply(w)
           \/ StreamFails(w)

Cancels(k) == StoreAbort(k) \/ Snapshot(k) \/ (\E c \in Conn : CloseOne(k, c)) \/ CloseDone(k) \/ Ask(k)

Start == PrepareFails \/ AllDone \/ CancelReturns \/ \E T \in SUBSET File : PrepareAnswered(T)

Next == \/ Start \/ Signal
        \/ \E w \in Worker : Work(w) \/ \E r \in {"ok", "checksum", "error"} : RemoteReplies(w, r)
        \/ \E k \in Caller : Cancels(k)

Spec == Init /\ [][Next]_vars

\* A worker that streams waits for ever on a receiver that stalls: only its
\* other steps, and the failure of a closed connection, are sure to happen.
WorkGoesOn(w) == Work(w) /\ (worker[w].pc = "stream" => conn[worker[w].conn] = "shut")

Fairness ==
    /\ WF_vars(Start) /\ \A w \in Worker : WF_vars(WorkGoesOn(w))
    /\ \A k \in Caller : WF_vars(Cancels(k))

FairSpec == Spec /\ Fairness

-----------------------------------------------------------------------------
(* Properties *)

\* Once a Cancel has closed the connections it found, none is open and none
\* ever opens again: not the one being dialled, nor one in the pool.
CancelSticks == \A k \in Caller : cancel[k].pc \in {"ask", "sent", "lost", "done"} => Active = {}

\* The receiver saves no file twice, however answers are lost.
SavedOnce == \A f \in File : remote.saved[f] <= 1

\* If Start reports success and nobody asked to stop, the receiver has saved
\* every file it accepted.
OkMeansSaved == result = "ok" /\ ~abort => \A f \in tokens : remote.saved[f] = 1

\* A Start that fails after the session was prepared has released it: the
\* receiver is not left busy unless the cancel request was lost.
FailureReleases ==
    result = "error" /\ known /\ cancel["start"].pc # "lost" => remote.session # "open"

\* What Start returned is true, whichever worker failed and in which order.
ResultTrue == TypeOK /\ OkMeansSaved /\ FailureReleases

\* After a signal Start returns, even if the receiver stopped reading.
CancelFinishes == abort ~> pc = "ended"

=============================================================================
