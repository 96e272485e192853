---------------------------- MODULE RecvSessions ----------------------------
(***************************************************************************)
(* The HTTP receiver's sessions: RecvSessManager (admission, vacuum,       *)
(* cancel), RecvSession (upload state machine of every offered file) and   *)
(* the handler goroutines that drive them.  A handler is a process with a  *)
(* program counter, one step per critical section or atomic operation of   *)
(* the code, so that handlers, cancels, the vacuum goroutine, the clock    *)
(* and other programs writing into the save directory interleave.          *)
(*                                                                         *)
(* Data abstracted: file bodies (only the outcome of the copy counts),     *)
(* session ids and tokens (fresh UUIDs: only a client that was answered    *)
(* knows them), names (every path a unique-name search can return), time   *)
(* (a session is past SessionTimeout or it is not).  Requests refused      *)
(* before they touch any state are not steps.                              *)
(***************************************************************************)
EXTENDS Integers, FiniteSets

CONSTANTS
    Session,                \* session ids the manager can hand out
    Client,                 \* client IP addresses
    File,                   \* file ids a client can offer
    Upload,                 \* concurrently running upload handlers
    Path,                   \* paths of the save directory
    None,                   \* no path, no session, no file
    MaxChecksumAttempts,    \* maxChecksumAttempts
    MaxConcurrentSessions,  \* MaxConcurrentSessions
    MaxReads,               \* bound: activity updates of one upload
    DiskFaults              \* whether os.Remove of a partial file may fail

ASSUME SetsAssumption == /\ IsFiniteSet(File)
                         /\ IsFiniteSet(Upload)
                         /\ None \notin Session \cup Client \cup File \cup Path

ASSUME BoundsAssumption == /\ MaxChecksumAttempts \in Nat \ {0}
                           /\ MaxConcurrentSessions \in Nat
                           /\ MaxReads \in Nat
                           /\ DiskFaults \in BOOLEAN

VARIABLES
    sessions,   \* rsm.sessions: the ids in the map
    life,       \* where CreateSessionIfAllowed and its response are, per id
    owner,      \* sess.clientIP
    started,    \* sess.started
    filesCount, \* sess.filesCount
    activity,   \* sess.lastActivity against SessionTimeout
    status,     \* fileStates[f].status
    attempts,   \* fileStates[f].attempts
    target,     \* fileStates[f].targetPath
    killer,     \* where KillSession of an id is
    vacuum,     \* session vacuumTask found Stopped and is about to delete
    disk,       \* the save directory
    upc, usess, ufile, uresult, ureads
                \* locals of the upload handlers

sessVars   == <<owner, started, filesCount, activity>>
fileVars   == <<status, attempts, target>>
uploadVars == <<upc, usess, ufile, uresult, ureads>>
vars == <<sessions, life, sessVars, fileVars, killer, vacuum, disk, uploadVars>>

-----------------------------------------------------------------------------

Status    == {"absent", "pending", "inProgress", "finished", "failed"}
Life      == {"unused", "storing", "stored", "responding", "open", "lost"}
\* "revived": active again after the timeout had already passed once.
Activity  == {"fresh", "stale", "revived"}
UploadPc  == {"idle", "found", "checked", "claimed", "writing", "closing",
              "finish", "count", "cas", "zero"}

TypeOK ==
    /\ sessions \subseteq Session
    /\ life \in [Session -> Life]
    /\ owner \in [Session -> Client \cup {None}]
    /\ started \in [Session -> BOOLEAN]
    /\ filesCount \in [Session -> Int]
    /\ activity \in [Session -> Activity]
    /\ status \in [Session -> [File -> Status]]
    /\ attempts \in [Session -> [File -> 0 .. MaxChecksumAttempts]]
    /\ target \in [Session -> [File -> Path \cup {None}]]
    /\ killer \in [Session -> {"none", "cas", "zero", "done"}]
    /\ vacuum \in Session \cup {None}
    /\ disk \in [Path -> {"free", "foreign", "partial", "complete"}]
    /\ upc \in [Upload -> UploadPc]
    /\ usess \in [Upload -> Session \cup {None}]
    /\ ufile \in [Upload -> File \cup {None}]
    /\ uresult \in [Upload -> {"pending", "finished", "failed"}]
    /\ ureads \in [Upload -> 0 .. MaxReads]

Init ==
    /\ sessions = {}
    /\ life = [s \in Session |-> "unused"]
    /\ owner = [s \in Session |-> None]
    /\ started = [s \in Session |-> FALSE]
    /\ filesCount = [s \in Session |-> 0]
    /\ activity = [s \in Session |-> "fresh"]
    /\ status = [s \in Session |-> [f \in File |-> "absent"]]
    /\ attempts = [s \in Session |-> [f \in File |-> 0]]
    /\ target = [s \in Session |-> [f \in File |-> None]]
    /\ killer = [s \in Session |-> "none"]
    /\ vacuum = None
    /\ disk \in [Path -> {"free", "foreign"}]
    /\ upc = [u \in Upload |-> "idle"]
    /\ usess = [u \in Upload |-> None]
    /\ ufile = [u \in Upload |-> None]
    /\ uresult = [u \in Upload |-> "failed"]
    /\ ureads = [u \in Upload |-> 0]

-----------------------------------------------------------------------------
(* Session lifetime *)

\* Mutant: inactivity never counts.
StoppedIgnoringTime(s) == ~started[s] \/ filesCount[s] = 0

\* RecvSession.Stopped
Stopped(s) == activity[s] = "stale" \/ ~started[s] \/ filesCount[s] = 0

\* admissionMu is held while a session is between its check and its Start.
AdmissionLocked == \E s \in Session : life[s] \in {"storing", "stored"}

\* Mutant: the admission check looks at nothing but the number of sessions.
NoneActiveSkipped == TRUE

\* hasActiveSessionsLocked is false
NoneActive == \A t \in sessions : Stopped(t)

\* CreateSessionIfAllowed up to the AcceptFile loop.
AdmitCheck(s, c, F) ==
    /\ ~AdmissionLocked
    /\ life[s] = "unused"
    /\ F # {}
    /\ NoneActive
    /\ Cardinality(sessions) < MaxConcurrentSessions
    /\ life' = [life EXCEPT ![s] = "storing"]
    /\ owner' = [owner EXCEPT ![s] = c]
    /\ status' = [status EXCEPT
                    ![s] = [f \in File |-> IF f \in F THEN "pending" ELSE "absent"]]
    /\ filesCount' = [filesCount EXCEPT ![s] = Cardinality(F)]
    /\ UNCHANGED <<sessions, started, activity, attempts, target, killer,
                   vacuum, disk, uploadVars>>

\* rsm.sessions.Store: from here the vacuum and other handlers see the session.
AdmitStore(s) ==
    /\ life[s] = "storing"
    /\ sessions' = sessions \cup {s}
    /\ life' = [life EXCEPT ![s] = "stored"]
    /\ UNCHANGED <<sessVars, fileVars, killer, vacuum, disk, uploadVars>>

\* session.Start, then the deferred unlock of admissionMu.
AdmitStart(s) ==
    /\ life[s] = "stored"
    /\ started' = [started EXCEPT ![s] = TRUE]
    /\ life' = [life EXCEPT ![s] = "responding"]
    /\ UNCHANGED <<sessions, owner, filesCount, activity, fileVars, killer,
                   vacuum, disk, uploadVars>>

\* GeneratePreUploadResp: the tokens, or 500 when the session is gone again.
AdmitRespond(s) ==
    /\ life[s] = "responding"
    /\ life' = [life EXCEPT ![s] = IF s \in sessions THEN "open" ELSE "lost"]
    /\ UNCHANGED <<sessions, sessVars, fileVars, killer, vacuum, disk, uploadVars>>

\* The clock passes lastActivity + SessionTimeout.  Only of a session that is
\* or will be in the map does anyone ask.
Timeout(s) ==
    /\ s \in sessions \/ life[s] = "storing"
    /\ activity[s] # "stale"
    /\ activity' = [activity EXCEPT ![s] = "stale"]
    /\ UNCHANGED <<sessions, life, owner, started, filesCount, fileVars, killer,
                   vacuum, disk, uploadVars>>

\* vacuumTask: Stopped() and Delete are two operations on a shared map.
VacuumCheck(s) ==
    /\ vacuum = None
    /\ s \in sessions
    /\ Stopped(s)
    /\ vacuum' = s
    /\ UNCHANGED <<sessions, life, sessVars, fileVars, killer, disk, uploadVars>>

VacuumDelete ==
    /\ vacuum # None
    /\ sessions' = sessions \ {vacuum}
    /\ vacuum' = None
    /\ UNCHANGED <<life, sessVars, fileVars, killer, disk, uploadVars>>

\* cancelHandler, KillSessionForClient: LoadAndDelete, then End.
Kill(s, c) ==
    /\ life[s] = "open"
    /\ s \in sessions
    /\ owner[s] = c
    /\ sessions' = sessions \ {s}
    /\ killer' = [killer EXCEPT ![s] = "cas"]
    /\ UNCHANGED <<life, sessVars, fileVars, vacuum, disk, uploadVars>>

\* End: started.CompareAndSwap(true, false) ...
KillCas(s) ==
    /\ killer[s] = "cas"
    /\ killer' = [killer EXCEPT ![s] = IF started[s] THEN "zero" ELSE "done"]
    /\ started' = [started EXCEPT ![s] = FALSE]
    /\ UNCHANGED <<sessions, life, owner, filesCount, activity, fileVars,
                   vacuum, disk, uploadVars>>

\* ... and, if it swapped, filesCount := 0.
KillZero(s) ==
    /\ killer[s] = "zero"
    /\ killer' = [killer EXCEPT ![s] = "done"]
    /\ filesCount' = [filesCount EXCEPT ![s] = 0]
    /\ UNCHANGED <<sessions, life, owner, started, activity, fileVars,
                   vacuum, disk, uploadVars>>

-----------------------------------------------------------------------------
(* Upload handlers.  The locals fileId, session and result of handler u are *)
(* ufile[u], usess[u] and uresult[u]; saveAs is the file's targetPath.      *)

SaveAs(u) == target[usess[u]][ufile[u]]

\* uploadHandler answers (200 for finished, 422 for pending, 400 or 500 for
\* failed, 403 before the claim) and its locals are gone.
Done(u) ==
    /\ upc' = [upc EXCEPT ![u] = "idle"]
    /\ usess' = [usess EXCEPT ![u] = None]
    /\ ufile' = [ufile EXCEPT ![u] = None]
    /\ uresult' = [uresult EXCEPT ![u] = "failed"]
    /\ ureads' = [ureads EXCEPT ![u] = 0]

Goto(u, pc) ==
    /\ upc' = [upc EXCEPT ![u] = pc]
    /\ UNCHANGED <<usess, ufile, uresult, ureads>>

\* uploadHandler: GetSession and GetFileMeta succeeded.
UploadBegin(u, s, f) ==
    /\ upc[u] = "idle"
    /\ life[s] = "open"
    /\ s \in sessions
    /\ status[s][f] # "absent"
    /\ upc' = [upc EXCEPT ![u] = "found"]
    /\ usess' = [usess EXCEPT ![u] = s]
    /\ ufile' = [ufile EXCEPT ![u] = f]
    /\ UNCHANGED <<sessions, life, sessVars, fileVars, killer, vacuum, disk,
                   uresult, ureads>>

\* SaveFile: the started check, before sess.mu is taken, and the check of the
\* client's address.
SaveCheck(u, c) ==
    /\ upc[u] = "found"
    /\ IF started[usess[u]] /\ owner[usess[u]] = c THEN Goto(u, "checked") ELSE Done(u)
    /\ UNCHANGED <<sessions, life, sessVars, fileVars, killer, vacuum, disk>>

\* Mutant: a second request for a file in progress is let in.
ClaimableTwice(s, f) == status[s][f] \in {"pending", "inProgress"}

Claimable(s, f) == status[s][f] = "pending"

\* SaveFile under sess.mu: only a pending file can be claimed, with its token.
Claim(u, hasToken) ==
    LET s == usess[u]
        f == ufile[u]
    IN /\ upc[u] = "checked"
       /\ \/ /\ Claimable(s, f)
             /\ hasToken
             /\ status' = [status EXCEPT ![s][f] = "inProgress"]
             /\ attempts' = [attempts EXCEPT ![s][f] = @ + 1]
             /\ Goto(u, "claimed")
          \/ /\ ~Claimable(s, f) \/ ~hasToken
             /\ Done(u)
             /\ UNCHANGED <<status, attempts>>
       /\ UNCHANGED <<sessions, life, sessVars, target, killer, vacuum, disk>>

\* Sanitizing the name, preparing the directories or creating the file fails:
\* nothing was created and the result stays fileFailed.
PrepareFails(u) ==
    /\ upc[u] = "claimed"
    /\ Goto(u, "finish")
    /\ UNCHANGED <<sessions, life, sessVars, fileVars, killer, vacuum, disk>>

\* Mutant: creation without O_EXCL.
CreatableOverwriting(s, f, p) == target[s][f] \in {None, p}

Creatable(s, f, p) == disk[p] = "free" /\ target[s][f] \in {None, p}

\* O_CREATE|O_EXCL on the path of the first attempt, or on a path found by
\* uniqueFiles.Create, which then becomes the file's targetPath.
Create(u, p) ==
    LET s == usess[u]
        f == ufile[u]
    IN /\ upc[u] = "claimed"
       /\ Creatable(s, f, p)
       /\ disk' = [disk EXCEPT ![p] = "partial"]
       /\ target' = [target EXCEPT ![s][f] = p]
       /\ Goto(u, "writing")
       /\ UNCHANGED <<sessions, life, sessVars, status, attempts, killer, vacuum>>

\* activityReader.Read stores lastActivity := now.  Only a store that ends a
\* timeout tells: activityUpdateInterval is shorter than SessionTimeout, so the
\* first read after one always stores.
ReadBody(u) ==
    LET s == usess[u]
    IN /\ upc[u] = "writing"
       /\ activity[s] = "stale"
       /\ ureads[u] < MaxReads
       /\ ureads' = [ureads EXCEPT ![u] = @ + 1]
       /\ activity' = [activity EXCEPT ![s] = "revived"]
       /\ UNCHANGED <<sessions, life, owner, started, filesCount, fileVars,
                      killer, vacuum, disk, upc, usess, ufile, uresult>>

\* The copy ends: all of the body, a body with another checksum, or a short,
\* long or broken one or a failed flush.
CopyEnds(u, result) ==
    /\ upc[u] = "writing"
    /\ upc' = [upc EXCEPT ![u] = "closing"]
    /\ uresult' = [uresult EXCEPT ![u] = result]
    /\ disk' = IF result = "finished" THEN [disk EXCEPT ![SaveAs(u)] = "complete"]
                                      ELSE disk
    /\ UNCHANGED <<sessions, life, sessVars, fileVars, killer, vacuum,
                   usess, ufile, ureads>>

\* Mutant: the deferred removal is missing.
RemovesNever(u) == FALSE

Removes(u) == uresult[u] # "finished"

\* First deferred call: close, and remove what is not a success.
CloseFile(u) ==
    /\ upc[u] = "closing"
    /\ \/ /\ Removes(u)
          /\ disk' = [disk EXCEPT ![SaveAs(u)] = "free"]
       \/ /\ ~Removes(u) \/ DiskFaults
          /\ UNCHANGED disk
    /\ Goto(u, "finish")
    /\ UNCHANGED <<sessions, life, sessVars, fileVars, killer, vacuum>>

Retries(u) ==
    uresult[u] = "pending" /\ attempts[usess[u]][ufile[u]] < MaxChecksumAttempts

\* Mutant: an attempt that will be retried is counted down too.
AfterAttemptCounting(u) == Goto(u, "count")

AfterAttempt(u) == IF Retries(u) THEN Done(u) ELSE Goto(u, "count")

\* Second deferred call, finishFileAttempt, under sess.mu.
FinishFileAttempt(u) ==
    LET s == usess[u]
        f == ufile[u]
    IN /\ upc[u] = "finish"
       /\ status' = [status EXCEPT ![s][f] =
                        IF Retries(u) THEN "pending"
                        ELSE IF uresult[u] = "finished" THEN "finished" ELSE "failed"]
       /\ AfterAttempt(u)
       /\ UNCHANGED <<sessions, life, sessVars, attempts, target, killer,
                      vacuum, disk>>

LastFile(s) == filesCount[s] = 1

\* finishFileAttempt after the unlock: AddInt64(&filesCount, -1) == 0 ends it.
CountDown(u) ==
    LET s == usess[u]
    IN /\ upc[u] = "count"
       /\ filesCount' = [filesCount EXCEPT ![s] = @ - 1]
       /\ IF LastFile(s) THEN Goto(u, "cas") ELSE Done(u)
       /\ UNCHANGED <<sessions, life, owner, started, activity, fileVars, killer,
                      vacuum, disk>>

EndCas(u) ==
    LET s == usess[u]
    IN /\ upc[u] = "cas"
       /\ started' = [started EXCEPT ![s] = FALSE]
       /\ IF started[s] THEN Goto(u, "zero") ELSE Done(u)
       /\ UNCHANGED <<sessions, life, owner, filesCount, activity, fileVars, killer,
                      vacuum, disk>>

EndZero(u) ==
    /\ upc[u] = "zero"
    /\ filesCount' = [filesCount EXCEPT ![usess[u]] = 0]
    /\ Done(u)
    /\ UNCHANGED <<sessions, life, owner, started, activity, fileVars, killer,
                   vacuum, disk>>

\* Another program (KOReader, the user) creates a file in the save directory.
ForeignCreate(p) ==
    /\ disk[p] = "free"
    /\ disk' = [disk EXCEPT ![p] = "foreign"]
    /\ UNCHANGED <<sessions, life, sessVars, fileVars, killer, vacuum, uploadVars>>

-----------------------------------------------------------------------------

AdmitStep(s) ==
    \/ AdmitStore(s)
    \/ AdmitStart(s)
    \/ AdmitRespond(s)

KillStep(s) == KillCas(s) \/ KillZero(s)

\* Everything SaveFile does on its own once the body has ended.
HandlerStep(u) ==
    \/ \E c \in Client : SaveCheck(u, c)
    \/ \E hasToken \in BOOLEAN : Claim(u, hasToken)
    \/ CloseFile(u)
    \/ FinishFileAttempt(u)
    \/ CountDown(u)
    \/ EndCas(u)
    \/ EndZero(u)

Next ==
    \/ \E s \in Session, c \in Client, F \in SUBSET File : AdmitCheck(s, c, F)
    \/ \E s \in Session : AdmitStep(s)
    \/ \E s \in Session : Timeout(s)
    \/ \E s \in Session : VacuumCheck(s)
    \/ VacuumDelete
    \/ \E s \in Session, c \in Client : Kill(s, c)
    \/ \E s \in Session : KillStep(s)
    \/ \E u \in Upload, s \in Session, f \in File : UploadBegin(u, s, f)
    \/ \E u \in Upload : PrepareFails(u)
    \/ \E u \in Upload, p \in Path : Create(u, p)
    \/ \E u \in Upload : ReadBody(u)
    \/ \E u \in Upload, result \in {"finished", "pending", "failed"} : CopyEnds(u, result)
    \/ \E u \in Upload : HandlerStep(u)
    \/ \E p \in Path : ForeignCreate(p)

Spec == Init /\ [][Next]_vars

\* Time passes and goroutines run.  Nothing is assumed of the network: a body
\* may stall forever (the server sets no read timeout).
Fairness ==
    /\ \A s \in Session : WF_vars(AdmitStep(s))
    /\ \A s \in Session : WF_vars(KillStep(s))
    /\ \A s \in Session : WF_vars(Timeout(s))
    /\ \A s \in Session : WF_vars(VacuumCheck(s))
    /\ WF_vars(VacuumDelete)
    /\ \A u \in Upload : WF_vars(HandlerStep(u))

FairSpec == Spec /\ Fairness

-----------------------------------------------------------------------------
(* Properties *)

Unfinished(s) == {f \in File : status[s][f] \in {"pending", "inProgress"}}
Uncounted(s)  == {u \in Upload : usess[u] = s /\ upc[u] = "count"}
HasClaim(u)   == upc[u] \in {"claimed", "writing", "closing", "finish"}
HasFile(u)    == upc[u] \in {"writing", "closing"}
Active(s)     == s \in sessions /\ ~Stopped(s)

\* No two handlers own the same file of a session, and no two handlers (of
\* whatever session) have the same path open: a claim is taken under sess.mu
\* only from pending, and paths are created with O_EXCL.
ExclusiveWriters ==
    \A u, v \in Upload :
        u # v => /\ HasClaim(u) /\ HasClaim(v)
                      => <<usess[u], ufile[u]>> # <<usess[v], ufile[v]>>
                 /\ HasFile(u) /\ HasFile(v) => SaveAs(u) # SaveAs(v)

\* A finished file is complete on disk under a path of its own, and from the
\* moment its copy succeeded: nobody else removes, reuses or rewrites it.
SavedIsOnDisk ==
    \A s \in Session, f \in File :
        status[s][f] = "finished" =>
           /\ target[s][f] # None
           /\ disk[target[s][f]] = "complete"
           /\ \A t \in Session, g \in File :
                 /\ status[t][g] = "finished"
                 /\ target[t][g] = target[s][f]
                 => t = s /\ g = f

\* Removal works: every partial file has a handler that will complete or
\* remove it, so a failed, cancelled or timed-out upload leaves nothing behind
\* and the checksum retry finds its targetPath free of its own remains.
NoPartialLeft ==
    ~DiskFaults =>
       \A p \in Path :
          disk[p] = "partial" => \E u \in Upload : HasFile(u) /\ SaveAs(u) = p

\* While a session runs, filesCount is the number of files that still have to
\* reach a terminal status plus the decrements on their way, whatever handlers
\* and retries are in flight: it cannot hit zero early nor miss zero.
CountMatches ==
    \A s \in Session :
        started[s] \/ life[s] \in {"storing", "stored"} =>
           filesCount[s] = Cardinality(Unfinished(s)) + Cardinality(Uncounted(s))

\* A session nobody cancelled ends only when each of its files is finished or
\* failed, and when they all are and no handler is between the last decrement
\* and End, it has ended (it would block every other sender otherwise).
EndsWhenDone ==
    \A s \in Session :
        life[s] \in {"responding", "open", "lost"} /\ killer[s] = "none" =>
           /\ ~started[s] => Unfinished(s) = {}
           /\ Unfinished(s) = {} /\ started[s] =>
                 \E u \in Upload : usess[u] = s /\ upc[u] \in {"count", "cas"}

\* Two sessions are active at once only if one of them had already timed out
\* and came back to life: nothing but the clock defeats the admission check.
SingleActive ==
    \A s, t \in Session :
        s # t /\ Active(s) /\ Active(t) => "revived" \in {activity[s], activity[t]}

KeepsSavedFiles ==
    \A p \in Path : disk[p] \in {"foreign", "complete"} => disk'[p] = disk[p]

\* Nothing the receiver does changes or removes a complete file or a file it
\* did not create (O_EXCL, removal of own partial files only).
SavedFilesKept == [][KeepsSavedFiles]_vars

KeepsFinal ==
    \A s \in Session, f \in File :
        /\ target[s][f] # None => target'[s][f] = target[s][f]
        /\ status[s][f] \in {"finished", "failed"} => status'[s][f] = status[s][f]

\* A file's path, once chosen, is the one every checksum retry writes, and a
\* terminal status is final.
TerminalIsFinal == [][KeepsFinal]_vars

\* Every session leaves the map, even when its client disappears, stalls in
\* the middle of a body or never cancels: it cannot block senders for good.
SessionsDrain ==
    \A s \in Session : s \in sessions ~> s \notin sessions

=============================================================================
