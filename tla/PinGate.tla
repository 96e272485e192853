------------------------------ MODULE PinGate ------------------------------
(***************************************************************************)
(* The PIN check of the two HTTP servers, with the RateLimiter             *)
(* (utils/ratelimit.go) behind it: validatePIN of the receiver             *)
(* (localsend/recv/recv.go, called by preUploadHandler) and of the reverse *)
(* sender (localsend/send/rvsend.go), which gives a session bound to the   *)
(* client's address for a right PIN and files for a session.  Every call   *)
(* on the limiter, and every look at the sessions, takes a lock of its     *)
(* own; the handlers of concurrent requests run in between.                *)
(*                                                                         *)
(* Data abstracted: a client is its address, a PIN is right, wrong or      *)
(* missing, time is counted in ticks.  RecordAttempt sets blockedAt and    *)
(* lastAttempt to the same instant, so one age stands for both; it stops   *)
(* one above Block.                                                        *)
(***************************************************************************)
EXTENDS Integers, FiniteSets, Functions

CONSTANTS
    Client,       \* client addresses
    Handler,      \* concurrent requests
    MaxAttempts,  \* MaxPINAttempts
    Block,        \* PINBlockDuration, in ticks
    MaxSessions   \* bound: sessions created

ASSUME PinGateAssumption ==
    /\ IsFiniteSet(Client) /\ IsFiniteSet(Handler)
    /\ MaxAttempts \in Nat \ {0} /\ Block \in Nat /\ MaxSessions \in Nat

VARIABLES
    server,       \* which of the two servers
    attempts,     \* the limiter's map: count of failures and age of the last
    handler,      \* each request's step, client, kind and session
    sessions,     \* the reverse sender's sessions: id -> address
    sessionByIP,  \* address -> id
    created,      \* ids given out
    authed,       \* clients that once sent the right PIN
    served        \* clients that got past the check, or got a file

limiterVars == <<server, attempts>>
sessionVars == <<sessions, sessionByIP, created>>
vars == <<limiterVars, handler, sessionVars, authed, served>>

-----------------------------------------------------------------------------
Server    == [kind : {"recv", "reverse"}, pin : BOOLEAN]
SessionId == 1..MaxSessions
Age       == 0..(Block + 1)
NoSession == 0
Quiet     == [pc |-> "idle", client |-> "none", sid |-> NoSession]

Limit == MaxAttempts - 1 + Cardinality(Handler)

TypeOK ==
    /\ server \in Server
    /\ DOMAIN attempts \subseteq Client
    /\ \A c \in DOMAIN attempts : attempts[c] \in [count : 1..Limit, age : Age]
    /\ handler \in [Handler -> [pc : {"idle", "session", "gate", "compare", "record", "clear", "create", "file"},
                                client : Client \cup {"none"}, sid : SessionId \cup {NoSession}]]
    /\ DOMAIN sessions \subseteq SessionId /\ \A s \in DOMAIN sessions : sessions[s] \in Client
    /\ DOMAIN sessionByIP \subseteq Client
    /\ created \in 0..MaxSessions /\ authed \subseteq Client /\ served \subseteq Client

Init ==
    /\ server \in Server
    /\ attempts = [c \in {} |-> 0]
    /\ handler = [h \in Handler |-> Quiet]
    /\ sessions = [s \in {} |-> 0] /\ sessionByIP = [c \in {} |-> 0] /\ created = 0
    /\ authed = {} /\ served = {}

Without(f, x) == Restrict(f, DOMAIN f \ {x})
With(f, x, y) == [z \in DOMAIN f \cup {x} |-> IF z = x THEN y ELSE f[z]]

-----------------------------------------------------------------------------
(* RateLimiter *)

Counted(c) == c \in DOMAIN attempts /\ attempts[c].count >= MaxAttempts
Expired(c) == attempts[c].age > Block
Blocked(c) == Counted(c) /\ ~Expired(c)

RecordAttempt(c) ==
    With(attempts, c, [count |-> IF c \in DOMAIN attempts THEN attempts[c].count + 1 ELSE 1,
                       age |-> 0])

CleanedAll == {c \in DOMAIN attempts : Expired(c) \/ Counted(c)}

\* expired blocks, and failures too old to count
Cleaned == {c \in DOMAIN attempts : Expired(c)}

CleanupExpired ==
    /\ Cleaned # {}
    /\ attempts' = Restrict(attempts, DOMAIN attempts \ Cleaned)
    /\ UNCHANGED <<server, handler, sessionVars, authed, served>>

Tick ==
    /\ \E c \in DOMAIN attempts : ~Expired(c)
    /\ attempts' = [c \in DOMAIN attempts |->
                      [attempts[c] EXCEPT !.age = IF @ <= Block THEN @ + 1 ELSE @]]
    /\ UNCHANGED <<server, handler, sessionVars, authed, served>>

-----------------------------------------------------------------------------
(* validatePIN *)

Step(h, pc) == handler' = [handler EXCEPT ![h].pc = pc]

\* A PIN that is not required lets everybody in: the reverse sender makes a
\* session, the receiver goes on.
Passed == IF server.kind = "reverse" THEN "create" ELSE "idle"

\* prepare-upload, prepare-download or the list of files; a prepare-download
\* may name a session, a download must.
Request(h, c, pc, s) ==
    /\ handler[h].pc = "idle"
    /\ pc \in {"session", "file"} => server.kind = "reverse" /\ s \in 1..created
    /\ pc = "gate" => s = NoSession
    /\ handler' = [handler EXCEPT ![h] = [pc |-> pc, client |-> c, sid |-> s]]
    /\ UNCHANGED <<limiterVars, sessionVars, authed, served>>

NeverBlocked(c) == FALSE

\* IsBlocked, which also forgets a block that has expired
IsBlocked(c) == Blocked(c)

CheckBlocked(h) ==
    /\ handler[h].pc = "gate"
    /\ LET c == handler[h].client IN
       IF ~server.pin
       THEN /\ Step(h, Passed)
            /\ served' = served \cup {c} /\ authed' = authed \cup {c}
            /\ UNCHANGED attempts
       ELSE /\ Step(h, IF IsBlocked(c) THEN "idle" ELSE "compare")
            /\ attempts' = IF Counted(c) /\ Expired(c) THEN Without(attempts, c) ELSE attempts
            /\ UNCHANGED <<served, authed>>
    /\ UNCHANGED <<server, sessionVars>>

\* No PIN, a wrong one, the right one.
Compare(h, pin) ==
    /\ handler[h].pc = "compare"
    /\ Step(h, CASE pin = "missing" -> "idle" [] pin = "wrong" -> "record" [] OTHER -> "clear")
    /\ authed' = IF pin = "right" THEN authed \cup {handler[h].client} ELSE authed
    /\ UNCHANGED <<limiterVars, sessionVars, served>>

Record(h) ==
    /\ handler[h].pc = "record"
    /\ attempts' = RecordAttempt(handler[h].client) /\ Step(h, "idle")
    /\ UNCHANGED <<server, sessionVars, authed, served>>

Clear(h) ==
    /\ handler[h].pc = "clear"
    /\ attempts' = Without(attempts, handler[h].client) /\ Step(h, Passed)
    /\ served' = served \cup {handler[h].client}
    /\ UNCHANGED <<server, sessionVars, authed>>

-----------------------------------------------------------------------------
(* The reverse sender's sessions *)

OldKept(c) == sessions

\* a client's earlier session goes
OldDropped(c) == IF c \in DOMAIN sessionByIP THEN Without(sessions, sessionByIP[c]) ELSE sessions

createSession(h) ==
    /\ handler[h].pc = "create"
    /\ created < MaxSessions
    /\ LET c == handler[h].client IN
       /\ sessions' = With(OldDropped(c), created + 1, c)
       /\ sessionByIP' = With(sessionByIP, c, created + 1)
    /\ created' = created + 1 /\ Step(h, "idle")
    /\ UNCHANGED <<limiterVars, authed, served>>

validSession(s, c) == s \in DOMAIN sessions /\ sessions[s] = c

\* predownloadHandler with a session: the list of files without a PIN, or the
\* PIN after all.  downloadHandler: a file, or 403.
UseSession(h) ==
    /\ handler[h].pc \in {"session", "file"}
    /\ IF validSession(handler[h].sid, handler[h].client)
       THEN served' = served \cup {handler[h].client} /\ Step(h, "idle")
       ELSE Step(h, IF handler[h].pc = "session" THEN "gate" ELSE "idle") /\ UNCHANGED served
    /\ UNCHANGED <<limiterVars, sessionVars, authed>>

-----------------------------------------------------------------------------
Handle(h) == \/ CheckBlocked(h) \/ Record(h) \/ Clear(h) \/ createSession(h) \/ UseSession(h)
             \/ \E pin \in {"missing", "wrong", "right"} : Compare(h, pin)

Next == \/ Tick \/ CleanupExpired
        \/ \E h \in Handler : Handle(h)
        \/ \E h \in Handler, c \in Client, pc \in {"gate", "session", "file"},
              s \in SessionId \cup {NoSession} : Request(h, c, pc, s)

Spec == Init /\ [][Next]_vars

-----------------------------------------------------------------------------
(* Properties *)

\* Wrong PINs compared, of which some are not counted yet: the check and the
\* count are two steps, so every request under way may guess once more than
\* MaxPINAttempts allows, and no more than that.
GuessesBounded ==
    \A c \in DOMAIN attempts :
        attempts[c].count
          + Cardinality({h \in Handler : handler[h].pc = "record" /\ handler[h].client = c}) <= Limit

\* A block ends when its time has passed, or in the step in which a request of
\* the same client that gave the right PIN resets the counter: never by the
\* clean-up, another client or a further failure.
BlockHolds ==
    [][\A c \in Client : Blocked(c) /\ ~Blocked(c)' =>
          \/ c \in DOMAIN attempts' /\ Expired(c)'
          \/ \E h \in Handler : handler[h].pc = "clear" /\ handler[h].client = c
                                /\ handler'[h].pc # "clear"]_vars

\* The two maps agree: a client has one session, the one it was given last.
SessionsAgree ==
    /\ \A c \in DOMAIN sessionByIP : validSession(sessionByIP[c], c)
    /\ \A s \in DOMAIN sessions : sessionByIP[sessions[s]] = s

\* Nobody is served who has not once sent the right PIN, whoever's session the
\* request names.
ServedAuthed == served \subseteq authed

\* A session is good for its own client only, and only for one that sent the
\* right PIN, within the types.
SessionsOwned == TypeOK /\ SessionsAgree /\ ServedAuthed

=============================================================================
