---------------------------- MODULE PinGateProofs ---------------------------
(***************************************************************************)
(* Proofs about PinGate, for every set of clients and of concurrent        *)
(* requests, every limit and every block duration.                         *)
(***************************************************************************)
EXTENDS PinGate, FiniteSetTheorems, TLAPS

\* Requests of c that are past the check and may still count a failure.
Guessing(c) == {h \in Handler : handler[h].pc \in {"compare", "record"} /\ handler[h].client = c}

\* A request under way has a client.
RequestInv == \A h \in Handler : handler[h].pc # "idle" => handler[h].client \in Client

\* What is counted and what may still be: once a client is blocked no request
\* of it gets past the check, so the sum only grows while the count is below
\* MaxAttempts.
GuessInv == \A c \in DOMAIN attempts : attempts[c].count + Cardinality(Guessing(c)) <= Limit

\* Ids are given out once, a session's client has no other, and it sent the
\* right PIN.
SessionInv ==
    /\ DOMAIN sessions \subseteq 1..created
    /\ \A c \in DOMAIN sessionByIP : sessionByIP[c] \in DOMAIN sessions /\ sessions[sessionByIP[c]] = c
    /\ \A s \in DOMAIN sessions : /\ sessions[s] \in DOMAIN sessionByIP \cap authed
                                  /\ sessionByIP[sessions[s]] = s

\* Who is served, or about to get a session, gave the right PIN.
AuthInv ==
    /\ served \subseteq authed
    /\ \A h \in Handler : handler[h].pc \in {"clear", "create"} => handler[h].client \in authed

IndInv == TypeOK /\ RequestInv /\ GuessInv /\ SessionInv /\ AuthInv

-----------------------------------------------------------------------------
(* The operators of the model *)

Pc == {"idle", "session", "gate", "compare", "record", "clear", "create", "file"}

\* With overrides one point of a map.
LEMMA WithUpdates ==
    \A f, x, y :
       /\ DOMAIN With(f, x, y) = DOMAIN f \cup {x}
       /\ With(f, x, y)[x] = y
       /\ \A z \in DOMAIN f : z # x => With(f, x, y)[z] = f[z]
BY DEF With

\* Without removes one.
LEMMA WithoutUpdates ==
    \A f, x :
       /\ DOMAIN Without(f, x) = DOMAIN f \ {x}
       /\ \A z \in DOMAIN f : z # x => Without(f, x)[z] = f[z]
BY DEF Without, Restrict

\* Step moves one request and nothing else of it.
LEMMA StepMoves ==
    ASSUME TypeOK, NEW h \in Handler, NEW pc \in Pc, Step(h, pc)
    PROVE  /\ handler' \in [Handler -> [pc : Pc, client : Client \cup {"none"},
                                        sid : SessionId \cup {NoSession}]]
           /\ handler'[h].pc = pc
           /\ \A g \in Handler : /\ handler'[g].client = handler[g].client
                                 /\ g # h => handler'[g] = handler[g]
BY DEF TypeOK, Step, Pc

\* Where a comparison and the use of a session lead.
LEMMA CompareMoves ==
    ASSUME NEW h \in Handler, NEW pin \in {"missing", "wrong", "right"}, Compare(h, pin)
    PROVE  \/ pin = "missing" /\ Step(h, "idle")
           \/ pin = "wrong" /\ Step(h, "record")
           \/ pin = "right" /\ Step(h, "clear")
<1>1. CASE pin = "missing"
  BY <1>1, Zenon DEF Compare
<1>2. CASE pin = "wrong"
  BY <1>2, Zenon DEF Compare
<1>3. CASE pin = "right"
  BY <1>3, Zenon DEF Compare
<1>4. QED
  BY <1>1, <1>2, <1>3

\* A request with a session id is served from it, or goes on to the PIN.
LEMMA UseMoves ==
    ASSUME NEW h \in Handler, UseSession(h)
    PROVE  Step(h, "idle") \/ (handler[h].pc = "session" /\ Step(h, "gate"))
BY DEF UseSession

\* Requests can be counted.
LEMMA GuessesCounted ==
    ASSUME NEW S \in SUBSET Handler
    PROVE  /\ IsFiniteSet(S)
           /\ Cardinality(S) \in Nat /\ Cardinality(Handler) \in Nat
           /\ Cardinality(S) <= Cardinality(Handler)
BY PinGateAssumption, FS_Subset, FS_CardinalityType

\* The bound on guesses covers the attempts and the requests under way.
LEMMA LimitPositive == Limit \in Nat /\ Limit >= MaxAttempts - 1 /\ Limit >= Cardinality(Handler)
<1>1. Cardinality(Handler) \in Nat
  BY GuessesCounted
<1>2. QED
  BY <1>1, PinGateAssumption DEF Limit

-----------------------------------------------------------------------------
(* Guesses *)

\* A step that lets no request of a counted client past the check, and counts
\* nothing, keeps the bound.
LEMMA GuessKept ==
    ASSUME IndInv,
           \A c \in DOMAIN attempts' : /\ c \in DOMAIN attempts
                                       /\ attempts'[c].count = attempts[c].count
                                       /\ Guessing(c)' \subseteq Guessing(c)
    PROVE  GuessInv'
<1> SUFFICES ASSUME NEW c \in DOMAIN attempts'
             PROVE  attempts'[c].count + Cardinality(Guessing(c)') <= Limit
  BY DEF GuessInv, Limit
<1>1. /\ Guessing(c) \in SUBSET Handler /\ Guessing(c)' \in SUBSET Guessing(c)
      /\ c \in DOMAIN attempts /\ attempts'[c].count = attempts[c].count
  BY DEF Guessing
<1>2. /\ Cardinality(Guessing(c)') <= Cardinality(Guessing(c))
      /\ Cardinality(Guessing(c)) \in Nat /\ Cardinality(Guessing(c)') \in Nat
  <2>1. IsFiniteSet(Guessing(c)) /\ Cardinality(Guessing(c)) \in Nat
    BY <1>1, GuessesCounted
  <2>2. Guessing(c)' \in SUBSET Handler
    BY <1>1
  <2>3. Cardinality(Guessing(c)') \in Nat
    BY <2>2, GuessesCounted
  <2>4. QED
    BY <1>1, <2>1, <2>3, FS_Subset
<1>3. attempts[c].count + Cardinality(Guessing(c)) <= Limit /\ attempts[c].count \in Nat
  BY <1>1 DEF IndInv, GuessInv, TypeOK
<1>4. QED
  BY <1>1, <1>2, <1>3, LimitPositive

\* No request enters or changes client: the same requests, or fewer, may guess.
LEMMA FewerGuess ==
    ASSUME NEW c,
           \A h \in Handler :
              handler'[h].pc \in {"compare", "record"} =>
                 handler[h].pc \in {"compare", "record"} /\ handler'[h].client = handler[h].client
    PROVE  Guessing(c)' \subseteq Guessing(c)
BY DEF Guessing

\* The check lets a request past only when its client has attempts left, or
\* forgets the expired count.
LEMMA CheckKeepsBound ==
    ASSUME IndInv, NEW h \in Handler, CheckBlocked(h)
    PROVE  GuessInv'
<1> DEFINE c == handler[h].client
<1>1. handler[h].pc = "gate" /\ c \in Client
  BY DEF CheckBlocked, IndInv, RequestInv
<1>2. CASE ~server.pin \/ IsBlocked(c)
  <2>1. PICK pc \in {"create", "idle"} : Step(h, pc)
    <3>1. CASE ~server.pin
      BY <3>1 DEF CheckBlocked, Passed
    <3>2. CASE server.pin /\ IsBlocked(c)
      BY <3>2 DEF CheckBlocked
    <3>3. QED
      BY <1>2, <3>1, <3>2
  <2>2. \A g \in Handler : handler'[g].client = handler[g].client
                           /\ (g # h => handler'[g] = handler[g])
    BY <2>1, StepMoves DEF IndInv, Pc
  <2>3. handler'[h].pc = pc
    BY <2>1, StepMoves DEF IndInv, Pc
  <2>4. attempts' = attempts
    BY <1>2 DEF CheckBlocked, IsBlocked, Blocked
  <2>5. \A d : Guessing(d)' \subseteq Guessing(d)
    BY <2>2, <2>3, FewerGuess
  <2>6. QED
    BY <2>4, <2>5, GuessKept
<1>3. CASE server.pin /\ ~IsBlocked(c)
  <2>1. /\ handler'[h].pc = "compare"
        /\ \A g \in Handler : handler'[g].client = handler[g].client
                              /\ (g # h => handler'[g] = handler[g])
    BY <1>3, StepMoves DEF IndInv, Pc, CheckBlocked
  <2>2. attempts' = IF Counted(c) /\ Expired(c) THEN Without(attempts, c) ELSE attempts
    BY <1>3 DEF CheckBlocked
  <2> HIDE DEF c
  <2>3. \A d \in DOMAIN attempts' : d \in DOMAIN attempts /\ attempts'[d] = attempts[d]
    <3>1. CASE attempts' = attempts
      BY <3>1
    <3>2. CASE attempts' = Without(attempts, c)
      <4>1. DOMAIN attempts' = DOMAIN attempts \ {c}
        BY <3>2, WithoutUpdates, Zenon
      <4>2. \A d \in DOMAIN attempts : d # c => attempts'[d] = attempts[d]
        BY <3>2, WithoutUpdates, Zenon
      <4>3. QED
        BY <4>1, <4>2
    <3>3. QED
      BY <2>2, <3>1, <3>2
  <2>4. c \in DOMAIN attempts' => attempts[c].count < MaxAttempts
    <3>1. CASE Counted(c) /\ Expired(c)
      BY <2>2, <3>1, WithoutUpdates
    <3>2. CASE ~(Counted(c) /\ Expired(c))
      <4>1. ~Counted(c)
        BY <1>3, <3>2 DEF IsBlocked, Blocked
      <4>2. QED
        BY <2>3, <4>1, PinGateAssumption DEF Counted, IndInv, TypeOK
    <3>3. QED
      BY <3>1, <3>2
  <2>5. ASSUME NEW d \in DOMAIN attempts'
        PROVE  attempts'[d].count + Cardinality(Guessing(d)') <= Limit
    <3>1. Guessing(d) \in SUBSET Handler /\ Guessing(d)' \in SUBSET Handler
      BY DEF Guessing
    <3>2. /\ Cardinality(Guessing(d)) \in Nat /\ Cardinality(Guessing(d)') \in Nat
          /\ IsFiniteSet(Guessing(d))
          /\ Cardinality(Handler) \in Nat /\ Cardinality(Guessing(d)') <= Cardinality(Handler)
      BY <3>1, GuessesCounted
    <3>3. attempts'[d].count = attempts[d].count /\ attempts[d].count \in Nat
      BY <2>3 DEF IndInv, TypeOK
    <3>4. CASE d = c
      BY <2>4, <3>2, <3>3, <3>4, PinGateAssumption DEF Limit
    <3>5. CASE d # c
      <4>1. Guessing(d)' \in SUBSET Guessing(d)
        BY <2>1, <3>5 DEF Guessing, c
      <4>2. Cardinality(Guessing(d)') <= Cardinality(Guessing(d))
        BY <3>2, <4>1, FS_Subset
      <4>3. attempts[d].count + Cardinality(Guessing(d)) <= Limit
        BY <2>3 DEF IndInv, GuessInv
      <4>4. QED
        BY <3>2, <3>3, <4>2, <4>3, LimitPositive
    <3>6. QED
      BY <3>4, <3>5
  <2>6. QED
    BY <2>5 DEF GuessInv, Limit
<1>4. QED
  BY <1>2, <1>3

\* Counting a failure takes the request out of those that may still guess.
LEMMA RecordKeepsBound ==
    ASSUME IndInv, NEW h \in Handler, Record(h)
    PROVE  /\ GuessInv'
           /\ \A c \in DOMAIN attempts' : attempts'[c].count \in 1..Limit
<1>1. PICK c \in Client : c = handler[h].client
  BY DEF Record, IndInv, RequestInv
<1>2. /\ handler[h].pc = "record" /\ handler'[h].pc = "idle"
      /\ \A g \in Handler : handler'[g].client = handler[g].client
                            /\ (g # h => handler'[g] = handler[g])
  BY StepMoves DEF IndInv, Pc, Record
<1> DEFINE r == [count |-> IF c \in DOMAIN attempts THEN attempts[c].count + 1 ELSE 1,
                age |-> 0]
<1>3. attempts' = With(attempts, c, r)
  BY <1>1 DEF Record, RecordAttempt
<1>4. /\ DOMAIN attempts' = DOMAIN attempts \cup {c}
      /\ attempts'[c].count = IF c \in DOMAIN attempts THEN attempts[c].count + 1 ELSE 1
      /\ \A d \in DOMAIN attempts : d # c => attempts'[d] = attempts[d]
  <2> HIDE DEF r
  <2>1. /\ DOMAIN With(attempts, c, r) = DOMAIN attempts \cup {c}
        /\ With(attempts, c, r)[c] = r
    BY DEF With
  <2>2. \A d \in DOMAIN attempts : d # c => With(attempts, c, r)[d] = attempts[d]
    BY WithUpdates
  <2>3. r.count = IF c \in DOMAIN attempts THEN attempts[c].count + 1 ELSE 1
    BY DEF r
  <2>4. QED
    BY <1>3, <2>1, <2>2, <2>3
<1>5. h \in Guessing(c) /\ Guessing(c)' = Guessing(c) \ {h}
  BY <1>1, <1>2 DEF Guessing
<1>6. ASSUME NEW d \in DOMAIN attempts'
      PROVE  /\ attempts'[d].count + Cardinality(Guessing(d)') <= Limit
             /\ attempts'[d].count \in Nat \ {0} /\ Cardinality(Guessing(d)') \in Nat
  <2>1. Guessing(d) \in SUBSET Handler /\ Guessing(d)' \in SUBSET Handler
    BY DEF Guessing
  <2>2. /\ Cardinality(Guessing(d)) \in Nat /\ Cardinality(Guessing(d)') \in Nat
        /\ Cardinality(Handler) \in Nat /\ Cardinality(Guessing(d)) <= Cardinality(Handler)
        /\ IsFiniteSet(Guessing(d))
    BY <2>1, GuessesCounted
  <2>3. d \in DOMAIN attempts => /\ attempts[d].count + Cardinality(Guessing(d)) <= Limit
                                 /\ attempts[d].count \in Nat \ {0}
    BY LimitPositive DEF IndInv, GuessInv, TypeOK
  <2>4. CASE d = c
    <3>1. Cardinality(Guessing(c)') = Cardinality(Guessing(c)) - 1
      BY <1>5, <2>2, <2>4, FS_RemoveElement
    <3>2. QED
      BY <1>4, <2>2, <2>3, <2>4, <3>1, LimitPositive
  <2>5. CASE d # c
    <3>1. Guessing(d)' = Guessing(d)
      BY <1>1, <1>2, <2>5 DEF Guessing
    <3>2. d \in DOMAIN attempts /\ attempts'[d] = attempts[d]
      BY <1>4, <2>5
    <3>3. QED
      BY <2>2, <2>3, <3>1, <3>2
  <2>6. QED
    BY <2>4, <2>5
<1>7. GuessInv'
  BY <1>6 DEF GuessInv, Limit
<1>8. \A c_1 \in DOMAIN attempts' : attempts'[c_1].count \in 1..Limit
  BY <1>6, LimitPositive
<1>9. QED
  BY <1>7, <1>8

\* A step that only moves requests keeps what is kept of the limiter.
LEMMA GuessStep == IndInv /\ [Next]_vars => GuessInv'
<1> SUFFICES ASSUME IndInv, [Next]_vars
             PROVE  GuessInv'
  OBVIOUS
<1>1. CASE Tick
  <2>1. /\ DOMAIN attempts' = DOMAIN attempts /\ handler' = handler
        /\ \A c \in DOMAIN attempts : attempts'[c].count = attempts[c].count
    BY <1>1 DEF Tick, IndInv, TypeOK
  <2>2. \A c : Guessing(c)' = Guessing(c)
    BY <2>1 DEF Guessing
  <2>3. QED
    BY <2>1, <2>2, GuessKept
<1>2. CASE CleanupExpired
  <2>1. /\ \A c \in DOMAIN attempts' : c \in DOMAIN attempts /\ attempts'[c] = attempts[c]
        /\ handler' = handler
    BY <1>2 DEF CleanupExpired, Restrict
  <2>2. \A c : Guessing(c)' = Guessing(c)
    BY <2>1 DEF Guessing
  <2>3. QED
    BY <2>1, <2>2, GuessKept
<1>3. ASSUME NEW h \in Handler, NEW c \in Client, NEW pc \in {"gate", "session", "file"},
             NEW s \in SessionId \cup {NoSession}, Request(h, c, pc, s)
      PROVE  GuessInv'
  <2>1. /\ attempts' = attempts /\ handler'[h].pc = pc
        /\ \A g \in Handler : g # h => handler'[g] = handler[g]
    BY <1>3 DEF Request, limiterVars, IndInv, TypeOK
  <2>2. \A d : Guessing(d)' \subseteq Guessing(d)
    BY <2>1, FewerGuess
  <2>3. QED
    BY <2>1, <2>2, GuessKept
<1>4. ASSUME NEW h \in Handler, NEW pin \in {"missing", "wrong", "right"}, Compare(h, pin)
      PROVE  GuessInv'
  <2>1. PICK pc \in Pc : Step(h, pc)
    BY <1>4, CompareMoves DEF Pc
  <2>2. /\ handler[h].pc = "compare" /\ attempts' = attempts
        /\ \A g \in Handler : handler'[g].client = handler[g].client
                              /\ (g # h => handler'[g] = handler[g])
    BY <1>4, <2>1, StepMoves DEF Compare, limiterVars, IndInv
  <2>3. \A d : Guessing(d)' \subseteq Guessing(d)
    BY <2>2, FewerGuess
  <2>4. QED
    BY <2>2, <2>3, GuessKept
<1>5. ASSUME NEW h \in Handler, Clear(h)
      PROVE  GuessInv'
  <2>1. PICK pc \in {"create", "idle"} : Step(h, pc)
    BY <1>5 DEF Clear, Passed
  <2>2. /\ handler'[h].pc = pc
        /\ \A g \in Handler : g # h => handler'[g] = handler[g]
    BY <2>1, StepMoves DEF IndInv, Pc
  <2>3. \A d \in DOMAIN attempts' : d \in DOMAIN attempts /\ attempts'[d] = attempts[d]
    BY <1>5 DEF Clear, Without, Restrict
  <2>4. \A d : Guessing(d)' \subseteq Guessing(d)
    BY <2>2, FewerGuess
  <2>5. QED
    BY <2>3, <2>4, GuessKept
<1>6. ASSUME NEW h \in Handler, createSession(h) \/ UseSession(h)
      PROVE  GuessInv'
  <2>1. PICK pc \in {"gate", "idle"} : Step(h, pc)
    BY <1>6, UseMoves DEF createSession
  <2>2. /\ handler'[h].pc = pc
        /\ \A g \in Handler : g # h => handler'[g] = handler[g]
    BY <2>1, StepMoves DEF IndInv, Pc
  <2>3. attempts' = attempts
    BY <1>6 DEF createSession, UseSession, limiterVars
  <2>4. \A d : Guessing(d)' \subseteq Guessing(d)
    BY <2>2, FewerGuess
  <2>5. QED
    BY <2>3, <2>4, GuessKept
<1>7. CASE UNCHANGED vars
  BY <1>7 DEF vars, limiterVars, IndInv, GuessInv, Guessing, Limit
<1>8. QED
  BY <1>1, <1>2, <1>3, <1>4, <1>5, <1>6, <1>7, CheckKeepsBound, RecordKeepsBound
     DEF Next, Handle

-----------------------------------------------------------------------------
(* Types *)

HandlerType == [Handler -> [pc : Pc, client : Client \cup {"none"},
                            sid : SessionId \cup {NoSession}]]

\* Every step keeps the types.
LEMMA TypeStep == IndInv /\ [Next]_vars => TypeOK'
<1> SUFFICES ASSUME IndInv, [Next]_vars
             PROVE  TypeOK'
  OBVIOUS
<1>0. TypeOK /\ handler \in HandlerType
  BY DEF IndInv, TypeOK, HandlerType, Pc
<1>1. CASE Tick
  <2>1. ASSUME NEW c \in DOMAIN attempts
        PROVE  [attempts[c] EXCEPT !.age = IF @ <= Block THEN @ + 1 ELSE @]
                  \in [count : 1..Limit, age : Age]
    BY <1>0, PinGateAssumption DEF TypeOK, Age
  <2>2. QED
    BY <1>0, <1>1, <2>1 DEF Tick, TypeOK, sessionVars, Limit
<1>2. CASE CleanupExpired
  BY <1>0, <1>2 DEF CleanupExpired, Restrict, TypeOK, sessionVars, Limit
<1>3. ASSUME NEW h \in Handler, NEW c \in Client, NEW pc \in {"gate", "session", "file"},
             NEW s \in SessionId \cup {NoSession}, Request(h, c, pc, s)
      PROVE  TypeOK'
  BY <1>0, <1>3 DEF Request, TypeOK, limiterVars, sessionVars, Limit
<1>4. ASSUME NEW h \in Handler, NEW pin \in {"missing", "wrong", "right"}, Compare(h, pin)
      PROVE  TypeOK'
  <2>1. handler[h].client \in Client
    BY <1>4 DEF Compare, IndInv, RequestInv
  <2>2. handler' \in HandlerType
    BY <1>0, <1>4, CompareMoves, StepMoves DEF Pc, HandlerType
  <2>3. QED
    BY <1>0, <1>4, <2>1, <2>2 DEF Compare, TypeOK, HandlerType, Pc, limiterVars, sessionVars, Limit
<1>5. ASSUME NEW h \in Handler, Clear(h)
      PROVE  TypeOK'
  <2>1. handler[h].client \in Client
    BY <1>5 DEF Clear, IndInv, RequestInv
  <2>2. handler' \in HandlerType
    BY <1>0, <1>5, StepMoves DEF Pc, HandlerType, Clear, Passed
  <2>3. QED
    BY <1>0, <1>5, <2>1, <2>2 DEF Clear, Without, Restrict, TypeOK, HandlerType, Pc, sessionVars, Limit
<1>6. ASSUME NEW h \in Handler, UseSession(h)
      PROVE  TypeOK'
  <2>1. handler[h].client \in Client
    BY <1>6 DEF UseSession, IndInv, RequestInv
  <2>2. handler' \in HandlerType
    BY <1>0, <1>6, UseMoves, StepMoves DEF Pc, HandlerType
  <2>3. QED
    BY <1>0, <1>6, <2>1, <2>2 DEF UseSession, TypeOK, HandlerType, Pc, limiterVars, sessionVars, Limit
<1>7. ASSUME NEW h \in Handler, createSession(h)
      PROVE  TypeOK'
  <2>1. handler[h].client \in Client
    BY <1>7 DEF createSession, IndInv, RequestInv
  <2>2. handler' \in HandlerType
    BY <1>0, <1>7, StepMoves DEF Pc, HandlerType, createSession
  <2>3. /\ DOMAIN sessions' \subseteq SessionId /\ \A s \in DOMAIN sessions' : sessions'[s] \in Client
        /\ DOMAIN sessionByIP' \subseteq Client /\ created' \in 0..MaxSessions
    BY <1>0, <1>7, <2>1, PinGateAssumption
       DEF createSession, OldDropped, With, Without, Restrict, TypeOK, SessionId
  <2>4. QED
    BY <1>0, <1>7, <2>2, <2>3 DEF createSession, TypeOK, HandlerType, Pc, limiterVars, Limit
<1>8. ASSUME NEW h \in Handler, Record(h)
      PROVE  TypeOK'
  <2>1. PICK c \in Client : c = handler[h].client
    BY <1>8 DEF Record, IndInv, RequestInv
  <2>2. handler' \in HandlerType
    BY <1>0, <1>8, StepMoves DEF Pc, HandlerType, Record
  <2>3. /\ DOMAIN attempts' = DOMAIN attempts \cup {c}
        /\ \A d \in DOMAIN attempts : d # c => attempts'[d] = attempts[d]
    BY <1>8, <2>1 DEF Record, RecordAttempt, With
  <2>4. attempts'[c] = [count |-> attempts'[c].count, age |-> 0]
    BY <1>8, <2>1 DEF Record, RecordAttempt, With
  <2>5. \A d \in DOMAIN attempts' : attempts'[d].count \in 1..Limit
    BY <1>8, RecordKeepsBound
  <2>6. attempts'[c] \in [count : 1..Limit, age : Age]
    BY <2>3, <2>4, <2>5, PinGateAssumption DEF Age
  <2>7. \A d \in DOMAIN attempts' : attempts'[d] \in [count : 1..Limit, age : Age]
    BY <1>0, <2>3, <2>6 DEF TypeOK
  <2>8. QED
    BY <1>0, <1>8, <2>2, <2>3, <2>7 DEF Record, TypeOK, HandlerType, Pc, sessionVars, Limit
<1>9. ASSUME NEW h \in Handler, CheckBlocked(h)
      PROVE  TypeOK'
  <2>1. handler[h].client \in Client
    BY <1>9 DEF CheckBlocked, IndInv, RequestInv
  <2>2. handler' \in HandlerType
    BY <1>0, <1>9, StepMoves DEF Pc, HandlerType, CheckBlocked, Passed
  <2>3. \A d \in DOMAIN attempts' : d \in DOMAIN attempts /\ attempts'[d] = attempts[d]
    BY <1>9 DEF CheckBlocked, Without, Restrict
  <2>4. served' \subseteq Client /\ authed' \subseteq Client
    BY <1>0, <1>9, <2>1 DEF CheckBlocked, TypeOK
  <2>5. QED
    BY <1>0, <1>9, <2>2, <2>3, <2>4 DEF CheckBlocked, TypeOK, HandlerType, Pc, sessionVars, Limit
<1>10. CASE UNCHANGED vars
  BY <1>0, <1>10 DEF vars, limiterVars, sessionVars, TypeOK, Limit
<1>11. QED
  BY <1>1, <1>2, <1>3, <1>4, <1>5, <1>6, <1>7, <1>8, <1>9, <1>10 DEF Next, Handle

-----------------------------------------------------------------------------
(* Requests, sessions and who was let in *)

\* A request in progress keeps its client.
LEMMA RequestStep == IndInv /\ [Next]_vars => RequestInv'
<1> SUFFICES ASSUME IndInv, [Next]_vars
             PROVE  RequestInv'
  OBVIOUS
<1>1. CASE Tick \/ CleanupExpired \/ UNCHANGED vars
  BY <1>1 DEF Tick, CleanupExpired, vars, IndInv, RequestInv
<1>2. ASSUME NEW h \in Handler, NEW c \in Client, NEW pc \in {"gate", "session", "file"},
             NEW s \in SessionId \cup {NoSession}, Request(h, c, pc, s)
      PROVE  RequestInv'
  BY <1>2 DEF Request, IndInv, TypeOK, RequestInv
<1>3. ASSUME NEW h \in Handler, Handle(h)
      PROVE  RequestInv'
  <2>1. PICK pc \in Pc : Step(h, pc)
    <3>1. ASSUME NEW pin \in {"missing", "wrong", "right"}, Compare(h, pin)
          PROVE  \E pc \in Pc : Step(h, pc)
      BY <3>1, CompareMoves DEF Pc
    <3>2. CASE CheckBlocked(h)
      BY <3>2 DEF CheckBlocked, Passed, Pc
    <3>3. CASE UseSession(h)
      BY <3>3, UseMoves DEF Pc
    <3>4. CASE Record(h) \/ Clear(h) \/ createSession(h)
      BY <3>4 DEF Record, Clear, createSession, Passed, Pc
    <3>5. QED
      BY <1>3, <3>1, <3>2, <3>3, <3>4 DEF Handle
  <2>2. handler[h].pc # "idle"
    BY <1>3 DEF Handle, CheckBlocked, Record, Clear, createSession, UseSession, Compare
  <2>3. QED
    BY <2>1, <2>2, StepMoves DEF IndInv, RequestInv
<1>4. QED
  BY <1>1, <1>2, <1>3 DEF Next

\* Only a client that gave the right PIN is served.
LEMMA AuthStep == IndInv /\ [Next]_vars => AuthInv'
<1> SUFFICES ASSUME IndInv, [Next]_vars
             PROVE  AuthInv'
  OBVIOUS
<1>1. CASE Tick \/ CleanupExpired \/ UNCHANGED vars
  BY <1>1 DEF Tick, CleanupExpired, vars, IndInv, AuthInv
<1>2. ASSUME NEW h \in Handler, NEW c \in Client, NEW pc \in {"gate", "session", "file"},
             NEW s \in SessionId \cup {NoSession}, Request(h, c, pc, s)
      PROVE  AuthInv'
  BY <1>2 DEF Request, IndInv, TypeOK, AuthInv
<1>3. ASSUME NEW h \in Handler, NEW pin \in {"missing", "wrong", "right"}, Compare(h, pin)
      PROVE  AuthInv'
  <2>1. /\ authed' = IF pin = "right" THEN authed \cup {handler[h].client} ELSE authed
        /\ served' = served
    BY <1>3 DEF Compare
  <2>2. /\ \A g \in Handler : handler'[g].client = handler[g].client
                              /\ (g # h => handler'[g] = handler[g])
        /\ handler'[h].pc \in {"clear", "create"} => pin = "right"
    BY <1>3, CompareMoves, StepMoves DEF IndInv, Pc
  <2>3. QED
    BY <2>1, <2>2 DEF IndInv, AuthInv
<1>4. ASSUME NEW h \in Handler, CheckBlocked(h)
      PROVE  AuthInv'
  <2>1. CASE server.pin
    <3>1. PICK pc \in {"idle", "compare"} : Step(h, pc)
      BY <1>4, <2>1 DEF CheckBlocked
    <3>2. UNCHANGED <<served, authed>>
      BY <1>4, <2>1 DEF CheckBlocked
    <3>3. QED
      BY <3>1, <3>2, StepMoves DEF IndInv, AuthInv, Pc
  <2>2. CASE ~server.pin
    <3>1. PICK pc \in {"idle", "create"} : Step(h, pc)
      BY <1>4, <2>2 DEF CheckBlocked, Passed
    <3>2. served' = served \cup {handler[h].client} /\ authed' = authed \cup {handler[h].client}
      BY <1>4, <2>2 DEF CheckBlocked
    <3>3. QED
      BY <3>1, <3>2, StepMoves DEF IndInv, AuthInv, Pc
  <2>3. QED
    BY <2>1, <2>2
<1>5. ASSUME NEW h \in Handler, Record(h) \/ createSession(h)
      PROVE  AuthInv'
  <2>1. Step(h, "idle") /\ UNCHANGED <<served, authed>>
    BY <1>5 DEF Record, createSession
  <2>2. QED
    BY <2>1, StepMoves DEF IndInv, AuthInv, Pc
<1>6. ASSUME NEW h \in Handler, Clear(h)
      PROVE  AuthInv'
  <2>1. PICK pc \in {"idle", "create"} : Step(h, pc)
    BY <1>6 DEF Clear, Passed
  <2>2. /\ handler[h].pc = "clear"
        /\ served' = served \cup {handler[h].client} /\ authed' = authed
    BY <1>6 DEF Clear
  <2>3. QED
    BY <2>1, <2>2, StepMoves DEF IndInv, AuthInv, Pc
<1>7. ASSUME NEW h \in Handler, UseSession(h)
      PROVE  AuthInv'
  <2>1. PICK pc \in {"idle", "gate"} : Step(h, pc)
    BY <1>7, UseMoves
  <2>2. \/ served' = served
        \/ /\ validSession(handler[h].sid, handler[h].client)
           /\ served' = served \cup {handler[h].client}
    BY <1>7 DEF UseSession
  <2>3. validSession(handler[h].sid, handler[h].client) => handler[h].client \in authed
    BY DEF validSession, IndInv, SessionInv
  <2>4. authed' = authed
    BY <1>7 DEF UseSession
  <2>5. QED
    BY <2>1, <2>2, <2>3, <2>4, StepMoves DEF IndInv, AuthInv, Pc
<1>8. QED
  BY <1>1, <1>2, <1>3, <1>4, <1>5, <1>6, <1>7 DEF Next, Handle

\* A new session takes a fresh id and the place of its client's earlier one.
LEMMA CreateKeepsSessions ==
    ASSUME IndInv, NEW h \in Handler, createSession(h)
    PROVE  SessionInv'
<1>1. PICK c \in authed : c = handler[h].client
  BY DEF createSession, IndInv, AuthInv
<1> DEFINE new == created + 1
<1>2. /\ created \in Nat /\ created' = new /\ authed' = authed
      /\ sessions' = With(OldDropped(c), new, c)
      /\ sessionByIP' = With(sessionByIP, c, new)
  BY <1>1, PinGateAssumption DEF createSession, IndInv, TypeOK
<1>3. new \notin DOMAIN sessions
  BY <1>2 DEF IndInv, SessionInv
<1>4. /\ DOMAIN OldDropped(c) \subseteq DOMAIN sessions
      /\ \A s \in DOMAIN OldDropped(c) : OldDropped(c)[s] = sessions[s] /\ sessions[s] # c
      /\ \A s \in DOMAIN sessions : sessions[s] # c => s \in DOMAIN OldDropped(c)
  BY DEF OldDropped, Without, Restrict, IndInv, SessionInv
<1>5. /\ DOMAIN sessions' = DOMAIN OldDropped(c) \cup {new}
      /\ sessions'[new] = c
      /\ \A s \in DOMAIN OldDropped(c) : s # new => sessions'[s] = OldDropped(c)[s]
  BY <1>2 DEF With
<1>6. /\ DOMAIN sessionByIP' = DOMAIN sessionByIP \cup {c}
      /\ sessionByIP'[c] = new
      /\ \A d \in DOMAIN sessionByIP : d # c => sessionByIP'[d] = sessionByIP[d]
  BY <1>2 DEF With
<1>7. DOMAIN sessions' \subseteq 1..created'
  BY <1>2, <1>4, <1>5 DEF IndInv, SessionInv
<1> HIDE DEF new
<1>8. ASSUME NEW d \in DOMAIN sessionByIP'
      PROVE  sessionByIP'[d] \in DOMAIN sessions' /\ sessions'[sessionByIP'[d]] = d
  <2>1. CASE d = c
    BY <1>5, <1>6, <2>1
  <2>2. CASE d # c
    <3>1. /\ sessionByIP'[d] = sessionByIP[d]
          /\ sessionByIP[d] \in DOMAIN sessions /\ sessions[sessionByIP[d]] = d
      BY <1>6, <2>2 DEF IndInv, SessionInv
    <3>2. QED
      BY <1>3, <1>4, <1>5, <2>2, <3>1
  <2>3. QED
    BY <2>1, <2>2
<1>9. ASSUME NEW s \in DOMAIN sessions'
      PROVE  /\ sessions'[s] \in DOMAIN sessionByIP' \cap authed'
             /\ sessionByIP'[sessions'[s]] = s
  <2>1. CASE s = new
    BY <1>2, <1>5, <1>6, <2>1
  <2>2. CASE s # new
    <3>1. /\ s \in DOMAIN sessions /\ sessions'[s] = sessions[s] /\ sessions[s] # c
      BY <1>4, <1>5, <2>2
    <3>2. QED
      BY <1>2, <1>6, <3>1 DEF IndInv, SessionInv
  <2>3. QED
    BY <2>1, <2>2
<1>10. QED
  BY <1>7, <1>8, <1>9 DEF SessionInv

\* Sessions and the index by address stay inverse to each other.
LEMMA SessionStep == IndInv /\ [Next]_vars => SessionInv'
<1> SUFFICES ASSUME IndInv, [Next]_vars
             PROVE  SessionInv'
  OBVIOUS
<1>1. ASSUME UNCHANGED sessionVars, authed \subseteq authed'
      PROVE  SessionInv'
  BY <1>1 DEF sessionVars, IndInv, SessionInv
<1>2. CASE Tick \/ CleanupExpired \/ UNCHANGED vars
  BY <1>1, <1>2 DEF Tick, CleanupExpired, vars
<1>3. ASSUME NEW h \in Handler, NEW c \in Client, NEW pc \in {"gate", "session", "file"},
             NEW s \in SessionId \cup {NoSession}, Request(h, c, pc, s)
      PROVE  SessionInv'
  BY <1>1, <1>3 DEF Request
<1>4. ASSUME NEW h \in Handler, NEW pin \in {"missing", "wrong", "right"}, Compare(h, pin)
      PROVE  SessionInv'
  BY <1>1, <1>4 DEF Compare
<1>5. ASSUME NEW h \in Handler, CheckBlocked(h) \/ Record(h) \/ Clear(h) \/ UseSession(h)
      PROVE  SessionInv'
  BY <1>1, <1>5 DEF CheckBlocked, Record, Clear, UseSession
<1>6. QED
  BY <1>2, <1>3, <1>4, <1>5, CreateKeepsSessions DEF Next, Handle

-----------------------------------------------------------------------------
\* The gate starts in the invariant.
LEMMA InitInv == Init => IndInv
<1> SUFFICES ASSUME Init
             PROVE  IndInv
  OBVIOUS
<1>1. TypeOK
  BY PinGateAssumption, LimitPositive DEF Init, TypeOK, Server, Quiet, NoSession
<1>2. RequestInv /\ AuthInv
  BY DEF Init, RequestInv, AuthInv, Quiet
<1>3. GuessInv /\ SessionInv
  BY DEF Init, GuessInv, SessionInv
<1>4. QED
  BY <1>1, <1>2, <1>3 DEF IndInv

\* The strengthening behind the theorems below holds in every reachable state.
THEOREM Invariance == Spec => []IndInv
<1>1. IndInv /\ [Next]_vars => IndInv'
  BY TypeStep, RequestStep, GuessStep, SessionStep, AuthStep DEF IndInv
<1>2. QED
  BY <1>1, InitInv, PTL DEF Spec

\* However many requests are under way between IsBlocked and RecordAttempt
\* (recv.go and rvsend.go validatePIN, ratelimit.go), a client's wrong PINs stay
\* below MaxPINAttempts plus the number of concurrent requests.
THEOREM GuessesStayBounded == Spec => []GuessesBounded
<1>1. IndInv => GuessesBounded
  <2> SUFFICES ASSUME IndInv, NEW c \in DOMAIN attempts
               PROVE  attempts[c].count
                        + Cardinality({h \in Handler : /\ handler[h].pc = "record"
                                                       /\ handler[h].client = c}) <= Limit
    BY DEF GuessesBounded
  <2> DEFINE R == {h \in Handler : handler[h].pc = "record" /\ handler[h].client = c}
  <2>1. R \in SUBSET Guessing(c) /\ Guessing(c) \in SUBSET Handler /\ R \in SUBSET Handler
    BY DEF Guessing
  <2> HIDE DEF R
  <2>2. IsFiniteSet(Guessing(c)) /\ Cardinality(Guessing(c)) \in Nat /\ Cardinality(R) \in Nat
    BY <2>1, GuessesCounted
  <2>3. Cardinality(R) <= Cardinality(Guessing(c))
    BY <2>1, <2>2, FS_Subset
  <2>4. attempts[c].count + Cardinality(Guessing(c)) <= Limit /\ attempts[c].count \in Nat
    BY DEF IndInv, GuessInv, TypeOK
  <2>5. attempts[c].count + Cardinality(R) <= Limit
    BY <2>2, <2>3, <2>4, LimitPositive
  <2>6. QED
    BY <2>5 DEF R
<1>2. QED
  BY <1>1, Invariance, PTL

\* A session is good for its own client only, and only for one that sent the
\* right PIN, whatever requests of whichever clients are under way
\* (rvsend.go createSession, validSession, predownloadHandler, downloadHandler).
THEOREM SessionsStayOwned == Spec => []SessionsOwned
<1>1. IndInv => SessionsOwned
  BY DEF IndInv, SessionInv, AuthInv, SessionsOwned, SessionsAgree, ServedAuthed, validSession
<1>2. QED
  BY <1>1, Invariance, PTL

\* A block (ratelimit.go RecordAttempt) ends when its time has passed or when a
\* request of the same client that gave the right PIN resets the counter: no
\* clean-up, other client or further failure ends it.
THEOREM BlocksHold == Spec => BlockHolds
<1> DEFINE Ends(c) ==
              \/ c \in DOMAIN attempts' /\ Expired(c)'
              \/ \E h \in Handler : handler[h].pc = "clear" /\ handler[h].client = c
                                    /\ handler'[h].pc # "clear"
<1>1. ASSUME IndInv, [Next]_vars, NEW c \in Client, Blocked(c), ~Blocked(c)'
      PROVE  Ends(c)
  <2> SUFFICES ASSUME ~Ends(c)
               PROVE  FALSE
    OBVIOUS
  <2>0. /\ c \in DOMAIN attempts /\ attempts[c].count >= MaxAttempts
        /\ ~(attempts[c].age > Block)
        /\ attempts[c].count \in Nat /\ attempts[c].age \in Nat
    BY <1>1, LimitPositive, PinGateAssumption DEF Blocked, Counted, Expired, IndInv, TypeOK, Age
  <2>1. ASSUME c \in DOMAIN attempts', attempts'[c].count >= MaxAttempts
        PROVE  FALSE
    BY <1>1, <2>1 DEF Blocked, Counted, Expired
  <2>2. ASSUME c \in DOMAIN attempts', attempts'[c] = attempts[c]
        PROVE  FALSE
    BY <2>0, <2>1, <2>2
  <2>3. CASE Tick
    <3>1. c \in DOMAIN attempts' /\ attempts'[c].count = attempts[c].count
      BY <1>1, <2>0, <2>3 DEF Tick, IndInv, TypeOK
    <3>2. QED
      BY <2>0, <2>1, <3>1
  <2>4. CASE CleanupExpired
    BY <2>0, <2>2, <2>4 DEF CleanupExpired, Cleaned, Expired, Restrict
  <2>5. ASSUME NEW h \in Handler, CheckBlocked(h)
        PROVE  FALSE
    BY <2>0, <2>2, <2>5 DEF CheckBlocked, Without, Restrict, Expired
  <2>6. ASSUME NEW h \in Handler, Record(h)
        PROVE  FALSE
    <3>1. CASE handler[h].client = c
      <4>1. c \in DOMAIN attempts' /\ attempts'[c].count = attempts[c].count + 1
        BY <2>0, <2>6, <3>1 DEF Record, RecordAttempt, With
      <4>2. QED
        BY <2>0, <2>1, <4>1, PinGateAssumption
    <3>2. CASE handler[h].client # c
      BY <2>0, <2>2, <2>6, <3>2 DEF Record, RecordAttempt, With
    <3>3. QED
      BY <3>1, <3>2
  <2>7. ASSUME NEW h \in Handler, Clear(h)
        PROVE  FALSE
    <3>1. CASE handler[h].client = c
      <4>1. handler[h].pc = "clear" /\ Step(h, Passed) /\ Passed \in {"create", "idle"}
        BY <2>7 DEF Clear, Passed
      <4>2. handler'[h].pc # "clear"
        BY <1>1, <4>1, StepMoves DEF IndInv, Pc
      <4>3. QED
        BY <3>1, <4>1, <4>2
    <3>2. CASE handler[h].client # c
      BY <2>0, <2>2, <2>7, <3>2 DEF Clear, Without, Restrict
    <3>3. QED
      BY <3>1, <3>2
  <2>8. ASSUME attempts' = attempts
        PROVE  FALSE
    BY <2>0, <2>2, <2>8
  <2>9. QED
    BY <1>1, <2>3, <2>4, <2>5, <2>6, <2>7, <2>8
       DEF Next, Handle, Compare, createSession, UseSession, Request, vars, limiterVars
<1>2. IndInv /\ [Next]_vars => [\A c \in Client : Blocked(c) /\ ~Blocked(c)' => Ends(c)]_vars
  BY <1>1
<1>3. QED
  BY <1>2, Invariance, PTL DEF Spec, BlockHolds

=============================================================================
