------------------------- MODULE RecvSessionsProofs -------------------------
(***************************************************************************)
(* Proofs about RecvSessions, for every set of sessions, clients, files,   *)
(* handlers and paths and every bound: the inductive invariant with what   *)
(* follows from it, and then that the sessions implement FileDelivery.     *)
(***************************************************************************)
EXTENDS RecvDelivery, FiniteSetTheorems, TLAPS

Running(s) == started[s] \/ life[s] \in {"storing", "stored"}

Ended(s) == life[s] \in {"responding", "open", "lost"} /\ ~started[s]

\* A handler in the middle of a request has a session and one of its files.
LocalsInv ==
    /\ \A u \in Upload :
          upc[u] # "idle" => /\ usess[u] \in Session
                             /\ ufile[u] \in File
                             /\ life[usess[u]] = "open"
    /\ \A u \in Upload :
          upc[u] \in {"idle", "found", "checked", "claimed", "writing"} => uresult[u] = "failed"

\* A file that can still be claimed has an attempt left.
AttemptsInv ==
    \A s \in Session, f \in File :
        status[s][f] \in {"absent", "pending"} => attempts[s][f] < MaxChecksumAttempts

\* A claimed file is in progress, for one handler only.
ClaimInv ==
    /\ \A u \in Upload : HasClaim(u) => status[usess[u]][ufile[u]] = "inProgress"
    /\ \A u, v \in Upload :
          HasClaim(u) /\ HasClaim(v) /\ usess[u] = usess[v] /\ ufile[u] = ufile[v] => u = v

\* Handlers that finished writing but have not yet published the result.
Saved(u) == upc[u] \in {"closing", "finish"} /\ uresult[u] = "finished"
Dirty(u) == upc[u] = "writing" \/ (upc[u] = "closing" /\ uresult[u] # "finished")

\* What a handler's file looks like on disk.
DiskInv ==
    /\ \A u \in Upload : Dirty(u) => SaveAs(u) \in Path /\ disk[SaveAs(u)] = "partial"
    /\ \A u \in Upload : Saved(u) => SaveAs(u) \in Path /\ disk[SaveAs(u)] = "complete"
    /\ \A s \in Session, f \in File :
          status[s][f] = "finished" =>
              target[s][f] \in Path /\ disk[target[s][f]] = "complete"

\* No path is held twice.
PathInv ==
    /\ \A u, v \in Upload :
          (Dirty(u) \/ Saved(u)) /\ (Dirty(v) \/ Saved(v)) /\ SaveAs(u) = SaveAs(v) => u = v
    /\ \A u \in Upload, s \in Session, f \in File :
          (Dirty(u) \/ Saved(u)) /\ status[s][f] = "finished" => SaveAs(u) # target[s][f]
    /\ \A s, t \in Session, f, g \in File :
          /\ status[s][f] = "finished"
          /\ status[t][g] = "finished"
          /\ target[s][f] = target[t][g]
          => s = t /\ f = g

\* Admission is exclusive; only stored sessions are in the map or running.
AdmitInv ==
    /\ \A s, t \in Session :
          /\ life[s] \in {"storing", "stored"}
          /\ life[t] \in {"storing", "stored"}
          => s = t
    /\ \A s \in Session : s \in sessions => life[s] \notin {"unused", "storing"}
    /\ \A s \in Session : started[s] => life[s] \in {"responding", "open", "lost"}
    /\ \A s \in Session : killer[s] # "none" => life[s] = "open"
    /\ \A s \in Session :
          life[s] \in {"unused", "storing", "stored"} =>
             /\ \A f \in File : status[s][f] \in {"absent", "pending"}
    /\ \A s \in Session : life[s] # "unused" => Unfinished(s) # {} \/ life[s] \in {"responding", "open", "lost"}

\* A running session whose counter is zero is being ended by a handler; one
\* that is not running was cancelled or has nothing left to do.
EndInv ==
    /\ \A s \in Session :
          started[s] /\ filesCount[s] = 0 => \E u \in Upload : usess[u] = s /\ upc[u] = "cas"
    /\ \A s \in Session : Ended(s) /\ killer[s] = "none" => Unfinished(s) = {}
    /\ \A u \in Upload : upc[u] = "zero" => ~started[usess[u]]
    /\ \A s \in Session : killer[s] = "zero" => ~started[s]
    /\ \A u \in Upload : upc[u] = "cas" => Unfinished(usess[u]) = {} \/ killer[usess[u]] # "none"

\* While a session is being admitted no other one is active, unless revived.
QuietInv ==
    \A s, t \in Session :
        /\ life[s] \in {"storing", "stored"}
        /\ Active(t)
        => activity[t] = "revived"

IndInv == /\ TypeOK /\ LocalsInv /\ AttemptsInv /\ ClaimInv /\ DiskInv /\ PathInv
          /\ NoPartialLeft /\ AdmitInv /\ CountMatches /\ EndInv /\ QuietInv /\ SingleActive

-----------------------------------------------------------------------------
\* The number of files a client offers is a positive integer.
LEMMA OfferCounted ==
    ASSUME NEW F \in SUBSET File, F # {}
    PROVE  IsFiniteSet(F) /\ Cardinality(F) \in Nat \ {0}
<1>1. IsFiniteSet(F)
  BY SetsAssumption, FS_Subset
<1>2. QED
  BY <1>1, FS_CardinalityType, FS_EmptySet, SMT

\* The types of a handler's locals.
UploadTypeOK ==
    /\ upc \in [Upload -> UploadPc]
    /\ usess \in [Upload -> Session \cup {None}]
    /\ ufile \in [Upload -> File \cup {None}]
    /\ uresult \in [Upload -> {"pending", "finished", "failed"}]
    /\ ureads \in [Upload -> 0 .. MaxReads]

\* A handler that moves on or answers keeps the types of its locals.
LEMMA UploadTypes ==
    ASSUME TypeOK, NEW u \in Upload,
           Done(u) \/ \E pc \in UploadPc : Goto(u, pc)
    PROVE  UploadTypeOK'
<1>1. CASE Done(u)
  BY <1>1, BoundsAssumption DEF Done, TypeOK, UploadTypeOK, UploadPc
<1>2. ASSUME NEW pc \in UploadPc, Goto(u, pc)
      PROVE  UploadTypeOK'
  BY <1>2 DEF Goto, TypeOK, UploadTypeOK
<1>3. QED
  BY <1>1, <1>2

\* Every step keeps the types.
LEMMA TypeStep == IndInv /\ [Next]_vars => TypeOK'
<1> SUFFICES ASSUME IndInv, [Next]_vars
             PROVE  TypeOK'
  OBVIOUS
<1>1. ASSUME NEW s \in Session, NEW c \in Client, NEW F \in SUBSET File,
            AdmitCheck(s, c, F)
     PROVE  TypeOK'
  <2>1. Cardinality(F) \in Int
    BY <1>1, OfferCounted DEF AdmitCheck
  <2>2. [f \in File |-> IF f \in F THEN "pending" ELSE "absent"] \in [File -> Status]
    BY DEF Status
  <2>3. QED
    BY <1>1, <2>1, <2>2 DEF AdmitCheck, IndInv, TypeOK, Life, sessVars, fileVars, uploadVars
<1>2. ASSUME NEW s \in Session, AdmitStore(s)
     PROVE  TypeOK'
  BY <1>2 DEF AdmitStore, IndInv, TypeOK, LocalsInv, sessVars, fileVars,
         uploadVars, Life
<1>3. ASSUME NEW s \in Session, AdmitStart(s)
     PROVE  TypeOK'
  BY <1>3 DEF AdmitStart, IndInv, TypeOK, LocalsInv, sessVars, fileVars,
         uploadVars, Life
<1>4. ASSUME NEW s \in Session, AdmitRespond(s)
     PROVE  TypeOK'
  BY <1>4 DEF AdmitRespond, IndInv, TypeOK, LocalsInv, sessVars, fileVars,
         uploadVars, Life
<1>5. ASSUME NEW s \in Session, Timeout(s)
     PROVE  TypeOK'
  BY <1>5 DEF Timeout, IndInv, TypeOK, LocalsInv, sessVars, fileVars,
         uploadVars, Activity
<1>6. ASSUME NEW s \in Session, VacuumCheck(s)
     PROVE  TypeOK'
  BY <1>6 DEF VacuumCheck, IndInv, TypeOK, LocalsInv, sessVars, fileVars,
         uploadVars
<1>7. CASE VacuumDelete
  BY <1>7 DEF VacuumDelete, IndInv, TypeOK, LocalsInv, sessVars, fileVars,
         uploadVars
<1>8. ASSUME NEW s \in Session, NEW c \in Client, Kill(s, c)
     PROVE  TypeOK'
  BY <1>8 DEF Kill, IndInv, TypeOK, LocalsInv, sessVars, fileVars, uploadVars
<1>9. ASSUME NEW s \in Session, KillCas(s)
     PROVE  TypeOK'
  BY <1>9 DEF KillCas, IndInv, TypeOK, LocalsInv, sessVars, fileVars,
         uploadVars
<1>10. ASSUME NEW s \in Session, KillZero(s)
     PROVE  TypeOK'
  BY <1>10 DEF KillZero, IndInv, TypeOK, LocalsInv, sessVars, fileVars,
         uploadVars
<1>11. ASSUME NEW u \in Upload, NEW s \in Session, NEW f \in File,
            UploadBegin(u, s, f)
     PROVE  TypeOK'
  BY <1>11 DEF UploadBegin, IndInv, TypeOK, LocalsInv, sessVars, fileVars,
         uploadVars, UploadPc
<1>12. ASSUME NEW u \in Upload, NEW c \in Client, SaveCheck(u, c)
     PROVE  TypeOK'
  <2>1. Done(u) \/ \E pc \in UploadPc : Goto(u, pc)
    BY <1>12 DEF SaveCheck, UploadPc
  <2>2. UploadTypeOK'
    BY <2>1, UploadTypes DEF IndInv
  <2>3. QED
    BY <1>12, <2>2, BoundsAssumption DEF SaveCheck, IndInv, TypeOK, LocalsInv, UploadTypeOK,
           sessVars, fileVars
<1>13. ASSUME NEW u \in Upload, NEW hasToken \in BOOLEAN,
            Claim(u, hasToken)
     PROVE  TypeOK'
  <2>1. Done(u) \/ \E pc \in UploadPc : Goto(u, pc)
    BY <1>13 DEF Claim, UploadPc
  <2>2. UploadTypeOK'
    BY <2>1, UploadTypes DEF IndInv
  <2>3. usess[u] \in Session /\ ufile[u] \in File
    BY <1>13 DEF Claim, IndInv, LocalsInv
  <2>4. status' \in [Session -> [File -> Status]]
    <3>1. CASE status' = status
      BY <3>1 DEF IndInv, TypeOK
    <3>2. CASE status' = [status EXCEPT ![usess[u]][ufile[u]] = "inProgress"]
      BY <3>2, <2>3 DEF IndInv, TypeOK, Status
    <3>3. QED
      BY <1>13, <3>1, <3>2 DEF Claim
  <2>5. attempts' \in [Session -> [File -> 0 .. MaxChecksumAttempts]]
    <3>1. CASE attempts' = attempts
      BY <3>1 DEF IndInv, TypeOK
    <3>2. CASE Claimable(usess[u], ufile[u])
               /\ attempts' = [attempts EXCEPT ![usess[u]][ufile[u]] = @ + 1]
      <4>1. attempts[usess[u]][ufile[u]] + 1 \in 0 .. MaxChecksumAttempts
        BY <3>2, <2>3, BoundsAssumption DEF Claimable, IndInv, TypeOK, AttemptsInv
      <4>2. QED
        BY <3>2, <4>1, <2>3 DEF IndInv, TypeOK
    <3>3. QED
      BY <1>13, <3>1, <3>2 DEF Claim
  <2>6. QED
    BY <1>13, <2>2, <2>4, <2>5 DEF Claim, IndInv, TypeOK, UploadTypeOK, sessVars
<1>14. ASSUME NEW u \in Upload, PrepareFails(u)
     PROVE  TypeOK'
  <2>1. Done(u) \/ \E pc \in UploadPc : Goto(u, pc)
    BY <1>14 DEF PrepareFails, UploadPc
  <2>2. UploadTypeOK'
    BY <2>1, UploadTypes DEF IndInv
  <2>3. QED
    BY <1>14, <2>2, BoundsAssumption DEF PrepareFails, IndInv, TypeOK, LocalsInv, UploadTypeOK,
           sessVars, fileVars
<1>15. ASSUME NEW u \in Upload, NEW p \in Path, Create(u, p)
     PROVE  TypeOK'
  <2>1. Done(u) \/ \E pc \in UploadPc : Goto(u, pc)
    BY <1>15 DEF Create, UploadPc
  <2>2. UploadTypeOK'
    BY <2>1, UploadTypes DEF IndInv
  <2>3. QED
    BY <1>15, <2>2, BoundsAssumption DEF Create, IndInv, TypeOK, LocalsInv, UploadTypeOK,
           sessVars, fileVars
<1>16. ASSUME NEW u \in Upload, ReadBody(u)
     PROVE  TypeOK'
  <2>1. ureads[u] + 1 \in 0 .. MaxReads
    BY <1>16, BoundsAssumption DEF ReadBody, IndInv, TypeOK
  <2>2. QED
    BY <1>16, <2>1 DEF ReadBody, IndInv, TypeOK, LocalsInv, Activity, sessVars, fileVars, uploadVars
<1>17. ASSUME NEW u \in Upload, NEW result \in {"finished", "pending", "failed"},
            CopyEnds(u, result)
     PROVE  TypeOK'
  BY <1>17 DEF CopyEnds, IndInv, TypeOK, LocalsInv, sessVars, fileVars,
         uploadVars, SaveAs, UploadPc
<1>18. ASSUME NEW u \in Upload, CloseFile(u)
     PROVE  TypeOK'
  <2>1. Done(u) \/ \E pc \in UploadPc : Goto(u, pc)
    BY <1>18 DEF CloseFile, UploadPc
  <2>2. UploadTypeOK'
    BY <2>1, UploadTypes DEF IndInv
  <2>3. QED
    BY <1>18, <2>2, BoundsAssumption DEF CloseFile, IndInv, TypeOK, LocalsInv, UploadTypeOK,
           sessVars, fileVars, SaveAs
<1>19. ASSUME NEW u \in Upload, FinishFileAttempt(u)
     PROVE  TypeOK'
  <2>1. Done(u) \/ \E pc \in UploadPc : Goto(u, pc)
    BY <1>19 DEF FinishFileAttempt, UploadPc, AfterAttempt
  <2>2. UploadTypeOK'
    BY <2>1, UploadTypes DEF IndInv
  <2>3. QED
    BY <1>19, <2>2, BoundsAssumption DEF FinishFileAttempt, IndInv, TypeOK, LocalsInv, UploadTypeOK,
           sessVars, fileVars, Status
<1>20. ASSUME NEW u \in Upload, CountDown(u)
     PROVE  TypeOK'
  <2>1. Done(u) \/ \E pc \in UploadPc : Goto(u, pc)
    BY <1>20 DEF CountDown, UploadPc
  <2>2. UploadTypeOK'
    BY <2>1, UploadTypes DEF IndInv
  <2>3. QED
    BY <1>20, <2>2, BoundsAssumption DEF CountDown, IndInv, TypeOK, LocalsInv, UploadTypeOK,
           sessVars, fileVars
<1>21. ASSUME NEW u \in Upload, EndCas(u)
     PROVE  TypeOK'
  <2>1. Done(u) \/ \E pc \in UploadPc : Goto(u, pc)
    BY <1>21 DEF EndCas, UploadPc
  <2>2. UploadTypeOK'
    BY <2>1, UploadTypes DEF IndInv
  <2>3. QED
    BY <1>21, <2>2, BoundsAssumption DEF EndCas, IndInv, TypeOK, LocalsInv, UploadTypeOK,
           sessVars, fileVars
<1>22. ASSUME NEW u \in Upload, EndZero(u)
     PROVE  TypeOK'
  <2>1. Done(u) \/ \E pc \in UploadPc : Goto(u, pc)
    BY <1>22 DEF EndZero, UploadPc
  <2>2. UploadTypeOK'
    BY <2>1, UploadTypes DEF IndInv
  <2>3. QED
    BY <1>22, <2>2, BoundsAssumption DEF EndZero, IndInv, TypeOK, LocalsInv, UploadTypeOK,
           sessVars, fileVars
<1>23. ASSUME NEW p \in Path, ForeignCreate(p)
     PROVE  TypeOK'
  BY <1>23 DEF ForeignCreate, IndInv, TypeOK, LocalsInv, sessVars, fileVars,
         uploadVars
<1>24. CASE UNCHANGED vars
  BY <1>24 DEF vars, IndInv, TypeOK, LocalsInv, sessVars, fileVars, uploadVars
<1>25. QED
  BY <1>1, <1>2, <1>3, <1>4, <1>5, <1>6, <1>7, <1>8, <1>9, <1>10, <1>11,
     <1>12, <1>13, <1>14, <1>15, <1>16, <1>17, <1>18, <1>19, <1>20, <1>21,
     <1>22, <1>23, <1>24 DEF Next, AdmitStep, KillStep, HandlerStep

\* A step is one of a handler, of the admission, of another program, or it
\* leaves files, disk and handlers alone.
LEMMA FileSteps ==
    ASSUME [Next]_vars
    PROVE
      \/ \E s \in Session, c \in Client, F \in SUBSET File : AdmitCheck(s, c, F)
      \/ \E u \in Upload, s \in Session, f \in File : UploadBegin(u, s, f)
      \/ \E u \in Upload, c \in Client : SaveCheck(u, c)
      \/ \E u \in Upload, hasToken \in BOOLEAN : Claim(u, hasToken)
      \/ \E u \in Upload : PrepareFails(u)
      \/ \E u \in Upload, p \in Path : Create(u, p)
      \/ \E u \in Upload : ReadBody(u)
      \/ \E u \in Upload, result \in {"finished", "pending", "failed"} :
            CopyEnds(u, result)
      \/ \E u \in Upload : CloseFile(u)
      \/ \E u \in Upload : FinishFileAttempt(u)
      \/ \E u \in Upload : CountDown(u)
      \/ \E u \in Upload : EndCas(u)
      \/ \E u \in Upload : EndZero(u)
      \/ \E p \in Path : ForeignCreate(p)
      \/ UNCHANGED <<fileVars, disk, uploadVars>>
<1>1. ASSUME NEW s \in Session, AdmitStore(s)
     PROVE  UNCHANGED <<fileVars, disk, uploadVars>>
  BY <1>1 DEF AdmitStore
<1>2. ASSUME NEW s \in Session, AdmitStart(s)
     PROVE  UNCHANGED <<fileVars, disk, uploadVars>>
  BY <1>2 DEF AdmitStart
<1>3. ASSUME NEW s \in Session, AdmitRespond(s)
     PROVE  UNCHANGED <<fileVars, disk, uploadVars>>
  BY <1>3 DEF AdmitRespond
<1>4. ASSUME NEW s \in Session, Timeout(s)
     PROVE  UNCHANGED <<fileVars, disk, uploadVars>>
  BY <1>4 DEF Timeout
<1>5. ASSUME NEW s \in Session, VacuumCheck(s)
     PROVE  UNCHANGED <<fileVars, disk, uploadVars>>
  BY <1>5 DEF VacuumCheck
<1>6. CASE VacuumDelete
  BY <1>6 DEF VacuumDelete
<1>7. ASSUME NEW s \in Session, NEW c \in Client, Kill(s, c)
     PROVE  UNCHANGED <<fileVars, disk, uploadVars>>
  BY <1>7 DEF Kill
<1>8. ASSUME NEW s \in Session, KillCas(s)
     PROVE  UNCHANGED <<fileVars, disk, uploadVars>>
  BY <1>8 DEF KillCas
<1>9. ASSUME NEW s \in Session, KillZero(s)
     PROVE  UNCHANGED <<fileVars, disk, uploadVars>>
  BY <1>9 DEF KillZero
<1>10. CASE UNCHANGED vars
  BY <1>10 DEF vars
<1>11. QED
  BY <1>1, <1>2, <1>3, <1>4, <1>5, <1>6, <1>7, <1>8, <1>9, <1>10 DEF Next,
     AdmitStep, KillStep, HandlerStep

\* A handler keeps its session and file until it answers.
LEMMA LocalsStep == IndInv /\ [Next]_vars => LocalsInv'
<1> SUFFICES ASSUME IndInv, [Next]_vars
             PROVE  LocalsInv'
  OBVIOUS
<1>1. ASSUME NEW s \in Session, NEW c \in Client, NEW F \in SUBSET File,
            AdmitCheck(s, c, F)
     PROVE  LocalsInv'
  BY <1>1 DEF AdmitCheck, IndInv, TypeOK, LocalsInv, Done, Goto, sessVars,
         fileVars, uploadVars
<1>2. ASSUME NEW s \in Session, AdmitStore(s)
     PROVE  LocalsInv'
  BY <1>2 DEF AdmitStore, IndInv, TypeOK, LocalsInv, Done, Goto, sessVars,
         fileVars, uploadVars
<1>3. ASSUME NEW s \in Session, AdmitStart(s)
     PROVE  LocalsInv'
  BY <1>3 DEF AdmitStart, IndInv, TypeOK, LocalsInv, Done, Goto, sessVars,
         fileVars, uploadVars
<1>4. ASSUME NEW s \in Session, AdmitRespond(s)
     PROVE  LocalsInv'
  BY <1>4 DEF AdmitRespond, IndInv, TypeOK, LocalsInv, Done, Goto, sessVars,
         fileVars, uploadVars
<1>5. ASSUME NEW s \in Session, Timeout(s)
     PROVE  LocalsInv'
  BY <1>5 DEF Timeout, IndInv, TypeOK, LocalsInv, Done, Goto, sessVars,
         fileVars, uploadVars
<1>6. ASSUME NEW s \in Session, VacuumCheck(s)
     PROVE  LocalsInv'
  BY <1>6 DEF VacuumCheck, IndInv, TypeOK, LocalsInv, Done, Goto, sessVars,
         fileVars, uploadVars
<1>7. CASE VacuumDelete
  BY <1>7 DEF VacuumDelete, IndInv, TypeOK, LocalsInv, Done, Goto, sessVars,
         fileVars, uploadVars
<1>8. ASSUME NEW s \in Session, NEW c \in Client, Kill(s, c)
     PROVE  LocalsInv'
  BY <1>8 DEF Kill, IndInv, TypeOK, LocalsInv, Done, Goto, sessVars, fileVars,
         uploadVars
<1>9. ASSUME NEW s \in Session, KillCas(s)
     PROVE  LocalsInv'
  BY <1>9 DEF KillCas, IndInv, TypeOK, LocalsInv, Done, Goto, sessVars,
         fileVars, uploadVars
<1>10. ASSUME NEW s \in Session, KillZero(s)
     PROVE  LocalsInv'
  BY <1>10 DEF KillZero, IndInv, TypeOK, LocalsInv, Done, Goto, sessVars,
         fileVars, uploadVars
<1>11. ASSUME NEW u \in Upload, NEW s \in Session, NEW f \in File,
            UploadBegin(u, s, f)
     PROVE  LocalsInv'
  BY <1>11 DEF UploadBegin, IndInv, TypeOK, LocalsInv, Done, Goto, sessVars,
         fileVars, uploadVars
<1>12. ASSUME NEW u \in Upload, NEW c \in Client, SaveCheck(u, c)
     PROVE  LocalsInv'
  <2>1. CASE Goto(u, "checked")
    BY <1>12, <2>1 DEF SaveCheck, IndInv, TypeOK, LocalsInv, Done, Goto,
           sessVars, fileVars, uploadVars
  <2>2. CASE Done(u)
    BY <1>12, <2>2 DEF SaveCheck, IndInv, TypeOK, LocalsInv, Done, Goto,
           sessVars, fileVars, uploadVars
  <2>3. QED
    BY <1>12, <2>1, <2>2 DEF SaveCheck
<1>13. ASSUME NEW u \in Upload, NEW hasToken \in BOOLEAN,
            Claim(u, hasToken)
     PROVE  LocalsInv'
  <2>1. CASE /\ Claimable(usess[u], ufile[u])
             /\ Goto(u, "claimed")
             /\ status' = [status EXCEPT ![usess[u]][ufile[u]] = "inProgress"]
             /\ attempts' = [attempts EXCEPT ![usess[u]][ufile[u]] = @ + 1]
    BY <1>13, <2>1 DEF Claim, IndInv, TypeOK, LocalsInv, Done, Goto, sessVars,
           fileVars, uploadVars
  <2>2. CASE Done(u) /\ UNCHANGED <<status, attempts>>
    BY <1>13, <2>2 DEF Claim, IndInv, TypeOK, LocalsInv, Done, Goto, sessVars,
           fileVars, uploadVars
  <2>3. QED
    BY <1>13, <2>1, <2>2 DEF Claim
<1>14. ASSUME NEW u \in Upload, PrepareFails(u)
     PROVE  LocalsInv'
  BY <1>14 DEF PrepareFails, IndInv, TypeOK, LocalsInv, Done, Goto, sessVars,
         fileVars, uploadVars
<1>15. ASSUME NEW u \in Upload, NEW p \in Path, Create(u, p)
     PROVE  LocalsInv'
  BY <1>15 DEF Create, IndInv, TypeOK, LocalsInv, Done, Goto, sessVars,
         fileVars, uploadVars
<1>16. ASSUME NEW u \in Upload, ReadBody(u)
     PROVE  LocalsInv'
  BY <1>16 DEF ReadBody, IndInv, TypeOK, LocalsInv, Done, Goto, sessVars,
         fileVars, uploadVars
<1>17. ASSUME NEW u \in Upload, NEW result \in {"finished", "pending", "failed"},
            CopyEnds(u, result)
     PROVE  LocalsInv'
  BY <1>17 DEF CopyEnds, IndInv, TypeOK, LocalsInv, Done, Goto, sessVars,
         fileVars, uploadVars
<1>18. ASSUME NEW u \in Upload, CloseFile(u)
     PROVE  LocalsInv'
  BY <1>18 DEF CloseFile, IndInv, TypeOK, LocalsInv, Done, Goto, sessVars,
         fileVars, uploadVars
<1>19. ASSUME NEW u \in Upload, FinishFileAttempt(u)
     PROVE  LocalsInv'
  <2>1. CASE Goto(u, "count") /\ ~Retries(u)
    BY <1>19, <2>1 DEF FinishFileAttempt, IndInv, TypeOK, LocalsInv, Done,
           Goto, sessVars, fileVars, uploadVars
  <2>2. CASE Done(u) /\ Retries(u)
    BY <1>19, <2>2 DEF FinishFileAttempt, IndInv, TypeOK, LocalsInv, Done,
           Goto, sessVars, fileVars, uploadVars
  <2>3. QED
    BY <1>19, <2>1, <2>2 DEF FinishFileAttempt, AfterAttempt
<1>20. ASSUME NEW u \in Upload, CountDown(u)
     PROVE  LocalsInv'
  <2>1. CASE Goto(u, "cas") /\ LastFile(usess[u])
    BY <1>20, <2>1 DEF CountDown, IndInv, TypeOK, LocalsInv, Done, Goto,
           sessVars, fileVars, uploadVars
  <2>2. CASE Done(u) /\ ~LastFile(usess[u])
    BY <1>20, <2>2 DEF CountDown, IndInv, TypeOK, LocalsInv, Done, Goto,
           sessVars, fileVars, uploadVars
  <2>3. QED
    BY <1>20, <2>1, <2>2 DEF CountDown
<1>21. ASSUME NEW u \in Upload, EndCas(u)
     PROVE  LocalsInv'
  <2>1. CASE Goto(u, "zero") /\ started[usess[u]]
    BY <1>21, <2>1 DEF EndCas, IndInv, TypeOK, LocalsInv, Done, Goto,
           sessVars, fileVars, uploadVars
  <2>2. CASE Done(u) /\ ~started[usess[u]]
    BY <1>21, <2>2 DEF EndCas, IndInv, TypeOK, LocalsInv, Done, Goto,
           sessVars, fileVars, uploadVars
  <2>3. QED
    BY <1>21, <2>1, <2>2 DEF EndCas
<1>22. ASSUME NEW u \in Upload, EndZero(u)
     PROVE  LocalsInv'
  BY <1>22 DEF EndZero, IndInv, TypeOK, LocalsInv, Done, Goto, sessVars,
         fileVars, uploadVars
<1>23. ASSUME NEW p \in Path, ForeignCreate(p)
     PROVE  LocalsInv'
  BY <1>23 DEF ForeignCreate, IndInv, TypeOK, LocalsInv, Done, Goto, sessVars,
         fileVars, uploadVars
<1>24. CASE UNCHANGED vars
  BY <1>24 DEF vars, IndInv, TypeOK, LocalsInv, Done, Goto, sessVars,
         fileVars, uploadVars
<1>25. QED
  BY <1>1, <1>2, <1>3, <1>4, <1>5, <1>6, <1>7, <1>8, <1>9, <1>10, <1>11,
     <1>12, <1>13, <1>14, <1>15, <1>16, <1>17, <1>18, <1>19, <1>20, <1>21,
     <1>22, <1>23, <1>24 DEF Next, AdmitStep, KillStep, HandlerStep

\* A file goes back to pending only with an attempt left.
LEMMA AttemptsStep == IndInv /\ [Next]_vars => AttemptsInv'
<1> SUFFICES ASSUME IndInv, [Next]_vars
             PROVE  AttemptsInv'
  OBVIOUS
<1>1. ASSUME NEW s \in Session, NEW c \in Client, NEW F \in SUBSET File,
            AdmitCheck(s, c, F)
     PROVE  AttemptsInv'
  BY <1>1 DEF AdmitCheck, IndInv, TypeOK, LocalsInv, AttemptsInv, sessVars,
         fileVars, uploadVars, AdmitInv
<1>2. ASSUME NEW u \in Upload, NEW s \in Session, NEW f \in File,
            UploadBegin(u, s, f)
     PROVE  AttemptsInv'
  BY <1>2 DEF UploadBegin, IndInv, TypeOK, LocalsInv, AttemptsInv, sessVars,
         fileVars, uploadVars
<1>3. ASSUME NEW u \in Upload, NEW c \in Client, SaveCheck(u, c)
     PROVE  AttemptsInv'
  BY <1>3 DEF SaveCheck, IndInv, TypeOK, LocalsInv, AttemptsInv, sessVars,
         fileVars, uploadVars
<1>4. ASSUME NEW u \in Upload, NEW hasToken \in BOOLEAN,
            Claim(u, hasToken)
     PROVE  AttemptsInv'
  <2>1. CASE /\ Claimable(usess[u], ufile[u])
             /\ Goto(u, "claimed")
             /\ status' = [status EXCEPT ![usess[u]][ufile[u]] = "inProgress"]
             /\ attempts' = [attempts EXCEPT ![usess[u]][ufile[u]] = @ + 1]
    BY <1>4, <2>1 DEF Claim, IndInv, TypeOK, LocalsInv, AttemptsInv, sessVars,
           fileVars, uploadVars, Claimable
  <2>2. CASE Done(u) /\ UNCHANGED <<status, attempts>>
    BY <1>4, <2>2 DEF Claim, IndInv, TypeOK, LocalsInv, AttemptsInv, sessVars,
           fileVars, uploadVars, Claimable
  <2>3. QED
    BY <1>4, <2>1, <2>2 DEF Claim
<1>5. ASSUME NEW u \in Upload, PrepareFails(u)
     PROVE  AttemptsInv'
  BY <1>5 DEF PrepareFails, IndInv, TypeOK, LocalsInv, AttemptsInv, sessVars,
         fileVars, uploadVars
<1>6. ASSUME NEW u \in Upload, NEW p \in Path, Create(u, p)
     PROVE  AttemptsInv'
  BY <1>6 DEF Create, IndInv, TypeOK, LocalsInv, AttemptsInv, sessVars,
         fileVars, uploadVars
<1>7. ASSUME NEW u \in Upload, ReadBody(u)
     PROVE  AttemptsInv'
  BY <1>7 DEF ReadBody, IndInv, TypeOK, LocalsInv, AttemptsInv, sessVars,
         fileVars, uploadVars
<1>8. ASSUME NEW u \in Upload, NEW result \in {"finished", "pending", "failed"},
            CopyEnds(u, result)
     PROVE  AttemptsInv'
  BY <1>8 DEF CopyEnds, IndInv, TypeOK, LocalsInv, AttemptsInv, sessVars,
         fileVars, uploadVars
<1>9. ASSUME NEW u \in Upload, CloseFile(u)
     PROVE  AttemptsInv'
  BY <1>9 DEF CloseFile, IndInv, TypeOK, LocalsInv, AttemptsInv, sessVars,
         fileVars, uploadVars
<1>10. ASSUME NEW u \in Upload, FinishFileAttempt(u)
     PROVE  AttemptsInv'
  BY <1>10 DEF FinishFileAttempt, IndInv, TypeOK, LocalsInv, AttemptsInv,
         sessVars, fileVars, uploadVars, Retries
<1>11. ASSUME NEW u \in Upload, CountDown(u)
     PROVE  AttemptsInv'
  BY <1>11 DEF CountDown, IndInv, TypeOK, LocalsInv, AttemptsInv, sessVars,
         fileVars, uploadVars
<1>12. ASSUME NEW u \in Upload, EndCas(u)
     PROVE  AttemptsInv'
  BY <1>12 DEF EndCas, IndInv, TypeOK, LocalsInv, AttemptsInv, sessVars,
         fileVars, uploadVars
<1>13. ASSUME NEW u \in Upload, EndZero(u)
     PROVE  AttemptsInv'
  BY <1>13 DEF EndZero, IndInv, TypeOK, LocalsInv, AttemptsInv, sessVars,
         fileVars, uploadVars
<1>14. ASSUME NEW p \in Path, ForeignCreate(p)
     PROVE  AttemptsInv'
  BY <1>14 DEF ForeignCreate, IndInv, TypeOK, LocalsInv, AttemptsInv,
         sessVars, fileVars, uploadVars
<1>15. CASE UNCHANGED <<fileVars, disk, uploadVars>>
  BY <1>15 DEF IndInv, TypeOK, LocalsInv, AttemptsInv, sessVars, fileVars,
         uploadVars
<1>16. QED
  BY FileSteps, <1>1, <1>2, <1>3, <1>4, <1>5, <1>6, <1>7, <1>8, <1>9, <1>10,
     <1>11, <1>12, <1>13, <1>14, <1>15

\* Only a pending file is claimed, and it stays in progress until its handler
\* lets go.
LEMMA ClaimStep == IndInv /\ [Next]_vars => ClaimInv'
<1> SUFFICES ASSUME IndInv, [Next]_vars
             PROVE  ClaimInv'
  OBVIOUS
<1>1. ASSUME NEW s \in Session, NEW c \in Client, NEW F \in SUBSET File,
            AdmitCheck(s, c, F)
     PROVE  ClaimInv'
  BY <1>1 DEF AdmitCheck, IndInv, TypeOK, LocalsInv, ClaimInv, HasClaim, Done,
         Goto, sessVars, fileVars, uploadVars, AdmitInv
<1>2. ASSUME NEW u \in Upload, NEW s \in Session, NEW f \in File,
            UploadBegin(u, s, f)
     PROVE  ClaimInv'
  BY <1>2 DEF UploadBegin, IndInv, TypeOK, LocalsInv, ClaimInv, HasClaim,
         Done, Goto, sessVars, fileVars, uploadVars
<1>3. ASSUME NEW u \in Upload, NEW c \in Client, SaveCheck(u, c)
     PROVE  ClaimInv'
  <2>1. CASE Goto(u, "checked")
    BY <1>3, <2>1 DEF SaveCheck, IndInv, TypeOK, LocalsInv, ClaimInv,
           HasClaim, Done, Goto, sessVars, fileVars, uploadVars
  <2>2. CASE Done(u)
    BY <1>3, <2>2 DEF SaveCheck, IndInv, TypeOK, LocalsInv, ClaimInv,
           HasClaim, Done, Goto, sessVars, fileVars, uploadVars
  <2>3. QED
    BY <1>3, <2>1, <2>2 DEF SaveCheck
<1>4. ASSUME NEW u \in Upload, NEW hasToken \in BOOLEAN,
            Claim(u, hasToken)
     PROVE  ClaimInv'
  <2>1. CASE /\ Claimable(usess[u], ufile[u])
             /\ Goto(u, "claimed")
             /\ status' = [status EXCEPT ![usess[u]][ufile[u]] = "inProgress"]
             /\ attempts' = [attempts EXCEPT ![usess[u]][ufile[u]] = @ + 1]
    BY <1>4, <2>1 DEF Claim, IndInv, TypeOK, LocalsInv, ClaimInv, HasClaim,
           Done, Goto, sessVars, fileVars, uploadVars, Claimable
  <2>2. CASE Done(u) /\ UNCHANGED <<status, attempts>>
    BY <1>4, <2>2 DEF Claim, IndInv, TypeOK, LocalsInv, ClaimInv, HasClaim,
           Done, Goto, sessVars, fileVars, uploadVars, Claimable
  <2>3. QED
    BY <1>4, <2>1, <2>2 DEF Claim
<1>5. ASSUME NEW u \in Upload, PrepareFails(u)
     PROVE  ClaimInv'
  BY <1>5 DEF PrepareFails, IndInv, TypeOK, LocalsInv, ClaimInv, HasClaim,
         Done, Goto, sessVars, fileVars, uploadVars
<1>6. ASSUME NEW u \in Upload, NEW p \in Path, Create(u, p)
     PROVE  ClaimInv'
  BY <1>6 DEF Create, IndInv, TypeOK, LocalsInv, ClaimInv, HasClaim, Done,
         Goto, sessVars, fileVars, uploadVars
<1>7. ASSUME NEW u \in Upload, ReadBody(u)
     PROVE  ClaimInv'
  BY <1>7 DEF ReadBody, IndInv, TypeOK, LocalsInv, ClaimInv, HasClaim, Done,
         Goto, sessVars, fileVars, uploadVars
<1>8. ASSUME NEW u \in Upload, NEW result \in {"finished", "pending", "failed"},
            CopyEnds(u, result)
     PROVE  ClaimInv'
  BY <1>8 DEF CopyEnds, IndInv, TypeOK, LocalsInv, ClaimInv, HasClaim, Done,
         Goto, sessVars, fileVars, uploadVars
<1>9. ASSUME NEW u \in Upload, CloseFile(u)
     PROVE  ClaimInv'
  BY <1>9 DEF CloseFile, IndInv, TypeOK, LocalsInv, ClaimInv, HasClaim, Done,
         Goto, sessVars, fileVars, uploadVars
<1>10. ASSUME NEW u \in Upload, FinishFileAttempt(u)
     PROVE  ClaimInv'
  <2>1. CASE Goto(u, "count") /\ ~Retries(u)
    BY <1>10, <2>1 DEF FinishFileAttempt, IndInv, TypeOK, LocalsInv, ClaimInv,
           HasClaim, Done, Goto, sessVars, fileVars, uploadVars
  <2>2. CASE Done(u) /\ Retries(u)
    BY <1>10, <2>2 DEF FinishFileAttempt, IndInv, TypeOK, LocalsInv, ClaimInv,
           HasClaim, Done, Goto, sessVars, fileVars, uploadVars
  <2>3. QED
    BY <1>10, <2>1, <2>2 DEF FinishFileAttempt, AfterAttempt
<1>11. ASSUME NEW u \in Upload, CountDown(u)
     PROVE  ClaimInv'
  <2>1. CASE Goto(u, "cas") /\ LastFile(usess[u])
    BY <1>11, <2>1 DEF CountDown, IndInv, TypeOK, LocalsInv, ClaimInv,
           HasClaim, Done, Goto, sessVars, fileVars, uploadVars
  <2>2. CASE Done(u) /\ ~LastFile(usess[u])
    BY <1>11, <2>2 DEF CountDown, IndInv, TypeOK, LocalsInv, ClaimInv,
           HasClaim, Done, Goto, sessVars, fileVars, uploadVars
  <2>3. QED
    BY <1>11, <2>1, <2>2 DEF CountDown
<1>12. ASSUME NEW u \in Upload, EndCas(u)
     PROVE  ClaimInv'
  <2>1. CASE Goto(u, "zero") /\ started[usess[u]]
    BY <1>12, <2>1 DEF EndCas, IndInv, TypeOK, LocalsInv, ClaimInv, HasClaim,
           Done, Goto, sessVars, fileVars, uploadVars
  <2>2. CASE Done(u) /\ ~started[usess[u]]
    BY <1>12, <2>2 DEF EndCas, IndInv, TypeOK, LocalsInv, ClaimInv, HasClaim,
           Done, Goto, sessVars, fileVars, uploadVars
  <2>3. QED
    BY <1>12, <2>1, <2>2 DEF EndCas
<1>13. ASSUME NEW u \in Upload, EndZero(u)
     PROVE  ClaimInv'
  BY <1>13 DEF EndZero, IndInv, TypeOK, LocalsInv, ClaimInv, HasClaim, Done,
         Goto, sessVars, fileVars, uploadVars
<1>14. ASSUME NEW p \in Path, ForeignCreate(p)
     PROVE  ClaimInv'
  BY <1>14 DEF ForeignCreate, IndInv, TypeOK, LocalsInv, ClaimInv, HasClaim,
         Done, Goto, sessVars, fileVars, uploadVars
<1>15. CASE UNCHANGED <<fileVars, disk, uploadVars>>
  BY <1>15 DEF IndInv, TypeOK, LocalsInv, ClaimInv, HasClaim, Done, Goto,
         sessVars, fileVars, uploadVars
<1>16. QED
  BY FileSteps, <1>1, <1>2, <1>3, <1>4, <1>5, <1>6, <1>7, <1>8, <1>9, <1>10,
     <1>11, <1>12, <1>13, <1>14, <1>15

\* Files in progress and finished files keep their place on disk.
LEMMA DiskStep == IndInv /\ [Next]_vars => DiskInv'
<1> SUFFICES ASSUME IndInv, [Next]_vars
             PROVE  DiskInv'
  OBVIOUS
<1>1. ASSUME NEW s \in Session, NEW c \in Client, NEW F \in SUBSET File,
            AdmitCheck(s, c, F)
     PROVE  DiskInv'
  BY <1>1 DEF AdmitCheck, IndInv, TypeOK, LocalsInv, ClaimInv, DiskInv,
         PathInv, HasClaim, Dirty, Saved, SaveAs, Done, Goto, sessVars,
         fileVars, uploadVars, AdmitInv
<1>2. ASSUME NEW u \in Upload, NEW s \in Session, NEW f \in File,
            UploadBegin(u, s, f)
     PROVE  DiskInv'
  BY <1>2 DEF UploadBegin, IndInv, TypeOK, LocalsInv, ClaimInv, DiskInv,
         PathInv, HasClaim, Dirty, Saved, SaveAs, Done, Goto, sessVars,
         fileVars, uploadVars
<1>3. ASSUME NEW u \in Upload, NEW c \in Client, SaveCheck(u, c)
     PROVE  DiskInv'
  <2>1. CASE Goto(u, "checked")
    BY <1>3, <2>1 DEF SaveCheck, IndInv, TypeOK, LocalsInv, ClaimInv, DiskInv,
           PathInv, HasClaim, Dirty, Saved, SaveAs, Done, Goto, sessVars,
           fileVars, uploadVars
  <2>2. CASE Done(u)
    BY <1>3, <2>2 DEF SaveCheck, IndInv, TypeOK, LocalsInv, ClaimInv, DiskInv,
           PathInv, HasClaim, Dirty, Saved, SaveAs, Done, Goto, sessVars,
           fileVars, uploadVars
  <2>3. QED
    BY <1>3, <2>1, <2>2 DEF SaveCheck
<1>4. ASSUME NEW u \in Upload, NEW hasToken \in BOOLEAN,
            Claim(u, hasToken)
     PROVE  DiskInv'
  <2>1. CASE /\ Claimable(usess[u], ufile[u])
             /\ Goto(u, "claimed")
             /\ status' = [status EXCEPT ![usess[u]][ufile[u]] = "inProgress"]
             /\ attempts' = [attempts EXCEPT ![usess[u]][ufile[u]] = @ + 1]
    BY <1>4, <2>1 DEF Claim, IndInv, TypeOK, LocalsInv, ClaimInv, DiskInv,
           PathInv, HasClaim, Dirty, Saved, SaveAs, Done, Goto, sessVars,
           fileVars, uploadVars, Claimable
  <2>2. CASE Done(u) /\ UNCHANGED <<status, attempts>>
    BY <1>4, <2>2 DEF Claim, IndInv, TypeOK, LocalsInv, ClaimInv, DiskInv,
           PathInv, HasClaim, Dirty, Saved, SaveAs, Done, Goto, sessVars,
           fileVars, uploadVars, Claimable
  <2>3. QED
    BY <1>4, <2>1, <2>2 DEF Claim
<1>5. ASSUME NEW u \in Upload, PrepareFails(u)
     PROVE  DiskInv'
  BY <1>5 DEF PrepareFails, IndInv, TypeOK, LocalsInv, ClaimInv, DiskInv,
         PathInv, HasClaim, Dirty, Saved, SaveAs, Done, Goto, sessVars,
         fileVars, uploadVars
<1>6. ASSUME NEW u \in Upload, NEW p \in Path, Create(u, p)
     PROVE  DiskInv'
  BY <1>6 DEF Create, IndInv, TypeOK, LocalsInv, ClaimInv, DiskInv, PathInv,
         HasClaim, Dirty, Saved, SaveAs, Done, Goto, sessVars, fileVars,
         uploadVars, Creatable
<1>7. ASSUME NEW u \in Upload, ReadBody(u)
     PROVE  DiskInv'
  BY <1>7 DEF ReadBody, IndInv, TypeOK, LocalsInv, ClaimInv, DiskInv, PathInv,
         HasClaim, Dirty, Saved, SaveAs, Done, Goto, sessVars, fileVars,
         uploadVars
<1>8. ASSUME NEW u \in Upload, NEW result \in {"finished", "pending", "failed"},
            CopyEnds(u, result)
     PROVE  DiskInv'
  BY <1>8 DEF CopyEnds, IndInv, TypeOK, LocalsInv, ClaimInv, DiskInv, PathInv,
         HasClaim, Dirty, Saved, SaveAs, Done, Goto, sessVars, fileVars,
         uploadVars
<1>9. ASSUME NEW u \in Upload, CloseFile(u)
     PROVE  DiskInv'
  BY <1>9 DEF CloseFile, IndInv, TypeOK, LocalsInv, ClaimInv, DiskInv,
         PathInv, HasClaim, Dirty, Saved, SaveAs, Done, Goto, sessVars,
         fileVars, uploadVars, Removes
<1>10. ASSUME NEW u \in Upload, FinishFileAttempt(u)
     PROVE  DiskInv'
  <2>1. CASE Goto(u, "count") /\ ~Retries(u)
    BY <1>10, <2>1 DEF FinishFileAttempt, IndInv, TypeOK, LocalsInv, ClaimInv,
           DiskInv, PathInv, HasClaim, Dirty, Saved, SaveAs, Done, Goto,
           sessVars, fileVars, uploadVars, Retries
  <2>2. CASE Done(u) /\ Retries(u)
    BY <1>10, <2>2 DEF FinishFileAttempt, IndInv, TypeOK, LocalsInv, ClaimInv,
           DiskInv, PathInv, HasClaim, Dirty, Saved, SaveAs, Done, Goto,
           sessVars, fileVars, uploadVars, Retries
  <2>3. QED
    BY <1>10, <2>1, <2>2 DEF FinishFileAttempt, AfterAttempt
<1>11. ASSUME NEW u \in Upload, CountDown(u)
     PROVE  DiskInv'
  <2>1. CASE Goto(u, "cas") /\ LastFile(usess[u])
    BY <1>11, <2>1 DEF CountDown, IndInv, TypeOK, LocalsInv, ClaimInv,
           DiskInv, PathInv, HasClaim, Dirty, Saved, SaveAs, Done, Goto,
           sessVars, fileVars, uploadVars
  <2>2. CASE Done(u) /\ ~LastFile(usess[u])
    BY <1>11, <2>2 DEF CountDown, IndInv, TypeOK, LocalsInv, ClaimInv,
           DiskInv, PathInv, HasClaim, Dirty, Saved, SaveAs, Done, Goto,
           sessVars, fileVars, uploadVars
  <2>3. QED
    BY <1>11, <2>1, <2>2 DEF CountDown
<1>12. ASSUME NEW u \in Upload, EndCas(u)
     PROVE  DiskInv'
  <2>1. CASE Goto(u, "zero") /\ started[usess[u]]
    BY <1>12, <2>1 DEF EndCas, IndInv, TypeOK, LocalsInv, ClaimInv, DiskInv,
           PathInv, HasClaim, Dirty, Saved, SaveAs, Done, Goto, sessVars,
           fileVars, uploadVars
  <2>2. CASE Done(u) /\ ~started[usess[u]]
    BY <1>12, <2>2 DEF EndCas, IndInv, TypeOK, LocalsInv, ClaimInv, DiskInv,
           PathInv, HasClaim, Dirty, Saved, SaveAs, Done, Goto, sessVars,
           fileVars, uploadVars
  <2>3. QED
    BY <1>12, <2>1, <2>2 DEF EndCas
<1>13. ASSUME NEW u \in Upload, EndZero(u)
     PROVE  DiskInv'
  BY <1>13 DEF EndZero, IndInv, TypeOK, LocalsInv, ClaimInv, DiskInv, PathInv,
         HasClaim, Dirty, Saved, SaveAs, Done, Goto, sessVars, fileVars,
         uploadVars
<1>14. ASSUME NEW p \in Path, ForeignCreate(p)
     PROVE  DiskInv'
  BY <1>14 DEF ForeignCreate, IndInv, TypeOK, LocalsInv, ClaimInv, DiskInv,
         PathInv, HasClaim, Dirty, Saved, SaveAs, Done, Goto, sessVars,
         fileVars, uploadVars
<1>15. CASE UNCHANGED <<fileVars, disk, uploadVars>>
  BY <1>15 DEF IndInv, TypeOK, LocalsInv, ClaimInv, DiskInv, PathInv,
         HasClaim, Dirty, Saved, SaveAs, Done, Goto, sessVars, fileVars,
         uploadVars
<1>16. QED
  BY FileSteps, <1>1, <1>2, <1>3, <1>4, <1>5, <1>6, <1>7, <1>8, <1>9, <1>10,
     <1>11, <1>12, <1>13, <1>14, <1>15

\* A path is taken only while it is free.
LEMMA PathStep == IndInv /\ [Next]_vars => PathInv'
<1> SUFFICES ASSUME IndInv, [Next]_vars
             PROVE  PathInv'
  OBVIOUS
<1>1. ASSUME NEW s \in Session, NEW c \in Client, NEW F \in SUBSET File,
            AdmitCheck(s, c, F)
     PROVE  PathInv'
  BY <1>1 DEF AdmitCheck, IndInv, TypeOK, LocalsInv, ClaimInv, DiskInv,
         PathInv, HasClaim, Dirty, Saved, SaveAs, Done, Goto, sessVars,
         fileVars, uploadVars, AdmitInv
<1>2. ASSUME NEW u \in Upload, NEW s \in Session, NEW f \in File,
            UploadBegin(u, s, f)
     PROVE  PathInv'
  BY <1>2 DEF UploadBegin, IndInv, TypeOK, LocalsInv, ClaimInv, DiskInv,
         PathInv, HasClaim, Dirty, Saved, SaveAs, Done, Goto, sessVars,
         fileVars, uploadVars
<1>3. ASSUME NEW u \in Upload, NEW c \in Client, SaveCheck(u, c)
     PROVE  PathInv'
  <2>1. CASE Goto(u, "checked")
    BY <1>3, <2>1 DEF SaveCheck, IndInv, TypeOK, LocalsInv, ClaimInv, DiskInv,
           PathInv, HasClaim, Dirty, Saved, SaveAs, Done, Goto, sessVars,
           fileVars, uploadVars
  <2>2. CASE Done(u)
    BY <1>3, <2>2 DEF SaveCheck, IndInv, TypeOK, LocalsInv, ClaimInv, DiskInv,
           PathInv, HasClaim, Dirty, Saved, SaveAs, Done, Goto, sessVars,
           fileVars, uploadVars
  <2>3. QED
    BY <1>3, <2>1, <2>2 DEF SaveCheck
<1>4. ASSUME NEW u \in Upload, NEW hasToken \in BOOLEAN,
            Claim(u, hasToken)
     PROVE  PathInv'
  <2>1. CASE /\ Claimable(usess[u], ufile[u])
             /\ Goto(u, "claimed")
             /\ status' = [status EXCEPT ![usess[u]][ufile[u]] = "inProgress"]
             /\ attempts' = [attempts EXCEPT ![usess[u]][ufile[u]] = @ + 1]
    BY <1>4, <2>1 DEF Claim, IndInv, TypeOK, LocalsInv, ClaimInv, DiskInv,
           PathInv, HasClaim, Dirty, Saved, SaveAs, Done, Goto, sessVars,
           fileVars, uploadVars, Claimable
  <2>2. CASE Done(u) /\ UNCHANGED <<status, attempts>>
    BY <1>4, <2>2 DEF Claim, IndInv, TypeOK, LocalsInv, ClaimInv, DiskInv,
           PathInv, HasClaim, Dirty, Saved, SaveAs, Done, Goto, sessVars,
           fileVars, uploadVars, Claimable
  <2>3. QED
    BY <1>4, <2>1, <2>2 DEF Claim
<1>5. ASSUME NEW u \in Upload, PrepareFails(u)
     PROVE  PathInv'
  BY <1>5 DEF PrepareFails, IndInv, TypeOK, LocalsInv, ClaimInv, DiskInv,
         PathInv, HasClaim, Dirty, Saved, SaveAs, Done, Goto, sessVars,
         fileVars, uploadVars
<1>6. ASSUME NEW u \in Upload, NEW p \in Path, Create(u, p)
     PROVE  PathInv'
  BY <1>6 DEF Create, IndInv, TypeOK, LocalsInv, ClaimInv, DiskInv, PathInv,
         HasClaim, Dirty, Saved, SaveAs, Done, Goto, sessVars, fileVars,
         uploadVars, Creatable
<1>7. ASSUME NEW u \in Upload, ReadBody(u)
     PROVE  PathInv'
  BY <1>7 DEF ReadBody, IndInv, TypeOK, LocalsInv, ClaimInv, DiskInv, PathInv,
         HasClaim, Dirty, Saved, SaveAs, Done, Goto, sessVars, fileVars,
         uploadVars
<1>8. ASSUME NEW u \in Upload, NEW result \in {"finished", "pending", "failed"},
            CopyEnds(u, result)
     PROVE  PathInv'
  BY <1>8 DEF CopyEnds, IndInv, TypeOK, LocalsInv, ClaimInv, DiskInv, PathInv,
         HasClaim, Dirty, Saved, SaveAs, Done, Goto, sessVars, fileVars,
         uploadVars
<1>9. ASSUME NEW u \in Upload, CloseFile(u)
     PROVE  PathInv'
  BY <1>9 DEF CloseFile, IndInv, TypeOK, LocalsInv, ClaimInv, DiskInv,
         PathInv, HasClaim, Dirty, Saved, SaveAs, Done, Goto, sessVars,
         fileVars, uploadVars, Removes
<1>10. ASSUME NEW u \in Upload, FinishFileAttempt(u)
     PROVE  PathInv'
  <2>1. CASE Goto(u, "count") /\ ~Retries(u)
    BY <1>10, <2>1 DEF FinishFileAttempt, IndInv, TypeOK, LocalsInv, ClaimInv,
           DiskInv, PathInv, HasClaim, Dirty, Saved, SaveAs, Done, Goto,
           sessVars, fileVars, uploadVars, Retries
  <2>2. CASE Done(u) /\ Retries(u)
    BY <1>10, <2>2 DEF FinishFileAttempt, IndInv, TypeOK, LocalsInv, ClaimInv,
           DiskInv, PathInv, HasClaim, Dirty, Saved, SaveAs, Done, Goto,
           sessVars, fileVars, uploadVars, Retries
  <2>3. QED
    BY <1>10, <2>1, <2>2 DEF FinishFileAttempt, AfterAttempt
<1>11. ASSUME NEW u \in Upload, CountDown(u)
     PROVE  PathInv'
  <2>1. CASE Goto(u, "cas") /\ LastFile(usess[u])
    BY <1>11, <2>1 DEF CountDown, IndInv, TypeOK, LocalsInv, ClaimInv,
           DiskInv, PathInv, HasClaim, Dirty, Saved, SaveAs, Done, Goto,
           sessVars, fileVars, uploadVars
  <2>2. CASE Done(u) /\ ~LastFile(usess[u])
    BY <1>11, <2>2 DEF CountDown, IndInv, TypeOK, LocalsInv, ClaimInv,
           DiskInv, PathInv, HasClaim, Dirty, Saved, SaveAs, Done, Goto,
           sessVars, fileVars, uploadVars
  <2>3. QED
    BY <1>11, <2>1, <2>2 DEF CountDown
<1>12. ASSUME NEW u \in Upload, EndCas(u)
     PROVE  PathInv'
  <2>1. CASE Goto(u, "zero") /\ started[usess[u]]
    BY <1>12, <2>1 DEF EndCas, IndInv, TypeOK, LocalsInv, ClaimInv, DiskInv,
           PathInv, HasClaim, Dirty, Saved, SaveAs, Done, Goto, sessVars,
           fileVars, uploadVars
  <2>2. CASE Done(u) /\ ~started[usess[u]]
    BY <1>12, <2>2 DEF EndCas, IndInv, TypeOK, LocalsInv, ClaimInv, DiskInv,
           PathInv, HasClaim, Dirty, Saved, SaveAs, Done, Goto, sessVars,
           fileVars, uploadVars
  <2>3. QED
    BY <1>12, <2>1, <2>2 DEF EndCas
<1>13. ASSUME NEW u \in Upload, EndZero(u)
     PROVE  PathInv'
  BY <1>13 DEF EndZero, IndInv, TypeOK, LocalsInv, ClaimInv, DiskInv, PathInv,
         HasClaim, Dirty, Saved, SaveAs, Done, Goto, sessVars, fileVars,
         uploadVars
<1>14. ASSUME NEW p \in Path, ForeignCreate(p)
     PROVE  PathInv'
  BY <1>14 DEF ForeignCreate, IndInv, TypeOK, LocalsInv, ClaimInv, DiskInv,
         PathInv, HasClaim, Dirty, Saved, SaveAs, Done, Goto, sessVars,
         fileVars, uploadVars
<1>15. CASE UNCHANGED <<fileVars, disk, uploadVars>>
  BY <1>15 DEF IndInv, TypeOK, LocalsInv, ClaimInv, DiskInv, PathInv,
         HasClaim, Dirty, Saved, SaveAs, Done, Goto, sessVars, fileVars,
         uploadVars
<1>16. QED
  BY FileSteps, <1>1, <1>2, <1>3, <1>4, <1>5, <1>6, <1>7, <1>8, <1>9, <1>10,
     <1>11, <1>12, <1>13, <1>14, <1>15

\* Admission is exclusive.
LEMMA AdmitExclusiveStep == IndInv /\ [Next]_vars => AdmitInv'
<1> SUFFICES ASSUME IndInv, [Next]_vars
             PROVE  AdmitInv'
  OBVIOUS
<1>1. ASSUME NEW s \in Session, NEW c \in Client, NEW F \in SUBSET File,
            AdmitCheck(s, c, F)
     PROVE  AdmitInv'
  BY <1>1 DEF AdmitCheck, IndInv, TypeOK, LocalsInv, ClaimInv, AdmitInv,
         Unfinished, HasClaim, sessVars, fileVars, uploadVars, AdmissionLocked
<1>2. ASSUME NEW s \in Session, AdmitStore(s)
     PROVE  AdmitInv'
  BY <1>2 DEF AdmitStore, IndInv, TypeOK, LocalsInv, ClaimInv, AdmitInv,
         Unfinished, HasClaim, sessVars, fileVars, uploadVars
<1>3. ASSUME NEW s \in Session, AdmitStart(s)
     PROVE  AdmitInv'
  BY <1>3 DEF AdmitStart, IndInv, TypeOK, LocalsInv, ClaimInv, AdmitInv,
         Unfinished, HasClaim, sessVars, fileVars, uploadVars
<1>4. ASSUME NEW s \in Session, AdmitRespond(s)
     PROVE  AdmitInv'
  BY <1>4 DEF AdmitRespond, IndInv, TypeOK, LocalsInv, ClaimInv, AdmitInv,
         Unfinished, HasClaim, sessVars, fileVars, uploadVars
<1>5. ASSUME NEW s \in Session, Timeout(s)
     PROVE  AdmitInv'
  BY <1>5 DEF Timeout, IndInv, TypeOK, LocalsInv, ClaimInv, AdmitInv,
         Unfinished, HasClaim, sessVars, fileVars, uploadVars
<1>6. ASSUME NEW s \in Session, VacuumCheck(s)
     PROVE  AdmitInv'
  BY <1>6 DEF VacuumCheck, IndInv, TypeOK, LocalsInv, ClaimInv, AdmitInv,
         Unfinished, HasClaim, sessVars, fileVars, uploadVars
<1>7. CASE VacuumDelete
  BY <1>7 DEF VacuumDelete, IndInv, TypeOK, LocalsInv, ClaimInv, AdmitInv,
         Unfinished, HasClaim, sessVars, fileVars, uploadVars
<1>8. ASSUME NEW s \in Session, NEW c \in Client, Kill(s, c)
     PROVE  AdmitInv'
  BY <1>8 DEF Kill, IndInv, TypeOK, LocalsInv, ClaimInv, AdmitInv, Unfinished,
         HasClaim, sessVars, fileVars, uploadVars
<1>9. ASSUME NEW s \in Session, KillCas(s)
     PROVE  AdmitInv'
  BY <1>9 DEF KillCas, IndInv, TypeOK, LocalsInv, ClaimInv, AdmitInv,
         Unfinished, HasClaim, sessVars, fileVars, uploadVars
<1>10. ASSUME NEW s \in Session, KillZero(s)
     PROVE  AdmitInv'
  BY <1>10 DEF KillZero, IndInv, TypeOK, LocalsInv, ClaimInv, AdmitInv,
         Unfinished, HasClaim, sessVars, fileVars, uploadVars
<1>11. ASSUME NEW u \in Upload, NEW s \in Session, NEW f \in File,
            UploadBegin(u, s, f)
     PROVE  AdmitInv'
  BY <1>11 DEF UploadBegin, IndInv, TypeOK, LocalsInv, ClaimInv, AdmitInv,
         Unfinished, HasClaim, sessVars, fileVars, uploadVars
<1>12. ASSUME NEW u \in Upload, NEW c \in Client, SaveCheck(u, c)
     PROVE  AdmitInv'
  BY <1>12 DEF SaveCheck, IndInv, TypeOK, LocalsInv, ClaimInv, AdmitInv,
         Unfinished, HasClaim, sessVars, fileVars, uploadVars
<1>13. ASSUME NEW u \in Upload, NEW hasToken \in BOOLEAN,
            Claim(u, hasToken)
     PROVE  AdmitInv'
  <2>1. CASE /\ Claimable(usess[u], ufile[u])
             /\ Goto(u, "claimed")
             /\ status' = [status EXCEPT ![usess[u]][ufile[u]] = "inProgress"]
             /\ attempts' = [attempts EXCEPT ![usess[u]][ufile[u]] = @ + 1]
    BY <1>13, <2>1 DEF Claim, IndInv, TypeOK, LocalsInv, ClaimInv, AdmitInv,
           Unfinished, HasClaim, sessVars, fileVars, uploadVars, Claimable
  <2>2. CASE Done(u) /\ UNCHANGED <<status, attempts>>
    BY <1>13, <2>2 DEF Claim, IndInv, TypeOK, LocalsInv, ClaimInv, AdmitInv,
           Unfinished, HasClaim, sessVars, fileVars, uploadVars, Claimable
  <2>3. QED
    BY <1>13, <2>1, <2>2 DEF Claim
<1>14. ASSUME NEW u \in Upload, PrepareFails(u)
     PROVE  AdmitInv'
  BY <1>14 DEF PrepareFails, IndInv, TypeOK, LocalsInv, ClaimInv, AdmitInv,
         Unfinished, HasClaim, sessVars, fileVars, uploadVars
<1>15. ASSUME NEW u \in Upload, NEW p \in Path, Create(u, p)
     PROVE  AdmitInv'
  BY <1>15 DEF Create, IndInv, TypeOK, LocalsInv, ClaimInv, AdmitInv,
         Unfinished, HasClaim, sessVars, fileVars, uploadVars
<1>16. ASSUME NEW u \in Upload, ReadBody(u)
     PROVE  AdmitInv'
  BY <1>16 DEF ReadBody, IndInv, TypeOK, LocalsInv, ClaimInv, AdmitInv,
         Unfinished, HasClaim, sessVars, fileVars, uploadVars
<1>17. ASSUME NEW u \in Upload, NEW result \in {"finished", "pending", "failed"},
            CopyEnds(u, result)
     PROVE  AdmitInv'
  BY <1>17 DEF CopyEnds, IndInv, TypeOK, LocalsInv, ClaimInv, AdmitInv,
         Unfinished, HasClaim, sessVars, fileVars, uploadVars
<1>18. ASSUME NEW u \in Upload, CloseFile(u)
     PROVE  AdmitInv'
  BY <1>18 DEF CloseFile, IndInv, TypeOK, LocalsInv, ClaimInv, AdmitInv,
         Unfinished, HasClaim, sessVars, fileVars, uploadVars
<1>19. ASSUME NEW u \in Upload, FinishFileAttempt(u)
     PROVE  AdmitInv'
  BY <1>19 DEF FinishFileAttempt, IndInv, TypeOK, LocalsInv, ClaimInv,
         AdmitInv, Unfinished, HasClaim, sessVars, fileVars, uploadVars
<1>20. ASSUME NEW u \in Upload, CountDown(u)
     PROVE  AdmitInv'
  BY <1>20 DEF CountDown, IndInv, TypeOK, LocalsInv, ClaimInv, AdmitInv,
         Unfinished, HasClaim, sessVars, fileVars, uploadVars
<1>21. ASSUME NEW u \in Upload, EndCas(u)
     PROVE  AdmitInv'
  BY <1>21 DEF EndCas, IndInv, TypeOK, LocalsInv, ClaimInv, AdmitInv,
         Unfinished, HasClaim, sessVars, fileVars, uploadVars
<1>22. ASSUME NEW u \in Upload, EndZero(u)
     PROVE  AdmitInv'
  BY <1>22 DEF EndZero, IndInv, TypeOK, LocalsInv, ClaimInv, AdmitInv,
         Unfinished, HasClaim, sessVars, fileVars, uploadVars
<1>23. ASSUME NEW p \in Path, ForeignCreate(p)
     PROVE  AdmitInv'
  BY <1>23 DEF ForeignCreate, IndInv, TypeOK, LocalsInv, ClaimInv, AdmitInv,
         Unfinished, HasClaim, sessVars, fileVars, uploadVars
<1>24. CASE UNCHANGED vars
  BY <1>24 DEF vars, IndInv, TypeOK, LocalsInv, ClaimInv, AdmitInv,
         Unfinished, HasClaim, sessVars, fileVars, uploadVars
<1>25. QED
  BY <1>1, <1>2, <1>3, <1>4, <1>5, <1>6, <1>7, <1>8, <1>9, <1>10, <1>11,
     <1>12, <1>13, <1>14, <1>15, <1>16, <1>17, <1>18, <1>19, <1>20, <1>21,
     <1>22, <1>23, <1>24 DEF Next, AdmitStep, KillStep, HandlerStep

\* Files and handlers are finite sets, and so are their parts.
LEMMA FiniteParts ==
    ASSUME NEW s \in Session
    PROVE  /\ IsFiniteSet(Unfinished(s)) /\ Cardinality(Unfinished(s)) \in Nat
           /\ IsFiniteSet(Uncounted(s)) /\ Cardinality(Uncounted(s)) \in Nat
<1>1. Unfinished(s) \subseteq File /\ Uncounted(s) \subseteq Upload
  BY DEF Unfinished, Uncounted
<1>2. IsFiniteSet(Unfinished(s)) /\ IsFiniteSet(Uncounted(s))
  BY <1>1, SetsAssumption, FS_Subset
<1>3. QED
  BY <1>2, FS_CardinalityType

\* A decrement on its way is part of a running session's counter.
LEMMA CountPositive ==
    ASSUME IndInv, NEW u \in Upload, upc[u] = "count", started[usess[u]]
    PROVE  /\ filesCount[usess[u]] >= 1
           /\ filesCount[usess[u]] = 1 => Unfinished(usess[u]) = {}
<1> DEFINE s == usess[u]
<1>1. s \in Session
  BY DEF IndInv, LocalsInv
<1>2. filesCount[s] = Cardinality(Unfinished(s)) + Cardinality(Uncounted(s))
  BY <1>1 DEF IndInv, CountMatches
<1>3. Cardinality(Uncounted(s)) # 0
  <2>1. u \in Uncounted(s)
    BY DEF Uncounted
  <2>2. QED
    BY <2>1, <1>1, FiniteParts, FS_EmptySet
<1>4. Cardinality(Unfinished(s)) = 0 => Unfinished(s) = {}
  BY <1>1, FiniteParts, FS_EmptySet
<1>5. QED
  BY <1>1, <1>2, <1>3, <1>4, FiniteParts

\* A session being admitted has files to receive.
LEMMA AdmittedPositive ==
    ASSUME IndInv, NEW s \in Session, life[s] \in {"storing", "stored"}
    PROVE  filesCount[s] # 0
<1>1. filesCount[s] = Cardinality(Unfinished(s)) + Cardinality(Uncounted(s))
  BY DEF IndInv, CountMatches
<1>2. Cardinality(Unfinished(s)) # 0
  <2>1. Unfinished(s) # {}
    BY DEF IndInv, AdmitInv
  <2>2. QED
    BY <2>1, FiniteParts, FS_EmptySet
<1>3. QED
  BY <1>1, <1>2, FiniteParts

\* What CountMatches says of session t is untouched by the step.
CountKept(t) ==
    /\ Running(t)
    /\ filesCount'[t] = filesCount[t]
    /\ Unfinished(t)' = Unfinished(t)
    /\ Uncounted(t)' = Uncounted(t)

\* The counter of a running session follows its files: AdmitCheck sets it,
\* FinishFileAttempt moves a file from unfinished to uncounted, CountDown takes
\* it off, and no other step touches it while the session runs.
LEMMA CountStep == IndInv /\ [Next]_vars => CountMatches'
<1> SUFFICES ASSUME IndInv, [Next]_vars, NEW t \in Session, Running(t)'
             PROVE  filesCount'[t] = Cardinality(Unfinished(t)') + Cardinality(Uncounted(t)')
  BY DEF CountMatches, Running
<1>0. ASSUME CountKept(t)
      PROVE  filesCount'[t] = Cardinality(Unfinished(t)') + Cardinality(Uncounted(t)')
  BY <1>0 DEF CountKept, Running, IndInv, CountMatches
<1>1. ASSUME NEW s \in Session, NEW c \in Client, NEW F \in SUBSET File,
            AdmitCheck(s, c, F)
     PROVE  filesCount'[t] = Cardinality(Unfinished(t)') + Cardinality(Uncounted(t)')
  <2>1. CASE t = s
    <3>1. Unfinished(t)' = F
      BY <1>1, <2>1 DEF AdmitCheck, IndInv, TypeOK, Unfinished
    <3>2. Uncounted(t)' = {}
      BY <1>1, <2>1 DEF AdmitCheck, IndInv, LocalsInv, Uncounted, uploadVars
    <3>3. filesCount'[t] = Cardinality(F) /\ Cardinality(F) \in Nat
      BY <1>1, <2>1, OfferCounted DEF AdmitCheck, IndInv, TypeOK
    <3>4. QED
      BY <3>1, <3>2, <3>3, FS_EmptySet
  <2>2. CASE t # s
    <3>1. CountKept(t)
      BY <1>1, <2>2 DEF AdmitCheck, IndInv, TypeOK, CountKept, Running,
           Unfinished, Uncounted, uploadVars
    <3>2. QED
      BY <3>1, <1>0
  <2>3. QED
    BY <2>1, <2>2
<1>2. ASSUME NEW s \in Session,
            AdmitStore(s)
     PROVE  CountKept(t)
  BY <1>2 DEF AdmitStore, IndInv, TypeOK, LocalsInv, AdmitInv, ClaimInv,
         EndInv, HasClaim, CountKept, Running, Unfinished, Uncounted, Done,
         Goto, sessVars, fileVars, uploadVars
<1>3. ASSUME NEW s \in Session,
            AdmitStart(s)
     PROVE  CountKept(t)
  BY <1>3 DEF AdmitStart, IndInv, TypeOK, LocalsInv, AdmitInv, ClaimInv,
         EndInv, HasClaim, CountKept, Running, Unfinished, Uncounted, Done,
         Goto, sessVars, fileVars, uploadVars
<1>4. ASSUME NEW s \in Session,
            AdmitRespond(s)
     PROVE  CountKept(t)
  BY <1>4 DEF AdmitRespond, IndInv, TypeOK, LocalsInv, AdmitInv, ClaimInv,
         EndInv, HasClaim, CountKept, Running, Unfinished, Uncounted, Done,
         Goto, sessVars, fileVars, uploadVars
<1>5. ASSUME NEW s \in Session,
            Timeout(s)
     PROVE  CountKept(t)
  BY <1>5 DEF Timeout, IndInv, TypeOK, LocalsInv, AdmitInv, ClaimInv, EndInv,
         HasClaim, CountKept, Running, Unfinished, Uncounted, Done, Goto,
         sessVars, fileVars, uploadVars
<1>6. ASSUME NEW s \in Session,
            VacuumCheck(s)
     PROVE  CountKept(t)
  BY <1>6 DEF VacuumCheck, IndInv, TypeOK, LocalsInv, AdmitInv, ClaimInv,
         EndInv, HasClaim, CountKept, Running, Unfinished, Uncounted, Done,
         Goto, sessVars, fileVars, uploadVars
<1>7. ASSUME VacuumDelete
     PROVE  CountKept(t)
  BY <1>7 DEF VacuumDelete, IndInv, TypeOK, LocalsInv, AdmitInv, ClaimInv,
         EndInv, HasClaim, CountKept, Running, Unfinished, Uncounted, Done,
         Goto, sessVars, fileVars, uploadVars
<1>8. ASSUME NEW s \in Session, NEW c \in Client,
            Kill(s, c)
     PROVE  CountKept(t)
  BY <1>8 DEF Kill, IndInv, TypeOK, LocalsInv, AdmitInv, ClaimInv, EndInv,
         HasClaim, CountKept, Running, Unfinished, Uncounted, Done, Goto,
         sessVars, fileVars, uploadVars
<1>9. ASSUME NEW s \in Session,
            KillCas(s)
     PROVE  CountKept(t)
  BY <1>9 DEF KillCas, IndInv, TypeOK, LocalsInv, AdmitInv, ClaimInv, EndInv,
         HasClaim, CountKept, Running, Unfinished, Uncounted, Done, Goto,
         sessVars, fileVars, uploadVars
<1>10. ASSUME NEW s \in Session,
            KillZero(s)
     PROVE  CountKept(t)
  <2>1. t # s
    BY <1>10 DEF KillZero, IndInv, EndInv, AdmitInv, Running
  <2>2. QED
    BY <1>10, <2>1 DEF KillZero, IndInv, TypeOK, CountKept, Running, Unfinished,
         Uncounted, fileVars, uploadVars
<1>11. ASSUME NEW u \in Upload, NEW s \in Session, NEW f \in File,
            UploadBegin(u, s, f)
     PROVE  CountKept(t)
  BY <1>11 DEF UploadBegin, IndInv, TypeOK, LocalsInv, AdmitInv, ClaimInv,
         EndInv, HasClaim, CountKept, Running, Unfinished, Uncounted, Done,
         Goto, sessVars, fileVars, uploadVars
<1>12. ASSUME NEW u \in Upload, NEW c \in Client,
            SaveCheck(u, c)
     PROVE  CountKept(t)
  <2>1. CASE Goto(u, "checked")
    BY <1>12, <2>1 DEF SaveCheck, IndInv, TypeOK, LocalsInv, AdmitInv,
           ClaimInv, EndInv, HasClaim, CountKept, Running, Unfinished,
           Uncounted, Done, Goto, sessVars, fileVars, uploadVars
  <2>2. CASE Done(u)
    BY <1>12, <2>2 DEF SaveCheck, IndInv, TypeOK, LocalsInv, AdmitInv,
           ClaimInv, EndInv, HasClaim, CountKept, Running, Unfinished,
           Uncounted, Done, Goto, sessVars, fileVars, uploadVars
  <2>3. QED
    BY <1>12, <2>1, <2>2 DEF SaveCheck
<1>13. ASSUME NEW u \in Upload, NEW hasToken \in BOOLEAN,
            Claim(u, hasToken)
     PROVE  CountKept(t)
  <2>1. CASE /\ Claimable(usess[u], ufile[u])
             /\ Goto(u, "claimed")
             /\ status' = [status EXCEPT ![usess[u]][ufile[u]] = "inProgress"]
             /\ attempts' = [attempts EXCEPT ![usess[u]][ufile[u]] = @ + 1]
    BY <1>13, <2>1 DEF Claim, IndInv, TypeOK, LocalsInv, AdmitInv, ClaimInv,
           EndInv, HasClaim, CountKept, Running, Unfinished, Uncounted, Done,
           Goto, sessVars, fileVars, uploadVars, Claimable
  <2>2. CASE Done(u) /\ UNCHANGED <<status, attempts>>
    BY <1>13, <2>2 DEF Claim, IndInv, TypeOK, LocalsInv, AdmitInv, ClaimInv,
           EndInv, HasClaim, CountKept, Running, Unfinished, Uncounted, Done,
           Goto, sessVars, fileVars, uploadVars, Claimable
  <2>3. QED
    BY <1>13, <2>1, <2>2 DEF Claim
<1>14. ASSUME NEW u \in Upload,
            PrepareFails(u)
     PROVE  CountKept(t)
  BY <1>14 DEF PrepareFails, IndInv, TypeOK, LocalsInv, AdmitInv, ClaimInv,
         EndInv, HasClaim, CountKept, Running, Unfinished, Uncounted, Done,
         Goto, sessVars, fileVars, uploadVars
<1>15. ASSUME NEW u \in Upload, NEW p \in Path,
            Create(u, p)
     PROVE  CountKept(t)
  BY <1>15 DEF Create, IndInv, TypeOK, LocalsInv, AdmitInv, ClaimInv, EndInv,
         HasClaim, CountKept, Running, Unfinished, Uncounted, Done, Goto,
         sessVars, fileVars, uploadVars
<1>16. ASSUME NEW u \in Upload,
            ReadBody(u)
     PROVE  CountKept(t)
  BY <1>16 DEF ReadBody, IndInv, TypeOK, LocalsInv, AdmitInv, ClaimInv,
         EndInv, HasClaim, CountKept, Running, Unfinished, Uncounted, Done,
         Goto, sessVars, fileVars, uploadVars
<1>17. ASSUME NEW u \in Upload, NEW result \in {"finished", "pending", "failed"},
            CopyEnds(u, result)
     PROVE  CountKept(t)
  BY <1>17 DEF CopyEnds, IndInv, TypeOK, LocalsInv, AdmitInv, ClaimInv,
         EndInv, HasClaim, CountKept, Running, Unfinished, Uncounted, Done,
         Goto, sessVars, fileVars, uploadVars
<1>18. ASSUME NEW u \in Upload,
            CloseFile(u)
     PROVE  CountKept(t)
  BY <1>18 DEF CloseFile, IndInv, TypeOK, LocalsInv, AdmitInv, ClaimInv,
         EndInv, HasClaim, CountKept, Running, Unfinished, Uncounted, Done,
         Goto, sessVars, fileVars, uploadVars
<1>19. ASSUME NEW u \in Upload,
            FinishFileAttempt(u)
     PROVE  filesCount'[t] = Cardinality(Unfinished(t)') + Cardinality(Uncounted(t)')
  <2>0. usess[u] \in Session /\ ufile[u] \in File
        /\ status[usess[u]][ufile[u]] = "inProgress"
    BY <1>19 DEF FinishFileAttempt, IndInv, LocalsInv, ClaimInv, HasClaim
  <2>1. CASE t = usess[u] /\ Goto(u, "count") /\ ~Retries(u)
    <3>1. Unfinished(t)' = Unfinished(t) \ {ufile[u]} /\ ufile[u] \in Unfinished(t)
      BY <1>19, <2>0, <2>1 DEF FinishFileAttempt, IndInv, TypeOK, Unfinished
    <3>2. Uncounted(t)' = Uncounted(t) \cup {u} /\ u \notin Uncounted(t)
      BY <1>19, <2>0, <2>1 DEF FinishFileAttempt, IndInv, TypeOK, Uncounted, Goto
    <3>3. Cardinality(Unfinished(t)') = Cardinality(Unfinished(t)) - 1
      BY ZenonT(60), <3>1, FiniteParts, FS_RemoveElement
    <3>4. Cardinality(Uncounted(t)') = Cardinality(Uncounted(t)) + 1
      BY <3>2, FiniteParts, FS_AddElement
    <3>5. Running(t) /\ filesCount'[t] = filesCount[t]
      BY <1>19 DEF FinishFileAttempt, Running, sessVars
    <3>6. QED
      BY <3>3, <3>4, <3>5, FiniteParts DEF IndInv, CountMatches, Running
  <2>2. CASE t # usess[u] \/ (Done(u) /\ Retries(u))
    <3>1. Running(t) /\ filesCount'[t] = filesCount[t]
      BY <1>19 DEF FinishFileAttempt, Running, sessVars
    <3>2. Unfinished(t)' = Unfinished(t)
      BY <1>19, <2>0, <2>2 DEF FinishFileAttempt, IndInv, TypeOK, Unfinished
    <3>3. Uncounted(t)' = Uncounted(t)
      <4>1. CASE Done(u)
        BY <1>19, <2>0, <4>1 DEF FinishFileAttempt, IndInv, TypeOK, Uncounted, Done
      <4>2. CASE t # usess[u] /\ Goto(u, "count")
        BY <1>19, <2>0, <4>2 DEF FinishFileAttempt, IndInv, TypeOK, Uncounted, Goto
      <4>3. QED
        BY <1>19, <2>2, <4>1, <4>2 DEF FinishFileAttempt, AfterAttempt
    <3>4. QED
      BY <3>1, <3>2, <3>3, <1>0 DEF CountKept
  <2>3. QED
    BY <1>19, <2>1, <2>2 DEF FinishFileAttempt, AfterAttempt
<1>20. ASSUME NEW u \in Upload,
            CountDown(u)
     PROVE  filesCount'[t] = Cardinality(Unfinished(t)') + Cardinality(Uncounted(t)')
  <2>0. usess[u] \in Session
    BY <1>20 DEF CountDown, IndInv, LocalsInv
  <2>1. Running(t) /\ Unfinished(t)' = Unfinished(t)
    BY <1>20 DEF CountDown, Running, Unfinished, fileVars
  <2>2. CASE t = usess[u]
    <3>1. Uncounted(t)' = Uncounted(t) \ {u} /\ u \in Uncounted(t)
      <4>1. CASE Goto(u, "cas")
        BY <1>20, <2>2, <4>1 DEF CountDown, IndInv, TypeOK, Uncounted, Goto
      <4>2. CASE Done(u)
        BY <1>20, <2>2, <4>2 DEF CountDown, IndInv, TypeOK, LocalsInv, Uncounted, Done
      <4>3. QED
        BY <1>20, <4>1, <4>2 DEF CountDown
    <3>2. Cardinality(Uncounted(t)') = Cardinality(Uncounted(t)) - 1
      BY <3>1, FiniteParts, FS_RemoveElement
    <3>3. filesCount'[t] = filesCount[t] - 1
      BY <1>20, <2>2 DEF CountDown, IndInv, TypeOK
    <3>4. QED
      BY <2>1, <3>2, <3>3, FiniteParts DEF IndInv, CountMatches, Running
  <2>3. CASE t # usess[u]
    <3>1. Uncounted(t)' = Uncounted(t)
      <4>1. CASE Goto(u, "cas")
        BY <1>20, <2>3, <4>1 DEF CountDown, IndInv, TypeOK, Uncounted, Goto
      <4>2. CASE Done(u)
        BY <1>20, <2>3, <4>2 DEF CountDown, IndInv, TypeOK, LocalsInv, Uncounted, Done
      <4>3. QED
        BY <1>20, <4>1, <4>2 DEF CountDown
    <3>2. filesCount'[t] = filesCount[t]
      BY <1>20, <2>3 DEF CountDown, IndInv, TypeOK
    <3>3. QED
      BY <2>1, <3>1, <3>2, <1>0 DEF CountKept
  <2>4. QED
    BY <2>2, <2>3
<1>21. ASSUME NEW u \in Upload,
            EndCas(u)
     PROVE  CountKept(t)
  <2>1. CASE Goto(u, "zero") /\ started[usess[u]]
    BY <1>21, <2>1 DEF EndCas, IndInv, TypeOK, LocalsInv, AdmitInv, ClaimInv,
           EndInv, HasClaim, CountKept, Running, Unfinished, Uncounted, Done,
           Goto, sessVars, fileVars, uploadVars
  <2>2. CASE Done(u) /\ ~started[usess[u]]
    BY <1>21, <2>2 DEF EndCas, IndInv, TypeOK, LocalsInv, AdmitInv, ClaimInv,
           EndInv, HasClaim, CountKept, Running, Unfinished, Uncounted, Done,
           Goto, sessVars, fileVars, uploadVars
  <2>3. QED
    BY <1>21, <2>1, <2>2 DEF EndCas
<1>22. ASSUME NEW u \in Upload,
            EndZero(u)
     PROVE  CountKept(t)
  BY <1>22 DEF EndZero, IndInv, TypeOK, LocalsInv, AdmitInv, ClaimInv, EndInv,
         HasClaim, CountKept, Running, Unfinished, Uncounted, Done, Goto,
         sessVars, fileVars, uploadVars
<1>23. ASSUME NEW p \in Path,
            ForeignCreate(p)
     PROVE  CountKept(t)
  BY <1>23 DEF ForeignCreate, IndInv, TypeOK, LocalsInv, AdmitInv, ClaimInv,
         EndInv, HasClaim, CountKept, Running, Unfinished, Uncounted, Done,
         Goto, sessVars, fileVars, uploadVars
<1>24. ASSUME UNCHANGED vars
     PROVE  CountKept(t)
  BY <1>24 DEF vars, CountKept, Running, Unfinished, Uncounted, sessVars, fileVars, uploadVars
<1>25. QED
  BY <1>0, <1>1, <1>2, <1>3, <1>4, <1>5, <1>6, <1>7, <1>8, <1>9, <1>10, <1>11,
     <1>12, <1>13, <1>14, <1>15, <1>16, <1>17, <1>18, <1>19, <1>20, <1>21,
     <1>22, <1>23, <1>24 DEF Next, AdmitStep, KillStep, HandlerStep

\* A session ends when it should.
LEMMA EndStep == IndInv /\ [Next]_vars => EndInv'
<1> SUFFICES ASSUME IndInv, [Next]_vars
             PROVE  EndInv'
  OBVIOUS
<1>1. ASSUME NEW s \in Session, NEW c \in Client, NEW F \in SUBSET File,
            AdmitCheck(s, c, F)
     PROVE  EndInv'
  <2>1. \A t \in Session : t # s => Unfinished(t)' = Unfinished(t)
    BY <1>1 DEF AdmitCheck, IndInv, TypeOK, Unfinished
  <2>2. \A v \in Upload : upc[v] # "idle" => usess[v] # s
    BY <1>1 DEF AdmitCheck, IndInv, LocalsInv
  <2>3. /\ ~started[s]
        /\ \A t \in Session : t # s => filesCount'[t] = filesCount[t]
    BY ZenonT(60), <1>1 DEF AdmitCheck, IndInv, TypeOK, AdmitInv
  <2>4. \A t \in Session : started'[t] /\ filesCount'[t] = 0 =>
           \E v \in Upload : usess'[v] = t /\ upc'[v] = "cas"
    BY <1>1, <2>1, <2>2, <2>3 DEF AdmitCheck, IndInv, TypeOK, EndInv, AdmitInv, uploadVars
  <2>5. \A t \in Session : Ended(t)' /\ killer'[t] = "none" => Unfinished(t)' = {}
    BY <1>1, <2>1, <2>2, <2>3 DEF AdmitCheck, IndInv, TypeOK, EndInv, Ended
  <2>6. /\ \A v \in Upload : upc'[v] = "zero" => ~started'[usess'[v]]
        /\ \A t \in Session : killer'[t] = "zero" => ~started'[t]
    BY <1>1, <2>1, <2>2, <2>3 DEF AdmitCheck, IndInv, TypeOK, LocalsInv, EndInv, AdmitInv, uploadVars
  <2>7. \A v \in Upload : upc'[v] = "cas" =>
           Unfinished(usess[v])' = {} \/ killer'[usess'[v]] # "none"
    BY <1>1, <2>1, <2>2, <2>3 DEF AdmitCheck, IndInv, LocalsInv, EndInv, uploadVars
  <2>8. QED
    BY <2>4, <2>5, <2>6, <2>7 DEF EndInv
<1>2. ASSUME NEW s \in Session, AdmitStore(s)
     PROVE  EndInv'
  BY <1>2 DEF AdmitStore, IndInv, TypeOK, LocalsInv, EndInv, AdmitInv, Ended,
         Unfinished, Done, Goto, sessVars, fileVars, uploadVars
<1>3. ASSUME NEW s \in Session, AdmitStart(s)
     PROVE  EndInv'
  <2>1. \A t \in Session : Unfinished(t)' = Unfinished(t)
    BY <1>3 DEF AdmitStart, Unfinished, fileVars
  <2>2. filesCount[s] # 0
    BY <1>3, AdmittedPositive DEF AdmitStart
  <2>3. \A v \in Upload : upc[v] # "idle" => usess[v] # s
    BY <1>3 DEF AdmitStart, IndInv, LocalsInv
  <2>4. \A t \in Session : started'[t] /\ filesCount'[t] = 0 =>
           \E v \in Upload : usess'[v] = t /\ upc'[v] = "cas"
    BY <1>3, <2>1, <2>2, <2>3 DEF AdmitStart, IndInv, TypeOK, EndInv, AdmitInv, uploadVars
  <2>5. \A t \in Session : Ended(t)' /\ killer'[t] = "none" => Unfinished(t)' = {}
    BY <1>3, <2>1, <2>2, <2>3 DEF AdmitStart, IndInv, TypeOK, EndInv, Ended
  <2>6. /\ \A v \in Upload : upc'[v] = "zero" => ~started'[usess'[v]]
        /\ \A t \in Session : killer'[t] = "zero" => ~started'[t]
    <3>1. \A t \in Session : t # s => started'[t] = started[t]
      BY <1>3 DEF AdmitStart, IndInv, TypeOK
    <3>2. killer[s] # "zero"
      BY <1>3 DEF AdmitStart, IndInv, AdmitInv
    <3>3. QED
      BY <1>3, <2>3, <3>1, <3>2 DEF AdmitStart, IndInv, LocalsInv, EndInv, uploadVars
  <2>7. \A v \in Upload : upc'[v] = "cas" =>
           Unfinished(usess[v])' = {} \/ killer'[usess'[v]] # "none"
    BY <1>3, <2>1, <2>2, <2>3 DEF AdmitStart, IndInv, LocalsInv, EndInv, uploadVars
  <2>8. QED
    BY <2>4, <2>5, <2>6, <2>7 DEF EndInv
<1>4. ASSUME NEW s \in Session, AdmitRespond(s)
     PROVE  EndInv'
  BY <1>4 DEF AdmitRespond, IndInv, TypeOK, LocalsInv, EndInv, AdmitInv,
         Ended, Unfinished, Done, Goto, sessVars, fileVars, uploadVars
<1>5. ASSUME NEW s \in Session, Timeout(s)
     PROVE  EndInv'
  BY <1>5 DEF Timeout, IndInv, TypeOK, LocalsInv, EndInv, AdmitInv, Ended,
         Unfinished, Done, Goto, sessVars, fileVars, uploadVars
<1>6. ASSUME NEW s \in Session, VacuumCheck(s)
     PROVE  EndInv'
  BY <1>6 DEF VacuumCheck, IndInv, TypeOK, LocalsInv, EndInv, AdmitInv, Ended,
         Unfinished, Done, Goto, sessVars, fileVars, uploadVars
<1>7. CASE VacuumDelete
  BY <1>7 DEF VacuumDelete, IndInv, TypeOK, LocalsInv, EndInv, AdmitInv,
         Ended, Unfinished, Done, Goto, sessVars, fileVars, uploadVars
<1>8. ASSUME NEW s \in Session, NEW c \in Client, Kill(s, c)
     PROVE  EndInv'
  BY <1>8 DEF Kill, IndInv, TypeOK, LocalsInv, EndInv, AdmitInv, Ended,
         Unfinished, Done, Goto, sessVars, fileVars, uploadVars
<1>9. ASSUME NEW s \in Session, KillCas(s)
     PROVE  EndInv'
  BY <1>9 DEF KillCas, IndInv, TypeOK, LocalsInv, EndInv, AdmitInv, Ended,
         Unfinished, Done, Goto, sessVars, fileVars, uploadVars
<1>10. ASSUME NEW s \in Session, KillZero(s)
     PROVE  EndInv'
  BY <1>10 DEF KillZero, IndInv, TypeOK, LocalsInv, EndInv, AdmitInv, Ended,
         Unfinished, Done, Goto, sessVars, fileVars, uploadVars
<1>11. ASSUME NEW u \in Upload, NEW s \in Session, NEW f \in File,
            UploadBegin(u, s, f)
     PROVE  EndInv'
  BY <1>11 DEF UploadBegin, IndInv, TypeOK, LocalsInv, EndInv, AdmitInv,
         Ended, Unfinished, Done, Goto, sessVars, fileVars, uploadVars
<1>12. ASSUME NEW u \in Upload, NEW c \in Client, SaveCheck(u, c)
     PROVE  EndInv'
  <2>1. CASE Goto(u, "checked")
    BY <1>12, <2>1 DEF SaveCheck, IndInv, TypeOK, LocalsInv, EndInv, AdmitInv,
           Ended, Unfinished, Done, Goto, sessVars, fileVars, uploadVars
  <2>2. CASE Done(u)
    BY <1>12, <2>2 DEF SaveCheck, IndInv, TypeOK, LocalsInv, EndInv, AdmitInv,
           Ended, Unfinished, Done, Goto, sessVars, fileVars, uploadVars
  <2>3. QED
    BY <1>12, <2>1, <2>2 DEF SaveCheck
<1>13. ASSUME NEW u \in Upload, NEW hasToken \in BOOLEAN,
            Claim(u, hasToken)
     PROVE  EndInv'
  <2>1. CASE /\ Claimable(usess[u], ufile[u])
             /\ Goto(u, "claimed")
             /\ status' = [status EXCEPT ![usess[u]][ufile[u]] = "inProgress"]
             /\ attempts' = [attempts EXCEPT ![usess[u]][ufile[u]] = @ + 1]
    BY <1>13, <2>1 DEF Claim, IndInv, TypeOK, LocalsInv, EndInv, AdmitInv,
           Ended, Unfinished, Done, Goto, sessVars, fileVars, uploadVars,
           Claimable
  <2>2. CASE Done(u) /\ UNCHANGED <<status, attempts>>
    BY <1>13, <2>2 DEF Claim, IndInv, TypeOK, LocalsInv, EndInv, AdmitInv,
           Ended, Unfinished, Done, Goto, sessVars, fileVars, uploadVars,
           Claimable
  <2>3. QED
    BY <1>13, <2>1, <2>2 DEF Claim
<1>14. ASSUME NEW u \in Upload, PrepareFails(u)
     PROVE  EndInv'
  BY <1>14 DEF PrepareFails, IndInv, TypeOK, LocalsInv, EndInv, AdmitInv,
         Ended, Unfinished, Done, Goto, sessVars, fileVars, uploadVars
<1>15. ASSUME NEW u \in Upload, NEW p \in Path, Create(u, p)
     PROVE  EndInv'
  BY <1>15 DEF Create, IndInv, TypeOK, LocalsInv, EndInv, AdmitInv, Ended,
         Unfinished, Done, Goto, sessVars, fileVars, uploadVars
<1>16. ASSUME NEW u \in Upload, ReadBody(u)
     PROVE  EndInv'
  BY <1>16 DEF ReadBody, IndInv, TypeOK, LocalsInv, EndInv, AdmitInv, Ended,
         Unfinished, Done, Goto, sessVars, fileVars, uploadVars
<1>17. ASSUME NEW u \in Upload, NEW result \in {"finished", "pending", "failed"},
            CopyEnds(u, result)
     PROVE  EndInv'
  BY <1>17 DEF CopyEnds, IndInv, TypeOK, LocalsInv, EndInv, AdmitInv, Ended,
         Unfinished, Done, Goto, sessVars, fileVars, uploadVars
<1>18. ASSUME NEW u \in Upload, CloseFile(u)
     PROVE  EndInv'
  BY <1>18 DEF CloseFile, IndInv, TypeOK, LocalsInv, EndInv, AdmitInv, Ended,
         Unfinished, Done, Goto, sessVars, fileVars, uploadVars
<1>19. ASSUME NEW u \in Upload, FinishFileAttempt(u)
     PROVE  EndInv'
  <2>1. CASE Goto(u, "count") /\ ~Retries(u)
    BY <1>19, <2>1 DEF FinishFileAttempt, IndInv, TypeOK, LocalsInv, EndInv,
           AdmitInv, Ended, Unfinished, Done, Goto, sessVars, fileVars,
           uploadVars, ClaimInv, HasClaim
  <2>2. CASE Done(u) /\ Retries(u)
    BY <1>19, <2>2 DEF FinishFileAttempt, IndInv, TypeOK, LocalsInv, EndInv,
           AdmitInv, Ended, Unfinished, Done, Goto, sessVars, fileVars,
           uploadVars, ClaimInv, HasClaim
  <2>3. QED
    BY <1>19, <2>1, <2>2 DEF FinishFileAttempt, AfterAttempt
<1>20. ASSUME NEW u \in Upload, CountDown(u)
     PROVE  EndInv'
  <2>0. usess[u] \in Session /\ life[usess[u]] = "open"
    BY <1>20 DEF CountDown, IndInv, LocalsInv
  <2>1. CASE Goto(u, "cas") /\ LastFile(usess[u])
    <3>1. \A t \in Session : Unfinished(t)' = Unfinished(t)
      BY <1>20 DEF CountDown, Unfinished, fileVars
    <3>2. Unfinished(usess[u]) = {} \/ killer[usess[u]] # "none"
      BY <1>20, <2>0, <2>1, CountPositive DEF CountDown, LastFile, IndInv, EndInv, Ended
    <3>3. \A t \in Session : t # usess[u] => filesCount'[t] = filesCount[t]
      BY <1>20 DEF CountDown, IndInv, TypeOK
    <3>4. QED
      BY <1>20, <2>0, <2>1, <3>1, <3>2, <3>3 DEF CountDown, Goto, IndInv, TypeOK,
           LocalsInv, EndInv, Ended
  <2>2. CASE Done(u) /\ ~LastFile(usess[u])
    BY <1>20, <2>0, <2>2, CountPositive DEF CountDown, LastFile, IndInv, TypeOK, LocalsInv, EndInv, AdmitInv, Ended, Unfinished, Done, Goto, sessVars, fileVars, uploadVars
  <2>3. QED
    BY <1>20, <2>1, <2>2 DEF CountDown
<1>21. ASSUME NEW u \in Upload, EndCas(u)
     PROVE  EndInv'
  <2>1. CASE Goto(u, "zero") /\ started[usess[u]]
    BY <1>21, <2>1 DEF EndCas, IndInv, TypeOK, LocalsInv, EndInv, AdmitInv,
           Ended, Unfinished, Done, Goto, sessVars, fileVars, uploadVars
  <2>2. CASE Done(u) /\ ~started[usess[u]]
    BY <1>21, <2>2 DEF EndCas, IndInv, TypeOK, LocalsInv, EndInv, AdmitInv,
           Ended, Unfinished, Done, Goto, sessVars, fileVars, uploadVars
  <2>3. QED
    BY <1>21, <2>1, <2>2 DEF EndCas
<1>22. ASSUME NEW u \in Upload, EndZero(u)
     PROVE  EndInv'
  BY <1>22 DEF EndZero, IndInv, TypeOK, LocalsInv, EndInv, AdmitInv, Ended,
         Unfinished, Done, Goto, sessVars, fileVars, uploadVars
<1>23. ASSUME NEW p \in Path, ForeignCreate(p)
     PROVE  EndInv'
  BY <1>23 DEF ForeignCreate, IndInv, TypeOK, LocalsInv, EndInv, AdmitInv,
         Ended, Unfinished, Done, Goto, sessVars, fileVars, uploadVars
<1>24. CASE UNCHANGED vars
  BY <1>24 DEF vars, IndInv, TypeOK, LocalsInv, EndInv, AdmitInv, Ended,
         Unfinished, Done, Goto, sessVars, fileVars, uploadVars
<1>25. QED
  BY <1>1, <1>2, <1>3, <1>4, <1>5, <1>6, <1>7, <1>8, <1>9, <1>10, <1>11,
     <1>12, <1>13, <1>14, <1>15, <1>16, <1>17, <1>18, <1>19, <1>20, <1>21,
     <1>22, <1>23, <1>24 DEF Next, AdmitStep, KillStep, HandlerStep

\* Nobody becomes active during an admission, unless revived.
LEMMA QuietStep == IndInv /\ [Next]_vars => QuietInv'
<1> SUFFICES ASSUME IndInv, [Next]_vars
             PROVE  QuietInv'
  OBVIOUS
<1>1. ASSUME NEW s \in Session, NEW c \in Client, NEW F \in SUBSET File,
            AdmitCheck(s, c, F)
     PROVE  QuietInv'
  BY <1>1 DEF AdmitCheck, IndInv, TypeOK, LocalsInv, AdmitInv, QuietInv,
         Active, Stopped, sessVars, fileVars, uploadVars, NoneActive
<1>2. ASSUME NEW s \in Session, AdmitStore(s)
     PROVE  QuietInv'
  <2>1. /\ life[s] = "storing" /\ ~started[s]
        /\ sessions' = sessions \cup {s}
        /\ started' = started /\ activity' = activity /\ filesCount' = filesCount
    BY <1>2 DEF AdmitStore, IndInv, AdmitInv, sessVars
  <2>2. ASSUME NEW t \in Session, Active(t)'
        PROVE  Active(t)
    BY <2>1, <2>2 DEF Active, Stopped
  <2>3. ASSUME NEW t \in Session, Active(t)
        PROVE  activity[t] = "revived"
    BY <2>1, <2>3 DEF IndInv, QuietInv
  <2>4. QED
    BY <2>1, <2>2, <2>3 DEF QuietInv
<1>3. ASSUME NEW s \in Session, AdmitStart(s)
     PROVE  QuietInv'
  BY <1>3 DEF AdmitStart, IndInv, TypeOK, LocalsInv, AdmitInv, QuietInv,
         Active, Stopped, sessVars, fileVars, uploadVars
<1>4. ASSUME NEW s \in Session, AdmitRespond(s)
     PROVE  QuietInv'
  BY <1>4 DEF AdmitRespond, IndInv, TypeOK, LocalsInv, AdmitInv, QuietInv,
         Active, Stopped, sessVars, fileVars, uploadVars
<1>5. ASSUME NEW s \in Session, Timeout(s)
     PROVE  QuietInv'
  BY <1>5 DEF Timeout, IndInv, TypeOK, LocalsInv, AdmitInv, QuietInv, Active,
         Stopped, sessVars, fileVars, uploadVars
<1>6. ASSUME NEW s \in Session, VacuumCheck(s)
     PROVE  QuietInv'
  BY <1>6 DEF VacuumCheck, IndInv, TypeOK, LocalsInv, AdmitInv, QuietInv,
         Active, Stopped, sessVars, fileVars, uploadVars
<1>7. CASE VacuumDelete
  BY <1>7 DEF VacuumDelete, IndInv, TypeOK, LocalsInv, AdmitInv, QuietInv,
         Active, Stopped, sessVars, fileVars, uploadVars
<1>8. ASSUME NEW s \in Session, NEW c \in Client, Kill(s, c)
     PROVE  QuietInv'
  BY <1>8 DEF Kill, IndInv, TypeOK, LocalsInv, AdmitInv, QuietInv, Active,
         Stopped, sessVars, fileVars, uploadVars
<1>9. ASSUME NEW s \in Session, KillCas(s)
     PROVE  QuietInv'
  BY <1>9 DEF KillCas, IndInv, TypeOK, LocalsInv, AdmitInv, QuietInv, Active,
         Stopped, sessVars, fileVars, uploadVars
<1>10. ASSUME NEW s \in Session, KillZero(s)
     PROVE  QuietInv'
  BY <1>10 DEF KillZero, IndInv, TypeOK, LocalsInv, AdmitInv, QuietInv,
         Active, Stopped, sessVars, fileVars, uploadVars
<1>11. ASSUME NEW u \in Upload, NEW s \in Session, NEW f \in File,
            UploadBegin(u, s, f)
     PROVE  QuietInv'
  BY <1>11 DEF UploadBegin, IndInv, TypeOK, LocalsInv, AdmitInv, QuietInv,
         Active, Stopped, sessVars, fileVars, uploadVars
<1>12. ASSUME NEW u \in Upload, NEW c \in Client, SaveCheck(u, c)
     PROVE  QuietInv'
  BY <1>12 DEF SaveCheck, IndInv, TypeOK, LocalsInv, AdmitInv, QuietInv,
         Active, Stopped, sessVars, fileVars, uploadVars
<1>13. ASSUME NEW u \in Upload, NEW hasToken \in BOOLEAN,
            Claim(u, hasToken)
     PROVE  QuietInv'
  BY <1>13 DEF Claim, IndInv, TypeOK, LocalsInv, AdmitInv, QuietInv, Active,
         Stopped, sessVars, fileVars, uploadVars
<1>14. ASSUME NEW u \in Upload, PrepareFails(u)
     PROVE  QuietInv'
  BY <1>14 DEF PrepareFails, IndInv, TypeOK, LocalsInv, AdmitInv, QuietInv,
         Active, Stopped, sessVars, fileVars, uploadVars
<1>15. ASSUME NEW u \in Upload, NEW p \in Path, Create(u, p)
     PROVE  QuietInv'
  BY <1>15 DEF Create, IndInv, TypeOK, LocalsInv, AdmitInv, QuietInv, Active,
         Stopped, sessVars, fileVars, uploadVars
<1>16. ASSUME NEW u \in Upload, ReadBody(u)
     PROVE  QuietInv'
  BY <1>16 DEF ReadBody, IndInv, TypeOK, LocalsInv, AdmitInv, QuietInv,
         Active, Stopped, sessVars, fileVars, uploadVars
<1>17. ASSUME NEW u \in Upload, NEW result \in {"finished", "pending", "failed"},
            CopyEnds(u, result)
     PROVE  QuietInv'
  BY <1>17 DEF CopyEnds, IndInv, TypeOK, LocalsInv, AdmitInv, QuietInv,
         Active, Stopped, sessVars, fileVars, uploadVars
<1>18. ASSUME NEW u \in Upload, CloseFile(u)
     PROVE  QuietInv'
  BY <1>18 DEF CloseFile, IndInv, TypeOK, LocalsInv, AdmitInv, QuietInv,
         Active, Stopped, sessVars, fileVars, uploadVars
<1>19. ASSUME NEW u \in Upload, FinishFileAttempt(u)
     PROVE  QuietInv'
  BY <1>19 DEF FinishFileAttempt, IndInv, TypeOK, LocalsInv, AdmitInv,
         QuietInv, Active, Stopped, sessVars, fileVars, uploadVars
<1>20. ASSUME NEW u \in Upload, CountDown(u)
     PROVE  QuietInv'
  BY <1>20, CountPositive DEF CountDown, IndInv, TypeOK, LocalsInv, AdmitInv, QuietInv, Active, Stopped, sessVars, fileVars, uploadVars
<1>21. ASSUME NEW u \in Upload, EndCas(u)
     PROVE  QuietInv'
  BY <1>21 DEF EndCas, IndInv, TypeOK, LocalsInv, AdmitInv, QuietInv, Active,
         Stopped, sessVars, fileVars, uploadVars
<1>22. ASSUME NEW u \in Upload, EndZero(u)
     PROVE  QuietInv'
  BY <1>22 DEF EndZero, IndInv, TypeOK, LocalsInv, AdmitInv, QuietInv, Active,
         Stopped, sessVars, fileVars, uploadVars
<1>23. ASSUME NEW p \in Path, ForeignCreate(p)
     PROVE  QuietInv'
  BY <1>23 DEF ForeignCreate, IndInv, TypeOK, LocalsInv, AdmitInv, QuietInv,
         Active, Stopped, sessVars, fileVars, uploadVars
<1>24. CASE UNCHANGED vars
  BY <1>24 DEF vars, IndInv, TypeOK, LocalsInv, AdmitInv, QuietInv, Active,
         Stopped, sessVars, fileVars, uploadVars
<1>25. QED
  BY <1>1, <1>2, <1>3, <1>4, <1>5, <1>6, <1>7, <1>8, <1>9, <1>10, <1>11,
     <1>12, <1>13, <1>14, <1>15, <1>16, <1>17, <1>18, <1>19, <1>20, <1>21,
     <1>22, <1>23, <1>24 DEF Next, AdmitStep, KillStep, HandlerStep

\* A session that becomes active is alone, or revived.
LEMMA SingleStep == IndInv /\ [Next]_vars => SingleActive'
<1> SUFFICES ASSUME IndInv, [Next]_vars
             PROVE  SingleActive'
  OBVIOUS
<1>1. ASSUME NEW s \in Session, NEW c \in Client, NEW F \in SUBSET File,
            AdmitCheck(s, c, F)
     PROVE  SingleActive'
  BY <1>1 DEF AdmitCheck, IndInv, TypeOK, LocalsInv, AdmitInv, QuietInv,
         Active, Stopped, sessVars, fileVars, uploadVars, SingleActive
<1>2. ASSUME NEW s \in Session, AdmitStore(s)
     PROVE  SingleActive'
  BY <1>2 DEF AdmitStore, IndInv, TypeOK, LocalsInv, AdmitInv, QuietInv,
         Active, Stopped, sessVars, fileVars, uploadVars, SingleActive
<1>3. ASSUME NEW s \in Session, AdmitStart(s)
     PROVE  SingleActive'
  BY <1>3 DEF AdmitStart, IndInv, TypeOK, LocalsInv, AdmitInv, QuietInv,
         Active, Stopped, sessVars, fileVars, uploadVars, SingleActive
<1>4. ASSUME NEW s \in Session, AdmitRespond(s)
     PROVE  SingleActive'
  BY <1>4 DEF AdmitRespond, IndInv, TypeOK, LocalsInv, AdmitInv, QuietInv,
         Active, Stopped, sessVars, fileVars, uploadVars, SingleActive
<1>5. ASSUME NEW s \in Session, Timeout(s)
     PROVE  SingleActive'
  BY <1>5 DEF Timeout, IndInv, TypeOK, LocalsInv, AdmitInv, QuietInv, Active,
         Stopped, sessVars, fileVars, uploadVars, SingleActive
<1>6. ASSUME NEW s \in Session, VacuumCheck(s)
     PROVE  SingleActive'
  BY <1>6 DEF VacuumCheck, IndInv, TypeOK, LocalsInv, AdmitInv, QuietInv,
         Active, Stopped, sessVars, fileVars, uploadVars, SingleActive
<1>7. CASE VacuumDelete
  BY <1>7 DEF VacuumDelete, IndInv, TypeOK, LocalsInv, AdmitInv, QuietInv,
         Active, Stopped, sessVars, fileVars, uploadVars, SingleActive
<1>8. ASSUME NEW s \in Session, NEW c \in Client, Kill(s, c)
     PROVE  SingleActive'
  BY <1>8 DEF Kill, IndInv, TypeOK, LocalsInv, AdmitInv, QuietInv, Active,
         Stopped, sessVars, fileVars, uploadVars, SingleActive
<1>9. ASSUME NEW s \in Session, KillCas(s)
     PROVE  SingleActive'
  BY <1>9 DEF KillCas, IndInv, TypeOK, LocalsInv, AdmitInv, QuietInv, Active,
         Stopped, sessVars, fileVars, uploadVars, SingleActive
<1>10. ASSUME NEW s \in Session, KillZero(s)
     PROVE  SingleActive'
  BY <1>10 DEF KillZero, IndInv, TypeOK, LocalsInv, AdmitInv, QuietInv,
         Active, Stopped, sessVars, fileVars, uploadVars, SingleActive
<1>11. ASSUME NEW u \in Upload, NEW s \in Session, NEW f \in File,
            UploadBegin(u, s, f)
     PROVE  SingleActive'
  BY <1>11 DEF UploadBegin, IndInv, TypeOK, LocalsInv, AdmitInv, QuietInv,
         Active, Stopped, sessVars, fileVars, uploadVars, SingleActive
<1>12. ASSUME NEW u \in Upload, NEW c \in Client, SaveCheck(u, c)
     PROVE  SingleActive'
  BY <1>12 DEF SaveCheck, IndInv, TypeOK, LocalsInv, AdmitInv, QuietInv,
         Active, Stopped, sessVars, fileVars, uploadVars, SingleActive
<1>13. ASSUME NEW u \in Upload, NEW hasToken \in BOOLEAN,
            Claim(u, hasToken)
     PROVE  SingleActive'
  BY <1>13 DEF Claim, IndInv, TypeOK, LocalsInv, AdmitInv, QuietInv, Active,
         Stopped, sessVars, fileVars, uploadVars, SingleActive
<1>14. ASSUME NEW u \in Upload, PrepareFails(u)
     PROVE  SingleActive'
  BY <1>14 DEF PrepareFails, IndInv, TypeOK, LocalsInv, AdmitInv, QuietInv,
         Active, Stopped, sessVars, fileVars, uploadVars, SingleActive
<1>15. ASSUME NEW u \in Upload, NEW p \in Path, Create(u, p)
     PROVE  SingleActive'
  BY <1>15 DEF Create, IndInv, TypeOK, LocalsInv, AdmitInv, QuietInv, Active,
         Stopped, sessVars, fileVars, uploadVars, SingleActive
<1>16. ASSUME NEW u \in Upload, ReadBody(u)
     PROVE  SingleActive'
  BY <1>16 DEF ReadBody, IndInv, TypeOK, LocalsInv, AdmitInv, QuietInv,
         Active, Stopped, sessVars, fileVars, uploadVars, SingleActive
<1>17. ASSUME NEW u \in Upload, NEW result \in {"finished", "pending", "failed"},
            CopyEnds(u, result)
     PROVE  SingleActive'
  BY <1>17 DEF CopyEnds, IndInv, TypeOK, LocalsInv, AdmitInv, QuietInv,
         Active, Stopped, sessVars, fileVars, uploadVars, SingleActive
<1>18. ASSUME NEW u \in Upload, CloseFile(u)
     PROVE  SingleActive'
  BY <1>18 DEF CloseFile, IndInv, TypeOK, LocalsInv, AdmitInv, QuietInv,
         Active, Stopped, sessVars, fileVars, uploadVars, SingleActive
<1>19. ASSUME NEW u \in Upload, FinishFileAttempt(u)
     PROVE  SingleActive'
  BY <1>19 DEF FinishFileAttempt, IndInv, TypeOK, LocalsInv, AdmitInv,
         QuietInv, Active, Stopped, sessVars, fileVars, uploadVars,
         SingleActive
<1>20. ASSUME NEW u \in Upload, CountDown(u)
     PROVE  SingleActive'
  BY <1>20, CountPositive DEF CountDown, SingleActive, IndInv, TypeOK, LocalsInv, AdmitInv, QuietInv, Active, Stopped, sessVars, fileVars, uploadVars
<1>21. ASSUME NEW u \in Upload, EndCas(u)
     PROVE  SingleActive'
  BY <1>21 DEF EndCas, IndInv, TypeOK, LocalsInv, AdmitInv, QuietInv, Active,
         Stopped, sessVars, fileVars, uploadVars, SingleActive
<1>22. ASSUME NEW u \in Upload, EndZero(u)
     PROVE  SingleActive'
  BY <1>22 DEF EndZero, IndInv, TypeOK, LocalsInv, AdmitInv, QuietInv, Active,
         Stopped, sessVars, fileVars, uploadVars, SingleActive
<1>23. ASSUME NEW p \in Path, ForeignCreate(p)
     PROVE  SingleActive'
  BY <1>23 DEF ForeignCreate, IndInv, TypeOK, LocalsInv, AdmitInv, QuietInv,
         Active, Stopped, sessVars, fileVars, uploadVars, SingleActive
<1>24. CASE UNCHANGED vars
  BY <1>24 DEF vars, IndInv, TypeOK, LocalsInv, AdmitInv, QuietInv, Active,
         Stopped, sessVars, fileVars, uploadVars, SingleActive
<1>25. QED
  BY <1>1, <1>2, <1>3, <1>4, <1>5, <1>6, <1>7, <1>8, <1>9, <1>10, <1>11,
     <1>12, <1>13, <1>14, <1>15, <1>16, <1>17, <1>18, <1>19, <1>20, <1>21,
     <1>22, <1>23, <1>24 DEF Next, AdmitStep, KillStep, HandlerStep

\* A handler lets go of a partial file only after removing or completing it.
LEMMA PartialStep == IndInv /\ [Next]_vars => NoPartialLeft'
<1> SUFFICES ASSUME IndInv, [Next]_vars, ~DiskFaults, NEW q \in Path, disk'[q] = "partial"
             PROVE  \E v \in Upload : HasFile(v)' /\ SaveAs(v)' = q
  BY DEF NoPartialLeft
<1>1. ASSUME NEW u \in Upload, Create(u, q)
      PROVE  HasFile(u)' /\ SaveAs(u)' = q
  BY <1>1 DEF Create, HasFile, SaveAs, Goto, IndInv, TypeOK, LocalsInv
<1>2. ASSUME disk[q] = "partial"
      PROVE  \E v \in Upload : HasFile(v)' /\ SaveAs(v)' = q
  <2>0. PICK v \in Upload : HasFile(v) /\ SaveAs(v) = q
    BY <1>2 DEF IndInv, NoPartialLeft
  <2> USE <2>0 DEF IndInv, TypeOK, LocalsInv, HasFile, SaveAs
  <2>1. ASSUME NEW s \in Session, NEW c \in Client, NEW F \in SUBSET File, AdmitCheck(s, c, F)
       PROVE  HasFile(v)' /\ SaveAs(v)' = q
    BY <2>1 DEF AdmitCheck, Done, Goto, sessVars, fileVars, uploadVars, AdmitInv
  <2>2. ASSUME NEW u \in Upload, NEW s \in Session, NEW f \in File, UploadBegin(u, s, f)
       PROVE  HasFile(v)' /\ SaveAs(v)' = q
    BY <2>2 DEF UploadBegin, Done, Goto, sessVars, fileVars, uploadVars
  <2>3. ASSUME NEW u \in Upload, NEW c \in Client, SaveCheck(u, c)
       PROVE  HasFile(v)' /\ SaveAs(v)' = q
    <3>1. CASE Goto(u, "checked")
      BY <2>3, <3>1 DEF SaveCheck, Done, Goto, sessVars, fileVars, uploadVars
    <3>2. CASE Done(u)
      BY <2>3, <3>2 DEF SaveCheck, Done, Goto, sessVars, fileVars, uploadVars
    <3>3. QED
      BY <2>3, <3>1, <3>2 DEF SaveCheck
  <2>4. ASSUME NEW u \in Upload, NEW hasToken \in BOOLEAN, Claim(u, hasToken)
       PROVE  HasFile(v)' /\ SaveAs(v)' = q
    <3>1. CASE /\ Claimable(usess[u], ufile[u])
             /\ Goto(u, "claimed")
             /\ status' = [status EXCEPT ![usess[u]][ufile[u]] = "inProgress"]
             /\ attempts' = [attempts EXCEPT ![usess[u]][ufile[u]] = @ + 1]
      BY <2>4, <3>1 DEF Claim, Done, Goto, sessVars, fileVars, uploadVars
    <3>2. CASE Done(u) /\ UNCHANGED <<status, attempts>>
      BY <2>4, <3>2 DEF Claim, Done, Goto, sessVars, fileVars, uploadVars
    <3>3. QED
      BY <2>4, <3>1, <3>2 DEF Claim
  <2>5. ASSUME NEW u \in Upload, PrepareFails(u)
       PROVE  HasFile(v)' /\ SaveAs(v)' = q
    BY <2>5 DEF PrepareFails, Done, Goto, sessVars, fileVars, uploadVars
  <2>6. ASSUME NEW u \in Upload, NEW p \in Path, Create(u, p)
       PROVE  HasFile(v)' /\ SaveAs(v)' = q
    BY <2>6 DEF Create, Done, Goto, sessVars, fileVars, uploadVars, Creatable, ClaimInv, HasClaim
  <2>7. ASSUME NEW u \in Upload, ReadBody(u)
       PROVE  HasFile(v)' /\ SaveAs(v)' = q
    BY <2>7 DEF ReadBody, Done, Goto, sessVars, fileVars, uploadVars
  <2>8. ASSUME NEW u \in Upload, NEW result \in {"finished", "pending", "failed"}, CopyEnds(u, result)
       PROVE  HasFile(v)' /\ SaveAs(v)' = q
    BY <2>8 DEF CopyEnds, Done, Goto, sessVars, fileVars, uploadVars
  <2>9. ASSUME NEW u \in Upload, CloseFile(u)
       PROVE  HasFile(v)' /\ SaveAs(v)' = q
    BY <2>9 DEF CloseFile, Done, Goto, sessVars, fileVars, uploadVars, DiskInv, Dirty, Saved, Removes
  <2>10. ASSUME NEW u \in Upload, FinishFileAttempt(u)
       PROVE  HasFile(v)' /\ SaveAs(v)' = q
    <3>1. CASE Goto(u, "count") /\ ~Retries(u)
      BY <2>10, <3>1 DEF FinishFileAttempt, Done, Goto, sessVars, fileVars, uploadVars
    <3>2. CASE Done(u) /\ Retries(u)
      BY <2>10, <3>2 DEF FinishFileAttempt, Done, Goto, sessVars, fileVars, uploadVars
    <3>3. QED
      BY <2>10, <3>1, <3>2 DEF FinishFileAttempt, AfterAttempt
  <2>11. ASSUME NEW u \in Upload, CountDown(u)
       PROVE  HasFile(v)' /\ SaveAs(v)' = q
    <3>1. CASE Goto(u, "cas") /\ LastFile(usess[u])
      BY <2>11, <3>1 DEF CountDown, Done, Goto, sessVars, fileVars, uploadVars
    <3>2. CASE Done(u) /\ ~LastFile(usess[u])
      BY <2>11, <3>2 DEF CountDown, Done, Goto, sessVars, fileVars, uploadVars
    <3>3. QED
      BY <2>11, <3>1, <3>2 DEF CountDown
  <2>12. ASSUME NEW u \in Upload, EndCas(u)
       PROVE  HasFile(v)' /\ SaveAs(v)' = q
    <3>1. CASE Goto(u, "zero") /\ started[usess[u]]
      BY <2>12, <3>1 DEF EndCas, Done, Goto, sessVars, fileVars, uploadVars
    <3>2. CASE Done(u) /\ ~started[usess[u]]
      BY <2>12, <3>2 DEF EndCas, Done, Goto, sessVars, fileVars, uploadVars
    <3>3. QED
      BY <2>12, <3>1, <3>2 DEF EndCas
  <2>13. ASSUME NEW u \in Upload, EndZero(u)
       PROVE  HasFile(v)' /\ SaveAs(v)' = q
    BY <2>13 DEF EndZero, Done, Goto, sessVars, fileVars, uploadVars
  <2>14. ASSUME NEW p \in Path, ForeignCreate(p)
       PROVE  HasFile(v)' /\ SaveAs(v)' = q
    BY <2>14 DEF ForeignCreate, Done, Goto, sessVars, fileVars, uploadVars
  <2>15. CASE UNCHANGED <<fileVars, disk, uploadVars>>
    BY <2>15 DEF sessVars, fileVars, uploadVars
  <2> HIDE DEF IndInv, TypeOK, LocalsInv, HasFile, SaveAs
  <2>16. QED
    BY FileSteps, <2>1, <2>2, <2>3, <2>4, <2>5, <2>6, <2>7, <2>8, <2>9, <2>10, <2>11, <2>12, <2>13, <2>14, <2>15
<1>3. disk[q] = "partial" \/ \E u \in Upload : Create(u, q)
  <2>1. ASSUME NEW u \in Upload, NEW p \in Path, Create(u, p)
        PROVE  disk[q] = "partial" \/ p = q
    BY <2>1 DEF Create, IndInv, TypeOK
  <2>2. ASSUME NEW u \in Upload, NEW result \in {"finished", "pending", "failed"},
               CopyEnds(u, result)
        PROVE  disk[q] = "partial"
    BY <2>2 DEF CopyEnds, IndInv, TypeOK
  <2>3. ASSUME NEW u \in Upload, CloseFile(u)
        PROVE  disk[q] = "partial"
    BY <2>3 DEF CloseFile, IndInv, TypeOK
  <2>4. ASSUME NEW p \in Path, ForeignCreate(p)
        PROVE  disk[q] = "partial"
    BY <2>4 DEF ForeignCreate, IndInv, TypeOK
  <2>5. CASE UNCHANGED disk
    BY <2>5
  <2>6. QED
    BY FileSteps, <2>1, <2>2, <2>3, <2>4, <2>5 DEF AdmitCheck, UploadBegin, SaveCheck,
       Claim, PrepareFails, ReadBody, FinishFileAttempt, CountDown, EndCas, EndZero
<1>4. QED
  BY <1>1, <1>2, <1>3

-----------------------------------------------------------------------------

\* Initially nothing is offered, claimed, running or on its way.
LEMMA InitInv == Init => IndInv
<1> SUFFICES ASSUME Init
             PROVE  IndInv
  OBVIOUS
<1>1. TypeOK
  BY BoundsAssumption DEF Init, TypeOK, Status, Life, Activity, UploadPc
<1>2. LocalsInv /\ AttemptsInv /\ ClaimInv
  BY BoundsAssumption DEF Init, LocalsInv, AttemptsInv, ClaimInv, HasClaim
<1>3. DiskInv /\ PathInv /\ NoPartialLeft
  BY DEF Init, DiskInv, PathInv, NoPartialLeft, Dirty, Saved
<1>4. AdmitInv /\ QuietInv /\ SingleActive
  BY DEF Init, AdmitInv, QuietInv, SingleActive, Active
<1>5. CountMatches
  BY DEF Init, CountMatches
<1>6. EndInv
  BY DEF Init, EndInv, Ended
<1>7. QED
  BY <1>1, <1>2, <1>3, <1>4, <1>5, <1>6 DEF IndInv

\* The invariant is inductive, hence holds in every reachable state.
THEOREM Invariance == Spec => []IndInv
<1>1. IndInv /\ [Next]_vars => IndInv'
  BY TypeStep, LocalsStep, AttemptsStep, ClaimStep, DiskStep, PathStep, PartialStep,
     AdmitExclusiveStep, CountStep, EndStep, QuietStep, SingleStep DEF IndInv
<1>2. QED
  BY InitInv, <1>1, PTL DEF Spec

\* Every variable keeps its type; in particular no file is ever given more than
\* maxChecksumAttempts attempts, however retries and requests interleave.
THEOREM TypeCorrect == Spec => []TypeOK
<1>1. IndInv => TypeOK
  BY DEF IndInv
<1>2. QED
  BY Invariance, <1>1, PTL

\* For any number of handlers and sessions, no two handlers own one file or
\* write one path.
THEOREM WritersExclusive == Spec => []ExclusiveWriters
<1>1. IndInv => ExclusiveWriters
  <2> SUFFICES ASSUME IndInv, NEW u \in Upload, NEW v \in Upload, u # v
               PROVE  /\ HasClaim(u) /\ HasClaim(v)
                           => <<usess[u], ufile[u]>> # <<usess[v], ufile[v]>>
                      /\ HasFile(u) /\ HasFile(v) => SaveAs(u) # SaveAs(v)
    BY DEF ExclusiveWriters
  <2>1. HasClaim(u) /\ HasClaim(v) => <<usess[u], ufile[u]>> # <<usess[v], ufile[v]>>
    BY DEF IndInv, ClaimInv
  <2>2. HasFile(u) /\ HasFile(v) => SaveAs(u) # SaveAs(v)
    <3>1. ASSUME NEW w \in Upload, HasFile(w)
          PROVE  Dirty(w) \/ Saved(w)
      BY <3>1 DEF HasFile, Dirty, Saved
    <3>2. QED
      BY <3>1 DEF IndInv, PathInv
  <2>3. QED
    BY <2>1, <2>2
<1>2. QED
  BY Invariance, <1>1, PTL

\* A file reported as finished is complete on disk, under its own path.
THEOREM FinishedOnDisk == Spec => []SavedIsOnDisk
<1>1. IndInv => SavedIsOnDisk
  BY SetsAssumption DEF IndInv, DiskInv, PathInv, SavedIsOnDisk
<1>2. QED
  BY Invariance, <1>1, PTL

\* If removal works, a partial file always has a handler at work on it.
THEOREM PartialOwned == Spec => []NoPartialLeft
<1>1. IndInv => NoPartialLeft
  BY DEF IndInv
<1>2. QED
  BY Invariance, <1>1, PTL

\* filesCount counts, for any number of files and handlers.
THEOREM CountCorrect == Spec => []CountMatches
<1>1. IndInv => CountMatches
  BY DEF IndInv
<1>2. QED
  BY Invariance, <1>1, PTL

\* A session that nobody cancels ends when its files are done, not before and
\* not never.
THEOREM EndsCorrectly == Spec => []EndsWhenDone
<1>1. IndInv => EndsWhenDone
  <2> SUFFICES ASSUME IndInv, NEW s \in Session,
                      life[s] \in {"responding", "open", "lost"}, killer[s] = "none"
               PROVE  /\ ~started[s] => Unfinished(s) = {}
                      /\ Unfinished(s) = {} /\ started[s] =>
                            \E u \in Upload : usess[u] = s /\ upc[u] \in {"count", "cas"}
    BY DEF EndsWhenDone
  <2>1. ~started[s] => Unfinished(s) = {}
    BY DEF IndInv, EndInv, Ended
  <2>2. ASSUME Unfinished(s) = {}, started[s]
        PROVE  \E u \in Upload : usess[u] = s /\ upc[u] \in {"count", "cas"}
    <3>1. CASE Uncounted(s) # {}
      BY <3>1 DEF Uncounted
    <3>2. CASE Uncounted(s) = {}
      <4>1. filesCount[s] = 0
        BY <2>2, <3>2, FS_EmptySet DEF IndInv, CountMatches
      <4>2. QED
        BY <2>2, <4>1 DEF IndInv, EndInv
    <3>3. QED
      BY <3>1, <3>2
  <2>3. QED
    BY <2>1, <2>2
<1>2. QED
  BY Invariance, <1>1, PTL

\* However admissions, uploads, cancels and the vacuum interleave, two sessions
\* are active together only after one of them had timed out.
THEOREM OnlyTimeDefeatsAdmission == Spec => []SingleActive
<1>1. IndInv => SingleActive
  BY DEF IndInv
<1>2. QED
  BY Invariance, <1>1, PTL

-----------------------------------------------------------------------------
(* Action properties *)

\* No step of the receiver touches a complete or a foreign file.
THEOREM FilesKept == Spec => SavedFilesKept
<1>1. ASSUME IndInv, [Next]_vars
      PROVE  KeepsSavedFiles
  <2> USE DEF KeepsSavedFiles
  <2>1. ASSUME NEW u \in Upload, NEW p \in Path, Create(u, p) PROVE KeepsSavedFiles
    BY <1>1, <2>1 DEF Create, Creatable, IndInv, TypeOK
  <2>2. ASSUME NEW u \in Upload, NEW result \in {"finished", "pending", "failed"},
               CopyEnds(u, result)
        PROVE  KeepsSavedFiles
    BY <1>1, <2>2 DEF CopyEnds, IndInv, TypeOK, DiskInv, Dirty
  <2>3. ASSUME NEW u \in Upload, CloseFile(u) PROVE KeepsSavedFiles
    BY <1>1, <2>3 DEF CloseFile, Removes, IndInv, TypeOK, DiskInv, Dirty
  <2>4. ASSUME NEW p \in Path, ForeignCreate(p) PROVE KeepsSavedFiles
    BY <1>1, <2>4 DEF ForeignCreate, IndInv, TypeOK
  <2>5. CASE UNCHANGED disk
    BY <2>5
  <2>6. QED
    BY <1>1, FileSteps, <2>1, <2>2, <2>3, <2>4, <2>5 DEF AdmitCheck, UploadBegin,
       SaveCheck, Claim, PrepareFails, ReadBody, FinishFileAttempt, CountDown, EndCas, EndZero
<1>2. IndInv /\ [Next]_vars => [KeepsSavedFiles]_vars
  BY <1>1
<1>3. QED
  BY Invariance, <1>2, PTL DEF Spec, SavedFilesKept

\* A path, once chosen, and a terminal status never change.
THEOREM FinalIsFinal == Spec => TerminalIsFinal
<1>1. ASSUME IndInv, [Next]_vars
      PROVE  KeepsFinal
  <2> USE DEF KeepsFinal
  <2>1. ASSUME NEW s \in Session, NEW c \in Client, NEW F \in SUBSET File,
               AdmitCheck(s, c, F)
        PROVE  KeepsFinal
    BY <1>1, <2>1 DEF AdmitCheck, IndInv, TypeOK, AdmitInv
  <2>2. ASSUME NEW u \in Upload, NEW p \in Path, Create(u, p) PROVE KeepsFinal
    BY <1>1, <2>2 DEF Create, Creatable, IndInv, TypeOK, LocalsInv
  <2>3. ASSUME NEW u \in Upload, NEW hasToken \in BOOLEAN, Claim(u, hasToken)
        PROVE  KeepsFinal
    <3>1. CASE UNCHANGED status
      BY <2>3, <3>1 DEF Claim
    <3>2. CASE /\ Claimable(usess[u], ufile[u])
               /\ status' = [status EXCEPT ![usess[u]][ufile[u]] = "inProgress"]
      BY <1>1, <2>3, <3>2 DEF Claim, Claimable, IndInv, TypeOK, LocalsInv
    <3>3. QED
      BY <2>3, <3>1, <3>2 DEF Claim
  <2>4. ASSUME NEW u \in Upload, FinishFileAttempt(u) PROVE KeepsFinal
    BY <1>1, <2>4 DEF FinishFileAttempt, IndInv, TypeOK, LocalsInv, ClaimInv, HasClaim
  <2>5. CASE UNCHANGED <<status, target>>
    BY <2>5
  <2>6. QED
    BY <1>1, FileSteps, <2>1, <2>2, <2>3, <2>4, <2>5 DEF UploadBegin, SaveCheck,
       PrepareFails, ReadBody, CopyEnds, CloseFile, CountDown, EndCas, EndZero,
       ForeignCreate, fileVars
<1>2. IndInv /\ [Next]_vars => [KeepsFinal]_vars
  BY <1>1
<1>3. QED
  BY Invariance, <1>2, PTL DEF Spec, TerminalIsFinal

-----------------------------------------------------------------------------
(* RecvSessions implements FileDelivery: each step of the handlers,        *)
(* cancels, the vacuum and the clock maps to one step of FileDelivery or   *)
(* to none.  The facts about the reachable states come from the inductive  *)
(* invariant above.                                                        *)

PhasesKept == \A s \in Session : Phase(s)' = Phase(s)
FatesKept  == \A s \in Session, f \in File : Fate(s, f)' = Fate(s, f)
StoresKept == \A p \in Path : Store(p)' = Store(p)
PlacesKept == \A s \in Session, f \in File :
                 Fate(s, f) = "saved" => target'[s][f] = target[s][f]

\* What a step of RecvSessions is for FileDelivery.
Implemented == Delivery!Next \/ UNCHANGED Delivery!deliveryVars

\* What a step keeps point by point is kept in the eyes of FileDelivery.
LEMMA ViewKept ==
    /\ PhasesKept => [s \in Session |-> Phase(s)]' = [s \in Session |-> Phase(s)]
    /\ FatesKept => [s \in Session |-> [f \in File |-> Fate(s, f)]]'
                      = [s \in Session |-> [f \in File |-> Fate(s, f)]]
    /\ FatesKept /\ PlacesKept =>
          [s \in Session |-> [f \in File |-> Place(s, f)]]'
           = [s \in Session |-> [f \in File |-> Place(s, f)]]
    /\ StoresKept => [p \in Path |-> Store(p)]' = [p \in Path |-> Store(p)]
<1>1. PhasesKept => [s \in Session |-> Phase(s)]' = [s \in Session |-> Phase(s)]
  BY DEF PhasesKept
<1>2. FatesKept => [s \in Session |-> [f \in File |-> Fate(s, f)]]'
        = [s \in Session |-> [f \in File |-> Fate(s, f)]]
  BY DEF FatesKept
<1>3. FatesKept /\ PlacesKept =>
          [s \in Session |-> [f \in File |-> Place(s, f)]]'
           = [s \in Session |-> [f \in File |-> Place(s, f)]]
  BY DEF FatesKept, PlacesKept, Place
<1>4. StoresKept => [p \in Path |-> Store(p)]' = [p \in Path |-> Store(p)]
  BY DEF StoresKept
<1>5. QED
  BY <1>1, <1>2, <1>3, <1>4

\* A step that changes nothing that FileDelivery sees is a stuttering step.
LEMMA Stutters ==
    ASSUME PhasesKept, FatesKept, StoresKept, PlacesKept
    PROVE  Implemented
BY ViewKept DEF Implemented, Delivery!deliveryVars

\* Handlers other than u keep their locals, and u is not one that has saved a
\* file and not yet said so: the same files are copied as before.
LEMMA CopiedKept ==
    ASSUME NEW u \in Upload, ~Saved(u), ~Saved(u)',
           \A v \in Upload \ {u} : /\ upc'[v] = upc[v] /\ uresult'[v] = uresult[v]
                                   /\ usess'[v] = usess[v] /\ ufile'[v] = ufile[v]
    PROVE  \A s \in Session, f \in File : Copied(s, f)' <=> Copied(s, f)
<1>1. ASSUME NEW s \in Session, NEW f \in File, NEW v \in Upload
      PROVE  (/\ usess[v] = s /\ ufile[v] = f
              /\ upc[v] \in {"closing", "finish"} /\ uresult[v] = "finished")'
             <=> /\ usess[v] = s /\ ufile[v] = f
                 /\ upc[v] \in {"closing", "finish"} /\ uresult[v] = "finished"
  <2>1. CASE v = u
    BY <2>1 DEF Saved
  <2>2. CASE v # u
    BY <2>2
  <2>3. QED
    BY <2>1, <2>2
<1>2. QED
  BY <1>1 DEF Copied

\* Only a file in progress is copied, and its handler is the one that has it.
LEMMA CopiedInProgress ==
    ASSUME IndInv, NEW s \in Session, NEW f \in File, Copied(s, f)
    PROVE  /\ status[s][f] = "inProgress"
           /\ life[s] = "open"
           /\ \A u \in Upload : HasClaim(u) /\ usess[u] = s /\ ufile[u] = f => Saved(u)
<1>1. PICK v \in Upload : /\ usess[v] = s /\ ufile[v] = f
                          /\ upc[v] \in {"closing", "finish"} /\ uresult[v] = "finished"
  BY DEF Copied
<1>2. HasClaim(v)
  BY <1>1 DEF HasClaim
<1>3. QED
  BY <1>1, <1>2 DEF IndInv, ClaimInv, LocalsInv, Saved

\* A handler with a claim that has not saved its file: the file is outstanding
\* and its session has not finished by itself.
LEMMA ClaimOutstanding ==
    ASSUME IndInv, NEW u \in Upload, HasClaim(u), ~Saved(u)
    PROVE  /\ usess[u] \in Session /\ ufile[u] \in File
           /\ status[usess[u]][ufile[u]] = "inProgress"
           /\ ~Copied(usess[u], ufile[u])
           /\ Fate(usess[u], ufile[u]) = "offered"
           /\ Phase(usess[u]) \in {"open", "cancelled"}
<1>1. upc[u] # "idle"
  BY DEF HasClaim
<1>2. usess[u] \in Session /\ ufile[u] \in File /\ life[usess[u]] = "open"
  BY <1>1 DEF IndInv, LocalsInv
<1>3. status[usess[u]][ufile[u]] = "inProgress"
  BY DEF IndInv, ClaimInv
<1>4. ~Copied(usess[u], ufile[u])
  BY <1>2, CopiedInProgress
<1>5. ~Ended(usess[u]) \/ killer[usess[u]] # "none"
  BY <1>2, <1>3 DEF IndInv, EndInv, Unfinished
<1>6. Phase(usess[u]) \in {"open", "cancelled"}
  BY <1>2, <1>5 DEF Phase, Ended
<1>7. QED
  BY <1>2, <1>3, <1>4, <1>6 DEF Fate

SessionStep ==
    \/ \E s \in Session : AdmitStep(s) \/ Timeout(s) \/ VacuumCheck(s) \/ KillStep(s)
    \/ VacuumDelete

\* The steps of an admission, the clock, the vacuum and End are hidden.
LEMMA SessionStepHidden == IndInv /\ SessionStep => Implemented
<1> SUFFICES ASSUME IndInv, SessionStep
             PROVE  Implemented
  OBVIOUS
<1>1. UNCHANGED <<fileVars, disk, uploadVars>>
  BY DEF SessionStep, AdmitStep, AdmitStore, AdmitStart, AdmitRespond, Timeout,
         VacuumCheck, VacuumDelete, KillStep, KillCas, KillZero, sessVars
<1>2. FatesKept /\ StoresKept /\ PlacesKept
  BY <1>1 DEF FatesKept, StoresKept, PlacesKept, Fate, Copied, Store, fileVars, uploadVars
<1>3. PhasesKept
  <2>1. ASSUME NEW s \in Session, AdmitStore(s)
        PROVE  PhasesKept
    BY <2>1 DEF AdmitStore, PhasesKept, Phase, IndInv, TypeOK, sessVars
  <2>2. ASSUME NEW s \in Session, AdmitStart(s)
        PROVE  PhasesKept
    BY <2>2 DEF AdmitStart, PhasesKept, Phase, IndInv, TypeOK, sessVars
  <2>3. ASSUME NEW s \in Session, AdmitRespond(s)
        PROVE  PhasesKept
    BY <2>3 DEF AdmitRespond, PhasesKept, Phase, IndInv, TypeOK, sessVars
  <2>4. ASSUME NEW s \in Session, KillCas(s)
        PROVE  PhasesKept
    BY <2>4 DEF KillCas, PhasesKept, Phase, IndInv, TypeOK, sessVars
  <2>5. ASSUME NEW s \in Session, KillZero(s)
        PROVE  PhasesKept
    BY <2>5 DEF KillZero, PhasesKept, Phase, IndInv, TypeOK, sessVars
  <2>6. ASSUME NEW s \in Session, Timeout(s) \/ VacuumCheck(s) \/ VacuumDelete
        PROVE  PhasesKept
    BY <2>6 DEF Timeout, VacuumCheck, VacuumDelete, PhasesKept, Phase, sessVars
  <2>7. CASE VacuumDelete
    BY <2>7 DEF VacuumDelete, PhasesKept, Phase, sessVars
  <2>8. QED
    BY <2>1, <2>2, <2>3, <2>4, <2>5, <2>6, <2>7 DEF SessionStep, AdmitStep, KillStep
<1>4. QED
  BY <1>2, <1>3, Stutters

\* An admission is the offer of the files.
LEMMA AdmitOffers ==
    ASSUME IndInv, NEW s \in Session, NEW c \in Client, NEW F \in SUBSET File,
           AdmitCheck(s, c, F)
    PROVE  Implemented
<1>1. /\ life[s] = "unused" /\ F # {}
      /\ life' = [life EXCEPT ![s] = "storing"]
      /\ status' = [status EXCEPT
                      ![s] = [f \in File |-> IF f \in F THEN "pending" ELSE "absent"]]
      /\ UNCHANGED <<started, target, killer, disk, uploadVars>>
  BY DEF AdmitCheck, uploadVars
<1>2. killer[s] = "none"
  BY <1>1 DEF IndInv, AdmitInv, TypeOK
<1>3. \A t \in Session, f \in File : Copied(t, f)' <=> Copied(t, f)
  BY <1>1 DEF Copied, uploadVars
<1>4. \A f \in File : ~Copied(s, f)
  BY <1>1, CopiedInProgress
<1>5. /\ Phase(s) = "none"
      /\ [t \in Session |-> Phase(t)]'
            = [[t \in Session |-> Phase(t)] EXCEPT ![s] = "open"]
  BY <1>1, <1>2 DEF Phase, IndInv, TypeOK
<1>6. ASSUME NEW f \in File
      PROVE  Fate(s, f)' = IF f \in F THEN "offered" ELSE "absent"
  <2>1. status'[s][f] = IF f \in F THEN "pending" ELSE "absent"
    BY <1>1 DEF IndInv, TypeOK
  <2>2. ~Copied(s, f)'
    BY <1>3, <1>4
  <2>3. QED
    BY <2>1, <2>2 DEF Fate
<1>7. ASSUME NEW t \in Session, t # s, NEW f \in File
      PROVE  Fate(t, f)' = Fate(t, f)
  <2>1. status'[t][f] = status[t][f]
    BY <1>1, <1>7 DEF IndInv, TypeOK
  <2>2. QED
    BY <2>1, <1>3 DEF Fate
<1>8. [t \in Session |-> [f \in File |-> Fate(t, f)]]'
        = [[t \in Session |-> [f \in File |-> Fate(t, f)]] EXCEPT
              ![s] = [f \in File |-> IF f \in F THEN "offered" ELSE "absent"]]
  BY <1>6, <1>7
<1>9. \A f \in File : Fate(s, f) # "saved" /\ Fate(s, f)' # "saved"
  <2>1. \A f \in File : Fate(s, f) # "saved"
    BY <1>1, <1>4 DEF Fate, IndInv, AdmitInv
  <2>2. QED
    BY <2>1, <1>6
<1>10. [t \in Session |-> [f \in File |-> Place(t, f)]]'
        = [t \in Session |-> [f \in File |-> Place(t, f)]]
  <2>1. ASSUME NEW t \in Session, NEW f \in File
        PROVE  Place(t, f)' = Place(t, f)
    <3>1. CASE t = s
      BY <3>1, <1>9 DEF Place
    <3>2. CASE t # s
      BY <3>2, <1>1, <1>7 DEF Place
    <3>3. QED
      BY <3>1, <3>2
  <2>2. QED
    BY <2>1
<1>11. [p \in Path |-> Store(p)]' = [p \in Path |-> Store(p)]
  BY <1>1 DEF Store
<1>12. Delivery!Offer(s, F)
  BY <1>1, <1>5, <1>8, <1>10, <1>11 DEF Delivery!Offer
<1>13. QED
  BY <1>12 DEF Implemented, Delivery!Next

\* A cancel is one for FileDelivery too.
LEMMA KillCancels ==
    ASSUME IndInv, NEW s \in Session, NEW c \in Client, Kill(s, c)
    PROVE  Implemented
<1>1. /\ life[s] = "open"
      /\ killer' = [killer EXCEPT ![s] = "cas"]
      /\ UNCHANGED <<life, started, fileVars, disk, uploadVars>>
  BY DEF Kill, sessVars
<1>2. FatesKept /\ StoresKept /\ PlacesKept
  BY <1>1 DEF FatesKept, StoresKept, PlacesKept, Fate, Copied, Store, fileVars, uploadVars
<1>3. CASE killer[s] # "none"
  <2>1. PhasesKept
    BY <1>1, <1>3 DEF PhasesKept, Phase, IndInv, TypeOK
  <2>2. QED
    BY <2>1, <1>2, Stutters
<1>4. CASE killer[s] = "none"
  <2>1. /\ Phase(s) \in {"open", "finished"}
        /\ [t \in Session |-> Phase(t)]'
              = [[t \in Session |-> Phase(t)] EXCEPT ![s] = "cancelled"]
    BY <1>1, <1>4 DEF Phase, IndInv, TypeOK
  <2>2. Delivery!Cancel(s)
    BY <2>1, <1>2, ViewKept DEF Delivery!Cancel
  <2>3. QED
    BY <2>2 DEF Implemented, Delivery!Next
<1>5. QED
  BY <1>3, <1>4

\* Another program takes a free path, for FileDelivery too.
LEMMA ForeignOccupies ==
    ASSUME IndInv, NEW p \in Path, ForeignCreate(p)
    PROVE  Implemented
<1>1. /\ disk[p] = "free"
      /\ disk' = [disk EXCEPT ![p] = "foreign"]
      /\ UNCHANGED <<life, started, killer, fileVars, uploadVars>>
  BY DEF ForeignCreate, sessVars
<1>2. PhasesKept /\ FatesKept /\ PlacesKept
  BY <1>1 DEF PhasesKept, FatesKept, PlacesKept, Fate, Copied, Phase, fileVars, uploadVars
<1>3. /\ Store(p) = "free"
      /\ [q \in Path |-> Store(q)]' = [[q \in Path |-> Store(q)] EXCEPT ![p] = "foreign"]
  BY <1>1 DEF Store, IndInv, TypeOK
<1>4. Delivery!Occupy(p)
  BY <1>2, <1>3, ViewKept DEF Delivery!Occupy
<1>5. QED
  BY <1>4 DEF Implemented, Delivery!Next

\* Only u's locals change.
OthersKept(u) ==
    \A v \in Upload \ {u} : /\ upc'[v] = upc[v] /\ uresult'[v] = uresult[v]
                            /\ usess'[v] = usess[v] /\ ufile'[v] = ufile[v]

\* A handler that moves on or answers leaves the other handlers alone.
LEMMA LocalsMove ==
    ASSUME TypeOK, NEW u \in Upload
    PROVE  /\ Done(u) => OthersKept(u) /\ ~Saved(u)'
           /\ \A pc \in UploadPc :
                 Goto(u, pc) => /\ OthersKept(u) /\ upc'[u] = pc
                                /\ uresult' = uresult /\ usess' = usess /\ ufile' = ufile
BY DEF Done, Goto, OthersKept, Saved, TypeOK, UploadPc

\* Finding the session, the checks, a claim, the activity updates, the failures
\* before the copy ends well, the removal and the countdown are hidden.
LEMMA HandlerHidden ==
    ASSUME IndInv, NEW u \in Upload, ~Saved(u), ~Saved(u)', OthersKept(u),
           PhasesKept, StoresKept,
           \A s \in Session, f \in File :
              \/ status'[s][f] = status[s][f]
              \/ {status[s][f], status'[s][f]} \subseteq {"pending", "inProgress"},
           \A s \in Session, f \in File :
              target'[s][f] = target[s][f] \/ Fate(s, f) # "saved"
    PROVE  Implemented
<1>1. \A s \in Session, f \in File : Copied(s, f)' <=> Copied(s, f)
  BY CopiedKept DEF OthersKept
<1>2. FatesKept
  BY <1>1 DEF FatesKept, Fate
<1>3. PlacesKept
  BY DEF PlacesKept
<1>4. QED
  BY <1>2, <1>3, Stutters

\* A request that arrives is not yet an event of the abstract session.
LEMMA UploadBeginHidden ==
    ASSUME IndInv, NEW u \in Upload, NEW s \in Session, NEW f \in File, UploadBegin(u, s, f)
    PROVE  Implemented
<1>1. /\ ~Saved(u) /\ ~Saved(u)' /\ OthersKept(u)
      /\ UNCHANGED <<life, started, killer, status, target, disk>>
  BY DEF UploadBegin, Saved, OthersKept, IndInv, TypeOK, sessVars, fileVars
<1>2. PhasesKept /\ StoresKept
  BY <1>1 DEF PhasesKept, StoresKept, Phase, Store
<1>3. QED
  BY <1>1, <1>2, HandlerHidden

\* Looking the session up is hidden.
LEMMA SaveCheckHidden ==
    ASSUME IndInv, NEW u \in Upload, NEW c \in Client, SaveCheck(u, c)
    PROVE  Implemented
<1>1. /\ ~Saved(u) /\ ~Saved(u)' /\ OthersKept(u)
      /\ UNCHANGED <<life, started, killer, status, target, disk>>
  BY LocalsMove DEF SaveCheck, Saved, IndInv, UploadPc, sessVars, fileVars
<1>2. PhasesKept /\ StoresKept
  BY <1>1 DEF PhasesKept, StoresKept, Phase, Store
<1>3. QED
  BY <1>1, <1>2, HandlerHidden

\* Claiming the file changes its status and nothing the client was promised.
LEMMA ClaimHidden ==
    ASSUME IndInv, NEW u \in Upload, NEW hasToken \in BOOLEAN, Claim(u, hasToken)
    PROVE  Implemented
<1>1. /\ ~Saved(u) /\ ~Saved(u)' /\ OthersKept(u)
      /\ UNCHANGED <<life, started, killer, target, disk>>
  BY LocalsMove DEF Claim, Saved, IndInv, UploadPc, sessVars
<1>2. ASSUME NEW s \in Session, NEW f \in File
      PROVE  \/ status'[s][f] = status[s][f]
             \/ {status[s][f], status'[s][f]} \subseteq {"pending", "inProgress"}
  <2>1. usess[u] \in Session /\ ufile[u] \in File
    BY DEF Claim, IndInv, LocalsInv
  <2>2. CASE status' = status
    BY <2>2
  <2>3. CASE Claimable(usess[u], ufile[u])
             /\ status' = [status EXCEPT ![usess[u]][ufile[u]] = "inProgress"]
    <3>1. CASE s = usess[u] /\ f = ufile[u]
      BY <2>1, <2>3, <3>1 DEF Claimable, IndInv, TypeOK
    <3>2. CASE s # usess[u] \/ f # ufile[u]
      BY <2>1, <2>3, <3>2 DEF IndInv, TypeOK
    <3>3. QED
      BY <3>1, <3>2
  <2>4. QED
    BY <2>2, <2>3 DEF Claim
<1>3. PhasesKept /\ StoresKept
  BY <1>1 DEF PhasesKept, StoresKept, Phase, Store
<1>4. QED
  BY <1>1, <1>2, <1>3, HandlerHidden

\* A preparation that fails has put nothing under a final name.
LEMMA PrepareFailsHidden ==
    ASSUME IndInv, NEW u \in Upload, PrepareFails(u)
    PROVE  Implemented
<1>1. /\ ~Saved(u) /\ ~Saved(u)' /\ OthersKept(u)
      /\ UNCHANGED <<life, started, killer, status, target, disk>>
  BY LocalsMove DEF PrepareFails, Saved, IndInv, LocalsInv, UploadPc, sessVars, fileVars
<1>2. PhasesKept /\ StoresKept
  BY <1>1 DEF PhasesKept, StoresKept, Phase, Store
<1>3. QED
  BY <1>1, <1>2, HandlerHidden

\* A partial file occupies nothing in the eyes of FileDelivery.
LEMMA CreateHidden ==
    ASSUME IndInv, NEW u \in Upload, NEW p \in Path, Create(u, p)
    PROVE  Implemented
<1>1. /\ ~Saved(u) /\ ~Saved(u)' /\ OthersKept(u)
      /\ UNCHANGED <<life, started, killer, status>>
      /\ disk[p] = "free" /\ disk' = [disk EXCEPT ![p] = "partial"]
      /\ target' = [target EXCEPT ![usess[u]][ufile[u]] = p]
  BY LocalsMove DEF Create, Creatable, Saved, IndInv, LocalsInv, UploadPc, sessVars
<1>2. PhasesKept
  BY <1>1 DEF PhasesKept, Phase
<1>3. StoresKept
  BY <1>1 DEF StoresKept, Store, IndInv, TypeOK
<1>4. Fate(usess[u], ufile[u]) # "saved"
  BY <1>1, ClaimOutstanding DEF Create, HasClaim
<1>5. \A s \in Session, f \in File : target'[s][f] = target[s][f] \/ Fate(s, f) # "saved"
  BY <1>1, <1>4 DEF IndInv, TypeOK
<1>6. QED
  BY <1>1, <1>2, <1>3, <1>5, HandlerHidden

\* Reading the body is hidden: nothing is under the final name.
LEMMA ReadBodyHidden ==
    ASSUME IndInv, NEW u \in Upload, ReadBody(u)
    PROVE  Implemented
<1>1. /\ ~Saved(u) /\ ~Saved(u)' /\ OthersKept(u)
      /\ UNCHANGED <<life, started, killer, status, target, disk>>
  BY DEF ReadBody, Saved, OthersKept, sessVars, fileVars
<1>2. PhasesKept /\ StoresKept
  BY <1>1 DEF PhasesKept, StoresKept, Phase, Store
<1>3. QED
  BY <1>1, <1>2, HandlerHidden

\* Counting the files that remain is hidden.
LEMMA CountDownHidden ==
    ASSUME IndInv, NEW u \in Upload, CountDown(u)
    PROVE  Implemented
<1>1. /\ ~Saved(u) /\ ~Saved(u)' /\ OthersKept(u)
      /\ UNCHANGED <<life, started, killer, status, target, disk>>
  BY LocalsMove DEF CountDown, Saved, IndInv, UploadPc, sessVars, fileVars
<1>2. PhasesKept /\ StoresKept
  BY <1>1 DEF PhasesKept, StoresKept, Phase, Store
<1>3. QED
  BY <1>1, <1>2, HandlerHidden

\* Finding that none remains is hidden; ending the session is not.
LEMMA EndZeroHidden ==
    ASSUME IndInv, NEW u \in Upload, EndZero(u)
    PROVE  Implemented
<1>1. /\ ~Saved(u) /\ ~Saved(u)' /\ OthersKept(u)
      /\ UNCHANGED <<life, started, killer, status, target, disk>>
  BY LocalsMove DEF EndZero, Saved, IndInv, UploadPc, sessVars, fileVars
<1>2. PhasesKept /\ StoresKept
  BY <1>1 DEF PhasesKept, StoresKept, Phase, Store
<1>3. QED
  BY <1>1, <1>2, HandlerHidden

\* The handler that counted the last file down ends the session: FileDelivery's
\* Finish, unless a cancel came first.
LEMMA EndCasFinishes ==
    ASSUME IndInv, NEW u \in Upload, EndCas(u)
    PROVE  Implemented
<1> DEFINE s == usess[u]
<1>1. /\ upc[u] = "cas" /\ s \in Session /\ life[s] = "open"
      /\ ~Saved(u) /\ ~Saved(u)' /\ OthersKept(u)
      /\ started' = [started EXCEPT ![s] = FALSE]
      /\ UNCHANGED <<life, killer, status, target, disk>>
  BY LocalsMove DEF EndCas, Saved, IndInv, LocalsInv, UploadPc, sessVars, fileVars
<1> HIDE DEF s
<1>2. StoresKept
  BY <1>1 DEF StoresKept, Store
<1>3. CASE ~started[s] \/ killer[s] # "none"
  <2>1. PhasesKept
    BY <1>1, <1>3 DEF PhasesKept, Phase, IndInv, TypeOK
  <2>2. QED
    BY <1>1, <1>2, <2>1, HandlerHidden
<1>4. CASE started[s] /\ killer[s] = "none"
  <2>1. \A t \in Session, f \in File : Copied(t, f)' <=> Copied(t, f)
    BY <1>1, CopiedKept DEF OthersKept
  <2>2. FatesKept /\ PlacesKept
    BY <1>1, <2>1 DEF FatesKept, PlacesKept, Fate
  <2>3. /\ Phase(s) = "open"
        /\ [t \in Session |-> Phase(t)]'
              = [[t \in Session |-> Phase(t)] EXCEPT ![s] = "finished"]
    BY <1>1, <1>4 DEF Phase, IndInv, TypeOK
  <2>4. Unfinished(s) = {}
    BY <1>1, <1>4 DEF IndInv, EndInv, s
  <2>5. \A f \in File : Fate(s, f) # "offered"
    BY <1>1, <2>4 DEF Unfinished, Fate, IndInv, TypeOK, Status
  <2>6. Delivery!Finish(s)
    BY <1>1, <1>2, <2>2, <2>3, <2>5, ViewKept DEF Delivery!Finish
  <2>7. QED
    BY <1>1, <2>6 DEF Implemented, Delivery!Next
<1>5. QED
  BY <1>3, <1>4

\* A copy that ends well is the delivery of the file, at a path that was free
\* when the handler created it; one that does not is hidden.
LEMMA CopyEndsDelivers ==
    ASSUME IndInv, NEW u \in Upload, NEW result \in {"finished", "pending", "failed"},
           CopyEnds(u, result)
    PROVE  Implemented
<1>1. /\ upc[u] = "writing" /\ HasClaim(u) /\ ~Saved(u) /\ OthersKept(u)
      /\ upc'[u] = "closing" /\ uresult'[u] = result
      /\ usess' = usess /\ ufile' = ufile
      /\ UNCHANGED <<life, started, killer, status, target>>
  BY DEF CopyEnds, Saved, HasClaim, OthersKept, IndInv, TypeOK, sessVars, fileVars
<1>2. PhasesKept
  BY <1>1 DEF PhasesKept, Phase
<1>3. CASE result # "finished"
  <2>1. ~Saved(u)' /\ disk' = disk
    BY <1>1, <1>3 DEF CopyEnds, Saved
  <2>2. StoresKept
    BY <2>1 DEF StoresKept, Store
  <2>3. QED
    BY <1>1, <1>2, <2>1, <2>2, HandlerHidden
<1>4. CASE result = "finished"
  <2>1. PICK s \in Session, f \in File :
              /\ usess[u] = s /\ ufile[u] = f /\ status[s][f] = "inProgress"
              /\ Fate(s, f) = "offered" /\ Phase(s) \in {"open", "cancelled"}
    BY <1>1, ClaimOutstanding
  <2>2. PICK p \in Path : /\ target[s][f] = p /\ disk[p] = "partial"
                          /\ disk' = [disk EXCEPT ![p] = "complete"]
    BY <1>1, <1>4, <2>1 DEF IndInv, DiskInv, Dirty, SaveAs, CopyEnds
  <2>3. Copied(s, f)'
    BY <1>1, <1>4, <2>1 DEF Copied
  <2>4. ASSUME NEW t \in Session, NEW g \in File, t # s \/ g # f
        PROVE  Copied(t, g)' <=> Copied(t, g)
    BY <1>1, <2>1, <2>4 DEF Copied, OthersKept
  <2>5. Fate(s, f)' = "saved"
    BY <2>3 DEF Fate
  <2>6. ASSUME NEW t \in Session, NEW g \in File, t # s \/ g # f
        PROVE  Fate(t, g)' = Fate(t, g)
    BY <1>1, <2>4, <2>6 DEF Fate
  <2>7. [t \in Session |-> [g \in File |-> Fate(t, g)]]'
          = [[t \in Session |-> [g \in File |-> Fate(t, g)]] EXCEPT ![s][f] = "saved"]
    <3>1. ASSUME NEW t \in Session
          PROVE  [g \in File |-> Fate(t, g)]'
                   = IF t = s THEN [[g \in File |-> Fate(t, g)] EXCEPT ![f] = "saved"]
                     ELSE [g \in File |-> Fate(t, g)]
      BY <2>5, <2>6
    <3>2. QED
      BY <3>1
  <2>8. p = target'[s][f] /\ target' = target
    BY <1>1, <2>2
  <2>9. ASSUME NEW t \in Session, NEW g \in File
        PROVE  Place(t, g)'
                 = IF t = s /\ g = f THEN p
                   ELSE Place(t, g)
    BY <2>5, <2>6, <2>8 DEF Place
  <2>10. [t \in Session |-> [g \in File |-> Place(t, g)]]'
           = [[t \in Session |-> [g \in File |-> Place(t, g)]] EXCEPT ![s][f] = p]
    <3>1. ASSUME NEW t \in Session
          PROVE  [g \in File |-> Place(t, g)]'
                   = IF t = s THEN [[g \in File |-> Place(t, g)] EXCEPT ![f] = p]
                     ELSE [g \in File |-> Place(t, g)]
      BY <2>9
    <3>2. QED
      BY <3>1
  <2>11. /\ Store(p) = "free"
         /\ [q \in Path |-> Store(q)]' = [[q \in Path |-> Store(q)] EXCEPT ![p] = "saved"]
    BY <2>2 DEF Store, IndInv, TypeOK
  <2>12. Delivery!Deliver(s, f, p)
    BY <1>2, <2>1, <2>2, <2>7, <2>10, <2>11, ViewKept DEF Delivery!Deliver
  <2>13. QED
    BY <2>1, <2>2, <2>12 DEF Implemented, Delivery!Next
<1>5. QED
  BY <1>3, <1>4

\* Closing removes at most the handler's own partial file; a file that was
\* copied well stays copied.
LEMMA CloseFileHidden ==
    ASSUME IndInv, NEW u \in Upload, CloseFile(u)
    PROVE  Implemented
<1>1. /\ upc[u] = "closing" /\ upc'[u] = "finish" /\ OthersKept(u)
      /\ uresult' = uresult /\ usess' = usess /\ ufile' = ufile
      /\ UNCHANGED <<life, started, killer, status, target>>
  BY LocalsMove DEF CloseFile, IndInv, UploadPc, sessVars, fileVars
<1>2. PhasesKept
  BY <1>1 DEF PhasesKept, Phase
<1>3. StoresKept
  <2>1. CASE disk' = disk
    BY <2>1 DEF StoresKept, Store
  <2>2. CASE Removes(u) /\ disk' = [disk EXCEPT ![SaveAs(u)] = "free"]
    <3>1. disk[SaveAs(u)] = "partial"
      BY <1>1, <2>2 DEF Removes, IndInv, DiskInv, Dirty
    <3>2. QED
      BY <2>2, <3>1 DEF StoresKept, Store, IndInv, TypeOK
  <2>3. QED
    BY <2>1, <2>2 DEF CloseFile
<1>4. \A s \in Session, f \in File : Copied(s, f)' <=> Copied(s, f)
  <2>1. ASSUME NEW v \in Upload
        PROVE  upc'[v] \in {"closing", "finish"} <=> upc[v] \in {"closing", "finish"}
    BY <1>1 DEF OthersKept
  <2>2. QED
    BY <1>1, <2>1 DEF Copied
<1>5. FatesKept /\ PlacesKept
  BY <1>1, <1>4 DEF FatesKept, PlacesKept, Fate
<1>6. QED
  BY <1>2, <1>3, <1>5, Stutters

\* Publishing a result: a saved file was delivered when its copy ended, a retry
\* leaves the file on offer, and anything else gives it up.
LEMMA FinishFileAttemptImplemented ==
    ASSUME IndInv, NEW u \in Upload, FinishFileAttempt(u)
    PROVE  Implemented
<1>1. PICK s \in Session, f \in File : usess[u] = s /\ ufile[u] = f
  BY DEF FinishFileAttempt, IndInv, LocalsInv
<1>2. /\ upc[u] = "finish" /\ HasClaim(u) /\ ~Saved(u)' /\ OthersKept(u)
      /\ UNCHANGED <<life, started, killer, target, disk>>
  BY LocalsMove DEF FinishFileAttempt, AfterAttempt, HasClaim, Saved, IndInv, UploadPc, sessVars
<1>3. status[s][f] = "inProgress"
  BY <1>1, <1>2 DEF IndInv, ClaimInv
<1>4. /\ status'[s][f] = IF Retries(u) THEN "pending"
                         ELSE IF uresult[u] = "finished" THEN "finished" ELSE "failed"
      /\ \A t \in Session, g \in File : t # s \/ g # f => status'[t][g] = status[t][g]
  BY <1>1 DEF FinishFileAttempt, IndInv, TypeOK
<1>5. PhasesKept /\ StoresKept
  BY <1>2 DEF PhasesKept, StoresKept, Phase, Store
<1>6. CASE uresult[u] = "finished"
  <2>1. Copied(s, f)
    BY <1>1, <1>2, <1>6 DEF Copied
  <2>2. status'[s][f] = "finished"
    BY <1>4, <1>6 DEF Retries
  <2>3. ASSUME NEW t \in Session, NEW g \in File, t # s \/ g # f
        PROVE  Copied(t, g)' <=> Copied(t, g)
    <3>1. ASSUME NEW v \in Upload
          PROVE  (/\ usess[v] = t /\ ufile[v] = g
                  /\ upc[v] \in {"closing", "finish"} /\ uresult[v] = "finished")'
                 <=> /\ usess[v] = t /\ ufile[v] = g
                     /\ upc[v] \in {"closing", "finish"} /\ uresult[v] = "finished"
      <4>1. CASE v = u
        BY <1>1, <1>2, <2>3, <4>1 DEF Saved
      <4>2. CASE v # u
        BY <1>2, <4>2 DEF OthersKept
      <4>3. QED
        BY <4>1, <4>2
    <3>2. QED
      BY <3>1 DEF Copied
  <2>4. ASSUME NEW t \in Session, NEW g \in File
        PROVE  Fate(t, g)' = Fate(t, g)
    BY <1>4, <2>1, <2>2, <2>3 DEF Fate
  <2>5. FatesKept /\ PlacesKept
    BY <1>2, <2>4 DEF FatesKept, PlacesKept
  <2>6. QED
    BY <1>5, <2>5, Stutters
<1>7. CASE uresult[u] # "finished" /\ Retries(u)
  <2>1. ~Saved(u)
    BY <1>7 DEF Saved
  <2>2. QED
    BY <1>2, <1>3, <1>4, <1>5, <1>7, <2>1, HandlerHidden
<1>8. CASE uresult[u] # "finished" /\ ~Retries(u)
  <2>1. ~Saved(u)
    BY <1>8 DEF Saved
  <2>2. Fate(s, f) = "offered" /\ ~Copied(s, f)
    BY <1>1, <1>2, <2>1, ClaimOutstanding
  <2>3. \A t \in Session, g \in File : Copied(t, g)' <=> Copied(t, g)
    BY <1>2, <2>1, CopiedKept DEF OthersKept
  <2>4. Fate(s, f)' = "given up"
    BY <1>4, <1>8, <2>2, <2>3 DEF Fate
  <2>5. ASSUME NEW t \in Session, NEW g \in File, t # s \/ g # f
        PROVE  Fate(t, g)' = Fate(t, g)
    BY <1>4, <2>3, <2>5 DEF Fate
  <2>6. [t \in Session |-> [g \in File |-> Fate(t, g)]]'
          = [[t \in Session |-> [g \in File |-> Fate(t, g)]] EXCEPT ![s][f] = "given up"]
    BY <2>4, <2>5
  <2>7. [t \in Session |-> [g \in File |-> Place(t, g)]]'
           = [t \in Session |-> [g \in File |-> Place(t, g)]]
    <3>1. ASSUME NEW t \in Session, NEW g \in File
          PROVE  Place(t, g)' = Place(t, g)
      BY <1>2, <2>2, <2>4, <2>5 DEF Place
    <3>2. QED
      BY <3>1
  <2>8. Delivery!GiveUp(s, f)
    BY <1>5, <2>2, <2>6, <2>7, ViewKept DEF Delivery!GiveUp
  <2>9. QED
    BY <2>8 DEF Implemented, Delivery!Next
<1>9. QED
  BY <1>6, <1>7, <1>8

-----------------------------------------------------------------------------
\* Every step of RecvSessions is a step of FileDelivery or none.
LEMMA StepImplemented == IndInv /\ [Next]_vars => [Delivery!Next]_(Delivery!deliveryVars)
<1> SUFFICES ASSUME IndInv, [Next]_vars
             PROVE  Implemented
  BY DEF Implemented
<1>1. CASE UNCHANGED vars
  <2>1. PhasesKept /\ FatesKept /\ PlacesKept /\ StoresKept
    BY <1>1 DEF vars, sessVars, fileVars, uploadVars, PhasesKept, FatesKept, PlacesKept,
                StoresKept, Phase, Fate, Copied, Store
  <2>2. QED
    BY <2>1, Stutters
<1>2. ASSUME NEW u \in Upload, HandlerStep(u)
      PROVE  Implemented
  BY <1>2, SaveCheckHidden, ClaimHidden, CloseFileHidden, FinishFileAttemptImplemented,
     CountDownHidden, EndCasFinishes, EndZeroHidden DEF HandlerStep
<1>3. QED
  BY <1>1, <1>2, SessionStepHidden, AdmitOffers, KillCancels, ForeignOccupies,
     UploadBeginHidden, PrepareFailsHidden, CreateHidden, ReadBodyHidden, CopyEndsDelivers
     DEF Next, SessionStep

\* The initial states of RecvSessions are initial states of FileDelivery.
LEMMA InitImplemented == Init => Delivery!Init
<1> SUFFICES ASSUME Init
             PROVE  Delivery!Init
  OBVIOUS
<1>1. \A s \in Session, f \in File : ~Copied(s, f)
  BY DEF Init, Copied
<1>2. \A s \in Session : Phase(s) = "none"
  BY DEF Init, Phase
<1>3. \A s \in Session, f \in File : Fate(s, f) = "absent"
  BY <1>1 DEF Init, Fate
<1>4. \A p \in Path : Store(p) \in {"free", "foreign"}
  BY DEF Init, Store
<1>5. QED
  BY <1>2, <1>3, <1>4 DEF Delivery!Init, Place

\* Refinement: whatever handlers, cancels, checksum retries, timeouts and the
\* vacuum do, every behaviour of the receive sessions (session/recv.go,
\* recvsessman.go) is one of FileDelivery: an offered file is delivered
\* whole, once, at a path that was free, or given up, and a session finishes by
\* itself only when none of its files is outstanding.
THEOREM SessionsDeliver == Spec => DeliversFiles
<1>1. Spec => []IndInv
  BY Invariance
<1>2. QED
  BY <1>1, InitImplemented, StepImplemented, PTL DEF Spec, DeliversFiles, Delivery!Spec

=============================================================================
