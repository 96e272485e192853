---------------------------- MODULE RecvDelivery ----------------------------
(***************************************************************************)
(* RecvSessions implements FileDelivery.  A partial file does not count as *)
(* occupying its path, because nobody but its handler can complete or      *)
(* remove it; a file is saved at the step in which its copy ends well,     *)
(* before its status says so.                                              *)
(***************************************************************************)
EXTENDS RecvSessions

\* SaveFile has copied all of the file and finishFileAttempt is still to come.
Copied(s, f) ==
    \E u \in Upload : /\ usess[u] = s /\ ufile[u] = f
                      /\ upc[u] \in {"closing", "finish"} /\ uresult[u] = "finished"

Fate(s, f) ==
    IF status[s][f] = "finished" \/ Copied(s, f) THEN "saved"
    ELSE IF status[s][f] = "failed" THEN "given up"
    ELSE IF status[s][f] = "absent" THEN "absent"
    ELSE "offered"

\* A session that was cancelled stays so, whether or not it had already ended.
Phase(s) ==
    IF life[s] = "unused" THEN "none"
    ELSE IF killer[s] # "none" THEN "cancelled"
    ELSE IF life[s] \in {"responding", "open", "lost"} /\ ~started[s] THEN "finished"
    ELSE "open"

Place(s, f) == IF Fate(s, f) = "saved" THEN target[s][f] ELSE None

Store(p) ==
    IF disk[p] = "complete" THEN "saved"
    ELSE IF disk[p] = "partial" THEN "free"
    ELSE disk[p]

Delivery == INSTANCE FileDelivery WITH
    phase <- [s \in Session |-> Phase(s)],
    fate  <- [s \in Session |-> [f \in File |-> Fate(s, f)]],
    place <- [s \in Session |-> [f \in File |-> Place(s, f)]],
    store <- [p \in Path |-> Store(p)]

\* Whatever handlers, cancels, retries, timeouts and the vacuum do, the
\* sessions deliver files as FileDelivery says: each offered file whole, once,
\* at a path that was free, or not at all, and no session finishes by itself
\* with a file outstanding.
DeliversFiles == Delivery!Spec

=============================================================================
