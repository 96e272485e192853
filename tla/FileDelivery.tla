---------------------------- MODULE FileDelivery ----------------------------
(***************************************************************************)
(* What a receiver of offered files promises, without sessions' locks,     *)
(* handlers, retries and partial files: a session's offer is made once,    *)
(* every offered file is saved at most once, in one step, at a path that   *)
(* was free, or is given up; a saved file stays; a session finishes by     *)
(* itself only when none of its files is outstanding.  RecvDelivery shows  *)
(* that RecvSessions implements it.                                        *)
(***************************************************************************)
CONSTANTS Session, File, Path, None

VARIABLES
    phase,  \* "none", "open", "finished" or "cancelled", per session
    fate,   \* "absent", "offered", "saved" or "given up", per session and file
    place,  \* the path of a saved file
    store   \* "free", "foreign" or "saved", per path

deliveryVars == <<phase, fate, place, store>>

Init ==
    /\ phase = [s \in Session |-> "none"]
    /\ fate = [s \in Session |-> [f \in File |-> "absent"]]
    /\ place = [s \in Session |-> [f \in File |-> None]]
    /\ store \in [Path -> {"free", "foreign"}]

\* A client's offer of the files F is accepted.
Offer(s, F) ==
    /\ phase[s] = "none" /\ F # {}
    /\ phase' = [phase EXCEPT ![s] = "open"]
    /\ fate' = [fate EXCEPT ![s] = [f \in File |-> IF f \in F THEN "offered" ELSE "absent"]]
    /\ UNCHANGED <<place, store>>

\* The whole file appears at a free path.  A cancelled session may still save
\* what was being received; a finished one has nothing left to save.
Deliver(s, f, p) ==
    /\ phase[s] \in {"open", "cancelled"}
    /\ fate[s][f] = "offered" /\ store[p] = "free"
    /\ fate' = [fate EXCEPT ![s][f] = "saved"]
    /\ place' = [place EXCEPT ![s][f] = p]
    /\ store' = [store EXCEPT ![p] = "saved"]
    /\ UNCHANGED phase

\* A file is given up for good: nothing of it is left.
GiveUp(s, f) ==
    /\ fate[s][f] = "offered"
    /\ fate' = [fate EXCEPT ![s][f] = "given up"]
    /\ UNCHANGED <<phase, place, store>>

Finish(s) ==
    /\ phase[s] = "open"
    /\ \A f \in File : fate[s][f] # "offered"
    /\ phase' = [phase EXCEPT ![s] = "finished"]
    /\ UNCHANGED <<fate, place, store>>

Cancel(s) ==
    /\ phase[s] \in {"open", "finished"}
    /\ phase' = [phase EXCEPT ![s] = "cancelled"]
    /\ UNCHANGED <<fate, place, store>>

\* Some other program takes a free path.
Occupy(p) ==
    /\ store[p] = "free"
    /\ store' = [store EXCEPT ![p] = "foreign"]
    /\ UNCHANGED <<phase, fate, place>>

Next ==
    \/ \E s \in Session, F \in SUBSET File : Offer(s, F)
    \/ \E s \in Session, f \in File, p \in Path : Deliver(s, f, p)
    \/ \E s \in Session, f \in File : GiveUp(s, f)
    \/ \E s \in Session : Finish(s) \/ Cancel(s)
    \/ \E p \in Path : Occupy(p)

Spec == Init /\ [][Next]_deliveryVars

=============================================================================
