---------------------------- MODULE ReceiveSlot ----------------------------
(***************************************************************************)
(* What the receiver of one session at a time promises its senders,        *)
(* without messages, states, files and the goroutines that close           *)
(* connections: the one slot is reserved only while it is free, goes from  *)
(* the reservation to a new connection or back, and is the owner's until   *)
(* it gives it up; it is never taken over, and no connection has it twice. *)
(* RTCReceiver implements it.                                              *)
(***************************************************************************)
CONSTANTS Conn, None

VARIABLES
    reserved,  \* an offer is being accepted
    owner,     \* the connection that has the slot, or None
    seen       \* connections that were set up

slotVars == <<reserved, owner, seen>>

Init == reserved = FALSE /\ owner = None /\ seen = {}

Reserve ==
    /\ ~reserved /\ owner = None
    /\ reserved' = TRUE
    /\ UNCHANGED <<owner, seen>>

\* The offer is bad, or the receiver is closed meanwhile.
Abandon ==
    /\ reserved
    /\ reserved' = FALSE
    /\ UNCHANGED <<owner, seen>>

Grant(c) ==
    /\ reserved /\ c \notin seen
    /\ reserved' = FALSE /\ owner' = c
    /\ seen' = seen \cup {c}

\* A connection set up for a reservation that is gone.
Refuse(c) ==
    /\ ~reserved /\ c \notin seen
    /\ seen' = seen \cup {c}
    /\ UNCHANGED <<reserved, owner>>

Release ==
    /\ owner # None
    /\ owner' = None
    /\ UNCHANGED <<reserved, seen>>

Next ==
    \/ Reserve \/ Abandon \/ Release
    \/ \E c \in Conn : Grant(c) \/ Refuse(c)

Spec == Init /\ [][Next]_slotVars
=============================================================================
