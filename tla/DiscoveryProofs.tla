-------------------------- MODULE DiscoveryProofs --------------------------
(***************************************************************************)
(* Proofs about LAN discovery, for every set of devices, hosts and         *)
(* announcements and every limit: an announcement in flight has exactly    *)
(* one owner, and the table of devices stays within its limit, each entry  *)
(* as old as its newest channel, whatever is answered, registered, probed, *)
(* evicted and expired while listeners fail and are bound again; the       *)
(* channel shown does not depend on the order of the map; no socket is     *)
(* left open.                                                              *)
(***************************************************************************)
EXTENDS Discovery, FiniteSetTheorems, TLAPS

-----------------------------------------------------------------------------
(* The inductive invariant *)

Instances == [sock : {"none", "open", "shut"}, tasks : SUBSET Task]
Probes    == [pc : {"no", "running", "done"}, todo : SUBSET Job, busy : SUBSET Job]
Responses == [key : Key, phase : {"post", "delete"}]

ControlOK ==
    /\ program \in {"recv", "scan"} /\ {cancelled, current, after, stopped, leaked} \subseteq BOOLEAN
    /\ sup \in {"check", "bind", "start", "listen", "clear", "close", "retry", "ended"}
    /\ inst \in Instances /\ errs \in [Listener -> 0..MaxErrors]

\* A key in flight has one owner: a listener that decides on it, or a goroutine
\* that answers it.
KeyInv ==
    /\ keyed \in [Listener -> Key \cup {NoKey}] /\ inFlight \subseteq Key
    /\ responses \subseteq Responses
    /\ KeysOwned
    /\ \A l \in Listener, r \in responses : keyed[l] # r.key
    /\ \A l, m \in Listener : keyed[l] = keyed[m] /\ keyed[l] # NoKey => l = m

SlotInv == IsFiniteSet(responses) /\ Cardinality(Holders) <= MaxResponses

\* What TableSound says of an entry, and the table as a whole.
EntrySound(e) ==
    /\ IsFiniteSet(e.channels)
    /\ \E c \in e.channels : c.age = e.age
    /\ \A c \in e.channels : c.age >= e.age
    /\ \A c, f \in e.channels : c.host = f.host => c = f

TableOK(t) ==
    /\ DOMAIN t \subseteq Device /\ \A d \in DOMAIN t : t[d] \in Entry /\ EntrySound(t[d])
    /\ t = [d \in DOMAIN t |-> t[d]]
    /\ Cardinality(DOMAIN t) <= MaxDevices

TableInv == TableOK(table)

ProbeInv ==
    /\ probe \in Probes
    /\ IsFiniteSet(probe.busy) /\ Cardinality(probe.busy) <= MaxScans

IndInv == ControlOK /\ KeyInv /\ SlotInv /\ TableInv /\ ProbeInv

-----------------------------------------------------------------------------
(* Control: the supervisor, the sockets and the listeners *)

LEMMA Constants ==
    /\ TTL \in Nat /\ MaxDevices \in Nat /\ MaxResponses \in Nat /\ MaxErrors \in Nat
    /\ MaxScans \in Nat /\ MaxDevices > 0 /\ MaxErrors > 0
    /\ IsFiniteSet(Device) /\ Host \subseteq Nat /\ Key \subseteq [device : Device, host : Host, scheme : Scheme]
    /\ NoKey \notin Key
<1>1. /\ TTL \in Nat /\ MaxDevices \in Nat /\ MaxResponses \in Nat /\ MaxErrors \in Nat
      /\ MaxScans \in Nat /\ MaxDevices > 0 /\ MaxErrors > 0
      /\ IsFiniteSet(Device) /\ Host \subseteq Nat
  BY DiscoveryAssumption DEF Host
<1>2. Key \subseteq [device : Device, host : Host, scheme : Scheme]
  BY DiscoveryAssumption DEF Key, Host, Scheme
<1>3. NoKey \notin Key
  <2>1. NoKey.scheme = "none"
    BY DEF NoKey
  <2>2. \A x \in Key : x.scheme \in {"http", "https"}
    BY <1>2 DEF Scheme
  <2>3. QED
    BY <2>1, <2>2
<1>4. QED
  BY <1>1, <1>2, <1>3

\* Closing the sockets leaves the tasks to themselves.
LEMMA ShutType ==
    ASSUME NEW i \in Instances
    PROVE  Shut(i) \in Instances
  BY DEF Shut, Instances

\* What a step of the supervisor, of Stop and of the listeners does to the
\* Discoverer.
LEMMA ControlStep == IndInv /\ [Next]_vars => ControlOK'
<1> SUFFICES ASSUME IndInv, [Next]_vars
             PROVE  ControlOK'
  OBVIOUS
<1>0. /\ program \in {"recv", "scan"} /\ cancelled \in BOOLEAN /\ current \in BOOLEAN
      /\ after \in BOOLEAN /\ stopped \in BOOLEAN /\ leaked \in BOOLEAN
      /\ sup \in {"check", "bind", "start", "listen", "clear", "close", "retry", "ended"}
      /\ inst \in Instances /\ errs \in [Listener -> 0..MaxErrors]
  BY DEF IndInv, ControlOK
<1>1. ASSUME UNCHANGED <<supVars, leaked>>, inst' \in Instances, errs' \in [Listener -> 0..MaxErrors]
      PROVE  ControlOK'
  BY <1>0, <1>1 DEF ControlOK, supVars
<1>2. ASSUME UNCHANGED <<supVars, inst, leaked, errs>>
      PROVE  ControlOK'
  BY <1>0, <1>1, <1>2
<1>3. Shut(inst) \in Instances /\ Bound \in Instances /\ [l \in Listener |-> 0] \in [Listener -> 0..MaxErrors]
  BY <1>0, ShutType, Constants DEF Bound, Instances
<1>4. CASE Cancel \/ Check \/ BindFails \/ Clear \/ Retry
  BY <1>0, <1>4 DEF Cancel, Check, BindFails, Clear, Retry, ClearedInstance, ControlOK
<1>5. CASE BindSucceeds
  BY <1>0, <1>3, <1>5 DEF BindSucceeds, ControlOK
<1>6. CASE Listen
  <2>1. inst' \in Instances
    BY <1>0, <1>6 DEF Listen, Instances, Task
  <2>2. after' \in BOOLEAN
    BY <1>6 DEF Listen, Armed
  <2>3. QED
    BY <1>0, <1>6, <2>1, <2>2 DEF Listen, ControlOK
<1>7. CASE ListenReturns \/ CloseInstance \/ AfterCancel \/ Stop
  BY <1>0, <1>3, <1>7 DEF ListenReturns, CloseInstance, AfterCancel, Stop, ControlOK
<1>8. CASE \E t \in Task : TaskEnds(t)
  <2>1. inst' \in Instances
    BY <1>0, <1>8 DEF TaskEnds, Instances
  <2>2. QED
    BY <1>0, <1>1, <1>8, <2>1 DEF TaskEnds
<1>9. ASSUME NEW l \in Listener, ReadFails(l)
      PROVE  ControlOK'
  <2>1. errs[l] \in 0..MaxErrors /\ errs[l] < MaxErrors
    BY <1>0, <1>9 DEF ReadFails, Listens
  <2>2. errs[l] + 1 \in 0..MaxErrors
    BY <2>1, Constants
  <2>3. errs' \in [Listener -> 0..MaxErrors]
    BY <1>0, <1>9, <2>2 DEF ReadFails
  <2>4. inst' \in Instances
    BY <1>0, <1>9 DEF ReadFails, Instances
  <2>5. QED
    BY <1>1, <1>9, <2>3, <2>4 DEF ReadFails
<1>10. ASSUME NEW l \in Listener, ReadIgnored(l) \/ \E k \in Key : ReadAnnouncement(l, k)
       PROVE  ControlOK'
  <2>1. errs' = [errs EXCEPT ![l] = 0] /\ UNCHANGED <<supVars, inst, leaked>>
    BY <1>10 DEF ReadIgnored, ReadAnnouncement
  <2>2. errs' \in [Listener -> 0..MaxErrors] /\ inst' \in Instances
    BY <1>0, <2>1, Constants
  <2>3. QED
    BY <1>1, <2>1, <2>2
<1>11. CASE \/ \E l \in Listener : StartResponse(l)
            \/ \E r \in responses, d \in Device : Confirm(r, d)
            \/ \E r \in responses : EndResponse(r)
  BY <1>2, <1>11 DEF StartResponse, Confirm, EndResponse
<1>12. CASE (\E k \in Registered : Register(k)) \/ Tick \/ cleanupStaleDiscovered
  BY <1>2, <1>12 DEF Register, Tick, cleanupStaleDiscovered
<1>13. CASE Probe \/ StartProbe
  BY <1>2, <1>13 DEF Probe, EnqueueJob, tryScanIP, StopEnqueueing, ProbeEnds, StartProbe
<1>14. CASE UNCHANGED vars
  BY <1>2, <1>14 DEF vars
<1>15. QED
  BY <1>4, <1>5, <1>6, <1>7, <1>8, <1>9, <1>10, <1>11, <1>12, <1>13, <1>14
     DEF Next, Supervise, Finite

-----------------------------------------------------------------------------
(* Keys: announcements in flight *)

\* Only these steps touch keys and answers.
LEMMA KeysKept ==
    ASSUME [Next]_vars
    PROVE  \/ BindSucceeds
           \/ \E l \in Listener : StartResponse(l)
           \/ \E l \in Listener, k \in Key : ReadAnnouncement(l, k)
           \/ \E r \in responses, d \in Device : Confirm(r, d)
           \/ \E r \in responses : EndResponse(r)
           \/ UNCHANGED respVars
<1>1. CASE Cancel \/ Check \/ BindFails \/ Listen \/ ListenReturns \/ Clear \/ CloseInstance \/ Retry
  BY <1>1 DEF Cancel, Check, BindFails, Listen, ListenReturns, Clear, CloseInstance, Retry
<1>2. CASE AfterCancel \/ Stop \/ \E t \in Task : TaskEnds(t)
  BY <1>2 DEF AfterCancel, Stop, TaskEnds
<1>3. CASE \E l \in Listener : ReadFails(l) \/ ReadIgnored(l)
  BY <1>3 DEF ReadFails, ReadIgnored
<1>4. CASE (\E k \in Registered : Register(k)) \/ Tick \/ cleanupStaleDiscovered
  BY <1>4 DEF Register, Tick, cleanupStaleDiscovered
<1>5. CASE Probe \/ StartProbe
  BY <1>5 DEF Probe, EnqueueJob, tryScanIP, StopEnqueueing, ProbeEnds, StartProbe
<1>6. CASE UNCHANGED vars
  BY <1>6 DEF vars
<1>7. QED
  BY <1>1, <1>2, <1>3, <1>4, <1>5, <1>6 DEF Next, Supervise, Finite

\* The owners of keys, point by point.
Owned(k) == (\E r \in responses : r.key = k) \/ \E l \in Listener : keyed[l] = k

LEMMA OwnedKeys ==
    ASSUME NEW KS \in {inFlight}, keyed \in [Listener -> Key \cup {NoKey}],
           inFlight \subseteq Key, responses \subseteq Responses
    PROVE  KeysOwned <=> /\ \A k \in Key : k \in inFlight <=> Owned(k)
                         /\ \A r, q \in responses : r.key = q.key => r = q
  BY Constants DEF KeysOwned, Owned, Responses

LEMMA KeyStep == IndInv /\ [Next]_vars => KeyInv'
<1> SUFFICES ASSUME IndInv, [Next]_vars
             PROVE  KeyInv'
  OBVIOUS
<1>0. /\ keyed \in [Listener -> Key \cup {NoKey}] /\ inFlight \subseteq Key
      /\ responses \subseteq Responses
      /\ \A k \in Key : k \in inFlight <=> Owned(k)
      /\ \A r, q \in responses : r.key = q.key => r = q
      /\ \A l \in Listener, r \in responses : keyed[l] # r.key
      /\ \A l, m \in Listener : keyed[l] = keyed[m] /\ keyed[l] # NoKey => l = m
  BY OwnedKeys DEF IndInv, KeyInv
<1>1. ASSUME keyed' \in [Listener -> Key \cup {NoKey}], inFlight' \subseteq Key,
             responses' \subseteq Responses,
             \A k \in Key : k \in inFlight' <=> Owned(k)',
             \A r, q \in responses' : r.key = q.key => r = q,
             \A l \in Listener, r \in responses' : keyed'[l] # r.key,
             \A l, m \in Listener : keyed'[l] = keyed'[m] /\ keyed'[l] # NoKey => l = m
      PROVE  KeyInv'
  BY <1>1, Constants DEF KeyInv, KeysOwned, Owned, Responses
<1>2. CASE BindSucceeds
  <2>1. /\ keyed' = [l \in Listener |-> NoKey] /\ inFlight' = {} /\ responses' = {}
    BY <1>2 DEF BindSucceeds
  <2>2. QED
    BY <2>1, <1>1, Constants DEF Owned
<1>3. ASSUME NEW l \in Listener, StartResponse(l)
      PROVE  KeyInv'
  <2> DEFINE k == keyed[l]
             n == [key |-> k, phase |-> "post"]
  <2>1. k \in Key /\ keyed' = [keyed EXCEPT ![l] = NoKey] /\ n \in Responses /\ n.key = k
    BY <1>0, <1>3 DEF StartResponse, Responses
  <2>2. keyed' \in [Listener -> Key \cup {NoKey}]
    BY <1>0, <2>1
  <2>3. /\ keyed'[l] = NoKey
        /\ \A m \in Listener : m # l => keyed'[m] = keyed[m] /\ keyed[m] # k
    BY <1>0, <2>1, Constants
  <2>4. CASE Cardinality(Holders) < MaxResponses
    <3>1. responses' = responses \cup {n} /\ inFlight' = inFlight
      BY <1>3, <2>4 DEF StartResponse
    <3>2. \A j \in Key : Owned(j)' <=> Owned(j)
      BY <1>0, <2>1, <2>3, <3>1, Constants DEF Owned
    <3>3. \A m \in Listener, r \in responses' : keyed'[m] # r.key
      BY <1>0, <2>1, <2>3, <3>1, Constants DEF Responses
    <3>4. \A r, q \in responses' : r.key = q.key => r = q
      BY <1>0, <2>1, <3>1
    <3>5. \A j, m \in Listener : keyed'[j] = keyed'[m] /\ keyed'[j] # NoKey => j = m
      BY <1>0, <2>3
    <3>6. responses' \subseteq Responses /\ inFlight' \subseteq Key
      BY <1>0, <2>1, <3>1
    <3>7. \A j \in Key : j \in inFlight' <=> Owned(j)'
      BY <1>0, <3>1, <3>2
    <3>8. QED
      BY <1>1, <2>2, <3>3, <3>4, <3>5, <3>6, <3>7
  <2>5. CASE ~(Cardinality(Holders) < MaxResponses)
    <3>1. responses' = responses /\ inFlight' = inFlight \ {k}
      BY <1>3, <2>5 DEF StartResponse, DroppedKeys
    <3>2. \A j \in Key : Owned(j)' <=> Owned(j) /\ j # k
      BY <1>0, <2>1, <2>3, <3>1, Constants DEF Owned
    <3>3. \A m \in Listener, r \in responses' : keyed'[m] # r.key
      BY <1>0, <2>1, <2>3, <3>1, Constants DEF Responses
    <3>4. \A j, m \in Listener : keyed'[j] = keyed'[m] /\ keyed'[j] # NoKey => j = m
      BY <1>0, <2>3
    <3>5. \A j \in Key : j \in inFlight' <=> Owned(j)'
      BY <1>0, <3>1, <3>2
    <3>6. QED
      BY <1>0, <1>1, <2>2, <3>1, <3>3, <3>4, <3>5
  <2>6. QED
    BY <2>4, <2>5
<1>4. ASSUME NEW l \in Listener, NEW k \in Key, ReadAnnouncement(l, k)
      PROVE  KeyInv'
  <2>0. keyed[l] = NoKey /\ responses' = responses
    BY <1>4 DEF ReadAnnouncement, Listens
  <2>1. CASE k \in inFlight
    <3>1. keyed' = keyed /\ inFlight' = inFlight
      BY <1>4, <2>1 DEF ReadAnnouncement
    <3>2. \A j \in Key : Owned(j)' <=> Owned(j)
      BY <2>0, <3>1 DEF Owned
    <3>3. QED
      BY <1>0, <1>1, <2>0, <3>1, <3>2
  <2>2. CASE k \notin inFlight
    <3>1. keyed' = [keyed EXCEPT ![l] = k] /\ inFlight' = inFlight \cup {k}
      BY <1>4, <2>2 DEF ReadAnnouncement
    <3>2. ~Owned(k) /\ k # NoKey
      BY <1>0, <2>2, Constants
    <3>3. keyed' \in [Listener -> Key \cup {NoKey}]
      BY <1>0, <3>1
    <3>4. keyed'[l] = k /\ \A m \in Listener : m # l => keyed'[m] = keyed[m]
      BY <1>0, <3>1
    <3>5. \A j \in Key : Owned(j)' <=> Owned(j) \/ j = k
      BY <1>0, <2>0, <3>2, <3>4, Constants DEF Owned
    <3>6. \A m \in Listener, r \in responses' : keyed'[m] # r.key
      BY <1>0, <2>0, <3>2, <3>4 DEF Owned
    <3>7. \A j, m \in Listener : keyed'[j] = keyed'[m] /\ keyed'[j] # NoKey => j = m
      BY <1>0, <3>2, <3>4 DEF Owned
    <3>8. \A j \in Key : j \in inFlight' <=> Owned(j)'
      BY <1>0, <3>1, <3>5
    <3>9. QED
      BY <1>0, <1>1, <2>0, <3>1, <3>3, <3>6, <3>7, <3>8
  <2>3. QED
    BY <2>1, <2>2
<1>5. ASSUME NEW r \in responses, NEW d \in Device, Confirm(r, d)
      PROVE  KeyInv'
  <2> DEFINE n == [r EXCEPT !.phase = "delete"]
  <2>1. /\ responses' = (responses \ {r}) \cup {n} /\ keyed' = keyed /\ inFlight' = inFlight
    BY <1>5 DEF Confirm
  <2>2. r \in Responses /\ n \in Responses /\ n.key = r.key
    BY <1>0 DEF Responses
  <2>3. \A j \in Key : Owned(j)' <=> Owned(j)
    BY <2>1, <2>2 DEF Owned
  <2>4. \A q, s \in responses' : q.key = s.key => q = s
    BY <1>0, <2>1, <2>2
  <2>5. \A m \in Listener, q \in responses' : keyed'[m] # q.key
    BY <1>0, <2>1, <2>2
  <2>6. responses' \subseteq Responses
    BY <1>0, <2>1, <2>2
  <2>7. QED
    BY <1>0, <1>1, <2>1, <2>3, <2>4, <2>5, <2>6
<1>6. ASSUME NEW r \in responses, EndResponse(r)
      PROVE  KeyInv'
  <2>1. /\ responses' = responses \ {r} /\ keyed' = keyed /\ inFlight' = inFlight \ {r.key}
    BY <1>6 DEF EndResponse
  <2>2. \A j \in Key : Owned(j)' <=> Owned(j) /\ j # r.key
    BY <1>0, <2>1 DEF Owned
  <2>3. QED
    BY <1>0, <1>1, <2>1, <2>2
<1>7. CASE UNCHANGED respVars
  BY <1>7, <1>0, <1>1 DEF respVars, Owned
<1>8. QED
  BY KeysKept, <1>2, <1>3, <1>4, <1>5, <1>6, <1>7

-----------------------------------------------------------------------------
(* Slots of the semaphore *)

LEMMA SlotStep == IndInv /\ [Next]_vars => SlotInv'
<1> SUFFICES ASSUME IndInv, [Next]_vars
             PROVE  SlotInv'
  OBVIOUS
<1>0. /\ responses \subseteq Responses /\ IsFiniteSet(responses)
      /\ Cardinality(Holders) <= MaxResponses
      /\ MaxResponses \in Nat
  BY Constants DEF IndInv, KeyInv, SlotInv
<1>1. IsFiniteSet(Holders) /\ Cardinality(Holders) \in Nat
  BY <1>0, FS_Subset, FS_CardinalityType DEF Holders
<1>2. ASSUME IsFiniteSet(responses'), Holders' \subseteq Holders
      PROVE  SlotInv'
  <2>1. Cardinality(Holders') <= Cardinality(Holders) /\ Cardinality(Holders') \in Nat
    BY <1>1, <1>2, FS_Subset, FS_CardinalityType
  <2>2. QED
    BY <1>0, <1>1, <1>2, <2>1 DEF SlotInv
<1>3. CASE BindSucceeds
  <2>1. responses' = {}
    BY <1>3 DEF BindSucceeds
  <2>2. IsFiniteSet(responses') /\ Holders' \subseteq Holders
    BY <2>1, FS_EmptySet DEF Holders
  <2>3. QED
    BY <1>2, <2>2
<1>4. ASSUME NEW l \in Listener, StartResponse(l)
      PROVE  SlotInv'
  <2> DEFINE n == [key |-> keyed[l], phase |-> "post"]
  <2>1. CASE Cardinality(Holders) < MaxResponses
    <3>1. responses' = responses \cup {n}
      BY <1>4, <2>1 DEF StartResponse
    <3>2. IsFiniteSet(responses')
      BY <1>0, <3>1, FS_AddElement
    <3>3. Holders' = Holders \cup {n}
      BY <3>1 DEF Holders
    <3>4. Cardinality(Holders') \in {Cardinality(Holders), Cardinality(Holders) + 1}
      BY <1>1, <3>3, FS_AddElement
    <3>5. QED
      BY <1>0, <1>1, <2>1, <3>2, <3>4 DEF SlotInv
  <2>2. CASE ~(Cardinality(Holders) < MaxResponses)
    BY <1>0, <1>2, <1>4, <2>2 DEF StartResponse, Holders
  <2>3. QED
    BY <2>1, <2>2
<1>5. ASSUME NEW r \in responses, NEW d \in Device, Confirm(r, d)
      PROVE  SlotInv'
  <2> DEFINE n == [r EXCEPT !.phase = "delete"]
  <2>1. responses' = (responses \ {r}) \cup {n} /\ n.phase = "delete"
    BY <1>0, <1>5 DEF Confirm, Responses
  <2>2. IsFiniteSet(responses \ {r})
    BY <1>0, FS_Subset
  <2>3. IsFiniteSet(responses')
    BY <2>1, <2>2, FS_AddElement
  <2>4. Holders' \subseteq Holders
    BY <2>1 DEF Holders
  <2>5. QED
    BY <1>2, <2>3, <2>4
<1>6. ASSUME NEW r \in responses, EndResponse(r)
      PROVE  SlotInv'
  <2>1. responses' = responses \ {r}
    BY <1>6 DEF EndResponse
  <2>2. IsFiniteSet(responses') /\ Holders' \subseteq Holders
    BY <1>0, <2>1, FS_Subset DEF Holders
  <2>3. QED
    BY <1>2, <2>2
<1>7. ASSUME NEW l \in Listener, NEW k \in Key, ReadAnnouncement(l, k)
      PROVE  SlotInv'
  BY <1>0, <1>2, <1>7 DEF ReadAnnouncement, Holders
<1>8. CASE UNCHANGED respVars
  BY <1>0, <1>2, <1>8 DEF respVars, Holders
<1>9. QED
  BY KeysKept, <1>3, <1>4, <1>5, <1>6, <1>7, <1>8

LEMMA ProbeStep == IndInv /\ [Next]_vars => ProbeInv'
<1> SUFFICES ASSUME IndInv, [Next]_vars
             PROVE  ProbeInv'
  OBVIOUS
<1>0. /\ probe \in Probes /\ IsFiniteSet(probe.busy) /\ Cardinality(probe.busy) <= MaxScans
      /\ MaxScans \in Nat
  BY Constants DEF IndInv, ProbeInv
<1>1. Cardinality(probe.busy) \in Nat
  BY <1>0, FS_CardinalityType
<1>2. ASSUME probe' \in Probes, probe'.busy \subseteq probe.busy
      PROVE  ProbeInv'
  <2>1. IsFiniteSet(probe'.busy) /\ Cardinality(probe'.busy) <= Cardinality(probe.busy)
        /\ Cardinality(probe'.busy) \in Nat
    BY <1>0, <1>2, FS_Subset, FS_CardinalityType
  <2>2. QED
    BY <1>0, <1>1, <1>2, <2>1 DEF ProbeInv
<1>3. CASE StartProbe
  <2>1. probe' = [pc |-> "running", todo |-> Job, busy |-> {}]
    BY <1>3 DEF StartProbe
  <2>2. probe' \in Probes /\ probe'.busy \subseteq probe.busy
    BY <2>1 DEF Probes
  <2>3. QED
    BY <1>2, <2>2
<1>4. ASSUME NEW job \in Job, EnqueueJob(job)
      PROVE  ProbeInv'
  <2>1. /\ probe' = [probe EXCEPT !.todo = @ \ {job}, !.busy = @ \cup {job}]
        /\ Cardinality(probe.busy) < MaxScans
    BY <1>4 DEF EnqueueJob
  <2>2. probe' \in Probes /\ probe'.busy = probe.busy \cup {job}
    BY <1>0, <2>1 DEF Probes
  <2>3. /\ IsFiniteSet(probe'.busy)
        /\ Cardinality(probe'.busy) \in {Cardinality(probe.busy), Cardinality(probe.busy) + 1}
    BY <1>0, <2>2, FS_AddElement
  <2>4. QED
    BY <1>0, <1>1, <2>1, <2>2, <2>3 DEF ProbeInv
<1>5. ASSUME NEW job \in Job, NEW d \in Device, tryScanIP(job, d)
      PROVE  ProbeInv'
  <2>1. probe' = [probe EXCEPT !.busy = @ \ {job}]
    BY <1>5 DEF tryScanIP
  <2>2. probe' \in Probes /\ probe'.busy \subseteq probe.busy
    BY <1>0, <2>1 DEF Probes
  <2>3. QED
    BY <1>2, <2>2
<1>6. CASE StopEnqueueing \/ ProbeEnds
  <2>1. probe' \in Probes /\ probe'.busy \subseteq probe.busy
    BY <1>0, <1>6 DEF StopEnqueueing, ProbeEnds, Probes
  <2>2. QED
    BY <1>2, <2>1
<1>7. CASE UNCHANGED probe
  BY <1>0, <1>7 DEF ProbeInv
<1>8. ASSUME ~Probe, ~StartProbe
      PROVE  UNCHANGED probe
  <2>1. CASE Cancel \/ Check \/ BindFails \/ BindSucceeds \/ Listen \/ ListenReturns \/ Clear
               \/ CloseInstance \/ Retry
    BY <2>1 DEF Cancel, Check, BindFails, BindSucceeds, Listen, ListenReturns, Clear, CloseInstance,
                Retry
  <2>2. CASE AfterCancel \/ Stop \/ \E t \in Task : TaskEnds(t)
    BY <2>2 DEF AfterCancel, Stop, TaskEnds
  <2>3. CASE \/ \E l \in Listener : ReadFails(l) \/ ReadIgnored(l) \/ StartResponse(l)
             \/ \E l \in Listener, k \in Key : ReadAnnouncement(l, k)
    BY <2>3 DEF ReadFails, ReadIgnored, StartResponse, ReadAnnouncement
  <2>4. CASE \/ \E r \in responses, d \in Device : Confirm(r, d)
             \/ \E r \in responses : EndResponse(r)
    BY <2>4 DEF Confirm, EndResponse
  <2>5. CASE (\E k \in Registered : Register(k)) \/ Tick \/ cleanupStaleDiscovered
    BY <2>5 DEF Register, Tick, cleanupStaleDiscovered
  <2>6. CASE UNCHANGED vars
    BY <2>6 DEF vars
  <2>7. QED
    BY <1>8, <2>1, <2>2, <2>3, <2>4, <2>5, <2>6 DEF Next, Supervise, Finite
<1>9. QED
  BY <1>3, <1>4, <1>5, <1>6, <1>7, <1>8 DEF Probe

-----------------------------------------------------------------------------
(* The table of devices *)

\* Without an oldest entry a full table has room for one more.
LEMMA Evicted ==
    ASSUME TableInv, NEW d \in Device,
           NEW D \in IF Full(d) THEN {DOMAIN table \ {e} : e \in Oldest} ELSE {DOMAIN table}
    PROVE  /\ D \subseteq DOMAIN table
           /\ Cardinality(D \cup {d}) <= MaxDevices
<1>0. /\ DOMAIN table \subseteq Device /\ Cardinality(DOMAIN table) <= MaxDevices
      /\ IsFiniteSet(Device) /\ MaxDevices \in Nat
  BY Constants DEF TableInv, TableOK
<1>1. IsFiniteSet(DOMAIN table) /\ Cardinality(DOMAIN table) \in Nat
  BY <1>0, FS_Subset, FS_CardinalityType
<1>2. CASE Full(d)
  <2>1. PICK e \in DOMAIN table : D = DOMAIN table \ {e}
    BY <1>2 DEF Oldest
  <2>2. IsFiniteSet(D) /\ Cardinality(D) = Cardinality(DOMAIN table) - 1
    BY <1>1, <2>1, FS_RemoveElement
  <2>3. Cardinality(D \cup {d}) \in {Cardinality(D), Cardinality(D) + 1}
    BY <2>2, FS_AddElement
  <2>4. QED
    BY <1>0, <1>1, <2>1, <2>2, <2>3
<1>3. CASE ~Full(d)
  <2>1. D = DOMAIN table
    BY <1>3
  <2>2. CASE d \in DOMAIN table
    <3>1. D \cup {d} = DOMAIN table
      BY <2>1, <2>2
    <3>2. QED
      BY <1>0, <2>1, <3>1
  <2>3. CASE d \notin DOMAIN table
    <3>1. Cardinality(DOMAIN table) < MaxDevices
      BY <1>0, <1>1, <1>3, <2>3 DEF Full
    <3>2. Cardinality(D \cup {d}) = Cardinality(DOMAIN table) + 1
      BY <1>1, <2>1, <2>3, FS_AddElement
    <3>3. QED
      BY <1>0, <1>1, <2>1, <3>1, <3>2
  <2>4. QED
    BY <2>2, <2>3
<1>4. QED
  BY <1>2, <1>3

\* The entry of a device just seen: its new channel is the youngest and the
\* only one of that host.
LEMMA FreshEntry ==
    ASSUME NEW h \in Host, NEW s \in Scheme, NEW cs \in SUBSET Channel, IsFiniteSet(cs),
           \A c, f \in cs : c.host = f.host => c = f
    PROVE  LET e == [age |-> 0, channels |-> OtherHosts(cs, h)
                                  \cup {[host |-> h, scheme |-> s, age |-> 0]}]
           IN e \in Entry /\ EntrySound(e)
<1> DEFINE n == [host |-> h, scheme |-> s, age |-> 0]
           e == [age |-> 0, channels |-> OtherHosts(cs, h) \cup {n}]
<1>1. TTL \in Nat /\ 0 \in Age
  BY Constants DEF Age
<1>2. n \in Channel
  BY <1>1 DEF Channel
<1>3. OtherHosts(cs, h) \subseteq cs /\ \A c \in OtherHosts(cs, h) : c.host # h
  BY DEF OtherHosts
<1>4. e \in Entry
  BY <1>1, <1>2, <1>3 DEF Entry
<1>5. \A c \in Channel : c.age \in Nat
  BY Constants DEF Channel, Age
<1>6. \A c \in e.channels : c.age >= e.age
  BY <1>3, <1>5
<1>7. \A c, f \in e.channels : c.host = f.host => c = f
  BY <1>3
<1>8. n \in e.channels /\ n.age = e.age
  OBVIOUS
<1>9. \E c \in e.channels : c.age = e.age
  BY <1>8
<1> HIDE DEF e
<1>10. IsFiniteSet(e.channels)
  <2>1. IsFiniteSet(OtherHosts(cs, h))
    BY <1>3, FS_Subset
  <2>2. QED
    BY <2>1, FS_AddElement DEF e
<1>11. EntrySound(e)
  BY <1>6, <1>7, <1>9, <1>10 DEF EntrySound
<1>12. QED
  BY <1>4, <1>11 DEF e

\* PutDiscovered keeps the table in order, whichever oldest entry goes.
LEMMA PutSound ==
    ASSUME TableInv, NEW h \in Host, NEW d \in Device, NEW s \in Scheme,
           NEW t \in PutDiscovered(h, d, s)
    PROVE  TableOK(t)
<1> DEFINE cs == IF d \in DOMAIN table THEN table[d].channels ELSE {}
           entry == [age |-> 0, channels |-> OtherHosts(cs, h)
                                  \cup {[host |-> h, scheme |-> s, age |-> 0]}]
           kept == IF Full(d) THEN {DOMAIN table \ {e} : e \in Oldest} ELSE {DOMAIN table}
<1>1. PICK D \in kept : t = [e \in D \cup {d} |-> IF e = d THEN entry ELSE table[e]]
  BY DEF PutDiscovered
<1>2. D \subseteq DOMAIN table /\ Cardinality(D \cup {d}) <= MaxDevices
  BY Evicted
<1>3. /\ DOMAIN table \subseteq Device
      /\ \A e \in DOMAIN table : table[e] \in Entry /\ EntrySound(table[e])
  BY DEF TableInv, TableOK
<1>4. cs \in SUBSET Channel /\ IsFiniteSet(cs) /\ \A c, f \in cs : c.host = f.host => c = f
  BY <1>3, FS_EmptySet DEF Entry, EntrySound
<1>5. entry \in Entry /\ EntrySound(entry)
  BY <1>4, FreshEntry
<1> HIDE DEF entry, cs, kept
<1>6. DOMAIN t = D \cup {d} /\ t = [e \in DOMAIN t |-> t[e]]
  BY <1>1
<1>7. \A e \in DOMAIN t : t[e] = entry \/ (e \in DOMAIN table /\ t[e] = table[e])
  BY <1>1, <1>2, <1>6
<1>8. QED
  BY <1>2, <1>3, <1>5, <1>6, <1>7 DEF TableOK

\* A tick ages an entry and its channels alike.
LEMMA OlderEntry ==
    ASSUME NEW e \in Entry, EntrySound(e)
    PROVE  LET o == [age |-> Older(e.age), channels |-> {[c EXCEPT !.age = Older(@)] : c \in e.channels}]
           IN o \in Entry /\ EntrySound(o)
<1> DEFINE old(c) == [c EXCEPT !.age = Older(@)]
           o == [age |-> Older(e.age), channels |-> {old(c) : c \in e.channels}]
<1>1. /\ \A n \in Age : Older(n) \in Age
      /\ \A n, m \in Age : n >= m => Older(n) >= Older(m)
  BY Constants DEF Age, Older
<1>2. e.age \in Age /\ e.channels \subseteq Channel
  BY DEF Entry
<1>3. \A c \in Channel : /\ old(c) \in Channel /\ old(c).host = c.host
                         /\ old(c).age = Older(c.age) /\ c.age \in Age
  BY <1>1 DEF Channel
<1> HIDE DEF old
<1>4. o \in Entry
  BY <1>1, <1>2, <1>3 DEF Entry
<1>5. \E c \in o.channels : c.age = o.age
  BY <1>2, <1>3 DEF EntrySound
<1>6. \A c \in o.channels : c.age >= o.age
  BY <1>1, <1>2, <1>3 DEF EntrySound
<1>7. \A c, f \in o.channels : c.host = f.host => c = f
  BY <1>2, <1>3 DEF EntrySound
<1>8. IsFiniteSet(o.channels)
  <2> DEFINE F == [c \in e.channels |-> old(c)]
  <2>1. F \in Surjection(e.channels, o.channels)
    BY DEF Surjection
  <2>2. QED
    BY <2>1, FS_Surjection DEF EntrySound
<1>9. EntrySound(o)
  BY <1>5, <1>6, <1>7, <1>8 DEF EntrySound
<1>10. QED
  BY <1>4, <1>9 DEF old

\* An entry that is not stale keeps its newest channel.
LEMMA FreshKept ==
    ASSUME TableInv, NEW d \in DOMAIN table, table[d].age <= TTL
    PROVE  LET e == [table[d] EXCEPT !.channels = Fresh(d)]
           IN e \in Entry /\ EntrySound(e)
<1>1. table[d] \in Entry /\ EntrySound(table[d])
  BY DEF TableInv, TableOK
<1>2. [table[d] EXCEPT !.channels = Fresh(d)] = [channels |-> Fresh(d), age |-> table[d].age]
  BY <1>1 DEF Entry
<1>3. IsFiniteSet(Fresh(d)) /\ Fresh(d) \subseteq table[d].channels
  BY <1>1, FS_Subset DEF EntrySound, Fresh
<1>4. QED
  BY <1>1, <1>2, <1>3 DEF Entry, EntrySound, Fresh

LEMMA TableStep == IndInv /\ [Next]_vars => TableInv'
<1> SUFFICES ASSUME IndInv, [Next]_vars
             PROVE  TableInv'
  OBVIOUS
<1>0. TableInv /\ IsFiniteSet(Device) /\ MaxDevices \in Nat
  BY Constants DEF IndInv
<1>1. /\ DOMAIN table \subseteq Device /\ Cardinality(DOMAIN table) <= MaxDevices
      /\ \A e \in DOMAIN table : table[e] \in Entry /\ EntrySound(table[e])
  BY <1>0 DEF TableInv, TableOK
<1>2. IsFiniteSet(DOMAIN table) /\ Cardinality(DOMAIN table) \in Nat
  BY <1>0, <1>1, FS_Subset, FS_CardinalityType
<1>3. ASSUME TableOK(table')
      PROVE  TableInv'
  BY <1>3 DEF TableInv, TableOK
<1>4. CASE UNCHANGED table
  BY <1>0, <1>3, <1>4 DEF TableInv
<1>5. CASE BindSucceeds
  <2>1. table' = NoTable
    BY <1>5 DEF BindSucceeds
  <2>2. DOMAIN table' = {} /\ table' = [d \in DOMAIN table' |-> table'[d]] /\ Cardinality({}) = 0
    BY <2>1, FS_EmptySet DEF NoTable
  <2>3. QED
    BY <1>0, <1>3, <2>2 DEF TableOK
<1>6. ASSUME NEW r \in responses, NEW d \in Device, Confirm(r, d)
      PROVE  TableInv'
  <2>1. r.key \in Key
    BY DEF IndInv, KeyInv, Responses
  <2>2. r.key.host \in Host /\ r.key.scheme \in Scheme
    BY <2>1, Constants
  <2>3. table' \in PutDiscovered(r.key.host, d, r.key.scheme) \/ UNCHANGED table
    BY <1>6 DEF Confirm
  <2>4. QED
    BY <1>0, <1>3, <1>4, <2>2, <2>3, PutSound
<1>7. ASSUME NEW k \in Registered, Register(k)
      PROVE  TableInv'
  <2>1. k.device \in Device /\ k.host \in Host /\ k.scheme \in Scheme
    BY DiscoveryAssumption DEF Host, Scheme
  <2>2. QED
    BY <1>0, <1>3, <1>7, <2>1, PutSound DEF Register
<1>8. ASSUME NEW job \in Job, NEW d \in Device, tryScanIP(job, d)
      PROVE  TableInv'
  <2>1. job[1] \in Host /\ job[2] \in Scheme
    BY DEF Job, Host
  <2>2. table' \in PutDiscovered(job[1], d, job[2]) \/ UNCHANGED table
    BY <1>8 DEF tryScanIP
  <2>3. QED
    BY <1>0, <1>3, <1>4, <2>1, <2>2, PutSound
<1>9. CASE Tick
  <2> DEFINE old(d) == [age |-> Older(table[d].age),
                        channels |-> {[c EXCEPT !.age = Older(@)] : c \in table[d].channels}]
  <2>1. table' = [d \in DOMAIN table |-> old(d)]
    BY <1>9 DEF Tick
  <2>2. \A d \in DOMAIN table : old(d) \in Entry /\ EntrySound(old(d))
    BY <1>1, OlderEntry
  <2> HIDE DEF old
  <2>3. DOMAIN table' = DOMAIN table /\ \A d \in DOMAIN table : table'[d] = old(d)
    BY <2>1
  <2>4. table' = [d \in DOMAIN table' |-> table'[d]]
    BY <2>1
  <2>5. QED
    BY <1>1, <1>3, <2>2, <2>3, <2>4 DEF TableOK
<1>10. CASE cleanupStaleDiscovered
  <2> DEFINE D == {e \in DOMAIN table : Fresh(e) # {} /\ table[e].age <= TTL}
             new(d) == [table[d] EXCEPT !.channels = Fresh(d)]
  <2>1. table' = [d \in D |-> new(d)]
    BY <1>10 DEF cleanupStaleDiscovered
  <2>2. \A d \in D : new(d) \in Entry /\ EntrySound(new(d))
    BY <1>0, FreshKept
  <2>3. D \subseteq DOMAIN table
    OBVIOUS
  <2> HIDE DEF D, new
  <2>4. Cardinality(D) <= Cardinality(DOMAIN table) /\ Cardinality(D) \in Nat
    BY <1>2, <2>3, FS_Subset, FS_CardinalityType
  <2>5. DOMAIN table' = D /\ \A d \in D : table'[d] = new(d)
    BY <2>1
  <2>6. table' = [d \in DOMAIN table' |-> table'[d]]
    BY <2>1
  <2>7. Cardinality(D) <= MaxDevices
    BY <1>0, <1>1, <1>2, <2>4
  <2>8. QED
    BY <1>1, <1>3, <2>2, <2>3, <2>5, <2>6, <2>7 DEF TableOK
<1>11. CASE Cancel \/ Check \/ BindFails \/ Listen \/ ListenReturns \/ Clear \/ CloseInstance \/ Retry
  BY <1>4, <1>11 DEF Cancel, Check, BindFails, Listen, ListenReturns, Clear, CloseInstance, Retry
<1>12. CASE AfterCancel \/ Stop \/ \E t \in Task : TaskEnds(t)
  BY <1>4, <1>12 DEF AfterCancel, Stop, TaskEnds
<1>13. CASE \/ \E l \in Listener : ReadFails(l) \/ ReadIgnored(l) \/ StartResponse(l)
            \/ \E l \in Listener, k \in Key : ReadAnnouncement(l, k)
            \/ \E r \in responses : EndResponse(r)
  BY <1>4, <1>13 DEF ReadFails, ReadIgnored, StartResponse, ReadAnnouncement, EndResponse
<1>14. CASE (\E job \in Job : EnqueueJob(job)) \/ StopEnqueueing \/ ProbeEnds \/ StartProbe
  BY <1>4, <1>14 DEF EnqueueJob, StopEnqueueing, ProbeEnds, StartProbe
<1>15. CASE UNCHANGED vars
  BY <1>4, <1>15 DEF vars
<1>16. QED
  BY <1>5, <1>6, <1>7, <1>8, <1>9, <1>10, <1>11, <1>12, <1>13, <1>14, <1>15
     DEF Next, Supervise, Finite, Probe

-----------------------------------------------------------------------------
(* Theorems *)

LEMMA InitInv == Init => IndInv
<1> SUFFICES ASSUME Init
             PROVE  IndInv
  OBVIOUS
<1>1. ControlOK
  <2>1. Bound \in Instances /\ Unbound \in Instances
    BY DEF Bound, Unbound, Instances
  <2>2. [l \in Listener |-> 0] \in [Listener -> 0..MaxErrors]
    BY Constants
  <2>3. inst \in Instances /\ current \in BOOLEAN
    BY <2>1 DEF Init
  <2>4. QED
    BY <2>2, <2>3 DEF Init, ControlOK
<1>2. keyed = [l \in Listener |-> NoKey] /\ inFlight = {} /\ responses = {} /\ Holders = {}
  BY DEF Init, Holders
<1>3. KeyInv
  BY <1>2 DEF KeyInv, KeysOwned
<1>4. SlotInv
  BY <1>2, FS_EmptySet, Constants DEF SlotInv
<1>5. TableInv
  <2>1. DOMAIN table = {} /\ table = [d \in DOMAIN table |-> table[d]]
    BY DEF Init, NoTable
  <2>2. QED
    BY <2>1, FS_EmptySet, Constants DEF TableInv, TableOK
<1>6. ProbeInv
  <2>1. probe = [pc |-> "no", todo |-> {}, busy |-> {}]
    BY DEF Init
  <2>2. probe \in Probes /\ probe.busy = {}
    BY <2>1 DEF Probes
  <2>3. QED
    BY <2>2, FS_EmptySet, Constants DEF ProbeInv
<1>7. QED
  BY <1>1, <1>3, <1>4, <1>5, <1>6 DEF IndInv

\* Every state of discovery satisfies the inductive invariant: startDiscoveryWithRetry,
\* the listeners, respondToAnnouncement, PutDiscovered, the expiry and ScanSubnet keep it.
THEOREM Invariance == Spec => []IndInv
<1>1. IndInv /\ [Next]_vars => IndInv'
  BY ControlStep, KeyStep, SlotStep, TableStep, ProbeStep DEF IndInv
<1>2. QED
  BY InitInv, <1>1, PTL DEF Spec

\* responsesInFlight holds exactly the keys that a listener decides on or one
\* goroutine answers: none is left behind that would absorb announcements for
\* ever, at the limit of the semaphore or when a Discoverer is replaced.
THEOREM KeysStayOwned == Spec => []KeysOwned
<1>1. IndInv => KeysOwned
  BY DEF IndInv, KeyInv
<1>2. QED
  BY Invariance, <1>1, PTL

-----------------------------------------------------------------------------
(* The channel shown: what one pass over the channels finds *)

\* Induction over the naturals, for a set.
LEMMA SetInduction ==
    ASSUME NEW T, 0 \in T, \A n \in Nat : n \in T => n + 1 \in T
    PROVE  Nat \subseteq T
<1> DEFINE R == {ss \in Nat \X Nat : ss[1] < ss[2]}
<1>1. IsWellFoundedOn(R, Nat)
  BY NatLessThanWellFounded DEF OpToRel
<1> HIDE DEF R
<1> SUFFICES ASSUME Nat \ T # {}
             PROVE  FALSE
  OBVIOUS
<1>2. PICK x \in Nat \ T : \A y \in Nat \ T : ~(<<y, x>> \in R)
  BY <1>1, WFMin
<1>3. x # 0 /\ x - 1 \in Nat
  BY <1>2
<1>4. x - 1 \notin T
  BY <1>3
<1>5. <<x - 1, x>> \in R
  BY <1>3 DEF R
<1>6. QED
  BY <1>2, <1>3, <1>4, <1>5

\* The best channel after the first n of q, given the one after n - 1.
Step(q, g, n) == IF n = 1 THEN q[1] ELSE IF Prefer(q[n], g[n - 1]) THEN q[n] ELSE g[n - 1]

\* g holds the best channel after each of the first m.
Pass(q, m, g) == g = [n \in 1..m |-> Step(q, g, n)]

\* The recursion of bestDiscoveryChannel is well defined.
LEMMA PassExists ==
    ASSUME NEW q, NEW m \in Nat
    PROVE  \E g : Pass(q, m, g)
<1> DEFINE T == {k \in Nat : \E g : Pass(q, k, g)}
<1>1. 0 \in T
  <2> DEFINE g == [n \in {} |-> 0]
  <2>1. g = [n \in 1..0 |-> Step(q, g, n)]
    OBVIOUS
  <2>2. QED
    BY <2>1 DEF Pass
<1>2. ASSUME NEW k \in Nat, k \in T
      PROVE  k + 1 \in T
  <2>1. PICK g : Pass(q, k, g)
    BY <1>2
  <2> DEFINE h == [n \in 1..(k + 1) |-> IF n = k + 1 THEN Step(q, g, k + 1) ELSE g[n]]
  <2>2. \A n \in 1..k : g[n] = Step(q, g, n)
    BY <2>1 DEF Pass
  <2>3. \A n \in 1..k : h[n] = g[n]
    OBVIOUS
  <2>4. h[k + 1] = Step(q, g, k + 1)
    OBVIOUS
  <2>5. h = [n \in 1..(k + 1) |-> h[n]]
    OBVIOUS
  <2> HIDE DEF h
  <2>6. ASSUME NEW n \in 1..(k + 1)
        PROVE  h[n] = Step(q, h, n)
    <3>1. CASE n = k + 1
      BY <3>1, <2>3, <2>4 DEF Step
    <3>2. CASE n \in 1..k
      <4>1. n # 1 => n - 1 \in 1..k
        BY <3>2
      <4>2. QED
        BY <3>2, <4>1, <2>2, <2>3 DEF Step
    <3>3. QED
      BY <3>1, <3>2
  <2>7. h = [n \in 1..(k + 1) |-> Step(q, h, n)]
    BY <2>5, <2>6
  <2>8. QED
    BY <2>7 DEF Pass
<1> HIDE DEF T
<1>3. Nat \subseteq T
  BY <1>1, <1>2, SetInduction
<1>4. QED
  BY <1>3 DEF T

\* bestDiscoveryChannel is the end of such a pass.
LEMMA BestIsPass ==
    ASSUME NEW S, NEW q \in Seq(S)
    PROVE  \E g : Pass(q, Len(q), g) /\ bestDiscoveryChannel(q) = g[Len(q)]
<1> DEFINE Def(g) == g = [n \in DOMAIN q |->
                            IF n = 1 THEN q[1]
                            ELSE IF Prefer(q[n], g[n - 1]) THEN q[n] ELSE g[n - 1]]
           G == CHOOSE g : Def(g)
<1>1. bestDiscoveryChannel(q) = G[Len(q)]
  BY DEF bestDiscoveryChannel
<1>2. DOMAIN q = 1..Len(q) /\ Len(q) \in Nat
  OBVIOUS
<1>3. \E g : Def(g)
  <2>1. PICK g : Pass(q, Len(q), g)
    BY <1>2, PassExists
  <2>2. Def(g)
    BY <1>2, <2>1 DEF Pass, Step
  <2> HIDE DEF Def
  <2>3. QED
    BY <2>2
<1> HIDE DEF Def
<1>4. Def(G)
  BY <1>3
<1>5. Pass(q, Len(q), G)
  BY <1>2, <1>4 DEF Pass, Step, Def
<1> HIDE DEF G
<1>6. QED
  BY <1>1, <1>5

\* Prefer as a strict total order.
PreferOrders(channels) ==
    /\ \A c, e \in channels : c # e => Prefer(c, e) \/ Prefer(e, c)
    /\ \A c, e \in channels : ~(Prefer(c, e) /\ Prefer(e, c))
    /\ \A c, e, f \in channels : Prefer(c, e) /\ Prefer(e, f) => Prefer(c, f)

\* With one channel per host the address breaks every tie.
LEMMA ChannelsOrdered ==
    ASSUME NEW e \in Entry, EntrySound(e)
    PROVE  PreferOrders(e.channels)
<1>1. Host \subseteq Nat /\ Age \subseteq Nat
  BY Constants DEF Age
<1>2. \A c \in e.channels : c.host \in Nat /\ c.age \in Nat
  BY <1>1 DEF Entry, Channel
<1>3. \A c, f \in e.channels : c.host = f.host => c = f
  BY DEF EntrySound
<1>4. QED
  BY <1>2, <1>3 DEF PreferOrders, Prefer

\* The pass ends with the channel that is preferred to every other one.
LEMMA BestIsGreatest ==
    ASSUME NEW S, PreferOrders(S), NEW q \in Seq(S), Len(q) > 0
    PROVE  /\ bestDiscoveryChannel(q) \in S
           /\ \A i \in 1..Len(q) : bestDiscoveryChannel(q) = q[i] \/ Prefer(bestDiscoveryChannel(q), q[i])
<1>1. PICK g : Pass(q, Len(q), g) /\ bestDiscoveryChannel(q) = g[Len(q)]
  BY BestIsPass
<1>2. Len(q) \in Nat /\ \A i \in 1..Len(q) : q[i] \in S
  OBVIOUS
<1>3. \A n \in 1..Len(q) : g[n] = Step(q, g, n)
  BY <1>1 DEF Pass
<1> DEFINE Best(n) == g[n] \in S /\ \A i \in 1..n : g[n] = q[i] \/ Prefer(g[n], q[i])
           T == {n \in Nat : n + 1 \in 1..Len(q) => Best(n + 1)}
<1>4. 0 \in T
  <2>1. g[1] = q[1] /\ 1 \in 1..Len(q)
    BY <1>2, <1>3 DEF Step
  <2>2. QED
    BY <1>2, <2>1
<1>5. ASSUME NEW n \in Nat, n \in T
      PROVE  n + 1 \in T
  <2> SUFFICES ASSUME n + 2 \in 1..Len(q)
               PROVE  Best(n + 2)
    BY <1>5
  <2>1. Best(n + 1) /\ q[n + 2] \in S
    BY <1>2, <1>5
  <2>2. g[n + 2] = IF Prefer(q[n + 2], g[n + 1]) THEN q[n + 2] ELSE g[n + 1]
    BY <1>3 DEF Step
  <2>3. \A i \in 1..(n + 2) : i = n + 2 \/ i \in 1..(n + 1)
    OBVIOUS
  <2>4. \A i \in 1..(n + 1) : q[i] \in S
    BY <1>2
  <2>5. CASE Prefer(q[n + 2], g[n + 1])
    BY <2>1, <2>2, <2>3, <2>4, <2>5 DEF PreferOrders
  <2>6. CASE ~Prefer(q[n + 2], g[n + 1])
    BY <2>1, <2>2, <2>3, <2>6 DEF PreferOrders
  <2>7. QED
    BY <2>5, <2>6
<1> HIDE DEF T
<1>6. Nat \subseteq T
  BY <1>4, <1>5, SetInduction
<1>7. Best((Len(q) - 1) + 1)
  <2>1. Len(q) - 1 \in Nat /\ (Len(q) - 1) + 1 \in 1..Len(q)
    BY <1>2
  <2> HIDE DEF Best
  <2>2. QED
    BY <1>6, <2>1 DEF T
<1>8. Best(Len(q))
  BY <1>2, <1>7
<1>9. QED
  BY <1>1, <1>8

\* Whatever order the channels come in, the same one is found.
LEMMA OneBest ==
    ASSUME NEW S, IsFiniteSet(S), S # {}, PreferOrders(S)
    PROVE  Cardinality({bestDiscoveryChannel(q) : q \in SetToSeqs(S)}) = 1
<1> DEFINE N == Cardinality(S)
           B == {bestDiscoveryChannel(q) : q \in SetToSeqs(S)}
<1>1. N \in Nat /\ N > 0
  BY FS_CardinalityType, FS_EmptySet
<1>2. IsFiniteSet(1..N) /\ Cardinality(1..N) = N
  BY <1>1, FS_Interval
<1>3. ASSUME NEW q \in SetToSeqs(S)
      PROVE  /\ bestDiscoveryChannel(q) \in S
             /\ \A c \in S : bestDiscoveryChannel(q) = c \/ Prefer(bestDiscoveryChannel(q), c)
  <2>1. q \in [1..N -> S] /\ \A i, j \in 1..N : i # j => q[i] # q[j]
    BY <1>3 DEF SetToSeqs
  <2>2. q \in Injection(1..N, S)
    BY <2>1 DEF Injection, IsInjective
  <2>3. q \in Surjection(1..N, S)
    BY <1>2, <2>2, FS_Injection
  <2>4. \A c \in S : \E i \in 1..N : q[i] = c
    BY <2>3 DEF Surjection
  <2>5. q \in Seq(S) /\ Len(q) = N
    BY <1>1, <2>1
  <2>6. QED
    BY <1>1, <2>4, <2>5, BestIsGreatest
<1>4. SetToSeqs(S) # {}
  <2>1. PICK q : q \in Bijection(1..N, S)
    BY FS_CardinalityType DEF ExistsBijection
  <2>2. q \in [1..N -> S] /\ \A i, j \in 1..N : i # j => q[i] # q[j]
    BY <2>1 DEF Bijection, Injection, IsInjective
  <2>3. QED
    BY <2>2 DEF SetToSeqs
<1>5. PICK q \in SetToSeqs(S) : TRUE
  BY <1>4
<1>6. ASSUME NEW p \in SetToSeqs(S)
      PROVE  bestDiscoveryChannel(p) = bestDiscoveryChannel(q)
  BY <1>3, <1>5, <1>6 DEF PreferOrders
<1>7. B = {bestDiscoveryChannel(q)}
  BY <1>5, <1>6
<1>8. QED
  BY <1>7, FS_Singleton

\* The table never has more than maxDiscoveredDevices entries, the semaphore
\* never more than its holders, the probe never more than its workers, every
\* entry is as old as its newest channel, with one channel per host, and
\* bestDiscoveryChannel shows one and the same channel in every order of the map.
THEOREM TableStaysSound == Spec => []TableShown
<1>1. IndInv => TypeOK
  <2> SUFFICES ASSUME IndInv
               PROVE  TypeOK
    OBVIOUS
  <2>1. inst.sock \in {"none", "open", "shut"} /\ inst.tasks \subseteq Task
    BY DEF IndInv, ControlOK, Instances
  <2>2. /\ probe.pc \in {"no", "running", "done"} /\ probe.todo \subseteq Job /\ probe.busy \subseteq Job
    BY DEF IndInv, ProbeInv, Probes
  <2>3. QED
    BY <2>1, <2>2 DEF TypeOK, IndInv, ControlOK, KeyInv, SlotInv, TableInv, TableOK, ProbeInv, Responses
<1>2. IndInv => TableSound
  BY DEF IndInv, TableInv, TableOK, EntrySound, TableSound
<1>3. IndInv => BestWellDefined
  <2> SUFFICES ASSUME IndInv, NEW d \in DOMAIN table
               PROVE  Cardinality({bestDiscoveryChannel(q) : q \in SetToSeqs(table[d].channels)}) = 1
    BY DEF BestWellDefined
  <2>1. table[d] \in Entry /\ EntrySound(table[d])
    BY DEF IndInv, TableInv, TableOK
  <2>2. IsFiniteSet(table[d].channels) /\ table[d].channels # {}
    BY <2>1 DEF EntrySound
  <2>3. QED
    BY <2>1, <2>2, ChannelsOrdered, OneBest
<1>4. QED
  BY Invariance, <1>1, <1>2, <1>3, PTL DEF TableShown

-----------------------------------------------------------------------------
(* Eviction: a full table has an oldest entry *)

\* Entries have ages up to TTL + 1, so some entry is oldest.
LEMMA OldestExists ==
    ASSUME TableInv, DOMAIN table # {}
    PROVE  Oldest # {}
<1> DEFINE R == {ss \in Nat \X Nat : ss[1] < ss[2]}
           Youth(d) == TTL + 1 - table[d].age
           Y == {Youth(d) : d \in DOMAIN table}
<1>1. TTL \in Nat /\ \A d \in DOMAIN table : table[d].age \in 0..(TTL + 1)
  BY Constants DEF TableInv, TableOK, Entry, Age
<1>2. \A d \in DOMAIN table : Youth(d) \in Nat
  BY <1>1
<1>3. Y \subseteq Nat /\ Y # {}
  BY <1>2
<1>4. IsWellFoundedOn(R, Nat)
  BY NatLessThanWellFounded DEF OpToRel
<1> HIDE DEF R, Y
<1>5. PICK y \in Y : \A z \in Y : ~(<<z, y>> \in R)
  BY <1>3, <1>4, WFMin
<1>6. PICK d \in DOMAIN table : y = Youth(d)
  BY <1>5 DEF Y
<1>7. ASSUME NEW e \in DOMAIN table
      PROVE  table[d].age >= table[e].age
  <2>1. Youth(e) \in Y
    BY DEF Y
  <2>2. ~(Youth(e) < Youth(d))
    BY <1>2, <1>5, <1>6, <2>1 DEF R
  <2>3. QED
    BY <1>1, <2>2
<1>8. QED
  BY <1>6, <1>7 DEF Oldest

\* PutDiscovered always finds a place for a device that answered: at
\* maxDiscoveredDevices the eviction loop finds an entry to remove, whatever
\* ages the entries have.
THEOREM AlwaysRoom ==
    Spec => [](\A h \in Host, d \in Device, s \in Scheme : PutDiscovered(h, d, s) # {})
<1> DEFINE Room == \A h \in Host, d \in Device, s \in Scheme : PutDiscovered(h, d, s) # {}
<1>1. IndInv => Room
  <2> SUFFICES ASSUME IndInv, NEW h \in Host, NEW d \in Device, NEW s \in Scheme
               PROVE  PutDiscovered(h, d, s) # {}
    OBVIOUS
  <2> DEFINE kept == IF Full(d) THEN {DOMAIN table \ {e} : e \in Oldest} ELSE {DOMAIN table}
  <2>1. kept # {}
    <3>1. CASE Full(d)
      <4>1. DOMAIN table # {}
        BY <3>1, FS_EmptySet, Constants DEF Full
      <4>2. QED
        BY <3>1, <4>1, OldestExists DEF IndInv
    <3>2. QED
      BY <3>1
  <2> HIDE DEF kept
  <2>2. QED
    BY <2>1 DEF PutDiscovered, kept
<1> HIDE DEF Room
<1>2. Spec => []Room
  BY Invariance, <1>1, PTL
<1>3. QED
  BY <1>2 DEF Room

\* Whatever a table that PutDiscovered leaves no longer holds was an oldest entry.
LEMMA PutEvictsOldest ==
    ASSUME NEW h, NEW d, NEW s, NEW t \in PutDiscovered(h, d, s), NEW x \in DOMAIN table \ DOMAIN t
    PROVE  x \in Oldest
<1> DEFINE cs == IF d \in DOMAIN table THEN table[d].channels ELSE {}
           entry == [age |-> 0, channels |-> OtherHosts(cs, h)
                                  \cup {[host |-> h, scheme |-> s, age |-> 0]}]
           kept == IF Full(d) THEN {DOMAIN table \ {e} : e \in Oldest} ELSE {DOMAIN table}
<1>1. PICK D \in kept : t = [e \in D \cup {d} |-> IF e = d THEN entry ELSE table[e]]
  BY DEF PutDiscovered
<1> HIDE DEF entry, cs
<1>2. DOMAIN t = D \cup {d}
  BY <1>1
<1>3. QED
  BY <1>1, <1>2

LeaveInOrder ==
    \A d \in DOMAIN table \ DOMAIN table', e \in DOMAIN table \cap DOMAIN table' :
        table[d].age >= table[e].age

LEMMA OrderStep == IndInv /\ [Next]_vars => LeaveInOrder
<1> SUFFICES ASSUME IndInv, [Next]_vars
             PROVE  LeaveInOrder
  OBVIOUS
<1>0. TableInv
  BY DEF IndInv
<1>1. \A d \in DOMAIN table : table[d] \in Entry /\ EntrySound(table[d])
  BY <1>0 DEF TableInv, TableOK
<1>2. ASSUME NEW h, NEW d, NEW s, table' \in PutDiscovered(h, d, s)
      PROVE  LeaveInOrder
  BY <1>2, PutEvictsOldest DEF LeaveInOrder, Oldest
<1>3. CASE DOMAIN table' = DOMAIN table \/ DOMAIN table' = {}
  BY <1>3 DEF LeaveInOrder
<1>4. CASE UNCHANGED table
  BY <1>3, <1>4
<1>5. CASE BindSucceeds
  BY <1>3, <1>5 DEF BindSucceeds, NoTable
<1>6. ASSUME NEW r \in responses, NEW d \in Device, Confirm(r, d)
      PROVE  LeaveInOrder
  BY <1>2, <1>4, <1>6 DEF Confirm
<1>7. ASSUME NEW k \in Registered, Register(k)
      PROVE  LeaveInOrder
  BY <1>2, <1>7 DEF Register
<1>8. ASSUME NEW job \in Job, NEW d \in Device, tryScanIP(job, d)
      PROVE  LeaveInOrder
  BY <1>2, <1>4, <1>8 DEF tryScanIP
<1>9. CASE Tick
  <2>1. DOMAIN table' = DOMAIN table
    BY <1>9 DEF Tick
  <2>2. QED
    BY <1>3, <2>1
<1>10. CASE cleanupStaleDiscovered
  <2>1. DOMAIN table' = {e \in DOMAIN table : Fresh(e) # {} /\ table[e].age <= TTL}
    BY <1>10 DEF cleanupStaleDiscovered
  <2>2. \A d \in DOMAIN table : table[d].age \in Nat
    BY <1>1, Constants DEF Entry, Age
  <2>3. ASSUME NEW d \in DOMAIN table, table[d].age <= TTL
        PROVE  Fresh(d) # {}
    BY <1>1, <2>3 DEF EntrySound, Fresh
  <2>4. QED
    BY <2>1, <2>2, <2>3, Constants DEF LeaveInOrder
<1>11. CASE Cancel \/ Check \/ BindFails \/ Listen \/ ListenReturns \/ Clear \/ CloseInstance \/ Retry
  BY <1>4, <1>11 DEF Cancel, Check, BindFails, Listen, ListenReturns, Clear, CloseInstance, Retry
<1>12. CASE AfterCancel \/ Stop \/ \E t \in Task : TaskEnds(t)
  BY <1>4, <1>12 DEF AfterCancel, Stop, TaskEnds
<1>13. CASE \/ \E l \in Listener : ReadFails(l) \/ ReadIgnored(l) \/ StartResponse(l)
            \/ \E l \in Listener, k \in Key : ReadAnnouncement(l, k)
            \/ \E r \in responses : EndResponse(r)
  BY <1>4, <1>13 DEF ReadFails, ReadIgnored, StartResponse, ReadAnnouncement, EndResponse
<1>14. CASE (\E job \in Job : EnqueueJob(job)) \/ StopEnqueueing \/ ProbeEnds \/ StartProbe
  BY <1>4, <1>14 DEF EnqueueJob, StopEnqueueing, ProbeEnds, StartProbe
<1>15. CASE UNCHANGED vars
  BY <1>4, <1>15 DEF vars
<1>16. QED
  BY <1>5, <1>6, <1>7, <1>8, <1>9, <1>10, <1>11, <1>12, <1>13, <1>14, <1>15
     DEF Next, Supervise, Finite, Probe

\* Devices leave the table oldest first, by eviction in PutDiscovered and by
\* cleanupStaleDiscovered alike, for any number of devices and any limit.
THEOREM LeaveOldestFirst == Spec => OldestFirst
<1>1. IndInv /\ [Next]_vars => [LeaveInOrder]_vars
  BY OrderStep
<1>2. QED
  BY Invariance, <1>1, PTL DEF Spec, OldestFirst, LeaveInOrder

-----------------------------------------------------------------------------
(* Sockets: the safety half of CancelStops *)

\* Nothing is bound over open sockets, and once Stop ran and the supervisor
\* ended none is open: neither Discoverer of the retry loop is forgotten.
SocketsAccounted ==
    /\ ~leaked
    /\ stopped /\ sup = "ended" => inst.sock # "open"

\* The Discoverer with open sockets is the installed one wherever the loop can
\* end or bind the next; the scan command never leaves its only one.
SockInv ==
    /\ SocketsAccounted
    /\ sup \in {"bind", "retry"} => inst.sock # "open"
    /\ program = "recv" /\ sup \in {"check", "ended"} /\ inst.sock = "open" => current /\ ~stopped
    /\ program = "scan" => sup \in {"start", "listen", "ended"} /\ (stopped => inst.sock # "open")

\* Closing leaves no open socket.
LEMMA ShutSock == ASSUME inst \in Instances PROVE Shut(inst).sock # "open"
BY DEF Shut, Instances

\* Every step accounts for the sockets.
LEMMA SockStep == IndInv /\ SockInv /\ [Next]_vars => SockInv'
<1> SUFFICES ASSUME IndInv, SockInv, [Next]_vars
             PROVE  SockInv'
  OBVIOUS
<1>0. /\ program \in {"recv", "scan"} /\ inst \in Instances
      /\ cancelled \in BOOLEAN /\ current \in BOOLEAN /\ stopped \in BOOLEAN /\ leaked \in BOOLEAN
  BY DEF IndInv, ControlOK
<1> DEFINE Same == UNCHANGED <<supVars, leaked>> /\ inst'.sock = inst.sock
<1>1. ASSUME Same
      PROVE  SockInv'
  BY <1>1 DEF SockInv, SocketsAccounted, supVars
<1>2. CASE Cancel \/ Check \/ BindFails \/ Clear \/ Retry
  BY <1>0, <1>2 DEF Cancel, Check, BindFails, Clear, Retry, SockInv, SocketsAccounted
<1>3. CASE BindSucceeds
  BY <1>0, <1>3 DEF BindSucceeds, SockInv, SocketsAccounted
<1>4. CASE Listen
  <2>1. inst'.sock = inst.sock
    BY <1>0, <1>4 DEF Listen, Instances
  <2>2. QED
    BY <1>0, <1>4, <2>1 DEF Listen, SockInv, SocketsAccounted
<1>5. CASE ListenReturns
  BY <1>0, <1>5 DEF ListenReturns, SockInv, SocketsAccounted
<1>6. CASE CloseInstance \/ AfterCancel \/ Stop
  BY <1>0, <1>6, ShutSock DEF CloseInstance, AfterCancel, Stop, SockInv, SocketsAccounted
<1>7. CASE \E t \in Task : TaskEnds(t)
  <2>1. Same
    BY <1>0, <1>7 DEF TaskEnds, Instances
  <2>2. QED
    BY <1>1, <2>1
<1>8. CASE \E l \in Listener : ReadFails(l)
  <2>1. Same
    BY <1>0, <1>8 DEF ReadFails, Instances
  <2>2. QED
    BY <1>1, <2>1
<1>9. CASE \E l \in Listener : ReadIgnored(l) \/ StartResponse(l) \/ \E k \in Key : ReadAnnouncement(l, k)
  BY <1>1, <1>9 DEF ReadIgnored, StartResponse, ReadAnnouncement
<1>10. CASE (\E r \in responses, d \in Device : Confirm(r, d)) \/ \E r \in responses : EndResponse(r)
  BY <1>1, <1>10 DEF Confirm, EndResponse
<1>11. CASE (\E k \in Registered : Register(k)) \/ Tick \/ cleanupStaleDiscovered
  BY <1>1, <1>11 DEF Register, Tick, cleanupStaleDiscovered
<1>12. CASE Probe \/ StartProbe
  BY <1>1, <1>12 DEF Probe, EnqueueJob, tryScanIP, StopEnqueueing, ProbeEnds, StartProbe
<1>13. CASE UNCHANGED vars
  BY <1>1, <1>13 DEF vars
<1>14. QED
  BY <1>2, <1>3, <1>4, <1>5, <1>6, <1>7, <1>8, <1>9, <1>10, <1>11, <1>12, <1>13
     DEF Next, Supervise, Finite

\* The receiver's retry loop never replaces a Discoverer whose sockets are
\* open, and after Stop it ends with none open, whenever the cancellation came:
\* the safety half of CancelStops.
THEOREM NoSocketForgotten == Spec => []SocketsAccounted
<1>1. Init => SockInv
  <2> SUFFICES ASSUME Init
               PROVE  SockInv
    OBVIOUS
  <2>1. ~leaked /\ ~stopped /\ program \in {"recv", "scan"}
    BY DEF Init
  <2>2. CASE program = "recv"
    <3>1. sup = "check" /\ (inst = Unbound \/ current)
      BY Zenon, <2>2 DEF Init
    <3>2. inst.sock = "open" => current
      BY <3>1 DEF Unbound
    <3>3. QED
      BY <2>1, <2>2, <3>1, <3>2 DEF SockInv, SocketsAccounted
  <2>3. CASE program = "scan"
    <3>1. sup = "start"
      BY <2>3 DEF Init
    <3>2. QED
      BY <2>1, <2>3, <3>1 DEF SockInv, SocketsAccounted
  <2>4. QED
    BY <2>1, <2>2, <2>3
<1>2. SockInv => SocketsAccounted
  BY DEF SockInv
<1>3. QED
  BY Invariance, SockStep, <1>1, <1>2, PTL DEF Spec

=============================================================================
