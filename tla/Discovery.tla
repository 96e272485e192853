----------------------------- MODULE Discovery -----------------------------
(***************************************************************************)
(* LAN discovery: a Discoverer (localsend/scan.go) with its two multicast  *)
(* listeners, its background tasks, its answers to announcements and its   *)
(* table of devices, and the two programs that own one: the receiver's     *)
(* supervisor, which binds a new Discoverer whenever the listener stops    *)
(* (recv.go), and the scan command, which keeps one until its time is up   *)
(* and probes the subnet when multicast stays silent.                      *)
(*                                                                         *)
(* Data abstracted: a fingerprint is a Device, an endpoint (scheme, port)  *)
(* its scheme, lastSeen an age in ticks that stops one above TTL.  What    *)
(* goroutines of a discarded Discoverer still do to its own table before   *)
(* they end is invisible and left out.                                     *)
(***************************************************************************)
EXTENDS Integers, Sequences, FiniteSets, Functions, SequencesExt

CONSTANTS
    Device,        \* fingerprints
    V4Host,        \* IPv4 addresses of the subnet, as numbers in string order
    V6Host,        \* IPv6 addresses, likewise
    Announced,     \* device, host and scheme of the announcements others send
    Registered,    \* device, host and scheme of the registrations others send
    TTL,           \* discoveryTTL, in ticks
    MaxDevices,    \* maxDiscoveredDevices
    MaxResponses,  \* maxConcurrentAnnouncementResponses
    MaxErrors,     \* maxConsecutiveReceiveErrors
    MaxScans       \* maxConcurrentScans

ASSUME DiscoveryAssumption ==
    /\ IsFiniteSet(Device) /\ V4Host \cup V6Host \subseteq Nat /\ V4Host \cap V6Host = {}
    /\ Announced \cup Registered \subseteq
          [device : Device, host : V4Host \cup V6Host, scheme : {"http", "https"}]
    /\ TTL \in Nat /\ {MaxDevices, MaxResponses, MaxErrors, MaxScans} \subseteq Nat \ {0}

VARIABLES
    program,    \* which program owns the Discoverer
    cancelled,  \* its context is done
    sup,        \* the goroutine that runs Listen
    current,    \* fr.discoverier is set
    after,      \* the AfterFunc that shuts the Discoverer down is armed
    stopped,    \* the receiver's Stop, or the scan's end, has shut it down
    inst,       \* the Discoverer: its sockets, its tasks
    leaked,     \* a discarded Discoverer still has its sockets
    errs,       \* consecutiveErrors of a listener
    keyed,      \* the key a listener has inserted and not yet decided on
    inFlight,   \* responsesInFlight
    responses,  \* goroutines that answer an announcement
    table,      \* discovered
    probe       \* ScanSubnet: where it is, jobs to do, jobs under way

supVars  == <<program, cancelled, sup, current, after, stopped>>
respVars == <<keyed, inFlight, responses>>
vars == <<supVars, inst, leaked, errs, respVars, table, probe>>

-----------------------------------------------------------------------------
Host     == V4Host \cup V6Host
Scheme   == {"http", "https"}
Listener == {"v4", "v6"}
Task     == {"background", "v6"}   \* announcementTask and discoveryCleanupTask; the IPv6 listener
Age      == 0..(TTL + 1)
Key      == Announced
Channel  == [host : Host, scheme : Scheme, age : Age]
Entry    == [channels : SUBSET Channel, age : Age]
Job      == V4Host \X Scheme
NoKey    == [device |-> "none", host |-> 0, scheme |-> "none"]

\* Goroutines that hold a slot of responseSem
Holders == {r \in responses : r.phase = "post"}

TypeOK ==
    /\ program \in {"recv", "scan"} /\ {cancelled, current, after, stopped, leaked} \subseteq BOOLEAN
    /\ sup \in {"check", "bind", "start", "listen", "clear", "close", "retry", "ended"}
    /\ inst.sock \in {"none", "open", "shut"} /\ inst.tasks \subseteq Task
    /\ errs \in [Listener -> 0..MaxErrors] /\ keyed \in [Listener -> Key \cup {NoKey}]
    /\ inFlight \subseteq Key
    /\ responses \subseteq [key : Key, phase : {"post", "delete"}]
    /\ Cardinality(Holders) <= MaxResponses
    /\ DOMAIN table \subseteq Device /\ \A d \in DOMAIN table : table[d] \in Entry
    /\ Cardinality(DOMAIN table) <= MaxDevices
    /\ probe.pc \in {"no", "running", "done"}
    /\ probe.todo \subseteq Job /\ probe.busy \subseteq Job
    /\ Cardinality(probe.busy) <= MaxScans

NoTable == [d \in {} |-> 0]
Unbound == [sock |-> "none", tasks |-> {}]
Bound   == [sock |-> "open", tasks |-> {}]

\* The receiver's Init may fail to bind; the scan command gives up if it does.
Init ==
    /\ program \in {"recv", "scan"}
    /\ cancelled = FALSE /\ after = FALSE /\ stopped = FALSE /\ leaked = FALSE
    /\ \/ inst = Bound /\ current = (program = "recv")
       \/ program = "recv" /\ inst = Unbound /\ current = FALSE
    /\ sup = IF program = "recv" THEN "check" ELSE "start"
    /\ errs = [l \in Listener |-> 0] /\ keyed = [l \in Listener |-> NoKey]
    /\ inFlight = {} /\ responses = {} /\ table = NoTable
    /\ probe = [pc |-> "no", todo |-> {}, busy |-> {}]

-----------------------------------------------------------------------------
(* The supervisor: startDiscoveryWithRetry *)

Shut(i) == IF i.sock = "open" THEN [i EXCEPT !.sock = "shut"] ELSE i

Cancel ==
    /\ ~cancelled
    /\ cancelled' = TRUE
    /\ UNCHANGED <<program, sup, current, after, stopped, inst, leaked, errs, respVars, table, probe>>

\* The loop's head.
Check ==
    /\ sup = "check"
    /\ sup' = IF cancelled THEN "ended" ELSE IF current THEN "start" ELSE "bind"
    /\ UNCHANGED <<program, cancelled, current, after, stopped, inst, leaked, errs, respVars, table, probe>>

BindFails ==
    /\ sup = "bind"
    /\ sup' = "retry"
    /\ UNCHANGED <<program, cancelled, current, after, stopped, inst, leaked, errs, respVars, table, probe>>

\* NewDiscovererWithCertificate and installDiscoverer.
BindSucceeds ==
    /\ sup = "bind"
    /\ inst' = Bound
    /\ leaked' = (leaked \/ inst.sock = "open")
    /\ current' = TRUE /\ sup' = "start"
    /\ errs' = [l \in Listener |-> 0] /\ keyed' = [l \in Listener |-> NoKey]
    /\ inFlight' = {} /\ responses' = {} /\ table' = NoTable
    /\ UNCHANGED <<program, cancelled, after, stopped, probe>>

NeverArmed == FALSE

\* context.AfterFunc(ctx, discoverer.Shutdown), in the receiver only
Armed == program = "recv"

\* Listen starts the tasks, the IPv6 listener among them if that socket exists,
\* and becomes the IPv4 listener.
Listen ==
    /\ sup = "start"
    /\ sup' = "listen" /\ after' = Armed
    /\ \E tasks \in {Task, Task \ {"v6"}} : inst' = [inst EXCEPT !.tasks = tasks]
    /\ UNCHANGED <<program, cancelled, current, stopped, leaked, errs, respVars, table, probe>>

AfterCancel ==
    /\ cancelled /\ after
    /\ after' = FALSE /\ inst' = Shut(inst)
    /\ UNCHANGED <<program, cancelled, sup, current, stopped, leaked, errs, respVars, table, probe>>

\* The receiver's Stop shuts down the Discoverer it finds; the scan command
\* its own.
Stop ==
    /\ cancelled /\ ~stopped
    /\ stopped' = TRUE
    /\ inst' = IF current \/ program = "scan" THEN Shut(inst) ELSE inst
    /\ UNCHANGED <<program, cancelled, sup, current, after, leaked, errs, respVars, table, probe>>

\* listenOn returns: the socket was closed, or too many reads failed in a row.
ListenReturns ==
    /\ sup = "listen" /\ keyed["v4"] = NoKey
    /\ inst.sock = "shut" \/ errs["v4"] = MaxErrors
    /\ sup' = IF program = "recv" THEN "clear" ELSE "ended"
    /\ after' = FALSE
    /\ UNCHANGED <<program, cancelled, current, stopped, inst, leaked, errs, respVars, table, probe>>

KeptInstance == current

\* clearDiscoverer leaves the field empty
ClearedInstance == FALSE

Clear ==
    /\ sup = "clear"
    /\ current' = ClearedInstance /\ sup' = "close"
    /\ UNCHANGED <<program, cancelled, after, stopped, inst, leaked, errs, respVars, table, probe>>

CloseInstance ==
    /\ sup = "close"
    /\ inst' = Shut(inst)
    /\ sup' = IF cancelled THEN "ended" ELSE "retry"
    /\ UNCHANGED <<program, cancelled, current, after, stopped, leaked, errs, respVars, table, probe>>

\* waitDiscoveryRetry
Retry ==
    /\ sup = "retry"
    /\ sup' = IF cancelled THEN "ended" ELSE "check"
    /\ UNCHANGED <<program, cancelled, current, after, stopped, inst, leaked, errs, respVars, table, probe>>

\* A task sees the stop channel closed.
TaskEnds(t) ==
    /\ t \in inst.tasks /\ inst.sock = "shut" /\ (t = "v6" => keyed["v6"] = NoKey)
    /\ inst' = [inst EXCEPT !.tasks = @ \ {t}]
    /\ UNCHANGED <<supVars, leaked, errs, respVars, table, probe>>

-----------------------------------------------------------------------------
(* The listeners and their answers *)

Listens(l) ==
    /\ inst.sock = "open" /\ errs[l] < MaxErrors /\ keyed[l] = NoKey
    /\ IF l = "v4" THEN sup = "listen" ELSE "v6" \in inst.tasks

\* After MaxErrors failures the IPv6 listener just ends.
ReadFails(l) ==
    /\ Listens(l)
    /\ errs' = [errs EXCEPT ![l] = @ + 1]
    /\ inst' = IF l = "v6" /\ errs[l] + 1 = MaxErrors
               THEN [inst EXCEPT !.tasks = @ \ {"v6"}] ELSE inst
    /\ UNCHANGED <<supVars, leaked, respVars, table, probe>>

\* A datagram that is malformed, our own, or no announcement.
ReadIgnored(l) ==
    /\ Listens(l)
    /\ errs' = [errs EXCEPT ![l] = 0]
    /\ UNCHANGED <<supVars, inst, leaked, respVars, table, probe>>

\* respondToAnnouncement, first part: an answer under way absorbs the repeat.
ReadAnnouncement(l, k) ==
    /\ Listens(l)
    /\ k.host \in IF l = "v4" THEN V4Host ELSE V6Host
    /\ errs' = [errs EXCEPT ![l] = 0]
    /\ IF k \in inFlight THEN UNCHANGED <<keyed, inFlight>>
       ELSE /\ keyed' = [keyed EXCEPT ![l] = k]
            /\ inFlight' = inFlight \cup {k}
    /\ UNCHANGED <<supVars, inst, leaked, responses, table, probe>>

KeptKeys(k) == inFlight

\* the limit is reached: the key is taken back
DroppedKeys(k) == inFlight \ {k}

\* Second part: a goroutine if a slot of responseSem is free.
StartResponse(l) ==
    /\ keyed[l] # NoKey
    /\ keyed' = [keyed EXCEPT ![l] = NoKey]
    /\ IF Cardinality(Holders) < MaxResponses
       THEN /\ responses' = responses \cup {[key |-> keyed[l], phase |-> "post"]}
            /\ UNCHANGED inFlight
       ELSE /\ inFlight' = DroppedKeys(keyed[l])
            /\ UNCHANGED responses
    /\ UNCHANGED <<supVars, inst, leaked, errs, table, probe>>

-----------------------------------------------------------------------------
(* The table *)

Oldest == {d \in DOMAIN table : \A e \in DOMAIN table : table[d].age >= table[e].age}

Full(d) == d \notin DOMAIN table /\ Cardinality(DOMAIN table) >= MaxDevices

EveryOther(channels, h) == channels

\* a host's earlier channel goes
OtherHosts(channels, h) == {c \in channels : c.host # h}

\* The tables PutDiscovered can leave: at the limit an oldest entry goes, any
\* one of several as old.
PutDiscovered(h, d, scheme) ==
    LET channels == IF d \in DOMAIN table THEN table[d].channels ELSE {}
        entry == [age |-> 0, channels |-> OtherHosts(channels, h)
                                  \cup {[host |-> h, scheme |-> scheme, age |-> 0]}]
        kept == IF Full(d) THEN {DOMAIN table \ {e} : e \in Oldest} ELSE {DOMAIN table}
    IN {[e \in D \cup {d} |-> IF e = d THEN entry ELSE table[e]] : D \in kept}

\* sendHTTPResponse confirmed a device or not.  Over https the announced
\* fingerprint, pinned in the handshake, is kept; over http the body names it.
Confirm(r, d) ==
    /\ r \in Holders
    /\ r.key.scheme = "https" => d = r.key.device
    /\ table' \in PutDiscovered(r.key.host, d, r.key.scheme) \cup {table}
    /\ responses' = (responses \ {r}) \cup {[r EXCEPT !.phase = "delete"]}
    /\ UNCHANGED <<supVars, inst, leaked, errs, keyed, inFlight, probe>>

\* The slot is free; now the key goes.
EndResponse(r) ==
    /\ r \in responses /\ r.phase = "delete"
    /\ responses' = responses \ {r}
    /\ inFlight' = inFlight \ {r.key}
    /\ UNCHANGED <<supVars, inst, leaked, errs, keyed, table, probe>>

\* registerHandler, or the scan command's callback listener: a device that
\* answers by itself.
Register(k) ==
    /\ IF program = "recv" THEN current ELSE sup = "listen" /\ ~stopped
    /\ table' \in PutDiscovered(k.host, k.device, k.scheme)
    /\ UNCHANGED <<supVars, inst, leaked, errs, respVars, probe>>

Older(n) == IF n <= TTL THEN n + 1 ELSE n

Tick ==
    /\ table' = [d \in DOMAIN table |->
                   [age |-> Older(table[d].age),
                    channels |-> {[c EXCEPT !.age = Older(@)] : c \in table[d].channels}]]
    /\ table' # table
    /\ UNCHANGED <<supVars, inst, leaked, errs, respVars, probe>>

Fresh(d) == {c \in table[d].channels : c.age <= TTL}

cleanupStaleDiscovered ==
    /\ "background" \in inst.tasks
    /\ table' = [d \in {e \in DOMAIN table : Fresh(e) # {} /\ table[e].age <= TTL} |->
                   [table[d] EXCEPT !.channels = Fresh(d)]]
    /\ table' # table
    /\ UNCHANGED <<supVars, inst, leaked, errs, respVars, probe>>

PreferNewer(c, best) ==
    \/ c.host \in V6Host /\ best.host \notin V6Host
    \/ (c.host \in V6Host) = (best.host \in V6Host) /\ c.age < best.age

\* The comparison of bestDiscoveryChannel: IPv6 first, then the newer one, then
\* the smaller address.
Prefer(c, best) ==
    LET isV6   == c.host \in V6Host
        bestV6 == best.host \in V6Host
    IN \/ isV6 /\ ~bestV6
       \/ /\ isV6 = bestV6
          /\ c.age < best.age \/ (c.age = best.age /\ c.host < best.host)

\* One pass over the channels, in whatever order the map gives them.
bestDiscoveryChannel(channels) ==
    LET best[n \in DOMAIN channels] ==
          IF n = 1 THEN channels[1]
          ELSE IF Prefer(channels[n], best[n - 1]) THEN channels[n] ELSE best[n - 1]
    IN best[Len(channels)]

-----------------------------------------------------------------------------
(* The scan command's subnet probe *)

\* The user asked for it, or nothing was confirmed when 750 ms had passed (the
\* table may have filled since).
StartProbe ==
    /\ program = "scan" /\ probe.pc = "no" /\ ~cancelled
    /\ probe' = [pc |-> "running", todo |-> Job, busy |-> {}]
    /\ UNCHANGED <<supVars, inst, leaked, errs, respVars, table>>

\* A worker takes a job.
EnqueueJob(job) ==
    /\ probe.pc = "running" /\ job \in probe.todo
    /\ Cardinality(probe.busy) < MaxScans
    /\ probe' = [probe EXCEPT !.todo = @ \ {job}, !.busy = @ \cup {job}]
    /\ UNCHANGED <<supVars, inst, leaked, errs, respVars, table>>

\* The probe's own deadline, at the latest the scan's, ends the enqueueing.
StopEnqueueing ==
    /\ probe.pc = "running" /\ probe.todo # {}
    /\ probe' = [probe EXCEPT !.todo = {}]
    /\ UNCHANGED <<supVars, inst, leaked, errs, respVars, table>>

\* tryScanIP: nobody answers, or the certificate or the body names the device.
tryScanIP(job, d) ==
    /\ job \in probe.busy
    /\ table' \in PutDiscovered(job[1], d, job[2]) \cup {table}
    /\ probe' = [probe EXCEPT !.busy = @ \ {job}]
    /\ UNCHANGED <<supVars, inst, leaked, errs, respVars>>

ProbeEnds ==
    /\ probe.pc = "running" /\ probe.todo = {} /\ probe.busy = {}
    /\ probe' = [probe EXCEPT !.pc = "done"]
    /\ UNCHANGED <<supVars, inst, leaked, errs, respVars, table>>

-----------------------------------------------------------------------------
Supervise == Check \/ BindFails \/ BindSucceeds \/ Listen \/ ListenReturns \/ Clear
               \/ CloseInstance \/ Retry

Probe == \/ \E job \in Job : EnqueueJob(job)
         \/ \E job \in Job, d \in Device : tryScanIP(job, d)
         \/ StopEnqueueing \/ ProbeEnds

\* Each of these can happen a bounded number of times per Discoverer, so
\* fairness to their disjunction is fairness to each.
Finite == AfterCancel \/ Stop \/ Probe \/ \E t \in Task : TaskEnds(t)

Next ==
    \/ Cancel \/ Supervise \/ Finite
    \/ \E l \in Listener : ReadFails(l) \/ ReadIgnored(l) \/ StartResponse(l)
    \/ \E l \in Listener, k \in Key : ReadAnnouncement(l, k)
    \/ \E r \in responses, d \in Device : Confirm(r, d)
    \/ \E r \in responses : EndResponse(r)
    \/ \E k \in Registered : Register(k)
    \/ Tick \/ cleanupStaleDiscovered
    \/ StartProbe

Spec == Init /\ [][Next]_vars

\* Goroutines run, requests end by their timeouts, and a network comes back:
\* binding, tried again and again, works at last.
Fairness ==
    /\ WF_vars(Supervise) /\ SF_vars(BindSucceeds)
    /\ WF_vars(Finite)
    /\ \A l \in Listener : WF_vars(StartResponse(l))

FairSpec == Spec /\ Fairness

-----------------------------------------------------------------------------
(* Properties *)

\* Every entry was seen when its newest channel was, and has one channel per
\* host: whatever devices move, reappear and expire, the age that decides on
\* eviction and expiry is the age of something still in the entry.
TableSound ==
    \A d \in DOMAIN table :
        /\ \E c \in table[d].channels : c.age = table[d].age
        /\ \A c \in table[d].channels : c.age >= table[d].age
        /\ \A c, e \in table[d].channels : c.host = e.host => c = e

\* The channel shown for a device does not depend on the order in which Go
\* iterates over the map of its channels.
BestWellDefined ==
    \A d \in DOMAIN table :
        Cardinality({bestDiscoveryChannel(q) : q \in SetToSeqs(table[d].channels)}) = 1

\* What the table shows is right and bounded by maxDiscoveredDevices: entries
\* as above, an unambiguous channel for each, within the types.
TableShown == TypeOK /\ TableSound /\ BestWellDefined

\* Devices leave the table oldest first: whatever is confirmed, registered,
\* probed or expires when, none that was seen later goes before one that
\* stays.  The two ways out read different ages, eviction the entry's and the
\* cleanup those of its channels (PutDiscovered, cleanupStaleDiscovered).
OldestFirst ==
    [][\A d \in DOMAIN table \ DOMAIN table', e \in DOMAIN table \cap DOMAIN table' :
          table[d].age >= table[e].age]_vars

\* A key is in flight exactly while a listener decides on it or one goroutine
\* answers it: no announcement is ever absorbed by an answer nobody gives.
KeysOwned ==
    /\ inFlight = {r.key : r \in responses} \cup ({keyed[l] : l \in Listener} \ {NoKey})
    /\ \A r, q \in responses : r.key = q.key => r = q

\* After cancellation the goroutine that runs Listen ends, every socket is
\* closed and every task ends, whenever the cancellation comes: before the
\* first bind, between bind and Listen, while Stop finds no Discoverer.  No
\* Discoverer that was discarded before it was left with its sockets open.
CancelStops ==
    cancelled ~> /\ sup = "ended" /\ inst.sock # "open" /\ ~leaked
                 /\ inst.tasks = {} /\ probe.pc # "running"

\* A receiver whose listener failed, or that found no network at first, is
\* listening again some time later.
Rebinds == program = "recv" /\ sup # "listen" ~> (sup = "listen" /\ inst.sock = "open") \/ cancelled

=============================================================================
