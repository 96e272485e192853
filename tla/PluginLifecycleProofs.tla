----------------------- MODULE PluginLifecycleProofs -----------------------
(***************************************************************************)
(* Proofs about the KOReader plugin's lifecycle, for every set of process  *)
(* ids and every number of polls, operations and KOReader sessions: the    *)
(* plugin never loses a receiver, never closes the ports under one, never  *)
(* starts one against the user's stop, tears down completely and lets the  *)
(* device sleep with a receiver only when the shown widget has not         *)
(* registered its handlers since the launch.                               *)
(*                                                                         *)
(* The operators of the model map plugin states to plugin states, so the   *)
(* proof has one lemma per operator: what it keeps of a sound state.       *)
(***************************************************************************)
EXTENDS PluginLifecycle, TLAPS

-----------------------------------------------------------------------------
(* The inductive invariant *)

\* A closure whose operation is still the current one knows the receiver: a
\* start is waited for only while there is none, a stop waits for the only one,
\* and it starts again only if the user wants it.
TaskSound(s, t) ==
    /\ t.op <= s.opId
    /\ t.op = s.opId => /\ t.kind = "ready" => Live(s) = {}
                        /\ t.kind # "ready" => Live(s) \subseteq {t.pid}
                        /\ t.then = "start" => ~s.userStopped

Sound(s) ==
    /\ Live(s) \subseteq {s.pidFile}
    /\ \A p \in Pid : s.proc[p] = "recv" => s.firewall
    /\ \A t \in s.tasks : TaskSound(s, t)

\* The event handlers are registered while a receiver runs that the shown widget
\* has registered events since.
Handled(s) == Running(s) => s.handlers \/ s.unseen

SleepInv ==
    /\ asleep => Stopped(k) \/ k.unseen
    /\ app = "open" => Handled(k)

IndInv ==
    /\ TypeOK /\ Sound(k) /\ TeardownComplete
    /\ asleep => app = "open"
    /\ exited => app = "down"
    /\ SleepInv

-----------------------------------------------------------------------------
(* Plugin states and what the operators keep of them *)

Procs == [Pid -> ProcessState]
Whos  == SUBSET Instance
Tasks == SUBSET Closure

\* A plugin state is a record of these fields.
LEMMA StateShape ==
    PluginState =
        [proc : Procs, pidFile : Pid \cup {None}, firewall : BOOLEAN, busy : BOOLEAN,
         userStopped : BOOLEAN, beforeSuspend : BOOLEAN, beforeDisconnect : BOOLEAN,
         stopInProgress : BOOLEAN, hold : BOOLEAN, resume : BOOLEAN, handlers : BOOLEAN,
         unseen : BOOLEAN, opId : Nat, poll : Whos, waitNet : Whos, tasks : Tasks]
  BY DEF PluginState, Procs, Whos, Tasks

\* The fields that Sound speaks of are the same.
SameCore(s, r) ==
    /\ r.proc = s.proc /\ r.pidFile = s.pidFile /\ r.firewall = s.firewall
    /\ r.opId = s.opId /\ r.tasks = s.tasks /\ r.userStopped = s.userStopped
    /\ r.waitNet = s.waitNet

\* From s to r nothing changed that matters.
Kept(s, r) == r \in PluginState /\ SameCore(s, r) /\ (Handled(s) => Handled(r))

\* What matters of a state is what Kept keeps.
LEMMA KeptSound ==
    ASSUME NEW s, NEW r, Kept(s, r)
    PROVE  /\ Sound(s) => Sound(r)
           /\ Live(r) = Live(s) /\ Running(r) = Running(s)
           /\ Stopped(s) => Stopped(r)
  BY DEF Kept, SameCore, Sound, Live, Running, Stopped, TaskSound

\* registerEvents registers the handlers of the shown widget while they are needed.
LEMMA Registers ==
    ASSUME NEW s \in PluginState, NEW who \in Instance
    PROVE  /\ Kept(s, registerEvents(s, who))
           /\ who = "cur" => Handled(registerEvents(s, who))
<1> DEFINE b == EventsWanted(s)
           r == registerEvents(s, who)
<1>1. b \in BOOLEAN /\ (Running(s) => b)
  BY DEF EventsWanted
<1>2. r = IF who = "cur" THEN [s EXCEPT !.handlers = b, !.unseen = FALSE] ELSE s
  BY DEF registerEvents
<1> HIDE DEF b, r
<1>3. r \in PluginState
  BY <1>1, <1>2, StateShape
<1>4. SameCore(s, r) /\ (IF who = "cur" THEN r.handlers = b ELSE r = s)
  BY <1>2, StateShape DEF SameCore
<1>5. Running(r) = Running(s)
  BY <1>4 DEF SameCore, Running
<1>6. QED
  BY <1>1, <1>3, <1>4, <1>5 DEF Kept, Handled, r

\* reconcileServerState changes the flags and the handlers only.
LEMMA Reconciles ==
    ASSUME NEW s \in PluginState, NEW who \in Instance
    PROVE  /\ Kept(s, reconcileServerState(s, who))
           /\ who = "cur" => Handled(reconcileServerState(s, who))
<1> DEFINE run == Running(s)
           a == s.stopInProgress /\ run
           b == s.hold /\ run
           c == s.busy /\ run
           n == [s EXCEPT !.stopInProgress = a, !.hold = b, !.busy = c]
<1>1. a \in BOOLEAN /\ b \in BOOLEAN /\ c \in BOOLEAN
  OBVIOUS
<1>2. reconcileServerState(s, who) = registerEvents(n, who)
  BY DEF reconcileServerState
<1> HIDE DEF a, b, c
<1>3. n \in PluginState
  BY <1>1, StateShape, ZenonT(40)
<1>4. SameCore(s, n) /\ n.handlers = s.handlers /\ n.unseen = s.unseen
  BY StateShape DEF SameCore
<1> HIDE DEF n
<1>5. Running(n) = Running(s)
  BY <1>4 DEF SameCore, Running
<1>6. /\ Kept(n, registerEvents(n, who))
      /\ who = "cur" => Handled(registerEvents(n, who))
  BY <1>3, Registers
<1>7. QED
  BY <1>2, <1>4, <1>5, <1>6 DEF Kept, SameCore, Handled


-----------------------------------------------------------------------------
(* Safe steps *)

\* What an operation needs of the state it begins in, when it makes the closures
\* of earlier operations stale.
Tracked(s) ==
    /\ Live(s) \subseteq {s.pidFile}
    /\ \A p \in Pid : s.proc[p] = "recv" => s.firewall
    /\ \A t \in s.tasks : t.op <= s.opId

\* Every closure belongs to an earlier operation.
AllStale(s) == \A t \in s.tasks : t.op < s.opId

\* No receiver is started.
Quiet(s, r) == \A p \in Pid : r.proc[p] = "recv" => s.proc[p] = "recv"

\* From s to r, by a function of the plugin.
Safe(s, r) ==
    /\ r \in PluginState /\ Sound(r)
    /\ r.userStopped = s.userStopped
    /\ s.userStopped => Quiet(s, r)
    /\ Handled(s) => Handled(r)

\* s is a with flags set and closures taken out, before an operation.
Edited(a, s) ==
    /\ s \in PluginState
    /\ s.proc = a.proc /\ s.pidFile = a.pidFile /\ s.firewall = a.firewall
    /\ s.opId = a.opId /\ s.handlers = a.handlers /\ s.unseen = a.unseen
    /\ s.tasks \subseteq a.tasks /\ s.waitNet \subseteq a.waitNet \cup {"cur"}

\* The state before an operation is as good as the one it was made from.
LEMMA EditedSound ==
    ASSUME NEW a, NEW s, Edited(a, s)
    PROVE  /\ Tracked(a) => Tracked(s)
           /\ Sound(a) /\ (s.userStopped => a.userStopped) => Sound(s)
           /\ Handled(a) => Handled(s)
           /\ Running(s) = Running(a) /\ Live(s) = Live(a)
<1>1. Running(s) = Running(a) /\ Live(s) = Live(a)
  BY DEF Edited, Running, Live
<1>2. Tracked(a) => Tracked(s)
  BY <1>1 DEF Edited, Tracked
<1>3. Sound(a) /\ (s.userStopped => a.userStopped) => Sound(s)
  BY <1>1 DEF Edited, Sound, TaskSound
<1>4. QED
  BY <1>1, <1>2, <1>3 DEF Edited, Handled

LEMMA SoundTracked ==
    ASSUME NEW s, Sound(s)
    PROVE  Tracked(s)
  BY DEF Sound, Tracked, TaskSound

\* Where all closures are stale nothing more is asked of them.
LEMMA StaleSound ==
    ASSUME NEW s \in PluginState, AllStale(s),
           Live(s) \subseteq {s.pidFile},
           \A p \in Pid : s.proc[p] = "recv" => s.firewall
    PROVE  Sound(s)
<1>1. \A t \in s.tasks : t.op \in Nat /\ s.opId \in Nat
  BY DEF PluginState, Closure
<1>2. QED
  BY <1>1 DEF Sound, AllStale, TaskSound

LEMMA KeptSafe ==
    ASSUME NEW s, NEW r, Kept(s, r), Sound(s)
    PROVE  Safe(s, r)
  BY KeptSound DEF Kept, SameCore, Safe, Quiet

LEMMA SafeThenKept ==
    ASSUME NEW s, NEW m, NEW r, Safe(s, m), Kept(m, r)
    PROVE  Safe(s, r)
<1>1. Sound(r)
  BY KeptSound DEF Safe
<1>2. r.proc = m.proc /\ r.userStopped = m.userStopped /\ r \in PluginState
      /\ (Handled(m) => Handled(r))
  BY DEF Kept, SameCore
<1>3. QED
  BY <1>1, <1>2 DEF Safe, Quiet

LEMMA SafeThenSafe ==
    ASSUME NEW s, NEW m, NEW r, Safe(s, m), Safe(m, r)
    PROVE  Safe(s, r)
<1>1. s.userStopped => Quiet(s, r)
  BY DEF Safe, Quiet
<1>2. QED
  BY <1>1 DEF Safe

LEMMA SafeRefl ==
    ASSUME NEW s \in PluginState, Sound(s)
    PROVE  Safe(s, s)
  BY DEF Safe, Quiet

\* A receiver that lives is the one isRunning finds.
LEMMA NoneLive ==
    ASSUME NEW s \in PluginState, Live(s) \subseteq {s.pidFile}, ~Running(s)
    PROVE  Live(s) = {}
<1>1. SUFFICES ASSUME NEW p \in Live(s) PROVE FALSE
  OBVIOUS
<1>2. p = s.pidFile /\ p \in Pid /\ s.proc[p] \in Receiver
  BY <1>1 DEF Live
<1>3. QED
  BY <1>2, PluginAssumption DEF Running

\* Without a receiver any files and flags are sound.
LEMMA DeadSound ==
    ASSUME NEW s, NEW r \in PluginState, Sound(s), Live(s) = {},
           r.proc = s.proc, r.opId = s.opId, r.tasks = s.tasks,
           r.userStopped = s.userStopped, r.waitNet = s.waitNet
    PROVE  Safe(s, r) /\ Live(r) = {}
<1>1. Live(r) = {}
  BY DEF Live
<1>2. \A p \in Pid : r.proc[p] # "recv"
  BY <1>1 DEF Live, Receiver
<1>3. Sound(r)
  BY <1>1, <1>2 DEF Sound, TaskSound
<1>4. ~Running(r)
  BY <1>1 DEF Running, Live, PluginState
<1>5. QED
  BY <1>1, <1>2, <1>3, <1>4 DEF Safe, Quiet, Handled

-----------------------------------------------------------------------------
(* The functions of localsend_server.lua *)

\* The sentinel poll is scheduled and unscheduled, nothing else.
LEMMA Polling ==
    ASSUME NEW s \in PluginState, NEW who \in Instance
    PROVE  /\ Kept(s, schedulePolling(s, who))
           /\ schedulePolling(s, who).handlers = s.handlers /\ schedulePolling(s, who).unseen = s.unseen
           /\ Kept(s, unschedulePolling(s, who))
           /\ unschedulePolling(s, who).handlers = s.handlers /\ unschedulePolling(s, who).unseen = s.unseen
<1> DEFINE a == s.poll \cup {who}
           b == s.poll \ {who}
           r == [s EXCEPT !.poll = a]
           u == [s EXCEPT !.poll = b]
<1>1. s.poll \in Whos
  BY StateShape
<1>2. a \in Whos /\ b \in Whos
  BY <1>1 DEF Whos
<1>3. schedulePolling(s, who) = r /\ unschedulePolling(s, who) = u
  BY DEF schedulePolling, unschedulePolling
<1> HIDE DEF a, b
<1>4. r \in PluginState /\ u \in PluginState
  BY <1>2, StateShape
<1>5. /\ SameCore(s, r) /\ r.handlers = s.handlers /\ r.unseen = s.unseen
      /\ SameCore(s, u) /\ u.handlers = s.handlers /\ u.unseen = s.unseen
  BY StateShape DEF SameCore
<1> HIDE DEF r, u
<1>6. Running(r) = Running(s) /\ Running(u) = Running(s)
  BY <1>5 DEF SameCore, Running
<1>7. QED
  BY <1>3, <1>4, <1>5, <1>6 DEF Kept, Handled

\* Two steps that keep what matters.
LEMMA KeptThenKept ==
    ASSUME NEW s, NEW m, NEW r, Kept(s, m), Kept(m, r)
    PROVE  Kept(s, r)
  BY DEF Kept, SameCore

\* The state without its stop_in_progress flag.
LEMMA FlagCleared ==
    ASSUME NEW s \in PluginState, NEW b \in BOOLEAN
    PROVE  Kept(s, [s EXCEPT !.stopInProgress = b])
<1> DEFINE r == [s EXCEPT !.stopInProgress = b]
<1>1. r \in PluginState
  BY StateShape
<1>2. SameCore(s, r) /\ r.handlers = s.handlers /\ r.unseen = s.unseen
  BY StateShape DEF SameCore
<1> HIDE DEF r
<1>3. Running(r) = Running(s)
  BY <1>2 DEF SameCore, Running
<1>4. QED
  BY <1>1, <1>2, <1>3 DEF Kept, Handled, r

\* onServerStarted and finish reconcile the flags; on the shown widget they leave
\* the handlers registered if a receiver runs.
LEMMA StartedKept ==
    ASSUME NEW s \in PluginState, NEW who \in Instance
    PROVE  /\ Kept(s, onServerStarted(s, who)) /\ Kept(s, finish(s, who))
           /\ who = "cur" => Handled(onServerStarted(s, who)) /\ Handled(finish(s, who))
<1> DEFINE a == [s EXCEPT !.stopInProgress = FALSE]
           b == reconcileServerState(a, who)
           c == schedulePolling(b, who)
<1>1. Kept(s, a)
  BY FlagCleared
<1>2. a \in PluginState
  BY <1>1 DEF Kept
<1>3. onServerStarted(s, who) = c /\ finish(s, who) = b
  BY DEF onServerStarted, finish
<1> HIDE DEF a
<1>4. Kept(a, b) /\ (who = "cur" => Handled(b))
  BY <1>2, Reconciles
<1>5. b \in PluginState
  BY <1>4 DEF Kept
<1> HIDE DEF b
<1>6. Kept(b, c)
  BY <1>5, Polling
<1> HIDE DEF c
<1>7. Kept(s, b) /\ Kept(s, c)
  BY <1>1, <1>4, <1>6, KeptThenKept
<1>8. QED
  BY <1>3, <1>4, <1>6, <1>7 DEF Kept

\* onServerStartFailed and finalizeStopped run when no receiver lives.
LEMMA GoneSafe ==
    ASSUME NEW s \in PluginState, NEW who \in Instance, Sound(s), Live(s) = {}
    PROVE  /\ Safe(s, onServerStartFailed(s, who))
           /\ Safe(s, finalizeStopped(s, who))
           /\ Live(finalizeStopped(s, who)) = {}
           /\ finalizeStopped(s, who).firewall = FALSE
           /\ finalizeStopped(s, who).userStopped = s.userStopped
<1> DEFINE a == [s EXCEPT !.firewall = FALSE, !.stopInProgress = FALSE]
           b == [s EXCEPT !.pidFile = None, !.firewall = FALSE]
           x == onServerStartFailed(s, who)
           y == finalizeStopped(s, who)
<1>1. a \in PluginState /\ b \in PluginState
  <2>1. None \in Pid \cup {None}
    OBVIOUS
  <2>2. QED
    BY <2>1, StateShape
<1>2. /\ a.proc = s.proc /\ a.opId = s.opId /\ a.tasks = s.tasks
      /\ a.userStopped = s.userStopped /\ a.waitNet = s.waitNet
      /\ b.proc = s.proc /\ b.opId = s.opId /\ b.tasks = s.tasks
      /\ b.userStopped = s.userStopped /\ b.waitNet = s.waitNet
      /\ b.firewall = FALSE
  BY StateShape
<1>3. x = reconcileServerState(a, who) /\ y = finish(b, who)
  BY DEF onServerStartFailed, finalizeStopped
<1> HIDE DEF a, b, x, y
<1>4. Safe(s, a) /\ Safe(s, b) /\ Live(b) = {}
  BY <1>1, <1>2, DeadSound
<1>5. Kept(a, x)
  BY <1>1, <1>3, Reconciles
<1>6. Kept(b, y)
  BY <1>1, <1>3, StartedKept
<1>7. Live(y) = {} /\ y.firewall = FALSE /\ y.userStopped = s.userStopped
  BY <1>2, <1>4, <1>6, KeptSound DEF Kept, SameCore
<1>8. Safe(s, x) /\ Safe(s, y)
  BY <1>4, <1>5, <1>6, SafeThenKept
<1>9. QED
  BY <1>7, <1>8 DEF x, y

\* nextServerOpID makes every closure stale.
LEMMA NextOp ==
    ASSUME NEW s \in PluginState, Tracked(s), NEW n, n = nextServerOpID(s)
    PROVE  /\ n \in PluginState /\ Sound(n) /\ AllStale(n)
           /\ n.proc = s.proc /\ n.pidFile = s.pidFile /\ n.firewall = s.firewall
           /\ n.userStopped = s.userStopped /\ n.handlers = s.handlers /\ n.unseen = s.unseen
           /\ n.waitNet = s.waitNet /\ n.tasks = s.tasks
           /\ Running(n) = Running(s) /\ Live(n) = Live(s)
           /\ Safe(s, n)
<1>1. s.opId \in Nat /\ s.opId + 1 \in Nat
  BY DEF PluginState
<1> DEFINE m == s.opId + 1
<1>2. n = [s EXCEPT !.opId = m]
  BY DEF nextServerOpID
<1>3. m \in Nat
  BY <1>1
<1> HIDE DEF m
<1>4. n \in PluginState
  BY <1>2, <1>3, StateShape
<1>5. /\ n.proc = s.proc /\ n.pidFile = s.pidFile /\ n.firewall = s.firewall
      /\ n.userStopped = s.userStopped /\ n.handlers = s.handlers /\ n.unseen = s.unseen
      /\ n.waitNet = s.waitNet /\ n.tasks = s.tasks /\ n.opId = m
  BY <1>2, StateShape
<1>6. Running(n) = Running(s) /\ Live(n) = Live(s)
  BY <1>5 DEF Running, Live
<1>7. AllStale(n)
  <2>1. \A t \in s.tasks : t.op \in Nat
    BY DEF PluginState, Closure
  <2>2. QED
    BY <1>1, <1>5, <2>1 DEF AllStale, Tracked, m
<1>8. Sound(n)
  BY <1>4, <1>5, <1>6, <1>7, StaleSound DEF Tracked
<1>9. Safe(s, n)
  BY <1>4, <1>5, <1>6, <1>8 DEF Safe, Quiet, Handled
<1>10. QED
  BY <1>4, <1>5, <1>6, <1>7, <1>8, <1>9

\* The launch finds no receiver, and every closure stale: the receiver it starts
\* is the only one, and a launch that is not up yet waits for no other.
LEMMA LaunchSafe ==
    ASSUME NEW s \in PluginState, NEW who \in Instance, Sound(s), AllStale(s),
           ~Running(s), ~s.userStopped, NEW r \in LaunchOutcomes(s, who)
    PROVE  Safe(s, r)
<1> DEFINE open == [s EXCEPT !.firewall = TRUE]
           shut == [s EXCEPT !.firewall = FALSE]
           free == {p \in Pid : s.proc[p] = "free"}
           up(p) == [open EXCEPT !.proc[p] = "recv", !.pidFile = p, !.busy = FALSE,
                                 !.unseen = TRUE]
           task(p) == [kind |-> "ready", op |-> s.opId, pid |-> p,
                       left |-> ReadyPolls - 1, then |-> "none", who |-> who]
           dead(p) == [open EXCEPT !.pidFile = p, !.tasks = @ \cup {task(p)}]
<1>1. \/ \E p \in free : r = onServerStarted(up(p), who)
      \/ \E p \in free : r = dead(p)
      \/ r = reconcileServerState(shut, who)
  BY DEF LaunchOutcomes
<1>2. Live(s) = {}
  BY NoneLive DEF Sound
<1>3. s.proc \in Procs /\ s.opId \in Nat /\ s.tasks \in Tasks /\ s.userStopped \in BOOLEAN
  BY StateShape
<1>4. CASE r = reconcileServerState(shut, who)
  <2>1. shut \in PluginState
    BY StateShape
  <2>2. /\ shut.proc = s.proc /\ shut.opId = s.opId /\ shut.tasks = s.tasks
        /\ shut.userStopped = s.userStopped /\ shut.waitNet = s.waitNet
    BY StateShape
  <2> HIDE DEF shut
  <2>3. Safe(s, shut)
    BY <1>2, <2>1, <2>2, DeadSound
  <2>4. Kept(shut, r)
    BY <1>4, <2>1, Reconciles
  <2>5. QED
    BY <2>3, <2>4, SafeThenKept
<1>5. ASSUME NEW p \in free, r = onServerStarted(up(p), who)
      PROVE  Safe(s, r)
  <2> DEFINE q == [s.proc EXCEPT ![p] = "recv"]
             u == up(p)
  <2>1. q \in Procs /\ p \in Pid \cup {None} /\ p \in Pid
    BY <1>3, <1>5 DEF Procs, ProcessState, Receiver
  <2>2. u = [s EXCEPT !.firewall = TRUE, !.proc = q, !.pidFile = p, !.busy = FALSE,
                      !.unseen = TRUE]
    BY StateShape
  <2>3. q[p] = "recv" /\ \A x \in Pid : x # p => q[x] = s.proc[x]
    BY <1>3, <2>1 DEF Procs
  <2> HIDE DEF q
  <2>4. u \in PluginState
    BY <2>1, <2>2, StateShape
  <2>5. /\ u.proc = q /\ u.pidFile = p /\ u.firewall = TRUE /\ u.opId = s.opId
        /\ u.tasks = s.tasks /\ u.userStopped = s.userStopped /\ u.waitNet = s.waitNet
        /\ u.unseen = TRUE
    BY <2>2, StateShape
  <2>6. r = onServerStarted(u, who)
    BY <1>5
  <2> HIDE DEF u
  <2>7. Live(u) = {p}
    BY <1>2, <2>1, <2>3, <2>5 DEF Live, Receiver
  <2>8. Sound(u)
    <3>1. AllStale(u)
      BY <2>5 DEF AllStale
    <3>2. QED
      BY <2>4, <2>5, <2>7, <3>1, StaleSound
  <2>9. Kept(u, r)
    BY <2>4, <2>6, StartedKept
  <2>10. Sound(r)
    BY <2>8, <2>9, KeptSound
  <2>11. Handled(r)
    BY <2>5, <2>9 DEF Kept, Handled
  <2>12. r \in PluginState /\ r.userStopped = s.userStopped
    BY <2>5, <2>9 DEF Kept, SameCore
  <2>13. QED
    BY <2>9, <2>10, <2>11, <2>12 DEF Safe
<1>6. ASSUME NEW p \in free, r = dead(p)
      PROVE  Safe(s, r)
  <2> DEFINE t == task(p)
             ts == s.tasks \cup {t}
  <2>1. p \in Pid /\ p \in Pid \cup {None} /\ ReadyPolls - 1 \in Nat
    BY <1>6, PluginAssumption
  <2>2. t \in Closure
    BY <1>3, <2>1 DEF Closure
  <2>3. ts \in Tasks
    BY <1>3, <2>2 DEF Tasks
  <2>4. /\ t.kind = "ready" /\ t.op = s.opId /\ t.then = "none" /\ t.who = who
    OBVIOUS
  <2>5. r = [s EXCEPT !.firewall = TRUE, !.pidFile = p, !.tasks = ts]
    BY <1>6, StateShape
  <2> HIDE DEF t
  <2>6. r \in PluginState
    <3> HIDE DEF ts
    <3>1. QED
      BY <2>1, <2>3, <2>5, StateShape
  <2>7. /\ r.proc = s.proc /\ r.pidFile = p /\ r.firewall = TRUE /\ r.opId = s.opId
        /\ r.tasks = ts /\ r.userStopped = s.userStopped /\ r.waitNet = s.waitNet
    <3> HIDE DEF ts
    <3>1. QED
      BY <2>5, StateShape
  <2>8. Live(r) = {}
    BY <1>2, <2>7 DEF Live
  <2>9. ~Running(r)
    BY <2>6, <2>8 DEF Running, Live, PluginState
  <2>10. \A x \in ts : TaskSound(r, x)
    <3>1. ASSUME NEW x \in s.tasks PROVE TaskSound(r, x)
      <4>1. x.op < s.opId /\ x.op \in Nat
        BY DEF AllStale, PluginState, Closure
      <4>2. QED
        BY <1>3, <2>7, <4>1 DEF TaskSound
    <3>2. TaskSound(r, t)
      BY <1>3, <2>4, <2>7, <2>8 DEF TaskSound
    <3>3. QED
      BY <3>1, <3>2
  <2>11. Sound(r)
    BY <2>7, <2>8, <2>10 DEF Sound
  <2>12. QED
    BY <2>6, <2>7, <2>9, <2>11 DEF Safe, Handled
<1>7. QED
  BY <1>1, <1>4, <1>5, <1>6

\* start, when the user has not stopped the server: refused while a stop runs,
\* an adoption of a running receiver, or a launch.
LEMMA StartSafe ==
    ASSUME NEW s \in PluginState, NEW who \in Instance, Sound(s), ~s.userStopped,
           NEW silent \in BOOLEAN, NEW r \in start(s, silent, who)
    PROVE  Safe(s, r)
<1> DEFINE n == nextServerOpID(s)
           c == [n EXCEPT !.busy = FALSE, !.hold = FALSE]
           l == IF silent THEN n ELSE c
<1>1. CASE s.stopInProgress
  BY <1>1, SafeRefl DEF start
<1>2. Tracked(s)
  BY SoundTracked
<1>3. /\ n \in PluginState /\ Sound(n) /\ AllStale(n) /\ Safe(s, n)
      /\ n.userStopped = s.userStopped
  BY <1>2, NextOp
<1>4. ASSUME ~s.stopInProgress, Running(n)
      PROVE  Safe(s, r)
  <2> DEFINE m == reconcileServerState(n, who)
  <2>1. r = schedulePolling(m, who)
    BY <1>4 DEF start
  <2> HIDE DEF n
  <2>2. Kept(n, m)
    BY <1>3, Reconciles
  <2>3. m \in PluginState
    BY <2>2 DEF Kept
  <2> HIDE DEF m
  <2>4. Kept(m, r)
    BY <2>1, <2>3, Polling
  <2>5. QED
    BY <1>3, <2>2, <2>4, KeptThenKept, SafeThenKept
<1>5. ASSUME ~s.stopInProgress, ~Running(n)
      PROVE  Safe(s, r)
  <2>1. r = n \/ r \in LaunchOutcomes(l, who)
    BY <1>5 DEF start
  <2> HIDE DEF n
  <2>2. Kept(n, c)
    <3>1. c \in PluginState
      BY <1>3, StateShape
    <3>2. SameCore(n, c) /\ c.handlers = n.handlers /\ c.unseen = n.unseen
      BY <1>3, StateShape DEF SameCore
    <3> HIDE DEF c
    <3>3. Running(c) = Running(n)
      BY <3>2 DEF SameCore, Running
    <3>4. QED
      BY <3>1, <3>2, <3>3 DEF Kept, Handled
  <2> HIDE DEF c
  <2>3. Kept(n, l)
    <3>1. Kept(n, n)
      BY <1>3 DEF Kept, SameCore
    <3>2. QED
      BY <2>2, <3>1
  <2> HIDE DEF l
  <2>4. Safe(s, l)
    BY <1>3, <2>3, SafeThenKept
  <2>5. l \in PluginState /\ Sound(l) /\ AllStale(l) /\ ~Running(l) /\ ~l.userStopped
    BY <1>3, <1>5, <2>3, <2>4, KeptSound DEF Kept, SameCore, AllStale, Safe
  <2>6. ASSUME r \in LaunchOutcomes(l, who) PROVE Safe(s, r)
    <3>1. Safe(l, r)
      BY <2>5, <2>6, LaunchSafe
    <3>2. QED
      BY <2>4, <3>1, SafeThenSafe
  <2>7. QED
    BY <1>3, <2>1, <2>6
<1>6. QED
  BY <1>1, <1>4, <1>5

\* The callback of a stop: nothing, or a start the user wants.
LEMMA CallbackSafe ==
    ASSUME NEW s \in PluginState, NEW who \in Instance, Sound(s), NEW then,
           then = "start" => ~s.userStopped, NEW r \in Callback(s, then, who)
    PROVE  Safe(s, r)
<1>1. CASE then = "start"
  BY <1>1, StartSafe DEF Callback
<1>2. CASE then # "start"
  BY <1>2, SafeRefl DEF Callback
<1>3. QED
  BY <1>1, <1>2

\* A stop begins by making every closure stale.
LEMMA StopBeginsSafe ==
    ASSUME NEW s \in PluginState, NEW who \in Instance, Tracked(s),
           NEW n, n = StopBegins(s, who)
    PROVE  /\ n \in PluginState /\ Sound(n) /\ AllStale(n) /\ Safe(s, n)
           /\ n.proc = s.proc /\ n.pidFile = s.pidFile /\ n.firewall = s.firewall
           /\ n.userStopped = s.userStopped
<1> DEFINE a == nextServerOpID(s)
           b == unschedulePolling(a, who)
           c == [b EXCEPT !.stopInProgress = TRUE]
<1>1. n = reconcileServerState(c, who)
  BY DEF StopBegins
<1>2. /\ a \in PluginState /\ Sound(a) /\ AllStale(a) /\ Safe(s, a)
      /\ a.proc = s.proc /\ a.pidFile = s.pidFile /\ a.firewall = s.firewall
      /\ a.userStopped = s.userStopped
  BY NextOp
<1> HIDE DEF a
<1>3. Kept(a, b)
  BY <1>2, Polling
<1>4. b \in PluginState
  BY <1>3 DEF Kept
<1> HIDE DEF b
<1>5. Kept(b, c)
  BY <1>4, FlagCleared
<1>6. c \in PluginState
  BY <1>5 DEF Kept
<1> HIDE DEF c
<1>7. Kept(c, n)
  BY <1>1, <1>6, Reconciles
<1>8. Kept(a, n)
  BY <1>3, <1>5, <1>7, KeptThenKept
<1>9. Safe(s, n)
  BY <1>2, <1>8, SafeThenKept
<1>10. QED
  BY <1>2, <1>8, <1>9 DEF Kept, SameCore, AllStale, Safe

\* From n to r the receiver of the PID file is signalled: nothing else moves but
\* the closures.
LEMMA SignalSound ==
    ASSUME NEW n \in PluginState, Sound(n), AllStale(n), Running(n),
           NEW x \in {"free", "term", "kill"},
           NEW q, q = [n.proc EXCEPT ![n.pidFile] = x],
           NEW r, r = [n EXCEPT !.proc = q]
    PROVE  /\ r \in PluginState /\ Sound(r) /\ AllStale(r)
           /\ Safe(n, r)
           /\ Stopped(r) \/ x = "term"
           /\ x = "free" => Live(r) = {}
           /\ r.pidFile = n.pidFile /\ n.pidFile \in Pid
           /\ r.userStopped = n.userStopped /\ r.firewall = n.firewall
           /\ r.tasks = n.tasks /\ r.opId = n.opId
<1>1. n.proc \in Procs /\ n.pidFile \in Pid
  BY StateShape DEF Running
<1>2. q \in Procs
  BY <1>1 DEF Procs, ProcessState, Receiver
<1>3. r \in PluginState
  BY <1>2, StateShape
<1>4. /\ r.proc = q /\ r.pidFile = n.pidFile /\ r.firewall = n.firewall
      /\ r.userStopped = n.userStopped /\ r.tasks = n.tasks /\ r.opId = n.opId
      /\ r.handlers = n.handlers /\ r.unseen = n.unseen /\ r.waitNet = n.waitNet
  BY StateShape
<1>5. q[n.pidFile] = x /\ \A p \in Pid : p # n.pidFile => q[p] = n.proc[p]
  BY <1>1 DEF Procs
<1>6. \A p \in Pid : p # n.pidFile => n.proc[p] \notin Receiver
  BY DEF Sound, Live
<1>7. Live(r) \subseteq {n.pidFile} /\ (x = "free" => Live(r) = {})
  BY <1>4, <1>5, <1>6 DEF Live, Receiver
<1>8. \A p \in Pid : q[p] # "recv" /\ (q[p] = "term" => x = "term")
  BY <1>5, <1>6 DEF Receiver
<1>9. AllStale(r)
  BY <1>4 DEF AllStale
<1>10. Sound(r)
  BY <1>3, <1>4, <1>7, <1>8, <1>9, StaleSound, ZenonT(30)
<1>11. Handled(n) => Handled(r)
  BY <1>4 DEF Handled
<1>12. Safe(n, r)
  BY <1>3, <1>4, <1>8, <1>10, <1>11 DEF Safe, Quiet
<1>13. Stopped(r) \/ x = "term"
  BY <1>4, <1>8 DEF Stopped
<1>14. QED
  BY <1>1, <1>3, <1>4, <1>7, <1>9, <1>10, <1>12, <1>13

\* stopServer: nothing runs and the stop is complete, or the receiver is sent
\* SIGTERM and a closure of this operation waits for it.
LEMMA StopSafe ==
    ASSUME NEW s \in PluginState, NEW who \in Instance, Tracked(s),
           NEW then \in {"none", "start"}, then = "start" => ~s.userStopped,
           NEW r \in stopServer(s, then, who)
    PROVE  Safe(s, r)
<1> DEFINE n == StopBegins(s, who)
<1>1. /\ n \in PluginState /\ Sound(n) /\ AllStale(n) /\ Safe(s, n)
      /\ n.userStopped = s.userStopped
  BY StopBeginsSafe
<1>2. ASSUME ~Running(n) PROVE Safe(s, r)
  <2> DEFINE m == finalizeStopped(n, who)
  <2>1. r \in Callback(m, then, who)
    BY <1>2 DEF stopServer
  <2> HIDE DEF n
  <2>2. Live(n) = {}
    BY <1>1, <1>2, NoneLive DEF Sound
  <2>3. Safe(n, m) /\ m.userStopped = n.userStopped
    BY <1>1, <2>2, GoneSafe
  <2> HIDE DEF m
  <2>4. Safe(m, r)
    BY <1>1, <2>1, <2>3, CallbackSafe DEF Safe
  <2>5. QED
    BY <1>1, <2>3, <2>4, SafeThenSafe
<1>3. ASSUME Running(n) PROVE Safe(s, r)
  <2> DEFINE x == IF n.proc[n.pidFile] = "recv" THEN "term" ELSE n.proc[n.pidFile]
             q == [n.proc EXCEPT ![n.pidFile] = x]
             m == [n EXCEPT !.proc = q]
             t == [kind |-> "exit", op |-> n.opId, pid |-> n.pidFile,
                   left |-> StopPolls - 1, then |-> then, who |-> who]
             ts == n.tasks \cup {t}
  <2>1. r = [n EXCEPT !.proc[n.pidFile] = IF @ = "recv" THEN "term" ELSE @,
                      !.tasks = @ \cup {t}]
    BY <1>3 DEF stopServer
  <2> HIDE DEF n
  <2>2. n.proc \in Procs /\ n.pidFile \in Pid /\ n.opId \in Nat /\ n.tasks \in Tasks
    BY <1>1, <1>3, StateShape DEF Running
  <2>3. r = [m EXCEPT !.tasks = ts]
    BY <2>1, <1>1, StateShape
  <2>4. x \in {"free", "term", "kill"}
    BY <1>3 DEF Running, Receiver
  <2>5. /\ m \in PluginState /\ Sound(m) /\ AllStale(m) /\ Safe(n, m)
        /\ m.pidFile = n.pidFile /\ m.userStopped = n.userStopped
        /\ m.tasks = n.tasks /\ m.opId = n.opId
    <3> HIDE DEF x
    <3>1. q = [n.proc EXCEPT ![n.pidFile] = x] /\ m = [n EXCEPT !.proc = q]
      OBVIOUS
    <3> HIDE DEF q, m
    <3>2. QED
      BY <1>1, <1>3, <2>4, <3>1, SignalSound
  <2>6. t \in Closure
    <3>1. StopPolls - 1 \in Nat
      BY PluginAssumption
    <3>2. QED
      BY <2>2, <3>1 DEF Closure
  <2>7. ts \in Tasks
    BY <2>2, <2>6 DEF Tasks
  <2>8. t.kind = "exit" /\ t.op = n.opId /\ t.pid = n.pidFile /\ t.then = then /\ t.who = who
    OBVIOUS
  <2>9. ts = n.tasks \cup {t}
    OBVIOUS
  <2> HIDE DEF m, t, ts
  <2>10. r \in PluginState
    BY <2>3, <2>5, <2>7, StateShape
  <2>11. /\ r.proc = m.proc /\ r.pidFile = m.pidFile /\ r.firewall = m.firewall
         /\ r.opId = m.opId /\ r.tasks = ts /\ r.userStopped = m.userStopped
         /\ r.waitNet = m.waitNet /\ r.handlers = m.handlers /\ r.unseen = m.unseen
    BY <2>3, <2>5, StateShape
  <2>12. Live(r) = Live(m) /\ Running(r) = Running(m)
    BY <2>11 DEF Live, Running
  <2>13. \A y \in ts : TaskSound(r, y)
    <3>1. ASSUME NEW y \in n.tasks PROVE TaskSound(r, y)
      <4>1. y.op < n.opId /\ y.op \in Nat
        BY <1>1 DEF AllStale, PluginState, Closure
      <4>2. QED
        BY <2>2, <2>5, <2>11, <4>1 DEF TaskSound
    <3>2. TaskSound(r, t)
      <4>1. Live(r) \subseteq {t.pid}
        BY <2>5, <2>8, <2>12 DEF Sound
      <4>2. t.then = "start" => ~r.userStopped
        BY <1>1, <2>5, <2>8, <2>11
      <4>3. QED
        BY <2>2, <2>5, <2>8, <2>11, <4>1, <4>2 DEF TaskSound
    <3>3. QED
      BY <2>9, <3>1, <3>2
  <2>14. Sound(r)
    BY <2>5, <2>11, <2>12, <2>13 DEF Sound
  <2>15. Safe(m, r)
    BY <2>10, <2>11, <2>12, <2>14 DEF Safe, Quiet, Handled
  <2>16. QED
    BY <1>1, <2>5, <2>15, SafeThenSafe
<1>4. QED
  BY <1>2, <1>3

\* stopServerSync returns with the receiver gone, or sent SIGKILL and outliving
\* it; then the PID file still names it.
LEMMA StopSyncSafe ==
    ASSUME NEW s \in PluginState, NEW who \in Instance, Tracked(s),
           NEW r \in stopServerSync(s, who)
    PROVE  Safe(s, r) /\ Stopped(r) /\ (r.pidFile = None => ~r.firewall)
<1> DEFINE n == StopBegins(s, who)
<1>1. /\ n \in PluginState /\ Sound(n) /\ AllStale(n) /\ Safe(s, n)
  BY StopBeginsSafe
<1>2. ASSUME NEW m \in PluginState, Safe(s, m), Live(m) = {},
             r = finalizeStopped(m, who)
      PROVE  Safe(s, r) /\ Stopped(r) /\ (r.pidFile = None => ~r.firewall)
  <2>1. Safe(m, r) /\ Live(r) = {} /\ r.firewall = FALSE
    BY <1>2, GoneSafe DEF Safe
  <2>2. Stopped(r)
    BY <2>1 DEF Stopped, Live, Receiver
  <2>3. QED
    BY <1>2, <2>1, <2>2, SafeThenSafe
<1>3. CASE ~Running(n)
  <2>1. r = finalizeStopped(n, who)
    BY <1>3 DEF stopServerSync
  <2> HIDE DEF n
  <2>2. Live(n) = {}
    BY <1>1, <1>3, NoneLive DEF Sound
  <2>3. QED
    BY <1>1, <1>2, <2>1, <2>2
<1>4. CASE Running(n)
  <2> DEFINE qf == [n.proc EXCEPT ![n.pidFile] = "free"]
             qk == [n.proc EXCEPT ![n.pidFile] = "kill"]
             f == [n EXCEPT !.proc = qf]
             g == [n EXCEPT !.proc = qk]
  <2>1. r = finalizeStopped(f, who) \/ r = finish(g, who)
    BY <1>4 DEF stopServerSync
  <2> HIDE DEF n
  <2>2. /\ qf = [n.proc EXCEPT ![n.pidFile] = "free"] /\ f = [n EXCEPT !.proc = qf]
        /\ qk = [n.proc EXCEPT ![n.pidFile] = "kill"] /\ g = [n EXCEPT !.proc = qk]
    OBVIOUS
  <2> HIDE DEF qf, qk, f, g
  <2>3. f \in PluginState /\ Live(f) = {} /\ Safe(n, f)
    BY <1>1, <1>4, <2>2, SignalSound
  <2>4. g \in PluginState /\ Stopped(g) /\ Safe(n, g) /\ g.pidFile \in Pid
    BY <1>1, <1>4, <2>2, SignalSound
  <2>5. CASE r = finalizeStopped(f, who)
    BY <1>1, <1>2, <2>3, <2>5, SafeThenSafe
  <2>6. CASE r = finish(g, who)
    <3>1. Kept(g, r)
      BY <2>4, <2>6, StartedKept
    <3>2. Stopped(r) /\ r.pidFile # None
      BY <2>4, <3>1, KeptSound, PluginAssumption DEF Kept, SameCore
    <3>3. Safe(s, g)
      BY <1>1, <2>4, SafeThenSafe
    <3>4. QED
      BY <3>1, <3>2, <3>3, SafeThenKept
  <2>7. QED
    BY <2>1, <2>5, <2>6
<1>5. QED
  BY <1>3, <1>4

\* cleanupOrphanedResources cleans up after a receiver that is gone.
LEMMA CleanupSafe ==
    ASSUME NEW s \in PluginState, Sound(s),
           NEW r, r = cleanupOrphanedResources(s)
    PROVE  Safe(s, r) /\ r.userStopped = s.userStopped
<1>1. CASE Orphan(s)
  <2>1. r = [s EXCEPT !.pidFile = None, !.firewall = FALSE]
    BY <1>1 DEF cleanupOrphanedResources
  <2>2. None \in Pid \cup {None}
    OBVIOUS
  <2>3. r \in PluginState
    BY <2>1, <2>2, StateShape
  <2>4. /\ r.proc = s.proc /\ r.opId = s.opId /\ r.tasks = s.tasks
        /\ r.userStopped = s.userStopped /\ r.waitNet = s.waitNet
    BY <2>1, StateShape
  <2>5. Live(s) = {}
    BY <1>1, NoneLive DEF Orphan, Sound
  <2>6. QED
    BY <2>3, <2>4, <2>5, DeadSound
<1>2. CASE ~Orphan(s)
  BY <1>2, SafeRefl DEF cleanupOrphanedResources
<1>3. QED
  BY <1>1, <1>2

-----------------------------------------------------------------------------
(* The functions of main.lua *)

\* _restartWhenReady starts only what the user has not stopped.
LEMMA RestartSafe ==
    ASSUME NEW s \in PluginState, Sound(s), NEW connected \in BOOLEAN,
           NEW r \in restartWhenReady(s, connected)
    PROVE  Safe(s, r)
<1>1. CASE ~MayRestart(s) \/ ~connected
  BY <1>1, SafeRefl DEF restartWhenReady
<1>2. ASSUME MayRestart(s), connected, s.stopInProgress
      PROVE  Safe(s, r)
  <2>1. r = [s EXCEPT !.resume = TRUE]
    BY <1>2 DEF restartWhenReady
  <2>2. r \in PluginState
    BY <2>1, StateShape
  <2>3. SameCore(s, r) /\ r.handlers = s.handlers /\ r.unseen = s.unseen
    BY <2>1, StateShape DEF SameCore
  <2>4. Kept(s, r)
    BY <2>2, <2>3 DEF Kept, SameCore, Handled, Running
  <2>5. QED
    BY <2>4, KeptSafe
<1>3. ASSUME MayRestart(s), connected, ~s.stopInProgress
      PROVE  Safe(s, r)
  <2> DEFINE m == [s EXCEPT !.beforeSuspend = FALSE, !.beforeDisconnect = FALSE]
  <2>1. r \in start(m, TRUE, "cur")
    BY <1>3 DEF restartWhenReady
  <2>2. m \in PluginState
    BY StateShape
  <2>3. SameCore(s, m) /\ m.handlers = s.handlers /\ m.unseen = s.unseen
    BY StateShape DEF SameCore
  <2> HIDE DEF m
  <2>4. Kept(s, m)
    BY <2>2, <2>3 DEF Kept, SameCore, Handled, Running
  <2>5. Safe(s, m) /\ ~m.userStopped
    BY <1>3, <2>3, <2>4, KeptSafe DEF SameCore, MayRestart
  <2>6. Safe(m, r)
    BY <2>1, <2>2, <2>5, StartSafe DEF Safe, Instance
  <2>7. QED
    BY <2>5, <2>6, SafeThenSafe
<1>4. QED
  BY <1>1, <1>2, <1>3

\* init of a widget resumes or autostarts what the user has not stopped, and
\* registers the handlers.
LEMMA InitSafe ==
    ASSUME NEW s \in PluginState, Sound(s), NEW connected \in BOOLEAN,
           NEW r \in init(s, connected)
    PROVE  Safe(s, r) /\ Handled(r)
<1> DEFINE c == cleanupOrphanedResources(s)
           begun == IF c.beforeSuspend /\ ~c.userStopped THEN restartWhenReady(c, connected)
                    ELSE IF Autostart /\ ~c.userStopped /\ connected THEN start(c, TRUE, "cur")
                    ELSE {c}
           polled(x) == IF Running(x) THEN schedulePolling(x, "cur") ELSE x
<1>1. \E x \in begun : r = registerEvents(polled(x), "cur")
  BY DEF init
<1>2. PICK x \in begun : r = registerEvents(polled(x), "cur")
  BY <1>1
<1>3. Safe(s, c)
  BY CleanupSafe
<1> HIDE DEF c
<1>4. c \in PluginState /\ Sound(c)
  BY <1>3 DEF Safe
<1>5. Safe(c, x)
  <2>1. CASE x \in restartWhenReady(c, connected)
    BY <1>4, <2>1, RestartSafe
  <2>2. CASE ~c.userStopped /\ x \in start(c, TRUE, "cur")
    BY <1>4, <2>2, StartSafe DEF Instance
  <2>3. CASE x = c
    BY <1>4, <2>3, SafeRefl
  <2>4. QED
    BY <2>1, <2>2, <2>3
<1> HIDE DEF begun
<1>6. Safe(s, x) /\ x \in PluginState
  BY <1>3, <1>5, SafeThenSafe DEF Safe
<1> DEFINE y == polled(x)
<1>7. Kept(x, y) /\ r = registerEvents(y, "cur")
  <2>1. Kept(x, x)
    BY <1>6 DEF Kept, SameCore
  <2>2. Kept(x, schedulePolling(x, "cur"))
    BY <1>6, Polling DEF Instance
  <2>3. QED
    BY <1>2, <2>1, <2>2
<1> HIDE DEF y
<1>8. Kept(y, r) /\ Handled(r)
  BY <1>7, Registers DEF Kept, Instance
<1>9. QED
  BY <1>6, <1>7, <1>8, KeptThenKept, SafeThenKept

\* A KOReader session begins with fresh Lua state and the old files and processes.
LEMMA FreshSound ==
    ASSUME NEW s \in PluginState, Tracked(s), NEW r, r = Fresh(s)
    PROVE  /\ r \in PluginState /\ Sound(r)
           /\ r.proc = s.proc /\ r.pidFile = s.pidFile /\ r.firewall = s.firewall
           /\ r.userStopped = FALSE /\ Quiet(s, r)
<1>1. /\ s.proc \in Procs /\ s.pidFile \in Pid \cup {None}
      /\ s.firewall \in BOOLEAN /\ s.busy \in BOOLEAN
  BY StateShape
<1>2. {} \in Whos /\ {} \in Tasks /\ 0 \in Nat
  BY DEF Whos, Tasks
<1>3. r \in PluginState
  BY <1>1, <1>2, StateShape DEF Fresh
<1>4. /\ r.proc = s.proc /\ r.pidFile = s.pidFile /\ r.firewall = s.firewall
      /\ r.userStopped = FALSE /\ r.tasks = {} /\ r.waitNet = {}
  BY DEF Fresh
<1>5. Live(r) = Live(s)
  BY <1>4 DEF Live
<1>6. QED
  BY <1>3, <1>4, <1>5 DEF Sound, Tracked, Quiet

-----------------------------------------------------------------------------
(* Steps of the plugin *)

\* A step from a to r.
Moves(a, r) ==
    /\ r \in PluginState /\ Sound(r)
    /\ r.userStopped => Quiet(a, r)
    /\ Handled(a) => Handled(r)

Good == IndInv' /\ ~StartsDespiteUser

LEMMA EditedMoves ==
    ASSUME NEW a, NEW s, NEW r, Edited(a, s), Safe(s, r)
    PROVE  Moves(a, r)
<1>1. Handled(a) => Handled(s)
  BY EditedSound
<1>2. r.userStopped => Quiet(a, r)
  BY DEF Safe, Quiet, Edited
<1>3. QED
  BY <1>1, <1>2 DEF Moves, Safe

LEMMA EditMoves ==
    ASSUME NEW a, NEW r, Edited(a, r), Sound(a), r.userStopped => a.userStopped
    PROVE  Moves(a, r)
<1>1. Sound(r) /\ r \in PluginState
  BY EditedSound DEF Edited
<1>2. Safe(r, r)
  BY <1>1, SafeRefl
<1>3. QED
  BY <1>2, EditedMoves

LEMMA SafeMoves ==
    ASSUME NEW a, NEW r, Safe(a, r)
    PROVE  Moves(a, r)
  BY DEF Safe, Moves

\* KOReader stays up.
LEMMA OpenStep ==
    ASSUME IndInv, app # "down", app' \in {"open", "closed"}, UNCHANGED <<runs, exited>>,
           net' \in BOOLEAN, asleep' \in BOOLEAN, asleep' => app' = "open",
           k' \in PluginState, Sound(k'), k'.userStopped => Quiet(k, k'),
           asleep' => Stopped(k') \/ k'.unseen,
           app' = "open" => Handled(k')

    PROVE  Good
<1>1. TypeOK'
  BY DEF IndInv, TypeOK
<1>2. exited = FALSE
  BY DEF IndInv, TypeOK
<1>3. TeardownComplete' /\ (exited' => app' = "down")
  BY <1>2 DEF TeardownComplete
<1>4. SleepInv'
  BY DEF SleepInv
<1>5. ~StartsDespiteUser
  BY DEF StartsDespiteUser, Quiet
<1>6. QED
  BY <1>1, <1>3, <1>4, <1>5 DEF Good, IndInv

\* The same while the device is awake.
LEMMA AwakeStep ==
    ASSUME IndInv, app # "down", UNCHANGED <<app, runs, exited>>,
           net' \in BOOLEAN, asleep' = FALSE,
           Moves(k, k')
    PROVE  Good
<1>1. app' \in {"open", "closed"}
  BY DEF IndInv, TypeOK
<1>2. app' = "open" => Handled(k')
  BY DEF IndInv, SleepInv, Moves
<1>3. QED
  BY <1>1, <1>2, OpenStep DEF Moves

\* t and u belong to the same operation, process and plugin object.
SameJob(t, u) ==
    /\ u.op = t.op /\ u.pid = t.pid /\ u.then = t.then /\ u.who = t.who
    /\ u.kind = "ready" <=> t.kind = "ready"

\* A closure replaced by another of the same job.
LEMMA ReplaceSafe ==
    ASSUME NEW s \in PluginState, Sound(s), NEW t \in s.tasks, NEW u \in Closure,
           SameJob(t, u), NEW ts, ts = (s.tasks \ {t}) \cup {u},
           NEW r, r = [s EXCEPT !.tasks = ts]
    PROVE  Safe(s, r)
<1>1. ts \in Tasks
  BY DEF PluginState, Tasks
<1>2. r \in PluginState
  BY <1>1, StateShape
<1>3. /\ r.proc = s.proc /\ r.pidFile = s.pidFile /\ r.firewall = s.firewall
      /\ r.opId = s.opId /\ r.tasks = ts /\ r.userStopped = s.userStopped
      /\ r.waitNet = s.waitNet /\ r.handlers = s.handlers /\ r.unseen = s.unseen
  BY StateShape
<1>4. Live(r) = Live(s) /\ Running(r) = Running(s)
  BY <1>3 DEF Live, Running
<1>5. \A y \in s.tasks : TaskSound(r, y)
  BY <1>3, <1>4 DEF Sound, TaskSound
<1>6. TaskSound(r, u)
  BY <1>5 DEF TaskSound, SameJob
<1>7. Sound(r)
  BY <1>3, <1>4, <1>5, <1>6 DEF Sound
<1>8. QED
  BY <1>2, <1>3, <1>4, <1>7 DEF Safe, Quiet, Handled

\* Process p may become x without a receiver appearing: it dies, is killed, or the
\* pid goes to another program.
Fades(s, p, x) ==
    /\ x \in {"free", "other", "kill"}
    /\ x = "kill" => s.proc[p] \in Receiver

LEMMA DownSafe ==
    ASSUME NEW s \in PluginState, Sound(s), NEW p \in Pid, NEW x, Fades(s, p, x),
           NEW q, q = [s.proc EXCEPT ![p] = x],
           NEW r, r = [s EXCEPT !.proc = q]
    PROVE  /\ Safe(s, r)
           /\ Stopped(s) => Stopped(r)
           /\ r.pidFile = s.pidFile /\ r.firewall = s.firewall /\ r.unseen = s.unseen
<1>1. s.proc \in Procs
  BY StateShape
<1>2. q \in Procs
  BY <1>1 DEF Procs, ProcessState, Receiver, Fades
<1>3. q[p] = x /\ \A y \in Pid : y # p => q[y] = s.proc[y]
  BY <1>1 DEF Procs
<1>4. r \in PluginState
  BY <1>2, StateShape
<1>5. /\ r.proc = q /\ r.pidFile = s.pidFile /\ r.firewall = s.firewall
      /\ r.opId = s.opId /\ r.tasks = s.tasks /\ r.userStopped = s.userStopped
      /\ r.waitNet = s.waitNet /\ r.handlers = s.handlers /\ r.unseen = s.unseen
  BY StateShape
<1>6. Live(r) \subseteq Live(s)
  BY <1>3, <1>5 DEF Live, Receiver, Fades
<1>7. \A y \in Pid : r.proc[y] \in {"recv", "term"} => r.proc[y] = s.proc[y]
  BY <1>3, <1>5 DEF Fades
<1>8. \A y \in s.tasks : TaskSound(r, y)
  BY <1>5, <1>6 DEF Sound, TaskSound
<1>9. Sound(r)
  BY <1>5, <1>6, <1>7, <1>8 DEF Sound
<1>10. Running(r) => Running(s)
  BY <1>4, <1>5, <1>6 DEF Running, Live, PluginState
<1>11. QED
  BY <1>4, <1>5, <1>7, <1>9, <1>10 DEF Safe, Quiet, Handled, Stopped

-----------------------------------------------------------------------------
(* The user's actions and the closures *)

\* What the invariant says of the plugin state.
LEMMA StateFacts ==
    ASSUME IndInv
    PROVE  /\ k \in PluginState /\ Sound(k) /\ Tracked(k)
           /\ net \in BOOLEAN /\ asleep \in BOOLEAN
           /\ k.tasks \in Tasks /\ k.waitNet \in Whos /\ k.poll \in Whos
           /\ k.proc \in Procs /\ "cur" \in Instance
  BY SoundTracked, StateShape DEF IndInv, TypeOK, Instance

LEMMA ToggleStep ==
    ASSUME IndInv, Toggle
    PROVE  Good
<1> DEFINE off == [k EXCEPT !.userStopped = TRUE]
           on == [k EXCEPT !.userStopped = FALSE]
           w == k.waitNet \cup {"cur"}
           wait == [on EXCEPT !.waitNet = w]
<1>0. /\ k \in PluginState /\ Sound(k) /\ Tracked(k) /\ net \in BOOLEAN
      /\ k.waitNet \in Whos /\ "cur" \in Instance
  BY StateFacts
<1>1. w \in Whos
  BY <1>0 DEF Whos
<1>2. Edited(k, off)
  <2>1. off \in PluginState
    BY <1>0, StateShape
  <2>2. QED
    BY <1>0, <2>1, StateShape DEF Edited
<1>3. Edited(k, on) /\ on.userStopped = FALSE
  <2>1. on \in PluginState
    BY <1>0, StateShape
  <2>2. QED
    BY <1>0, <2>1, StateShape DEF Edited
<1>4. Edited(k, wait) /\ wait.userStopped = FALSE
  <2>1. wait \in PluginState
    <3> HIDE DEF w
    <3>1. QED
      BY <1>0, <1>1, StateShape
  <2>2. QED
    BY <1>0, <2>1, StateShape DEF Edited
<1>5. \/ \E r \in stopServer(off, "none", "cur") : k' = r
      \/ \E r \in start(on, FALSE, "cur") : k' = r
      \/ k' = wait
  BY DEF Toggle
<1>6. /\ app # "down" /\ UNCHANGED <<app, runs, exited>> /\ net' \in BOOLEAN
      /\ asleep' = FALSE
  BY <1>0, StateFacts DEF Toggle, Awake, world
<1> HIDE DEF off, on, wait
<1>7. Moves(k, k')
  <2>1. CASE \E r \in stopServer(off, "none", "cur") : k' = r
    <3>1. off \in PluginState /\ Tracked(off)
      BY <1>0, <1>2, EditedSound DEF Edited
    <3>2. Safe(off, k')
      BY <1>0, <2>1, <3>1, StopSafe
    <3>3. QED
      BY <1>2, <3>2, EditedMoves
  <2>2. CASE \E r \in start(on, FALSE, "cur") : k' = r
    <3>1. on \in PluginState /\ Sound(on)
      BY <1>0, <1>3, EditedSound DEF Edited
    <3>2. Safe(on, k')
      BY <1>0, <1>3, <2>2, <3>1, StartSafe
    <3>3. QED
      BY <1>3, <3>2, EditedMoves
  <2>3. CASE k' = wait
    BY <1>0, <1>4, <2>3, EditMoves
  <2>4. QED
    BY <1>5, <2>1, <2>2, <2>3
<1>8. QED
  BY <1>6, <1>7, AwakeStep

LEMMA RestartStep ==
    ASSUME IndInv, Restart
    PROVE  Good
<1> DEFINE on == [k EXCEPT !.userStopped = FALSE]
<1>0. k \in PluginState /\ Sound(k) /\ Tracked(k) /\ net \in BOOLEAN /\ "cur" \in Instance
  BY StateFacts
<1>1. Edited(k, on) /\ on.userStopped = FALSE
  <2>1. on \in PluginState
    BY <1>0, StateShape
  <2>2. QED
    BY <1>0, <2>1, StateShape DEF Edited
<1>2. \/ \E r \in stopServer(on, "start", "cur") : k' = r
      \/ \E r \in start(on, FALSE, "cur") : k' = r
  BY DEF Restart
<1>3. /\ app # "down" /\ UNCHANGED <<app, runs, exited>> /\ net' \in BOOLEAN
      /\ asleep' = FALSE
  BY <1>0, StateFacts DEF Restart, Awake, world
<1> HIDE DEF on
<1>4. on \in PluginState /\ Sound(on) /\ Tracked(on)
  BY <1>0, <1>1, EditedSound DEF Edited
<1>5. Safe(on, k')
  BY <1>0, <1>1, <1>2, <1>4, StopSafe, StartSafe
<1>6. QED
  BY <1>1, <1>3, <1>5, EditedMoves, AwakeStep

LEMMA RunWhenConnectedStep ==
    ASSUME IndInv, NEW who \in Instance, RunWhenConnected(who)
    PROVE  Good
<1> DEFINE w == k.waitNet \ {who}
           s == [k EXCEPT !.waitNet = w]
<1>0. k \in PluginState /\ Sound(k) /\ net \in BOOLEAN /\ k.waitNet \in Whos
  BY StateFacts
<1>1. Edited(k, s) /\ s.userStopped = k.userStopped
  <2>1. w \in Whos /\ w \subseteq k.waitNet
    BY <1>0 DEF Whos
  <2> HIDE DEF w
  <2>2. s \in PluginState
    BY <1>0, <2>1, StateShape
  <2>3. QED
    BY <1>0, <2>1, <2>2, StateShape DEF Edited
<1>2. k' = s \/ (~s.userStopped /\ \E r \in start(s, FALSE, who) : k' = r)
  BY DEF RunWhenConnected, StartWanted
<1>3. /\ app # "down" /\ UNCHANGED <<app, runs, exited>> /\ net' \in BOOLEAN
      /\ asleep' = FALSE
  BY <1>0, StateFacts DEF RunWhenConnected, Awake, world
<1> HIDE DEF s
<1>4. s \in PluginState /\ Sound(s)
  BY <1>0, <1>1, EditedSound DEF Edited
<1>5. Safe(s, k')
  BY <1>2, <1>4, StartSafe, SafeRefl
<1>6. QED
  BY <1>1, <1>3, <1>5, EditedMoves, AwakeStep

\* A closure that has run is gone, and what it knew still holds.
LEMMA TaskTaken ==
    ASSUME IndInv, NEW t \in k.tasks, NEW s, s = [k EXCEPT !.tasks = @ \ {t}]
    PROVE  /\ Edited(k, s) /\ s \in PluginState /\ Sound(s)
           /\ s.userStopped = k.userStopped /\ s.proc = k.proc /\ s.opId = k.opId
           /\ t \in Closure /\ TaskSound(k, t) /\ Live(s) = Live(k)
<1> DEFINE ts == k.tasks \ {t}
<1>1. k \in PluginState /\ Sound(k) /\ k.tasks \in Tasks
  BY StateFacts
<1>2. ts \in Tasks /\ ts \subseteq k.tasks /\ s = [k EXCEPT !.tasks = ts]
  BY <1>1 DEF Tasks
<1> HIDE DEF ts
<1>3. s \in PluginState
  BY <1>1, <1>2, StateShape
<1>4. Edited(k, s) /\ s.userStopped = k.userStopped
  BY <1>1, <1>2, <1>3, StateShape DEF Edited
<1>5. /\ Sound(s) /\ Live(s) = Live(k)
      /\ s.proc = k.proc /\ s.opId = k.opId
  <2>1. s.userStopped => k.userStopped
    BY <1>4
  <2>2. Sound(s) /\ Live(s) = Live(k)
    BY <1>1, <1>4, <2>1, EditedSound
  <2>3. QED
    BY <1>4, <2>2 DEF Edited
<1>6. t \in Closure /\ TaskSound(k, t)
  BY <1>1 DEF Tasks, Sound
<1>7. QED
  BY <1>3, <1>4, <1>5, <1>6

\* The next poll of a closure is the same closure with one attempt less.
LEMMA NextPoll ==
    ASSUME IndInv, NEW t \in k.tasks, t.left # 0, NEW s, s = [k EXCEPT !.tasks = @ \ {t}],
           NEW r, r = [s EXCEPT !.tasks = @ \cup {[t EXCEPT !.left = t.left - 1]}]
    PROVE  Moves(k, r)
<1> DEFINE u == [t EXCEPT !.left = t.left - 1]
           ts == (k.tasks \ {t}) \cup {u}
<1>1. k \in PluginState /\ Sound(k) /\ t \in Closure
  BY StateFacts, TaskTaken
<1>2. t.left - 1 \in Nat
  BY <1>1 DEF Closure
<1>3. u \in Closure
  BY <1>1, <1>2 DEF Closure
<1>4. SameJob(t, u)
  BY <1>1 DEF Closure, SameJob
<1>5. r = [k EXCEPT !.tasks = ts]
  BY <1>1, StateShape
<1>6. ts = (k.tasks \ {t}) \cup {u}
  OBVIOUS
<1> HIDE DEF u, ts
<1>7. Safe(k, r)
  BY <1>1, <1>3, <1>4, <1>5, <1>6, ReplaceSafe
<1>8. QED
  BY <1>7, SafeMoves

LEMMA ReadyStep ==
    ASSUME IndInv, NEW t \in k.tasks, ReadyTask(t)
    PROVE  Good
<1> DEFINE s == [k EXCEPT !.tasks = @ \ {t}]
           next == [s EXCEPT !.tasks = @ \cup {[t EXCEPT !.left = t.left - 1]}]
<1>1. \/ t.left # 0 /\ k' = next
      \/ k' = s
      \/ isCurrentServerOp(s, t) /\ k' = onServerStartFailed(s, t.who)
      \/ k' = onServerStarted(s, t.who)
  BY DEF ReadyTask
<1>2. /\ app # "down" /\ UNCHANGED <<app, runs, exited>> /\ net' \in BOOLEAN
      /\ asleep' = FALSE /\ t.kind = "ready"
  BY StateFacts DEF ReadyTask, Awake, world
<1>3. CASE t.left # 0 /\ k' = next
  BY <1>2, <1>3, NextPoll, AwakeStep
<1>4. /\ Edited(k, s) /\ s \in PluginState /\ Sound(s)
      /\ s.userStopped = k.userStopped /\ s.proc = k.proc /\ s.opId = k.opId
      /\ t \in Closure /\ TaskSound(k, t) /\ Live(s) = Live(k)
  BY TaskTaken
<1> HIDE DEF s
<1>5. t.who \in Instance
  BY <1>4 DEF Closure
<1>6. ASSUME Safe(s, k') PROVE Good
  BY <1>2, <1>4, <1>6, EditedMoves, AwakeStep
<1>7. CASE k' = s
  BY <1>4, <1>6, <1>7, SafeRefl
<1>8. CASE isCurrentServerOp(s, t) /\ k' = onServerStartFailed(s, t.who)
  <2>1. Live(s) = {}
    BY <1>2, <1>4, <1>8 DEF isCurrentServerOp, TaskSound
  <2>2. QED
    BY <1>4, <1>5, <1>6, <1>8, <2>1, GoneSafe
<1>9. CASE k' = onServerStarted(s, t.who)
  BY <1>4, <1>5, <1>6, <1>9, StartedKept, KeptSafe
<1>10. QED
  BY <1>1, <1>3, <1>7, <1>8, <1>9

\* A stop whose process is gone finishes, and starts again if it was a restart.
LEMMA StopFinished ==
    ASSUME IndInv, NEW t \in k.tasks, t.kind # "ready", t.op = k.opId, ~IsAlive(k, t.pid),
           NEW s, s = [k EXCEPT !.tasks = @ \ {t}],
           NEW r \in Callback(finalizeStopped(s, t.who), t.then, t.who)
    PROVE  Safe(s, r)
<1> DEFINE m == finalizeStopped(s, t.who)
<1>1. /\ s \in PluginState /\ Sound(s) /\ s.userStopped = k.userStopped
      /\ t \in Closure /\ TaskSound(k, t) /\ Live(s) = Live(k)
  BY TaskTaken
<1>2. t.who \in Instance
  BY <1>1 DEF Closure
<1>3. Live(s) = {}
  BY <1>1 DEF TaskSound, IsAlive, Live, Receiver
<1>4. Safe(s, m) /\ m.userStopped = s.userStopped
  BY <1>1, <1>2, <1>3, GoneSafe
<1>5. r \in Callback(m, t.then, t.who)
  OBVIOUS
<1> HIDE DEF m
<1>6. t.then = "start" => ~m.userStopped
  BY <1>1, <1>4 DEF TaskSound
<1>7. m \in PluginState /\ Sound(m)
  BY <1>4 DEF Safe
<1>8. Safe(m, r)
  BY <1>2, <1>5, <1>6, <1>7, CallbackSafe
<1>9. QED
  BY <1>4, <1>8, SafeThenSafe

\* SIGKILL to the process the stop waits for.
LEMMA Killed ==
    ASSUME IndInv, NEW t \in k.tasks, t.kind = "exit", IsAlive(k, t.pid),
           NEW s, s = [k EXCEPT !.tasks = @ \ {t}],
           NEW r, r = [s EXCEPT !.proc[t.pid] = IF @ = "other" THEN "free" ELSE "kill",
                                !.tasks = @ \cup {[t EXCEPT !.kind = "kill", !.left = 0]}]
    PROVE  Moves(k, r)
<1> DEFINE u == [t EXCEPT !.kind = "kill", !.left = 0]
           ts == (k.tasks \ {t}) \cup {u}
           m == [k EXCEPT !.tasks = ts]
           x == IF k.proc[t.pid] = "other" THEN "free" ELSE "kill"
           q == [k.proc EXCEPT ![t.pid] = x]
<1>1. k \in PluginState /\ Sound(k) /\ k.proc \in Procs /\ t \in Closure
  BY StateFacts, TaskTaken
<1>2. t.pid \in Pid
  BY <1>1 DEF Closure
<1>3. u \in Closure
  BY <1>1 DEF Closure
<1>4. SameJob(t, u)
  BY <1>1 DEF Closure, SameJob
<1>5. Fades(k, t.pid, x)
  BY <1>1, <1>2 DEF IsAlive, Procs, ProcessState, Fades
<1>6. r = [m EXCEPT !.proc = q] /\ m.proc = k.proc
  BY <1>1, StateShape
<1>7. ts = (k.tasks \ {t}) \cup {u} /\ m = [k EXCEPT !.tasks = ts]
  OBVIOUS
<1>8. q = [k.proc EXCEPT ![t.pid] = x]
  OBVIOUS
<1> HIDE DEF u, ts, x, q, m
<1>9. Safe(k, m)
  BY <1>1, <1>3, <1>4, <1>7, ReplaceSafe
<1>10. m \in PluginState /\ Sound(m)
  BY <1>9 DEF Safe
<1>11. q = [m.proc EXCEPT ![t.pid] = x] /\ Fades(m, t.pid, x)
  BY <1>5, <1>6, <1>8 DEF Fades
<1>12. Safe(m, r)
  BY <1>2, <1>6, <1>10, <1>11, DownSafe
<1>13. Safe(k, r)
  BY <1>9, <1>12, SafeThenSafe
<1>14. QED
  BY <1>13, SafeMoves

LEMMA ExitStep ==
    ASSUME IndInv, NEW t \in k.tasks, ExitTask(t)
    PROVE  Good
<1> DEFINE s == [k EXCEPT !.tasks = @ \ {t}]
           next == [s EXCEPT !.tasks = @ \cup {[t EXCEPT !.left = t.left - 1]}]
           killed == [s EXCEPT !.proc[t.pid] = IF @ = "other" THEN "free" ELSE "kill",
                               !.tasks = @ \cup {[t EXCEPT !.kind = "kill", !.left = 0]}]
<1>1. \/ t.left # 0 /\ k' = next
      \/ k' = s
      \/ IsAlive(s, t.pid) /\ k' = killed
      \/ /\ isCurrentServerOp(s, t) /\ ~IsAlive(s, t.pid)
         /\ \E r \in Callback(finalizeStopped(s, t.who), t.then, t.who) : k' = r
  BY DEF ExitTask, OutOfPolls
<1>2. /\ app # "down" /\ UNCHANGED <<app, runs, exited>> /\ net' \in BOOLEAN
      /\ asleep' = FALSE /\ t.kind = "exit"
  BY StateFacts DEF ExitTask, Awake, world
<1>3. CASE t.left # 0 /\ k' = next
  BY <1>2, <1>3, NextPoll, AwakeStep
<1>4. /\ Edited(k, s) /\ s \in PluginState /\ Sound(s)
      /\ s.proc = k.proc /\ s.opId = k.opId
  BY TaskTaken
<1>5. CASE IsAlive(s, t.pid) /\ k' = killed
  <2>1. IsAlive(k, t.pid)
    BY <1>4, <1>5 DEF IsAlive
  <2>2. Moves(k, k')
    BY <1>2, <1>5, <2>1, Killed
  <2>3. QED
    BY <1>2, <2>2, AwakeStep
<1>6. ASSUME isCurrentServerOp(s, t), ~IsAlive(s, t.pid),
             NEW r \in Callback(finalizeStopped(s, t.who), t.then, t.who)
      PROVE  Safe(s, r)
  <2>1. t.op = k.opId /\ ~IsAlive(k, t.pid) /\ t.kind # "ready"
    BY <1>2, <1>4, <1>6 DEF isCurrentServerOp, IsAlive
  <2>2. QED
    BY <1>6, <2>1, StopFinished
<1> HIDE DEF s
<1>7. ASSUME Safe(s, k') PROVE Good
  BY <1>2, <1>4, <1>7, EditedMoves, AwakeStep
<1>8. CASE k' = s
  BY <1>4, <1>7, <1>8, SafeRefl
<1>9. QED
  BY <1>1, <1>3, <1>5, <1>6, <1>7, <1>8

LEMMA KillStep ==
    ASSUME IndInv, NEW t \in k.tasks, KillTask(t)
    PROVE  Good
<1> DEFINE s == [k EXCEPT !.tasks = @ \ {t}]
<1>1. \/ k' = s
      \/ k' = finish(s, t.who)
      \/ /\ isCurrentServerOp(s, t) /\ ~IsAlive(s, t.pid)
         /\ \E r \in Callback(finalizeStopped(s, t.who), t.then, t.who) : k' = r
  BY DEF KillTask
<1>2. /\ app # "down" /\ UNCHANGED <<app, runs, exited>> /\ net' \in BOOLEAN
      /\ asleep' = FALSE /\ t.kind = "kill"
  BY StateFacts DEF KillTask, Awake, world
<1>3. /\ Edited(k, s) /\ s \in PluginState /\ Sound(s) /\ t \in Closure
      /\ s.proc = k.proc /\ s.opId = k.opId
  BY TaskTaken
<1>4. t.who \in Instance
  BY <1>3 DEF Closure
<1>5. ASSUME isCurrentServerOp(s, t), ~IsAlive(s, t.pid),
             NEW r \in Callback(finalizeStopped(s, t.who), t.then, t.who)
      PROVE  Safe(s, r)
  <2>1. t.op = k.opId /\ ~IsAlive(k, t.pid) /\ t.kind # "ready"
    BY <1>2, <1>3, <1>5 DEF isCurrentServerOp, IsAlive
  <2>2. QED
    BY <1>5, <2>1, StopFinished
<1> HIDE DEF s
<1>6. ASSUME Safe(s, k') PROVE Good
  BY <1>2, <1>3, <1>6, EditedMoves, AwakeStep
<1>7. CASE k' = s
  BY <1>3, <1>6, <1>7, SafeRefl
<1>8. CASE k' = finish(s, t.who)
  BY <1>3, <1>4, <1>6, <1>8, StartedKept, KeptSafe
<1>9. QED
  BY <1>1, <1>5, <1>6, <1>7, <1>8

LEMMA ResumeStep ==
    ASSUME IndInv, ResumeTask
    PROVE  Good
<1> DEFINE s == [k EXCEPT !.resume = FALSE]
<1>0. k \in PluginState /\ Sound(k) /\ net \in BOOLEAN
  BY StateFacts
<1>1. Edited(k, s) /\ s.userStopped = k.userStopped
  <2>1. s \in PluginState
    BY <1>0, StateShape
  <2>2. QED
    BY <1>0, <2>1, StateShape DEF Edited
<1>2. \E r \in restartWhenReady(s, net) : k' = r
  BY DEF ResumeTask
<1>3. /\ app # "down" /\ UNCHANGED <<app, runs, exited>> /\ net' \in BOOLEAN
      /\ asleep' = FALSE
  BY <1>0, StateFacts DEF ResumeTask, Awake, world
<1> HIDE DEF s
<1>4. s \in PluginState /\ Sound(s)
  BY <1>0, <1>1, EditedSound DEF Edited
<1>5. Safe(s, k')
  BY <1>0, <1>2, <1>4, RestartSafe
<1>6. QED
  BY <1>1, <1>3, <1>5, EditedMoves, AwakeStep

\* The sentinel poll of any plugin object.
LEMMA SentinelStep ==
    ASSUME IndInv, NEW who \in Instance, SentinelPoll(who)
    PROVE  Good
<1> DEFINE seen == [k EXCEPT !.hold = k.busy]
           gone == unschedulePolling(seen, who)
           q == [gone.proc EXCEPT ![k.pidFile] = "free"]
           dead == [gone EXCEPT !.proc = q]
           idle == unschedulePolling(k, who)
           calm == [idle EXCEPT !.hold = FALSE]
<1>0. k \in PluginState /\ Sound(k)
  BY StateFacts
<1>1. \/ k' = seen
      \/ Running(k) /\ k' = dead
      \/ k' = reconcileServerState(calm, who)
  BY DEF SentinelPoll
<1>2. /\ app # "down" /\ UNCHANGED <<app, runs, exited>> /\ net' \in BOOLEAN
      /\ asleep' = FALSE
  BY StateFacts DEF SentinelPoll, Awake, world
<1>3. ASSUME NEW s \in PluginState, NEW b \in BOOLEAN
      PROVE  Kept(s, [s EXCEPT !.hold = b])
  <2> DEFINE r == [s EXCEPT !.hold = b]
  <2>1. r \in PluginState
    BY StateShape
  <2>2. SameCore(s, r) /\ r.handlers = s.handlers /\ r.unseen = s.unseen
    BY StateShape DEF SameCore
  <2> HIDE DEF r
  <2>3. Kept(s, r)
    BY <2>1, <2>2 DEF Kept, SameCore, Handled, Running
  <2>4. QED
    BY <2>3 DEF r
<1>4. Kept(k, seen) /\ seen \in PluginState
  <2>1. k.busy \in BOOLEAN
    BY <1>0, StateShape
  <2>2. QED
    BY <1>0, <1>3, <2>1 DEF Kept
<1>5. CASE k' = seen
  BY <1>0, <1>2, <1>4, <1>5, KeptSafe, SafeMoves, AwakeStep
<1>6. CASE Running(k) /\ k' = dead
  <2>1. dead = [gone EXCEPT !.proc = q] /\ q = [gone.proc EXCEPT ![k.pidFile] = "free"]
    OBVIOUS
  <2> HIDE DEF seen
  <2>2. Kept(seen, gone)
    BY <1>4, Polling
  <2>3. Kept(k, gone)
    BY <1>4, <2>2, KeptThenKept
  <2> HIDE DEF gone, q, dead
  <2>4. Safe(k, gone)
    BY <1>0, <2>3, KeptSafe
  <2>5. gone \in PluginState /\ Sound(gone) /\ k.pidFile \in Pid
    BY <1>0, <1>6, <2>4, StateShape DEF Safe, Running
  <2>6. Fades(gone, k.pidFile, "free")
    BY DEF Fades
  <2>7. Safe(gone, dead)
    BY <2>1, <2>5, <2>6, DownSafe
  <2>8. QED
    BY <1>2, <1>6, <2>4, <2>7, SafeThenSafe, SafeMoves, AwakeStep
<1>7. CASE k' = reconcileServerState(calm, who)
  <2>1. Kept(k, idle)
    BY <1>0, Polling
  <2>2. idle \in PluginState
    BY <2>1 DEF Kept
  <2> HIDE DEF idle
  <2>3. Kept(idle, calm)
    BY <1>3, <2>2
  <2>4. calm \in PluginState
    BY <2>3 DEF Kept
  <2> HIDE DEF calm
  <2>5. Kept(calm, k')
    BY <1>7, <2>4, Reconciles
  <2>6. Kept(k, k')
    BY <2>1, <2>3, <2>5, KeptThenKept
  <2>7. QED
    BY <1>0, <1>2, <2>6, KeptSafe, SafeMoves, AwakeStep
<1>8. QED
  BY <1>1, <1>5, <1>6, <1>7

-----------------------------------------------------------------------------
(* Power, network and widget events *)

\* The device goes to sleep: the handlers, registered while a receiver runs, stop it.
LEMMA SleepStep ==
    ASSUME IndInv, NEW standby \in BOOLEAN, Sleep(standby)
    PROVE  Good
<1> DEFINE idle == unschedulePolling(k, "cur")
           b == idle.resume /\ standby
           yes == [idle EXCEPT !.resume = b, !.beforeSuspend = TRUE]
           no == [idle EXCEPT !.resume = b, !.beforeSuspend = FALSE]
<1>0. k \in PluginState /\ Sound(k) /\ Tracked(k) /\ "cur" \in Instance
  BY StateFacts
<1>1. Kept(k, idle) /\ idle.handlers = k.handlers /\ idle.unseen = k.unseen
  BY <1>0, Polling
<1>2. \/ ~k.handlers /\ k' = k
      \/ \E r \in stopServerSync(yes, "cur") : k' = r
      \/ ~Running(k) /\ k' = no
  BY DEF Sleep
<1>3. /\ app = "open" /\ app' = "open" /\ UNCHANGED <<runs, exited>> /\ net' \in BOOLEAN
      /\ asleep' = TRUE
  BY StateFacts DEF Sleep
<1>4. Edited(k, yes) /\ Edited(k, no) /\ no.userStopped = k.userStopped
  <2>1. idle \in PluginState
    BY <1>1 DEF Kept
  <2>2. b \in BOOLEAN
    OBVIOUS
  <2> HIDE DEF idle, b
  <2>3. yes \in PluginState /\ no \in PluginState
    BY <2>1, <2>2, StateShape
  <2>4. Edited(idle, yes) /\ Edited(idle, no) /\ no.userStopped = idle.userStopped
    BY <2>1, <2>3, StateShape DEF Edited
  <2>5. QED
    BY <1>1, <2>4 DEF Edited, Kept, SameCore
<1> HIDE DEF yes, no
<1>5. ASSUME ~Running(k) PROVE Stopped(k)
  BY <1>0, <1>5, NoneLive DEF Sound, Stopped, Live, Receiver
<1>6. Moves(k, k') /\ (Stopped(k') \/ k'.unseen)
  <2>1. CASE ~k.handlers /\ k' = k
    <3>1. ~Running(k) \/ k.unseen
      BY <1>3, <2>1 DEF IndInv, SleepInv, Handled
    <3>2. QED
      BY <1>0, <1>5, <2>1, <3>1, SafeRefl, SafeMoves
  <2>2. CASE \E r \in stopServerSync(yes, "cur") : k' = r
    <3>1. yes \in PluginState /\ Tracked(yes)
      BY <1>0, <1>4, EditedSound DEF Edited
    <3>2. Safe(yes, k') /\ Stopped(k')
      BY <1>0, <2>2, <3>1, StopSyncSafe
    <3>3. QED
      BY <1>4, <3>2, EditedMoves
  <2>3. CASE ~Running(k) /\ k' = no
    <3>1. Moves(k, no)
      BY <1>0, <1>4, EditMoves
    <3>2. Stopped(no)
      BY <1>4, <1>5, <2>3 DEF Edited, Stopped
    <3>3. QED
      BY <2>3, <3>1, <3>2
  <2>4. QED
    BY <1>2, <2>1, <2>2, <2>3
<1>7. Handled(k')
  BY <1>3, <1>6 DEF IndInv, SleepInv, Moves
<1>8. QED
  BY <1>3, <1>6, <1>7, OpenStep DEF Moves

LEMMA WakeStep ==
    ASSUME IndInv, Wake
    PROVE  Good
<1>1. k \in PluginState /\ Sound(k) /\ net \in BOOLEAN
  BY StateFacts
<1>2. k' = k \/ \E r \in restartWhenReady(k, net) : k' = r
  BY DEF Wake
<1>3. /\ app # "down" /\ UNCHANGED <<app, runs, exited>> /\ net' \in BOOLEAN
      /\ asleep' = FALSE
  BY <1>1 DEF Wake
<1>4. Safe(k, k')
  BY <1>1, <1>2, RestartSafe, SafeRefl
<1>5. QED
  BY <1>3, <1>4, SafeMoves, AwakeStep

LEMMA NetworkStep ==
    ASSUME IndInv, (\E gone \in BOOLEAN : NetworkLost(gone)) \/ NetworkConnected
    PROVE  Good
<1> DEFINE s == [k EXCEPT !.beforeDisconnect = TRUE]
<1>0. k \in PluginState /\ Sound(k) /\ Tracked(k) /\ "cur" \in Instance
  BY StateFacts
<1>1. Edited(k, s)
  <2>1. s \in PluginState
    BY <1>0, StateShape
  <2>2. QED
    BY <1>0, <2>1, StateShape DEF Edited
<1>2. \/ \E r \in stopServerSync(s, "cur") : k' = r
      \/ \E r \in restartWhenReady(k, TRUE) : k' = r
      \/ k' = k
  BY DEF NetworkLost, NetworkConnected
<1>3. /\ app # "down" /\ UNCHANGED <<app, runs, exited>> /\ net' \in BOOLEAN
      /\ asleep' = FALSE
  BY StateFacts DEF NetworkLost, NetworkConnected, Awake
<1> HIDE DEF s
<1>4. Moves(k, k')
  <2>1. CASE \E r \in stopServerSync(s, "cur") : k' = r
    <3>1. s \in PluginState /\ Tracked(s)
      BY <1>0, <1>1, EditedSound DEF Edited
    <3>2. Safe(s, k')
      BY <1>0, <2>1, <3>1, StopSyncSafe
    <3>3. QED
      BY <1>1, <3>2, EditedMoves
  <2>2. CASE \E r \in restartWhenReady(k, TRUE) : k' = r
    BY <1>0, <2>2, RestartSafe, SafeMoves
  <2>3. CASE k' = k
    BY <1>0, <2>3, SafeRefl, SafeMoves
  <2>4. QED
    BY <1>2, <2>1, <2>2, <2>3
<1>5. QED
  BY <1>3, <1>4, AwakeStep

\* The widget closes: what is pending is now a closed widget's.
LEMMA CloseStep ==
    ASSUME IndInv, CloseWidget
    PROVE  Good
<1> DEFINE old(t) == [t EXCEPT !.who = "old"]
           pl == k.poll \ {"cur"}
           w == IF k.waitNet = {} THEN {} ELSE {"old"}
           ts == {old(t) : t \in k.tasks}
           r == [k EXCEPT !.poll = pl, !.resume = FALSE, !.handlers = FALSE,
                          !.waitNet = w, !.tasks = ts]
<1>0. k \in PluginState /\ Sound(k) /\ k.tasks \in Tasks /\ k.poll \in Whos
  BY StateFacts
<1>1. k' = r
  BY DEF CloseWidget
<1>2. \A t \in k.tasks : /\ old(t) \in Closure
                         /\ old(t).op = t.op /\ old(t).pid = t.pid
                         /\ old(t).then = t.then /\ old(t).kind = t.kind
  <2>1. TAKE t \in k.tasks
  <2>2. t \in Closure
    BY <1>0 DEF Tasks
  <2>3. QED
    BY <2>2 DEF Closure, Instance
<1>3. ts \in Tasks
  BY <1>2 DEF Tasks
<1>4. pl \in Whos /\ w \in Whos
  BY <1>0 DEF Whos, Instance
<1>5. r \in PluginState
  <2> HIDE DEF pl, w, ts
  <2>1. QED
    BY <1>0, <1>3, <1>4, StateShape
<1>6. /\ r.proc = k.proc /\ r.pidFile = k.pidFile /\ r.firewall = k.firewall
      /\ r.opId = k.opId /\ r.userStopped = k.userStopped
      /\ r.tasks = ts /\ r.waitNet = w
  <2> HIDE DEF pl, w, ts
  <2>1. QED
    BY <1>0, StateShape
<1> HIDE DEF r
<1>7. Live(r) = Live(k)
  BY <1>6 DEF Live
<1>8. \A u \in ts : TaskSound(r, u)
  <2>1. SUFFICES ASSUME NEW t \in k.tasks PROVE TaskSound(r, old(t))
    OBVIOUS
  <2>2. TaskSound(k, t)
    BY <1>0 DEF Sound
  <2>3. old(t).op = t.op /\ old(t).pid = t.pid /\ old(t).then = t.then /\ old(t).kind = t.kind
    BY <1>2
  <2> HIDE DEF old
  <2>4. QED
    BY <1>6, <1>7, <2>2, <2>3 DEF TaskSound
<1>9. Sound(r)
  BY <1>0, <1>6, <1>7, <1>8 DEF Sound
<1>10. /\ app # "down" /\ app' = "closed" /\ UNCHANGED <<runs, exited>>
       /\ net' \in BOOLEAN /\ asleep' = FALSE
  BY StateFacts DEF CloseWidget, Awake
<1>11. k'.userStopped => Quiet(k, k')
  BY <1>1, <1>6 DEF Quiet
<1>12. QED
  BY <1>1, <1>5, <1>9, <1>10, <1>11, OpenStep

\* The next widget opens and takes over.
LEMMA OpenWidgetStep ==
    ASSUME IndInv, OpenWidget
    PROVE  Good
<1>1. k \in PluginState /\ Sound(k) /\ net \in BOOLEAN
  BY StateFacts
<1>2. \E r \in init(k, net) : k' = r
  BY DEF OpenWidget
<1>3. Safe(k, k') /\ Handled(k')
  BY <1>1, <1>2, InitSafe
<1>4. /\ app # "down" /\ app' = "open" /\ UNCHANGED <<runs, exited>>
      /\ net' \in BOOLEAN /\ asleep' = FALSE
  BY <1>1 DEF OpenWidget, IndInv, TypeOK
<1>5. QED
  BY <1>3, <1>4, OpenStep DEF Safe

\* KOReader is down: the processes and the files are all there is.
LEMMA DownStep ==
    ASSUME IndInv, app' = "down", asleep' = FALSE, net' \in BOOLEAN, exited' \in BOOLEAN,
           runs' = runs, k' \in PluginState, Sound(k'), ~k'.userStopped,
           exited' => Stopped(k') /\ (k'.pidFile = None => ~k'.firewall)
    PROVE  Good
<1>1. TypeOK'
  BY DEF IndInv, TypeOK
<1>2. TeardownComplete'
  BY DEF TeardownComplete, Stopped
<1>3. SleepInv'
  BY DEF SleepInv
<1>4. ~StartsDespiteUser
  BY DEF StartsDespiteUser
<1>5. QED
  BY <1>1, <1>2, <1>3, <1>4 DEF Good, IndInv

LEMMA ExitStepOK ==
    ASSUME IndInv, Exit
    PROVE  Good
<1> DEFINE shut == [k EXCEPT !.firewall = FALSE]
<1>0. k \in PluginState /\ Sound(k) /\ Tracked(k) /\ "cur" \in Instance /\ asleep \in BOOLEAN
  BY StateFacts
<1>1. PICK s \in (IF Running(k) THEN stopServerSync(k, "cur") ELSE {shut}) : k' = Fresh(s)
  BY DEF Exit
<1>2. s \in PluginState /\ Sound(s) /\ Stopped(s) /\ (s.pidFile = None => ~s.firewall)
  <2>1. CASE Running(k)
    BY <1>0, <1>1, <2>1, StopSyncSafe DEF Safe
  <2>2. CASE ~Running(k)
    <3>1. Live(k) = {}
      BY <1>0, <2>2, NoneLive DEF Sound
    <3>2. s = shut
      BY <1>1, <2>2
    <3>3. shut \in PluginState
      BY <1>0, StateShape
    <3>4. /\ shut.proc = k.proc /\ shut.opId = k.opId /\ shut.tasks = k.tasks
          /\ shut.userStopped = k.userStopped /\ shut.waitNet = k.waitNet
          /\ shut.firewall = FALSE
      BY <1>0, StateShape
    <3> HIDE DEF shut
    <3>5. Safe(k, shut) /\ Live(shut) = {}
      BY <1>0, <3>1, <3>3, <3>4, DeadSound
    <3>6. Stopped(shut)
      BY <3>5 DEF Stopped, Live, Receiver
    <3>7. QED
      BY <3>2, <3>3, <3>4, <3>5, <3>6 DEF Safe
  <2>3. QED
    BY <2>1, <2>2
<1>3. Tracked(s)
  BY <1>2, SoundTracked
<1>4. /\ k' \in PluginState /\ Sound(k') /\ ~k'.userStopped
      /\ k'.proc = s.proc /\ k'.pidFile = s.pidFile /\ k'.firewall = s.firewall
  BY <1>1, <1>2, <1>3, FreshSound
<1>5. Stopped(k') /\ (k'.pidFile = None => ~k'.firewall)
  BY <1>2, <1>4 DEF Stopped
<1>6. /\ app' = "down" /\ exited' \in BOOLEAN /\ runs' = runs
      /\ asleep' = FALSE /\ net' \in BOOLEAN
  BY StateFacts DEF Exit, Awake
<1>7. QED
  BY <1>4, <1>5, <1>6, DownStep

LEMMA CrashStep ==
    ASSUME IndInv, Crash
    PROVE  Good
<1>1. k \in PluginState /\ Tracked(k) /\ net \in BOOLEAN
  BY StateFacts
<1>2. k' \in PluginState /\ Sound(k') /\ ~k'.userStopped
  BY <1>1, FreshSound DEF Crash
<1>3. /\ app' = "down" /\ runs' = runs /\ asleep' = FALSE /\ net' \in BOOLEAN
  BY <1>1 DEF Crash
<1>4. exited' = FALSE
  BY DEF Crash, IndInv, TypeOK
<1>5. QED
  BY <1>2, <1>3, <1>4, DownStep

LEMMA StartKOReaderStep ==
    ASSUME IndInv, StartKOReader
    PROVE  Good
<1> DEFINE s == Fresh(k)
<1>1. k \in PluginState /\ Tracked(k) /\ net \in BOOLEAN
  BY StateFacts
<1>2. s \in PluginState /\ Sound(s) /\ s.userStopped = FALSE
  BY <1>1, FreshSound
<1>3. \E r \in init(s, net) : k' = r
  BY DEF StartKOReader
<1> HIDE DEF s
<1>4. Safe(s, k') /\ Handled(k')
  BY <1>1, <1>2, <1>3, InitSafe
<1>5. k' \in PluginState /\ Sound(k') /\ ~k'.userStopped
  BY <1>2, <1>4 DEF Safe
<1>6. asleep' = FALSE /\ app' = "open" /\ exited' = FALSE /\ net' \in BOOLEAN
  BY <1>1 DEF StartKOReader, IndInv, TypeOK
<1>7. runs' \in 0..MaxRuns
  BY PluginAssumption DEF StartKOReader, IndInv, TypeOK
<1>8. TypeOK'
  BY <1>5, <1>6, <1>7 DEF TypeOK
<1>9. TeardownComplete'
  BY <1>6 DEF TeardownComplete
<1>10. SleepInv'
  BY <1>4, <1>5, <1>6 DEF SleepInv
<1>11. ~StartsDespiteUser
  BY <1>5 DEF StartsDespiteUser
<1>12. QED
  BY <1>5, <1>6, <1>8, <1>9, <1>10, <1>11 DEF Good, IndInv

-----------------------------------------------------------------------------
(* The device's processes *)

\* A process step, whatever KOReader does at the time.
LEMMA ProcessStep ==
    ASSUME IndInv, UNCHANGED world, Safe(k, k'), Stopped(k) => Stopped(k'),
           k'.pidFile = k.pidFile, k'.firewall = k.firewall, k'.unseen = k.unseen
    PROVE  Good
<1>1. TypeOK'
  BY DEF IndInv, TypeOK, world, Safe
<1>2. TeardownComplete'
  BY DEF IndInv, TeardownComplete, Stopped, world
<1>3. SleepInv'
  BY DEF IndInv, SleepInv, world, Safe
<1>4. Moves(k, k')
  BY SafeMoves
<1>5. ~StartsDespiteUser
  BY <1>4 DEF StartsDespiteUser, Moves, Quiet
<1>6. QED
  BY <1>1, <1>2, <1>3, <1>4, <1>5 DEF Good, IndInv, world, Moves

\* The busy marker is nothing the invariant speaks of.
LEMMA BusyKept ==
    ASSUME NEW s \in PluginState, NEW b \in BOOLEAN, NEW r, r = [s EXCEPT !.busy = b]
    PROVE  Kept(s, r) /\ r.unseen = s.unseen
<1>1. r \in PluginState
  BY StateShape
<1>2. SameCore(s, r) /\ r.handlers = s.handlers /\ r.unseen = s.unseen
  BY StateShape DEF SameCore
<1>3. QED
  BY <1>1, <1>2 DEF Kept, SameCore, Handled, Running

LEMMA ProcessSteps ==
    ASSUME IndInv, NEW p \in Pid, ProcessEnds(p) \/ OtherProcess(p) \/ Transfer(p)
    PROVE  Good
<1>0. k \in PluginState /\ Sound(k) /\ k.busy \in BOOLEAN
  BY StateFacts, StateShape
<1>1. UNCHANGED world
  BY DEF ProcessEnds, OtherProcess, Transfer
<1>2. ASSUME NEW x, NEW b \in BOOLEAN, Fades(k, p, x),
             k' = [k EXCEPT !.proc[p] = x, !.busy = b]
      PROVE  Good
  <2> DEFINE q == [k.proc EXCEPT ![p] = x]
             m == [k EXCEPT !.proc = q]
  <2>1. k' = [m EXCEPT !.busy = b]
    BY <1>0, <1>2, StateShape
  <2>2. q = [k.proc EXCEPT ![p] = x] /\ m = [k EXCEPT !.proc = q]
    OBVIOUS
  <2> HIDE DEF q, m
  <2>3. /\ Safe(k, m)
        /\ Stopped(k) => Stopped(m)
        /\ m.pidFile = k.pidFile /\ m.firewall = k.firewall /\ m.unseen = k.unseen
    BY <1>0, <1>2, <2>2, DownSafe
  <2>4. m \in PluginState
    BY <2>3 DEF Safe
  <2>5. Kept(m, k') /\ k'.unseen = m.unseen
    BY <2>1, <2>4, BusyKept
  <2>6. Safe(k, k')
    BY <2>3, <2>5, SafeThenKept
  <2>7. /\ Stopped(k) => Stopped(k')
        /\ k'.pidFile = k.pidFile /\ k'.firewall = k.firewall /\ k'.unseen = k.unseen
    BY <2>3, <2>5, KeptSound DEF Kept, SameCore
  <2>8. QED
    BY <1>1, <2>6, <2>7, ProcessStep
<1>3. CASE ProcessEnds(p)
  <2>1. PICK left \in {k.busy, FALSE} : k' = [k EXCEPT !.proc[p] = "free", !.busy = left]
    BY <1>3 DEF ProcessEnds
  <2>2. left \in BOOLEAN
    BY <1>0, <2>1
  <2>3. Fades(k, p, "free")
    BY DEF Fades
  <2>4. QED
    BY <1>2, <2>1, <2>2, <2>3
<1>4. CASE OtherProcess(p)
  <2> DEFINE x == IF k.proc[p] = "free" THEN "other" ELSE "free"
  <2>1. Fades(k, p, x)
    BY DEF Fades
  <2>2. k' = [k EXCEPT !.proc[p] = x, !.busy = k.busy]
    BY <1>0, <1>4, StateShape DEF OtherProcess
  <2> HIDE DEF x
  <2>3. QED
    BY <1>0, <1>2, <2>1, <2>2
<1>5. CASE Transfer(p)
  <2> DEFINE b == ~k.busy
  <2>1. k' = [k EXCEPT !.busy = b] /\ b \in BOOLEAN
    BY <1>5 DEF Transfer
  <2> HIDE DEF b
  <2>2. Kept(k, k') /\ k'.unseen = k.unseen
    BY <1>0, <2>1, BusyKept
  <2>3. Safe(k, k')
    BY <1>0, <2>2, KeptSafe
  <2>4. /\ Stopped(k) => Stopped(k')
        /\ k'.pidFile = k.pidFile /\ k'.firewall = k.firewall /\ k'.unseen = k.unseen
    BY <2>2, KeptSound DEF Kept, SameCore
  <2>5. QED
    BY <1>1, <2>3, <2>4, ProcessStep
<1>6. QED
  BY <1>3, <1>4, <1>5

-----------------------------------------------------------------------------
(* The theorems *)

\* The device begins with no receiver.
LEMMA InitInv ==
    ASSUME Init
    PROVE  IndInv
<1> DEFINE os == [proc |-> [p \in Pid |-> "free"], pidFile |-> None,
                  firewall |-> FALSE, busy |-> FALSE]
           q == [p \in Pid |-> "free"]
<1>1. k = Fresh(os)
  BY DEF Init
<1>2. os.proc = q /\ os.pidFile = None /\ os.firewall = FALSE /\ os.busy = FALSE
  OBVIOUS
<1>3. q \in Procs /\ \A p \in Pid : q[p] = "free"
  BY DEF Procs, ProcessState
<1> HIDE DEF os, q
<1>4. {} \in Whos /\ {} \in Tasks /\ 0 \in Nat /\ None \in Pid \cup {None}
  BY DEF Whos, Tasks
<1>5. k \in PluginState
  BY <1>1, <1>2, <1>3, <1>4, StateShape DEF Fresh
<1>6. /\ k.proc = q /\ k.pidFile = None /\ k.firewall = FALSE
      /\ k.tasks = {} /\ k.waitNet = {}
  BY <1>1, <1>2 DEF Fresh
<1>7. Live(k) = {} /\ Stopped(k)
  BY <1>3, <1>6 DEF Live, Receiver, Stopped
<1>8. Sound(k)
  BY <1>3, <1>6, <1>7 DEF Sound
<1>9. TypeOK
  <2>1. /\ app = "down" /\ asleep \in BOOLEAN /\ net \in BOOLEAN
        /\ runs = 0 /\ exited \in BOOLEAN
    BY DEF Init
  <2>2. 0 \in 0..MaxRuns
    BY PluginAssumption
  <2>3. QED
    BY <1>5, <2>1, <2>2 DEF TypeOK
<1>10. QED
  BY <1>7, <1>8, <1>9 DEF Init, IndInv, SleepInv, TeardownComplete

\* Every step of the plugin, of KOReader and of the device keeps the invariant and
\* the user's stop.
LEMMA StepGood ==
    ASSUME IndInv, Next
    PROVE  Good
<1>1. CASE StartKOReader \/ Toggle \/ Restart \/ ResumeTask
  BY <1>1, StartKOReaderStep, ToggleStep, RestartStep, ResumeStep
<1>2. CASE \E t \in k.tasks : ReadyTask(t) \/ ExitTask(t) \/ KillTask(t)
  BY <1>2, ReadyStep, ExitStep, KillStep
<1>3. CASE \E who \in Instance : RunWhenConnected(who) \/ SentinelPoll(who)
  BY <1>3, RunWhenConnectedStep, SentinelStep
<1>4. CASE (\E standby \in BOOLEAN : Sleep(standby)) \/ Wake
  BY <1>4, SleepStep, WakeStep
<1>5. CASE (\E gone \in BOOLEAN : NetworkLost(gone)) \/ NetworkConnected
  BY <1>5, NetworkStep
<1>6. CASE NetworkLostAsleep
  <2>1. UNCHANGED <<k, app, asleep, runs, exited>> /\ net' = FALSE
    BY <1>6 DEF NetworkLostAsleep
  <2>2. TypeOK' /\ TeardownComplete' /\ SleepInv'
    BY <2>1 DEF IndInv, TypeOK, TeardownComplete, SleepInv
  <2>3. ~StartsDespiteUser
    BY <2>1 DEF StartsDespiteUser
  <2>4. QED
    BY <2>1, <2>2, <2>3 DEF Good, IndInv
<1>7. CASE CloseWidget \/ OpenWidget \/ Exit \/ Crash
  BY <1>7, CloseStep, OpenWidgetStep, ExitStepOK, CrashStep
<1>8. CASE \E p \in Pid : ProcessEnds(p) \/ OtherProcess(p) \/ Transfer(p)
  BY <1>8, ProcessSteps
<1>9. QED
  BY <1>1, <1>2, <1>3, <1>4, <1>5, <1>6, <1>7, <1>8 DEF Next

LEMMA StutterKeeps ==
    ASSUME IndInv, UNCHANGED vars
    PROVE  IndInv'
<1>1. TypeOK' /\ TeardownComplete' /\ SleepInv'
  BY DEF IndInv, TypeOK, TeardownComplete, SleepInv, vars
<1>2. QED
  BY <1>1 DEF IndInv, vars

\* The invariant holds in every state of every behaviour.
THEOREM Invariance == Spec => []IndInv
<1>1. Init => IndInv
  BY InitInv
<1>2. IndInv /\ [Next]_vars => IndInv'
  BY StepGood, StutterKeeps DEF Good
<1>3. QED
  BY <1>1, <1>2, PTL DEF Spec

\* No interleaving of starts, stops, stale closures, document switches and KOReader
\* crashes leaves a receiver the plugin cannot find, starts a second one or closes
\* the ports under one; onExit leaves none running and nothing behind
\* (localsend_server.lua start, stopServer, isCurrentServerOp; main.lua onExit).
THEOREM PluginStaysSound == Spec => []PluginSound
<1>1. IndInv => PluginSound
  BY DEF IndInv, PluginSound, ReceiverTracked, PortsOpen, Sound
<1>2. QED
  BY <1>1, Invariance, PTL

\* The device sleeps with a receiver that was not sent SIGKILL only when the shown
\* widget has not run registerEvents since the launch, whatever widgets closed with
\* closures pending (_onSuspend, _onEnterStandby, registerEvents, onCloseWidget).
THEOREM SleepsWithUnseenOnly == Spec => []SeenReceiverStops
<1>1. IndInv => SeenReceiverStops
  BY DEF IndInv, SleepInv, SeenReceiverStops
<1>2. QED
  BY <1>1, Invariance, PTL

\* After the user stopped the server, no resume, reconnect, document switch or
\* closure scheduled earlier starts a receiver (user_stopped in _restartWhenReady,
\* init and _startWhenConnected).
THEOREM UserStopStays == Spec => UserStopHolds
<1>1. IndInv /\ [Next]_vars => [~StartsDespiteUser]_vars
  BY StepGood DEF Good
<1>2. QED
  BY <1>1, Invariance, PTL DEF Spec, UserStopHolds
=============================================================================
