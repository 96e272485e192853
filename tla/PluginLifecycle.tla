-------------------------- MODULE PluginLifecycle --------------------------
(***************************************************************************)
(* The KOReader plugin's control of its receiver process                   *)
(* (localsend_server.lua), with the power, network and widget events of    *)
(* main.lua, the sentinel poll of localsend_transfers.lua and the          *)
(* "receive" power hold of localsend_power.lua.                            *)
(*                                                                         *)
(* Lua runs on KOReader's UI loop: a handler runs to its end, and what it  *)
(* leaves for later is a scheduled closure.  The plugin state is a record  *)
(* k; an operator Op(s) gives the record a function of the code leaves, or *)
(* the set of records where the world decides, so that nested calls        *)
(* compose.  Processes live and die between handlers.                      *)
(*                                                                         *)
(* Data abstracted: settings and command line (only whether the launch     *)
(* works), poll intervals (poll counts are kept), notifications, the       *)
(* transfer log, the firewall rules (open or closed).                      *)
(***************************************************************************)
EXTENDS Integers, FiniteSets

CONSTANTS
    Pid,            \* process ids of the device
    None,           \* no process
    StopPolls,      \* STOP_POLL_ATTEMPTS
    ReadyPolls,     \* attempts of waitForServerReady
    Autostart,      \* the LocalSend_autostart setting
    MaxOps,         \* bound: server operations in one KOReader session
    MaxRuns,        \* bound: KOReader sessions
    Unkillable,     \* whether a process may outlive SIGKILL
    PidReuse        \* whether other programs may get a receiver's old pid

ASSUME PluginAssumption ==
    /\ IsFiniteSet(Pid) /\ None \notin Pid
    /\ {StopPolls, ReadyPolls} \subseteq Nat \ {0}
    /\ MaxOps \in Nat /\ MaxRuns \in Nat
    /\ {Autostart, Unkillable, PidReuse} \subseteq BOOLEAN

VARIABLES
    k,       \* plugin state and the processes, one record
    app,     \* "open" a widget is shown, "closed" between two, "down" KOReader exited
    asleep,  \* the device is suspended or in standby
    net,     \* NetworkMgr:isConnected()
    runs,    \* KOReader sessions begun
    exited   \* history: KOReader went down through onExit

vars == <<k, app, asleep, net, runs, exited>>
world == <<app, asleep, net, runs, exited>>

-----------------------------------------------------------------------------
(* Processes.  A receiver runs ("recv"), was sent SIGTERM ("term") or      *)
(* SIGKILL ("kill"); a pid may belong to another program ("other").        *)

Receiver == {"recv", "term", "kill"}

ProcessState == Receiver \cup {"free", "other"}

Instance == {"cur", "old"}      \* the shown widget's plugin object, a closed one's

Closure == [kind : {"ready", "exit", "kill"}, op : Nat, pid : Pid, left : Nat,
            then : {"none", "start"}, who : Instance]

\* A KOReader session begins: fresh Lua state, what /tmp and the kernel kept.
\* unseen is history: the shown widget has not run registerEvents since the last launch.
Fresh(os) ==
    [userStopped |-> FALSE, beforeSuspend |-> FALSE, beforeDisconnect |-> FALSE,
     opId |-> 0, stopInProgress |-> FALSE, hold |-> FALSE, poll |-> {},
     resume |-> FALSE, waitNet |-> {}, handlers |-> FALSE, unseen |-> FALSE, tasks |-> {},
     proc |-> os.proc, pidFile |-> os.pidFile, firewall |-> os.firewall, busy |-> os.busy]

IsAlive(s, p) == s.proc[p] # "free"

\* M.isRunning: the PID file names a live process with our command line
Running(s) == s.pidFile # None /\ s.proc[s.pidFile] \in Receiver

Live(s) == {p \in Pid : s.proc[p] \in Receiver}

-----------------------------------------------------------------------------
(* Functions of localsend_server.lua.  who is the plugin object they run   *)
(* on: its handlers and its sentinel task are the ones they touch.         *)

EventsWantedIdle(s) ==
    \/ Autostart /\ ~s.userStopped
    \/ s.beforeSuspend
    \/ s.beforeDisconnect

EventsWanted(s) ==
    \/ Running(s)
    \/ Autostart /\ ~s.userStopped
    \/ s.beforeSuspend
    \/ s.beforeDisconnect

registerEvents(s, who) ==
    IF who = "cur" THEN [s EXCEPT !.handlers = EventsWanted(s), !.unseen = FALSE] ELSE s

reconcileServerState(s, who) ==
    LET run == Running(s)
    IN registerEvents([s EXCEPT !.stopInProgress = @ /\ run,
                                !.hold = @ /\ run,
                                !.busy = @ /\ run], who)

nextServerOpID(s) == [s EXCEPT !.opId = @ + 1]

CurrentOpAlways(s, t) == TRUE

isCurrentServerOp(s, t) == s.opId = t.op

unschedulePolling(s, who) == [s EXCEPT !.poll = @ \ {who}]

schedulePolling(s, who) == [s EXCEPT !.poll = @ \cup {who}]

onServerStarted(s, who) ==
    schedulePolling(reconcileServerState([s EXCEPT !.stopInProgress = FALSE], who), who)

onServerStartFailed(s, who) ==
    reconcileServerState([s EXCEPT !.firewall = FALSE, !.stopInProgress = FALSE], who)

\* the launch: the first readiness check runs before anything else can
LaunchOutcomes(s, who) ==
    LET open == [s EXCEPT !.firewall = TRUE]
        free == {p \in Pid : s.proc[p] = "free"}
        up(p) == [open EXCEPT !.proc[p] = "recv", !.pidFile = p, !.busy = FALSE, !.unseen = TRUE]
        dead(p) == [open EXCEPT !.pidFile = p,
                      !.tasks = @ \cup {[kind |-> "ready", op |-> s.opId, pid |-> p,
                                         left |-> ReadyPolls - 1, then |-> "none", who |-> who]}]
    IN {onServerStarted(up(p), who) : p \in free}
         \cup {dead(p) : p \in free}
         \cup {reconcileServerState([s EXCEPT !.firewall = FALSE], who)}

start(s, silent, who) ==
    LET n == nextServerOpID(s)
        cleared == [n EXCEPT !.busy = FALSE, !.hold = FALSE]    \* clearTransferLog
    IN IF s.stopInProgress THEN {s}
       ELSE IF Running(n) THEN {schedulePolling(reconcileServerState(n, who), who)}
       ELSE {n} \cup LaunchOutcomes(IF silent THEN n ELSE cleared, who)

FinishKeepsFlag(s, who) == reconcileServerState(s, who)

finish(s, who) == reconcileServerState([s EXCEPT !.stopInProgress = FALSE], who)

finalizeStopped(s, who) == finish([s EXCEPT !.pidFile = None, !.firewall = FALSE], who)

\* the caller's callback(true): only restart() passes one that changes state
Callback(s, then, who) == IF then = "start" THEN start(s, FALSE, who) ELSE {s}

StopBegins(s, who) ==
    reconcileServerState(
        [unschedulePolling(nextServerOpID(s), who) EXCEPT !.stopInProgress = TRUE], who)

stopServer(s, then, who) ==
    LET n == StopBegins(s, who)
    IN IF ~Running(n) THEN Callback(finalizeStopped(n, who), then, who)
       ELSE {[n EXCEPT !.proc[n.pidFile] = IF @ = "recv" THEN "term" ELSE @,
                       !.tasks = @ \cup {[kind |-> "exit", op |-> n.opId, pid |-> n.pidFile,
                                          left |-> StopPolls - 1, then |-> then, who |-> who]}]}

stopServerSync(s, who) ==
    LET n == StopBegins(s, who)
    IN IF ~Running(n) THEN {finalizeStopped(n, who)}
       ELSE {finalizeStopped([n EXCEPT !.proc[n.pidFile] = "free"], who)}
              \cup (IF Unkillable THEN {finish([n EXCEPT !.proc[n.pidFile] = "kill"], who)}
                                  ELSE {})

OrphanAlways(s) == s.pidFile # None

Orphan(s) == s.pidFile # None /\ ~Running(s)

cleanupOrphanedResources(s) ==
    IF Orphan(s) THEN [s EXCEPT !.pidFile = None, !.firewall = FALSE] ELSE s

-----------------------------------------------------------------------------
(* Functions of main.lua on the shown widget.                              *)

MayRestart(s) == (s.beforeSuspend \/ s.beforeDisconnect) /\ ~s.userStopped

restartWhenReady(s, connected) ==
    IF ~MayRestart(s) \/ ~connected THEN {s}
    ELSE IF s.stopInProgress THEN {[s EXCEPT !.resume = TRUE]}
    ELSE start([s EXCEPT !.beforeSuspend = FALSE, !.beforeDisconnect = FALSE], TRUE, "cur")

\* init: clean up, resume or autostart, take over polling, register
init(s, connected) ==
    LET c == cleanupOrphanedResources(s)
        begun == IF c.beforeSuspend /\ ~c.userStopped THEN restartWhenReady(c, connected)
                 ELSE IF Autostart /\ ~c.userStopped /\ connected THEN start(c, TRUE, "cur")
                 ELSE {c}
        polled(s2) == IF Running(s2) THEN schedulePolling(s2, "cur") ELSE s2
    IN {registerEvents(polled(s2), "cur") : s2 \in begun}

-----------------------------------------------------------------------------
Init ==
    /\ k = Fresh([proc |-> [p \in Pid |-> "free"], pidFile |-> None,
                  firewall |-> FALSE, busy |-> FALSE])
    /\ app = "down" /\ asleep = FALSE /\ net \in BOOLEAN
    /\ runs = 0 /\ exited = FALSE

Awake == app # "down" /\ ~asleep

Room == k.opId < MaxOps

StartKOReader ==
    /\ app = "down" /\ runs < MaxRuns
    /\ \E s \in init(Fresh(k), net) : k' = s
    /\ app' = "open" /\ runs' = runs + 1 /\ exited' = FALSE
    /\ UNCHANGED <<asleep, net>>

\* toggle: stop, or start when connected; offline, KOReader asks for Wi-Fi
Toggle ==
    /\ app = "open" /\ Awake /\ Room /\ ~k.stopInProgress
    /\ LET on == [k EXCEPT !.userStopped = FALSE]
       IN IF Running(k) THEN \E s \in stopServer([k EXCEPT !.userStopped = TRUE], "none", "cur") : k' = s
          ELSE IF net THEN \E s \in start(on, FALSE, "cur") : k' = s
          ELSE k' = [on EXCEPT !.waitNet = @ \cup {"cur"}]
    /\ UNCHANGED world

\* restart: stop with a callback that starts again
Restart ==
    /\ app = "open" /\ Awake /\ Room
    /\ LET on == [k EXCEPT !.userStopped = FALSE]
       IN \E s \in (IF Running(k) \/ k.stopInProgress THEN stopServer(on, "start", "cur")
                    ELSE start(on, FALSE, "cur")) : k' = s
    /\ UNCHANGED world

StartWantedAlways(s) == TRUE

StartWanted(s) == ~s.userStopped

\* the closure given to NetworkMgr:runWhenConnected
RunWhenConnected(who) ==
    /\ Awake /\ net /\ who \in k.waitNet
    /\ LET s == [k EXCEPT !.waitNet = @ \ {who}]
       IN IF StartWanted(s) THEN \E s2 \in start(s, FALSE, who) : k' = s2 ELSE k' = s
    /\ UNCHANGED world

-----------------------------------------------------------------------------
(* Scheduled closures.                                                     *)

\* waitForServerReady
ReadyTask(t) ==
    LET s == [k EXCEPT !.tasks = @ \ {t}]
        next == [s EXCEPT !.tasks = @ \cup {[t EXCEPT !.left = t.left - 1]}]
    IN /\ Awake /\ t \in k.tasks /\ t.kind = "ready"
       /\ k' = IF t.left # 0 /\ ~Running(s) THEN next
               ELSE IF ~isCurrentServerOp(s, t) THEN s
               ELSE IF t.left = 0 THEN onServerStartFailed(s, t.who)
               ELSE onServerStarted(s, t.who)
       /\ UNCHANGED world

OutOfPolls(t) == t.left = 0

\* waitForProcessExit(pid, n, false): polls /proc/<pid>, then SIGKILL by pid alone
ExitTask(t) ==
    LET s == [k EXCEPT !.tasks = @ \ {t}]
        next == [s EXCEPT !.tasks = @ \cup {[t EXCEPT !.left = t.left - 1]}]
        killed == [s EXCEPT !.proc[t.pid] = IF @ = "other" THEN "free" ELSE "kill",
                            !.tasks = @ \cup {[t EXCEPT !.kind = "kill", !.left = 0]}]
    IN /\ Awake /\ t \in k.tasks /\ t.kind = "exit"
       /\ IF IsAlive(s, t.pid) /\ ~OutOfPolls(t) THEN k' = next
          ELSE IF ~isCurrentServerOp(s, t) THEN k' = s
          ELSE IF IsAlive(s, t.pid) THEN k' = killed
          ELSE \E s2 \in Callback(finalizeStopped(s, t.who), t.then, t.who) : k' = s2
       /\ UNCHANGED world

\* the one check 0.2 s after SIGKILL
KillTask(t) ==
    LET s == [k EXCEPT !.tasks = @ \ {t}]
    IN /\ Awake /\ t \in k.tasks /\ t.kind = "kill"
       /\ IF ~isCurrentServerOp(s, t) THEN k' = s
          ELSE IF IsAlive(s, t.pid) THEN k' = finish(s, t.who)
          ELSE \E s2 \in Callback(finalizeStopped(s, t.who), t.then, t.who) : k' = s2
       /\ UNCHANGED world

\* resume_start_task
ResumeTask ==
    /\ Awake /\ k.resume
    /\ LET s == [k EXCEPT !.resume = FALSE]
       IN \E s2 \in restartWhenReady(s, net) : k' = s2
    /\ UNCHANGED world

\* checkSentinelFile: the receiver may die before the last isRunning()
SentinelPoll(who) ==
    LET idle == unschedulePolling(k, who)
        seen == [k EXCEPT !.hold = k.busy]
    IN /\ Awake /\ who \in k.poll
       /\ IF Running(k) THEN k' \in {seen, [unschedulePolling(seen, who) EXCEPT !.proc[k.pidFile] = "free"]}
          ELSE k' = reconcileServerState([idle EXCEPT !.hold = FALSE], who)
       /\ UNCHANGED world

-----------------------------------------------------------------------------
(* Power, network and widget events; a handler runs only when registered.  *)

\* _onSuspend, _onEnterStandby (which leaves the resume task scheduled)
Sleep(standby) ==
    LET quiet == [unschedulePolling(k, "cur") EXCEPT !.resume = @ /\ standby]
    IN /\ app = "open" /\ Awake /\ Room
       /\ asleep' = TRUE
       /\ IF ~k.handlers THEN k' = k
          ELSE IF Running(k)
          THEN \E s \in stopServerSync([quiet EXCEPT !.beforeSuspend = TRUE], "cur") : k' = s
          ELSE k' = [quiet EXCEPT !.beforeSuspend = FALSE]
       /\ UNCHANGED <<app, net, runs, exited>>

\* _onResume, _onLeaveStandby
Wake ==
    /\ app = "open" /\ asleep
    /\ asleep' = FALSE
    /\ IF k.handlers /\ k.beforeSuspend /\ ~k.userStopped
       THEN \E s \in restartWhenReady(k, net) : k' = s
       ELSE k' = k
    /\ UNCHANGED <<app, net, runs, exited>>

\* _onNetworkDisconnecting (Wi-Fi still up) and _onNetworkDisconnected
NetworkLost(gone) ==
    /\ app = "open" /\ Awake /\ Room /\ net
    /\ net' = ~gone
    /\ IF k.handlers /\ Running(k)
       THEN \E s \in stopServerSync([k EXCEPT !.beforeDisconnect = TRUE], "cur") : k' = s
       ELSE k' = k
    /\ UNCHANGED <<app, asleep, runs, exited>>

\* _onNetworkConnected
NetworkConnected ==
    /\ app = "open" /\ Awake /\ Room
    /\ net' = TRUE
    /\ IF k.handlers
       THEN \E s \in restartWhenReady(k, TRUE) : k' = s
       ELSE k' = k
    /\ UNCHANGED <<app, asleep, runs, exited>>

\* Wi-Fi goes down while the device sleeps: nobody is told
NetworkLostAsleep ==
    /\ asleep /\ net /\ net' = FALSE
    /\ UNCHANGED <<k, app, asleep, runs, exited>>

\* onCloseWidget: pending closures keep the closed widget's plugin object
CloseWidget ==
    /\ app = "open" /\ Awake /\ Room
    /\ app' = "closed"
    /\ k' = [k EXCEPT !.poll = @ \ {"cur"}, !.resume = FALSE, !.handlers = FALSE,
                      !.waitNet = IF @ = {} THEN {} ELSE {"old"},
                      !.tasks = {[t EXCEPT !.who = "old"] : t \in @}]
    /\ UNCHANGED <<asleep, net, runs, exited>>

\* init of the next widget: module state persists
OpenWidget ==
    /\ app = "closed"
    /\ app' = "open"
    /\ \E s \in init(k, net) : k' = s
    /\ UNCHANGED <<asleep, net, runs, exited>>

\* onExit (stopPlugin runs the same teardown): complete when it returns
Exit ==
    /\ app = "open" /\ Awake
    /\ app' = "down" /\ exited' = TRUE
    /\ \E s \in (IF Running(k) THEN stopServerSync(k, "cur") ELSE {[k EXCEPT !.firewall = FALSE]}) :
          k' = Fresh(s)
    /\ UNCHANGED <<asleep, net, runs>>

\* KOReader dies: the Lua state is gone, the receiver lives on
Crash ==
    /\ app # "down" /\ runs < MaxRuns
    /\ app' = "down" /\ asleep' = FALSE
    /\ k' = Fresh(k)
    /\ UNCHANGED <<net, runs, exited>>

-----------------------------------------------------------------------------
(* The device's processes.                                                 *)

\* a receiver ends; its busy marker stays when it could not clean up
ProcessEnds(p) ==
    /\ k.proc[p] \in Receiver
    /\ \E left \in {k.busy, FALSE} : k' = [k EXCEPT !.proc[p] = "free", !.busy = left]
    /\ UNCHANGED world

\* another program gets a free pid, or ends
OtherProcess(p) ==
    /\ PidReuse /\ k.proc[p] \in {"free", "other"}
    /\ k' = [k EXCEPT !.proc[p] = IF @ = "free" THEN "other" ELSE "free"]
    /\ UNCHANGED world

\* a file write begins or the last one ends: the busy marker
Transfer(p) ==
    /\ k.proc[p] = "recv"
    /\ k' = [k EXCEPT !.busy = ~@]
    /\ UNCHANGED world

TaskStep == \E t \in k.tasks : ReadyTask(t) \/ ExitTask(t) \/ KillTask(t)

Next ==
    \/ StartKOReader \/ Toggle \/ Restart \/ ResumeTask
    \/ \E t \in k.tasks : ReadyTask(t) \/ ExitTask(t) \/ KillTask(t)
    \/ \E who \in Instance : RunWhenConnected(who) \/ SentinelPoll(who)
    \/ \E standby \in BOOLEAN : Sleep(standby)
    \/ Wake
    \/ \E gone \in BOOLEAN : NetworkLost(gone)
    \/ NetworkConnected \/ NetworkLostAsleep
    \/ CloseWidget \/ OpenWidget \/ Exit \/ Crash
    \/ \E p \in Pid : ProcessEnds(p) \/ OtherProcess(p) \/ Transfer(p)

Spec == Init /\ [][Next]_vars

\* KOReader's UI loop runs what is scheduled and opens the next widget.
\* Users, the network and the processes owe nothing.
FairSpec ==
    /\ Spec
    /\ WF_vars(TaskStep) /\ WF_vars(ResumeTask) /\ WF_vars(OpenWidget)
    /\ \A who \in Instance : WF_vars(SentinelPoll(who))

-----------------------------------------------------------------------------
PluginState ==
    [proc : [Pid -> ProcessState], pidFile : Pid \cup {None}, firewall : BOOLEAN, busy : BOOLEAN,
     userStopped : BOOLEAN, beforeSuspend : BOOLEAN, beforeDisconnect : BOOLEAN,
     stopInProgress : BOOLEAN, hold : BOOLEAN, resume : BOOLEAN, handlers : BOOLEAN,
     unseen : BOOLEAN, opId : Nat, poll : SUBSET Instance, waitNet : SUBSET Instance, tasks : SUBSET Closure]

\* Types of the plugin state, and poll counts that never run below zero
\* (waitForProcessExit and waitForServerReady stop at attempts_remaining <= 0).
TypeOK ==
    /\ k \in PluginState
    /\ app \in {"open", "closed", "down"} /\ runs \in 0..MaxRuns
    /\ asleep \in BOOLEAN /\ net \in BOOLEAN /\ exited \in BOOLEAN

\* The PID file names every live receiver: no interleaving of starts, stops,
\* stale closures, document switches and KOReader crashes leaves a receiver
\* that the plugin can no longer find, or starts a second one
\* (localsend_server.lua start, removePIDFile, isCurrentServerOp).
ReceiverTracked == Live(k) \subseteq {k.pidFile}

\* A receiver that was not told to stop has its ports open: no stale start
\* or stop closure and no orphan cleanup closes the firewall under it
\* (openFirewall before the launch, closeFirewall in finalizeStopped,
\* onServerStartFailed and cleanupOrphanedResources).
PortsOpen == \A p \in Pid : k.proc[p] = "recv" => k.firewall

\* No receiver but one that was sent SIGKILL.
Stopped(s) == \A p \in Pid : s.proc[p] \notin {"recv", "term"}

\* The device sleeps with a receiver that was not killed only if the shown widget
\* has not run registerEvents since the launch, which is the case after a closure of
\* a closed widget started it and registered the handlers on that widget: there
\* main.lua's "Stop server before device suspends" fails.  Every other launch,
\* takeover and document switch leaves the shown widget's handlers registered while
\* a receiver runs, and _onSuspend and _onEnterStandby stop it before they return.
SeenReceiverStops == asleep /\ ~k.unseen => Stopped(k)

\* onExit and stopPlugin return only when the receiver is gone or has been
\* sent SIGKILL; unless it outlived that, PID file and firewall rules are gone.
TeardownComplete ==
    (app = "down" /\ exited) => /\ Stopped(k)
                                /\ k.pidFile = None => ~k.firewall

\* The plugin, its receiver and its files fit together in every state: the three
\* invariants above, within the types.
PluginSound == TypeOK /\ ReceiverTracked /\ PortsOpen /\ TeardownComplete

\* After the user stopped the server nothing but the user starts it: not a
\* resume, a reconnect, a document switch or a closure scheduled earlier
\* (user_stopped in _restartWhenReady, init, _startWhenConnected).
StartsDespiteUser ==
    /\ k.userStopped /\ k'.userStopped
    /\ \E p \in Pid : k.proc[p] = "free" /\ k'.proc[p] = "recv"

UserStopHolds == [][~StartsDespiteUser]_vars

\* stop_in_progress, which refuses every start and toggle, is always cleared
\* again while the device is awake, whatever operation superseded the stop
\* that set it (finish, reconcileServerState).
StopSettles == k.stopInProgress ~> (~k.stopInProgress \/ asleep \/ app = "down")

=============================================================================
