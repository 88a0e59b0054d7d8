--------------------------- MODULE DevicePresence ---------------------------
(***************************************************************************)
(* Device.is_online and Device.last_heartbeat, written by the connection   *)
(* handlers of ConnectionRegistry and by the Celery task                   *)
(* check_offline_devices, and the device_offline alerts of that task.      *)
(***************************************************************************)
EXTENDS ConnectionRegistry

CONSTANT Sweep      \* executions of check_offline_devices that may overlap

ASSUME SweepAssumption == IsFiniteSet(Sweep)

VARIABLES
    isOnline,    \* Device.is_online
    lastBeat,    \* Device.last_heartbeat: NULL, within 15 minutes, or older
    beat,        \* a heartbeat of this connection is under way
    openAlerts,  \* open device_offline alerts of each device
    sweepPc,     \* where each execution stands
    stale,       \* the devices its select returned
    checked,     \* those whose open alerts it has looked up
    missing,     \* those it found without an open alert
    stranded     \* history: a handler died after it marked the device online

deviceVars == <<isOnline, lastBeat, beat, openAlerts, stranded>>
sweepVars == <<sweepPc, stale, checked, missing>>
vars == <<registryVars, deviceVars, sweepVars>>

\* One alert per overlapping execution is the most that can be open.
AlertBound == Cardinality(Sweep)

(* Types, and what a sweep may hold: the devices it has looked up are      *)
(* among those its select returned, and each of those has sent a heartbeat *)
(* at some time, so no sweep takes a device offline that has connected     *)
(* and is about to send its first one.                                     *)
TypeOK ==
    /\ RegistryTypeOK
    /\ isOnline \in [Device -> BOOLEAN]
    /\ lastBeat \in [Device -> {"never", "fresh", "stale"}]
    /\ beat \in [Conn -> BOOLEAN]
    /\ openAlerts \in [Device -> Nat]
    /\ stranded \in [Device -> BOOLEAN]
    /\ sweepPc \in [Sweep -> {"idle", "running"}]
    /\ stale \in [Sweep -> SUBSET Device]
    /\ checked \in [Sweep -> SUBSET Device]
    /\ missing \in [Sweep -> SUBSET Device]
    /\ \A s \in Sweep : /\ missing[s] \subseteq checked[s]
                        /\ checked[s] \subseteq stale[s]
                        /\ \A d \in stale[s] : lastBeat[d] # "never"
                        /\ sweepPc[s] = "idle" => stale[s] = {}

Init ==
    /\ RegistryInit
    /\ isOnline = [d \in Device |-> FALSE]
    /\ lastBeat = [d \in Device |-> "never"]
    /\ beat = [c \in Conn |-> FALSE]
    /\ openAlerts = [d \in Device |-> 0]
    /\ stranded = [d \in Device |-> FALSE]
    /\ sweepPc = [s \in Sweep |-> "idle"]
    /\ stale = [s \in Sweep |-> {}]
    /\ checked = [s \in Sweep |-> {}]
    /\ missing = [s \in Sweep |-> {}]

-----------------------------------------------------------------------------
(* The handler of one connection.                                          *)

AgentConnects(c, w) ==
    /\ ConnectAgent(c, w)
    /\ UNCHANGED <<deviceVars, sweepVars>>

HandlerMarksOnline(c) ==
    /\ MarkOnline(c)
    /\ isOnline' = [isOnline EXCEPT ![deviceOf[c]] = TRUE]
    /\ UNCHANGED <<lastBeat, beat, openAlerts, stranded, sweepVars>>

HandlerFinishesSetup(c) ==
    /\ FinishSetup(c)
    /\ UNCHANGED <<deviceVars, sweepVars>>

(* The coroutine is gone; whatever it wrote to the device row stays.       *)
HandlerSetupFails(c) ==
    /\ SetupFails(c)
    /\ stranded' = [stranded EXCEPT ![deviceOf[c]] = @ \/ pc[c] = "online"]
    /\ beat' = [beat EXCEPT ![c] = FALSE]
    /\ UNCHANGED <<isOnline, lastBeat, openAlerts, sweepVars>>

(* A heartbeat under way is lost, or already in the server's buffer.       *)
LinkDrops(c) ==
    /\ DropLink(c)
    /\ \E arrives \in BOOLEAN : beat' = [beat EXCEPT ![c] = @ /\ arrives]
    /\ UNCHANGED <<isOnline, lastBeat, openAlerts, stranded, sweepVars>>

SendHeartbeat(c) ==
    /\ link[c]
    /\ ~beat[c]
    /\ beat' = [beat EXCEPT ![c] = TRUE]
    /\ UNCHANGED <<registryVars, isOnline, lastBeat, openAlerts, stranded, sweepVars>>

(* Variant: the heartbeat refreshes last_heartbeat alone.                  *)
HandleHeartbeatTimeOnly(c) ==
    /\ pc[c] = "receiving"
    /\ beat[c]
    /\ beat' = [beat EXCEPT ![c] = FALSE]
    /\ lastBeat' = [lastBeat EXCEPT ![deviceOf[c]] = "fresh"]
    /\ UNCHANGED <<registryVars, isOnline, openAlerts, stranded, sweepVars>>

HandleHeartbeat(c) ==
    /\ pc[c] = "receiving"
    /\ beat[c]
    /\ beat' = [beat EXCEPT ![c] = FALSE]
    /\ isOnline' = [isOnline EXCEPT ![deviceOf[c]] = TRUE]
    /\ lastBeat' = [lastBeat EXCEPT ![deviceOf[c]] = "fresh"]
    /\ UNCHANGED <<registryVars, openAlerts, stranded, sweepVars>>

HandlerLeaves(c) ==
    /\ Leave(c)
    /\ beat' = [beat EXCEPT ![c] = FALSE]
    /\ UNCHANGED <<isOnline, lastBeat, openAlerts, stranded, sweepVars>>

(* Variant: offline is written for WebSocketDisconnect, not in a finally.  *)
HandlerMarksOfflineOnDisconnect(c) ==
    /\ MarkOffline(c)
    /\ isOnline' = [isOnline EXCEPT ![deviceOf[c]] = @ /\ link[c]]
    /\ stranded' = [stranded EXCEPT ![deviceOf[c]] = FALSE]
    /\ beat' = [beat EXCEPT ![c] = FALSE]
    /\ UNCHANGED <<lastBeat, openAlerts, sweepVars>>

HandlerMarksOffline(c) ==
    /\ MarkOffline(c)
    /\ isOnline' = [isOnline EXCEPT ![deviceOf[c]] = FALSE]
    /\ stranded' = [stranded EXCEPT ![deviceOf[c]] = FALSE]
    /\ beat' = [beat EXCEPT ![c] = FALSE]
    /\ UNCHANGED <<lastBeat, openAlerts, sweepVars>>

HandlerMarkOfflineFails(c) ==
    /\ MarkOfflineFails(c)
    /\ stranded' = [stranded EXCEPT ![deviceOf[c]] = TRUE]
    /\ beat' = [beat EXCEPT ![c] = FALSE]
    /\ UNCHANGED <<isOnline, lastBeat, openAlerts, sweepVars>>

WorkerCrashes(w) ==
    /\ Crash(w)
    /\ beat' = [c \in Conn |-> beat[c] /\ worker[c] # w]
    /\ stranded' = [d \in Device |->
           \/ stranded[d]
           \/ \E c \in Conn : /\ deviceOf[c] = d
                              /\ worker[c] = w
                              /\ pc[c] \in {"online", "receiving", "leaving"}]
    /\ UNCHANGED <<isOnline, lastBeat, openAlerts, sweepVars>>

(* Fifteen minutes pass without a heartbeat.                               *)
HeartbeatAges(d) ==
    /\ lastBeat[d] = "fresh"
    /\ lastBeat' = [lastBeat EXCEPT ![d] = "stale"]
    /\ UNCHANGED <<registryVars, isOnline, beat, openAlerts, stranded, sweepVars>>

-----------------------------------------------------------------------------
(* One execution of check_offline_devices: a select, a look-up per stale   *)
(* device, and a commit that writes everything at once (autoflush is off). *)

(* Variant: a last_heartbeat of NULL counts as old.                        *)
NotFreshDevices == {d \in Device : isOnline[d] /\ lastBeat[d] # "fresh"}

(* A comparison with NULL is not true in SQL.                              *)
StaleDevices == {d \in Device : isOnline[d] /\ lastBeat[d] = "stale"}

SweepSelect(s) ==
    /\ sweepPc[s] = "idle"
    /\ StaleDevices # {}
    /\ sweepPc' = [sweepPc EXCEPT ![s] = "running"]
    /\ stale' = [stale EXCEPT ![s] = StaleDevices]
    /\ UNCHANGED <<registryVars, deviceVars, checked, missing>>

SweepEnds(s) ==
    /\ sweepPc' = [sweepPc EXCEPT ![s] = "idle"]
    /\ stale' = [stale EXCEPT ![s] = {}]
    /\ checked' = [checked EXCEPT ![s] = {}]
    /\ missing' = [missing EXCEPT ![s] = {}]

(* Variant: an alert for every stale device.                               *)
SweepNeverLooks(s, d) ==
    /\ sweepPc[s] = "running"
    /\ d \in stale[s] \ checked[s]
    /\ checked' = [checked EXCEPT ![s] = @ \cup {d}]
    /\ missing' = [missing EXCEPT ![s] = @ \cup {d}]
    /\ UNCHANGED <<registryVars, deviceVars, sweepPc, stale>>

SweepLooksUp(s, d) ==
    /\ sweepPc[s] = "running"
    /\ d \in stale[s] \ checked[s]
    /\ openAlerts[d] <= 1
    /\ checked' = [checked EXCEPT ![s] = @ \cup {d}]
    /\ missing' = [missing EXCEPT ![s] =
                       IF openAlerts[d] = 0 THEN @ \cup {d} ELSE @]
    /\ UNCHANGED <<registryVars, deviceVars, sweepPc, stale>>

(* The execution ends before its commit: the worker process is killed, or  *)
(* the database fails.  Nothing it was about to write stays.               *)
SweepAborts(s) ==
    /\ sweepPc[s] = "running"
    /\ SweepEnds(s)
    /\ UNCHANGED <<registryVars, deviceVars>>

(* scalar_one_or_none raises on a second open alert of a device.           *)
SweepRaises(s) ==
    /\ \E d \in stale[s] \ checked[s] : openAlerts[d] > 1
    /\ SweepAborts(s)

(* Variant: the sweep raises alerts and leaves the device online.          *)
SweepCommitsAlerts(s) ==
    /\ sweepPc[s] = "running"
    /\ checked[s] = stale[s]
    /\ openAlerts' = [d \in Device |->
                         IF d \in missing[s] THEN openAlerts[d] + 1 ELSE openAlerts[d]]
    /\ SweepEnds(s)
    /\ UNCHANGED <<registryVars, isOnline, stranded, lastBeat, beat>>

SweepCommits(s) ==
    /\ sweepPc[s] = "running"
    /\ checked[s] = stale[s]
    /\ isOnline' = [d \in Device |-> isOnline[d] /\ d \notin stale[s]]
    /\ stranded' = [d \in Device |-> stranded[d] /\ d \notin stale[s]]
    /\ openAlerts' = [d \in Device |->
                         IF d \in missing[s] THEN openAlerts[d] + 1 ELSE openAlerts[d]]
    /\ SweepEnds(s)
    /\ UNCHANGED <<registryVars, lastBeat, beat>>

(* acknowledge_alert and resolve_alert both take an alert out of "open".   *)
AdminClosesAlert(d) ==
    /\ openAlerts[d] > 0
    /\ openAlerts' = [openAlerts EXCEPT ![d] = @ - 1]
    /\ UNCHANGED <<registryVars, isOnline, lastBeat, beat, stranded, sweepVars>>

-----------------------------------------------------------------------------
ConnStep(c) ==
    \/ HandlerMarksOnline(c)
    \/ HandlerFinishesSetup(c)
    \/ HandlerSetupFails(c)
    \/ LinkDrops(c)
    \/ SendHeartbeat(c)
    \/ HandleHeartbeat(c)
    \/ HandlerLeaves(c)
    \/ HandlerMarksOffline(c)
    \/ HandlerMarkOfflineFails(c)

SweepWorks(s) ==
    \/ SweepSelect(s)
    \/ \E d \in Device : SweepLooksUp(s, d)
    \/ SweepRaises(s)
    \/ SweepCommits(s)

Next ==
    \/ \E c \in Conn, w \in Worker : AgentConnects(c, w)
    \/ \E c \in Conn : ConnStep(c)
    \/ \E w \in Worker : WorkerCrashes(w)
    \/ \E d \in Device : HeartbeatAges(d) \/ AdminClosesAlert(d)
    \/ \E s \in Sweep : SweepWorks(s) \/ SweepAborts(s)

Spec == Init /\ [][Next]_vars

(* The event loop runs every ready coroutine, uvicorn's keep-alive ping    *)
(* finds a dead link, the agent sends its heartbeats, time passes, and     *)
(* Celery beat starts a sweep every five minutes.  Nothing makes a link    *)
(* drop, an agent connect, a handler raise, a worker crash, a sweep be     *)
(* killed, or an administrator close an alert.                             *)
Fairness ==
    /\ \A c \in Conn :
        /\ WF_pc(HandlerMarksOnline(c))
        /\ WF_pc(HandlerFinishesSetup(c))
        /\ WF_pc(~link[c] /\ HandlerLeaves(c))
        /\ WF_pc(HandlerMarksOffline(c))
        /\ WF_beat(SendHeartbeat(c))
        /\ WF_beat(HandleHeartbeat(c))
    /\ \A d \in Device : WF_lastBeat(HeartbeatAges(d))
    /\ \A s \in Sweep : WF_sweepVars(SweepWorks(s))

FairSpec == Spec /\ Fairness

-----------------------------------------------------------------------------
(* A device is shown online only while a handler that marked it online has *)
(* not yet marked it offline, or because such a handler died.  It holds    *)
(* although handlers of one device overlap and write in any order.         *)
OnlineHasHandler ==
    \A d \in Device :
        isOnline[d] =>
            \/ stranded[d]
            \/ \E c \in Conn : /\ deviceOf[c] = d
                               /\ pc[c] \in {"online", "receiving", "leaving"}

(* Overlapping sweeps check for an open alert before they insert one, so   *)
(* one device never collects more open device_offline alerts than sweeps   *)
(* overlap, counting those that are about to be inserted; one sweep at a   *)
(* time keeps them unique.                                                 *)
DuplicateAlertsBounded ==
    \A d \in Device :
        openAlerts[d] + Cardinality({s \in Sweep : d \in missing[s]}) <= AlertBound

(* An agent that has sent a heartbeat and has gone for good is eventually  *)
(* shown offline for good, by its handler or, if that died, by the sweep,  *)
(* unless for ever sweeps are killed, or devices are found with two open   *)
(* alerts, which makes the sweep of all devices raise.                     *)
GoneAgentsGoOffline ==
    \A d \in Device :
        <>[](~Connected(d) /\ lastBeat[d] # "never") =>
            \/ <>[](~isOnline[d])
            \/ []<><<\E s \in Sweep : SweepAborts(s)>>_vars
            \/ []<>(\E e \in Device : openAlerts[e] > 1)

(* An agent whose connection stays up is shown online again and again,     *)
(* whatever an older handler or a sweep wrote in between.                  *)
LiveAgentsComeOnline ==
    \A c \in Conn :
        <>[](link[c] /\ pc[c] = "receiving") => []<>isOnline[deviceOf[c]]
=============================================================================
