------------------------ MODULE DevicePresenceProofs ------------------------
(***************************************************************************)
(* Proofs about ConnectionRegistry and about DevicePresence, for every set *)
(* of devices, workers and connections and every number of overlapping     *)
(* sweeps.                                                                 *)
(***************************************************************************)
EXTENDS DevicePresence, FiniteSetTheorems, TLAPS

(* The registry, whatever its module is composed with: a step of another   *)
(* module is a registry step or leaves the registry alone, so the step     *)
(* lemmas are stated for RegistryNext and stuttering.                      *)
RegistryInv == RegistryTypeOK /\ RegisteredIsServed

-----------------------------------------------------------------------------
(* The initial states have the invariant: every registry is empty.         *)
LEMMA RegistryInitInv == RegistryInit => RegistryInv
BY DeviceOfAssumption, NoConnAssumption, MaxFaultsAssumption
   DEF RegistryInit, RegistryInv, RegistryTypeOK, RegisteredIsServed, Phase

(* Every step of a handler, a link or a worker keeps the types.            *)
LEMMA RegistryTypeStep ==
    ASSUME RegistryTypeOK, [RegistryNext]_registryVars
    PROVE  RegistryTypeOK'
<1> USE DeviceOfAssumption, MaxFaultsAssumption DEF RegistryTypeOK, Phase
<1>1. ASSUME NEW c \in Conn, NEW w \in Worker, ConnectAgent(c, w)
      PROVE  RegistryTypeOK'
  BY <1>1 DEF ConnectAgent
<1>2. ASSUME NEW c \in Conn, MarkOnline(c)
      PROVE  RegistryTypeOK'
  BY <1>2 DEF MarkOnline
<1>3. ASSUME NEW c \in Conn, FinishSetup(c)
      PROVE  RegistryTypeOK'
  BY <1>3 DEF FinishSetup
<1>4. ASSUME NEW c \in Conn, SetupFails(c)
      PROVE  RegistryTypeOK'
  BY <1>4 DEF SetupFails
<1>5. ASSUME NEW c \in Conn, DropLink(c)
      PROVE  RegistryTypeOK'
  BY <1>5 DEF DropLink
<1>6. ASSUME NEW c \in Conn, Leave(c)
      PROVE  RegistryTypeOK'
  BY <1>6 DEF Leave
<1>7. ASSUME NEW c \in Conn, MarkOffline(c)
      PROVE  RegistryTypeOK'
  BY <1>7 DEF MarkOffline, EndHandler
<1>8. ASSUME NEW c \in Conn, MarkOfflineFails(c)
      PROVE  RegistryTypeOK'
  BY <1>8 DEF MarkOfflineFails, EndHandler
<1>9. ASSUME NEW w \in Worker, Crash(w)
      PROVE  RegistryTypeOK'
  BY <1>9 DEF Crash
<1>10. CASE UNCHANGED registryVars
  BY <1>10 DEF registryVars
<1> QED
  BY <1>1, <1>2, <1>3, <1>4, <1>5, <1>6, <1>7, <1>8, <1>9, <1>10 DEF RegistryNext

(* The same steps keep every entry on a connection being served.  Leave    *)
(* may remove the entry of a newer connection, but never leaves its own;   *)
(* a slot is reused only when no entry refers to it.                       *)
LEMMA RegisteredIsServedStep ==
    ASSUME RegistryInv, [RegistryNext]_registryVars
    PROVE  RegisteredIsServed'
<1> USE DeviceOfAssumption, NoConnAssumption
    DEF RegistryInv, RegistryTypeOK, RegisteredIsServed, Phase, Serving, Setup
<1>1. ASSUME NEW c \in Conn, NEW v \in Worker, ConnectAgent(c, v)
      PROVE  RegisteredIsServed'
  <2> SUFFICES ASSUME NEW w \in Worker, NEW d \in Device, agents'[w][d] # NoConn
               PROVE  LET e == agents'[w][d]
                      IN  deviceOf[e] = d /\ worker'[e] = w
                          /\ pc'[e] \in Serving \cup {"failed"}
    OBVIOUS
  <2>1. CASE w = v /\ d = deviceOf[c]
    BY <1>1, <2>1 DEF ConnectAgent
  <2>2. CASE ~(w = v /\ d = deviceOf[c])
    <3>1. agents'[w][d] = agents[w][d]
      BY <1>1, <2>2 DEF ConnectAgent
    <3>2. agents[w][d] # c
      <4> SUFFICES ASSUME agents[w][d] = c PROVE FALSE
        OBVIOUS
      <4>1. deviceOf[c] = d /\ worker[c] = w /\ pc[c] \in Serving \cup {"failed"}
        OBVIOUS
      <4>2. Entry(c) = c
        BY <4>1 DEF Entry
      <4> QED
        BY <1>1, <4>1, <4>2 DEF ConnectAgent, Free
    <3> QED
      BY <1>1, <3>1, <3>2 DEF ConnectAgent
  <2> QED
    BY <2>1, <2>2
<1>2. ASSUME NEW c \in Conn, MarkOnline(c)
      PROVE  RegisteredIsServed'
  BY <1>2 DEF MarkOnline
<1>3. ASSUME NEW c \in Conn, FinishSetup(c)
      PROVE  RegisteredIsServed'
  BY <1>3 DEF FinishSetup
<1>4. ASSUME NEW c \in Conn, SetupFails(c)
      PROVE  RegisteredIsServed'
  BY <1>4 DEF SetupFails
<1>5. ASSUME NEW c \in Conn, DropLink(c)
      PROVE  RegisteredIsServed'
  BY <1>5 DEF DropLink
<1>6. ASSUME NEW c \in Conn, Leave(c)
      PROVE  RegisteredIsServed'
  BY <1>6 DEF Leave
<1>7. ASSUME NEW c \in Conn, EndHandler(c)
      PROVE  RegisteredIsServed'
  BY <1>7 DEF EndHandler
<1>8. ASSUME NEW v \in Worker, Crash(v)
      PROVE  RegisteredIsServed'
  BY <1>8 DEF Crash
<1>9. CASE UNCHANGED registryVars
  BY <1>9 DEF registryVars
<1> QED
  BY <1>1, <1>2, <1>3, <1>4, <1>5, <1>6, <1>7, <1>8, <1>9
     DEF RegistryNext, MarkOffline, MarkOfflineFails

(* One step of anything that respects the registry keeps its invariant.    *)
LEMMA RegistryStep ==
    ASSUME RegistryInv, [RegistryNext]_registryVars
    PROVE  RegistryInv'
BY RegistryTypeStep, RegisteredIsServedStep DEF RegistryInv

-----------------------------------------------------------------------------
(* In every behaviour, whatever overlaps or crashes, the registry of a     *)
(* worker refers to a connection of the right device which that worker is  *)
(* still serving, or whose setup raised; and the state is well typed.      *)
THEOREM RegistryInvariant == RegistrySpec => [](RegistryTypeOK /\ RegisteredIsServed)
<1>1. RegistryInit => RegistryInv
  BY RegistryInitInv
<1>2. RegistryInv /\ [RegistryNext]_registryVars => RegistryInv'
  BY RegistryStep
<1> QED
  BY <1>1, <1>2, PTL DEF RegistrySpec, RegistryInv

-----------------------------------------------------------------------------
(* Every step is a registry step or leaves the registry alone.             *)
LEMMA StepOfRegistry ==
    ASSUME [Next]_vars
    PROVE  [RegistryNext]_registryVars
BY DEF Next, vars, ConnStep, SweepWorks, SweepRaises, RegistryNext,
       AgentConnects, HandlerMarksOnline, HandlerFinishesSetup,
       HandlerSetupFails, LinkDrops, SendHeartbeat, HandleHeartbeat,
       HandlerLeaves, HandlerMarksOffline, HandlerMarkOfflineFails,
       WorkerCrashes, HeartbeatAges, AdminClosesAlert,
       SweepSelect, SweepLooksUp, SweepAborts, SweepCommits

(* DevicePresence implements ConnectionRegistry: adding the device table   *)
(* and the sweep restricts nothing and allows nothing new.                 *)
THEOREM ImplementsRegistry == Spec => RegistrySpec
<1>1. Init => RegistryInit
  BY DEF Init
<1>2. [Next]_vars => [RegistryNext]_registryVars
  BY StepOfRegistry
<1> QED
  BY <1>1, <1>2, PTL DEF Spec, RegistrySpec

-----------------------------------------------------------------------------
(* Types.                                                                  *)

LEMMA TypeInit == Init => TypeOK
BY RegistryInitInv
   DEF Init, TypeOK, RegistryInv

LEMMA TypeStep ==
    ASSUME TypeOK, [Next]_vars
    PROVE  TypeOK'
<1> USE DeviceOfAssumption
<1>1. RegistryTypeOK'
  BY StepOfRegistry, RegistryTypeStep DEF TypeOK
<1>2. /\ pc \in [Conn -> Phase]
      /\ worker \in [Conn -> Worker]
  BY DEF TypeOK, RegistryTypeOK
<1>3. ASSUME NEW c \in Conn, NEW w \in Worker, AgentConnects(c, w)
      PROVE  TypeOK'
  BY <1>1, <1>3 DEF TypeOK, AgentConnects, deviceVars, sweepVars
<1>4. ASSUME NEW c \in Conn, ConnStep(c)
      PROVE  TypeOK'
  <2> USE <1>1, <1>2 DEF TypeOK, deviceVars, sweepVars
  <2>1. CASE HandlerMarksOnline(c)
    BY <2>1 DEF HandlerMarksOnline
  <2>2. CASE HandlerFinishesSetup(c)
    BY <2>2 DEF HandlerFinishesSetup
  <2>3. CASE HandlerSetupFails(c)
    BY <2>3 DEF HandlerSetupFails
  <2>4. CASE LinkDrops(c)
    BY <2>4 DEF LinkDrops
  <2>5. CASE SendHeartbeat(c)
    BY <2>5 DEF SendHeartbeat
  <2>6. CASE HandleHeartbeat(c)
    BY <2>6 DEF HandleHeartbeat
  <2>7. CASE HandlerLeaves(c)
    BY <2>7 DEF HandlerLeaves
  <2>8. CASE HandlerMarksOffline(c)
    BY <2>8 DEF HandlerMarksOffline
  <2>9. CASE HandlerMarkOfflineFails(c)
    BY <2>9 DEF HandlerMarkOfflineFails
  <2> QED
    BY <1>4, <2>1, <2>2, <2>3, <2>4, <2>5, <2>6, <2>7, <2>8, <2>9 DEF ConnStep
<1>5. ASSUME NEW w \in Worker, WorkerCrashes(w)
      PROVE  TypeOK'
  BY <1>1, <1>2, <1>5 DEF TypeOK, WorkerCrashes, sweepVars
<1>6. ASSUME NEW d \in Device, HeartbeatAges(d) \/ AdminClosesAlert(d)
      PROVE  TypeOK'
  BY <1>1, <1>6 DEF TypeOK, HeartbeatAges, AdminClosesAlert, sweepVars
<1>7. ASSUME NEW s \in Sweep, SweepWorks(s) \/ SweepAborts(s)
      PROVE  TypeOK'
  <2> USE <1>1 DEF TypeOK, deviceVars, sweepVars, SweepEnds
  <2>1. CASE SweepSelect(s)
    BY <2>1 DEF SweepSelect, StaleDevices
  <2>2. ASSUME NEW d \in Device, SweepLooksUp(s, d)
        PROVE  TypeOK'
    BY <2>2 DEF SweepLooksUp
  <2>3. CASE SweepAborts(s)
    BY <2>3 DEF SweepAborts
  <2>4. CASE SweepCommits(s)
    BY <2>4 DEF SweepCommits
  <2> QED
    BY <1>7, <2>1, <2>2, <2>3, <2>4 DEF SweepWorks, SweepRaises
<1>8. CASE UNCHANGED vars
  BY <1>1, <1>8 DEF TypeOK, vars, deviceVars, sweepVars
<1> QED
  BY <1>3, <1>4, <1>5, <1>6, <1>7, <1>8 DEF Next

(* Every variable keeps its type in every behaviour.                       *)
THEOREM TypeCorrect == Spec => []TypeOK
<1>1. Init => TypeOK
  BY TypeInit
<1>2. TypeOK /\ [Next]_vars => TypeOK'
  BY TypeStep
<1> QED
  BY <1>1, <1>2, PTL DEF Spec

-----------------------------------------------------------------------------
(* Presence.  OnlineHasHandler is inductive: the one step that takes the   *)
(* handler of a device away without marking it stranded, MarkOffline,      *)
(* writes the device offline in the same commit.                           *)

Active(c) == pc[c] \in {"online", "receiving", "leaving"}

LEMMA OnlineStep ==
    ASSUME TypeOK, OnlineHasHandler, [Next]_vars
    PROVE  OnlineHasHandler'
<1> USE DeviceOfAssumption
<1>1. /\ isOnline \in [Device -> BOOLEAN]
      /\ stranded \in [Device -> BOOLEAN]
      /\ pc \in [Conn -> Phase]
  BY DEF TypeOK, RegistryTypeOK
<1> SUFFICES ASSUME NEW d \in Device, isOnline'[d]
             PROVE  stranded'[d] \/ \E c \in Conn : deviceOf[c] = d /\ Active(c)'
  BY DEF OnlineHasHandler, Active
<1>2. isOnline[d] => stranded[d] \/ \E e \in Conn : deviceOf[e] = d /\ Active(e)
  BY DEF OnlineHasHandler, Active
<1>3. ASSUME NEW c \in Conn, NEW w \in Worker, AgentConnects(c, w)
      PROVE  stranded'[d] \/ \E e \in Conn : deviceOf[e] = d /\ Active(e)'
  BY <1>1, <1>2, <1>3
     DEF AgentConnects, ConnectAgent, Free, deviceVars, Active
<1>4. ASSUME NEW c \in Conn, ConnStep(c)
      PROVE  stranded'[d] \/ \E e \in Conn : deviceOf[e] = d /\ Active(e)'
  <2> USE <1>1, <1>2 DEF Active
  <2>1. CASE HandlerMarksOnline(c)
    BY <2>1 DEF HandlerMarksOnline, MarkOnline
  <2>2. CASE HandlerFinishesSetup(c)
    BY <2>2 DEF HandlerFinishesSetup, FinishSetup, deviceVars
  <2>3. CASE HandlerSetupFails(c)
    BY <2>3 DEF HandlerSetupFails, SetupFails, Setup
  <2>4. CASE LinkDrops(c)
    BY <2>4 DEF LinkDrops, DropLink
  <2>5. CASE SendHeartbeat(c)
    BY <2>5 DEF SendHeartbeat, registryVars
  <2>6. CASE HandleHeartbeat(c)
    BY <2>6 DEF HandleHeartbeat, registryVars
  <2>7. CASE HandlerLeaves(c)
    BY <2>7 DEF HandlerLeaves, Leave
  <2>8. CASE HandlerMarksOffline(c)
    BY <2>8 DEF HandlerMarksOffline, MarkOffline, EndHandler
  <2>9. CASE HandlerMarkOfflineFails(c)
    BY <2>9 DEF HandlerMarkOfflineFails, MarkOfflineFails, EndHandler
  <2> QED
    BY <1>4, <2>1, <2>2, <2>3, <2>4, <2>5, <2>6, <2>7, <2>8, <2>9 DEF ConnStep
<1>5. ASSUME NEW w \in Worker, WorkerCrashes(w)
      PROVE  stranded'[d] \/ \E e \in Conn : deviceOf[e] = d /\ Active(e)'
  BY <1>1, <1>2, <1>5 DEF WorkerCrashes, Crash, Active
<1>6. ASSUME NEW f \in Device, HeartbeatAges(f) \/ AdminClosesAlert(f)
      PROVE  stranded'[d] \/ \E e \in Conn : deviceOf[e] = d /\ Active(e)'
  BY <1>2, <1>6 DEF HeartbeatAges, AdminClosesAlert, registryVars, Active
<1>7. ASSUME NEW s \in Sweep, SweepWorks(s) \/ SweepAborts(s)
      PROVE  stranded'[d] \/ \E e \in Conn : deviceOf[e] = d /\ Active(e)'
  BY <1>1, <1>2, <1>7
     DEF SweepWorks, SweepRaises, SweepSelect, SweepLooksUp, SweepAborts, SweepCommits,
         registryVars, deviceVars, Active
<1>8. CASE UNCHANGED vars
  BY <1>2, <1>8 DEF vars, registryVars, deviceVars, Active
<1> QED
  BY <1>3, <1>4, <1>5, <1>6, <1>7, <1>8 DEF Next

(* A device is never shown online without a handler that will still mark   *)
(* it offline, or one that died: for any number of connections that        *)
(* overlap on any number of workers.                                       *)
THEOREM PresenceIsJustified == Spec => []OnlineHasHandler
<1>1. Init => OnlineHasHandler
  BY DEF Init, OnlineHasHandler
<1>2. TypeOK /\ OnlineHasHandler /\ [Next]_vars => OnlineHasHandler'
  BY OnlineStep
<1> QED
  BY <1>1, <1>2, TypeCorrect, PTL DEF Spec

-----------------------------------------------------------------------------
(* Alerts.  The executions that are about to insert an alert for a device  *)
(* count with the alerts that are open.                                    *)

Inserting(d) == {s \in Sweep : d \in missing[s]}

LEMMA InsertingFinite ==
    ASSUME NEW d \in Device
    PROVE  /\ IsFiniteSet(Inserting(d))
           /\ Cardinality(Inserting(d)) \in Nat
           /\ Cardinality(Inserting(d)) <= AlertBound
           /\ AlertBound \in Nat
BY SweepAssumption, FS_Subset, FS_CardinalityType DEF Inserting, AlertBound

LEMMA AlertStep ==
    ASSUME TypeOK, DuplicateAlertsBounded, [Next]_vars
    PROVE  DuplicateAlertsBounded'
<1>1. /\ openAlerts \in [Device -> Nat]
      /\ missing \in [Sweep -> SUBSET Device]
  BY DEF TypeOK
<1> SUFFICES ASSUME NEW d \in Device
             PROVE  openAlerts'[d] + Cardinality(Inserting(d)') <= AlertBound
  BY DEF DuplicateAlertsBounded, Inserting, AlertBound
<1>2. openAlerts[d] + Cardinality(Inserting(d)) <= AlertBound
  BY DEF DuplicateAlertsBounded, Inserting
<1>3. Cardinality(Inserting(d)') \in Nat /\ Cardinality(Inserting(d)') <= AlertBound
  BY SweepAssumption, FS_Subset, FS_CardinalityType DEF Inserting, AlertBound
<1>4. CASE openAlerts' = openAlerts /\ missing' = missing
  BY <1>2, <1>4 DEF Inserting
<1>5. ASSUME NEW f \in Device, AdminClosesAlert(f)
      PROVE  openAlerts'[d] + Cardinality(Inserting(d)') <= AlertBound
  <2>1. openAlerts'[d] <= openAlerts[d] /\ openAlerts'[d] \in Int
    BY <1>1, <1>5 DEF AdminClosesAlert
  <2>2. Inserting(d)' = Inserting(d)
    BY <1>5 DEF AdminClosesAlert, sweepVars, Inserting
  <2> QED
    BY <1>1, <1>2, <2>1, <2>2, InsertingFinite
<1>6. ASSUME NEW s \in Sweep, NEW f \in Device, SweepLooksUp(s, f)
      PROVE  openAlerts'[d] + Cardinality(Inserting(d)') <= AlertBound
  <2>1. openAlerts' = openAlerts
    BY <1>6 DEF SweepLooksUp, deviceVars
  <2>2. CASE f = d /\ openAlerts[d] = 0
    BY <1>3, <2>1, <2>2
  <2>3. CASE ~(f = d /\ openAlerts[d] = 0)
    <3>1. Inserting(d)' = Inserting(d)
      BY <1>1, <1>6, <2>3 DEF SweepLooksUp, Inserting
    <3> QED
      BY <1>2, <2>1, <3>1
  <2> QED
    BY <2>2, <2>3
<1>7. ASSUME NEW s \in Sweep, SweepEnds(s)
      PROVE  Inserting(d)' = Inserting(d) \ {s}
  BY <1>1, <1>7 DEF SweepEnds, Inserting
<1>8. ASSUME NEW s \in Sweep, SweepAborts(s)
      PROVE  openAlerts'[d] + Cardinality(Inserting(d)') <= AlertBound
  <2>1. Inserting(d)' = Inserting(d) \ {s} /\ openAlerts' = openAlerts
    BY <1>7, <1>8 DEF SweepAborts, deviceVars
  <2>2. Cardinality(Inserting(d)') <= Cardinality(Inserting(d))
    BY <2>1, InsertingFinite, FS_Subset
  <2> QED
    BY <1>1, <1>2, <1>3, <2>1, <2>2, InsertingFinite
<1>9. ASSUME NEW s \in Sweep, SweepCommits(s)
      PROVE  openAlerts'[d] + Cardinality(Inserting(d)') <= AlertBound
  <2>1. Inserting(d)' = Inserting(d) \ {s}
    BY <1>7, <1>9 DEF SweepCommits
  <2>2. Cardinality(Inserting(d)') = IF s \in Inserting(d)
                                     THEN Cardinality(Inserting(d)) - 1
                                     ELSE Cardinality(Inserting(d))
    BY <2>1, InsertingFinite, FS_RemoveElement
  <2>3. openAlerts'[d] = IF s \in Inserting(d) THEN openAlerts[d] + 1 ELSE openAlerts[d]
    BY <1>9 DEF SweepCommits, Inserting
  <2> QED
    BY <1>1, <1>2, <2>2, <2>3, InsertingFinite
<1> QED
  <2>1. ASSUME NEW c \in Conn, ConnStep(c)
        PROVE  openAlerts' = openAlerts /\ missing' = missing
    BY <2>1
       DEF ConnStep, HandlerMarksOnline, HandlerFinishesSetup, HandlerSetupFails,
           LinkDrops, SendHeartbeat, HandleHeartbeat, HandlerLeaves,
           HandlerMarksOffline, HandlerMarkOfflineFails, deviceVars, sweepVars
  <2>2. ASSUME NEW s \in Sweep, SweepSelect(s)
        PROVE  openAlerts' = openAlerts /\ missing' = missing
    BY <2>2 DEF SweepSelect, deviceVars
  <2>3. ASSUME NEW c \in Conn, NEW w \in Worker, AgentConnects(c, w)
        PROVE  openAlerts' = openAlerts /\ missing' = missing
    BY <2>3 DEF AgentConnects, deviceVars, sweepVars
  <2>4. ASSUME NEW w \in Worker, WorkerCrashes(w)
        PROVE  openAlerts' = openAlerts /\ missing' = missing
    BY <2>4 DEF WorkerCrashes, sweepVars
  <2>5. ASSUME NEW f \in Device, HeartbeatAges(f)
        PROVE  openAlerts' = openAlerts /\ missing' = missing
    BY <2>5 DEF HeartbeatAges, sweepVars
  <2>6. CASE UNCHANGED vars
    BY <1>4, <2>6 DEF vars, deviceVars, sweepVars
  <2> QED
    BY <1>4, <1>5, <1>6, <1>8, <1>9, <2>1, <2>2, <2>3, <2>4, <2>5, <2>6
       DEF Next, SweepWorks, SweepRaises

(* However many sweeps overlap, no device has more open device_offline     *)
(* alerts than that; with one sweep at a time there is at most one.        *)
THEOREM AlertsBounded == Spec => []DuplicateAlertsBounded
<1>1. Init => DuplicateAlertsBounded
  <2> SUFFICES ASSUME Init, NEW d \in Device
               PROVE  openAlerts[d] + Cardinality(Inserting(d)) <= AlertBound
    BY DEF DuplicateAlertsBounded, Inserting
  <2>1. openAlerts[d] = 0
    BY DEF Init
  <2> QED
    BY <2>1, InsertingFinite
<1>2. TypeOK /\ DuplicateAlertsBounded /\ [Next]_vars => DuplicateAlertsBounded'
  BY AlertStep
<1> QED
  BY <1>1, <1>2, TypeCorrect, PTL DEF Spec

(* The comment in check_offline_devices, "Create alert if not already      *)
(* open": a device never has two open device_offline alerts.               *)
AtMostOneOpenAlert ==
    \A d \in Device : openAlerts[d] <= 1

(* That is true of a single sweep at a time.  Two that overlap break it:   *)
(* both look before either commits.                                        *)
THEOREM OneSweepOneAlert ==
    ASSUME Cardinality(Sweep) = 1
    PROVE  Spec => []AtMostOneOpenAlert
<1>1. TypeOK /\ DuplicateAlertsBounded => AtMostOneOpenAlert
  <2> SUFFICES ASSUME TypeOK, DuplicateAlertsBounded, NEW d \in Device
               PROVE  openAlerts[d] <= 1
    BY DEF AtMostOneOpenAlert
  <2>1. openAlerts[d] + Cardinality(Inserting(d)) <= AlertBound
    BY DEF DuplicateAlertsBounded, Inserting
  <2>2. AlertBound = 1
    BY DEF AlertBound
  <2> QED
    BY <2>1, <2>2, InsertingFinite DEF TypeOK
<1> QED
  BY <1>1, TypeCorrect, AlertsBounded, PTL
=============================================================================
