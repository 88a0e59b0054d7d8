-------------------------- MODULE EnrollmentProofs --------------------------
(***************************************************************************)
(* Proofs about Enrollment, for any machines, serial numbers and attempts, *)
(* and about CertificateExpiry, for any devices and any finite number of   *)
(* overlapping executions of the task.                                     *)
(***************************************************************************)
EXTENDS Enrollment, CertificateExpiry, FiniteSetTheorems, TLAPS

(* A run that has not begun has no request, and a run has saved files only *)
(* once it was answered.                                                   *)
Begun ==
    \A a \in Attempt :
       /\ client[a] = "idle" => server[a] = "none"
       /\ client[a] \in {"idle", "waiting"} => saved[a] = 0
       /\ client[a] = "saving" => saved[a] < 4

(* The rows are the committed requests.                                    *)
RowsOK ==
    /\ \A a \in Attempt : server[a] = "committed" => device[UuidOf(a)] = a
    /\ \A u \in Uuid : Enrolled(u) => server[device[u]] = "committed" /\ UuidOf(device[u]) = u

(* No two requests past the insert are of one device: an uncommitted row   *)
(* holds its keys as a committed one does.                                 *)
Holding == {"inserted", "committed"}

Unique ==
    \A a, b \in Attempt :
       a # b /\ server[a] \in Holding /\ server[b] \in Holding => ~SameDevice(a, b)

(* Each file is of a committed request of its machine; a run leaves the    *)
(* files it has saved, and config.json comes last.                         *)
FilesOK ==
    /\ \A m \in Machine, f \in File :
          disk[m][f] # NoAttempt => from[disk[m][f]] = m /\ server[disk[m][f]] = "committed"
    /\ \A a \in Attempt : \A j \in 1 .. saved[a] : disk[from[a]][SaveOrder[j]] # NoAttempt
    /\ \A m \in Machine :
          disk[m]["config.json"] # NoAttempt => \A f \in File : disk[m][f] # NoAttempt

(* A file is torn by a run that died before its last file; config.json can *)
(* be read only if its run has saved all.                                  *)
TornOK ==
    \A m \in Machine :
       /\ \A f \in torn[m] :
             disk[m][f] \in Attempt /\ client[disk[m][f]] = "failed" /\ saved[disk[m][f]] < 4
       /\ Loads(m) => saved[disk[m]["config.json"]] = 4

Inv == TypeOK /\ Begun /\ RowsOK /\ Unique /\ FilesOK /\ TornOK

-----------------------------------------------------------------------------
\* SaveOrder names every file once, config.json last.
LEMMA FourFiles ==
    /\ Len(SaveOrder) = 4
    /\ \A j \in 1 .. 4 : SaveOrder[j] \in File
    /\ \A f \in File : \E j \in 1 .. 4 : SaveOrder[j] = f
    /\ \A j \in 1 .. 4 : SaveOrder[j] = "config.json" => j = 4
BY DEF SaveOrder, File

\* The device UUIDs of an attempt.
LEMMA UuidType == TypeOK => \A a \in Attempt : UuidOf(a) \in Uuid
BY DEF TypeOK, UuidOf, Uuid

LEMMA InitInv == Init => Inv
<1> SUFFICES ASSUME Init PROVE Inv
  OBVIOUS
<1>1. TypeOK
  BY FourFiles, NoAttemptAssumption DEF Init, TypeOK, Uuid, Enrolled
<1>2. Begun
  BY DEF Init, Begun
<1>3. RowsOK
  BY DEF Init, RowsOK, Enrolled
<1>4. Unique
  BY DEF Init, Unique, Holding
<1>5. FilesOK
  BY DEF Init, FilesOK, File
<1>6. TornOK
  BY DEF Init, TornOK, Loads, File
<1> QED
  BY <1>1, <1>2, <1>3, <1>4, <1>5, <1>6 DEF Inv

-----------------------------------------------------------------------------
(* One lemma for each part of the invariant.                               *)

\* What a step may do to a run: a run that begins changes only its own
\* attributes, and requests go forward.
LEMMA TypeStep ==
    ASSUME Inv, [Next]_vars
    PROVE  TypeOK'
<1> USE FourFiles, NoAttemptAssumption DEF Inv, TypeOK, Enrolled, machineVars, deviceVars
<1>0. \A a \in Attempt : UuidOf(a) \in Uuid
  BY UuidType
<1>1. ASSUME NEW a \in Attempt, EnrollStarts(a) PROVE TypeOK'
  BY <1>1, SerialAssumption DEF EnrollStarts, Serials
<1>2. ASSUME NEW a \in Attempt, EnrollChecks(a) PROVE TypeOK'
  BY <1>2 DEF EnrollChecks
<1>3. ASSUME NEW a \in Attempt, InsertDevice(a) PROVE TypeOK'
  BY <1>3 DEF InsertDevice
<1>4. ASSUME NEW a \in Attempt, EnrollCommits(a) PROVE TypeOK'
  BY <1>0, <1>4 DEF EnrollCommits
<1>5. ASSUME NEW a \in Attempt, EnrollAborts(a) PROVE TypeOK'
  BY <1>5 DEF EnrollAborts
<1>6. ASSUME NEW a \in Attempt, AgentGetsAnswer(a) PROVE TypeOK'
  BY <1>6 DEF AgentGetsAnswer
<1>7. ASSUME NEW a \in Attempt, EnrollCutShort(a) PROVE TypeOK'
  BY <1>7 DEF EnrollCutShort
<1>8. ASSUME NEW a \in Attempt, SaveFile(a) PROVE TypeOK'
  <2>1. saved[a] \in 0 .. 3
    BY <1>8 DEF SaveFile, Begun
  <2>2. SaveOrder[saved[a] + 1] \in File
    BY <2>1
  <2>3. /\ disk' \in [Machine -> [File -> Attempt \cup {NoAttempt}]]
        /\ torn' \in [Machine -> SUBSET File]
    BY <1>8, <2>2 DEF SaveFile
  <2>4. saved' \in [Attempt -> 0 .. Len(SaveOrder)]
    BY <1>8, <2>1 DEF SaveFile
  <2>5. client' = [client EXCEPT ![a] = IF saved'[a] = Len(SaveOrder) THEN "enrolled" ELSE @]
    BY <1>8 DEF SaveFile
  <2>6. UNCHANGED <<from, how, serial, server, agent, device, status, retiring>>
    BY <1>8 DEF SaveFile
  <2>7. \A b \in Attempt : client'[b] = "enrolled" => saved'[b] = Len(SaveOrder)
    BY <1>8, <2>5 DEF SaveFile
  <2>8. /\ client' \in [Attempt -> {"idle", "waiting", "saving", "enrolled", "failed"}]
        /\ \A b \in Attempt : client'[b] \in {"saving", "enrolled"} => server[b] = "committed"
    BY <1>8, <2>5 DEF SaveFile
  <2> QED
    BY <2>3, <2>4, <2>6, <2>7, <2>8
<1>9. ASSUME NEW m \in Machine, AgentTries(m) PROVE TypeOK'
  BY <1>9 DEF AgentTries, attemptVars
<1>10. ASSUME NEW u \in Uuid, RetireStarts(u) \/ RetireRaises(u) PROVE TypeOK'
  <2>1. retiring' \in [Uuid -> BOOLEAN]
    <3>1. CASE RetireStarts(u)
      BY <3>1 DEF RetireStarts
    <3>2. CASE RetireRaises(u)
      BY <3>2 DEF RetireRaises
    <3> QED
      BY <1>10, <3>1, <3>2
  <2>2. UNCHANGED <<attemptVars, machineVars, device, status>>
    BY <1>10 DEF RetireStarts, RetireRaises
  <2> QED
    BY <2>1, <2>2 DEF attemptVars
<1>11. ASSUME NEW a \in Attempt, SaveCutShort(a) PROVE TypeOK'
  <2>0. saved[a] \in 0 .. 3
    BY <1>11 DEF SaveCutShort, Begun
  <2>1. SaveOrder[saved[a] + 1] \in File
    BY <2>0
  <2>2. /\ disk' \in [Machine -> [File -> Attempt \cup {NoAttempt}]]
        /\ torn' \in [Machine -> SUBSET File]
    BY <1>11, <2>1 DEF SaveCutShort
  <2> QED
    BY <1>11, <2>2 DEF SaveCutShort
<1>12. CASE UNCHANGED vars
  BY <1>12 DEF vars, attemptVars
<1> QED
  BY <1>1, <1>2, <1>3, <1>4, <1>5, <1>6, <1>7, <1>8, <1>9, <1>10, <1>11, <1>12 DEF Next

\* The steps that are not of a run leave runs, rows and files alone.
LEMMA RunsOrElse ==
    ASSUME [Next]_vars
    PROVE  \/ \E a \in Attempt :
                \/ EnrollStarts(a) \/ EnrollChecks(a) \/ InsertDevice(a)
                \/ EnrollCommits(a) \/ EnrollAborts(a)
                \/ AgentGetsAnswer(a) \/ EnrollCutShort(a)
                \/ SaveFile(a) \/ SaveCutShort(a)
           \/ UNCHANGED <<client, from, how, serial, saved, server, disk, torn, device>>
BY DEF Next, AgentTries, RetireStarts, RetireRaises, vars, attemptVars, machineVars, deviceVars

\* The requests by which a run's own steps, and no other's, are governed.
LEMMA BegunStep ==
    ASSUME Inv, [Next]_vars
    PROVE  Begun'
<1> USE FourFiles DEF Inv, TypeOK, Begun
<1>1. ASSUME NEW a \in Attempt, EnrollStarts(a) PROVE Begun'
  BY <1>1 DEF EnrollStarts
<1>2. ASSUME NEW a \in Attempt, EnrollChecks(a) \/ InsertDevice(a) \/ EnrollCommits(a) \/ EnrollAborts(a)
      PROVE  Begun'
  <2>1. /\ UNCHANGED <<client, saved>>
        /\ server[a] # "none"
        /\ \A b \in Attempt : b # a => server'[b] = server[b]
    BY <1>2 DEF EnrollChecks, InsertDevice, EnrollCommits, EnrollAborts
  <2> QED
    BY <2>1
<1>3. ASSUME NEW a \in Attempt, AgentGetsAnswer(a) \/ EnrollCutShort(a) \/ SaveCutShort(a)
      PROVE  Begun'
  BY <1>3 DEF AgentGetsAnswer, EnrollCutShort, SaveCutShort
<1>4. ASSUME NEW a \in Attempt, SaveFile(a) PROVE Begun'
  <2>1. saved[a] \in 0 .. 3 /\ client[a] = "saving"
    BY <1>4 DEF SaveFile
  <2>2. saved' = [saved EXCEPT ![a] = saved[a] + 1]
    BY <1>4 DEF SaveFile
  <2>3. client' = [client EXCEPT ![a] = IF saved[a] + 1 = 4 THEN "enrolled" ELSE "saving"]
    BY <1>4, <2>1, <2>2 DEF SaveFile
  <2> QED
    BY <1>4, <2>1, <2>2, <2>3 DEF SaveFile
<1>5. CASE UNCHANGED <<client, from, how, serial, saved, server, disk, torn, device>>
  BY <1>5
<1> QED
  BY <1>1, <1>2, <1>3, <1>4, <1>5, RunsOrElse

\* A request that holds its keys keeps them: only a run that begins changes
\* its UUID and its serial number, and it holds none.
LEMMA KeysKept ==
    ASSUME Inv, [Next]_vars
    PROVE  \A a \in Attempt :
              server[a] # "none" => /\ UuidOf(a)' = UuidOf(a)
                                    /\ serial'[a] = serial[a]
                                    /\ from'[a] = from[a]
<1>1. ASSUME NEW b \in Attempt, EnrollStarts(b), NEW a \in Attempt, server[a] # "none"
      PROVE  how'[a] = how[a] /\ serial'[a] = serial[a] /\ from' = from
  BY <1>1 DEF Inv, TypeOK, Begun, EnrollStarts
<1>2. ASSUME NEW b \in Attempt,
             EnrollChecks(b) \/ InsertDevice(b) \/ EnrollCommits(b) \/ EnrollAborts(b)
                \/ AgentGetsAnswer(b) \/ EnrollCutShort(b) \/ SaveFile(b) \/ SaveCutShort(b)
      PROVE  UNCHANGED <<from, how, serial>>
  BY <1>2 DEF EnrollChecks, InsertDevice, EnrollCommits, EnrollAborts, AgentGetsAnswer,
              EnrollCutShort, SaveFile, SaveCutShort
<1> QED
  BY <1>1, <1>2, RunsOrElse DEF UuidOf

\* Once committed, a request stays so; it comes to hold its keys only by
\* the insert.
LEMMA CommittedStays ==
    ASSUME Inv, [Next]_vars, NEW a \in Attempt
    PROVE  /\ server[a] = "committed" => server'[a] = "committed"
           /\ server'[a] \in Holding /\ server[a] \notin Holding =>
                 InsertDevice(a) /\ server[a] = "checked"
<1> USE DEF Inv, TypeOK, Holding
<1> DEFINE Goal == /\ server[a] = "committed" => server'[a] = "committed"
                   /\ server'[a] \in Holding /\ server[a] \notin Holding =>
                         InsertDevice(a) /\ server[a] = "checked"
<1>1. ASSUME NEW b \in Attempt, EnrollStarts(b) PROVE Goal
  BY <1>1 DEF EnrollStarts, Begun
<1>2. ASSUME NEW b \in Attempt, EnrollChecks(b) PROVE Goal
  BY <1>2 DEF EnrollChecks
<1>3. ASSUME NEW b \in Attempt, InsertDevice(b) PROVE Goal
  <2>1. CASE a = b
    BY <1>3, <2>1 DEF InsertDevice
  <2>2. CASE a # b
    BY <1>3, <2>2 DEF InsertDevice
  <2> QED
    BY <2>1, <2>2
<1>4. ASSUME NEW b \in Attempt, EnrollCommits(b) PROVE Goal
  BY <1>4 DEF EnrollCommits
<1>5. ASSUME NEW b \in Attempt, EnrollAborts(b) PROVE Goal
  BY <1>5 DEF EnrollAborts
<1>6. ASSUME NEW b \in Attempt, AgentGetsAnswer(b) \/ EnrollCutShort(b) \/ SaveFile(b) \/ SaveCutShort(b)
      PROVE  Goal
  <2>1. server' = server
    BY <1>6 DEF AgentGetsAnswer, EnrollCutShort, SaveFile, SaveCutShort
  <2> QED
    BY <2>1
<1>7. CASE UNCHANGED server
  BY <1>7
<1> QED
  BY <1>1, <1>2, <1>3, <1>4, <1>5, <1>6, <1>7, RunsOrElse

\* Two requests come to hold one key only if one did when the other was
\* inserted, and the insert looks.
LEMMA UniqueStep ==
    ASSUME Inv, [Next]_vars
    PROVE  Unique'
<1> SUFFICES ASSUME NEW a \in Attempt, NEW b \in Attempt, a # b,
                    server'[a] \in Holding, server'[b] \in Holding
             PROVE  ~SameDevice(a, b)'
  BY DEF Unique
<1> USE DEF Inv, TypeOK, Holding
<1>1. ASSUME NEW c \in Attempt, server'[c] \in Holding, server[c] \notin Holding
      PROVE  InsertDevice(c) /\ server[c] = "checked"
  BY <1>1, CommittedStays
<1>2. \A c \in Attempt : server'[c] \in Holding => server[c] # "none"
  BY <1>1
<1>3. SameDevice(a, b)' <=> SameDevice(a, b)
  BY <1>2, KeysKept DEF SameDevice
<1>4. ASSUME NEW c \in Attempt, NEW d \in Attempt, c # d,
             InsertDevice(c), server'[c] \in Holding, server[d] \in Holding
      PROVE  ~SameDevice(c, d)
  <2>1. CASE server[d] = "inserted"
    BY <1>4, <2>1 DEF InsertDevice
  <2>2. CASE server[d] = "committed"
    <3>1. device[UuidOf(d)] = d /\ UuidOf(d) \in Uuid
      BY <2>2, UuidType DEF RowsOK
    <3>2. Enrolled(UuidOf(d))
      BY <3>1, NoAttemptAssumption DEF Enrolled
    <3>3. server'[c] # "failed"
      BY <1>4
    <3>4. ~ \E u \in Uuid : Enrolled(u) /\ SameDevice(c, device[u])
      BY <1>4, <3>3 DEF InsertDevice
    <3> QED
      BY <3>1, <3>2, <3>4
  <2> QED
    BY <1>4, <2>1, <2>2
<1>5. SameDevice(a, b) <=> SameDevice(b, a)
  BY DEF SameDevice
<1>6. CASE server[a] \in Holding /\ server[b] \in Holding
  BY <1>3, <1>6 DEF Unique
<1>7. CASE server[a] \notin Holding
  <2>1. InsertDevice(a)
    BY <1>1, <1>7
  <2>2. server[b] \in Holding
    BY <2>1 DEF InsertDevice
  <2> QED
    BY <1>3, <1>4, <2>1, <2>2
<1>8. CASE server[b] \notin Holding
  <2>1. InsertDevice(b)
    BY <1>1, <1>8
  <2>2. server[a] \in Holding
    BY <2>1 DEF InsertDevice
  <2> QED
    BY <1>3, <1>4, <1>5, <2>1, <2>2
<1> QED
  BY <1>6, <1>7, <1>8

\* A commit never meets a row of its UUID.
LEMMA CommitIsFirst ==
    ASSUME Inv, NEW a \in Attempt, EnrollCommits(a)
    PROVE  ~Enrolled(UuidOf(a))
<1> USE DEF Inv, TypeOK
<1> SUFFICES ASSUME Enrolled(UuidOf(a)) PROVE FALSE
  OBVIOUS
<1> DEFINE b == device[UuidOf(a)]
<1>1. UuidOf(a) \in Uuid
  BY UuidType
<1>2. b \in Attempt /\ server[b] = "committed" /\ UuidOf(b) = UuidOf(a)
  BY <1>1 DEF RowsOK, Enrolled
<1>3. server[a] = "inserted"
  BY DEF EnrollCommits
<1> QED
  BY <1>2, <1>3 DEF Unique, Holding, SameDevice

\* A commit writes the row of a UUID nobody else has; nothing else writes
\* rows.
LEMMA DeviceStep ==
    ASSUME Inv, [Next]_vars
    PROVE  \/ device' = device /\ \A a \in Attempt : server'[a] = "committed" => server[a] = "committed"
           \/ \E a \in Attempt :
                 /\ server[a] = "inserted"
                 /\ server' = [server EXCEPT ![a] = "committed"]
                 /\ device' = [device EXCEPT ![UuidOf(a)] = a]
                 /\ ~Enrolled(UuidOf(a))
<1> USE DEF Inv, TypeOK, deviceVars
<1>1. ASSUME NEW a \in Attempt, EnrollCommits(a) PROVE ~Enrolled(UuidOf(a))
  BY <1>1, CommitIsFirst
<1>2. ASSUME NEW b \in Attempt,
             EnrollStarts(b) \/ EnrollChecks(b) \/ InsertDevice(b) \/ EnrollAborts(b)
                \/ AgentGetsAnswer(b) \/ EnrollCutShort(b) \/ SaveFile(b) \/ SaveCutShort(b)
      PROVE  device' = device /\ \A a \in Attempt : server'[a] = "committed" => server[a] = "committed"
  <2>1. CASE EnrollStarts(b)
    BY <2>1 DEF EnrollStarts
  <2>2. CASE EnrollChecks(b)
    BY <2>2 DEF EnrollChecks
  <2>3. CASE InsertDevice(b)
    <3>1. device' = device
      BY <2>3 DEF InsertDevice
    <3>2. \A a \in Attempt : a # b => server'[a] = server[a]
      BY <2>3 DEF InsertDevice
    <3>3. server'[b] # "committed"
      BY <2>3 DEF InsertDevice
    <3> QED
      BY <3>1, <3>2, <3>3
  <2>4. CASE EnrollAborts(b)
    BY <2>4 DEF EnrollAborts
  <2>5. CASE AgentGetsAnswer(b) \/ EnrollCutShort(b) \/ SaveFile(b) \/ SaveCutShort(b)
    <3>1. UNCHANGED <<server, device>>
      BY <2>5 DEF AgentGetsAnswer, EnrollCutShort, SaveFile, SaveCutShort, deviceVars
    <3> QED
      BY <3>1
  <2> QED
    BY <1>2, <2>1, <2>2, <2>3, <2>4, <2>5
<1>3. ASSUME NEW a \in Attempt, EnrollCommits(a)
      PROVE  /\ server[a] = "inserted"
             /\ server' = [server EXCEPT ![a] = "committed"]
             /\ device' = [device EXCEPT ![UuidOf(a)] = a]
  BY <1>3 DEF EnrollCommits
<1> QED
  BY <1>1, <1>2, <1>3, RunsOrElse

LEMMA RowsStep ==
    ASSUME Inv, [Next]_vars
    PROVE  RowsOK'
<1> USE DEF Inv, TypeOK
<1>1. CASE device' = device /\ \A a \in Attempt : server'[a] = "committed" => server[a] = "committed"
  <2>1. \A a \in Attempt : server[a] = "committed" => server'[a] = "committed" /\ UuidOf(a)' = UuidOf(a)
    BY CommittedStays, KeysKept
  <2>2. \A a \in Attempt : server'[a] = "committed" => device'[UuidOf(a)'] = a
    BY <1>1, <2>1 DEF RowsOK
  <2>3. ASSUME NEW u \in Uuid, Enrolled(u)'
        PROVE  (server[device[u]] = "committed" /\ UuidOf(device[u]) = u)'
    <3>1. device'[u] = device[u] /\ device[u] \in Attempt
      BY <1>1, <2>3 DEF Enrolled
    <3>2. server[device[u]] = "committed" /\ UuidOf(device[u]) = u
      BY <3>1, <2>3 DEF RowsOK, Enrolled
    <3> QED
      BY <2>1, <3>1, <3>2 DEF UuidOf
  <2> QED
    BY <2>2, <2>3 DEF RowsOK
<1>2. ASSUME NEW a \in Attempt,
             server[a] = "inserted",
             server' = [server EXCEPT ![a] = "committed"],
             device' = [device EXCEPT ![UuidOf(a)] = a],
             ~Enrolled(UuidOf(a))
      PROVE  RowsOK'
  <2>1. UuidOf(a) \in Uuid /\ UuidOf(a)' = UuidOf(a)
    BY <1>2, UuidType, KeysKept
  <2>2. ASSUME NEW b \in Attempt, b # a, server'[b] = "committed" PROVE device'[UuidOf(b)'] = b
    <3>1. server[b] = "committed" /\ UuidOf(b)' = UuidOf(b) /\ UuidOf(b) \in Uuid
      BY <1>2, <2>2, KeysKept, UuidType
    <3>2. device[UuidOf(b)] = b
      BY <3>1 DEF RowsOK
    <3>3. UuidOf(b) # UuidOf(a)
      BY <1>2, <3>2, NoAttemptAssumption DEF Enrolled
    <3> QED
      BY <1>2, <3>1, <3>2, <3>3
  <2>3. ASSUME NEW u \in Uuid, Enrolled(u)', u # UuidOf(a)
        PROVE  (server[device[u]] = "committed" /\ UuidOf(device[u]) = u)'
    <3>1. device'[u] = device[u] /\ Enrolled(u)
      BY <1>2, <2>3 DEF Enrolled
    <3>2. device[u] \in Attempt /\ server[device[u]] = "committed" /\ UuidOf(device[u]) = u
      BY <3>1 DEF RowsOK, Enrolled
    <3> QED
      BY <3>1, <3>2, CommittedStays, KeysKept DEF UuidOf
  <2>4. device'[UuidOf(a)] = a /\ server'[a] = "committed"
    BY <1>2, <2>1
  <2> QED
    BY <2>1, <2>2, <2>3, <2>4 DEF RowsOK
<1> QED
  BY <1>1, <1>2, DeviceStep

\* The two steps that write to a disk, and what they have in common.
LEMMA WritesFile ==
    ASSUME Inv, NEW a \in Attempt, SaveFile(a) \/ SaveCutShort(a)
    PROVE  /\ saved[a] \in 0 .. 3
           /\ client[a] = "saving"
           /\ server[a] = "committed"
           /\ from[a] \in Machine
           /\ SaveOrder[saved[a] + 1] \in File
           /\ \A n \in Machine, f \in File :
                 disk'[n][f] = IF n = from[a] /\ f = SaveOrder[saved[a] + 1]
                               THEN a ELSE disk[n][f]
           /\ \A b \in Attempt :
                 saved'[b] = saved[b] \/ (b = a /\ saved'[b] = saved[a] + 1)
           /\ UNCHANGED <<from, server>>
<1> USE FourFiles DEF Inv, TypeOK
<1>1. saved[a] \in 0 .. 3 /\ client[a] = "saving" /\ server[a] = "committed"
  BY DEF SaveFile, SaveCutShort, Begun
<1>2. disk' = [disk EXCEPT ![from[a]][SaveOrder[saved[a] + 1]] = a]
  BY DEF SaveFile, SaveCutShort
<1>3. from[a] \in Machine /\ SaveOrder[saved[a] + 1] \in File
  BY <1>1
<1>4. \A n \in Machine, f \in File :
         disk'[n][f] = IF n = from[a] /\ f = SaveOrder[saved[a] + 1] THEN a ELSE disk[n][f]
  BY <1>2, <1>3
<1>5. /\ \A b \in Attempt : saved'[b] = saved[b] \/ (b = a /\ saved'[b] = saved[a] + 1)
      /\ UNCHANGED <<from, server>>
  BY DEF SaveFile, SaveCutShort
<1> QED
  BY <1>1, <1>3, <1>4, <1>5

LEMMA FilesStep ==
    ASSUME Inv, [Next]_vars
    PROVE  FilesOK'
<1> USE FourFiles DEF Inv, TypeOK
<1>1. ASSUME NEW a \in Attempt, SaveFile(a) \/ SaveCutShort(a) PROVE FilesOK'
  <2> DEFINE m == from[a]
             k == saved[a] + 1
  <2>1. saved[a] \in 0 .. 3 /\ server[a] = "committed" /\ m \in Machine /\ SaveOrder[k] \in File
    BY <1>1, WritesFile
  <2>2. /\ \A b \in Attempt : saved'[b] = saved[b] \/ (b = a /\ saved'[b] = k)
        /\ UNCHANGED <<from, server>>
    BY <1>1, WritesFile
  <2>3. \A n \in Machine, f \in File :
           disk'[n][f] = IF n = m /\ f = SaveOrder[k] THEN a ELSE disk[n][f]
    BY <1>1, WritesFile
  <2>4. a # NoAttempt
    BY NoAttemptAssumption
  <2>5. \A n \in Machine, f \in File :
           disk'[n][f] # NoAttempt => from'[disk'[n][f]] = n /\ server'[disk'[n][f]] = "committed"
    <3> SUFFICES ASSUME NEW n \in Machine, NEW f \in File, disk'[n][f] # NoAttempt
                 PROVE  from[disk'[n][f]] = n /\ server[disk'[n][f]] = "committed"
      BY <2>2
    <3>1. CASE n = m /\ f = SaveOrder[k]
      BY <2>1, <2>3, <3>1
    <3>2. CASE ~(n = m /\ f = SaveOrder[k])
      BY <2>3, <3>2 DEF FilesOK
    <3> QED
      BY <3>1, <3>2
  <2>6. ASSUME NEW b \in Attempt, NEW j \in 1 .. saved'[b]
        PROVE  disk'[from[b]][SaveOrder[j]] # NoAttempt
    <3>1. saved[b] \in 0 .. 4 /\ from[b] \in Machine
      OBVIOUS
    <3>2. j \in 1 .. 4
      <4>1. saved'[b] \in 0 .. 4
        BY <2>1, <2>2, <3>1
      <4> QED
        BY <4>1
    <3>3. SaveOrder[j] \in File
      BY <3>2
    <3>4. CASE j \in 1 .. saved[b]
      <4>1. disk[from[b]][SaveOrder[j]] # NoAttempt
        BY <3>4 DEF FilesOK
      <4> QED
        BY <2>3, <2>4, <3>1, <3>3, <4>1
    <3>5. CASE j \notin 1 .. saved[b]
      <4>1. b = a /\ j = k
        BY <2>1, <2>2, <3>1, <3>5
      <4> QED
        BY <2>3, <2>4, <3>1, <3>3, <4>1
    <3> QED
      BY <3>4, <3>5
  <2>7. ASSUME NEW n \in Machine, disk'[n]["config.json"] # NoAttempt, NEW f \in File
        PROVE  disk'[n][f] # NoAttempt
    <3>1. CASE disk[n]["config.json"] # NoAttempt
      <4>1. disk[n][f] # NoAttempt
        BY <3>1 DEF FilesOK
      <4> QED
        BY <2>3, <2>4, <4>1
    <3>2. CASE disk[n]["config.json"] = NoAttempt
      <4>1. "config.json" \in File
        BY DEF File
      <4>2. n = m /\ SaveOrder[k] = "config.json"
        BY <2>3, <2>7, <3>2, <4>1
      <4>3. k = 4
        BY <2>1, <4>2
      <4>4. PICK j \in 1 .. 4 : SaveOrder[j] = f
        OBVIOUS
      <4>5. CASE j = k
        BY <2>1, <2>3, <2>4, <4>2, <4>4, <4>5
      <4>6. CASE j # k
        <5>1. j \in 1 .. saved[a]
          BY <2>1, <4>3, <4>6
        <5>2. disk[n][f] # NoAttempt
          BY <4>2, <4>4, <5>1 DEF FilesOK
        <5> QED
          BY <2>3, <2>4, <5>2
      <4> QED
        BY <4>5, <4>6
    <3> QED
      BY <3>1, <3>2
  <2> QED
    BY <2>2, <2>5, <2>6, <2>7 DEF FilesOK
<1>2. CASE UNCHANGED <<disk, saved>>
  <2>1. ASSUME NEW n \in Machine, NEW f \in File, disk[n][f] # NoAttempt
        PROVE  from'[disk[n][f]] = n /\ server'[disk[n][f]] = "committed"
    <3>1. disk[n][f] \in Attempt /\ from[disk[n][f]] = n /\ server[disk[n][f]] = "committed"
      BY <2>1 DEF FilesOK
    <3> QED
      BY <3>1, KeysKept, CommittedStays
  <2>2. ASSUME NEW b \in Attempt, NEW j \in 1 .. saved[b]
        PROVE  disk[from'[b]][SaveOrder[j]] # NoAttempt
    <3>1. from'[b] = from[b]
      BY RunsOrElse
         DEF EnrollStarts, EnrollChecks, InsertDevice, EnrollCommits, EnrollAborts,
             AgentGetsAnswer, EnrollCutShort, SaveFile, SaveCutShort
    <3> QED
      BY <2>2, <3>1 DEF FilesOK
  <2> QED
    BY <1>2, <2>1, <2>2 DEF FilesOK
<1>3. ASSUME NEW b \in Attempt,
             EnrollStarts(b) \/ EnrollChecks(b) \/ InsertDevice(b) \/ EnrollCommits(b)
                \/ EnrollAborts(b) \/ AgentGetsAnswer(b) \/ EnrollCutShort(b)
      PROVE  UNCHANGED <<disk, saved>>
  BY <1>3 DEF EnrollStarts, EnrollChecks, InsertDevice, EnrollCommits, EnrollAborts,
              AgentGetsAnswer, EnrollCutShort, machineVars
<1> QED
  BY <1>1, <1>2, <1>3, RunsOrElse

\* What was torn stays of a run that is over, until it is written again.
LEMMA TornStep ==
    ASSUME Inv, [Next]_vars
    PROVE  TornOK'
<1> USE FourFiles DEF Inv, TypeOK
<1>0. "config.json" \in File
  BY DEF File
<1>1. ASSUME NEW a \in Attempt, SaveFile(a)
      PROVE  TornOK'
  <2> DEFINE k == saved[a] + 1
  <2>1. /\ saved[a] \in 0 .. 3 /\ client[a] = "saving"
        /\ from[a] \in Machine /\ SaveOrder[k] \in File
        /\ \A n \in Machine, f \in File :
              disk'[n][f] = IF n = from[a] /\ f = SaveOrder[k] THEN a ELSE disk[n][f]
    BY <1>1, WritesFile
  <2>2. /\ torn' = [torn EXCEPT ![from[a]] = @ \ {SaveOrder[k]}]
        /\ saved' = [saved EXCEPT ![a] = k]
        /\ \A b \in Attempt \ {a} : client'[b] = client[b]
    BY <1>1 DEF SaveFile
  <2>3. ASSUME NEW n \in Machine, NEW f \in torn'[n]
        PROVE  disk'[n][f] \in Attempt /\ client'[disk'[n][f]] = "failed" /\ saved'[disk'[n][f]] < 4
    <3>1. f \in torn[n] /\ f \in File /\ ~(n = from[a] /\ f = SaveOrder[k])
      BY <2>1, <2>2
    <3>2. disk'[n][f] = disk[n][f]
      BY <2>1, <3>1
    <3>3. disk[n][f] \in Attempt /\ client[disk[n][f]] = "failed" /\ saved[disk[n][f]] < 4
      BY <3>1 DEF TornOK
    <3>4. disk[n][f] # a
      BY <2>1, <3>3
    <3> QED
      BY <2>2, <3>2, <3>3, <3>4
  <2>4. ASSUME NEW n \in Machine, Loads(n)'
        PROVE  saved'[disk'[n]["config.json"]] = 4
    <3>1. CASE n = from[a] /\ "config.json" = SaveOrder[k]
      BY <1>0, <2>1, <2>2, <3>1
    <3>2. CASE ~(n = from[a] /\ "config.json" = SaveOrder[k])
      <4>1. Loads(n) /\ disk'[n]["config.json"] = disk[n]["config.json"]
        BY <1>0, <2>1, <2>2, <2>4, <3>2 DEF Loads
      <4>2. disk[n]["config.json"] \in Attempt /\ saved[disk[n]["config.json"]] = 4
        BY <1>0, <4>1 DEF TornOK, Loads
      <4>3. disk[n]["config.json"] # a
        BY <2>1, <4>2
      <4> QED
        BY <2>2, <4>1, <4>2, <4>3
    <3> QED
      BY <3>1, <3>2
  <2> QED
    BY <2>3, <2>4 DEF TornOK
<1>2. ASSUME NEW a \in Attempt, SaveCutShort(a)
      PROVE  TornOK'
  <2> DEFINE k == saved[a] + 1
  <2>1. /\ saved[a] \in 0 .. 3 /\ client[a] = "saving"
        /\ from[a] \in Machine /\ SaveOrder[k] \in File
        /\ \A n \in Machine, f \in File :
              disk'[n][f] = IF n = from[a] /\ f = SaveOrder[k] THEN a ELSE disk[n][f]
    BY <1>2, WritesFile
  <2>2. /\ torn' = [torn EXCEPT ![from[a]] = @ \cup {SaveOrder[k]}]
        /\ saved' = saved
        /\ client' = [client EXCEPT ![a] = "failed"]
    BY <1>2 DEF SaveCutShort
  <2>3. ASSUME NEW n \in Machine, NEW f \in torn'[n]
        PROVE  disk'[n][f] \in Attempt /\ client'[disk'[n][f]] = "failed" /\ saved'[disk'[n][f]] < 4
    <3>1. CASE n = from[a] /\ f = SaveOrder[k]
      BY <2>1, <2>2, <3>1
    <3>2. CASE ~(n = from[a] /\ f = SaveOrder[k])
      <4>1. f \in torn[n] /\ f \in File
        BY <2>1, <2>2, <3>2
      <4>2. disk'[n][f] = disk[n][f]
        BY <2>1, <3>2, <4>1
      <4>3. disk[n][f] \in Attempt /\ client[disk[n][f]] = "failed" /\ saved[disk[n][f]] < 4
        BY <4>1 DEF TornOK
      <4> QED
        BY <2>2, <4>2, <4>3
    <3> QED
      BY <3>1, <3>2
  <2>4. ASSUME NEW n \in Machine, Loads(n)'
        PROVE  saved'[disk'[n]["config.json"]] = 4
    <3>1. ~(n = from[a] /\ "config.json" = SaveOrder[k])
      BY <2>1, <2>2, <2>4 DEF Loads
    <3>2. Loads(n) /\ disk'[n]["config.json"] = disk[n]["config.json"]
      BY <1>0, <2>1, <2>2, <2>4, <3>1 DEF Loads
    <3> QED
      BY <2>2, <3>2 DEF TornOK
  <2> QED
    BY <2>3, <2>4 DEF TornOK
<1>3. ASSUME UNCHANGED <<disk, torn, saved>>,
             \A b \in Attempt : client[b] = "failed" => client'[b] = "failed"
      PROVE  TornOK'
  BY <1>3 DEF TornOK, Loads
<1>4. ASSUME NEW b \in Attempt,
             EnrollStarts(b) \/ EnrollChecks(b) \/ InsertDevice(b) \/ EnrollCommits(b)
                \/ EnrollAborts(b) \/ AgentGetsAnswer(b) \/ EnrollCutShort(b)
      PROVE  /\ UNCHANGED <<disk, torn, saved>>
             /\ \A c \in Attempt : client[c] = "failed" => client'[c] = "failed"
  BY <1>4 DEF EnrollStarts, EnrollChecks, InsertDevice, EnrollCommits, EnrollAborts,
              AgentGetsAnswer, EnrollCutShort, machineVars
<1>5. CASE UNCHANGED <<client, from, how, serial, saved, server, disk, torn, device>>
  BY <1>3, <1>5
<1> QED
  BY <1>1, <1>2, <1>3, <1>4, <1>5, RunsOrElse

LEMMA Invariant == Spec => []Inv
<1>1. Init => Inv
  BY InitInv
<1>2. Inv /\ [Next]_vars => Inv'
  BY TypeStep, BegunStep, UniqueStep, RowsStep, FilesStep, TornStep DEF Inv
<1> QED
  BY <1>1, <1>2, PTL DEF Spec

-----------------------------------------------------------------------------
(* Type correctness: an agent saves files only of an answered request, and *)
(* a device has a status exactly if it has a row.                          *)
THEOREM TypeCorrect == Spec => []TypeOK
<1>1. Inv => TypeOK
  BY DEF Inv
<1> QED
  BY <1>1, Invariant, PTL

(* However many runs of enroll() overlap, on however many machines, a      *)
(* UUID and a serial number are enrolled once.                             *)
THEOREM OneEnrollment == Spec => []EnrolledOnce
<1>1. Inv => EnrolledOnce
  BY DEF Inv, Unique, EnrolledOnce, Holding
<1> QED
  BY <1>1, Invariant, PTL

(* Wherever the agent can read a configuration it finds the other files,   *)
(* each of a committed request of its own machine; one that was cut off    *)
(* while it was written is not of the run the configuration is of.         *)
THEOREM ConfigurationIsComplete == Spec => []ConfigMeansComplete
<1>1. ASSUME Inv, NEW m \in Machine, Loads(m), NEW f \in File
      PROVE  /\ disk[m][f] # NoAttempt
             /\ from[disk[m][f]] = m /\ server[disk[m][f]] = "committed"
             /\ f \in torn[m] => disk[m][f] # disk[m]["config.json"]
  BY <1>1 DEF Inv, FilesOK, TornOK, Loads
<1>2. Inv => ConfigMeansComplete
  BY <1>1 DEF ConfigMeansComplete
<1> QED
  BY <1>2, Invariant, PTL

-----------------------------------------------------------------------------
(* check_certificate_expiry.  The executions that are about to insert an   *)
(* alert for a device count with the alerts that are open.                 *)
AboutToInsert(d) == {k \in Check : d \in lacking[k]}

LEMMA AboutToInsertFinite ==
    ASSUME NEW d \in Holder
    PROVE  /\ IsFiniteSet(AboutToInsert(d))
           /\ Cardinality(AboutToInsert(d)) \in Nat
           /\ Cardinality(AboutToInsert(d)) <= Cardinality(Check)
           /\ Cardinality(Check) \in Nat
BY CheckAssumption, FS_Subset, FS_CardinalityType DEF AboutToInsert

LEMMA ExpiryTypeStep ==
    ASSUME ExpiryTypeOK, [ExpiryNext]_expiryVars
    PROVE  ExpiryTypeOK'
<1> USE DEF ExpiryTypeOK, Expiring, checkVars
<1>1. ASSUME NEW d \in Holder, IssueCertificate(d) PROVE ExpiryTypeOK'
  BY <1>1 DEF IssueCertificate
<1>2. ASSUME NEW d \in Holder, CertificateAges(d) PROVE ExpiryTypeOK'
  BY <1>2 DEF CertificateAges
<1>3. ASSUME NEW d \in Holder, AdminClosesExpiryAlert(d) PROVE ExpiryTypeOK'
  BY <1>3 DEF AdminClosesExpiryAlert
<1>4. ASSUME NEW k \in Check, CheckSelects(k) PROVE ExpiryTypeOK'
  BY <1>4 DEF CheckSelects, Selected
<1>5. ASSUME NEW k \in Check, NEW d \in Holder, CheckLooksUp(k, d) PROVE ExpiryTypeOK'
  BY <1>5 DEF CheckLooksUp
<1>6. ASSUME NEW k \in Check, CheckAborts(k) PROVE ExpiryTypeOK'
  BY <1>6 DEF CheckAborts, CheckEnds
<1>7. ASSUME NEW k \in Check, CheckCommits(k) PROVE ExpiryTypeOK'
  BY <1>7 DEF CheckCommits, CheckEnds
<1>8. CASE UNCHANGED expiryVars
  BY <1>8 DEF expiryVars
<1> QED
  BY <1>1, <1>2, <1>3, <1>4, <1>5, <1>6, <1>7, <1>8 DEF ExpiryNext, CheckWorks, CheckRaises

LEMMA ExpiryAlertStep ==
    ASSUME ExpiryTypeOK, ExpiryAlertsBounded, [ExpiryNext]_expiryVars
    PROVE  ExpiryAlertsBounded'
<1>1. /\ expiryAlerts \in [Holder -> Nat]
      /\ lacking \in [Check -> SUBSET Holder]
  BY DEF ExpiryTypeOK
<1> SUFFICES ASSUME NEW d \in Holder
             PROVE  expiryAlerts'[d] + Cardinality(AboutToInsert(d)') <= Cardinality(Check)
  BY DEF ExpiryAlertsBounded, AboutToInsert
<1>2. expiryAlerts[d] + Cardinality(AboutToInsert(d)) <= Cardinality(Check)
  BY DEF ExpiryAlertsBounded, AboutToInsert
<1>3. Cardinality(AboutToInsert(d)') \in Nat /\ Cardinality(AboutToInsert(d)') <= Cardinality(Check)
  BY CheckAssumption, FS_Subset, FS_CardinalityType DEF AboutToInsert
<1>4. CASE expiryAlerts' = expiryAlerts /\ lacking' = lacking
  BY <1>2, <1>4 DEF AboutToInsert
<1>5. ASSUME NEW f \in Holder, AdminClosesExpiryAlert(f)
      PROVE  expiryAlerts'[d] + Cardinality(AboutToInsert(d)') <= Cardinality(Check)
  <2>1. expiryAlerts'[d] <= expiryAlerts[d] /\ expiryAlerts'[d] \in Int
    BY <1>1, <1>5 DEF AdminClosesExpiryAlert
  <2>2. AboutToInsert(d)' = AboutToInsert(d)
    BY <1>5 DEF AdminClosesExpiryAlert, checkVars, AboutToInsert
  <2> QED
    BY <1>1, <1>2, <2>1, <2>2, AboutToInsertFinite
<1>6. ASSUME NEW k \in Check, NEW f \in Holder, CheckLooksUp(k, f)
      PROVE  expiryAlerts'[d] + Cardinality(AboutToInsert(d)') <= Cardinality(Check)
  <2>1. expiryAlerts' = expiryAlerts
    BY <1>6 DEF CheckLooksUp
  <2>2. CASE f = d /\ expiryAlerts[d] = 0
    BY <1>3, <2>1, <2>2
  <2>3. CASE ~(f = d /\ expiryAlerts[d] = 0)
    <3>1. AboutToInsert(d)' = AboutToInsert(d)
      BY <1>1, <1>6, <2>3 DEF CheckLooksUp, AboutToInsert
    <3> QED
      BY <1>2, <2>1, <3>1
  <2> QED
    BY <2>2, <2>3
<1>7. ASSUME NEW k \in Check, CheckEnds(k)
      PROVE  AboutToInsert(d)' = AboutToInsert(d) \ {k}
  BY <1>1, <1>7 DEF CheckEnds, AboutToInsert
<1>8. ASSUME NEW k \in Check, CheckAborts(k)
      PROVE  expiryAlerts'[d] + Cardinality(AboutToInsert(d)') <= Cardinality(Check)
  <2>1. AboutToInsert(d)' = AboutToInsert(d) \ {k} /\ expiryAlerts' = expiryAlerts
    BY <1>7, <1>8 DEF CheckAborts
  <2>2. Cardinality(AboutToInsert(d)') <= Cardinality(AboutToInsert(d))
    BY <2>1, AboutToInsertFinite, FS_Subset
  <2> QED
    BY <1>1, <1>2, <1>3, <2>1, <2>2, AboutToInsertFinite
<1>9. ASSUME NEW k \in Check, CheckCommits(k)
      PROVE  expiryAlerts'[d] + Cardinality(AboutToInsert(d)') <= Cardinality(Check)
  <2>1. AboutToInsert(d)' = AboutToInsert(d) \ {k}
    BY <1>7, <1>9 DEF CheckCommits
  <2>2. Cardinality(AboutToInsert(d)') = IF k \in AboutToInsert(d)
                                         THEN Cardinality(AboutToInsert(d)) - 1
                                         ELSE Cardinality(AboutToInsert(d))
    BY <2>1, AboutToInsertFinite, FS_RemoveElement
  <2>3. expiryAlerts'[d] = IF k \in AboutToInsert(d) THEN expiryAlerts[d] + 1 ELSE expiryAlerts[d]
    BY <1>9 DEF CheckCommits, AboutToInsert
  <2> QED
    BY <1>1, <1>2, <2>2, <2>3, AboutToInsertFinite
<1>10. ASSUME NEW k \in Check, CheckSelects(k)
       PROVE  expiryAlerts' = expiryAlerts /\ lacking' = lacking
  BY <1>10 DEF CheckSelects
<1>11. ASSUME NEW f \in Holder, IssueCertificate(f) \/ CertificateAges(f)
       PROVE  expiryAlerts' = expiryAlerts /\ lacking' = lacking
  BY <1>11 DEF IssueCertificate, CertificateAges, checkVars
<1>12. CASE UNCHANGED expiryVars
  BY <1>4, <1>12 DEF expiryVars, checkVars
<1> QED
  BY <1>4, <1>5, <1>6, <1>8, <1>9, <1>10, <1>11, <1>12 DEF ExpiryNext, CheckWorks, CheckRaises

LEMMA ExpiryInvariant == ExpirySpec => [](ExpiryTypeOK /\ ExpiryAlertsBounded)
<1>1. ExpiryInit => ExpiryTypeOK
  BY DEF ExpiryInit, ExpiryTypeOK
<1>2. ExpiryInit => ExpiryAlertsBounded
  <2> SUFFICES ASSUME ExpiryInit, NEW d \in Holder
               PROVE  expiryAlerts[d] + Cardinality(AboutToInsert(d)) <= Cardinality(Check)
    BY DEF ExpiryAlertsBounded, AboutToInsert
  <2>1. expiryAlerts[d] = 0
    BY DEF ExpiryInit
  <2> QED
    BY <2>1, AboutToInsertFinite
<1>3. ExpiryTypeOK /\ ExpiryAlertsBounded /\ [ExpiryNext]_expiryVars
        => ExpiryTypeOK' /\ ExpiryAlertsBounded'
  BY ExpiryTypeStep, ExpiryAlertStep
<1> QED
  BY <1>1, <1>2, <1>3, PTL DEF ExpirySpec

(* An execution only ever works on certificates that expire, and only on   *)
(* those of its own select.                                                *)
THEOREM ExpiryTypeCorrect == ExpirySpec => []ExpiryTypeOK
BY ExpiryInvariant, PTL

(* However many executions of the weekly task overlap, no device collects  *)
(* more open certificate_expiry alerts than that.                          *)
THEOREM ExpiryAlertsAreBounded == ExpirySpec => []ExpiryAlertsBounded
BY ExpiryInvariant, PTL

(* Executions that do not overlap never make scalar_one_or_none raise: the *)
(* open alert of a device is unique.                                       *)
THEOREM OneCheckNeverRaises ==
    ASSUME Cardinality(Check) = 1
    PROVE  ExpirySpec => [](\A d \in Holder : expiryAlerts[d] <= 1)
<1>1. ExpiryTypeOK /\ ExpiryAlertsBounded => \A d \in Holder : expiryAlerts[d] <= 1
  <2> SUFFICES ASSUME ExpiryTypeOK, ExpiryAlertsBounded, NEW d \in Holder
               PROVE  expiryAlerts[d] <= 1
    OBVIOUS
  <2>1. expiryAlerts[d] + Cardinality(AboutToInsert(d)) <= 1
    BY DEF ExpiryAlertsBounded, AboutToInsert
  <2> QED
    BY <2>1, AboutToInsertFinite DEF ExpiryTypeOK
<1> QED
  BY <1>1, ExpiryInvariant, PTL
=============================================================================
