----------------------------- MODULE Enrollment -----------------------------
(***************************************************************************)
(* Enrollment of a machine: enroll() of the agent's enrollment.py, the     *)
(* endpoint enroll_device of api/v1/devices.py, the certificate it issues, *)
(* the four files the agent saves, the TLS context it builds of them, and  *)
(* retire_device.  What happens to the certificate after is                *)
(* CertificateExpiry's.                                                    *)
(*                                                                         *)
(* An attempt is one run of "agent_main.py enroll".  Its name stands for   *)
(* all it made: its key pair, the certificate issued to it and its files.  *)
(* The enrollment token is left out: generate_enrollment_token stores it   *)
(* nowhere and enroll_device does not look at it.  A file is written in    *)
(* one step unless the run dies in the middle; two runs that write the     *)
(* same file at the same instant are not modelled.                         *)
(***************************************************************************)
EXTENDS Naturals, Sequences

CONSTANTS
    Machine,
    Attempt,      \* bounds the runs of "enroll"
    Serial,
    serialOf,     \* the serial number each machine's BIOS tells
    NoSerial,     \* "None"
    NoAttempt     \* "no file", "no row"

ASSUME SerialAssumption == serialOf \in [Machine -> Serial] /\ NoSerial \notin Serial
ASSUME NoAttemptAssumption == NoAttempt \notin Attempt

VARIABLES
    \* the runs of enroll()
    client,       \* where each stands
    from,         \* its machine
    how,          \* whether its UUID is the hardware's or the fallback
    serial,       \* the serial number it sends
    saved,        \* how many files it has saved
    server,       \* where enroll_device stands with its request
    \* the machines
    disk,         \* the attempt each file is of
    torn,         \* files cut off while they were written
    agent,        \* what the last TLS context of the agent came to
    \* the database, by device UUID
    device,       \* the attempt whose row is committed
    status,       \* Device.status
    retiring      \* a retire request is being served

attemptVars == <<client, from, how, serial, saved, server>>
machineVars == <<disk, torn, agent>>
deviceVars == <<device, status, retiring>>
vars == <<attemptVars, machineVars, deviceVars>>

\* get_machine_uuid: the UUID of the mainboard, or one made of the host name
\* and the network address when wmic does not answer.
Uuid == Machine \X {"hardware", "fallback"}
File == {"device.crt", "device.key", "ca.crt", "config.json"}

\* Variant: the configuration is written first.
SaveOrderConfigFirst == <<"config.json", "device.crt", "device.key", "ca.crt">>

\* enroll() writes the files one after the other, in this order.
SaveOrder == <<"device.crt", "device.key", "ca.crt", "config.json">>

UuidOf(a) == <<from[a], how[a]>>
Enrolled(u) == device[u] # NoAttempt

\* AgentConfig.load; the file is written by save only, with both ids in it,
\* and a part of it is not JSON.
Loads(m) == disk[m]["config.json"] # NoAttempt /\ "config.json" \notin torn[m]

TypeOK ==
    /\ client \in [Attempt -> {"idle", "waiting", "saving", "enrolled", "failed"}]
    /\ from \in [Attempt -> Machine]
    /\ how \in [Attempt -> {"hardware", "fallback"}]
    /\ serial \in [Attempt -> Serial \cup {NoSerial}]
    /\ saved \in [Attempt -> 0 .. Len(SaveOrder)]
    /\ server \in [Attempt -> {"none", "received", "checked", "inserted",
                               "committed", "refused", "failed"}]
    /\ disk \in [Machine -> [File -> Attempt \cup {NoAttempt}]]
    /\ torn \in [Machine -> SUBSET File]
    /\ agent \in [Machine -> {"off", "retrying", "connected"}]
    /\ device \in [Uuid -> Attempt \cup {NoAttempt}]
    /\ status \in [Uuid -> {"none", "active", "retired"}]
    /\ retiring \in [Uuid -> BOOLEAN]
    /\ \A a \in Attempt : client[a] \in {"saving", "enrolled"} => server[a] = "committed"
    /\ \A a \in Attempt : client[a] = "enrolled" => saved[a] = Len(SaveOrder)
    /\ \A u \in Uuid : Enrolled(u) <=> status[u] # "none"

Init ==
    /\ client = [a \in Attempt |-> "idle"]
    /\ from \in [Attempt -> Machine]
    /\ how = [a \in Attempt |-> "hardware"]
    /\ serial = [a \in Attempt |-> NoSerial]
    /\ saved = [a \in Attempt |-> 0]
    /\ server = [a \in Attempt |-> "none"]
    /\ disk = [m \in Machine |-> [f \in File |-> NoAttempt]]
    /\ torn = [m \in Machine |-> {}]
    /\ agent = [m \in Machine |-> "off"]
    /\ device = [u \in Uuid |-> NoAttempt]
    /\ status = [u \in Uuid |-> "none"]
    /\ retiring = [u \in Uuid |-> FALSE]

-----------------------------------------------------------------------------
\* get_serial_number, "None" when wmic does not answer.
Serials(m) == {serialOf[m], NoSerial}

(* A run of enroll() on some machine.  Each call of wmic may fail, whatever *)
(* the one before did.                                                      *)
EnrollStarts(a) ==
    /\ client[a] = "idle"
    /\ client' = [client EXCEPT ![a] = "waiting"]
    /\ server' = [server EXCEPT ![a] = "received"]
    /\ \E h \in {"hardware", "fallback"} : how' = [how EXCEPT ![a] = h]
    /\ \E s \in Serials(from[a]) : serial' = [serial EXCEPT ![a] = s]
    /\ UNCHANGED <<from, saved, machineVars, deviceVars>>

(* The select.  A known UUID is refused with 409: a row is only ever       *)
(* "active", never "pending" or "inactive".                                *)
EnrollChecks(a) ==
    /\ server[a] = "received"
    /\ server' = [server EXCEPT ![a] =
          IF status[UuidOf(a)] \in {"none", "pending", "inactive"} THEN "checked" ELSE "refused"]
    /\ UNCHANGED <<client, from, how, serial, saved, machineVars, deviceVars>>

SameDevice(a, b) ==
    \/ UuidOf(a) = UuidOf(b)
    \/ serial[a] = serial[b] /\ serial[a] # NoSerial

\* Variant: no unique columns.
InsertDeviceAnyway(a) ==
    /\ server[a] = "checked"
    /\ server' = [server EXCEPT ![a] = "inserted"]
    /\ UNCHANGED <<client, from, how, serial, saved, machineVars, deviceVars>>

(* The flush.  device_uuid and serial_number are unique: an insert waits   *)
(* for one that is not committed, and fails if there is a committed one.   *)
InsertDevice(a) ==
    /\ server[a] = "checked"
    /\ \A b \in Attempt : server[b] = "inserted" => ~SameDevice(a, b)
    /\ server' = [server EXCEPT ![a] =
          IF \E u \in Uuid : Enrolled(u) /\ SameDevice(a, device[u]) THEN "failed" ELSE "inserted"]
    /\ UNCHANGED <<client, from, how, serial, saved, machineVars, deviceVars>>

(* The row and the certificate's are committed.                            *)
EnrollCommits(a) ==
    /\ server[a] = "inserted"
    /\ server' = [server EXCEPT ![a] = "committed"]
    /\ device' = [device EXCEPT ![UuidOf(a)] = a]
    /\ status' = [status EXCEPT ![UuidOf(a)] = "active"]
    /\ UNCHANGED <<client, from, how, serial, saved, machineVars, retiring>>

(* No CA on disk, an error of the database, the end of the worker.         *)
EnrollAborts(a) ==
    /\ server[a] \in {"received", "checked", "inserted"}
    /\ server' = [server EXCEPT ![a] = "failed"]
    /\ UNCHANGED <<client, from, how, serial, saved, machineVars, deviceVars>>

\* Variant: the status of the answer is not looked at.
AgentTakesAnyAnswer(a) ==
    /\ client[a] = "waiting"
    /\ server[a] \in {"committed", "refused", "failed"}
    /\ client' = [client EXCEPT ![a] = "saving"]
    /\ UNCHANGED <<from, how, serial, saved, server, machineVars, deviceVars>>

(* raise_for_status, or the answer with the certificates.                  *)
AgentGetsAnswer(a) ==
    /\ client[a] = "waiting"
    /\ server[a] \in {"committed", "refused", "failed"}
    /\ client' = [client EXCEPT ![a] = IF server[a] = "committed" THEN "saving" ELSE "failed"]
    /\ UNCHANGED <<from, how, serial, saved, server, machineVars, deviceVars>>

(* The agent gives up after 30 seconds, the answer is lost, or the run of  *)
(* enroll() dies, between two files too.  The request goes on.             *)
EnrollCutShort(a) ==
    /\ client[a] \in {"waiting", "saving"}
    /\ client' = [client EXCEPT ![a] = "failed"]
    /\ UNCHANGED <<from, how, serial, saved, server, machineVars, deviceVars>>

(* write_text empties the file before it writes: a run that dies in it     *)
(* leaves a part of the new file, or nothing, in place of the old one.     *)
SaveCutShort(a) ==
    /\ client[a] = "saving"
    /\ client' = [client EXCEPT ![a] = "failed"]
    /\ LET f == SaveOrder[saved[a] + 1]
       IN  /\ disk' = [disk EXCEPT ![from[a]][f] = a]
           /\ torn' = [torn EXCEPT ![from[a]] = @ \cup {f}]
    /\ UNCHANGED <<from, how, serial, saved, server, agent, deviceVars>>

SaveFile(a) ==
    /\ client[a] = "saving"
    /\ LET f == SaveOrder[saved[a] + 1]
       IN  /\ disk' = [disk EXCEPT ![from[a]][f] = a]
           /\ torn' = [torn EXCEPT ![from[a]] = @ \ {f}]
    /\ saved' = [saved EXCEPT ![a] = @ + 1]
    /\ client' = [client EXCEPT ![a] = IF saved'[a] = Len(SaveOrder) THEN "enrolled" ELSE @]
    /\ UNCHANGED <<from, how, serial, server, agent, deviceVars>>

-----------------------------------------------------------------------------
(* The certificate is for the key pair issue_device_certificate makes and  *)
(* forgets; the key on disk is the one of the CSR, which the server does   *)
(* not read.                                                               *)
CertifiedKey(a) == <<"server", a>>
OwnKey(a) == <<"agent", a>>
KeyFits(m) ==
    /\ torn[m] \cap {"device.crt", "device.key", "ca.crt"} = {}
    /\ CertifiedKey(disk[m]["device.crt"]) = OwnKey(disk[m]["device.key"])

(* The service starts, if it finds a configuration, and run() builds a TLS *)
(* context: load_cert_chain refuses a key that is not the certificate's.   *)
AgentTries(m) ==
    /\ Loads(m)
    /\ agent' = [agent EXCEPT ![m] = IF KeyFits(m) THEN "connected" ELSE "retrying"]
    /\ UNCHANGED <<attemptVars, disk, torn, deviceVars>>

(* retire_device sets the status of the device it has loaded ...           *)
RetireStarts(u) ==
    /\ Enrolled(u)
    /\ ~retiring[u]
    /\ retiring' = [retiring EXCEPT ![u] = TRUE]
    /\ UNCHANGED <<attemptVars, machineVars, device, status>>

(* ... and then reads the certificate through a relationship that was not  *)
(* loaded, which an async session refuses: get_db rolls all back.          *)
RetireRaises(u) ==
    /\ retiring[u]
    /\ retiring' = [retiring EXCEPT ![u] = FALSE]
    /\ UNCHANGED <<attemptVars, machineVars, device, status>>

Next ==
    \/ \E a \in Attempt :
          \/ EnrollStarts(a) \/ EnrollChecks(a) \/ InsertDevice(a)
          \/ EnrollCommits(a) \/ EnrollAborts(a)
          \/ AgentGetsAnswer(a) \/ EnrollCutShort(a)
          \/ SaveFile(a) \/ SaveCutShort(a)
    \/ \E m \in Machine : AgentTries(m)
    \/ \E u \in Uuid : RetireStarts(u) \/ RetireRaises(u)

Spec == Init /\ [][Next]_vars

-----------------------------------------------------------------------------
(* A device UUID, and a serial number, is enrolled once: of overlapping    *)
(* and repeated requests of one device only one is ever committed.         *)
EnrolledOnce ==
    \A a, b \in Attempt :
        (a # b /\ server[a] = "committed" /\ server[b] = "committed") => ~SameDevice(a, b)

(* AgentConfig.load takes config.json for a complete enrollment: whenever  *)
(* it can be read, after any crash and any overlap of two runs, the other  *)
(* files are there, each of a request the server committed for this        *)
(* machine.  One that was cut off is of another run of enroll().           *)
ConfigMeansComplete ==
    \A m \in Machine :
        Loads(m) =>
            \A f \in File : LET a == disk[m][f] IN
                /\ a # NoAttempt /\ from[a] = m /\ server[a] = "committed"
                /\ f \in torn[m] => a # disk[m]["config.json"]
=============================================================================
