---------------------------- MODULE DeviceReports ----------------------------
(***************************************************************************)
(* Inventory and compliance reports of one device: what _handle_inventory  *)
(* and _handle_compliance_report of api/websocket.py do with them, each in *)
(* one transaction, and the handlers of overlapping connections that do it *)
(* at the same time.                                                       *)
(*                                                                         *)
(* PostgreSQL runs the transactions at READ COMMITTED: a statement sees    *)
(* what was committed before it, and waits for a row that an unfinished    *)
(* transaction has changed or deleted.  The session flushes its inserts    *)
(* and updates with the commit, and updates only what differs from what it *)
(* had read.                                                               *)
(***************************************************************************)
EXTENDS ComplianceScore, FiniteSets, Sequences

CONSTANTS
    Handler,      \* bounds the connections served at a time
    Item,         \* programs and network interfaces
    Unversioned,  \* programs listed without a version: no key tells them apart
    Inventory,    \* the inventories the agent may send
    Checks,       \* the compliance reports: sequences of [rule, status]
    Rule,
    Foreign,      \* values of "rule_id" that name no rule, or are no UUID
    NoReport,
    NoRule        \* a check without a "rule_id"

Table == {"software", "network"}
SingleRow == {"hardware", "bitlocker"}

\* _evaluate_rule: "unknown" without a value, "error" after an exception.
Status == {"compliant", "non_compliant", "unknown", "error"}

(* What the agent collects.  A query of WMI that raises leaves its columns *)
(* out; Secure Boot and virtualization are always told, so there is always *)
(* something.                                                              *)
WindowsHardware ==
    {got \cup {"secure_boot", "virtualization"} :
        got \in SUBSET {"cpu_architecture", "memory", "disk", "gpu", "bios_date", "system",
                        "tpm", "long_tpm_version", "battery"}}

OtherHardware == {got \cup {"system"} : got \in SUBSET {"cpu", "memory", "disk"}}

\* A number for a String column, a string for a Date column, a TPM's
\* SpecVersion of more than ten characters.
IllTyped == {"cpu_architecture", "bios_date", "long_tpm_version"}

(* Programs are told apart by name and version before their names are      *)
(* stripped of blanks, packages not at all (dpkg lists one per machine     *)
(* architecture): twice is TRUE if two of the list have one key.  dated:   *)
(* one has an install date, which is a string again.                       *)
SoftwareList == [items : SUBSET Item, twice : BOOLEAN, dated : BOOLEAN]

\* No key here.  Loopback interfaces are left out.
NetworkList == SUBSET Item

\* collect_bitlocker never raises: without an answer it tells of no volumes.
BitLockerPart == BOOLEAN

(* collect_and_send: a collector that raises, or cannot be loaded, leaves  *)
(* its part out.                                                           *)
InventoryType ==
    [kind : {"inventory"}, hardware : {{}} \cup WindowsHardware \cup OtherHardware,
     software : SoftwareList, network : NetworkList, bitlocker : BitLockerPart]

ASSUME InventoryAssumption == Inventory \subseteq InventoryType /\ Unversioned \subseteq Item
ASSUME ChecksAssumption ==
    Checks \subseteq Seq([rule : Rule \cup Foreign \cup {NoRule}, status : Status])
ASSUME NoneAssumption ==
    /\ NoReport \notin Inventory /\ NoReport \notin Checks /\ NoRule \notin Rule
    /\ \A c \in Checks : NoReport # [kind |-> "compliance", checks |-> c]

VARIABLES
    \* the handlers
    pc,           \* where agent_ws stands
    says,         \* the report it handles
    seen,         \* single rows (hardware, BitLocker) it found
    doomed,       \* rows it has deleted, or waits for to delete
    seenRules,    \* the DeviceCompliance rows it found
    \* the database
    single,       \* which of the device's single rows exist
    rows,         \* InstalledSoftware and NetworkInterface rows
    ruleRow,      \* DeviceCompliance.status of each rule, or "none"
    score,        \* Device.compliance_score
    overall,      \* Device.compliance_status
    \* history
    last,         \* what was in the compliance report committed last
    overlapped    \* handlers whose report overlapped with another

handlerVars == <<pc, says>>
sessionVars == <<seen, doomed, seenRules>>
inventoryVars == <<single, rows>>
complianceVars == <<ruleRow, score, overall, last>>
vars == <<handlerVars, sessionVars, inventoryVars, complianceVars, overlapped>>

Busy == {"software", "softwareLock", "network", "networkLock",
         "bitlocker", "device", "rules", "commit"}
\* left: a later report of the same handler was committed, and the row is
\* still there.
Row == [table : Table, item : Item, by : Handler, left : BOOLEAN]
NoRules == [r \in Rule |-> "none"]

TypeOK ==
    /\ pc \in [Handler -> {"gone", "waiting", "refused"} \cup Busy]
    /\ \A h \in Handler : pc[h] \in Busy \cup {"refused"} <=> says[h] # NoReport
    /\ seen \in [Handler -> SUBSET SingleRow]
    /\ doomed \in [Handler -> SUBSET Row]
    /\ \A h \in Handler : doomed[h] # {} => pc[h] \in Busy
    /\ seenRules \in [Handler -> [Rule -> Status \cup {"none"}]]
    /\ single \subseteq SingleRow
    /\ rows \subseteq Row
    /\ ruleRow \in [Rule -> Status \cup {"none"}]
    /\ last \in Checks \cup {NoReport}
    /\ score \in -1 .. 100
    /\ overall = IF last = NoReport THEN "unknown" ELSE Overall(score)
    /\ overlapped \subseteq Handler

Init ==
    /\ pc = [h \in Handler |-> "gone"]
    /\ says = [h \in Handler |-> NoReport]
    /\ seen = [h \in Handler |-> {}]
    /\ doomed = [h \in Handler |-> {}]
    /\ seenRules = [h \in Handler |-> NoRules]
    /\ single = {}
    /\ rows = {}
    /\ ruleRow = NoRules
    /\ score = -1
    /\ overall = "unknown"
    /\ last = NoReport
    /\ overlapped = {}

-----------------------------------------------------------------------------
(* agent_ws: the agent connects, perhaps while an older handler still      *)
(* works on a report it was sent before.                                   *)
Connect(h) ==
    /\ pc[h] = "gone"
    /\ pc' = [pc EXCEPT ![h] = "waiting"]
    /\ UNCHANGED <<says, sessionVars, inventoryVars, complianceVars, overlapped>>

Begin(h, content, phase) ==
    LET others == {g \in Handler \ {h} : pc[g] \in Busy} IN
    /\ pc[h] = "waiting"
    /\ says' = [says EXCEPT ![h] = content]
    /\ pc' = [pc EXCEPT ![h] = phase]
    /\ overlapped' = overlapped \cup (IF others = {} THEN {} ELSE {h} \cup others)
    /\ UNCHANGED <<doomed, seenRules, inventoryVars, complianceVars>>

(* An inventory; its handler first looks for the hardware row.             *)
ReceiveInventory(h) ==
    \E content \in Inventory :
       /\ Begin(h, content, "software")
       /\ seen' = [seen EXCEPT ![h] = IF content.hardware # {} THEN single \cap {"hardware"} ELSE {}]

ReceiveCompliance(h) ==
    \E checks \in Checks :
       Begin(h, [kind |-> "compliance", checks |-> checks], "device") /\ UNCHANGED seen

(* The transaction is over, committed or rolled back.                      *)
Ends(h, phase) ==
    /\ pc' = [pc EXCEPT ![h] = phase]
    /\ says' = [says EXCEPT ![h] = NoReport]
    /\ seen' = [seen EXCEPT ![h] = {}]
    /\ seenRules' = [seenRules EXCEPT ![h] = NoRules]
    /\ overlapped' = overlapped \ {h}

\* Variant: nothing is rolled back, the session stays open.
RefuseKeepsLocks(h) ==
    /\ pc' = [pc EXCEPT ![h] = "refused"]
    /\ UNCHANGED <<says, doomed, seen, seenRules, inventoryVars, complianceVars, overlapped>>

(* An exception of the flush: all is rolled back.                          *)
Refuse(h) ==
    /\ pc' = [pc EXCEPT ![h] = "refused"]
    /\ doomed' = [doomed EXCEPT ![h] = {}]
    /\ UNCHANGED <<says, seen, seenRules, inventoryVars, complianceVars, overlapped>>

(* The link is lost, or the worker ends, or the handler was refused: no    *)
(* clause of agent_ws catches but for WebSocketDisconnect.                 *)
ConnectionEnds(h) ==
    /\ pc[h] # "gone"
    /\ Ends(h, "gone")
    /\ doomed' = [doomed EXCEPT ![h] = {}]
    /\ UNCHANGED <<inventoryVars, complianceVars>>

-----------------------------------------------------------------------------
After == [software |-> "network", network |-> "bitlocker"]
Lock == [software |-> "softwareLock", network |-> "networkLock"]
Listed(h, t) == IF t = "software" THEN says[h].software.items ELSE says[h].network

\* Variant: the old rows are not deleted.
DeleteNothing(h, t) ==
    /\ pc[h] = t
    /\ pc' = [pc EXCEPT ![h] = After[t]]
    /\ UNCHANGED <<says, sessionVars, inventoryVars, complianceVars, overlapped>>

(* The delete finds the rows committed before it.  A missing or an empty   *)
(* list leaves the old rows.                                               *)
DeleteStarts(h, t) ==
    /\ pc[h] = t
    /\ IF Listed(h, t) = {}
       THEN pc' = [pc EXCEPT ![h] = After[t]] /\ UNCHANGED doomed
       ELSE /\ pc' = [pc EXCEPT ![h] = Lock[t]]
            /\ doomed' = [doomed EXCEPT ![h] = @ \cup {x \in rows : x.table = t}]
    /\ UNCHANGED <<says, seen, seenRules, inventoryVars, complianceVars, overlapped>>

(* It waits for those another transaction has deleted; those of a commit   *)
(* are gone.  A handler at Lock[t] has deleted none of table t yet.        *)
Holds(g, t) == {x \in doomed[g] : x.table = t /\ pc[g] # Lock[t]}

DeleteEnds(h, t) ==
    /\ pc[h] = Lock[t]
    /\ \A g \in Handler \ {h} : Holds(g, t) \cap doomed[h] = {}
    /\ pc' = [pc EXCEPT ![h] = After[t]]
    /\ UNCHANGED <<says, doomed, seen, seenRules, inventoryVars, complianceVars, overlapped>>

\* Variant: no select, always an insert.
SelectNoBitLocker(h) ==
    /\ pc[h] = "bitlocker"
    /\ pc' = [pc EXCEPT ![h] = "commit"]
    /\ UNCHANGED <<says, seen, doomed, seenRules, inventoryVars, complianceVars, overlapped>>

SelectBitLocker(h) ==
    /\ pc[h] = "bitlocker"
    /\ pc' = [pc EXCEPT ![h] = "commit"]
    /\ seen' = [seen EXCEPT ![h] = IF says[h].bitlocker THEN @ \cup (single \cap {"bitlocker"}) ELSE @]
    /\ UNCHANGED <<says, doomed, seenRules, inventoryVars, complianceVars, overlapped>>

NewRows(h) ==
    UNION {{[table |-> t, item |-> i, by |-> h, left |-> FALSE] : i \in Listed(h, t)} : t \in Table}

\* An older row of h in a table it has reported again.
Later(x, h) == [x EXCEPT !.left = @ \/ (x.by = h /\ Listed(h, x.table) # {})]

(* The columns, and the unique keys: one hardware and one BitLocker row of *)
(* a device, one program with a name and version.  Where a key is that of  *)
(* a row another transaction has deleted PostgreSQL waits, and may find a  *)
(* deadlock; here the report is refused, or commits after the other.       *)
InventoryConflicts(h) ==
    \/ says[h].hardware \cap IllTyped # {}
    \/ says[h].software.dated
    \/ says[h].hardware # {} /\ "hardware" \in single \ seen[h]
    \/ says[h].bitlocker /\ "bitlocker" \in single \ seen[h]
    \/ says[h].software.twice
    \/ \E x \in rows \ doomed[h] :
          x.table = "software" /\ x.item \in Listed(h, "software") \ Unversioned

CommitInventory(h) ==
    /\ pc[h] = "commit"
    /\ says[h].kind = "inventory"
    /\ ~InventoryConflicts(h)
    /\ single' = single \cup (IF says[h].hardware # {} THEN {"hardware"} ELSE {})
                        \cup (IF says[h].bitlocker THEN {"bitlocker"} ELSE {})
    /\ rows' = {Later(x, h) : x \in rows \ doomed[h]} \cup NewRows(h)
    /\ doomed' = [g \in Handler |-> IF g = h THEN {} ELSE doomed[g] \ doomed[h]]
    /\ Ends(h, "waiting")
    /\ UNCHANGED complianceVars

RefuseInventory(h) ==
    /\ pc[h] = "commit"
    /\ says[h].kind = "inventory"
    /\ InventoryConflicts(h)
    /\ Refuse(h)

-----------------------------------------------------------------------------
LocksDevice(h) == says[h] # NoReport /\ says[h].kind = "compliance" /\ pc[h] \in {"rules", "commit"}

\* Variant: the update is flushed with the commit, as the rows are.
UpdateDeviceLater(h) ==
    /\ pc[h] = "device"
    /\ pc' = [pc EXCEPT ![h] = "rules"]
    /\ UNCHANGED <<says, sessionVars, inventoryVars, complianceVars, overlapped>>

(* The update of the device is a statement of its own: it locks the row    *)
(* until the commit.                                                       *)
UpdateDevice(h) ==
    /\ pc[h] = "device"
    /\ \A g \in Handler \ {h} : ~LocksDevice(g)
    /\ pc' = [pc EXCEPT ![h] = "rules"]
    /\ UNCHANGED <<says, sessionVars, inventoryVars, complianceVars, overlapped>>

ChecksOf(checks, r) == {k \in DOMAIN checks : checks[k].rule = r}

SelectRules(h) ==
    /\ pc[h] = "rules"
    /\ pc' = [pc EXCEPT ![h] = "commit"]
    /\ seenRules' = [seenRules EXCEPT ![h] =
          [r \in Rule |-> IF ChecksOf(says[h].checks, r) = {} THEN "none" ELSE ruleRow[r]]]
    /\ UNCHANGED <<says, seen, doomed, inventoryVars, complianceVars, overlapped>>

\* The last check of a rule is the one that stays.
Verdict(checks, r) ==
    LET ks == ChecksOf(checks, r) IN checks[CHOOSE k \in ks : \A j \in ks : j <= k].status

NamesForeign(content) == \E k \in DOMAIN content.checks : content.checks[k].rule \in Foreign

(* The foreign key of a row; and a rule has one row of the device: a       *)
(* second insert fails, of this report or of another.                      *)
ComplianceConflicts(h) ==
    \/ NamesForeign(says[h])
    \/ \E r \in Rule :
          /\ seenRules[h][r] = "none"
          /\ \/ Cardinality(ChecksOf(says[h].checks, r)) > 1
             \/ ChecksOf(says[h].checks, r) # {} /\ ruleRow[r] # "none"

ScoresOf(checks) ==
    Scores(Cardinality({k \in DOMAIN checks : checks[k].status = "compliant"}), Len(checks))

CommitCompliance(h) ==
    /\ pc[h] = "commit"
    /\ says[h].kind = "compliance"
    /\ ~ComplianceConflicts(h)
    /\ ruleRow' = [r \in Rule |->
          IF ChecksOf(says[h].checks, r) = {} \/ Verdict(says[h].checks, r) = seenRules[h][r]
          THEN ruleRow[r] ELSE Verdict(says[h].checks, r)]
    /\ score' \in ScoresOf(says[h].checks)
    /\ overall' = Overall(score')
    /\ last' = says[h].checks
    /\ Ends(h, "waiting")
    /\ UNCHANGED <<doomed, inventoryVars>>

(* The select raises for a "rule_id" that is no UUID, the commit otherwise. *)
RefuseCompliance(h) ==
    /\ says[h] # NoReport /\ says[h].kind = "compliance"
    /\ \/ pc[h] = "rules" /\ NamesForeign(says[h])
       \/ pc[h] = "commit" /\ ComplianceConflicts(h)
    /\ Refuse(h)

-----------------------------------------------------------------------------
Works(h) ==
    \/ \E t \in Table : DeleteStarts(h, t) \/ DeleteEnds(h, t)
    \/ SelectBitLocker(h) \/ CommitInventory(h) \/ RefuseInventory(h)
    \/ UpdateDevice(h) \/ SelectRules(h)
    \/ CommitCompliance(h) \/ RefuseCompliance(h)

Next ==
    \E h \in Handler :
       \/ Connect(h) \/ ConnectionEnds(h)
       \/ ReceiveInventory(h) \/ ReceiveCompliance(h)
       \/ Works(h)

Spec == Init /\ [][Next]_vars

(* A handler goes on while the database answers, and PostgreSQL serves     *)
(* those that wait for a row in their turn.                                *)
FairSpec == Spec /\ \A h \in Handler : SF_vars(Works(h))

-----------------------------------------------------------------------------
(* The score and the verdict of the device, and the rows of the rules, are *)
(* all of one report, the one committed last, however the reports of two   *)
(* connections interleave; and the rounding of the score does not hide a   *)
(* check that failed.                                                      *)
SummaryMatchesRows ==
    last # NoReport =>
       /\ score \in ScoresOf(last)
       /\ score = 100 => \A k \in DOMAIN last : last[k].status = "compliant"
       /\ \A r \in Rule : ChecksOf(last, r) # {} => ruleRow[r] = Verdict(last, r)

(* "Software - full replacement": what is stored of a handler's reports    *)
(* is of one report.  So there are at most as many generations of rows as  *)
(* handlers that overlapped.                                               *)
OneGenerationPerHandler ==
    \A x \in rows : ~x.left

(* A report ends the connection only if it is malformed itself or was      *)
(* handled while another one was.                                          *)
Malformed(content) ==
    IF content.kind = "inventory"
    THEN content.software.twice \/ content.software.dated \/ content.hardware \cap IllTyped # {}
    ELSE \/ NamesForeign(content)
         \/ \E r \in Rule : Cardinality(ChecksOf(content.checks, r)) > 1

RefusedHasCause ==
    \A h \in Handler : pc[h] = "refused" => Malformed(says[h]) \/ h \in overlapped

(* No report is handled for ever: handlers that wait for each other's rows *)
(* lock the tables in one order.                                           *)
ReportsEnd == \A h \in Handler : []<>(pc[h] \notin Busy)
=============================================================================
