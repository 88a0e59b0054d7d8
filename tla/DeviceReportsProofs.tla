------------------------- MODULE DeviceReportsProofs -------------------------
(***************************************************************************)
(* Theorems about DeviceReports, for any number of handlers and any        *)
(* reports.                                                                *)
(***************************************************************************)
EXTENDS DeviceReports, FiniteSetTheorems, WellFoundedInduction, TLAPS

ComplianceReport == {[kind |-> "compliance", checks |-> c] : c \in Checks}

(* What a handler works on, by its phase.                                  *)
InventoryPhase == {"software", "softwareLock", "network", "networkLock", "bitlocker"}

ReportsOK ==
    /\ says \in [Handler -> Inventory \cup ComplianceReport \cup {NoReport}]
    /\ \A h \in Handler : pc[h] \in InventoryPhase => says[h] \in Inventory
    /\ \A h \in Handler : pc[h] \in {"device", "rules"} => says[h] \in ComplianceReport

(* One handler at a time holds the row of the device, and the rows of the  *)
(* rules are still as it found them when it commits.                       *)
RulesOK ==
    /\ \A g, h \in Handler : LocksDevice(g) /\ LocksDevice(h) => g = h
    /\ \A h \in Handler : LocksDevice(h) /\ pc[h] = "commit" =>
          \A r \in Rule : ChecksOf(says[h].checks, r) # {} => seenRules[h][r] = ruleRow[r]

(* Behind the delete of a table, a handler has deleted all its own rows.   *)
Behind(t) ==
    IF t = "software"
    THEN {"softwareLock", "network", "networkLock", "bitlocker", "commit"}
    ELSE {"networkLock", "bitlocker", "commit"}

OwnRows(h, t) == {x \in rows : x.table = t /\ x.by = h}

GenerationsOK ==
    /\ OneGenerationPerHandler
    /\ \A h \in Handler : \A t \in Table :
          says[h] \in Inventory /\ pc[h] \in Behind(t) /\ Listed(h, t) # {} =>
             OwnRows(h, t) \subseteq doomed[h]

(* Only an inventory deletes rows.                                         *)
DoomedOK == \A h \in Handler : says[h] \in ComplianceReport => doomed[h] = {}

(* The summary is that of the report that was committed last.              *)
SummaryOK ==
    last # NoReport =>
       /\ score \in ScoresOf(last)
       /\ \A r \in Rule : ChecksOf(last, r) # {} => ruleRow[r] = Verdict(last, r)

Inv == TypeOK /\ ReportsOK /\ RulesOK /\ GenerationsOK /\ DoomedOK /\ SummaryOK

-----------------------------------------------------------------------------
LEMMA ScoreType ==
    ASSUME NEW checks, NEW n \in ScoresOf(checks)
    PROVE  n \in 0 .. 100
  BY DEF ScoresOf, Scores

(* A score of 100 of fewer than 200 checks hides none that failed.         *)
LEMMA HundredMeansAll ==
    ASSUME NEW checks \in Checks, Len(checks) < 200, 100 \in ScoresOf(checks)
    PROVE  \A k \in DOMAIN checks : checks[k].status = "compliant"
  <1> DEFINE good == {k \in DOMAIN checks : checks[k].status = "compliant"}
             c == Cardinality(good)
             t == Len(checks)
  <1>1. checks \in Seq([rule : Rule \cup Foreign \cup {NoRule}, status : Status])
    BY ChecksAssumption
  <1>2. t \in Nat /\ DOMAIN checks = 1 .. t
    BY <1>1
  <1>3. IsFiniteSet(1 .. t) /\ Cardinality(1 .. t) = t
    <2> HIDE DEF t
    <2>1. t \in Int /\ 1 \in Int
      BY <1>2
    <2>2. IsFiniteSet(1 .. t) /\ Cardinality(1 .. t) = IF 1 > t THEN 0 ELSE t - 1 + 1
      BY <2>1, FS_Interval
    <2> QED BY <1>2, <2>2
  <1>4. good \subseteq 1 .. t
    BY <1>2
  <1>5. /\ c <= Cardinality(1 .. t)
        /\ c = Cardinality(1 .. t) => good = 1 .. t
        /\ IsFiniteSet(good)
    BY <1>3, <1>4, FS_Subset
  <1>6. c \in Nat
    BY <1>5, FS_CardinalityType
  <1>7. 100 \in Scores(c, t)
    BY DEF ScoresOf
  <1> HIDE DEF c
  <1>8. t # 0 /\ 2 * (100 * t - 100 * c) <= t
    BY <1>7 DEF Scores
  <1>9. c = t
    <2> HIDE DEF t
    <2> QED BY <1>2, <1>3, <1>5, <1>6, <1>8
  <1>10. good = 1 .. t
    BY <1>3, <1>5, <1>9 DEF c
  <1> QED BY <1>2, <1>10

(* A rule that is in a report has a last check.                            *)
LEMMA LastCheck ==
    ASSUME NEW checks \in Checks, NEW r, ChecksOf(checks, r) # {}
    PROVE  Verdict(checks, r) \in Status
  <1> DEFINE ks == ChecksOf(checks, r)
             n == Len(checks)
             T == {n - k : k \in ks}
  <1>1. checks \in Seq([rule : Rule \cup Foreign \cup {NoRule}, status : Status])
    BY ChecksAssumption
  <1>2. n \in Nat /\ ks \subseteq 1 .. n
    BY <1>1 DEF ChecksOf
  <1>3. T \subseteq Nat /\ T # {}
    BY <1>2
  <1>4. PICK m \in T : \A y \in T : ~(<<y, m>> \in OpToRel(<, Nat))
    BY <1>3, NatLessThanWellFounded, WFMin
  <1>5. PICK k \in ks : m = n - k
    BY <1>4
  <1>6. \A j \in ks : j <= k
    <2> TAKE j \in ks
    <2>1. n - j \in T /\ n - j \in Nat /\ m \in Nat
      BY <1>3
    <2>2. ~(n - j < m)
      BY <1>4, <2>1 DEF OpToRel
    <2> QED BY <1>2, <1>5, <2>2
  <1>7. (CHOOSE i \in ks : \A j \in ks : j <= i) \in ks
    BY <1>5, <1>6
  <1> HIDE DEF ks
  <1>8. \A i \in ks : checks[i].status \in Status
    <2> DEFINE Check == [rule : Rule \cup Foreign \cup {NoRule}, status : Status]
    <2>1. \A x \in Check : x.status \in Status
      OBVIOUS
    <2> HIDE DEF Check
    <2>2. checks \in Seq(Check)
      BY <1>1 DEF Check
    <2>3. \A i \in 1 .. n : checks[i] \in Check
      BY <2>2
    <2> QED BY <1>2, <2>1, <2>3
  <1> QED BY <1>7, <1>8 DEF Verdict, ks

(* A report has a kind, and is something.                                  *)
LEMMA Kinds ==
    /\ \A s \in Inventory : s.kind = "inventory" /\ s # NoReport
    /\ \A s \in ComplianceReport : s.kind = "compliance" /\ s # NoReport /\ s.checks \in Checks
  BY InventoryAssumption, NoneAssumption DEF InventoryType, ComplianceReport

LEMMA ListedType ==
    ASSUME NEW h \in Handler, says[h] \in Inventory, NEW t \in Table
    PROVE  Listed(h, t) \subseteq Item
  <1>1. says[h] \in InventoryType
    BY InventoryAssumption
  <1>2. says[h].software.items \subseteq Item /\ says[h].network \subseteq Item
    BY <1>1 DEF InventoryType, SoftwareList, NetworkList
  <1> QED BY <1>2 DEF Listed

-----------------------------------------------------------------------------
LEMMA InitInv == Init => Inv
  <1> SUFFICES ASSUME Init PROVE Inv
    OBVIOUS
  <1> USE DEF Init
  <1>1. TypeOK
    BY DEF TypeOK, Busy, NoRules
  <1>2. ReportsOK
    BY DEF ReportsOK, InventoryPhase
  <1>3. RulesOK
    BY DEF RulesOK, LocksDevice
  <1>4. GenerationsOK
    BY DEF GenerationsOK, OneGenerationPerHandler, Behind
  <1>5. SummaryOK
    BY DEF SummaryOK
  <1>6. DoomedOK
    BY NoneAssumption, Kinds DEF DoomedOK
  <1> QED BY <1>6, <1>1, <1>2, <1>3, <1>4, <1>5 DEF Inv

(* A step of h that leaves the others and the rows of the rules alone, and *)
(* after which h does not hold the device.                                 *)
LEMMA RulesKept ==
    ASSUME RulesOK, NEW h \in Handler,
           \A g \in Handler \ {h} :
              pc'[g] = pc[g] /\ says'[g] = says[g] /\ seenRules'[g] = seenRules[g],
           UNCHANGED ruleRow,
           ~(LocksDevice(h)')
    PROVE  RulesOK'
  <1>1. \A g \in Handler \ {h} : LocksDevice(g)' <=> LocksDevice(g)
    BY DEF LocksDevice
  <1>2. ASSUME NEW g \in Handler, NEW k \in Handler, LocksDevice(g)', LocksDevice(k)'
        PROVE  g = k
    BY <1>1, <1>2 DEF RulesOK
  <1>3. ASSUME NEW g \in Handler, LocksDevice(g)', pc'[g] = "commit",
               NEW r \in Rule, ChecksOf(says'[g].checks, r) # {}
        PROVE  seenRules'[g][r] = ruleRow'[r]
    BY <1>1, <1>3 DEF RulesOK
  <1> QED BY <1>2, <1>3 DEF RulesOK

(* A step of h that leaves the rows and the others alone.                  *)
LEMMA GenerationsKept ==
    ASSUME GenerationsOK, NEW h \in Handler,
           \A g \in Handler \ {h} :
              pc'[g] = pc[g] /\ says'[g] = says[g] /\ doomed'[g] = doomed[g],
           UNCHANGED rows,
           \A t \in Table :
              says'[h] \in Inventory /\ pc'[h] \in Behind(t) /\ Listed(h, t)' # {} =>
                 OwnRows(h, t) \subseteq doomed'[h]
    PROVE  GenerationsOK'
  <1>1. \A g \in Handler \ {h} : \A t \in Table : Listed(g, t)' = Listed(g, t)
    BY DEF Listed
  <1>2. \A g \in Handler : \A t \in Table : OwnRows(g, t)' = OwnRows(g, t)
    BY DEF OwnRows
  <1>3. OneGenerationPerHandler'
    BY DEF GenerationsOK, OneGenerationPerHandler
  <1>4. ASSUME NEW g \in Handler, NEW t \in Table,
               says'[g] \in Inventory, pc'[g] \in Behind(t), Listed(g, t)' # {}
        PROVE  OwnRows(g, t)' \subseteq doomed'[g]
    BY <1>1, <1>2, <1>4 DEF GenerationsOK
  <1> QED BY <1>3, <1>4 DEF GenerationsOK

LEMMA DoomedKept ==
    ASSUME DoomedOK, NEW h \in Handler,
           \A g \in Handler \ {h} : says'[g] = says[g] /\ doomed'[g] \subseteq doomed[g],
           says'[h] \in ComplianceReport => doomed'[h] = {}
    PROVE  DoomedOK'
  BY DEF DoomedOK

LEMMA SummaryKept ==
    ASSUME SummaryOK, UNCHANGED <<ruleRow, score, last>>
    PROVE  SummaryOK'
  BY DEF SummaryOK

-----------------------------------------------------------------------------
LEMMA ConnectStep ==
    ASSUME Inv, NEW h \in Handler, Connect(h)
    PROVE  Inv'
  <1> USE DEF Inv
  <1>1. /\ pc[h] = "gone" /\ pc' = [pc EXCEPT ![h] = "waiting"]
        /\ UNCHANGED <<says, seen, doomed, seenRules, single, rows, ruleRow, score, overall, last, overlapped>>
    BY DEF Connect, sessionVars, inventoryVars, complianceVars
  <1>2. pc'[h] = "waiting" /\ \A g \in Handler \ {h} : pc'[g] = pc[g]
    BY <1>1 DEF TypeOK
  <1>3. TypeOK' BY <1>1 DEF TypeOK, Busy
  <1>4. ReportsOK' BY <1>1, <1>2 DEF ReportsOK, InventoryPhase
  <1>5. RulesOK' BY <1>1, <1>2, RulesKept DEF LocksDevice
  <1>6. GenerationsOK' BY <1>1, <1>2, GenerationsKept DEF Behind
  <1>7. SummaryOK' BY <1>1, SummaryKept
  <1>8. DoomedOK' BY <1>1, DoomedKept DEF DoomedOK
  <1> QED BY <1>8, <1>3, <1>4, <1>5, <1>6, <1>7

(* Begin, of an inventory or of a compliance report.                       *)
LEMMA BeginKeeps ==
    ASSUME Inv, NEW h \in Handler, NEW content, NEW phase,
           Begin(h, content, phase),
           \/ content \in Inventory /\ phase = "software"
           \/ content \in ComplianceReport /\ phase = "device",
           seen' \in [Handler -> SUBSET SingleRow]
    PROVE  Inv'
  <1> USE DEF Inv
  <1>1. /\ pc[h] = "waiting" /\ pc' = [pc EXCEPT ![h] = phase]
        /\ says' = [says EXCEPT ![h] = content]
        /\ overlapped' \subseteq overlapped \cup Handler
        /\ UNCHANGED <<doomed, seenRules, single, rows, ruleRow, score, overall, last>>
    BY DEF Begin, inventoryVars, complianceVars
  <1>2. /\ pc'[h] = phase /\ says'[h] = content
        /\ \A g \in Handler \ {h} : pc'[g] = pc[g] /\ says'[g] = says[g]
    BY <1>1 DEF TypeOK, ReportsOK
  <1>3. content # NoReport
    BY Kinds
  <1>4. TypeOK'
    <2>1. pc' \in [Handler -> {"gone", "waiting", "refused"} \cup Busy]
      BY <1>1 DEF TypeOK, Busy
    <2>2. \A g \in Handler : pc'[g] \in Busy \cup {"refused"} <=> says'[g] # NoReport
      BY <1>2, <1>3 DEF TypeOK, Busy
    <2>3. \A g \in Handler : doomed[g] # {} => pc'[g] \in Busy
      BY <1>2 DEF TypeOK, Busy
    <2> QED BY <1>1, <2>1, <2>2, <2>3 DEF TypeOK
  <1>5. ReportsOK' BY <1>1, <1>2 DEF ReportsOK, InventoryPhase
  <1>6. RulesOK' BY <1>1, <1>2, RulesKept DEF LocksDevice
  <1>7. GenerationsOK'
    <2>1. \A t \in Table : ~(content \in Inventory /\ phase \in Behind(t))
      BY Kinds DEF Behind
    <2> QED BY <1>1, <1>2, <2>1, GenerationsKept
  <1>8. SummaryOK' BY <1>1, SummaryKept
  <1>9. DoomedOK' BY <1>1, <1>2, DoomedKept DEF TypeOK, Busy
  <1> QED BY <1>9, <1>4, <1>5, <1>6, <1>7, <1>8

LEMMA ReceiveStep ==
    ASSUME Inv, NEW h \in Handler, ReceiveInventory(h) \/ ReceiveCompliance(h)
    PROVE  Inv'
  <1>1. CASE ReceiveInventory(h)
    <2>1. PICK content \in Inventory :
             /\ Begin(h, content, "software")
             /\ seen' = [seen EXCEPT ![h] = IF content.hardware # {} THEN single \cap {"hardware"} ELSE {}]
      BY <1>1 DEF ReceiveInventory
    <2>2. seen' \in [Handler -> SUBSET SingleRow]
      BY <2>1 DEF Inv, TypeOK
    <2> QED BY <2>1, <2>2, BeginKeeps
  <1>2. CASE ReceiveCompliance(h)
    <2>1. PICK checks \in Checks :
             Begin(h, [kind |-> "compliance", checks |-> checks], "device") /\ UNCHANGED seen
      BY <1>2 DEF ReceiveCompliance
    <2>2. [kind |-> "compliance", checks |-> checks] \in ComplianceReport
      BY DEF ComplianceReport
    <2>3. seen' \in [Handler -> SUBSET SingleRow]
      BY <2>1 DEF Inv, TypeOK
    <2> QED BY <2>1, <2>2, <2>3, BeginKeeps
  <1> QED BY <1>1, <1>2

(* What Ends leaves behind.                                                *)
LEMMA AfterEnds ==
    ASSUME TypeOK, ReportsOK, NEW h \in Handler, NEW phase \in {"gone", "waiting"}, Ends(h, phase)
    PROVE  /\ pc' \in [Handler -> {"gone", "waiting", "refused"} \cup Busy]
           /\ pc'[h] = phase /\ says'[h] = NoReport
           /\ \A g \in Handler \ {h} :
                 pc'[g] = pc[g] /\ says'[g] = says[g] /\ seenRules'[g] = seenRules[g]
           /\ \A g \in Handler : pc'[g] \in Busy \cup {"refused"} <=> says'[g] # NoReport
           /\ seen' \in [Handler -> SUBSET SingleRow]
           /\ seenRules' \in [Handler -> [Rule -> Status \cup {"none"}]]
           /\ overlapped' \subseteq Handler
           /\ ReportsOK'
           /\ ~(LocksDevice(h)')
  <1>1. /\ pc' = [pc EXCEPT ![h] = phase] /\ says' = [says EXCEPT ![h] = NoReport]
        /\ seen' = [seen EXCEPT ![h] = {}] /\ seenRules' = [seenRules EXCEPT ![h] = NoRules]
        /\ overlapped' = overlapped \ {h}
    BY DEF Ends
  <1>2. NoRules \in [Rule -> Status \cup {"none"}]
    BY DEF NoRules
  <1>3. pc' \in [Handler -> {"gone", "waiting", "refused"} \cup Busy]
    BY <1>1 DEF TypeOK
  <1>4. /\ pc'[h] = phase /\ says'[h] = NoReport
        /\ \A g \in Handler \ {h} :
              pc'[g] = pc[g] /\ says'[g] = says[g] /\ seenRules'[g] = seenRules[g]
    BY <1>1 DEF TypeOK, ReportsOK
  <1>5. \A g \in Handler : pc'[g] \in Busy \cup {"refused"} <=> says'[g] # NoReport
    BY <1>4 DEF TypeOK, Busy
  <1>6. seenRules' \in [Handler -> [Rule -> Status \cup {"none"}]]
    BY <1>1, <1>2 DEF TypeOK
  <1>7. seen' \in [Handler -> SUBSET SingleRow] /\ overlapped' \subseteq Handler
    BY <1>1 DEF TypeOK
  <1>8. ReportsOK'
    BY <1>1, <1>4 DEF ReportsOK, InventoryPhase
  <1> QED BY <1>3, <1>4, <1>5, <1>6, <1>7, <1>8 DEF LocksDevice

LEMMA ConnectionEndsStep ==
    ASSUME Inv, NEW h \in Handler, ConnectionEnds(h)
    PROVE  Inv'
  <1> USE DEF Inv
  <1>1. /\ Ends(h, "gone") /\ doomed' = [doomed EXCEPT ![h] = {}]
        /\ UNCHANGED <<single, rows, ruleRow, score, overall, last>>
    BY DEF ConnectionEnds, inventoryVars, complianceVars
  <1>2. /\ pc' \in [Handler -> {"gone", "waiting", "refused"} \cup Busy]
        /\ pc'[h] = "gone" /\ says'[h] = NoReport
        /\ \A g \in Handler \ {h} :
              pc'[g] = pc[g] /\ says'[g] = says[g] /\ seenRules'[g] = seenRules[g]
        /\ \A g \in Handler : pc'[g] \in Busy \cup {"refused"} <=> says'[g] # NoReport
        /\ seen' \in [Handler -> SUBSET SingleRow]
        /\ seenRules' \in [Handler -> [Rule -> Status \cup {"none"}]]
        /\ overlapped' \subseteq Handler
        /\ ReportsOK'
        /\ ~(LocksDevice(h)')
    BY <1>1, AfterEnds
  <1>3. /\ doomed' \in [Handler -> SUBSET Row] /\ doomed'[h] = {}
        /\ \A g \in Handler \ {h} : doomed'[g] = doomed[g]
    BY <1>1 DEF TypeOK
  <1>4. TypeOK'
    <2>1. \A g \in Handler : doomed'[g] # {} => pc'[g] \in Busy
      BY <1>2, <1>3 DEF TypeOK
    <2> QED BY <1>1, <1>2, <1>3, <2>1 DEF TypeOK
  <1>5. RulesOK' BY <1>1, <1>2, RulesKept
  <1>6. GenerationsOK' BY <1>1, <1>2, <1>3, GenerationsKept, NoneAssumption
  <1>7. SummaryOK' BY <1>1, SummaryKept
  <1>8. DoomedOK' BY <1>2, <1>3, DoomedKept
  <1> QED BY <1>8, <1>2, <1>4, <1>5, <1>6, <1>7

-----------------------------------------------------------------------------
(* A handler goes on from one phase to the next.                           *)
LEMMA PhaseType ==
    ASSUME TypeOK, ReportsOK, NEW h \in Handler, pc[h] \in Busy, NEW phase \in Busy,
           pc' = [pc EXCEPT ![h] = phase],
           UNCHANGED <<says, single, rows, ruleRow, score, overall, last, overlapped>>,
           doomed' \in [Handler -> SUBSET Row],
           \A g \in Handler \ {h} : doomed'[g] = doomed[g],
           seen' \in [Handler -> SUBSET SingleRow],
           seenRules' \in [Handler -> [Rule -> Status \cup {"none"}]],
           phase \in InventoryPhase => says[h] \in Inventory,
           phase \in {"device", "rules"} => says[h] \in ComplianceReport
    PROVE  /\ TypeOK' /\ ReportsOK'
           /\ pc'[h] = phase /\ \A g \in Handler \ {h} : pc'[g] = pc[g]
  <1>1. pc'[h] = phase /\ \A g \in Handler \ {h} : pc'[g] = pc[g]
    BY DEF TypeOK
  <1>2. pc' \in [Handler -> {"gone", "waiting", "refused"} \cup Busy]
    BY DEF TypeOK
  <1>3. \A g \in Handler : pc'[g] \in Busy \cup {"refused"} <=> says'[g] # NoReport
    BY <1>1 DEF TypeOK
  <1>4. \A g \in Handler : doomed'[g] # {} => pc'[g] \in Busy
    BY <1>1 DEF TypeOK
  <1>5. TypeOK'
    BY <1>2, <1>3, <1>4 DEF TypeOK
  <1>6. ReportsOK'
    BY <1>1 DEF ReportsOK
  <1> QED BY <1>1, <1>5, <1>6

LEMMA DeleteStartsStep ==
    ASSUME Inv, NEW h \in Handler, NEW t \in Table, DeleteStarts(h, t)
    PROVE  Inv'
  <1> USE DEF Inv
  <1>1. /\ pc[h] = t
        /\ UNCHANGED <<says, seen, seenRules, single, rows, ruleRow, score, overall, last, overlapped>>
    BY DEF DeleteStarts, inventoryVars, complianceVars
  <1>2. pc[h] \in Busy /\ says[h] \in Inventory
    BY <1>1 DEF Table, Busy, ReportsOK, InventoryPhase
  <1>3. ~(says[h] \in ComplianceReport) /\ says[h].kind = "inventory"
    BY <1>2, Kinds
  <1>4. PICK phase : /\ pc' = [pc EXCEPT ![h] = phase]
                     /\ phase \in {After[t], Lock[t]}
                     /\ IF Listed(h, t) = {} THEN phase = After[t] /\ doomed' = doomed
                        ELSE /\ phase = Lock[t]
                             /\ doomed' = [doomed EXCEPT ![h] = doomed[h] \cup {x \in rows : x.table = t}]
    BY DEF DeleteStarts
  <1>5. /\ t = "software" => After[t] = "network" /\ Lock[t] = "softwareLock"
        /\ t = "network" => After[t] = "bitlocker" /\ Lock[t] = "networkLock"
        /\ t \in {"software", "network"}
    BY DEF After, Lock, Table
  <1>6. phase \in InventoryPhase /\ phase \in Busy /\ phase \notin {"device", "rules"}
    BY <1>4, <1>5 DEF InventoryPhase, Busy
  <1>7. /\ doomed' \in [Handler -> SUBSET Row]
        /\ \A g \in Handler \ {h} : doomed'[g] = doomed[g]
        /\ doomed[h] \subseteq doomed'[h]
        /\ Listed(h, t) # {} => {x \in rows : x.table = t} \subseteq doomed'[h]
    BY <1>4 DEF TypeOK
  <1>8. /\ TypeOK' /\ ReportsOK'
        /\ pc'[h] = phase /\ \A g \in Handler \ {h} : pc'[g] = pc[g]
    BY <1>1, <1>2, <1>4, <1>6, <1>7, PhaseType DEF TypeOK
  <1>9. RulesOK'
    BY <1>1, <1>3, <1>8, RulesKept DEF LocksDevice
  <1>10. GenerationsOK'
    <2>1. ASSUME NEW u \in Table, phase \in Behind(u), Listed(h, u)' # {}
          PROVE  OwnRows(h, u) \subseteq doomed'[h]
      <3>1. Listed(h, u) # {}
        BY <1>1, <2>1 DEF Listed
      <3>2. CASE u = t
        BY <1>7, <3>1, <3>2 DEF OwnRows
      <3>3. CASE u # t
        <4>1. t = "network" /\ u = "software"
          BY <1>4, <1>5, <2>1, <3>3 DEF Behind, Table
        <4>2. pc[h] \in Behind(u)
          BY <1>1, <4>1 DEF Behind
        <4> QED BY <1>2, <1>7, <3>1, <4>2 DEF GenerationsOK
      <3> QED BY <3>2, <3>3
    <2> QED BY <1>1, <1>7, <1>8, <2>1, GenerationsKept
  <1>11. SummaryOK' BY <1>1, SummaryKept
  <1>12. DoomedOK' BY <1>1, <1>3, <1>7, DoomedKept
  <1> QED BY <1>12, <1>8, <1>9, <1>10, <1>11

LEMMA DeleteEndsStep ==
    ASSUME Inv, NEW h \in Handler, NEW t \in Table, DeleteEnds(h, t)
    PROVE  Inv'
  <1> USE DEF Inv
  <1>1. /\ pc[h] = Lock[t] /\ pc' = [pc EXCEPT ![h] = After[t]]
        /\ UNCHANGED <<says, doomed, seen, seenRules, single, rows, ruleRow, score, overall, last, overlapped>>
    BY DEF DeleteEnds, inventoryVars, complianceVars
  <1>2. \/ t = "software" /\ After[t] = "network" /\ Lock[t] = "softwareLock"
        \/ t = "network" /\ After[t] = "bitlocker" /\ Lock[t] = "networkLock"
    BY DEF After, Lock, Table
  <1>3. pc[h] \in Busy /\ says[h] \in Inventory
    BY <1>1, <1>2 DEF Busy, ReportsOK, InventoryPhase
  <1>4. says[h].kind = "inventory"
    BY <1>3, Kinds
  <1>5. After[t] \in InventoryPhase /\ After[t] \in Busy /\ After[t] \notin {"device", "rules"}
    BY <1>2 DEF InventoryPhase, Busy
  <1>6. /\ TypeOK' /\ ReportsOK'
        /\ pc'[h] = After[t] /\ \A g \in Handler \ {h} : pc'[g] = pc[g]
    BY <1>1, <1>3, <1>5, PhaseType DEF TypeOK
  <1>7. RulesOK'
    BY <1>1, <1>4, <1>6, RulesKept DEF LocksDevice
  <1>8. GenerationsOK'
    <2>1. \A u \in Table : After[t] \in Behind(u) => pc[h] \in Behind(u)
      BY <1>1, <1>2 DEF Behind, Table
    <2>2. \A u \in Table : Listed(h, u)' = Listed(h, u)
      BY <1>1 DEF Listed
    <2>3. \A u \in Table : After[t] \in Behind(u) /\ Listed(h, u)' # {} => OwnRows(h, u) \subseteq doomed[h]
      BY <1>3, <2>1, <2>2 DEF GenerationsOK
    <2> QED BY <1>1, <1>6, <2>3, GenerationsKept
  <1>9. SummaryOK' BY <1>1, SummaryKept
  <1>10. DoomedOK' BY <1>1, DoomedKept DEF DoomedOK
  <1> QED BY <1>10, <1>6, <1>7, <1>8, <1>9

LEMMA SelectBitLockerStep ==
    ASSUME Inv, NEW h \in Handler, SelectBitLocker(h)
    PROVE  Inv'
  <1> USE DEF Inv
  <1>1. /\ pc[h] = "bitlocker" /\ pc' = [pc EXCEPT ![h] = "commit"]
        /\ seen' = [seen EXCEPT ![h] =
                       IF says[h].bitlocker THEN seen[h] \cup (single \cap {"bitlocker"}) ELSE seen[h]]
        /\ UNCHANGED <<says, doomed, seenRules, single, rows, ruleRow, score, overall, last, overlapped>>
    BY DEF SelectBitLocker, inventoryVars, complianceVars
  <1>2. pc[h] \in Busy /\ "commit" \in Busy /\ says[h] \in Inventory /\ says[h].kind = "inventory"
    BY <1>1, Kinds DEF Busy, ReportsOK, InventoryPhase
  <1>3. seen' \in [Handler -> SUBSET SingleRow]
    BY <1>1 DEF TypeOK
  <1>4. /\ TypeOK' /\ ReportsOK'
        /\ pc'[h] = "commit" /\ \A g \in Handler \ {h} : pc'[g] = pc[g]
    BY <1>1, <1>2, <1>3, PhaseType DEF TypeOK, InventoryPhase
  <1>5. RulesOK'
    BY <1>1, <1>2, <1>4, RulesKept DEF LocksDevice
  <1>6. GenerationsOK'
    <2>1. \A u \in Table : pc[h] \in Behind(u)
      BY <1>1 DEF Behind
    <2>2. \A u \in Table : Listed(h, u)' = Listed(h, u)
      BY <1>1 DEF Listed
    <2>3. \A u \in Table : Listed(h, u)' # {} => OwnRows(h, u) \subseteq doomed[h]
      BY <1>2, <2>1, <2>2 DEF GenerationsOK
    <2> QED BY <1>1, <1>4, <2>3, GenerationsKept
  <1>7. SummaryOK' BY <1>1, SummaryKept
  <1>8. DoomedOK' BY <1>1, DoomedKept DEF DoomedOK
  <1> QED BY <1>8, <1>4, <1>5, <1>6, <1>7

(* An exception: the handler is refused.                                   *)
LEMMA RefuseStep ==
    ASSUME Inv, NEW h \in Handler, RefuseInventory(h) \/ RefuseCompliance(h)
    PROVE  Inv'
  <1> USE DEF Inv
  <1>1. /\ pc[h] \in {"rules", "commit"} /\ pc' = [pc EXCEPT ![h] = "refused"]
        /\ doomed' = [doomed EXCEPT ![h] = {}]
        /\ UNCHANGED <<says, seen, seenRules, single, rows, ruleRow, score, overall, last, overlapped>>
    BY DEF RefuseInventory, RefuseCompliance, Refuse, inventoryVars, complianceVars
  <1>2. pc'[h] = "refused" /\ \A g \in Handler \ {h} : pc'[g] = pc[g]
    BY <1>1 DEF TypeOK
  <1>3. /\ doomed' \in [Handler -> SUBSET Row] /\ doomed'[h] = {}
        /\ \A g \in Handler \ {h} : doomed'[g] = doomed[g]
    BY <1>1 DEF TypeOK
  <1>4. TypeOK'
    <2>1. \A g \in Handler : pc'[g] \in Busy \cup {"refused"} <=> says'[g] # NoReport
      BY <1>1, <1>2 DEF TypeOK, Busy
    <2>2. \A g \in Handler : doomed'[g] # {} => pc'[g] \in Busy
      BY <1>2, <1>3 DEF TypeOK
    <2> QED BY <1>1, <1>3, <2>1, <2>2 DEF TypeOK
  <1>5. ReportsOK' BY <1>1, <1>2 DEF ReportsOK, InventoryPhase
  <1>6. RulesOK' BY <1>1, <1>2, RulesKept DEF LocksDevice
  <1>7. GenerationsOK' BY <1>1, <1>2, <1>3, GenerationsKept DEF Behind
  <1>8. SummaryOK' BY <1>1, SummaryKept
  <1>9. DoomedOK' BY <1>1, <1>3, DoomedKept
  <1> QED BY <1>9, <1>4, <1>5, <1>6, <1>7, <1>8

-----------------------------------------------------------------------------
(* The commit of an inventory takes the rows the handler has deleted and   *)
(* adds its own; no row that stays is one of its own.                      *)
LEMMA CommitRows ==
    ASSUME Inv, NEW h \in Handler, CommitInventory(h)
    PROVE  /\ says[h] \in Inventory
           /\ rows' = (rows \ doomed[h]) \cup NewRows(h)
           /\ NewRows(h) \subseteq Row
           /\ \A x \in NewRows(h) : x.by = h /\ ~x.left
  <1> USE DEF Inv
  <1>1. /\ pc[h] = "commit" /\ says[h].kind = "inventory"
        /\ rows' = {Later(x, h) : x \in rows \ doomed[h]} \cup NewRows(h)
    BY DEF CommitInventory
  <1>2. says[h] # NoReport
    BY <1>1 DEF TypeOK, Busy
  <1>3. says[h] \in Inventory
    BY <1>1, <1>2, Kinds DEF ReportsOK
  <1>4. ASSUME NEW x \in rows \ doomed[h]
        PROVE  Later(x, h) = x
    <2>1. x \in Row /\ x.table \in Table /\ x.left = FALSE
      BY DEF TypeOK, Row, GenerationsOK, OneGenerationPerHandler
    <2>2. pc[h] \in Behind(x.table)
      BY <1>1, <2>1 DEF Behind
    <2>3. x.by = h => x \in OwnRows(h, x.table)
      BY <2>1 DEF OwnRows
    <2>4. ~(x.by = h /\ Listed(h, x.table) # {})
      BY <1>3, <2>1, <2>2, <2>3 DEF GenerationsOK
    <2>5. Later(x, h) = [x EXCEPT !.left = FALSE]
      BY <2>1, <2>4 DEF Later
    <2> QED BY <2>1, <2>5 DEF Row
  <1>5. {Later(x, h) : x \in rows \ doomed[h]} = rows \ doomed[h]
    BY <1>4
  <1>6. ASSUME NEW x \in NewRows(h)
        PROVE  x \in Row /\ x.by = h /\ ~x.left
    <2>1. PICK t \in Table : x \in {[table |-> t, item |-> i, by |-> h, left |-> FALSE] : i \in Listed(h, t)}
      BY <1>6 DEF NewRows
    <2>2. PICK i \in Listed(h, t) : x = [table |-> t, item |-> i, by |-> h, left |-> FALSE]
      BY <2>1
    <2>3. i \in Item
      BY <1>3, ListedType
    <2> QED BY <2>2, <2>3 DEF Row
  <1> QED BY <1>1, <1>3, <1>5, <1>6

LEMMA CommitInventoryStep ==
    ASSUME Inv, NEW h \in Handler, CommitInventory(h)
    PROVE  Inv'
  <1> USE DEF Inv
  <1>1. /\ Ends(h, "waiting")
        /\ single' = single \cup (IF says[h].hardware # {} THEN {"hardware"} ELSE {})
                            \cup (IF says[h].bitlocker THEN {"bitlocker"} ELSE {})
        /\ doomed' = [g \in Handler |-> IF g = h THEN {} ELSE doomed[g] \ doomed[h]]
        /\ UNCHANGED <<ruleRow, score, overall, last>>
    BY DEF CommitInventory, complianceVars
  <1>2. /\ pc' \in [Handler -> {"gone", "waiting", "refused"} \cup Busy]
        /\ pc'[h] = "waiting" /\ says'[h] = NoReport
        /\ \A g \in Handler \ {h} :
              pc'[g] = pc[g] /\ says'[g] = says[g] /\ seenRules'[g] = seenRules[g]
        /\ \A g \in Handler : pc'[g] \in Busy \cup {"refused"} <=> says'[g] # NoReport
        /\ seen' \in [Handler -> SUBSET SingleRow]
        /\ seenRules' \in [Handler -> [Rule -> Status \cup {"none"}]]
        /\ overlapped' \subseteq Handler
        /\ ReportsOK'
        /\ ~(LocksDevice(h)')
    BY <1>1, AfterEnds
  <1>3. /\ rows' = (rows \ doomed[h]) \cup NewRows(h)
        /\ NewRows(h) \subseteq Row
        /\ \A x \in NewRows(h) : x.by = h /\ ~x.left
    BY CommitRows
  <1> HIDE DEF Inv
  <1>4. TypeOK /\ GenerationsOK /\ RulesOK /\ DoomedOK /\ SummaryOK
    BY DEF Inv
  <1>5. /\ doomed' \in [Handler -> SUBSET Row] /\ doomed'[h] = {}
        /\ \A g \in Handler \ {h} : doomed'[g] = doomed[g] \ doomed[h]
    BY <1>1, <1>4 DEF TypeOK
  <1>6. TypeOK'
    <2>1. single' \subseteq SingleRow
      BY <1>1, <1>4 DEF TypeOK, SingleRow
    <2>2. rows' \subseteq Row
      BY <1>3, <1>4 DEF TypeOK
    <2>3. \A g \in Handler : doomed'[g] # {} => pc'[g] \in Busy
      BY <1>2, <1>4, <1>5 DEF TypeOK
    <2> QED BY <1>1, <1>2, <1>4, <1>5, <2>1, <2>2, <2>3 DEF TypeOK
  <1>7. RulesOK' BY <1>1, <1>2, <1>4, RulesKept
  <1>8. GenerationsOK'
    <2>1. OneGenerationPerHandler'
      BY <1>3, <1>4 DEF GenerationsOK, OneGenerationPerHandler
    <2>2. ASSUME NEW g \in Handler, NEW t \in Table,
                 says'[g] \in Inventory, pc'[g] \in Behind(t), Listed(g, t)' # {}
          PROVE  OwnRows(g, t)' \subseteq doomed'[g]
      <3>1. g # h
        BY <1>2, <2>2, NoneAssumption
      <3>2. says[g] \in Inventory /\ pc[g] \in Behind(t) /\ Listed(g, t) # {}
        BY <1>2, <2>2, <3>1 DEF Listed
      <3>3. OwnRows(g, t) \subseteq doomed[g]
        BY <1>4, <3>2 DEF GenerationsOK
      <3>4. OwnRows(g, t)' \subseteq OwnRows(g, t) \ doomed[h]
        BY <1>3, <3>1 DEF OwnRows
      <3> QED BY <1>5, <3>1, <3>3, <3>4
    <2> QED BY <2>1, <2>2 DEF GenerationsOK
  <1>9. SummaryOK' BY <1>1, <1>4, SummaryKept
  <1>10. DoomedOK' BY <1>2, <1>4, <1>5, DoomedKept
  <1> QED BY <1>10, <1>2, <1>6, <1>7, <1>8, <1>9 DEF Inv

-----------------------------------------------------------------------------
LEMMA UpdateDeviceStep ==
    ASSUME Inv, NEW h \in Handler, UpdateDevice(h)
    PROVE  Inv'
  <1> USE DEF Inv
  <1>1. /\ pc[h] = "device" /\ pc' = [pc EXCEPT ![h] = "rules"]
        /\ \A g \in Handler \ {h} : ~LocksDevice(g)
        /\ UNCHANGED <<says, doomed, seen, seenRules, single, rows, ruleRow, score, overall, last, overlapped>>
    BY DEF UpdateDevice, sessionVars, inventoryVars, complianceVars
  <1>2. pc[h] \in Busy /\ "rules" \in Busy /\ says[h] \in ComplianceReport
    BY <1>1 DEF Busy, ReportsOK
  <1>3. /\ TypeOK' /\ ReportsOK'
        /\ pc'[h] = "rules" /\ \A g \in Handler \ {h} : pc'[g] = pc[g]
    BY <1>1, <1>2, PhaseType DEF TypeOK, InventoryPhase
  <1>4. RulesOK'
    BY <1>1, <1>3 DEF RulesOK, LocksDevice
  <1>5. GenerationsOK'
    BY <1>1, <1>3, GenerationsKept DEF Behind
  <1>6. SummaryOK' BY <1>1, SummaryKept
  <1>7. DoomedOK' BY <1>1, DoomedKept DEF DoomedOK
  <1> QED BY <1>7, <1>3, <1>4, <1>5, <1>6

LEMMA SelectRulesStep ==
    ASSUME Inv, NEW h \in Handler, SelectRules(h)
    PROVE  Inv'
  <1> USE DEF Inv
  <1> DEFINE found == [r \in Rule |-> IF ChecksOf(says[h].checks, r) = {} THEN "none" ELSE ruleRow[r]]
  <1>1. /\ pc[h] = "rules" /\ pc' = [pc EXCEPT ![h] = "commit"]
        /\ seenRules' = [seenRules EXCEPT ![h] = found]
        /\ UNCHANGED <<says, doomed, seen, single, rows, ruleRow, score, overall, last, overlapped>>
    BY DEF SelectRules, inventoryVars, complianceVars
  <1>2. /\ pc[h] \in Busy /\ "commit" \in Busy /\ says[h] \in ComplianceReport
        /\ says[h].kind = "compliance" /\ says[h] # NoReport /\ says[h] \notin Inventory
    BY <1>1, Kinds DEF Busy, ReportsOK
  <1>3. seenRules' \in [Handler -> [Rule -> Status \cup {"none"}]]
    BY <1>1 DEF TypeOK
  <1>4. /\ TypeOK' /\ ReportsOK'
        /\ pc'[h] = "commit" /\ \A g \in Handler \ {h} : pc'[g] = pc[g]
    BY <1>1, <1>2, <1>3, PhaseType DEF TypeOK, InventoryPhase
  <1>5. RulesOK'
    <2>1. LocksDevice(h)
      BY <1>1, <1>2 DEF LocksDevice
    <2>2. \A g \in Handler : LocksDevice(g)' => LocksDevice(g)
      BY <1>1, <1>4, <2>1 DEF LocksDevice
    <2>3. \A g \in Handler : LocksDevice(g)' => g = h
      BY <2>1, <2>2 DEF RulesOK
    <2>4. seenRules'[h] = found
      BY <1>1 DEF TypeOK
    <2>5. \A r \in Rule : ChecksOf(says'[h].checks, r) # {} => seenRules'[h][r] = ruleRow'[r]
      BY <1>1, <2>4
    <2> QED BY <2>3, <2>5 DEF RulesOK
  <1>6. GenerationsOK'
    BY <1>1, <1>2, <1>4, GenerationsKept
  <1>7. SummaryOK' BY <1>1, SummaryKept
  <1>8. DoomedOK' BY <1>1, DoomedKept DEF DoomedOK
  <1> QED BY <1>8, <1>4, <1>5, <1>6, <1>7

LEMMA CommitComplianceStep ==
    ASSUME Inv, NEW h \in Handler, CommitCompliance(h)
    PROVE  Inv'
  <1> USE DEF Inv
  <1> DEFINE checks == says[h].checks
             stays(r) == ChecksOf(checks, r) = {} \/ Verdict(checks, r) = seenRules[h][r]
  <1>1. /\ pc[h] = "commit" /\ says[h].kind = "compliance"
        /\ ruleRow' = [r \in Rule |-> IF stays(r) THEN ruleRow[r] ELSE Verdict(checks, r)]
        /\ score' \in ScoresOf(checks) /\ overall' = Overall(score') /\ last' = checks
        /\ Ends(h, "waiting")
        /\ UNCHANGED <<doomed, single, rows>>
    BY DEF CommitCompliance, inventoryVars
  <1>2. /\ pc' \in [Handler -> {"gone", "waiting", "refused"} \cup Busy]
        /\ pc'[h] = "waiting" /\ says'[h] = NoReport
        /\ \A g \in Handler \ {h} :
              pc'[g] = pc[g] /\ says'[g] = says[g] /\ seenRules'[g] = seenRules[g]
        /\ \A g \in Handler : pc'[g] \in Busy \cup {"refused"} <=> says'[g] # NoReport
        /\ seen' \in [Handler -> SUBSET SingleRow]
        /\ seenRules' \in [Handler -> [Rule -> Status \cup {"none"}]]
        /\ overlapped' \subseteq Handler
        /\ ReportsOK'
        /\ ~(LocksDevice(h)')
    BY <1>1, AfterEnds
  <1>3. says[h] # NoReport /\ LocksDevice(h)
    BY <1>1 DEF TypeOK, Busy, LocksDevice
  <1>4. says[h] \in ComplianceReport /\ checks \in Checks
    BY <1>1, <1>3, Kinds DEF ReportsOK
  <1>5. doomed[h] = {}
    BY <1>4 DEF DoomedOK
  <1>6. \A r \in Rule : ChecksOf(checks, r) # {} => seenRules[h][r] = ruleRow[r]
    BY <1>1, <1>3 DEF RulesOK
  <1>7. TypeOK'
    <2>1. \A r \in Rule : ChecksOf(checks, r) # {} => Verdict(checks, r) \in Status
      BY <1>4, LastCheck
    <2> HIDE DEF checks, stays
    <2>2. ASSUME NEW r \in Rule
          PROVE  (IF stays(r) THEN ruleRow[r] ELSE Verdict(checks, r)) \in Status \cup {"none"}
      BY <2>1 DEF stays, TypeOK
    <2>3. ruleRow' \in [Rule -> Status \cup {"none"}]
      BY <1>1, <2>2
    <2>4. score' \in -1 .. 100
      <3>1. score' \in 0 .. 100
        BY <1>1, ScoreType
      <3> QED BY <3>1
    <2>5. last' # NoReport /\ last' \in Checks
      BY <1>1, <1>4, NoneAssumption
    <2>6. overall' = IF last' = NoReport THEN "unknown" ELSE Overall(score')
      BY <1>1, <2>5
    <2>7. \A g \in Handler : doomed'[g] # {} => pc'[g] \in Busy
      BY <1>1, <1>2, <1>5 DEF TypeOK
    <2> QED BY <1>1, <1>2, <2>3, <2>4, <2>5, <2>6, <2>7 DEF TypeOK
  <1>8. RulesOK'
    <2>1. \A g \in Handler : ~(LocksDevice(g)')
      BY <1>2, <1>3 DEF RulesOK, LocksDevice
    <2> QED BY <2>1 DEF RulesOK
  <1>9. GenerationsOK'
    BY <1>1, <1>2, GenerationsKept, NoneAssumption
  <1>10. DoomedOK'
    BY <1>1, <1>2, <1>5, DoomedKept
  <1>11. SummaryOK'
    <2>1. ASSUME NEW r \in Rule, ChecksOf(checks, r) # {}
          PROVE  ruleRow'[r] = Verdict(checks, r)
      BY <1>1, <1>6, <2>1
    <2> QED BY <1>1, <2>1 DEF SummaryOK
  <1> QED BY <1>2, <1>7, <1>8, <1>9, <1>10, <1>11

-----------------------------------------------------------------------------
LEMMA StepInv == Inv /\ [Next]_vars => Inv'
  <1> SUFFICES ASSUME Inv, [Next]_vars PROVE Inv'
    OBVIOUS
  <1>1. CASE UNCHANGED vars
    <2>1. UNCHANGED <<pc, says, seen, doomed, seenRules, single, rows, ruleRow, score, overall,
                      last, overlapped>>
      BY <1>1 DEF vars, handlerVars, sessionVars, inventoryVars, complianceVars
    <2>2. TypeOK' BY <2>1 DEF Inv, TypeOK
    <2>3. ReportsOK' BY <2>1 DEF Inv, ReportsOK
    <2>4. RulesOK' BY <2>1 DEF Inv, RulesOK, LocksDevice
    <2>5. GenerationsOK'
      BY <2>1 DEF Inv, GenerationsOK, OneGenerationPerHandler, Listed, OwnRows
    <2>6. DoomedOK' /\ SummaryOK' BY <2>1 DEF Inv, DoomedOK, SummaryOK
    <2> QED BY <2>2, <2>3, <2>4, <2>5, <2>6 DEF Inv
  <1>2. CASE Next
    BY <1>2, ConnectStep, ReceiveStep, ConnectionEndsStep, DeleteStartsStep, DeleteEndsStep,
       SelectBitLockerStep, CommitInventoryStep, RefuseStep, UpdateDeviceStep, SelectRulesStep,
       CommitComplianceStep DEF Next, Works
  <1> QED BY <1>1, <1>2

LEMMA Invariant == Spec => []Inv
  BY InitInv, StepInv, PTL DEF Spec

(* Every variable keeps its type; the verdict of a device is that of its   *)
(* score, and only a handler at work holds locks.                          *)
THEOREM TypeCorrect == Spec => []TypeOK
  BY Invariant, PTL DEF Inv

(* What is stored of the inventories of one handler is of one inventory:   *)
(* the next one takes every row of the one before.                         *)
THEOREM OneGeneration == Spec => []OneGenerationPerHandler
  BY Invariant, PTL DEF Inv, GenerationsOK

(* Score, verdict and rules are of one report, and a score of 100 hides no *)
(* failed check, as long as reports have fewer than 200 checks.            *)
THEOREM SummaryIsOfOneReport ==
    ASSUME \A checks \in Checks : Len(checks) < 200
    PROVE  Spec => []SummaryMatchesRows
  <1>1. Inv => SummaryMatchesRows
    <2> SUFFICES ASSUME Inv, last # NoReport
                 PROVE  /\ score \in ScoresOf(last)
                        /\ score = 100 => \A k \in DOMAIN last : last[k].status = "compliant"
                        /\ \A r \in Rule : ChecksOf(last, r) # {} => ruleRow[r] = Verdict(last, r)
      BY DEF SummaryMatchesRows
    <2>1. last \in Checks
      BY DEF Inv, TypeOK
    <2>2. /\ score \in ScoresOf(last)
          /\ \A r \in Rule : ChecksOf(last, r) # {} => ruleRow[r] = Verdict(last, r)
      BY DEF Inv, SummaryOK
    <2>3. score = 100 => \A k \in DOMAIN last : last[k].status = "compliant"
      BY <2>1, <2>2, HundredMeansAll
    <2> QED BY <2>2, <2>3
  <1> QED BY <1>1, Invariant, PTL

-----------------------------------------------------------------------------
(* A report that is handled alone finds the database as it was read: it is *)
(* refused for what is wrong with itself.                                  *)
Alone(h) == pc[h] \in Busy /\ h \notin overlapped

OverlapOK ==
    \A g, h \in Handler : g # h /\ pc[g] \in Busy /\ pc[h] \in Busy => h \in overlapped

FoundOK ==
    \A h \in Handler : Alone(h) /\ says[h] \in Inventory =>
       /\ says[h].hardware # {} /\ "hardware" \in single => "hardware" \in seen[h]
       /\ pc[h] = "commit" /\ says[h].bitlocker /\ "bitlocker" \in single => "bitlocker" \in seen[h]
       /\ pc[h] \in Behind("software") /\ Listed(h, "software") # {} =>
             {x \in rows : x.table = "software"} \subseteq doomed[h]

AloneInv == OverlapOK /\ FoundOK /\ RefusedHasCause

LEMMA InitAlone == Init => AloneInv
  BY DEF Init, AloneInv, OverlapOK, FoundOK, RefusedHasCause, Alone, Busy

(* A step of h that commits nothing and after which no other is handled    *)
(* that was not before.                                                    *)
LEMMA OverlapKept ==
    ASSUME OverlapOK, TypeOK, NEW h \in Handler,
           \A g \in Handler \ {h} : pc'[g] = pc[g],
           \A g \in Handler \ {h} : g \in overlapped => g \in overlapped',
           \/ pc'[h] \notin Busy
           \/ pc[h] \in Busy /\ (h \in overlapped => h \in overlapped')
    PROVE  OverlapOK'
  <1>1. \A g \in Handler : pc'[g] \in Busy => pc[g] \in Busy
    BY DEF OverlapOK
  <1>2. \A g \in Handler : pc'[g] \in Busy /\ g \in overlapped => g \in overlapped'
    OBVIOUS
  <1> QED BY <1>1, <1>2 DEF OverlapOK

LEMMA FoundKept ==
    ASSUME FoundOK, NEW h \in Handler,
           \A g \in Handler \ {h} :
              /\ pc'[g] = pc[g] /\ says'[g] = says[g] /\ seen'[g] = seen[g] /\ doomed'[g] = doomed[g]
              /\ g \in overlapped => g \in overlapped',
           UNCHANGED <<single, rows>>,
           Alone(h)' /\ says'[h] \in Inventory =>
              /\ says'[h].hardware # {} /\ "hardware" \in single => "hardware" \in seen'[h]
              /\ pc'[h] = "commit" /\ says'[h].bitlocker /\ "bitlocker" \in single => "bitlocker" \in seen'[h]
              /\ pc'[h] \in Behind("software") /\ Listed(h, "software")' # {} =>
                    {x \in rows : x.table = "software"} \subseteq doomed'[h]
    PROVE  FoundOK'
  <1> SUFFICES ASSUME NEW g \in Handler, Alone(g)', says'[g] \in Inventory
               PROVE  /\ says'[g].hardware # {} /\ "hardware" \in single => "hardware" \in seen'[g]
                      /\ pc'[g] = "commit" /\ says'[g].bitlocker /\ "bitlocker" \in single =>
                            "bitlocker" \in seen'[g]
                      /\ pc'[g] \in Behind("software") /\ Listed(g, "software")' # {} =>
                            {x \in rows : x.table = "software"} \subseteq doomed'[g]
    BY DEF FoundOK
  <1>1. CASE g = h
    BY <1>1
  <1>2. CASE g # h
    <2>1. Alone(g) /\ Listed(g, "software")' = Listed(g, "software")
      BY <1>2 DEF Alone, Listed
    <2> QED BY <1>2, <2>1 DEF FoundOK
  <1> QED BY <1>1, <1>2

LEMMA RefusedKept ==
    ASSUME RefusedHasCause, NEW h \in Handler,
           \A g \in Handler \ {h} :
              pc'[g] = pc[g] /\ says'[g] = says[g] /\ (g \in overlapped => g \in overlapped'),
           pc'[h] # "refused"
    PROVE  RefusedHasCause'
  BY DEF RefusedHasCause

LEMMA AloneConnect ==
    ASSUME Inv, AloneInv, NEW h \in Handler, Connect(h)
    PROVE  AloneInv'
  <1>1. /\ pc'[h] = "waiting" /\ \A g \in Handler \ {h} : pc'[g] = pc[g]
        /\ UNCHANGED <<says, seen, doomed, single, rows, overlapped>>
    BY DEF Connect, sessionVars, inventoryVars, Inv, TypeOK
  <1>2. OverlapOK' BY <1>1, OverlapKept DEF Busy, Inv, AloneInv
  <1>3. FoundOK' BY <1>1, FoundKept DEF Alone, Busy, AloneInv
  <1>4. RefusedHasCause' BY <1>1, RefusedKept DEF AloneInv
  <1> QED BY <1>2, <1>3, <1>4 DEF AloneInv

LEMMA AloneBegin ==
    ASSUME Inv, AloneInv, NEW h \in Handler, NEW content, NEW phase \in {"software", "device"},
           Begin(h, content, phase),
           \A g \in Handler \ {h} : seen'[g] = seen[g],
           content \in Inventory =>
              (content.hardware # {} /\ "hardware" \in single => "hardware" \in seen'[h])
    PROVE  AloneInv'
  <1> DEFINE others == {g \in Handler \ {h} : pc[g] \in Busy}
  <1>1. /\ pc' = [pc EXCEPT ![h] = phase] /\ says' = [says EXCEPT ![h] = content]
        /\ overlapped' = overlapped \cup (IF others = {} THEN {} ELSE {h} \cup others)
        /\ UNCHANGED <<doomed, single, rows>>
    BY DEF Begin, inventoryVars
  <1>2. /\ pc'[h] = phase /\ says'[h] = content
        /\ \A g \in Handler \ {h} : pc'[g] = pc[g] /\ says'[g] = says[g]
    BY <1>1 DEF Inv, TypeOK, ReportsOK
  <1>3. OverlapOK'
    <2> SUFFICES ASSUME NEW g \in Handler, NEW k \in Handler,
                        g # k, pc'[g] \in Busy, pc'[k] \in Busy
                 PROVE  k \in overlapped'
      BY DEF OverlapOK
    <2>1. CASE g = h
      <3>1. k \in others
        BY <1>2, <2>1
      <3> QED BY <1>1, <3>1
    <2>2. CASE k = h
      <3>1. g \in others
        BY <1>2, <2>2
      <3> QED BY <1>1, <2>2, <3>1
    <2>3. CASE g # h /\ k # h
      BY <1>1, <1>2, <2>3 DEF AloneInv, OverlapOK
    <2> QED BY <2>1, <2>2, <2>3
  <1>4. FoundOK'
    <2>1. phase \notin Behind("software") /\ phase # "commit"
      BY DEF Behind
    <2>2. overlapped \subseteq overlapped'
      BY <1>1
    <2> HIDE DEF others
    <2> QED BY <1>1, <1>2, <2>1, <2>2, FoundKept DEF AloneInv
  <1>5. RefusedHasCause'
    BY <1>1, <1>2, RefusedKept DEF AloneInv
  <1> QED BY <1>3, <1>4, <1>5 DEF AloneInv

LEMMA AloneReceive ==
    ASSUME Inv, AloneInv, NEW h \in Handler, ReceiveInventory(h) \/ ReceiveCompliance(h)
    PROVE  AloneInv'
  <1>1. CASE ReceiveInventory(h)
    <2>1. PICK content \in Inventory :
             /\ Begin(h, content, "software")
             /\ seen' = [seen EXCEPT ![h] = IF content.hardware # {} THEN single \cap {"hardware"} ELSE {}]
      BY <1>1 DEF ReceiveInventory
    <2>2. /\ \A g \in Handler \ {h} : seen'[g] = seen[g]
          /\ content.hardware # {} /\ "hardware" \in single => "hardware" \in seen'[h]
      BY <2>1 DEF Inv, TypeOK
    <2> QED BY <2>1, <2>2, AloneBegin
  <1>2. CASE ReceiveCompliance(h)
    <2>1. PICK checks \in Checks :
             Begin(h, [kind |-> "compliance", checks |-> checks], "device") /\ UNCHANGED seen
      BY <1>2 DEF ReceiveCompliance
    <2>2. [kind |-> "compliance", checks |-> checks] \in ComplianceReport
      BY DEF ComplianceReport
    <2>3. [kind |-> "compliance", checks |-> checks] \notin Inventory
      BY <2>2, Kinds
    <2> QED BY <2>1, <2>3, AloneBegin
  <1> QED BY <1>1, <1>2

(* A handler that ends leaves the others; if it has committed they         *)
(* overlapped with it.                                                     *)
LEMMA AloneEnds ==
    ASSUME Inv, AloneInv, NEW h \in Handler, NEW phase \in {"gone", "waiting"}, Ends(h, phase),
           pc[h] \in Busy \/ (UNCHANGED <<single, rows>> /\
                              \A g \in Handler \ {h} : doomed'[g] = doomed[g])
    PROVE  AloneInv'
  <1>1. /\ pc' = [pc EXCEPT ![h] = phase] /\ says' = [says EXCEPT ![h] = NoReport]
        /\ seen' = [seen EXCEPT ![h] = {}] /\ overlapped' = overlapped \ {h}
    BY DEF Ends
  <1>2. /\ pc'[h] = phase /\ phase \notin Busy /\ phase # "refused"
        /\ \A g \in Handler \ {h} :
              /\ pc'[g] = pc[g] /\ says'[g] = says[g] /\ seen'[g] = seen[g]
              /\ g \in overlapped => g \in overlapped'
    BY <1>1 DEF Inv, TypeOK, ReportsOK, Busy
  <1>3. OverlapOK' BY <1>2, OverlapKept DEF Inv, AloneInv
  <1>4. RefusedHasCause' BY <1>2, RefusedKept DEF AloneInv
  <1>5. FoundOK'
    <2>1. CASE pc[h] \in Busy
      <3>1. \A g \in Handler : ~(Alone(g)')
        BY <1>1, <1>2, <2>1 DEF Alone, AloneInv, OverlapOK
      <3> QED BY <3>1 DEF FoundOK
    <2>2. CASE UNCHANGED <<single, rows>> /\ \A g \in Handler \ {h} : doomed'[g] = doomed[g]
      BY <1>2, <2>2, FoundKept DEF Alone, AloneInv
    <2> QED BY <2>1, <2>2
  <1> QED BY <1>3, <1>4, <1>5 DEF AloneInv

(* A handler goes on from one phase to the next.                           *)
LEMMA AlonePhase ==
    ASSUME Inv, AloneInv, NEW h \in Handler, pc[h] \in Busy, NEW phase \in Busy,
           pc' = [pc EXCEPT ![h] = phase],
           UNCHANGED <<says, single, rows, overlapped>>,
           \A g \in Handler \ {h} : seen'[g] = seen[g] /\ doomed'[g] = doomed[g],
           Alone(h) /\ says[h] \in Inventory =>
              /\ says[h].hardware # {} /\ "hardware" \in single => "hardware" \in seen'[h]
              /\ phase = "commit" /\ says[h].bitlocker /\ "bitlocker" \in single => "bitlocker" \in seen'[h]
              /\ phase \in Behind("software") /\ Listed(h, "software") # {} =>
                    {x \in rows : x.table = "software"} \subseteq doomed'[h]
    PROVE  AloneInv'
  <1>1. pc'[h] = phase /\ \A g \in Handler \ {h} : pc'[g] = pc[g]
    BY DEF Inv, TypeOK
  <1>2. phase # "refused"
    BY DEF Busy
  <1>3. OverlapOK' BY <1>1, OverlapKept DEF Inv, AloneInv
  <1>4. RefusedHasCause' BY <1>1, <1>2, RefusedKept DEF AloneInv
  <1>5. (Alone(h)' <=> Alone(h)) /\ Listed(h, "software")' = Listed(h, "software")
    BY <1>1 DEF Alone, Listed
  <1>6. FoundOK' BY <1>1, <1>5, FoundKept DEF AloneInv
  <1> QED BY <1>3, <1>4, <1>6 DEF AloneInv

LEMMA AloneDeletes ==
    ASSUME Inv, AloneInv, NEW h \in Handler, NEW t \in Table,
           DeleteStarts(h, t) \/ DeleteEnds(h, t)
    PROVE  AloneInv'
  <1>1. \/ t = "software" /\ After[t] = "network" /\ Lock[t] = "softwareLock"
        \/ t = "network" /\ After[t] = "bitlocker" /\ Lock[t] = "networkLock"
    BY DEF After, Lock, Table
  <1>2. UNCHANGED <<says, seen, single, rows, overlapped>>
    BY DEF DeleteStarts, DeleteEnds, inventoryVars
  <1>3. CASE DeleteStarts(h, t)
    <2>1. PICK phase : /\ pc[h] = t /\ pc' = [pc EXCEPT ![h] = phase]
                       /\ IF Listed(h, t) = {} THEN phase = After[t] /\ doomed' = doomed
                          ELSE /\ phase = Lock[t]
                               /\ doomed' = [doomed EXCEPT ![h] = doomed[h] \cup {x \in rows : x.table = t}]
      BY <1>3 DEF DeleteStarts
    <2>2. pc[h] \in Busy /\ phase \in Busy /\ phase # "commit"
      BY <1>1, <2>1 DEF Busy
    <2>3. /\ \A g \in Handler \ {h} : doomed'[g] = doomed[g]
          /\ doomed[h] \subseteq doomed'[h]
          /\ Listed(h, t) # {} => {x \in rows : x.table = t} \subseteq doomed'[h]
      BY <2>1 DEF Inv, TypeOK
    <2>4. t = "network" => pc[h] \in Behind("software")
      BY <2>1 DEF Behind
    <2>5. ASSUME Alone(h), says[h] \in Inventory
          PROVE  /\ says[h].hardware # {} /\ "hardware" \in single => "hardware" \in seen'[h]
                 /\ Listed(h, "software") # {} => {x \in rows : x.table = "software"} \subseteq doomed'[h]
      <3>1. says[h].hardware # {} /\ "hardware" \in single => "hardware" \in seen'[h]
        BY <1>2, <2>5 DEF AloneInv, FoundOK
      <3>2. CASE t = "software"
        BY <2>3, <3>1, <3>2
      <3>3. CASE t = "network"
        BY <2>3, <2>4, <2>5, <3>1, <3>3 DEF AloneInv, FoundOK
      <3> QED BY <1>1, <3>2, <3>3
    <2> QED BY <1>2, <2>1, <2>2, <2>3, <2>5, AlonePhase
  <1>4. CASE DeleteEnds(h, t)
    <2>1. pc[h] = Lock[t] /\ pc' = [pc EXCEPT ![h] = After[t]] /\ UNCHANGED doomed
      BY <1>4 DEF DeleteEnds
    <2>2. /\ pc[h] \in Busy /\ After[t] \in Busy /\ After[t] # "commit"
          /\ pc[h] \in Behind("software")
      BY <1>1, <2>1 DEF Busy, Behind
    <2>3. Alone(h) /\ says[h] \in Inventory =>
             /\ says[h].hardware # {} /\ "hardware" \in single => "hardware" \in seen[h]
             /\ Listed(h, "software") # {} => {x \in rows : x.table = "software"} \subseteq doomed[h]
      BY <2>2 DEF AloneInv, FoundOK
    <2> QED BY <1>2, <2>1, <2>2, <2>3, AlonePhase
  <1> QED BY <1>3, <1>4

LEMMA AloneSelectsBitLocker ==
    ASSUME Inv, AloneInv, NEW h \in Handler, SelectBitLocker(h)
    PROVE  AloneInv'
  <1>1. /\ pc[h] = "bitlocker" /\ pc' = [pc EXCEPT ![h] = "commit"]
        /\ seen' = [seen EXCEPT ![h] =
                       IF says[h].bitlocker THEN seen[h] \cup (single \cap {"bitlocker"}) ELSE seen[h]]
        /\ UNCHANGED <<says, doomed, single, rows, overlapped>>
    BY DEF SelectBitLocker, inventoryVars
  <1>2. /\ \A g \in Handler \ {h} : seen'[g] = seen[g]
        /\ seen[h] \subseteq seen'[h]
        /\ says[h].bitlocker /\ "bitlocker" \in single => "bitlocker" \in seen'[h]
    BY <1>1 DEF Inv, TypeOK
  <1>3. pc[h] \in Busy /\ "commit" \in Busy /\ pc[h] \in Behind("software")
    BY <1>1 DEF Busy, Behind
  <1>4. Alone(h) /\ says[h] \in Inventory =>
           /\ says[h].hardware # {} /\ "hardware" \in single => "hardware" \in seen[h]
           /\ Listed(h, "software") # {} => {x \in rows : x.table = "software"} \subseteq doomed[h]
    BY <1>3 DEF AloneInv, FoundOK
  <1> QED BY <1>1, <1>2, <1>3, <1>4, AlonePhase

LEMMA AloneUpdates ==
    ASSUME Inv, AloneInv, NEW h \in Handler, UpdateDevice(h) \/ SelectRules(h)
    PROVE  AloneInv'
  <1>1. PICK phase : /\ pc[h] \in {"device", "rules"} /\ phase \in {"rules", "commit"}
                     /\ pc' = [pc EXCEPT ![h] = phase]
                     /\ UNCHANGED <<says, seen, doomed, single, rows, overlapped>>
    BY DEF UpdateDevice, SelectRules, sessionVars, inventoryVars
  <1>2. pc[h] \in Busy /\ phase \in Busy
    BY <1>1 DEF Busy
  <1>3. says[h] \in ComplianceReport /\ says[h] \notin Inventory
    BY <1>1, Kinds DEF Inv, ReportsOK
  <1> QED BY <1>1, <1>2, <1>3, AlonePhase

LEMMA AloneRefused ==
    ASSUME Inv, AloneInv, NEW h \in Handler, RefuseInventory(h) \/ RefuseCompliance(h)
    PROVE  AloneInv'
  <1>1. /\ pc[h] \in {"rules", "commit"} /\ pc' = [pc EXCEPT ![h] = "refused"]
        /\ doomed' = [doomed EXCEPT ![h] = {}]
        /\ UNCHANGED <<says, seen, single, rows, overlapped>>
    BY DEF RefuseInventory, RefuseCompliance, Refuse, inventoryVars
  <1>2. pc'[h] = "refused" /\ \A g \in Handler \ {h} : pc'[g] = pc[g] /\ doomed'[g] = doomed[g]
    BY <1>1 DEF Inv, TypeOK
  <1>3. pc[h] \in Busy /\ pc'[h] \notin Busy /\ says[h] # NoReport
    BY <1>1, <1>2 DEF Busy, Inv, TypeOK
  <1>4. OverlapOK' BY <1>1, <1>2, <1>3, OverlapKept DEF Inv, AloneInv
  <1>5. FoundOK' BY <1>1, <1>2, <1>3, FoundKept DEF Alone, AloneInv
  <1>6. Malformed(says[h]) \/ h \in overlapped
    <2> SUFFICES ASSUME h \notin overlapped PROVE Malformed(says[h])
      OBVIOUS
    <2>1. CASE RefuseInventory(h)
      <3>1. says[h].kind = "inventory" /\ InventoryConflicts(h)
        BY <2>1 DEF RefuseInventory
      <3>2. says[h] \in Inventory
        BY <1>3, <3>1, Kinds DEF Inv, ReportsOK
      <3>3. /\ says[h].hardware # {} /\ "hardware" \in single => "hardware" \in seen[h]
            /\ says[h].bitlocker /\ "bitlocker" \in single => "bitlocker" \in seen[h]
            /\ Listed(h, "software") # {} => {x \in rows : x.table = "software"} \subseteq doomed[h]
        BY <1>1, <1>3, <2>1, <3>2 DEF RefuseInventory, Alone, AloneInv, FoundOK, Behind
      <3>4. \/ says[h].software.twice \/ says[h].software.dated
            \/ says[h].hardware \cap IllTyped # {}
        BY <3>1, <3>3 DEF InventoryConflicts
      <3> QED BY <3>1, <3>4 DEF Malformed
    <2>2. CASE RefuseCompliance(h)
      <3>1. says[h].kind = "compliance" /\ (NamesForeign(says[h]) \/ ComplianceConflicts(h))
        BY <2>2 DEF RefuseCompliance
      <3>n. SUFFICES ASSUME ~NamesForeign(says[h]) PROVE Malformed(says[h])
        BY <3>1 DEF Malformed
      <3>2. PICK r \in Rule :
               /\ seenRules[h][r] = "none"
               /\ \/ Cardinality(ChecksOf(says[h].checks, r)) > 1
                  \/ ChecksOf(says[h].checks, r) # {} /\ ruleRow[r] # "none"
        BY <3>1, <3>n DEF ComplianceConflicts
      <3>3. LocksDevice(h)
        BY <1>1, <1>3, <3>1 DEF LocksDevice
      <3>4. ChecksOf(says[h].checks, r) # {} => seenRules[h][r] = ruleRow[r]
        BY <1>1, <2>2, <3>n, <3>3 DEF RefuseCompliance, Inv, RulesOK
      <3>5. Cardinality(ChecksOf(says[h].checks, r)) > 1
        BY <3>2, <3>4
      <3> QED BY <3>1, <3>5 DEF Malformed
    <2> QED BY <2>1, <2>2
  <1>7. RefusedHasCause'
    BY <1>1, <1>2, <1>6 DEF AloneInv, RefusedHasCause
  <1> QED BY <1>4, <1>5, <1>7 DEF AloneInv

LEMMA StepAlone == Inv /\ AloneInv /\ [Next]_vars => AloneInv'
  <1> SUFFICES ASSUME Inv, AloneInv, [Next]_vars PROVE AloneInv'
    OBVIOUS
  <1>1. CASE UNCHANGED vars
    BY <1>1 DEF vars, handlerVars, sessionVars, inventoryVars, complianceVars,
       AloneInv, OverlapOK, FoundOK, RefusedHasCause, Alone, Listed
  <1>2. ASSUME NEW h \in Handler, ConnectionEnds(h) PROVE AloneInv'
    <2>1. /\ Ends(h, "gone") /\ UNCHANGED <<single, rows>>
          /\ \A g \in Handler \ {h} : doomed'[g] = doomed[g]
      BY <1>2 DEF ConnectionEnds, inventoryVars, Inv, TypeOK
    <2> QED BY <2>1, AloneEnds
  <1>3. ASSUME NEW h \in Handler, CommitInventory(h) \/ CommitCompliance(h) PROVE AloneInv'
    <2>1. Ends(h, "waiting") /\ pc[h] \in Busy
      BY <1>3 DEF CommitInventory, CommitCompliance, Busy
    <2> QED BY <2>1, AloneEnds
  <1>4. CASE Next
    BY <1>2, <1>3, <1>4, AloneConnect, AloneReceive, AloneDeletes, AloneSelectsBitLocker,
       AloneUpdates, AloneRefused DEF Next, Works
  <1> QED BY <1>1, <1>4

(* A report ends its connection only if it is malformed itself or was      *)
(* handled while another one was: alone it finds every row it conflicts    *)
(* with, and deletes or updates it.                                        *)
THEOREM RefusalsHaveCause == Spec => []RefusedHasCause
  <1>1. AloneInv => RefusedHasCause
    BY DEF AloneInv
  <1> QED BY InitAlone, StepAlone, Invariant, <1>1, PTL DEF Spec

-----------------------------------------------------------------------------
(* The products of a sum of naturals, for the solver.                      *)
LEMMA Times ==
    ASSUME NEW n \in Nat, NEW t \in Nat
    PROVE  n * t \in Nat /\ (n + 1) * t = n * t + t
  OBVIOUS

(* Whatever its checks, a report has a score to round to; it has two only  *)
(* if its share of compliant checks lies exactly between them, where the   *)
(* floats of round(compliant_count / total * 100) decide.                  *)
THEOREM ScoreExists ==
    ASSUME NEW c \in Nat, NEW t \in Nat, c <= t
    PROVE  /\ Scores(c, t) # {}
           /\ \A m, n \in Scores(c, t) :
                 m < n => n = m + 1 /\ 200 * c = 2 * (m * t) + t
  <1>1. CASE t = 0
    BY <1>1 DEF Scores
  <1>2. CASE t # 0
    <2> DEFINE Above == {n \in 0 .. 100 : 2 * (100 * c - n * t) <= t}
    <2>1. 100 \in Above
      OBVIOUS
    <2>2. PICK n \in Above : \A y \in Above : ~(<<y, n>> \in OpToRel(<, Nat))
      <3>1. Above \subseteq Nat
        <4>1. 0 .. 100 \subseteq Nat
          OBVIOUS
        <4> QED BY <4>1, Zenon
      <3> HIDE DEF Above
      <3> QED BY <2>1, <3>1, NatLessThanWellFounded, WFMin
    <2>3. n \in 0 .. 100 /\ n * t \in Nat /\ 2 * (100 * c - n * t) <= t
      BY Times
    <2>4. 2 * (n * t - 100 * c) <= t
      <3>1. CASE n = 0
        <4>1. n * t = 0
          BY <3>1
        <4> HIDE DEF Above
        <4> QED BY <4>1, <2>3
      <3>2. CASE n # 0
        <4> DEFINE k == n - 1
        <4>1. k \in 0 .. 100 /\ k \in Nat /\ n \in Nat /\ k < n /\ k + 1 = n
          BY <2>3, <3>2
        <4>2. <<k, n>> \in OpToRel(<, Nat)
          BY <4>1 DEF OpToRel
        <4>3. k \notin Above
          BY <2>2, <4>2
        <4>4. ~(2 * (100 * c - k * t) <= t)
          BY <4>1, <4>3
        <4>5. k * t \in Nat /\ n * t = k * t + t
          BY <4>1, Times
        <4> HIDE DEF Above, k
        <4> QED BY <4>4, <4>5
      <3> QED BY <3>1, <3>2
    <2>5. n \in Scores(c, t)
      BY <1>2, <2>3, <2>4 DEF Scores
    <2>6. ASSUME NEW i \in Scores(c, t), NEW j \in Scores(c, t), i < j
          PROVE  j = i + 1 /\ 200 * c = 2 * (i * t) + t
      <3>1. /\ i \in 0 .. 100 /\ j \in 0 .. 100
            /\ 2 * (100 * c - i * t) <= t /\ 2 * (i * t - 100 * c) <= t
            /\ 2 * (100 * c - j * t) <= t /\ 2 * (j * t - 100 * c) <= t
        BY <1>2, <2>6 DEF Scores
      <3> DEFINE d == j - i
      <3>2. d \in Nat /\ d >= 1 /\ j = i + d /\ i \in Nat
        BY <2>6, <3>1
      <3>3. j * t = i * t + d * t /\ i * t \in Nat /\ d * t \in Nat
        BY <3>2
      <3>4. d * t <= t
        <4> HIDE DEF d
        <4> QED BY <3>1, <3>3
      <3>5. d = 1
        <4> HIDE DEF d
        <4>1. CASE d >= 2
          <5> DEFINE e == d - 2
          <5>1. e \in Nat /\ d = e + 2
            BY <3>2, <4>1
          <5>2. d * t = e * t + 2 * t /\ e * t \in Nat
            BY <5>1
          <5> HIDE DEF e
          <5> QED BY <5>2, <3>4, <1>2
        <4> QED BY <3>2, <4>1
      <3>6. j * t = i * t + t
        BY <3>2, <3>5, Times
      <3> HIDE DEF d
      <3> QED BY <3>1, <3>2, <3>3, <3>5, <3>6
    <2> QED BY <2>5, <2>6
  <1> QED BY <1>1, <1>2

(* So no report keeps a handler at its commit: CommitCompliance has a      *)
(* score to write for every report it may be given.                        *)
LEMMA EveryReportHasScore ==
    ASSUME NEW checks \in Checks
    PROVE  ScoresOf(checks) # {}
  <1> DEFINE good == {k \in DOMAIN checks : checks[k].status = "compliant"}
             t == Len(checks)
  <1>1. t \in Nat /\ DOMAIN checks = 1 .. t
    BY ChecksAssumption
  <1>2. IsFiniteSet(1 .. t) /\ Cardinality(1 .. t) = t
    <2> HIDE DEF t
    <2>1. IsFiniteSet(1 .. t) /\ Cardinality(1 .. t) = IF 1 > t THEN 0 ELSE t - 1 + 1
      BY <1>1, FS_Interval
    <2> QED BY <1>1, <2>1
  <1>3. IsFiniteSet(good) /\ Cardinality(good) <= Cardinality(1 .. t)
    BY <1>1, <1>2, FS_Subset
  <1>4. Cardinality(good) \in Nat /\ Cardinality(good) <= t
    BY <1>2, <1>3, FS_CardinalityType
  <1> HIDE DEF good, t
  <1>5. Scores(Cardinality(good), t) # {}
    BY <1>1, <1>4, ScoreExists
  <1> QED BY <1>5 DEF ScoresOf, good, t
=============================================================================
