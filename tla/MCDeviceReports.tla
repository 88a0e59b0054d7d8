--------------------------- MODULE MCDeviceReports ---------------------------
(* Two handlers.  Inventories: one of hardware, BitLocker and one program, *)
(* one of a program without a version and the network, one with hardware   *)
(* and one with software no column takes.  Compliance reports: two that    *)
(* disagree, one with a rule twice, one of a rule that is not there, one   *)
(* without checks.                                                         *)
EXTENDS DeviceReports

CONSTANTS h1, h2, i1, i2, c1, x1

Full ==
    [kind |-> "inventory", hardware |-> {"memory", "secure_boot", "virtualization"},
     software |-> [items |-> {i1}, twice |-> FALSE, dated |-> FALSE], network |-> {}, bitlocker |-> TRUE]

MCInventory ==
    {Full,
     [Full EXCEPT !.hardware = {}, !.software.items = {i2}, !.network = {i1}, !.bitlocker = FALSE],
     [Full EXCEPT !.hardware = @ \cup {"bios_date"}, !.software.items = {}, !.bitlocker = FALSE],
     [Full EXCEPT !.hardware = {}, !.software.twice = TRUE, !.software.dated = TRUE, !.bitlocker = FALSE]}

Check(r, s) == [rule |-> r, status |-> s]

MCChecks ==
    {<<Check(c1, "compliant")>>,
     <<Check(c1, "error"), Check(NoRule, "compliant")>>,
     <<Check(c1, "unknown"), Check(c1, "compliant")>>,
     <<Check(x1, "error")>>,
     <<>>}

(* The score against its reference: it is within half a percent of the     *)
(* exact share, there is one, and it tells all from none.                  *)
ASSUME ScoreReference ==
    \A t \in 1 .. 40 : \A c \in 0 .. t :
       /\ Scores(c, t) # {}
       /\ Cardinality(Scores(c, t)) > 1 => (200 * c) % t = 0
       /\ 100 \in Scores(c, t) <=> c = t

(* Where the rounding begins to hide a check that failed.                  *)
ASSUME RoundingHides ==
    /\ \A c \in 0 .. 198 : 100 \notin Scores(c, 199)
    /\ 100 \in Scores(199, 200)
=============================================================================
