--------------------------- MODULE ComplianceScore ---------------------------
(***************************************************************************)
(* The score _handle_compliance_report of api/websocket.py computes from   *)
(* the checks of a report, and the verdict it draws from the score.        *)
(***************************************************************************)
EXTENDS Integers

(* round(compliant / total * 100).  round goes to the nearest integer; at  *)
(* a half the product of floats may lie on either side.                    *)
Scores(compliant, total) ==
    IF total = 0 THEN {0}
    ELSE {n \in 0 .. 100 : /\ 2 * (100 * compliant - n * total) <= total
                           /\ 2 * (n * total - 100 * compliant) <= total}

Overall(score) ==
    IF score = 100 THEN "compliant"
    ELSE IF score < 70 THEN "non_compliant" ELSE "compliant"
=============================================================================
