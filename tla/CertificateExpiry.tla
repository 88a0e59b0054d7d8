-------------------------- MODULE CertificateExpiry --------------------------
(***************************************************************************)
(* The Celery task check_certificate_expiry of workers/alert_tasks.py, the *)
(* certificates it looks at and the certificate_expiry alerts it opens.    *)
(*                                                                         *)
(* enroll_device issues one certificate to a device.  Nothing takes one    *)
(* out of the select again: retire_device, which would, never commits      *)
(* (Enrollment).  The task is due once a week, but an execution that is    *)
(* redelivered (task_acks_late), or queued while no worker ran, may        *)
(* overlap another.                                                        *)
(***************************************************************************)
EXTENDS Naturals, FiniteSets

CONSTANTS
    Holder,     \* devices that may hold a certificate
    Check       \* executions of check_certificate_expiry that may overlap

ASSUME CheckAssumption == IsFiniteSet(Check)

VARIABLES
    left,         \* how long the certificate of each is valid; "none" without
    expiryAlerts, \* open certificate_expiry alerts of each
    checkPc,      \* where each execution stands
    expiring,     \* the holders of the certificates its select returned
    looked,       \* those whose open alerts it has looked up
    lacking       \* those it found without an open alert

checkVars == <<checkPc, expiring, looked, lacking>>
expiryVars == <<left, expiryAlerts, checkVars>>

Expiring(d) == left[d] \in {"month", "nothing"}

(* Types, and what an execution may hold: only certificates that expire.   *)
ExpiryTypeOK ==
    /\ left \in [Holder -> {"none", "long", "month", "nothing"}]
    /\ expiryAlerts \in [Holder -> Nat]
    /\ checkPc \in [Check -> {"idle", "running"}]
    /\ expiring \in [Check -> SUBSET Holder]
    /\ looked \in [Check -> SUBSET Holder]
    /\ lacking \in [Check -> SUBSET Holder]
    /\ \A k \in Check : /\ lacking[k] \subseteq looked[k]
                        /\ looked[k] \subseteq expiring[k]
                        /\ \A d \in expiring[k] : Expiring(d)
                        /\ checkPc[k] = "idle" => expiring[k] = {}

ExpiryInit ==
    /\ left = [d \in Holder |-> "none"]
    /\ expiryAlerts = [d \in Holder |-> 0]
    /\ checkPc = [k \in Check |-> "idle"]
    /\ expiring = [k \in Check |-> {}]
    /\ looked = [k \in Check |-> {}]
    /\ lacking = [k \in Check |-> {}]

-----------------------------------------------------------------------------
(* The commit of enroll_device.                                            *)
IssueCertificate(d) ==
    /\ left[d] = "none"
    /\ left' = [left EXCEPT ![d] = "long"]
    /\ UNCHANGED <<expiryAlerts, checkVars>>

(* Thirty days before it expires, and then.                                *)
CertificateAges(d) ==
    /\ left[d] \in {"long", "month"}
    /\ left' = [left EXCEPT ![d] = IF @ = "long" THEN "month" ELSE "nothing"]
    /\ UNCHANGED <<expiryAlerts, checkVars>>

(* acknowledge_alert and resolve_alert both take an alert out of "open".   *)
AdminClosesExpiryAlert(d) ==
    /\ expiryAlerts[d] > 0
    /\ expiryAlerts' = [expiryAlerts EXCEPT ![d] = @ - 1]
    /\ UNCHANGED <<left, checkVars>>

-----------------------------------------------------------------------------
\* Variant: certificates that are no longer valid are not selected.
SelectedValidOnly == {d \in Holder : left[d] = "month"}

\* Variant: every active certificate is selected.
SelectedAll == {d \in Holder : left[d] # "none"}

(* The upper bound of expires_at alone: one that has expired is included.  *)
Selected == {d \in Holder : Expiring(d)}

CheckSelects(k) ==
    /\ checkPc[k] = "idle"
    /\ Selected # {}
    /\ checkPc' = [checkPc EXCEPT ![k] = "running"]
    /\ expiring' = [expiring EXCEPT ![k] = Selected]
    /\ UNCHANGED <<left, expiryAlerts, looked, lacking>>

\* Variant: an alert for every certificate.
CheckNeverLooks(k, d) ==
    /\ checkPc[k] = "running"
    /\ d \in expiring[k] \ looked[k]
    /\ looked' = [looked EXCEPT ![k] = @ \cup {d}]
    /\ lacking' = [lacking EXCEPT ![k] = @ \cup {d}]
    /\ UNCHANGED <<left, expiryAlerts, checkPc, expiring>>

CheckLooksUp(k, d) ==
    /\ checkPc[k] = "running"
    /\ d \in expiring[k] \ looked[k]
    /\ expiryAlerts[d] <= 1
    /\ looked' = [looked EXCEPT ![k] = @ \cup {d}]
    /\ lacking' = [lacking EXCEPT ![k] =
                       IF expiryAlerts[d] = 0 THEN @ \cup {d} ELSE @]
    /\ UNCHANGED <<left, expiryAlerts, checkPc, expiring>>

CheckEnds(k) ==
    /\ checkPc' = [checkPc EXCEPT ![k] = "idle"]
    /\ expiring' = [expiring EXCEPT ![k] = {}]
    /\ looked' = [looked EXCEPT ![k] = {}]
    /\ lacking' = [lacking EXCEPT ![k] = {}]

(* The process is killed or the database fails before the commit.          *)
CheckAborts(k) ==
    /\ checkPc[k] = "running"
    /\ CheckEnds(k)
    /\ UNCHANGED <<left, expiryAlerts>>

(* scalar_one_or_none raises on a second open alert of a device.           *)
CheckRaises(k) ==
    /\ \E d \in expiring[k] \ looked[k] : expiryAlerts[d] > 1
    /\ CheckAborts(k)

(* The only commit: all the new alerts at once.                            *)
CheckCommits(k) ==
    /\ checkPc[k] = "running"
    /\ looked[k] = expiring[k]
    /\ expiryAlerts' = [d \in Holder |->
           IF d \in lacking[k] THEN expiryAlerts[d] + 1 ELSE expiryAlerts[d]]
    /\ CheckEnds(k)
    /\ UNCHANGED left

CheckWorks(k) ==
    \/ CheckSelects(k)
    \/ \E d \in Holder : CheckLooksUp(k, d)
    \/ CheckRaises(k)
    \/ CheckCommits(k)

ExpiryNext ==
    \/ \E d \in Holder :
        IssueCertificate(d) \/ CertificateAges(d) \/ AdminClosesExpiryAlert(d)
    \/ \E k \in Check : CheckWorks(k) \/ CheckAborts(k)

ExpirySpec == ExpiryInit /\ [][ExpiryNext]_expiryVars

(* Celery beat starts the task every week and a worker runs it; nothing    *)
(* makes a worker be killed, or an administrator close an alert.           *)
ExpiryFairSpec == ExpirySpec /\ \A k \in Check : WF_expiryVars(CheckWorks(k))

-----------------------------------------------------------------------------
(* Overlapping executions look before they insert, so no device collects   *)
(* more open alerts than executions overlap, counting those that are about *)
(* to be inserted; one execution at a time keeps them unique.              *)
ExpiryAlertsBounded ==
    \A d \in Holder :
        expiryAlerts[d] + Cardinality({k \in Check : d \in lacking[k]})
            <= Cardinality(Check)

(* However often its alerts are closed, and however executions overlap, an *)
(* expiring certificate has an open alert again and again; unless for ever *)
(* executions are killed, or devices are found with two open alerts, which *)
(* makes the whole execution raise.                                        *)
ExpiryIsReported ==
    \A d \in Holder :
        \/ []<>(Expiring(d) => expiryAlerts[d] > 0)
        \/ []<>(\E e \in Holder : expiryAlerts[e] > 1)
        \/ []<><<\E k \in Check : CheckAborts(k)>>_expiryVars
=============================================================================
