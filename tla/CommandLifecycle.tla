-------------------------- MODULE CommandLifecycle --------------------------
(***************************************************************************)
(* What the server promises of Command.status: a command is created either *)
(* waiting for its agent or already sent, a waiting one is sent later, and *)
(* only a sent one is answered.  No step takes a sent or answered command  *)
(* back to "pending", or an answered one back to "sent".  An answer is not *)
(* final: a later result replaces it, in either direction, so "completed"  *)
(* may become "failed".  CommandDelivery implements this module.           *)
(***************************************************************************)
CONSTANT Cmd

VARIABLE status     \* Command.status in the database; "absent" before the row

Status == {"absent", "pending", "sent", "completed", "failed"}
Terminal == {"completed", "failed"}

Init == status = [m \in Cmd |-> "absent"]

Create(m) ==
    /\ status[m] = "absent"
    /\ \E s \in {"pending", "sent"} : status' = [status EXCEPT ![m] = s]

(* One commit marks every command that was sent to a new connection.       *)
Deliver(S) ==
    /\ \A m \in S : status[m] = "pending"
    /\ status' = [m \in Cmd |-> IF m \in S THEN "sent" ELSE status[m]]

Report(m, outcome) ==
    /\ status[m] \in {"sent"} \cup Terminal
    /\ status' = [status EXCEPT ![m] = outcome]

Next ==
    \/ \E m \in Cmd :
        \/ Create(m)
        \/ \E outcome \in Terminal : Report(m, outcome)
    \/ \E S \in SUBSET Cmd : Deliver(S)

Spec == Init /\ [][Next]_status
=============================================================================
