---------------------------- MODULE MCEnrollment ----------------------------
(* Two machines with one serial number (a cloned disk image) and two runs  *)
(* of enroll(), on either machine.                                         *)
EXTENDS Enrollment

CONSTANTS m1, m2, s1

SameSerial == [m \in Machine |-> s1]
=============================================================================
