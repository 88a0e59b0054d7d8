------------------------- MODULE MCCommandDelivery -------------------------
(* Small instances of CommandDelivery: everything is of one device.        *)
(* Connections and workers are interchangeable in the safety run.          *)
EXTENDS CommandDelivery, TLC

CONSTANTS d1

MCdeviceOf == [c \in Conn |-> d1]
MCdeviceOfCmd == [m \in Cmd |-> d1]
MCSymmetry == Permutations(Conn) \cup Permutations(Worker)
=============================================================================
