----------------------------- MODULE MCPolicies -----------------------------
(* One policy for the USB ports of one device and of the group it is in or *)
(* not, and requests that name the device twice or one that is not there.  *)
EXTENDS Policies

CONSTANTS d1, g1, x1, p1

MCType == [p \in Policy |-> "usb"]
Usb(all, removable) == [block_all_usb |-> all, block_removable_storage |-> removable]
MCConfig == {Usb(FALSE, TRUE), Usb(FALSE, FALSE)}
MCBody == {<<d1, d1>>, <<d1, x1>>, <<g1>>}
MCMembers == {<<d1>>}
MCSymmetry == Permutations(Request)
=============================================================================
