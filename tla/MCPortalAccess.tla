--------------------------- MODULE MCPortalAccess ---------------------------
(***************************************************************************)
(* PortalAccess with the constants TLC needs: see the MCPortal*.cfg files.  *)
(***************************************************************************)
EXTENDS PortalAccess, TLC

Once == [v \in Vouchers |-> 1]
Twice == [v \in Vouchers |-> 2]

Interchangeable == Permutations(Handlers)

=============================================================================
