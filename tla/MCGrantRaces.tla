---------------------------- MODULE MCGrantRaces ----------------------------
(***************************************************************************)
(* GrantRaces with the constants TLC needs: see the MCGrant*.cfg files.    *)
(***************************************************************************)
EXTENDS GrantRaces, TLC

Interchangeable ==
    Permutations(Grants) \cup Permutations(Requests) \cup Permutations(Vouchers)

=============================================================================
