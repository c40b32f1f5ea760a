-------------------------- MODULE MCGrantLifecycle --------------------------
(***************************************************************************)
(* GrantLifecycle with the constants TLC needs: see MCGrant*.cfg.          *)
(***************************************************************************)
EXTENDS GrantLifecycle

=============================================================================
