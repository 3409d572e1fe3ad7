---------------------------- MODULE MCProviders ----------------------------
(* A small instance of Providers for TLC.                                   *)
EXTENDS Providers
=============================================================================
