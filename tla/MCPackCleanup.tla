---------------------------- MODULE MCPackCleanup ----------------------------
(* One download whose row is retried, for TLC.                               *)
EXTENDS PackCleanup
=============================================================================
