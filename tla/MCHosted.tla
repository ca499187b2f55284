------------------------------ MODULE MCHosted ------------------------------
(* Instances of HostedRunner for TLC. *)
EXTENDS HostedRunner
=============================================================================
