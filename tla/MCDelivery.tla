------------------------------ MODULE MCDelivery ------------------------------
(* Instances of DeliveryKernel for TLC. *)
EXTENDS DeliveryKernel
=============================================================================
