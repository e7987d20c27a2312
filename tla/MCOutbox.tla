------------------------------ MODULE MCOutbox ------------------------------
(* Two events and two publishers that may take both in one batch, a fault  *)
(* budget for two failures of any kind and one lease overrun.              *)
EXTENDS OutboxPublisher
=============================================================================
