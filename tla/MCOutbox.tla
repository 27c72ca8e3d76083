------------------------------- MODULE MCOutbox -------------------------------
(* Outbox with a batch smaller than the queue and two dead addresses. *)
EXTENDS Outbox
=============================================================================
