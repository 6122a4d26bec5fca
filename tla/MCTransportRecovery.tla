------------------------ MODULE MCTransportRecovery ------------------------
(* TransportRecovery with one lease renewal, the claim loop and the probe. *)
EXTENDS TransportRecovery
=============================================================================
