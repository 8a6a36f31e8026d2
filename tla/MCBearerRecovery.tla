-------------------------- MODULE MCBearerRecovery --------------------------
(* One request of each kind, which is enough for each to wait for a check that
   the other, or a sweep, has started. *)
EXTENDS BearerRecovery

MCRelayed == {"r1"}
MCStreamed == {"s1"}
MCSweeps == {"sweep"}
=============================================================================
