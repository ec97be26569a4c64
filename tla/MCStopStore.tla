----------------------------- MODULE MCStopStore -----------------------------
(***************************************************************************)
(* StopStore for TLC.  Batches fail and the process restarts at any time,  *)
(* but detail requests are followed only as long as nothing has been lost. *)
(***************************************************************************)
EXTENDS StopStore

MCField == {"name", "lat", "lon", "district"}

NoRequestAfterLoss == lost > 0 => \A r \in Request : request[r] = Idle

=============================================================================
