----------------------------- MODULE MCEndpoints ------------------------------
(***************************************************************************)
(* Endpoints for TLC: which endpoints are asked for together.              *)
(***************************************************************************)
EXTENDS Endpoints

\* every endpoint alone with the fetchers it nests, and two that share them
MCAsked ==
  {{"buses", "meta"}, {"arrivals"}, {"via", "routesAt"}, {"routeStops"}, {"schedule"},
   {"official"}, {"routeSearch"}, {"stopSearch"}, {"stopDetail"}, {"single"},
   {"stopNotices", "routeNotices"}}

=============================================================================
