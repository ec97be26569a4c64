---------------------------- MODULE MCTokenCache ----------------------------
(***************************************************************************)
(* Clocks for the model checker: behind, in step, ahead by as much as the  *)
(* margin can pay for and by more.                                         *)
(***************************************************************************)
EXTENDS TokenCache

MCSkews == {-1, 0, 2, 3}

=============================================================================
