---------------------------- MODULE MCFleetStore ----------------------------
(***************************************************************************)
(* FleetStore for TLC.  A run studies one aspect of the store and gives    *)
(* the data of the others a single value.                                  *)
(***************************************************************************)
EXTENDS FleetStore, TLC

CONSTANTS k1, k2, n1, n2, d1, d2

\* two buses
TwoNames == (k1 :> n1) @@ (k2 :> n2)
TwoDoors == (k1 :> d1) @@ (k2 :> d2)

\* two spellings of one bus
OneName == (k1 :> n1) @@ (k2 :> n1)
OneDoor == (k1 :> d1) @@ (k2 :> d1)

\* plates and places are alike, and so are the two buses or the two spellings
Alike == Permutations(Plate) \cup Permutations(Place)
AlikeBuses ==
  Alike \cup {(k1 :> k2) @@ (k2 :> k1) @@ (n1 :> n2) @@ (n2 :> n1) @@ (d1 :> d2) @@ (d2 :> d1)}
AlikeSpellings == Alike \cup Permutations({k1, k2})

=============================================================================
