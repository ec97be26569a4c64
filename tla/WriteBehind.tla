---------------------------- MODULE WriteBehind ----------------------------
(***************************************************************************)
(* What app/deps.py and its SQLite tables promise of what they learn, be   *)
(* it the name of a stop or the plate of a bus: the memory takes in only   *)
(* what waits for the table or is in it, a commit drops nothing it has not *)
(* stored, the table forgets nothing, and all else is a counted loss.  The *)
(* memory itself is a copy that may forget.  Nothing is said of batches,   *)
(* threads, indexes, sources or the order of commits.                      *)
(***************************************************************************)
EXTENDS Integers

CONSTANT Item

VARIABLES
  memory,    \* the items known in memory
  waiting,   \* those in a batch for the table
  table,     \* those in the table
  losses     \* batches that failed, and restarts

vars == <<memory, waiting, table, losses>>

Init == memory = {} /\ waiting = {} /\ table = {} /\ losses = 0

\* what is new to the memory waits for the table, or came from it
Learn ==
  /\ \E new \in SUBSET Item : waiting' = waiting \cup new
  /\ memory' \in SUBSET (memory \cup waiting' \cup table)
  /\ UNCHANGED <<table, losses>>

\* what waits no longer is stored
Commit ==
  /\ waiting' \in SUBSET waiting
  /\ \E stored \in SUBSET waiting :
       waiting \ waiting' \subseteq stored /\ table' = table \cup stored
  /\ UNCHANGED <<memory, losses>>

\* a batch fails
Lose ==
  /\ waiting' \in SUBSET waiting
  /\ losses' = losses + 1
  /\ UNCHANGED <<memory, table>>

\* the process dies and starts again
Restart ==
  /\ memory' = {} /\ waiting' = {}
  /\ losses' = losses + 1
  /\ UNCHANGED table

Next == Learn \/ Commit \/ Lose \/ Restart

Spec == Init /\ [][Next]_vars

=============================================================================
