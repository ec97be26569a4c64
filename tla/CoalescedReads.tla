--------------------------- MODULE CoalescedReads ---------------------------
(***************************************************************************)
(* What app/services/cache.py promises for every key it reads through:     *)
(* the upstream service sees at most one call for the key at a time, and   *)
(* the stored value only ever becomes data that was current at some moment *)
(* of that one call.  Values may be forgotten at any time.  Nothing is     *)
(* said of leaders, followers, futures, ages or eviction.                  *)
(***************************************************************************)
EXTENDS Integers

CONSTANTS Key, Call, MaxVersion, None

VARIABLES
  calls,     \* the outstanding upstream calls for a key
  value,     \* the version of the value stored for a key, or None
  upstream   \* the version of the upstream data

vars == <<calls, value, upstream>>

Init ==
  /\ calls = [k \in Key |-> {}]
  /\ value = [k \in Key |-> None]
  /\ upstream = 0

\* the only call for k starts
Start(k) ==
  /\ calls[k] = {}
  /\ \E i \in Call :
       calls' = [calls EXCEPT ![k] = {[id |-> i, since |-> upstream]}]
  /\ UNCHANGED <<value, upstream>>

\* it ends without a new value
End(k) ==
  /\ calls[k] # {}
  /\ calls' = [calls EXCEPT ![k] = {}]
  /\ UNCHANGED <<value, upstream>>

\* it ends with a value read while it was outstanding; others may make room
EndWith(k, S) ==
  /\ \E x \in calls[k], v \in 0 .. upstream :
       /\ v >= x.since
       /\ value' = [j \in Key |-> IF j = k THEN v ELSE IF j \in S THEN None ELSE value[j]]
  /\ calls' = [calls EXCEPT ![k] = {}]
  /\ UNCHANGED upstream

Forget(S) ==
  /\ value' = [j \in Key |-> IF j \in S THEN None ELSE value[j]]
  /\ UNCHANGED <<calls, upstream>>

Publish ==
  /\ upstream < MaxVersion
  /\ upstream' = upstream + 1
  /\ UNCHANGED <<calls, value>>

Next ==
  \/ \E k \in Key : Start(k) \/ End(k) \/ \E S \in SUBSET Key : EndWith(k, S)
  \/ \E S \in SUBSET Key : Forget(S)
  \/ Publish

Spec == Init /\ [][Next]_vars

=============================================================================
