------------------------------- MODULE RangeSet -------------------------------
(***************************************************************************)
(* What a range list promises: it is a set of offsets.  rl_add puts a      *)
(* range into the set, rl_remove takes one out, rl_remove_all empties it.  *)
(***************************************************************************)
EXTENDS Integers

CONSTANT MaxOffset      \* largest offset used in a range

VARIABLE bytes

Init == bytes = {}

Add(start, end) == bytes' = bytes \cup start .. end

Remove(start, end) == bytes' = bytes \ (start .. end)

RemoveAll == bytes' = {}

Next == \/ \E start \in 0 .. MaxOffset : \E end \in start .. MaxOffset :
             Add(start, end) \/ Remove(start, end)
        \/ RemoveAll

Spec == Init /\ [][Next]_bytes
=============================================================================
