----------------------------- MODULE RangeListOps -----------------------------
(***************************************************************************)
(* The range list under every sequence of calls of the interface of        *)
(* rangelist.h, checked against the set of offsets it stands for.  With    *)
(* AddAtTail the calls of rl_add are the ones that the file system makes:  *)
(* it only adds a range that starts at the end of the file, past every     *)
(* entry of the list.                                                      *)
(***************************************************************************)
EXTENDS RangeList

CONSTANTS MaxOffset, AddAtTail

ASSUME OpsAssumption ==
  MaxOffset \in Nat /\ MaxOffset < RL_INFINITY /\ AddAtTail \in BOOLEAN

VARIABLE ranges

(* rl_init *)
Init == ranges = <<>>

Add(start, end) ==
  /\ AddAtTail => \A k \in 1 .. Len(ranges) : ranges[k].e < start
  /\ ranges' = rl_add(start, end, ranges)

Remove(start, end) == ranges' = rl_remove(start, end, ranges)

rl_remove_all == ranges' = <<>>

Next == \/ \E start \in 0 .. MaxOffset : \E end \in start .. MaxOffset :
             Add(start, end) \/ Remove(start, end)
        \/ \E start \in 0 .. MaxOffset : Remove(start, RL_INFINITY)
        \/ rl_remove_all

Spec == Init /\ [][Next]_ranges

(***************************************************************************)
(* The list never breaks what rl_verify tests (entries in order, none      *)
(* empty), and neighbours never touch: rl_add and rl_remove rely on it,    *)
(* since they stop at the first entry past the range.                      *)
(***************************************************************************)
StaysWellFormed == WellFormed(ranges)

(***************************************************************************)
(* Every call of rl_add and rl_remove changes the set of offsets by the    *)
(* range it was given, exactly: a step that is a call of the list is the   *)
(* call of the set with the same arguments.                                *)
(***************************************************************************)
Abstract == INSTANCE RangeSet WITH bytes <- Bytes(ranges)

EachCallIsItsSetOperation ==
  [][\A start \in 0 .. MaxOffset : \A end \in (start .. MaxOffset) \cup {RL_INFINITY} :
       /\ end # RL_INFINITY /\ Add(start, end) => Abstract!Add(start, end)
       /\ Remove(start, end) => Abstract!Remove(start, end)]_ranges

(***************************************************************************)
(* rl_subtract keeps a part of a that avoids b, and the bigger one of the  *)
(* two candidates, so that what it returns has at least half of the bytes  *)
(* of a that b leaves.                                                     *)
(***************************************************************************)
SubtractKeepsLargest ==
  \A a1 \in 0 .. MaxOffset, k \in 1 .. Len(ranges) : \A a2 \in a1 .. MaxOffset :
    LET rest == (a1 .. a2) \ (ranges[k].s .. ranges[k].e)
        kept == rl_subtract(rl_make(a1, a2), ranges[k])
    IN /\ kept.s .. kept.e \subseteq rest
       /\ rl_len(kept) = Cardinality(kept.s .. kept.e)
       /\ 2 * rl_len(kept) >= Cardinality(rest)
=============================================================================
