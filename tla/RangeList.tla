------------------------------ MODULE RangeList ------------------------------
(***************************************************************************)
(* The range lists of kmod/core/rangelist.c: an ordered list of closed     *)
(* byte ranges, with which a fork remembers the part of the file that has  *)
(* never been written (ff_invalidranges).  The operators are the functions *)
(* of rangelist.c as functions from a list to a list; a list is a sequence *)
(* of records [s, e] (rl_start, rl_end).  The loops over neighbours are    *)
(* written in closed form: the entries they swallow are a run of the list. *)
(***************************************************************************)
EXTENDS Integers, Sequences, FiniteSets, FiniteSetsExt

CONSTANT RL_INFINITY    \* __INT64_MAX__, the largest offset

ASSUME InfinityAssumption == RL_INFINITY \in Nat

rl_make(start, end) == [s |-> start, e |-> end]

(***************************************************************************)
(* rl_overlap: how the list entry r lies with respect to start .. end.     *)
(***************************************************************************)
rl_overlap(r, start, end) ==
  IF start > r.e \/ r.s > end           THEN "RL_NOOVERLAP"
  ELSE IF r.s = start /\ r.e = end      THEN "RL_MATCHINGOVERLAP"
  ELSE IF r.s <= start /\ r.e >= end    THEN "RL_OVERLAPCONTAINSRANGE"
  ELSE IF start <= r.s /\ end >= r.e    THEN "RL_OVERLAPISCONTAINED"
  ELSE IF r.s < start /\ r.e < end      THEN "RL_OVERLAPSTARTSBEFORE"
                                        ELSE "RL_OVERLAPENDSAFTER"

(***************************************************************************)
(* rl_scan_from: the first entry from index i on that overlaps start ..    *)
(* end, or that lies beyond it (where a new entry would be inserted); the  *)
(* index is Len(rl) + 1 for the code's NULL.                               *)
(***************************************************************************)
rl_scan_from(rl, start, end, i) ==
  LET hits == {k \in i .. Len(rl) : rl_overlap(rl[k], start, end) # "RL_NOOVERLAP"
                                    \/ rl[k].s > end}
      k    == IF hits = {} THEN Len(rl) + 1 ELSE Min(hits)
  IN [at |-> k, ot |-> IF hits = {} THEN "RL_NOOVERLAP" ELSE rl_overlap(rl[k], start, end)]

rl_scan(rl, start, end) == rl_scan_from(rl, start, end, 1)

Splice(rl, i, j, entries) == SubSeq(rl, 1, i - 1) \o entries \o SubSeq(rl, j + 1, Len(rl))

(***************************************************************************)
(* rl_collapse_forwards: entry i swallows its successors as long as they   *)
(* touch it, and takes the END OF THE LAST ONE swallowed as its own.       *)
(***************************************************************************)
rl_collapse_forwards(rl, i) ==
  LET touches(k) == rl[k].e = RL_INFINITY \/ rl[k].e >= rl[k + 1].s - 1
      last == Max({j \in i .. Len(rl) : \A k \in i .. j - 1 : touches(k)})
  IN Splice(rl, i, last, <<rl_make(rl[i].s, rl[last].e)>>)

(* Mutant: the entry before is never joined. *)
rl_collapse_backwards_Keeps(rl, i) == rl

(***************************************************************************)
(* rl_collapse_backwards: the same towards the head of the list.  Returns  *)
(* the list only; the swallowing entry is not used again by the callers.   *)
(***************************************************************************)
rl_collapse_backwards(rl, i) ==
  LET touches(k) == rl[k].e >= rl[k + 1].s - 1
      first == Min({j \in 1 .. i : \A k \in j .. i - 1 : touches(k)})
  IN Splice(rl, first, i, <<rl_make(rl[first].s, rl[i].e)>>)

rl_collapse_neighbors(rl, i) == rl_collapse_backwards(rl_collapse_forwards(rl, i), i)

(***************************************************************************)
(* rl_add                                                                  *)
(***************************************************************************)
rl_add(start, end, rl) ==
  LET sc == rl_scan(rl, start, end)
      i  == sc.at
  IN CASE sc.ot = "RL_NOOVERLAP" ->
            rl_collapse_neighbors(Splice(rl, i, i - 1, <<rl_make(start, end)>>), i)
       [] sc.ot \in {"RL_MATCHINGOVERLAP", "RL_OVERLAPCONTAINSRANGE"} -> rl
       [] sc.ot = "RL_OVERLAPISCONTAINED" ->
            rl_collapse_neighbors([rl EXCEPT ![i] = rl_make(start, end)], i)
       [] sc.ot = "RL_OVERLAPSTARTSBEFORE" ->
            rl_collapse_forwards([rl EXCEPT ![i].e = end], i)
       [] sc.ot = "RL_OVERLAPENDSAFTER" ->
            rl_collapse_backwards([rl EXCEPT ![i].s = start], i)

(***************************************************************************)
(* rl_remove: one turn of its loop on st = [rl, from, done].  The scan     *)
(* starts at index from; only an entry that the range contains, or that    *)
(* starts before it, lets the loop go on with the entry that follows.      *)
(***************************************************************************)
rl_remove_turn(start, end, st) ==
  LET rl == st.rl
      sc == rl_scan_from(rl, start, end, st.from)
      i  == sc.at
      stop(l) == [rl |-> l, from |-> i, done |-> TRUE]
  IN IF st.done THEN st ELSE
     CASE sc.ot = "RL_NOOVERLAP"       -> stop(rl)
       [] sc.ot = "RL_MATCHINGOVERLAP" -> stop(Splice(rl, i, i, <<>>))
       [] sc.ot = "RL_OVERLAPCONTAINSRANGE" ->
            stop(IF rl[i].s = start THEN [rl EXCEPT ![i].s = end + 1]
                 ELSE IF rl[i].e = end THEN [rl EXCEPT ![i].e = start - 1]
                 ELSE Splice(rl, i, i, <<rl_make(rl[i].s, start - 1), rl_make(end + 1, rl[i].e)>>))
       [] sc.ot = "RL_OVERLAPISCONTAINED" ->
            [rl |-> Splice(rl, i, i, <<>>), from |-> i, done |-> i = Len(rl)]
       [] sc.ot = "RL_OVERLAPSTARTSBEFORE" ->
            [rl |-> [rl EXCEPT ![i].e = start - 1], from |-> i + 1, done |-> i = Len(rl)]
       [] sc.ot = "RL_OVERLAPENDSAFTER" ->
            stop([rl EXCEPT ![i].s = IF end = RL_INFINITY THEN RL_INFINITY ELSE end + 1])

(* Mutant: the loop does not go on after the first entry. *)
rl_remove_Once(start, end, rl) ==
  rl_remove_turn(start, end, [rl |-> rl, from |-> 1, done |-> rl = <<>>]).rl

rl_remove(start, end, rl) ==
  LET turn[n \in Nat] == IF n = 0 THEN [rl |-> rl, from |-> 1, done |-> rl = <<>>]
                         ELSE rl_remove_turn(start, end, turn[n - 1])
  IN turn[Len(rl) + 1].rl

(***************************************************************************)
(* rl_subtract: the part of range a that is left without b; the bigger     *)
(* part when b cuts a in two, and a range of length 0 when b covers a.     *)
(***************************************************************************)
rl_len(r) == r.e - r.s + 1

(* Mutant: the part on the left is kept when there is one. *)
rl_subtract_Left(a, b) ==
  IF rl_overlap(b, a.s, a.e) = "RL_NOOVERLAP" THEN a
  ELSE IF b.s > a.s THEN rl_make(a.s, b.s - 1) ELSE rl_make(b.e + 1, Max({a.e, b.e}))

rl_subtract(a, b) ==
  LET ot == rl_overlap(b, a.s, a.e)
      keepLeft  == rl_make(a.s, b.s - 1)
      keepRight == rl_make(b.e + 1, a.e)
  IN CASE ot \in {"RL_MATCHINGOVERLAP", "RL_OVERLAPCONTAINSRANGE"} -> rl_make(a.s, a.s - 1)
       [] ot = "RL_OVERLAPISCONTAINED" ->
            IF b.s - a.s >= a.e - b.e THEN keepLeft ELSE keepRight
       [] ot = "RL_OVERLAPSTARTSBEFORE" -> keepRight
       [] ot = "RL_OVERLAPENDSAFTER"    -> keepLeft
       [] ot = "RL_NOOVERLAP"           -> a

-----------------------------------------------------------------------------
(***************************************************************************)
(* What a list stands for, and when it is well formed: the conditions that *)
(* rl_verify panics on, strengthened by "no two entries touch".            *)
(***************************************************************************)
Bytes(rl) == UNION {rl[k].s .. rl[k].e : k \in 1 .. Len(rl)}

WellFormed(rl) ==
  /\ \A k \in 1 .. Len(rl) : rl[k].s <= rl[k].e
  /\ \A k \in 1 .. Len(rl) - 1 : rl[k].e + 1 < rl[k + 1].s
=============================================================================
