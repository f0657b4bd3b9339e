---------------------------- MODULE KeyedStore ----------------------------
(***************************************************************************)
(* What the catalog, extents and attribute code takes a b-tree for: a map   *)
(* from keys to records.  A call that fails changes nothing.                *)
(***************************************************************************)
EXTENDS Naturals

CONSTANTS Keys, Datas

VARIABLES store,   \* the map
          reply    \* an error that the caller has not seen yet, or "ok"

Init ==
    /\ DOMAIN store \subseteq Keys /\ \A k \in DOMAIN store : store[k] \in Datas
    /\ reply = "ok"

\* The map s with k set to d, and without k.
Put(s, k, d) == [j \in DOMAIN s \cup {k} |-> IF j = k THEN d ELSE s[j]]
Cut(s, k) == [j \in DOMAIN s \ {k} |-> s[j]]

Insert == store' \in {Put(store, k, d) : k \in Keys \ DOMAIN store, d \in Datas}

Replace == store' \in {Put(store, k, d) : k \in DOMAIN store, d \in Datas}

Delete == store' \in {Cut(store, k) : k \in DOMAIN store}

\* A key to insert is there, a key to replace or delete is not, the record is
\* too long, or the volume has no room for another node.
Fail ==
    /\ \/ reply' = "dup" /\ DOMAIN store # {}
       \/ reply' = "notfound" /\ DOMAIN store # Keys
       \/ reply' \in {"toolarge", "nospace"}
    /\ UNCHANGED store

\* The caller takes notice of an error.
SeeError == reply # "ok" /\ reply' = "ok" /\ UNCHANGED store

Next ==
    \/ reply = "ok" /\ reply' = "ok" /\ (Insert \/ Replace \/ Delete)
    \/ reply = "ok" /\ Fail
    \/ SeeError

Spec == Init /\ [][Next]_<<store, reply>>
=============================================================================
