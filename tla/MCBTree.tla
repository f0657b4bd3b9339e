------------------------------ MODULE MCBTree ------------------------------
(***************************************************************************)
(* BTree with values for the key lengths and the trees it starts from.      *)
(***************************************************************************)
EXTENDS BTree

\* Most index records are a fifth of a node, the most the assumption allows;
\* two shorter ones let a node hold six, so that it overflows when one of
\* them gives way to a longer one.
MCKeySize == [k \in Keys |-> IF k \in {9, 11} THEN 1 ELSE 2]

\* The empty tree; a tree in which an insertion splits every level; leaves that
\* gain and lose records in their middle; and a tree with a full root.
MCStarts == {<<>>, <<1, 2, 3, 4, 5, 6, 7, 8>>, <<1, 3, 5, 7, 9, 11>>,
             <<1, 2, 3, 4, 5, 6, 7, 8, 9, 10, 11, 12>>}
=============================================================================
