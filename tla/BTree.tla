------------------------------- MODULE BTree -------------------------------
(***************************************************************************)
(* The B*-tree manager (BTree.c, BTreeTreeOps.c, BTreeNodeOps.c,            *)
(* BTreeMiscOps.c, BTreeAllocate.c), which keeps the catalog, the extents   *)
(* overflow file and the extended attributes.  Every entry point runs with  *)
(* the b-tree file locked, so that an operation is one step; the tree, the  *)
(* node map and the counters of the BTreeControlBlock are one record, and   *)
(* the routines are operators from trees to trees.                          *)
(*                                                                         *)
(* Keys are numbers in collation order.  A record's length is the sum of    *)
(* its key's length and its data's, in units in which NodeSize is what is   *)
(* left of a node beside its descriptor; a record's offset at the end of    *)
(* the node and the child pointer of an index record are counted with the   *)
(* key.  The data of a leaf record is its length.                           *)
(***************************************************************************)
EXTENDS Integers, FiniteSets, SequencesExt

CONSTANTS
    Keys,         \* keys, numbers in collation order
    Active,       \* the keys that callers work on
    Starts,       \* sequences of keys: what was inserted before the model begins
    StartData,    \* bound: the length of the data of those records
    KeySize,      \* KeySize[k]: the length of key k
    Datas,        \* the record lengths that callers pass
    NodeSize,     \* room for records in a node
    MaxRecord,    \* the longest key and record CheckInsertParams lets through
    HeaderBits,   \* bits of the map record of the header node
    MapRecBits,   \* bits of the map record of a map node
    InitNodes,    \* nodes of the file when it is created
    MaxNodes,     \* bound: nodes the volume has room for
    Clump         \* bound: nodes by which an extension may exceed the request

ASSUME BTreeAssumption ==
    /\ Keys \subseteq Nat \ {0} /\ KeySize \in [Keys -> Nat \ {0}]
    /\ Datas \subseteq Nat \ {0} /\ StartData \in Datas
    /\ Active \subseteq Keys /\ Starts \subseteq Seq(Keys)
    /\ {NodeSize, MaxRecord, HeaderBits, MapRecBits, InitNodes, MaxNodes, Clump}
          \subseteq Nat \ {0}
    \* two records of the longest kind fit a leaf, five keys an index node
    /\ 2 * MaxRecord <= NodeSize
    /\ \A k \in Keys : 5 * KeySize[k] <= NodeSize
    /\ InitNodes <= HeaderBits /\ InitNodes <= MaxNodes

VARIABLES
    bt,      \* the tree, its node map and the fields of its control block
    reply    \* an error that the caller has not seen yet, or "ok"

vars == <<bt, reply>>

Node == 1 .. MaxNodes - 1

-----------------------------------------------------------------------------
(* Nodes (BTreeNodeOps.c).  Indices count from 0, as in the code.           *)

Cleared == [kind |-> "index", height |-> 0, fLink |-> 0, bLink |-> 0, recs |-> <<>>]

RecSize(kind, r) == KeySize[r.key] + (IF kind = "leaf" THEN r.val ELSE 0)

SizeOf(kind, recs) == FoldSeq(LAMBDA r, n : n + RecSize(kind, r), 0, recs)

GetNodeFreeSize(nd) == NodeSize - SizeOf(nd.kind, nd.recs)

Fits(nd, r) == RecSize(nd.kind, r) <= GetNodeFreeSize(nd)

InsertRec(nd, i, r) == [nd EXCEPT !.recs = InsertAt(@, i + 1, r)]

DeleteRec(nd, i) == [nd EXCEPT !.recs = RemoveAt(@, i + 1)]

\* The binary search: the index of k, or the place where it would go.
RECURSIVE Bisect(_, _, _, _)
Bisect(recs, k, lo, hi) ==
    IF lo > hi THEN [found |-> FALSE, index |-> lo]
    ELSE LET i == (lo + hi) \div 2
             trial == recs[i + 1].key
         IN  IF k < trial THEN Bisect(recs, k, lo, i - 1)
             ELSE IF k > trial THEN Bisect(recs, k, i + 1, hi)
             ELSE [found |-> TRUE, index |-> i]

SearchNode(nd, k) == Bisect(nd.recs, k, 0, Len(nd.recs) - 1)

-----------------------------------------------------------------------------
(* The node map (BTreeAllocate.c).  t.map is the set of nodes whose bit is  *)
(* set, node 0 being the header.  A routine that meets what the code's      *)
(* PanicIf asserts cannot be, or an error that it can only report after it  *)
(* has changed the tree, sets t.broken.                                     *)

Broken(t) == [t EXCEPT !.broken = TRUE]

Unallocated(t) == (0 .. t.total - 1) \ t.map

\* AllocateNode takes the lowest clear bit.
NextFree(t) == CHOOSE n \in Unallocated(t) : \A m \in Unallocated(t) : n <= m

Allocated(t, n, nd) ==
    [t EXCEPT !.map = @ \cup {n}, !.free = @ - 1, !.node[n] = nd]

FreeNode(t, n) ==
    [t EXCEPT !.map = @ \ {n}, !.free = @ + 1, !.node[n] = Cleared]

RECURSIVE MapBitsFor(_, _)
MapBitsFor(bits, total) ==
    IF bits >= total THEN bits ELSE MapBitsFor(bits + MapRecBits, total)

CalcMapBits(t) == MapBitsFor(HeaderBits, t.total)

\* Mutant: the new map nodes are counted as free.
ExtendBTree_mapsfree(t, n) ==
    IF n <= t.total THEN {t}
    ELSE {LET extra == IF total > t.mapBits
                       THEN (total - t.mapBits) \div MapRecBits + 1 ELSE 0
              fresh == t.total .. t.total + extra - 1
          IN  [t EXCEPT !.total = total,
                        !.mapBits = @ + extra * MapRecBits,
                        !.map = @ \cup fresh,
                        !.node = [m \in Node |-> IF m \in fresh
                                     THEN [Cleared EXCEPT !.kind = "map"] ELSE @[m]],
                        !.free = @ + (total - t.total)]
          : total \in n .. n + Clump - 1}

\* The trees ExtendBTree may leave when it is asked for n nodes: the file
\* grows to n nodes or, by whole clumps, to more, and the map grows with it.
ExtendBTree(t, n) ==
    IF n <= t.total THEN {t}
    ELSE {LET extra == IF total > t.mapBits
                       THEN (total - t.mapBits) \div MapRecBits + 1 ELSE 0
              fresh == t.total .. t.total + extra - 1
          IN  [t EXCEPT !.total = total,
                        !.mapBits = @ + extra * MapRecBits,
                        !.map = @ \cup fresh,
                        !.node = [m \in Node |-> IF m \in fresh
                                     THEN [Cleared EXCEPT !.kind = "map"] ELSE @[m]],
                        !.free = @ + (total - t.total) - extra]
          : total \in n .. n + Clump - 1}

Growable(t, n) == {u \in ExtendBTree(t, n) : u.total <= MaxNodes}

-----------------------------------------------------------------------------
(* Searching (SearchTree).  path[l] is the node visited at level l and the  *)
(* index taken there; the leaves are level 1.                               *)

RECURSIVE Descend(_, _, _, _, _)
Descend(t, k, n, level, path) ==
    IF n \notin Node THEN [err |-> TRUE]
    ELSE LET nd == t.node[n]
             s == SearchNode(nd, k)
             i == IF level > 1 /\ ~s.found /\ s.index # 0 THEN s.index - 1 ELSE s.index
             p == [path EXCEPT ![level] = [node |-> n, index |-> i]]
         IN  IF nd.height # level \/ nd.kind # (IF level = 1 THEN "leaf" ELSE "index")
             THEN [err |-> TRUE]
             ELSE IF level = 1
             THEN [err |-> FALSE, found |-> s.found, node |-> n, index |-> i, path |-> p]
             ELSE IF i >= Len(nd.recs) THEN [err |-> TRUE]
             ELSE Descend(t, k, nd.recs[i + 1].val, level - 1, p)

SearchTree(t, k) ==
    Descend(t, k, t.root, t.depth,
            [l \in 1 .. t.depth + 2 |-> [node |-> 0, index |-> 0]])

-----------------------------------------------------------------------------
(* Making room (BTreeTreeOps.c).  A record that does not fit its node       *)
(* pushes records into the left sibling (RotateLeft) or into a new left     *)
(* sibling (SplitLeft).                                                     *)

\* The length of the first m records of a node of that kind.
Moved(kind, all, m) == SizeOf(kind, SubSeq(all, 1, m))

\* How many of the records `all' go left until the left node, of which L is in
\* use, is as full as the right one; the last move is taken back when it
\* overfills the left node.
Balance(kind, all, L, R) ==
    CHOOSE m \in 0 .. Len(all) :
       /\ L + Moved(kind, all, m) >= R - Moved(kind, all, m)
       /\ \A j \in 0 .. m - 1 : L + Moved(kind, all, j) < R - Moved(kind, all, j)

\* Mutant: the move that overfills the left node is not taken back.
TakenBack_kept(kind, all, L, m) == m

TakenBack(kind, all, L, m) == IF L + Moved(kind, all, m) > NodeSize THEN m - 1 ELSE m

\* The nodes with the first m of the records `all' moved left, i being the
\* index of the new one.
Divide(left, right, all, i, m) ==
    IF SizeOf(right.kind, SubSeq(all, m + 1, Len(all))) > NodeSize
    THEN [fit |-> FALSE, left |-> left, right |-> right, rotated |-> 0,
          inLeft |-> FALSE, index |-> 0]
    ELSE [fit |-> TRUE,
          left |-> [left EXCEPT !.recs = @ \o SubSeq(all, 1, m)],
          right |-> [right EXCEPT !.recs = SubSeq(all, m + 1, Len(all))],
          rotated |-> m,
          inLeft |-> i < m,
          index |-> IF i < m THEN Len(left.recs) + i ELSE i - m]

RotateLeft(left, right, i, r) ==
    LET all == InsertAt(right.recs, i + 1, r)
        L == SizeOf(left.kind, left.recs)
        R == SizeOf(right.kind, all)
    IN  Divide(left, right, all, i,
               TakenBack(right.kind, all, L, Balance(right.kind, all, L, R)))

\* The height grows by one: the new root points to the two halves of the old.
AddNewRootNode(t, l, r) ==
    IF Unallocated(t) = {} \/ t.node[l].recs = <<>> \/ t.node[r].recs = <<>>
    THEN Broken(t)
    ELSE LET n == NextFree(t)
             entry(c) == [key |-> t.node[c].recs[1].key, val |-> c]
         IN  [Allocated(t, n, [Cleared EXCEPT !.height = t.depth + 1,
                                              !.recs = <<entry(l), entry(r)>>])
                EXCEPT !.root = n, !.depth = @ + 1]

\* An insertion into one level in progress: s.t the tree, s.left the left
\* node in hand (0: none), where the record went, and what the parent needs.
Level(t) ==
    [t |-> t, left |-> 0, node |-> 0, index |-> 0,
     updateParent |-> FALSE, insertParent |-> FALSE, newRoot |-> FALSE]

\* What an update of the parent is due to after a rotation or a split.
\* Mutant: one record moved left, after which another is the first.
FirstKeyMoved_many(key, rotated, i) == key.replacing \/ rotated > 1

FirstKeyMoved(key, rotated, i) == key.replacing \/ rotated > 1 \/ i > 0

CannotSplit(s, rt, node) ==
    \/ Unallocated(s.t) = {}
    \/ rt.bLink # 0 /\ s.left = 0
    \/ /\ s.left # 0
       /\ LET left == s.t.node[s.left]
          IN  left.fLink # node \/ left.height # rt.height \/ left.kind # rt.kind

\* The new node n is linked in to the left of the right node.
LinkLeft(t, left, right, n, rot) ==
    [Allocated(t, n, rot.left)
        EXCEPT !.node = [m \in Node |-> IF m = right THEN [rot.right EXCEPT !.bLink = n]
                                        ELSE IF m = left THEN [@[m] EXCEPT !.fLink = n]
                                        ELSE @[m]],
               !.first = IF rot.left.kind = "leaf" /\ rot.left.bLink = 0 THEN n ELSE @]

\* The rest of InsertNode: a root that was split gets a new root above it.
Split(s, n, right, key, node, i, rot, isRoot) ==
    LET t == LinkLeft(s.t, s.left, right, n, rot)
    IN  [s EXCEPT !.t = IF isRoot THEN AddNewRootNode(t, n, right) ELSE t,
                  !.left = n,
                  !.node = IF ~rot.fit THEN 0 ELSE IF rot.inLeft THEN n ELSE node,
                  !.index = rot.index,
                  !.newRoot = isRoot,
                  !.insertParent = @ \/ ~isRoot,
                  !.updateParent = @ \/ (~isRoot /\ FirstKeyMoved(key, rot.rotated, i))]

SplitLeft(s, right, key, node, i) ==
    LET rt == s.t.node[right]
    IN  IF CannotSplit(s, rt, node) THEN [s EXCEPT !.t = Broken(@)]
        ELSE Split(s, NextFree(s.t), right, key, node, i,
                   RotateLeft([rt EXCEPT !.fLink = node, !.recs = <<>>], rt, i, key.rec),
                   rt.height = s.t.depth)

RotateOrSplit(s, left, right, key, node, i, rot) ==
    IF left # 0 /\ ~key.skipRotate /\ rot.fit
    THEN [s EXCEPT !.t.node[left] = rot.left, !.t.node[right] = rot.right,
                   !.left = left, !.newRoot = FALSE,
                   !.node = IF rot.inLeft THEN left ELSE right,
                   !.index = rot.index,
                   !.updateParent = @ \/ FirstKeyMoved(key, rot.rotated, i)]
    ELSE SplitLeft([s EXCEPT !.left = left], right, key, node, i)

InsertNode(s, right, key, node, i) ==
    LET nd == s.t.node
        left == nd[right].bLink
        target == IF node = left THEN s.left ELSE right
    IN  IF target = 0 THEN [s EXCEPT !.t = Broken(@)]
        ELSE IF Fits(nd[target], key.rec)
        THEN [s EXCEPT !.t.node[target] = InsertRec(@, i, key.rec),
                       !.node = node, !.index = i, !.newRoot = FALSE,
                       !.updateParent = @ \/ (i = 0 /\ nd[target].height # s.t.depth)]
        ELSE IF left # 0 /\ (s.left # 0 \/ nd[left].fLink # node)
        THEN [s EXCEPT !.t = Broken(@)]
        ELSE RotateOrSplit(s, left, right, key, node, i,
                           RotateLeft(nd[left], nd[right], i, key.rec))

\* One level, then its parent: the entry of the target node is deleted and
\* put in again when its first key changed, and the new left node gets one.
None == [none |-> TRUE]

RECURSIVE InsertLevel(_, _, _, _, _, _)

\* The target's entry, the pi-th of the parent pn, goes out, to be put in again.
ParentWithout(s, pn, pi) ==
    IF s.updateParent THEN [s.t EXCEPT !.node[pn] = DeleteRec(@, pi)] ELSE s.t

UpdateParent(s, path, target, level) ==
    LET nd == s.t.node
        pi == path[level + 1].index
        pn == path[level + 1].node
        update == [rec |-> [key |-> nd[target].recs[1].key, val |-> target],
                   replacing |-> TRUE, skipRotate |-> s.insertParent]
        add == [rec |-> [key |-> nd[s.left].recs[1].key, val |-> nd[target].bLink],
                replacing |-> FALSE, skipRotate |-> FALSE]
    IN  IF s.t.broken \/ ~(s.updateParent \/ s.insertParent) THEN s.t
        ELSE IF \/ level = s.t.depth \/ pn = 0
                \/ nd[target].recs = <<>>
                \/ s.insertParent /\ nd[s.left].recs = <<>>
                \/ s.updateParent /\ \/ pi >= Len(nd[pn].recs)
                                     \/ nd[pn].recs[pi + 1].val # target
        THEN Broken(s.t)
        ELSE InsertLevel(ParentWithout(s, pn, pi), path,
                         IF s.updateParent THEN update ELSE add,
                         IF s.updateParent /\ s.insertParent THEN add ELSE None,
                         pi, level + 1)

\* A new root is entered in the path, and the second record inserted.
AfterPrimary(s, path, target, secondary, level) ==
    UpdateParent(IF secondary = None \/ s.t.broken THEN s
                 ELSE InsertNode(s, target, secondary, s.node, s.index),
                 IF s.newRoot
                 THEN [l \in DOMAIN path \cup {level + 1} |->
                          IF l = level + 1 THEN [node |-> s.t.root, index |-> 1]
                          ELSE path[l]]
                 ELSE path,
                 target, level)

InsertLevel(t, path, primary, secondary, i, level) ==
    AfterPrimary(InsertNode(Level(t), path[level].node, primary, path[level].node, i),
                 path, path[level].node, secondary, level)

InsertTree(t, path, rec, i, level, replacing) ==
    InsertLevel(t, path, [rec |-> rec, replacing |-> replacing, skipRotate |-> FALSE],
                None, i, level)

-----------------------------------------------------------------------------
(* Deleting (DeleteTree).  Nodes are not merged: one that loses its last    *)
(* record is unlinked and freed, and its parent's entry deleted in turn.    *)

RECURSIVE CollapseTree(_)
CollapseTree(t) ==
    LET nd == t.node[t.root]
    IN  IF Len(nd.recs) > 1 \/ nd.kind = "leaf" THEN t
        ELSE CollapseTree([FreeNode(t, t.root) EXCEPT !.root = nd.recs[1].val,
                                                      !.depth = @ - 1])

\* The node n is taken out of the chain of its level.
Unlink(t, n) ==
    LET nd == t.node[n]
        leaf == nd.kind = "leaf"
    IN  [t EXCEPT
            !.node = [m \in Node |->
                IF m = nd.bLink THEN [@[m] EXCEPT !.fLink = nd.fLink]
                ELSE IF m = nd.fLink THEN [@[m] EXCEPT !.bLink = nd.bLink]
                ELSE @[m]],
            !.first = IF leaf /\ nd.bLink = 0 THEN nd.fLink ELSE @,
            !.last = IF leaf /\ nd.fLink = 0 THEN nd.bLink ELSE @]

RECURSIVE DeleteTree(_, _, _, _)

\* After record i of the node, now nd in the tree t, is gone: its parent's
\* entry goes too when the node was emptied, and is replaced when its first
\* key changed.
DeleteParent(t, nd, path, i, level, target, up) ==
    IF level = t.depth
    THEN IF nd.recs = <<>> THEN [t EXCEPT !.root = 0, !.depth = 0]
         ELSE IF Len(nd.recs) = 1 THEN CollapseTree(t) ELSE t
    ELSE IF nd.recs = <<>> THEN DeleteTree(t, path, up.index, level + 1)
    ELSE IF i # 0 THEN t
    ELSE IF t.node[up.node].recs[up.index + 1].val # target THEN Broken(t)
    ELSE InsertTree([t EXCEPT !.node[up.node] = DeleteRec(@, up.index)], path,
                    [key |-> nd.recs[1].key, val |-> target], up.index, level + 1, TRUE)

WithNode(t, n, nd) ==
    IF nd.recs = <<>> THEN FreeNode(Unlink(t, n), n) ELSE [t EXCEPT !.node[n] = nd]

DeleteTree(t, path, i, level) ==
    LET target == path[level].node
        nd == DeleteRec(t.node[target], i)
    IN  DeleteParent(WithNode(t, target, nd), nd, path, i, level, target, path[level + 1])

-----------------------------------------------------------------------------
(* The entry points (BTree.c).                                              *)

CheckInsertParams(k, d) == KeySize[k] + d <= MaxRecord

\* The number of nodes to extend to so that `need' nodes are free.
NodesNeeded(t, need) ==
    LET n == need + t.total - t.free
    IN  IF n > CalcMapBits(t) THEN n + 1 ELSE n

\* Mutant: no node is set aside for a new root.
RoomToInsert_noroot(t) ==
    IF t.depth > t.free THEN Growable(t, NodesNeeded(t, t.depth)) ELSE {t}

\* Trees in which an insertion finds the nodes it may take; none when the
\* volume is full.
RoomToInsert(t) ==
    IF t.depth + 1 > t.free THEN Growable(t, NodesNeeded(t, t.depth + 1)) ELSE {t}

RoomToDelete(t, i) ==
    LET n == t.depth + t.total
        nodes == IF n > CalcMapBits(t) THEN n + 1 ELSE n
    IN  IF i = 0 /\ t.depth + 1 > t.free /\ nodes - t.total > t.free
        THEN Growable(t, nodes) ELSE {t}

FirstLeaf(t, rec) ==
    LET n == NextFree(t)
    IN  [Allocated(t, n, [Cleared EXCEPT !.kind = "leaf", !.height = 1, !.recs = <<rec>>])
           EXCEPT !.depth = 1, !.root = n, !.first = n, !.last = n]

Return(t, r) == bt' = t /\ reply' = r

Counted(t, n) == [t EXCEPT !.leafRecords = @ + n]

\* The trees with a record for a new key k; none when the volume is full.
Inserted(t, k, d) ==
    LET s == SearchTree(t, k)
        rec == [key |-> k, val |-> d]
        room == IF t.free = 0 THEN Growable(t, t.total + 1) ELSE {t}
    IN  {Counted(u, 1) : u \in
           IF t.depth = 0 THEN {FirstLeaf(u, rec) : u \in room}
           ELSE IF s.index > 0 /\ Fits(t.node[s.node], rec)
           THEN {[t EXCEPT !.node[s.node] = InsertRec(@, s.index, rec)]}
           ELSE {InsertTree(u, s.path, rec, s.index, 1, FALSE) : u \in RoomToInsert(t)}}

BTInsertRecord(k, d) ==
    LET s == SearchTree(bt, k)
        new == bt.depth = 0 \/ (~s.err /\ ~s.found)
    IN  /\ reply = "ok"
        /\ \/ ~CheckInsertParams(k, d) /\ Return(bt, "toolarge")
           \/ CheckInsertParams(k, d) /\ bt.depth # 0 /\ s.err /\ Return(Broken(bt), "bad")
           \/ CheckInsertParams(k, d) /\ ~new /\ ~s.err /\ Return(bt, "dup")
           \/ CheckInsertParams(k, d) /\ new /\ \E t \in Inserted(bt, k, d) : Return(t, "ok")
           \/ CheckInsertParams(k, d) /\ new /\ Inserted(bt, k, d) = {} /\ Return(bt, "nospace")


\* The leaf nd with its record of that key replaced; nothing when nd is not a
\* leaf, has no such key or no room.
TrySimpleReplace(nd, rec) ==
    LET s == SearchNode(nd, rec.key)
        cut == DeleteRec(nd, s.index)
    IN  IF nd.kind = "leaf" /\ s.found /\ Fits(cut, rec)
        THEN {InsertRec(cut, s.index, rec)} ELSE {}

\* The node that the caller's hint names is tried first, and any node may be
\* named; then the leaf that a search finds; a record that does not fit there
\* is deleted and inserted again.
BTReplaceRecord(k, d) ==
    LET s == SearchTree(bt, k)
        rec == [key |-> k, val |-> d]
        inLeaf == TrySimpleReplace(bt.node[s.node], rec)
        deleted(t) == [t EXCEPT !.node[s.node] = DeleteRec(@, s.index)]
    IN  /\ reply = "ok"
        /\ \/ ~CheckInsertParams(k, d) /\ Return(bt, "toolarge")
           \/ /\ CheckInsertParams(k, d)
              /\ \E hint \in Node : \E nd \in TrySimpleReplace(bt.node[hint], rec) :
                    Return([bt EXCEPT !.node[hint] = nd], "ok")
           \/ CheckInsertParams(k, d) /\ bt.depth = 0 /\ Return(bt, "notfound")
           \/ /\ CheckInsertParams(k, d) /\ bt.depth # 0
              /\ \/ s.err /\ Return(Broken(bt), "bad")
                 \/ ~s.err /\ ~s.found /\ Return(bt, "notfound")
                 \/ /\ ~s.err /\ s.found
                    /\ \/ \E nd \in inLeaf : Return([bt EXCEPT !.node[s.node] = nd], "ok")
                       \/ /\ inLeaf = {}
                          /\ \E t \in RoomToInsert(bt) :
                                Return(InsertTree(deleted(t), s.path, rec, s.index, 1, TRUE),
                                       "ok")
                       \/ inLeaf = {} /\ RoomToInsert(bt) = {} /\ Return(bt, "nospace")

BTDeleteRecord(k) ==
    LET s == SearchTree(bt, k)
    IN  /\ reply = "ok"
        /\ \/ bt.depth = 0 /\ Return(bt, "notfound")
           \/ /\ bt.depth # 0
              /\ \/ s.err /\ Return(Broken(bt), "bad")
                 \/ ~s.err /\ ~s.found /\ Return(bt, "notfound")
                 \/ /\ ~s.err /\ s.found
                    /\ \/ \E t \in RoomToDelete(bt, s.index) :
                             Return(Counted(DeleteTree(t, s.path, s.index, 1), -1), "ok")
                       \/ RoomToDelete(bt, s.index) = {} /\ Return(bt, "nospace")

\* The caller takes notice of an error.
SeeError == reply # "ok" /\ Return(bt, "ok")

EmptyTree ==
    [root |-> 0, depth |-> 0, first |-> 0, last |-> 0, leafRecords |-> 0,
     total |-> InitNodes, free |-> InitNodes - 1, map |-> {0},
     mapBits |-> HeaderBits, node |-> [n \in Node |-> Cleared], broken |-> FALSE]

\* The tree after a sequence of insertions.
Built(keys) ==
    FoldLeft(LAMBDA t, k : CHOOSE u \in Inserted(t, k, StartData) : TRUE, EmptyTree, keys)

Init == bt \in {Built(keys) : keys \in Starts} /\ reply = "ok"

Next ==
    \/ \E k \in Active, d \in Datas : BTInsertRecord(k, d)
    \/ \E k \in Active, d \in Datas : BTReplaceRecord(k, d)
    \/ \E k \in Active : BTDeleteRecord(k)
    \/ SeeError

Spec == Init /\ [][Next]_vars

-----------------------------------------------------------------------------
(* Reading by hint (FindIteratorPosition, BTIterateRecord, BTSearchRecord). *)
(* A hint is a node number kept from an earlier call.  The tree may have    *)
(* changed since: the node may have lost the key, been freed, or hold       *)
(* another part of the tree.                                                *)

At(n, i, found) == [err |-> FALSE, node |-> n, index |-> i, found |-> found]

IsLeaf(t, n) == t.node[n].kind = "leaf" /\ t.node[n].recs # <<>>

\* Mutant: a key before the left sibling's first is not searched for.
FindIteratorPosition_near(t, k, hint) ==
    LET here == SearchNode(t.node[hint], k)
        l == t.node[hint].bLink
        r == t.node[hint].fLink
        inL == SearchNode(t.node[l], k)
        inR == SearchNode(t.node[r], k)
        search == IF t.depth = 0 THEN [err |-> TRUE] ELSE SearchTree(t, k)
    IN  IF hint = 0 \/ ~IsLeaf(t, hint) THEN search
        ELSE IF here.found THEN At(hint, here.index, TRUE)
        ELSE IF here.index = 0
        THEN IF l = 0 THEN At(hint, 0, FALSE)
             ELSE IF ~IsLeaf(t, l) THEN search
             ELSE IF ~inL.found /\ inL.index >= Len(t.node[l].recs)
             THEN At(t.node[l].fLink, 0, FALSE)
             ELSE At(l, inL.index, inL.found)
        ELSE IF here.index >= Len(t.node[hint].recs)
        THEN IF r = 0 THEN At(hint, here.index, FALSE)
             ELSE IF ~IsLeaf(t, r) \/ inR.index >= Len(t.node[r].recs) THEN search
             ELSE At(r, inR.index, inR.found)
        ELSE search

FindIteratorPosition(t, k, hint) ==
    LET here == SearchNode(t.node[hint], k)
        l == t.node[hint].bLink
        r == t.node[hint].fLink
        inL == SearchNode(t.node[l], k)
        inR == SearchNode(t.node[r], k)
        search == IF t.depth = 0 THEN [err |-> TRUE] ELSE SearchTree(t, k)
    IN  IF hint = 0 \/ ~IsLeaf(t, hint) THEN search
        ELSE IF here.found THEN At(hint, here.index, TRUE)
        ELSE IF here.index = 0
        THEN IF l = 0 THEN At(hint, 0, FALSE)
             ELSE IF ~IsLeaf(t, l) \/ (~inL.found /\ inL.index = 0) THEN search
             ELSE IF ~inL.found /\ inL.index >= Len(t.node[l].recs)
             THEN At(t.node[l].fLink, 0, FALSE)
             ELSE At(l, inL.index, inL.found)
        ELSE IF here.index >= Len(t.node[hint].recs)
        THEN IF r = 0 THEN At(hint, here.index, FALSE)
             ELSE IF ~IsLeaf(t, r) \/ inR.index >= Len(t.node[r].recs) THEN search
             ELSE At(r, inR.index, inR.found)
        ELSE search

\* BTIterateRecord with kBTreeNextRecord: the key it returns, 0 for none.
NextRecord(t, k, hint) ==
    LET p == FindIteratorPosition(t, k, hint)
        recs == t.node[p.node].recs
        r == t.node[p.node].fLink
    IN  IF p.err THEN 0
        ELSE IF ~p.found /\ p.index # Len(recs) THEN recs[p.index + 1].key
        ELSE IF p.index < Len(recs) - 1 THEN recs[p.index + 2].key
        ELSE IF r = 0 THEN 0 ELSE t.node[r].recs[1].key

\* The same with kBTreePrevRecord.
PrevRecord(t, k, hint) ==
    LET p == FindIteratorPosition(t, k, hint)
        l == t.node[p.node].bLink
    IN  IF p.err THEN 0
        ELSE IF p.index > 0 THEN t.node[p.node].recs[p.index].key
        ELSE IF l = 0 THEN 0 ELSE Last(t.node[l].recs).key

\* BTSearchRecord: the data of k, 0 when it is not there.
SearchRecord(t, k, hint) ==
    LET here == SearchNode(t.node[hint], k)
        s == SearchTree(t, k)
    IN  IF hint # 0 /\ IsLeaf(t, hint) /\ here.found
        THEN t.node[hint].recs[here.index + 1].val
        ELSE IF t.depth = 0 \/ s.err \/ ~s.found THEN 0
        ELSE t.node[s.node].recs[s.index + 1].val

-----------------------------------------------------------------------------
(* Properties.                                                              *)

\* Nodes that hold records: a node has a height once it is part of the tree.
Held(t) == {n \in Node : t.node[n].height > 0}

\* The control block and every node hold values of their types, and no node
\* holds more than fits it.
TypeOK ==
    /\ bt.root \in {0} \cup Node /\ bt.depth \in 0 .. MaxNodes
    /\ bt.total \in 1 .. MaxNodes /\ bt.free \in 0 .. MaxNodes
    /\ \A n \in Node : GetNodeFreeSize(bt.node[n]) >= 0
    /\ reply \in {"ok", "dup", "notfound", "toolarge", "nospace", "bad"}

\* What PanicIf asserts in BTreeTreeOps.c holds, a search never meets a node
\* of the wrong height or kind, and AllocateNode never fails in the middle of
\* an insertion or deletion: the nodes that BTInsertRecord, BTReplaceRecord
\* and BTDeleteRecord make sure of beforehand, depth + 1 or depth, are enough
\* for the splits of every level and a new root.
NeverStuckHalfway == ~bt.broken

\* The shape of the tree: keys ascend within a node and along the chain of
\* siblings of every level, the chain's two directions agree, every entry of
\* an index node carries the first key of a node one level below, every node
\* but the root has one entry, and firstLeafNode and lastLeafNode are the ends
\* of the chain of leaves.
WellShaped ==
    LET nd == bt.node
        entries == {<<n, i>> \in Held(bt) \X (1 .. NodeSize) :
                       nd[n].kind = "index" /\ i <= Len(nd[n].recs)}
        leaves == {n \in Held(bt) : nd[n].height = 1}
    IN  /\ bt.depth = 0 => bt.root = 0 /\ Held(bt) = {} /\ bt.first = 0 /\ bt.last = 0
        /\ bt.depth > 0 =>
              /\ bt.root \in Held(bt) /\ nd[bt.root].height = bt.depth
              /\ nd[bt.first].bLink = 0 /\ nd[bt.last].fLink = 0
              /\ bt.first \in leaves /\ bt.last \in leaves
              /\ bt.depth > 1 => Len(nd[bt.root].recs) > 1
        /\ \A n \in Held(bt) :
              /\ nd[n].recs # <<>>
              /\ \A i \in 1 .. Len(nd[n].recs) - 1 :
                    nd[n].recs[i].key < nd[n].recs[i + 1].key
              /\ nd[n].fLink # 0 =>
                    /\ nd[n].fLink \in Held(bt)
                    /\ nd[nd[n].fLink].bLink = n
                    /\ nd[nd[n].fLink].height = nd[n].height
                    /\ Last(nd[n].recs).key < nd[nd[n].fLink].recs[1].key
              /\ nd[n].bLink # 0 => nd[nd[n].bLink].fLink = n
              /\ Cardinality({e \in entries : nd[e[1]].recs[e[2]].val = n})
                    = IF n = bt.root THEN 0 ELSE 1
        /\ \A e \in entries :
              LET r == nd[e[1]].recs[e[2]]
              IN  /\ r.val \in Held(bt)
                  /\ nd[r.val].height = nd[e[1]].height - 1
                  /\ nd[r.val].recs[1].key = r.key

\* The records in the chain of leaves, as a map.
LeafRecs(t) == UNION {Range(t.node[n].recs) : n \in {m \in Held(t) : t.node[m].kind = "leaf"}}

Contents(t) ==
    LET recs == LeafRecs(t)
    IN  [k \in {r.key : r \in recs} |-> (CHOOSE r \in recs : r.key = k).val]

\* The counters agree with what they count: the bits set in the node map are
\* those of the header, the map nodes and the nodes of the tree, freeNodes
\* counts the others, the map has a bit for every node, after any number of
\* extensions, which may need map nodes themselves, and leafRecords counts the
\* records of the leaves.
NodesAccountedFor ==
    LET maps == {n \in Node : bt.node[n].kind = "map"}
    IN  /\ bt.map = {0} \cup maps \cup Held(bt)
        /\ bt.free = bt.total - Cardinality(bt.map)
        /\ bt.map \subseteq 0 .. bt.total - 1
        /\ bt.mapBits = HeaderBits + Cardinality(maps) * MapRecBits
        /\ bt.total <= bt.mapBits
        /\ bt.leafRecords = Cardinality(DOMAIN Contents(bt))

\* A hint kept from an earlier call never misleads, whatever happened to the
\* node it names: from any key, present or not, and with any node number as
\* hint, the next and the previous record and the record itself are those of
\* the map.  A directory listing, which keeps a hint between calls while the
\* directory changes, neither skips an entry nor returns one twice.
HintNeverMisleads ==
    LET C == Contents(bt)
        least(S) == IF S = {} THEN 0 ELSE CHOOSE k \in S : \A j \in S : k <= j
        greatest(S) == IF S = {} THEN 0 ELSE CHOOSE k \in S : \A j \in S : k >= j
    IN  reply = "ok" =>
          \A k \in Keys :
            LET next == least({j \in DOMAIN C : j > k})
                prev == greatest({j \in DOMAIN C : j < k})
                data == IF k \in DOMAIN C THEN C[k] ELSE 0
            IN  \A hint \in 0 .. bt.total - 1 :
                   /\ NextRecord(bt, k, hint) = next
                   /\ PrevRecord(bt, k, hint) = prev
                   /\ SearchRecord(bt, k, hint) = data

\* The tree is a map: each operation changes the one record it names or, when
\* it fails, nothing, whatever was rotated, split, freed or collapsed for it.
Map == INSTANCE KeyedStore WITH store <- Contents(bt)

=============================================================================
