---------------------------- MODULE JournalFacts ----------------------------
(***************************************************************************)
(* Facts that the proofs about Journal share: the ranges of the constants, *)
(* what growing and killing do to a list of block lists, and, for each     *)
(* variable, the fields that the invariants read.                          *)
(***************************************************************************)
EXTENDS Journal, SequenceTheorems, TLAPS

\* A transaction pointer is NULL (0) or names a transaction.
LEMMA NullPtr ==
  0 \in NoneOrUid /\ Uids \subseteq NoneOrUid /\ \A u \in NoneOrUid : u # 0 => u \in Uids
  BY ReplayAssumption DEF NoneOrUid, Uids

\* journal_allocate_transaction has a transaction left to hand out below the
\* bound.
LEMMA NextUid ==
  ASSUME TypeOK, ntr < MaxTr
  PROVE  ntr + 1 \in Uids /\ ntr + 1 \in NoneOrUid
  BY ReplayAssumption DEF TypeOK, NoneOrUid, Uids

\* 0 stands for no offset; every other value of the type is an offset.
LEMMA OffsetRange ==
  /\ 0 \in NoneOrOffset /\ 1 \in Offsets /\ Offsets \subseteq NoneOrOffset
  /\ \A p \in NoneOrOffset : p # 0 => p \in Offsets
  BY ReplayAssumption DEF Offsets, NoneOrOffset

\* The array old_start has a first slot.
LEMMA FirstSlot == 1 \in Slots
  BY JournalAssumption DEF Slots

\* NONE, the owner of an unlocked journal, is no thread.
LEMMA NoThread == NONE \notin Threads
  BY JournalAssumption

\* The journal structure has its type.
LEMMA JnlTyped == TypeOK => jnl \in JnlType
  BY DEF TypeOK

\* The pointers into the ring and the arrays beside them have their type.
LEMMA RingTyped == TypeOK => ring \in RingType
  BY DEF TypeOK

\* The threads' frames have their type.
LEMMA ThTyped == TypeOK => th \in [Threads -> ThType]
  BY DEF TypeOK

\* The frame of end_transaction has its type.
LEMMA EtTyped == TypeOK => et \in EtType
  BY DEF TypeOK

\* The frame of finish_end_transaction has its type.
LEMMA FinTyped == TypeOK => fin \in FinType
  BY DEF TypeOK

\* The outstanding home writes have their type.
LEMMA IoTyped == TypeOK => io \in IoType
  BY DEF TypeOK

\* The frame of buffer_flushed_callback has its type.
LEMMA CbTyped == TypeOK => cb \in CbType
  BY DEF TypeOK

\* The table of transactions has its type.
LEMMA TxnTyped == TypeOK => txn \in [Uids -> TxnType]
  BY DEF TypeOK, ReplayTypeOK

\* The ring on disk has its type.
LEMMA LogTyped == TypeOK => log \in [Cells -> CellType]
  BY DEF TypeOK, ReplayTypeOK

\* The frame of replay_journal has its type.
LEMMA RpTyped == TypeOK => rp \in RpType
  BY DEF TypeOK, ReplayTypeOK

\* The types of the fields of the journal structure that hold pointers and
\* numbers.
LEMMA JnlFields ==
  TypeOK => /\ jnl.cur_tr \in NoneOrUid /\ jnl.active_tr \in NoneOrUid
            /\ jnl.nested_count \in Nat /\ jnl.sequence_num \in Nat
            /\ jnl.saved_sequence_num \in Nat
  BY DEF TypeOK, JnlType

\* The number of transactions allocated so far is a number within the bound.
LEMMA NtrNat == TypeOK => ntr \in Nat /\ ntr <= MaxTr
  BY ReplayAssumption DEF TypeOK, NoneOrUid

\* cur_tr, when it is not NULL, names a transaction.
LEMMA CurUid == TypeOK => (jnl.cur_tr # 0 => jnl.cur_tr \in Uids)
  BY NullPtr, JnlFields

\* The outstanding home writes, when there are any, are those of a
\* transaction.
LEMMA IoUid == TypeOK => (io.tr # 0 => io.tr \in Uids)
  BY NullPtr DEF TypeOK, IoType

\* A cell of the ring that was written holds a block of some transaction.
LEMMA LogUid == TypeOK => (\A c \in Cells : log[c].uid # 0 => log[c].uid \in Uids)
  BY NullPtr DEF TypeOK, ReplayTypeOK, CellType

\* A thread is at a place of the code and will return to one.
LEMMA ThFields ==
  TypeOK => \A s \in Threads : th[s].pc \in Pcs /\ th[s].ret \in Returns /\ th[s].ret \in Pcs
  BY DEF TypeOK, ThType, Pcs, Returns

\* start, end and active_start are offsets in the ring and none of them is
\* 0.
LEMMA RingFields ==
  TypeOK => /\ ring.start \in Offsets /\ ring.end \in Offsets /\ ring.active_start \in Offsets
            /\ ring.end # 0
  BY ReplayAssumption DEF TypeOK, RingType, Offsets

\* The pointers that journal_open sets up have their type.
LEMMA FreshRingTyped ==
  ASSUME NEW s \in Offsets, NEW e \in Offsets
  PROVE  FreshRing(s, e) \in RingType
  BY OffsetRange DEF FreshRing, Free, RingType

\* The header on disk has its type.
LEMMA DhdrTyped ==
  TypeOK => dhdr \in [start : Offsets, end : Offsets, seq : Nat]
  BY DEF TypeOK, ReplayTypeOK

\* After the step the journal has owner o, active_tr a, cur_tr c, flushing
\* flag f and flush_aborted x.
JnlIs(o, a, c, f, x) ==
  /\ jnl' \in JnlType
  /\ jnl'.owner = o /\ jnl'.active_tr = a /\ jnl'.cur_tr = c
  /\ jnl'.flushing = f /\ jnl'.flush_aborted = x

\* Thread t is at p and will return to r; the other threads are where they
\* were.
ThIs(t, p, r) ==
  /\ th' \in [Threads -> ThType]
  /\ \A s \in Threads : /\ th'[s].pc = (IF s = t THEN p ELSE th[s].pc)
                        /\ th'[s].ret = (IF s = t THEN r ELSE th[s].ret)

\* finish_end_transaction is at p, on block list k of u, and t waits for it.
FinIs(p, u, k, t) ==
  fin' \in FinType /\ fin'.pc = p /\ fin'.tr = u /\ fin'.k = k /\ fin'.by = t

\* Transaction u may have got longer, within the limit; the others are as
\* they were.
TxnGrows(u) ==
  /\ txn' \in [Uids -> TxnType]
  /\ \A v \in Uids : /\ v # u => txn'[v] = txn[v]
                     /\ txn'[v].st = txn[v].st /\ txn'[v].js = txn[v].js /\ txn'[v].je = txn[v].je
  /\ txn'[u].total <= Size - 1
  /\ Len(txn'[u].hdrs) >= Len(txn[u].hdrs)
  /\ \A k \in 1..Len(txn'[u].hdrs) : 1 + Len(txn'[u].hdrs[k]) <= txn'[u].total

\* Transaction u is in state s, at j..e in the ring; the others are as they
\* were.
TxnIs(u, s, j, e) ==
  /\ txn' \in [Uids -> TxnType]
  /\ \A v \in Uids : /\ txn'[v].st = (IF v = u THEN s ELSE txn[v].st)
                     /\ txn'[v].js = (IF v = u THEN j ELSE txn[v].js)
                     /\ txn'[v].je = (IF v = u THEN e ELSE txn[v].je)
                     /\ txn'[v].hdrs = txn[v].hdrs /\ txn'[v].total = txn[v].total

\* journal_modify_block_end puts a block at the end of a block list: the
\* lists stay within one more block.
LEMMA ListAppend ==
  ASSUME NEW S, NEW h \in Seq(Seq(S)), NEW n \in 1..Len(h), NEW b \in S, NEW m \in Nat,
         \A k \in 1..Len(h) : 1 + Len(h[k]) <= m,
         NEW g, g = [h EXCEPT ![n] = Append(@, b)]
  PROVE  /\ g \in Seq(Seq(S)) /\ Len(g) = Len(h)
         /\ \A k \in 1..Len(g) : 1 + Len(g[k]) <= m + 1
  <1>1. h[n] \in Seq(S) /\ Append(h[n], b) \in Seq(S) /\ Len(Append(h[n], b)) = Len(h[n]) + 1
    BY AppendProperties
  <1>2. g \in Seq(Seq(S)) /\ Len(g) = Len(h)
    BY <1>1, ExceptSeq
  <1>3. ASSUME NEW k \in 1..Len(g) PROVE 1 + Len(g[k]) <= m + 1
    <2>1. CASE k = n
      BY <2>1, <1>1, <1>2
    <2>2. CASE k # n
      <3>1. g[k] = h[k] /\ h[k] \in Seq(S)
        BY <2>2, <1>2
      <3> QED BY <3>1, <1>2
    <2> QED BY <2>1, <2>2
  <1> QED BY <1>2, <1>3

\* A new block list with one block: the lists stay within two more blocks,
\* its header being one.
LEMMA ListAdd ==
  ASSUME NEW S, NEW h \in Seq(Seq(S)), NEW b \in S, NEW m \in Nat,
         \A k \in 1..Len(h) : 1 + Len(h[k]) <= m,
         NEW g, g = Append(h, <<b>>)
  PROVE  /\ g \in Seq(Seq(S)) /\ Len(g) = Len(h) + 1
         /\ \A k \in 1..Len(g) : 1 + Len(g[k]) <= m + 2
  <1>1. <<b>> \in Seq(S) /\ Len(<<b>>) = 1
    OBVIOUS
  <1>2. g \in Seq(Seq(S)) /\ Len(g) = Len(h) + 1
    BY <1>1, AppendProperties
  <1>3. ASSUME NEW k \in 1..Len(g) PROVE 1 + Len(g[k]) <= m + 2
    <2>1. CASE k = Len(h) + 1
      BY <2>1, <1>1, AppendProperties
    <2>2. CASE k # Len(h) + 1
      <3>1. k \in 1..Len(h) BY <2>2, <1>2
      <3>2. g[k] = h[k] /\ h[k] \in Seq(S)
        BY <3>1, <1>1, AppendProperties
      <3> QED BY <3>1, <3>2, LenProperties
    <2> QED BY <2>1, <2>2
  <1> QED BY <1>2, <1>3

\* Overwriting an entry by -1, as journal_kill_block does, changes no
\* length.
LEMMA ListKill ==
  ASSUME NEW S, NEW h \in Seq(Seq(S)), NEW n \in 1..Len(h), NEW i \in 1..Len(h[n]), NEW x \in S,
         NEW m, \A k \in 1..Len(h) : 1 + Len(h[k]) <= m,
         NEW g, g = [h EXCEPT ![n][i] = x]
  PROVE  /\ g \in Seq(Seq(S)) /\ Len(g) = Len(h)
         /\ \A k \in 1..Len(g) : 1 + Len(g[k]) <= m
  <1>1. h[n] \in Seq(S) OBVIOUS
  <1> DEFINE e == [h[n] EXCEPT ![i] = x]
  <1>2. e \in Seq(S) /\ Len(e) = Len(h[n])
    BY <1>1, ExceptSeq
  <1>3. g = [h EXCEPT ![n] = e]
    OBVIOUS
  <1> HIDE DEF e
  <1>4. g \in Seq(Seq(S)) /\ Len(g) = Len(h)
    BY <1>2, <1>3, ExceptSeq
  <1>5. ASSUME NEW k \in 1..Len(g) PROVE 1 + Len(g[k]) <= m
    BY <1>2, <1>3, <1>4
  <1> QED BY <1>4, <1>5

\* The test of journal_modify_block_start leaves room for a header and a
\* block.
LEMMA RoomForTwo ==
  ASSUME NEW n \in Nat, n + 1 < Size - 1
  PROVE  /\ n + 1 \in 0..Size /\ n + 1 <= Size - 1
         /\ n + 2 \in 0..Size /\ n + 2 <= Size - 1
  BY ReplayAssumption

\* A longer transaction that is within the limit keeps its type.
LEMMA TxnGrowth ==
  ASSUME TypeOK, NEW u \in Uids, NEW g \in Seq(Seq(Entry)), NEW m \in NoneOrOffset,
         txn' = [txn EXCEPT ![u].hdrs = g, ![u].total = m],
         m <= Size - 1, Len(g) >= Len(txn[u].hdrs),
         \A k \in 1..Len(g) : 1 + Len(g[k]) <= m
  PROVE  TxnGrows(u)
  BY ZenonT(60), TxnTyped DEF TxnType, TxnGrows

\* A transaction one of whose blocks was killed keeps its type.
LEMMA TxnKilled ==
  ASSUME TypeOK, NEW u \in Uids, NEW g \in Seq(Seq(Entry)), NEW c \in Nat,
         txn' = [txn EXCEPT ![u].hdrs = g, ![u].killed = c],
         txn[u].total <= Size - 1, Len(g) >= Len(txn[u].hdrs),
         \A k \in 1..Len(g) : 1 + Len(g[k]) <= txn[u].total
  PROVE  TxnGrows(u)
  BY ZenonT(60), TxnTyped DEF TxnType, TxnGrows

\* A number of a range is a number of a longer one.
LEMMA RangeGrows ==
  ASSUME NEW m \in Nat, NEW n \in Nat, n >= m, NEW k \in 1..m
  PROVE  k \in 1..n
  OBVIOUS

\* A length is at least itself.
LEMMA AtLeastItself == \A n \in Nat : n >= n
  OBVIOUS

\* A number that is at least a positive one is positive.
LEMMA StaysPositive ==
  ASSUME NEW m \in Nat, NEW n \in Nat, n >= m, m >= 1
  PROVE  n >= 1 /\ n \in 1..n
  OBVIOUS

\* The two ways in which journal_modify_block enters a block: at the end of
\* the last block list, or in a new one.
ModifyLast(u, b) ==
  txn' = [txn EXCEPT ![u].hdrs[Len(txn[u].hdrs)] = Append(@, b), ![u].total = @ + 1]
ModifyNew(u, b) ==
  txn' = [txn EXCEPT ![u].hdrs = Append(@, <<b>>), ![u].total = @ + 2]

\* Both ways of writing what ModifyLast does are the same function.
LEMMA ModifyLastAs ==
  ASSUME NEW f, NEW u, NEW b, NEW h, NEW n, NEW g, NEW m,
         h = f[u].hdrs, n = f[u].total, m = n + 1,
         g = [h EXCEPT ![Len(h)] = Append(@, b)]
  PROVE  [f EXCEPT ![u].hdrs[Len(f[u].hdrs)] = Append(@, b), ![u].total = @ + 1]
           = [f EXCEPT ![u].hdrs = g, ![u].total = m]
  OBVIOUS

\* What journal_modify_block does to the transaction keeps it within the
\* limit.
LEMMA ModifyGrows ==
  ASSUME Inductive, NEW u \in Uids, txn[u].st = "open", NEW b \in Blocks,
         txn[u].total + 1 < Size - 1, ModifyLast(u, b) \/ ModifyNew(u, b)
  PROVE  TxnGrows(u)
  <1>0. TypeOK /\ TxnFits(u)
    BY ZenonT(60) DEF Inductive, TxnInv
  <1>1. PICK h \in Seq(Seq(Entry)) : h = txn[u].hdrs
    BY ZenonT(60), <1>0, TxnTyped DEF TxnType
  <1>2. PICK n \in Nat : n = txn[u].total
    <2>1. txn[u].total \in NoneOrOffset
      BY <1>0, TxnTyped DEF TxnType
    <2>2. NoneOrOffset \subseteq Nat
      BY ReplayAssumption DEF NoneOrOffset
    <2> QED
      BY ZenonT(60), <2>1, <2>2
  <1>3. Len(h) >= 1 /\ \A k \in 1..Len(h) : 1 + Len(h[k]) <= n
    BY ZenonT(60), <1>0, <1>1, <1>2 DEF TxnFits
  <1>4. b \in Entry /\ n + 1 < Size - 1
    BY ZenonT(60), <1>2 DEF Entry
  <1>5. Len(h) \in Nat /\ Len(h) \in 1..Len(h) /\ Len(h) >= Len(h)
    BY <1>3, LenProperties
  <1>6. CASE ModifyLast(u, b)
    <2>1. PICK g : g = [h EXCEPT ![Len(h)] = Append(@, b)]
      BY ZenonT(60)
    <2>2. PICK m \in NoneOrOffset : m = n + 1 /\ m <= Size - 1
      <3>1. n + 1 \in 0..Size /\ n + 1 <= Size - 1
        BY <1>4, RoomForTwo
      <3> QED
        BY <3>1 DEF NoneOrOffset
    <2>3. txn' = [txn EXCEPT ![u].hdrs = g, ![u].total = m]
      BY ZenonT(60), <1>6, <1>1, <1>2, <2>1, <2>2, ModifyLastAs DEF ModifyLast
    <2>4. /\ g \in Seq(Seq(Entry)) /\ Len(g) = Len(h)
          /\ \A k \in 1..Len(g) : 1 + Len(g[k]) <= n + 1
      BY SMTT(60), <1>3, <1>4, <1>5, <2>1, ListAppend
    <2>5. Len(g) >= Len(txn[u].hdrs)
      BY ZenonT(60), <2>4, <1>1, <1>5
    <2>6. \A k \in 1..Len(g) : 1 + Len(g[k]) <= m
      BY ZenonT(60), <2>2, <2>4
    <2> QED
      BY ZenonT(60), <1>0, <2>2, <2>3, <2>4, <2>5, <2>6, TxnGrowth
  <1>7. CASE ModifyNew(u, b)
    <2>1. PICK g : g = Append(h, <<b>>)
      BY ZenonT(60)
    <2>2. PICK m \in NoneOrOffset : m = n + 2 /\ m <= Size - 1
      <3>1. n + 2 \in 0..Size /\ n + 2 <= Size - 1
        BY <1>4, RoomForTwo
      <3> QED
        BY <3>1 DEF NoneOrOffset
    <2>3. txn' = [txn EXCEPT ![u].hdrs = g, ![u].total = m]
      BY SMTT(60), <1>7, <1>1, <1>2, <2>1, <2>2 DEF ModifyNew
    <2>4. /\ g \in Seq(Seq(Entry)) /\ Len(g) = Len(h) + 1
          /\ \A k \in 1..Len(g) : 1 + Len(g[k]) <= n + 2
      BY ZenonT(60), <1>3, <1>4, <2>1, ListAdd
    <2>5. Len(g) >= Len(txn[u].hdrs)
      <3>1. Len(h) + 1 >= Len(h)
        BY <1>5
      <3> QED
        BY ZenonT(60), <2>4, <1>1, <3>1
    <2>6. \A k \in 1..Len(g) : 1 + Len(g[k]) <= m
      BY ZenonT(60), <2>2, <2>4
    <2> QED
      BY ZenonT(60), <1>0, <2>2, <2>3, <2>4, <2>5, <2>6, TxnGrowth
  <1> QED
    BY <1>6, <1>7

\* What journal_kill_block does to the transaction keeps it within the
\* limit.
LEMMA KillGrows ==
  ASSUME Inductive, NEW u \in Uids, txn[u].st = "open", NEW e \in Live(u),
         txn' = [txn EXCEPT ![u].hdrs[e[1]][e[2]] = KILLED, ![u].killed = @ + 1]
  PROVE  TxnGrows(u)
  <1> USE DEF Inductive
  <1>1. PICK h \in Seq(Seq(Entry)) : h = txn[u].hdrs
    BY TxnTyped DEF TxnType
  <1>2. PICK k, i : k \in 1..Len(h) /\ i \in 1..Len(h[k]) /\ k = e[1] /\ i = e[2]
    BY <1>1, JournalAssumption DEF Live
  <1>3. PICK g : g = [h EXCEPT ![k][i] = KILLED]
    BY ZenonT(60)
  <1>4. PICK c \in Nat : c = txn[u].killed + 1
    BY TxnTyped DEF TxnType
  <1>5. txn' = [txn EXCEPT ![u].hdrs = g, ![u].killed = c]
    BY <1>1, <1>2, <1>3, <1>4
  <1>6. /\ txn[u].total <= Size - 1
        /\ \A j \in 1..Len(h) : 1 + Len(h[j]) <= txn[u].total
    BY <1>1 DEF TxnInv, TxnFits
  <1>7. KILLED \in Entry
    BY DEF Entry
  <1>8. /\ g \in Seq(Seq(Entry)) /\ Len(g) = Len(h)
        /\ \A j \in 1..Len(g) : 1 + Len(g[j]) <= txn[u].total
    BY SMTT(60), <1>2, <1>3, <1>6, <1>7, ListKill
  <1>9. Len(g) >= Len(txn[u].hdrs)
    BY <1>1, <1>8, LenProperties
  <1> QED
    BY ZenonT(60), <1>4, <1>5, <1>6, <1>8, <1>9, TxnKilled

\* A thread that goes to p is at p.
LEMMA ThMoves ==
  ASSUME TypeOK, NEW t \in Threads, NEW p \in Pcs, th' = [th EXCEPT ![t].pc = p]
  PROVE  ThIs(t, p, th[t].ret)
  BY ThTyped DEF ThType, ThIs

\* A thread that calls end_transaction remembers where to return.
LEMMA ThCalls ==
  ASSUME TypeOK, NEW t \in Threads, NEW p \in Pcs, NEW r \in Returns,
         th' = [th EXCEPT ![t].pc = p, ![t].ret = r]
  PROVE  ThIs(t, p, r)
  BY ZenonT(60), ThTyped DEF ThType, ThIs

\* A thread that enters journal_flush remembers what it is to wait for.
LEMMA ThFlushes ==
  ASSUME TypeOK, NEW t \in Threads, NEW p \in Pcs, NEW w \in BOOLEAN,
         th' = [th EXCEPT ![t].pc = p, ![t].wio = w]
  PROVE  ThIs(t, p, th[t].ret)
  BY ZenonT(60), ThTyped DEF ThType, ThIs

\* Noting what a flush found in flight does not move any other thread.
LEMMA ThNotes ==
  ASSUME TypeOK, NEW t \in Threads, NEW p \in Pcs, NEW n \in NoneOrUid,
         th' = [th EXCEPT ![t].upto = n, ![t].pc = p]
  PROVE  ThIs(t, p, th[t].ret)
  BY ZenonT(60), ThTyped DEF ThType, ThIs

\* Noting what a flush found does not move any other thread.
LEMMA ThNotesHollow ==
  ASSUME TypeOK, NEW t \in Threads, NEW p \in Pcs, NEW n \in NoneOrUid, NEW w \in BOOLEAN,
         th' = [th EXCEPT ![t].upto = n, ![t].hollow = w, ![t].pc = p]
  PROVE  ThIs(t, p, th[t].ret)
  BY ZenonT(60), ThTyped DEF ThType, ThIs

\* journal_request_immediate_flush changes nothing of a transaction but the
\* flag.
LEMMA TxnForced ==
  ASSUME TypeOK, NEW u \in Uids, txn' = [txn EXCEPT ![u].force = TRUE]
  PROVE  TxnIs(u, txn[u].st, txn[u].js, txn[u].je)
  BY ZenonT(60), TxnTyped DEF TxnType, TxnIs

\* A transaction changes its state and nothing else.
LEMMA TxnMoves ==
  ASSUME TypeOK, NEW u \in Uids, NEW s \in {"open", "flight", "committed", "home", "aborted"},
         txn' = [txn EXCEPT ![u].st = s]
  PROVE  TxnIs(u, s, txn[u].js, txn[u].je)
  BY ZenonT(60), TxnTyped DEF TxnType, TxnIs

\* end_transaction gives the transaction its start in the ring and hands it
\* over.
LEMMA TxnPlaced ==
  ASSUME TypeOK, NEW u \in Uids, NEW p \in NoneOrOffset,
         txn' = [txn EXCEPT ![u].js = p, ![u].st = "flight"]
  PROVE  TxnIs(u, "flight", p, txn[u].je)
  BY ZenonT(60), TxnTyped DEF TxnType, TxnIs

\* finish_end_transaction gives the transaction its end in the ring once the
\* header is out.
LEMMA TxnCommits ==
  ASSUME TypeOK, NEW u \in Uids, NEW p \in NoneOrOffset,
         txn' = [txn EXCEPT ![u].je = p, ![u].st = "committed"]
  PROVE  TxnIs(u, "committed", txn[u].js, p)
  BY ZenonT(60), TxnTyped DEF TxnType, TxnIs

\* The end of the transaction is noted and nothing else.
LEMMA TxnEnds ==
  ASSUME TypeOK, NEW u \in Uids, NEW p \in NoneOrOffset, txn' = [txn EXCEPT ![u].je = p]
  PROVE  TxnIs(u, txn[u].st, txn[u].js, p)
  BY ZenonT(60), TxnTyped DEF TxnType, TxnIs

\* Thread t is at a place of the same kind as before.
ThreadKeeps(t) ==
  /\ Flushing(t)' <=> Flushing(t)
  /\ th'[t].pc \in EtPcs <=> th[t].pc \in EtPcs
  /\ th'[t].pc \in RunPcs <=> th[t].pc \in RunPcs
  /\ th'[t].pc \in HeldPcs <=> th[t].pc \in HeldPcs
  /\ th'[t].pc \in ClosePcs <=> th[t].pc \in ClosePcs
  /\ th'[t].pc = "sync" <=> th[t].pc = "sync"
  /\ th[t].pc \in EtPcs \cup {"sync"} => th'[t].ret = th[t].ret

\* The fields of the journal that the invariants read are as they were.
JnlKeeps ==
  /\ jnl'.owner = jnl.owner /\ jnl'.active_tr = jnl.active_tr /\ jnl'.cur_tr = jnl.cur_tr
  /\ jnl'.flushing = jnl.flushing /\ jnl'.flush_aborted = jnl.flush_aborted

\* The frame of end_transaction is as it was.
EtKeeps == et'.tr = et.tr /\ et'.drop = et.drop /\ et'.wait = et.wait

\* finish_end_transaction is on the same transaction and before its header
\* write.
FinKeeps ==
  /\ fin'.tr = fin.tr /\ fin'.k = fin.k /\ fin'.by = fin.by
  /\ \/ fin'.pc = fin.pc
     \/ fin.pc \in {"wait", "write"} /\ fin'.pc \in {"wait", "write", "bad"}

\* No home write was added.
IoKeeps ==
  /\ io' = io \/ (io'.tr = 0 /\ io'.pending = {})
  /\ (cb'.s = 0) <=> (cb'.e = 0)

\* No transaction changed in a way the invariants see.
TxnKeeps ==
  \A u \in Uids : /\ txn'[u].st = txn[u].st /\ txn'[u].js = txn[u].js /\ txn'[u].je = txn[u].je
                  /\ txn'[u].hdrs = txn[u].hdrs /\ txn'[u].total = txn[u].total

\* A step that changes nothing the invariants read keeps them.
LEMMA QuietStep ==
  ASSUME Inductive, TypeOK', up = "up", UNCHANGED <<up, ntr, log, home, rp>>,
         \A t \in Threads : ThreadKeeps(t),
         JnlKeeps, EtKeeps, FinKeeps, IoKeeps, TxnKeeps
  PROVE  Inductive'
  <1> USE DEF Inductive
  <1>1. OneFlusher'
    BY DEF OneFlusher, ThreadKeeps, JnlKeeps, FinKeeps, FlushPcs
  <1>2. LockInv'
    BY SMTT(60) DEF LockInv, ThreadKeeps, JnlKeeps, EtKeeps, FinKeeps
  <1>3. RunPtr' /\ EtPtr' /\ CurPtr'
    <2>1. RunPtr'
      BY ZenonT(60) DEF RunPtr, ThreadKeeps, JnlKeeps, TxnKeeps
    <2>2. EtPtr'
      BY ZenonT(60) DEF EtPtr, ThreadKeeps, EtKeeps, JnlKeeps, TxnKeeps
    <2>3. CurPtr'
      BY ZenonT(60), CurUid DEF CurPtr, ThreadKeeps, JnlKeeps, EtKeeps, TxnKeeps
    <2> QED
      BY <2>1, <2>2, <2>3
  <1>4. FinPtr'
    BY DEF FinPtr, FinKeeps, TxnKeeps
  <1>5. IoPtr'
    BY IoUid DEF IoPtr, IoKeeps, TxnKeeps
  <1>6. DownInv'
    BY DEF DownInv
  <1>7. TxnInv'
    BY ZenonT(60) DEF TxnInv, TxnFits, TxnKeeps
  <1>8. DiskInv'
    BY LogUid DEF DiskInv, TxnKeeps
  <1>9. WriteAhead'
    BY DEF WriteAhead, TxnKeeps
  <1> QED
    BY <1>1, <1>2, <1>3, <1>4, <1>5, <1>6, <1>7, <1>8, <1>9

\* p and q are places where the same locks and pointers are held.
SameKind(p, q) ==
  /\ p \in SpacePcs <=> q \in SpacePcs
  /\ p \in EtPcs <=> q \in EtPcs
  /\ p \in RunPcs <=> q \in RunPcs
  /\ p \in HeldPcs <=> q \in HeldPcs
  /\ p \in ClosePcs <=> q \in ClosePcs
  /\ p = "sync" <=> q = "sync"

\* A thread that goes to a place of the same kind keeps what the invariants
\* read.
LEMMA KindKept ==
  ASSUME NEW t \in Threads, NEW p, NEW r, ThIs(t, p, r), SameKind(th[t].pc, p),
         th[t].pc \in EtPcs \cup {"sync"} => r = th[t].ret
  PROVE  \A s \in Threads : ThreadKeeps(s)
  <1>1. ThreadKeeps(t)
    BY DEF ThIs, SameKind, ThreadKeeps, Flushing
  <1>2. ASSUME NEW s \in Threads, s # t PROVE ThreadKeeps(s)
    BY <1>2 DEF ThIs, ThreadKeeps, Flushing
  <1> QED
    BY <1>1, <1>2

\* A thread that only goes to a place of the same kind keeps the invariants.
LEMMA ThreadStep ==
  ASSUME Inductive, up = "up", NEW t \in Threads, NEW p, NEW r,
         ThIs(t, p, r), SameKind(th[t].pc, p),
         th[t].pc \in EtPcs \cup {"sync"} => r = th[t].ret,
         UNCHANGED <<up, jnl, ring, et, fin, io, cb, ntr, want, maybe, used, txn,
                     log, dhdr, home, rp, rerrs>>
  PROVE  Inductive'
  <1> USE DEF Inductive
  <1>1. TypeOK'
    BY ZenonT(60) DEF TypeOK, ReplayTypeOK, ThIs
  <1>2. JnlKeeps /\ EtKeeps /\ FinKeeps /\ TxnKeeps
    BY ZenonT(60) DEF JnlKeeps, EtKeeps, FinKeeps, TxnKeeps
  <1>3. IoKeeps
    BY ZenonT(60) DEF IoKeeps, IoPtr
  <1>4. \A s \in Threads : ThreadKeeps(s)
    BY ZenonT(60), KindKept
  <1> QED
    BY ZenonT(60), <1>1, <1>2, <1>3, <1>4, QuietStep

\* The moves between places of the same kind.
LEMMA Kinds ==
  /\ SameKind("idle", "st_lock") /\ SameKind("idle", "jf_lock") /\ SameKind("run", "jo_wait")
  /\ SameKind("jo_wait", "jo_aio") /\ SameKind("jo_wait", "run") /\ SameKind("jo_aio", "run")
  /\ SameKind("jf_lock", "jf_wait")
  /\ SameKind("jf_flushing", "jf_async") /\ SameKind("jf_async", "jf_end")
  /\ SameKind("jf_wait", "jf_aio") /\ SameKind("jf_wait", "jf_ret")
  /\ SameKind("jf_aio", "jf_ret") /\ SameKind("jf_ret", "idle")
  /\ SameKind("cl_flushing", "cl_drain") /\ SameKind("cl_drain", "cl_async")
  /\ SameKind("cl_flushing", "cl_async") /\ SameKind("cl_async", "cl_free")
  /\ \A p, q \in SpacePcs : SameKind(p, q)
  BY DEF SameKind, SpacePcs, EtPcs, RunPcs, HeldPcs, ClosePcs

\* A step that moves no thread keeps every thread where it was.
LEMMA AllKeep ==
  ASSUME UNCHANGED th
  PROVE  \A s \in Threads : ThreadKeeps(s)
  BY DEF ThreadKeeps, Flushing

\* A step that leaves the home writes and the callback alone keeps what is
\* known of them.
LEMMA IoKept == ASSUME IoPtr, UNCHANGED <<io, cb>> PROVE IoKeeps
  BY DEF IoKeeps, IoPtr

\* What the disk holds is numbered.
LEMMA DiskNumbers ==
  ASSUME TypeOK
  PROVE  /\ \A c \in Cells : log[c].uid \in Nat
         /\ \A b \in Blocks : home[b] \in Nat /\ rp.buf[b] \in Nat
  <1>1. NoneOrUid \subseteq Nat /\ Contents \subseteq Nat
    BY ReplayAssumption DEF NoneOrUid, Contents, TORN
  <1>2. \A c \in Cells : log[c].uid \in NoneOrUid
    BY LogTyped DEF CellType
  <1>3. \A b \in Blocks : home[b] \in Contents /\ rp.buf[b] \in NoneOrUid
    BY RpTyped DEF TypeOK, ReplayTypeOK, RpType
  <1> QED
    BY ZenonT(60), <1>1, <1>2, <1>3

\* What DiskInv says of one cell.
LEMMA CellInv ==
  ASSUME DiskInv, NEW c \in Cells
  PROVE  /\ log[c].uid <= ntr
         /\ log[c].uid # 0 => log[c].k \in 1..Len(txn[log[c].uid].hdrs)
  BY DEF DiskInv

\* The type of the counters that bound the faults.
UsedType == [kill : Nat, err : Nat, homeerr : Nat, crash : Nat, close : Nat]

\* A count of the faults taken stays one when another block is killed.
LEMMA KillCounted ==
  ASSUME used \in UsedType, used' = [used EXCEPT !.kill = @ + 1]
  PROVE  used' \in UsedType
  BY DEF UsedType

\* A part of the blocks of a write is a set of numbers.
LEMMA SomeBlocks == \A n \in Nat : \A J \in SUBSET (0..n) : J \in SUBSET Nat
  OBVIOUS

\* A journal write changes cells of the ring to blocks of the block list
\* that is written and no other.
LEMMA LogAfterTyped ==
  ASSUME TypeOK, NEW u \in NoneOrUid, NEW k \in Nat, NEW p \in Offsets, NEW J \in SUBSET Nat,
         log' = LogAfter(u, k, p, J)
  PROVE  /\ log' \in [Cells -> CellType]
         /\ \A c \in Cells : log'[c] = log[c] \/ (log'[c].uid = u /\ log'[c].k = k)
  <1>1. ASSUME NEW c \in Cells, \E j \in J : CellAt(p, j) = c
        PROVE  (CHOOSE j \in J : CellAt(p, j) = c) \in Nat
    BY ZenonT(60), <1>1
  <1>2. ASSUME NEW c \in Cells
        PROVE  log'[c] \in CellType /\ (log'[c] = log[c] \/ (log'[c].uid = u /\ log'[c].k = k))
    <2>1. CASE \E j \in J : CellAt(p, j) = c
      <3>1. PICK i \in Nat : i = CHOOSE j \in J : CellAt(p, j) = c
        BY <2>1, <1>1
      <3>2. log'[c] = [uid |-> u, k |-> k, i |-> i]
        BY <2>1, <3>1 DEF LogAfter
      <3> QED
        BY <3>2 DEF CellType
    <2>2. CASE ~\E j \in J : CellAt(p, j) = c
      <3>1. log'[c] = log[c]
        BY <2>2 DEF LogAfter
      <3> QED
        BY <3>1, LogTyped
    <2> QED
      BY <2>1, <2>2
  <1>3. log' = [c \in Cells |-> log'[c]]
    BY ZenonT(60) DEF LogAfter
  <1> QED
    BY <1>2, <1>3

\* The transaction in finish_end_transaction is in flight and no one else
\* has a pointer to it.
LEMMA FinTxn ==
  ASSUME Inductive, fin.pc \in {"wait", "write", "header", "bad"}
  PROVE  /\ fin.tr \in Uids /\ fin.tr \in NoneOrUid /\ txn[fin.tr].st = "flight"
         /\ fin.tr <= ntr
         /\ \A t \in Threads : th[t].pc \in RunPcs => jnl.active_tr # fin.tr
         /\ \A t \in Threads : th[t].pc \in HeldPcs \ RunPcs => et.tr # fin.tr
         /\ jnl.cur_tr # fin.tr /\ io.tr # fin.tr
         /\ \A t \in Threads : ~Flushing(t)
  <1> USE DEF Inductive
  <1>1. fin.tr \in Uids /\ fin.tr \in NoneOrUid /\ txn[fin.tr].st = "flight"
    BY NullPtr DEF FinPtr
  <1>2. fin.tr # 0
    BY <1>1 DEF Uids
  <1>3. ~(fin.tr > ntr)
    BY <1>1 DEF TxnInv, TxnFits
  <1>4. fin.tr <= ntr
    BY <1>1, <1>3, NtrNat DEF Uids
  <1>5. \A t \in Threads : ~Flushing(t)
    BY DEF OneFlusher
  <1> QED
    BY ZenonT(60), <1>1, <1>2, <1>4, <1>5 DEF RunPtr, EtPtr, CurPtr, IoPtr

\* The block list that finish_end_transaction writes exists and fits the
\* ring.
LEMMA FinList ==
  ASSUME Inductive, fin.pc = "write"
  PROVE  /\ Len(txn[fin.tr].hdrs[fin.k]) \in Nat
         /\ Len(txn[fin.tr].hdrs[fin.k]) + 1 <= Size - 1
         /\ fin.k \in 1..Len(txn[fin.tr].hdrs)
         /\ Len(txn[fin.tr].hdrs) \in Nat /\ fin.k \in Nat \ {0}
  <1> USE DEF Inductive
  <1>1. PICK u \in Uids : u = fin.tr
    BY FinTxn
  <1>2. PICK h \in Seq(Seq(Entry)) : h = txn[u].hdrs
    BY TxnTyped DEF TxnType
  <1>3. PICK k \in Nat \ {0} : k = fin.k
    BY FinTyped DEF FinType
  <1>4. k <= Len(h) /\ Len(h) \in Nat
    BY <1>1, <1>2, <1>3, LenProperties DEF FinPtr
  <1>5. k \in 1..Len(h)
    BY <1>4
  <1>6. h[k] \in Seq(Entry)
    BY <1>5, ElementOfSeq
  <1>7. Len(h[k]) \in Nat
    BY <1>6, LenProperties
  <1>8. PICK m \in Nat : m = txn[u].total
    <2>1. txn[u].total \in NoneOrOffset
      BY TxnTyped DEF TxnType
    <2> QED
      BY <2>1, ReplayAssumption DEF NoneOrOffset
  <1>9. 1 + Len(h[k]) <= m /\ m <= Size - 1
    BY ZenonT(60), <1>1, <1>2, <1>5, <1>8 DEF TxnInv, TxnFits
  <1>10. Len(h[k]) + 1 <= Size - 1
    BY SMTT(60), <1>7, <1>8, <1>9, ReplayAssumption
  <1> QED
    BY ZenonT(60), <1>1, <1>2, <1>3, <1>4, <1>5, <1>7, <1>10

\* The idle frames have their types.
LEMMA NoIoTyped == NoIO \in IoType /\ NoFin \in FinType /\ NoCb \in CbType
  BY NullPtr, OffsetRange DEF NoIO, IoType, NoFin, FinType, NoCb, CbType
=============================================================================
