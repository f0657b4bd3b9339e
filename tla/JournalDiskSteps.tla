-------------------------- MODULE JournalDiskSteps --------------------------
(***************************************************************************)
(* The steps of finish_end_transaction, of write_header_thread and of the  *)
(* completions of home writes keep the inductive invariant.                *)
(***************************************************************************)
EXTENDS JournalFacts

\* write_header_thread keeps the invariants.
LEMMA WriteHeaderStep ==
  ASSUME Inductive, write_header_thread
  PROVE  Inductive'
  <1> USE DEF Inductive
  <1>1. /\ up = "up"
        /\ UNCHANGED <<up, ring, et, th, fin, io, cb, ntr, want, maybe, txn, log, home, rp, rerrs>>
    BY DEF write_header_thread
  <1>2. \/ jnl' = [jnl EXCEPT !.write_header_failed = FALSE, !.writing_header = FALSE]
        \/ jnl' = [jnl EXCEPT !.write_header_failed = TRUE, !.writing_header = FALSE,
                              !.invalid = TRUE]
    BY DEF write_header_thread
  <1>3. jnl' \in JnlType /\ JnlKeeps
    BY ZenonT(60), <1>2, JnlTyped DEF JnlType, JnlKeeps
  <1>4. dhdr' \in [start : Offsets, end : Offsets, seq : Nat]
    BY RingFields, JnlFields, DhdrTyped DEF write_header_thread, HeaderInCore
  <1>5. used' \in [kill : Nat, err : Nat, homeerr : Nat, crash : Nat, close : Nat]
    BY DEF write_header_thread, IOError, TypeOK
  <1>6. TypeOK'
    BY <1>1, <1>3, <1>4, <1>5 DEF TypeOK, ReplayTypeOK
  <1>7. EtKeeps /\ FinKeeps /\ TxnKeeps
    BY <1>1 DEF EtKeeps, FinKeeps, TxnKeeps
  <1> QED
    BY ZenonT(60), <1>1, <1>3, <1>6, <1>7, AllKeep, IoKept, QuietStep

\* A failure of VOP_BMAP in finish_end_transaction keeps the invariants.
LEMMA FinBmapErrorStep ==
  ASSUME Inductive, FinBmapError
  PROVE  Inductive'
  <1> USE DEF Inductive
  <1>1. /\ up = "up" /\ fin.pc = "wait" /\ fin' = [fin EXCEPT !.pc = "bad"]
        /\ UNCHANGED <<up, jnl, ring, et, th, io, cb, ntr, want, maybe, txn,
                       log, dhdr, home, rp, rerrs>>
    BY DEF FinBmapError, FinAt, diskVars
  <1>2. fin' \in FinType /\ FinKeeps
    BY <1>1, FinTyped DEF FinType, FinKeeps
  <1>3. used' \in [kill : Nat, err : Nat, homeerr : Nat, crash : Nat, close : Nat]
    BY DEF FinBmapError, IOError, TypeOK
  <1>4. TypeOK'
    BY ZenonT(60), <1>1, <1>2, <1>3 DEF TypeOK, ReplayTypeOK
  <1>5. JnlKeeps /\ EtKeeps /\ TxnKeeps
    BY <1>1 DEF JnlKeeps, EtKeeps, TxnKeeps
  <1> QED
    BY ZenonT(60), <1>1, <1>2, <1>4, <1>5, AllKeep, IoKept, QuietStep

\* The wait for write_header_thread keeps the invariants.
LEMMA FinWaitStep ==
  ASSUME Inductive, FinWait
  PROVE  Inductive'
  <1> USE DEF Inductive
  <1>1. /\ up = "up" /\ fin.pc = "wait"
        /\ fin' = [fin EXCEPT !.pc = "bad"] \/ fin' = [fin EXCEPT !.pc = "write"]
        /\ UNCHANGED <<up, jnl, ring, et, th, io, cb, ntr, want, maybe, used, txn,
                       log, dhdr, home, rp, rerrs>>
    BY DEF FinWait, FinAt, diskVars
  <1>2. fin' \in FinType /\ FinKeeps
    BY <1>1, FinTyped DEF FinType, FinKeeps
  <1>4. TypeOK'
    BY <1>1, <1>2 DEF TypeOK, ReplayTypeOK
  <1>5. JnlKeeps /\ EtKeeps /\ TxnKeeps
    BY <1>1 DEF JnlKeeps, EtKeeps, TxnKeeps
  <1> QED
    BY ZenonT(60), <1>1, <1>2, <1>4, <1>5, AllKeep, IoKept, QuietStep

\* An entry of completed_trs.
CompletedType == [s : Offsets, e : Offsets]

\* A sequence without one element is a sequence over the same set.
LEMMA CutSeq ==
  ASSUME NEW S, NEW L \in Seq(S), NEW i \in 1..Len(L)
  PROVE  Without(L, i) \in Seq(S)
  <1>1. SubSeq(L, 1, i - 1) \in Seq(S)
    BY SubSeqProperties
  <1>2. SubSeq(L, i + 1, Len(L)) \in Seq(S)
    BY SubSeqProperties
  <1> QED
    BY <1>1, <1>2, ConcatProperties DEF Without

\* A sequence with an element put in is a sequence over the same set.
LEMMA JoinSeq ==
  ASSUME NEW S, NEW L \in Seq(S), NEW n \in 0..Len(L), NEW x \in S
  PROVE  SubSeq(L, 1, n) \o <<x>> \o SubSeq(L, n + 1, Len(L)) \in Seq(S)
  <1>1. SubSeq(L, 1, n) \in Seq(S)
    BY SubSeqProperties
  <1>2. SubSeq(L, n + 1, Len(L)) \in Seq(S)
    BY SubSeqProperties
  <1>3. <<x>> \in Seq(S)
    OBVIOUS
  <1>4. SubSeq(L, 1, n) \o <<x>> \in Seq(S)
    BY <1>1, <1>3, ConcatProperties
  <1> QED
    BY <1>2, <1>4, ConcatProperties

\* A new active_start and a new list of completed transactions keep the type
\* of the ring.
LEMMA RingLists ==
  ASSUME TypeOK, NEW L \in Seq(CompletedType), NEW a \in Offsets,
         ring' = [ring EXCEPT !.active_start = a, !.completed_trs = L]
  PROVE  ring' \in RingType
  BY ZenonT(60), RingTyped DEF RingType, CompletedType

\* A new list of completed transactions keeps the type of the ring.
LEMMA RingList ==
  ASSUME TypeOK, NEW L \in Seq(CompletedType), ring' = [ring EXCEPT !.completed_trs = L]
  PROVE  ring' \in RingType
  BY RingTyped DEF RingType, CompletedType

\* An entry of completed_trs has offsets at both ends.
LEMMA Element ==
  ASSUME NEW L \in Seq(CompletedType), NEW i \in 1..Len(L)
  PROVE  L[i] \in CompletedType /\ L[i].s \in Offsets /\ L[i].e \in Offsets
  <1>1. L[i] \in CompletedType
    BY ElementOfSeq
  <1> QED
    BY <1>1 DEF CompletedType

\* A turn of the coalescing loop of buffer_flushed_callback keeps the
\* invariants.
LEMMA CallbackWalkStep ==
  ASSUME Inductive, CallbackWalk
  PROVE  Inductive'
  <1> USE DEF Inductive
  <1>1. /\ up = "up" /\ cb.i <= Len(ring.completed_trs)
        /\ UNCHANGED <<up, jnl, et, th, fin, io, ntr, want, maybe, used, txn,
                       log, dhdr, home, rp, rerrs>>
    BY DEF CallbackWalk, diskVars
  <1>2. PICK L \in Seq(CompletedType) : L = ring.completed_trs
    BY RingTyped DEF RingType, CompletedType
  <1>3. PICK i \in 1..Len(L) : i = cb.i
    BY <1>1, <1>2, CbTyped DEF CbType
  <1>4. L[i] \in CompletedType /\ L[i].s \in Offsets /\ L[i].e \in Offsets
    BY <1>2, <1>3, Element
  <1>5. cb' \in CbType /\ ((cb'.s = 0) <=> (cb'.e = 0))
    <2>1. cb' \in {[cb EXCEPT !.i = 1], [cb EXCEPT !.i = @ + 1],
                   [[cb EXCEPT !.s = 0, !.e = 0] EXCEPT !.i = 1],
                   [[cb EXCEPT !.s = 0, !.e = 0] EXCEPT !.i = @ + 1]}
      BY DEF CallbackWalk
    <2>2. (cb.s = 0) <=> (cb.e = 0)
      BY DEF IoPtr
    <2>3. cb.i + 1 \in Nat \ {0} /\ 1 \in Nat \ {0}
      BY CbTyped DEF CbType
    <2>4. 0 \in NoneOrOffset
      BY OffsetRange
    <2> QED
      BY ZenonT(60), <2>1, <2>2, <2>3, <2>4, CbTyped DEF CbType
  <1>6. ring' \in RingType
    <2>1. CASE L[i].s = ring.active_start
      <3>1. ring' = [ring EXCEPT !.active_start = L[i].e, !.completed_trs = Without(L, i)]
        BY <2>1, <1>2, <1>3 DEF CallbackWalk
      <3> QED
        BY ZenonT(60), <3>1, <1>4, CutSeq, RingLists
    <2>2. CASE L[i].s # ring.active_start /\ cb.e = L[i].s
      <3>1. PICK M : M = [L EXCEPT ![i].s = cb.s]
        BY ZenonT(60)
      <3>2. cb.e # 0
        BY <2>2, <1>4, ReplayAssumption DEF Offsets
      <3>3. cb.s \in Offsets
        BY <3>2, CbTyped, OffsetRange DEF CbType, IoPtr
      <3>4. M \in Seq(CompletedType)
        BY <3>1, <3>3, <1>4, ExceptSeq DEF CompletedType
      <3>5. ring' = [ring EXCEPT !.completed_trs = M]
        BY ZenonT(60), <2>2, <1>2, <1>3, <3>1 DEF CallbackWalk
      <3> QED
        BY <3>4, <3>5, RingList
    <2>3. CASE L[i].s # ring.active_start /\ cb.e # L[i].s /\ cb.s = L[i].e
      <3>1. PICK M : M = [L EXCEPT ![i].e = cb.e]
        BY ZenonT(60)
      <3>2. cb.s # 0
        BY <2>3, <1>4, ReplayAssumption DEF Offsets
      <3>3. cb.e \in Offsets
        BY <3>2, CbTyped, OffsetRange DEF CbType, IoPtr
      <3>4. M \in Seq(CompletedType)
        BY ZenonT(60), <3>1, <3>3, <1>4, ExceptSeq DEF CompletedType
      <3>5. ring' = [ring EXCEPT !.completed_trs = M]
        BY ZenonT(60), <2>3, <1>2, <1>3, <3>1 DEF CallbackWalk
      <3> QED
        BY <3>4, <3>5, RingList
    <2>4. CASE L[i].s # ring.active_start /\ cb.e # L[i].s /\ cb.s # L[i].e
      <3>1. CASE i < Len(L) /\ L[i].e = L[i + 1].s
        <4>1. PICK M : M = [L EXCEPT ![i].e = L[i + 1].e]
          BY ZenonT(60)
        <4>2. i + 1 \in 1..Len(L) /\ L[i + 1].e \in Offsets
          BY <3>1, <1>2, <1>3, Element
        <4>3. M \in Seq(CompletedType) /\ Len(M) = Len(L)
          BY <4>1, <4>2, <1>4, ExceptSeq DEF CompletedType
        <4>4. ring' = [ring EXCEPT !.completed_trs = Without(M, i + 1)]
          BY ZenonT(60), <2>4, <3>1, <1>2, <1>3, <4>1 DEF CallbackWalk
        <4>5. Without(M, i + 1) \in Seq(CompletedType)
          BY ZenonT(60), <4>2, <4>3, CutSeq
        <4> QED
          BY <4>4, <4>5, RingList
      <3>2. CASE ~(i < Len(L) /\ L[i].e = L[i + 1].s)
        <4>1. ring' = ring
          BY ZenonT(60), <2>4, <3>2, <1>2, <1>3 DEF CallbackWalk
        <4> QED
          BY ZenonT(60), <4>1, RingTyped
      <3> QED
        BY <3>1, <3>2
    <2> QED
      BY ZenonT(60), <2>1, <2>2, <2>3, <2>4
  <1>7. TypeOK'
    BY ZenonT(60), <1>1, <1>5, <1>6 DEF TypeOK, ReplayTypeOK
  <1>8. JnlKeeps /\ EtKeeps /\ FinKeeps /\ TxnKeeps /\ IoKeeps
    BY <1>1, <1>5 DEF JnlKeeps, EtKeeps, FinKeeps, TxnKeeps, IoKeeps
  <1> QED
    BY ZenonT(60), <1>1, <1>7, <1>8, AllKeep, QuietStep

\* The insertion at the end of buffer_flushed_callback keeps the invariants.
LEMMA CallbackEndStep ==
  ASSUME Inductive, CallbackEnd
  PROVE  Inductive'
  <1> USE DEF Inductive
  <1>1. /\ up = "up" /\ io' = NoIO /\ cb' = NoCb /\ jnl' = [jnl EXCEPT !.asyncIO = FALSE]
        /\ UNCHANGED <<up, et, th, fin, ntr, want, maybe, used, txn,
                       log, dhdr, home, rp, rerrs>>
    BY DEF CallbackEnd, diskVars
  <1>2. PICK L \in Seq(CompletedType) : L = ring.completed_trs
    BY RingTyped DEF RingType, CompletedType
  <1>3. io' \in IoType /\ cb' \in CbType /\ IoKeeps
    BY SMTT(60), <1>1, NullPtr, OffsetRange DEF NoIO, NoCb, IoType, CbType, IoKeeps
  <1>4. jnl' \in JnlType /\ JnlKeeps
    BY ZenonT(60), <1>1, JnlTyped DEF JnlType, JnlKeeps
  <1>5. ring' \in RingType
    <2>1. CASE cb.s = 0
      BY <2>1, RingTyped DEF CallbackEnd
    <2>2. CASE cb.s # 0
      <3>1. PICK n \in 0..Len(L) :
              ring' = [ring EXCEPT !.completed_trs =
                         SubSeq(L, 1, n) \o <<[s |-> cb.s, e |-> cb.e]>> \o SubSeq(L, n + 1, Len(L))]
        BY ZenonT(60), <2>2, <1>2 DEF CallbackEnd
      <3>2. cb.s \in Offsets /\ cb.e \in Offsets
        BY <2>2, CbTyped, OffsetRange DEF CbType, IoPtr
      <3>3. PICK x \in CompletedType : x = [s |-> cb.s, e |-> cb.e]
        BY ZenonT(60), <3>2 DEF CompletedType
      <3>4. PICK M \in Seq(CompletedType) : M = SubSeq(L, 1, n) \o <<x>> \o SubSeq(L, n + 1, Len(L))
        BY ZenonT(60), JoinSeq
      <3>5. ring' = [ring EXCEPT !.completed_trs = M]
        BY <3>1, <3>3, <3>4
      <3> QED
        BY ZenonT(60), <3>5, RingList
    <2> QED
      BY <2>1, <2>2
  <1>6. TypeOK'
    BY ZenonT(60), <1>1, <1>3, <1>4, <1>5 DEF TypeOK, ReplayTypeOK
  <1>7. EtKeeps /\ FinKeeps /\ TxnKeeps
    BY <1>1 DEF EtKeeps, FinKeeps, TxnKeeps
  <1> QED
    BY ZenonT(60), <1>1, <1>3, <1>4, <1>6, <1>7, AllKeep, QuietStep

\* Writing a block list leaves the offset within the ring.
LEMMA AdvanceRange ==
  ASSUME NEW p \in Offsets, NEW n \in Nat, n + 1 <= Size - 1
  PROVE  Advance(p, n + 1) \in Offsets
  BY ReplayAssumption DEF Offsets, Advance, Wrap

\* The journal write of one block list keeps the invariants.
LEMMA FinWriteStep ==
  ASSUME Inductive, FinWrite
  PROVE  Inductive'
  <1> USE DEF Inductive
  <1>1. /\ up = "up" /\ fin.pc = "write"
        /\ UNCHANGED <<up, jnl, ring, et, th, io, cb, ntr, want, maybe, txn, dhdr, home, rp, rerrs>>
    BY DEF FinWrite, FinAt
  <1>2. /\ fin.tr \in Uids /\ fin.tr \in NoneOrUid /\ txn[fin.tr].st = "flight" /\ fin.tr <= ntr
        /\ \A t \in Threads : ~Flushing(t)
    BY <1>1, FinTxn
  <1>3. PICK n \in Nat : n = Len(txn[fin.tr].hdrs[fin.k]) /\ n + 1 <= Size - 1
    BY <1>1, FinList
  <1>4. /\ fin.k \in 1..Len(txn[fin.tr].hdrs)
        /\ Len(txn[fin.tr].hdrs) \in Nat /\ fin.k \in Nat \ {0} /\ fin.k \in Nat
    BY ZenonT(60), <1>1, FinList
  <1>5. PICK J \in SUBSET (0..n) : log' = LogAfter(fin.tr, fin.k, fin.pos, J)
    BY ZenonT(60), <1>3 DEF FinWrite
  <1>6. /\ log' \in [Cells -> CellType]
        /\ \A c \in Cells : log'[c] = log[c] \/ (log'[c].uid = fin.tr /\ log'[c].k = fin.k)
    <2>1. J \in SUBSET Nat
      BY SomeBlocks
    <2>2. PICK u \in NoneOrUid : u = fin.tr
      BY <1>2
    <2>3. PICK k \in Nat : k = fin.k
      BY <1>4
    <2>4. PICK p \in Offsets : p = fin.pos
      BY FinTyped DEF FinType
    <2>5. log' = LogAfter(u, k, p, J)
      BY ZenonT(60), <1>5, <2>2, <2>3, <2>4
    <2>6. /\ log' \in [Cells -> CellType]
          /\ \A c \in Cells : log'[c] = log[c] \/ (log'[c].uid = u /\ log'[c].k = k)
      BY ZenonT(60), <2>1, <2>5, LogAfterTyped
    <2> QED
      BY <2>2, <2>3, <2>6
  <1>7. used' \in UsedType
    BY SMTT(60) DEF FinWrite, IOError, TypeOK, UsedType
  <1>8. /\ fin' \in FinType /\ fin'.pc \in {"bad", "wait", "header"}
        /\ fin'.tr = fin.tr /\ fin'.by = fin.by
        /\ fin'.pc = "wait" => fin'.k <= Len(txn[fin.tr].hdrs)
    <2>1. CASE fin' = [fin EXCEPT !.pc = "bad"]
      BY <2>1, FinTyped DEF FinType
    <2>2. CASE fin' = [fin EXCEPT !.pos = Advance(@, n + 1),
                         !.k = IF @ < Len(txn[fin.tr].hdrs) THEN @ + 1 ELSE @,
                         !.pc = IF fin.k < Len(txn[fin.tr].hdrs) THEN "wait" ELSE "header"]
      <3>1. PICK q \in Offsets : q = Advance(fin.pos, n + 1)
        BY <1>3, AdvanceRange, FinTyped DEF FinType
      <3>2. CASE fin.k < Len(txn[fin.tr].hdrs)
        <4>1. PICK k \in Nat \ {0} : k = fin.k + 1 /\ k <= Len(txn[fin.tr].hdrs)
          BY <3>2, <1>4
        <4>2. fin' = [fin EXCEPT !.pos = q, !.k = k, !.pc = "wait"]
          BY <2>2, <3>1, <3>2, <4>1
        <4> QED
          BY ZenonT(60), <4>1, <4>2, <3>1, FinTyped DEF FinType
      <3>3. CASE ~(fin.k < Len(txn[fin.tr].hdrs))
        <4>1. fin' = [fin EXCEPT !.pos = q, !.k = fin.k, !.pc = "header"]
          BY <2>2, <3>1, <3>3
        <4> QED
          BY ZenonT(60), <4>1, <3>1, FinTyped DEF FinType
      <3> QED
        BY <3>2, <3>3
    <2> QED
      BY <2>1, <2>2, <1>3 DEF FinWrite
  <1>9. TypeOK'
    BY ZenonT(60), <1>1, <1>6, <1>7, <1>8 DEF TypeOK, ReplayTypeOK, UsedType
  <1>10. OneFlusher'
    BY <1>1, <1>2, <1>8 DEF OneFlusher, Flushing, FlushPcs
  <1>11. LockInv'
    BY <1>1, <1>8 DEF LockInv
  <1>12. FinPtr'
    BY ZenonT(60), <1>1, <1>2, <1>8 DEF FinPtr
  <1>13. DiskInv'
    <2>1. ASSUME NEW c \in Cells
          PROVE  log'[c].uid <= ntr /\ (log'[c].uid # 0 => log'[c].k \in 1..Len(txn[log'[c].uid].hdrs))
      BY ZenonT(60), <1>2, <1>4, <1>6, CellInv
    <2> QED
      BY <2>1, <1>1 DEF DiskInv
  <1>14. RunPtr' /\ EtPtr' /\ CurPtr' /\ IoPtr' /\ DownInv' /\ TxnInv' /\ WriteAhead'
    BY <1>1 DEF RunPtr, EtPtr, CurPtr, IoPtr, DownInv, TxnInv, TxnFits, WriteAhead
  <1> QED
    BY ZenonT(60), <1>9, <1>10, <1>11, <1>12, <1>13, <1>14

\* The header write, which commits the transaction, keeps the invariants.
LEMMA FinHeaderStep ==
  ASSUME Inductive, FinHeader
  PROVE  Inductive'
  <1> USE DEF Inductive
  <1>1. /\ up = "up" /\ fin.pc = "header"
        /\ UNCHANGED <<up, et, th, io, cb, ntr, maybe, log, home, rp, rerrs>>
    BY DEF FinHeader, FinAt
  <1>2. PICK u \in Uids : /\ u = fin.tr /\ txn[u].st = "flight"
                          /\ \A t \in Threads : th[t].pc \in RunPcs => jnl.active_tr # u
                          /\ \A t \in Threads : th[t].pc \in HeldPcs \ RunPcs => et.tr # u
                          /\ jnl.cur_tr # u /\ io.tr # u
                          /\ \A t \in Threads : ~Flushing(t)
    BY <1>1, FinTxn
  <1>3. PICK q \in Offsets : q = fin.pos /\ q # 0 /\ q \in NoneOrOffset
    BY FinTyped, OffsetRange, ReplayAssumption DEF FinType, Offsets
  <1>4. PICK s \in {"committed", "flight"} :
          /\ TxnIs(u, s, txn[u].js, q)
          /\ FinIs(IF s = "committed" THEN "home" ELSE "bad", u, fin.k, fin.by)
    <2>1. CASE /\ fin' = [fin EXCEPT !.pc = "home"]
               /\ txn' = [txn EXCEPT ![u].je = q, ![u].st = "committed"]
      <3>1. TxnIs(u, "committed", txn[u].js, q)
        BY ZenonT(60), <2>1, <1>3, TxnCommits
      <3>2. FinIs("home", u, fin.k, fin.by)
        BY <2>1, <1>2, FinTyped DEF FinType, FinIs
      <3> QED
        BY <3>1, <3>2
    <2>2. CASE fin' = [fin EXCEPT !.pc = "bad"] /\ txn' = [txn EXCEPT ![u].je = q]
      <3>1. TxnIs(u, "flight", txn[u].js, q)
        BY ZenonT(60), <2>2, <1>2, <1>3, TxnEnds
      <3>2. FinIs("bad", u, fin.k, fin.by)
        BY <2>2, <1>2, FinTyped DEF FinType, FinIs
      <3> QED
        BY <3>1, <3>2
    <2> QED
      BY <2>1, <2>2, <1>2, <1>3 DEF FinHeader
  <1>5. jnl' = jnl \/ jnl' = [jnl EXCEPT !.invalid = TRUE]
    BY DEF FinHeader
  <1>6. jnl' \in JnlType /\ JnlKeeps
    BY ZenonT(60), <1>5, JnlTyped DEF JnlType, JnlKeeps
  <1>7. ring' \in RingType
    <2>1. ring' = [ring EXCEPT !.end = q]
      BY <1>3 DEF FinHeader
    <2> QED
      BY <2>1, RingTyped DEF RingType
  <1>8. dhdr' \in [start : Offsets, end : Offsets, seq : Nat]
    BY <1>3, RingFields, JnlFields, DhdrTyped DEF FinHeader
  <1>9. used' \in UsedType /\ want' \in [Blocks -> Contents]
    BY SMTT(60) DEF FinHeader, IOError, TypeOK, UsedType
  <1>10. TypeOK'
    BY ZenonT(60), <1>1, <1>4, <1>6, <1>7, <1>8, <1>9 DEF TypeOK, ReplayTypeOK, UsedType, TxnIs, FinIs
  <1>11. OneFlusher'
    BY ZenonT(60), <1>1, <1>2, <1>4, <1>6 DEF OneFlusher, Flushing, FlushPcs, FinIs, JnlKeeps
  <1>12. LockInv'
    BY ZenonT(60), <1>1, <1>4, <1>6 DEF LockInv, FinIs, JnlKeeps
  <1>13. RunPtr' /\ EtPtr' /\ CurPtr'
    BY ZenonT(60), <1>1, <1>2, <1>4, <1>6, CurUid DEF RunPtr, EtPtr, CurPtr, TxnIs, JnlKeeps
  <1>14. FinPtr'
    BY ZenonT(60), <1>4 DEF FinPtr, FinIs, TxnIs
  <1>15. IoPtr' /\ DownInv'
    BY ZenonT(60), <1>1, <1>2, <1>4, IoUid DEF IoPtr, DownInv, TxnIs
  <1>16. TxnInv'
    <2>1. TxnFits(u)'
      BY ZenonT(60), <1>1, <1>2, <1>3, <1>4 DEF TxnInv, TxnFits, TxnIs
    <2>2. ASSUME NEW v \in Uids, v # u
          PROVE  TxnFits(v)'
      BY ZenonT(60), <2>2, <1>1, <1>4 DEF TxnInv, TxnFits, TxnIs
    <2> QED
      BY ZenonT(60), <2>1, <2>2 DEF TxnInv
  <1>17. DiskInv'
    BY ZenonT(60), <1>1, <1>4, LogUid DEF DiskInv, TxnIs
  <1>18. WriteAhead'
    BY ZenonT(60), <1>1, <1>2, <1>4 DEF WriteAhead, TxnIs
  <1> QED
    BY ZenonT(60), <1>10, <1>11, <1>12, <1>13, <1>14, <1>15, <1>16, <1>17, <1>18

\* The blocks of a transaction that were not killed are named by pairs of
\* numbers.
LEMMA LiveEntries ==
  ASSUME TypeOK, NEW u \in Uids
  PROVE  Live(u) \in SUBSET (Nat \X Nat) /\ Len(txn[u].hdrs) \in Nat
  <1>1. PICK h \in Seq(Seq(Entry)) : h = txn[u].hdrs
    BY TxnTyped DEF TxnType
  <1>2. Len(h) \in Nat
    BY LenProperties
  <1>3. (1..Len(h)) \X (1..BlhdrCap) \subseteq Nat \X Nat
    BY <1>2, JournalAssumption
  <1> QED
    BY <1>1, <1>2, <1>3 DEF Live

\* Handing the blocks to the driver keeps the invariants.
LEMMA FinHomeStep ==
  ASSUME Inductive, FinHome
  PROVE  Inductive'
  <1> USE DEF Inductive
  <1>1. /\ up = "up" /\ fin.pc = "home"
        /\ UNCHANGED <<up, ring, et, th, cb, ntr, want, maybe, used, log, dhdr, home, rp, rerrs>>
    BY DEF FinHome, FinAt, diskVars
  <1>2. PICK u \in Uids : u = fin.tr /\ txn[u].st \in {"committed", "home"} /\ u # 0
    BY <1>1 DEF FinPtr, Uids
  <1>3. \A t \in Threads : ~Flushing(t)
    BY <1>1 DEF OneFlusher
  <1>4. FinIs("done", u, fin.k, fin.by)
    BY <1>2, FinTyped DEF FinHome, FinIs, FinType
  <1>5. jnl' \in JnlType /\ JnlKeeps
    <2>1. PICK a \in BOOLEAN : jnl' = [jnl EXCEPT !.asyncIO = a]
      BY ZenonT(60) DEF FinHome
    <2> QED
      BY <2>1, JnlTyped DEF JnlType, JnlKeeps
  <1>6. PICK s \in {"committed", "home"} :
          /\ TxnIs(u, s, txn[u].js, txn[u].je)
          /\ io' \in IoType /\ io'.tr \in {0, u}
          /\ io'.pending # {} => io'.tr # 0
    <2>1. CASE Live(u) = {}
      <3>1. TxnIs(u, "home", txn[u].js, txn[u].je)
        BY ZenonT(60), <1>2, <2>1, TxnMoves DEF FinHome
      <3>2. io' = NoIO
        BY <1>2, <2>1 DEF FinHome
      <3> QED
        BY <3>1, <3>2, NoIoTyped DEF NoIO
    <2>2. CASE Live(u) # {}
      <3>1. txn' = txn
        BY <1>2, <2>2 DEF FinHome
      <3>2. TxnIs(u, txn[u].st, txn[u].js, txn[u].je)
        BY <3>1, TxnTyped DEF TxnIs
      <3>3. PICK P \in SUBSET (Nat \X Nat), n \in Nat : P = Live(u) /\ n = Len(txn[u].hdrs)
        BY ZenonT(60), LiveEntries
      <3>4. io' = [tr |-> u, pending |-> P, flushed |-> n]
        BY <1>2, <2>2, <3>3 DEF FinHome
      <3>5. io' \in IoType /\ io'.tr = u
        BY ZenonT(60), <3>4, NullPtr DEF IoType
      <3> QED
        BY <3>2, <3>5, <1>2
    <2> QED
      BY <2>1, <2>2
  <1>7. TypeOK'
    BY ZenonT(60), <1>1, <1>4, <1>5, <1>6 DEF TypeOK, ReplayTypeOK, TxnIs, FinIs
  <1>8. OneFlusher'
    BY ZenonT(60), <1>1, <1>3, <1>4, <1>5 DEF OneFlusher, Flushing, FlushPcs, FinIs, JnlKeeps
  <1>9. LockInv'
    BY ZenonT(60), <1>1, <1>4, <1>5 DEF LockInv, FinIs, JnlKeeps
  <1>10. RunPtr' /\ EtPtr' /\ CurPtr'
    BY ZenonT(60), <1>1, <1>2, <1>5, <1>6, CurUid DEF RunPtr, EtPtr, CurPtr, TxnIs, JnlKeeps
  <1>11. FinPtr'
    BY ZenonT(60), <1>4 DEF FinPtr, FinIs
  <1>12. IoPtr' /\ DownInv'
    BY <1>1, <1>2, <1>6 DEF IoPtr, DownInv, TxnIs
  <1>13. TxnInv'
    <2>1. TxnFits(u)'
      BY ZenonT(60), <1>1, <1>2, <1>6 DEF TxnInv, TxnFits, TxnIs
    <2>2. ASSUME NEW v \in Uids, v # u
          PROVE  TxnFits(v)'
      BY ZenonT(60), <2>2, <1>1, <1>6 DEF TxnInv, TxnFits, TxnIs
    <2> QED
      BY ZenonT(60), <2>1, <2>2 DEF TxnInv
  <1>14. DiskInv'
    BY ZenonT(60), <1>1, <1>6, LogUid DEF DiskInv, TxnIs
  <1>15. WriteAhead'
    BY ZenonT(60), <1>1, <1>2, <1>6 DEF WriteAhead, TxnIs
  <1> QED
    BY ZenonT(60), <1>7, <1>8, <1>9, <1>10, <1>11, <1>12, <1>13, <1>14, <1>15

\* The error path of finish_end_transaction, up to its lock, keeps the
\* invariants.
LEMMA FinBadStep ==
  ASSUME Inductive, FinBad
  PROVE  Inductive'
  <1> USE DEF Inductive
  <1>1. /\ up = "up" /\ fin.pc = "bad"
        /\ UNCHANGED <<up, ring, et, th, io, cb, ntr, want, maybe, used, log, dhdr, home, rp, rerrs>>
    BY DEF FinBad, FinAt, diskVars
  <1>2. PICK u \in Uids : /\ u = fin.tr /\ txn[u].st = "flight"
                          /\ \A t \in Threads : th[t].pc \in RunPcs => jnl.active_tr # u
                          /\ \A t \in Threads : th[t].pc \in HeldPcs \ RunPcs => et.tr # u
                          /\ jnl.cur_tr # u /\ io.tr # u
                          /\ \A t \in Threads : ~Flushing(t)
    BY <1>1, FinTxn
  <1>3. FinIs("lock", u, fin.k, fin.by)
    BY <1>2, FinTyped DEF FinBad, FinIs, FinType
  <1>4. JnlIs(jnl.owner, jnl.active_tr, jnl.cur_tr, FALSE, TRUE)
    BY ZenonT(60), JnlTyped DEF FinBad, JnlIs, JnlType
  <1>5. TxnIs(u, "aborted", txn[u].js, txn[u].je)
    BY ZenonT(60), <1>2, TxnMoves DEF FinBad
  <1>6. TypeOK'
    BY <1>1, <1>3, <1>4, <1>5 DEF TypeOK, ReplayTypeOK, TxnIs, FinIs, JnlIs
  <1>7. OneFlusher'
    BY ZenonT(60), <1>1, <1>2, <1>3, <1>4 DEF OneFlusher, Flushing, FlushPcs, FinIs, JnlIs
  <1>8. LockInv'
    BY ZenonT(60), <1>1, <1>3, <1>4 DEF LockInv, FinIs, JnlIs
  <1>9. RunPtr' /\ EtPtr' /\ CurPtr'
    <2>1. RunPtr'
      BY ZenonT(60), <1>1, <1>2, <1>4, <1>5 DEF RunPtr, TxnIs, JnlIs
    <2>2. EtPtr'
      BY ZenonT(60), <1>1, <1>2, <1>4, <1>5 DEF EtPtr, TxnIs, JnlIs
    <2>3. CurPtr'
      BY ZenonT(60), <1>1, <1>2, <1>4, <1>5, CurUid DEF CurPtr, TxnIs, JnlIs
    <2> QED
      BY <2>1, <2>2, <2>3
  <1>10. FinPtr'
    BY <1>3 DEF FinPtr, FinIs
  <1>11. IoPtr' /\ DownInv'
    BY ZenonT(60), <1>1, <1>2, <1>5, IoUid DEF IoPtr, DownInv, TxnIs
  <1>12. TxnInv'
    <2>1. TxnFits(u)'
      BY ZenonT(60), <1>1, <1>2, <1>5 DEF TxnInv, TxnFits, TxnIs
    <2>2. ASSUME NEW v \in Uids, v # u
          PROVE  TxnFits(v)'
      BY ZenonT(60), <2>2, <1>1, <1>5 DEF TxnInv, TxnFits, TxnIs
    <2> QED
      BY ZenonT(60), <2>1, <2>2 DEF TxnInv
  <1>13. DiskInv'
    BY ZenonT(60), <1>1, <1>5, LogUid DEF DiskInv, TxnIs
  <1>14. WriteAhead'
    BY ZenonT(60), <1>1, <1>2, <1>5 DEF WriteAhead, TxnIs
  <1> QED
    BY ZenonT(60), <1>6, <1>7, <1>8, <1>9, <1>10, <1>11, <1>12, <1>13, <1>14

\* When finish_end_transaction returns, a thread that waited for it goes on.
LEMMA ThReturns ==
  ASSUME TypeOK, FinReturn
  PROVE  /\ th' \in [Threads -> ThType]
         /\ \A s \in Threads : /\ th'[s].pc = (IF s = fin.by THEN th[s].ret ELSE th[s].pc)
                               /\ th'[s].ret = th[s].ret
  BY ZenonT(60), ThTyped, ThFields DEF ThType, FinReturn

\* The return of finish_end_transaction keeps the invariants.
LEMMA ReturnStep ==
  ASSUME Inductive, up = "up", FinReturn, fin' = NoFin,
         JnlIs(jnl.owner, jnl.active_tr, jnl.cur_tr, FALSE, jnl.flush_aborted) \/ (JnlKeeps /\ jnl' \in JnlType),
         fin.pc = "done" => ~jnl'.flushing,
         fin.pc = "lock" => JnlKeeps,
         fin.pc \in {"done", "lock"},
         ring' \in RingType,
         UNCHANGED <<up, et, io, cb, ntr, want, maybe, used, txn, log, dhdr, home, rp, rerrs>>
  PROVE  Inductive'
  <1> USE DEF Inductive
  <1>1. /\ jnl' \in JnlType /\ jnl'.owner = jnl.owner /\ jnl'.active_tr = jnl.active_tr
        /\ jnl'.cur_tr = jnl.cur_tr /\ jnl'.flush_aborted = jnl.flush_aborted
    BY ZenonT(60) DEF JnlIs, JnlKeeps
  <1>2. TypeOK'
    BY ZenonT(60), <1>1, ThReturns, NoIoTyped DEF TypeOK, ReplayTypeOK
  <1>3. \A s \in Threads : /\ th'[s].pc = th[s].pc \/ (s = fin.by /\ th'[s].pc \in Returns
                                                       /\ th'[s].pc = th[s].ret /\ th[s].pc = "sync")
                           /\ th'[s].ret = th[s].ret
    BY ZenonT(60), ThReturns, ThFields DEF LockInv
  <1>4. \A s \in Threads : Flushing(s)' <=> Flushing(s)
    BY <1>3 DEF Flushing, SpacePcs, Returns
  <1>5. OneFlusher'
    <2>1. CASE fin.pc = "done"
      BY ZenonT(60), <2>1, <1>4 DEF OneFlusher, FlushPcs, NoFin
    <2>2. CASE fin.pc = "lock"
      BY ZenonT(60), <2>2, <1>4 DEF OneFlusher, FlushPcs, NoFin, JnlKeeps
    <2> QED
      BY ZenonT(60), <2>1, <2>2
  <1>6. \A s \in Threads : /\ th'[s].pc \in HeldPcs => th[s].pc \in HeldPcs /\ th'[s].pc = th[s].pc
                           /\ th'[s].pc \in EtPcs => th[s].pc \in EtPcs
                           /\ th'[s].pc \in RunPcs => th[s].pc \in RunPcs
                           /\ th'[s].pc \in HeldPcs \ RunPcs => th[s].pc \in HeldPcs \ RunPcs
                           /\ th'[s].pc = "sync" => th[s].pc = "sync"
                           /\ th'[s].pc \in ClosePcs =>
                                \/ th[s].pc \in ClosePcs
                                \/ th[s].pc = "sync" /\ th[s].ret = "cl_drain"
    BY ZenonT(60), <1>3 DEF HeldPcs, EtPcs, RunPcs, SpacePcs, ClosePcs, Returns
  <1>7. LockInv'
    <2>1. \A t \in Threads : fin'.by # t
      BY ZenonT(60), NoThread DEF NoFin
    <2>2. fin'.pc = "none"
      BY ZenonT(60) DEF NoFin
    <2>3. \A t \in Threads : th'[t].pc \in HeldPcs \cup ClosePcs => jnl'.owner = t
      BY ZenonT(60), <1>1, <1>6 DEF LockInv
    <2>4. \A t \in Threads : th'[t].pc = "sync" /\ th'[t].ret = "cl_drain" => jnl'.owner = t
      BY ZenonT(60), <1>1, <1>3, <1>6 DEF LockInv
    <2>5. \A t \in Threads : th'[t].pc \in EtPcs =>
                           (et'.drop <=> th'[t].ret # "cl_drain") /\ (~et'.drop => et'.wait)
      <3> SUFFICES ASSUME NEW t \in Threads, th'[t].pc \in EtPcs
                   PROVE  (et'.drop <=> th'[t].ret # "cl_drain") /\ (~et'.drop => et'.wait)
        BY ZenonT(60)
      <3>1. th[t].pc \in EtPcs /\ th'[t].ret = th[t].ret
        BY ZenonT(60), <1>3, <1>6
      <3>2. (et.drop <=> th[t].ret # "cl_drain") /\ (~et.drop => et.wait)
        BY ZenonT(60), <3>1 DEF LockInv
      <3> QED
        BY ZenonT(60), <3>1, <3>2
    <2> QED
      BY ZenonT(60), <2>1, <2>2, <2>3, <2>4, <2>5 DEF LockInv
  <1>8. RunPtr' /\ EtPtr' /\ CurPtr'
    BY ZenonT(60), <1>1, <1>6, CurUid DEF RunPtr, EtPtr, CurPtr
  <1>9. FinPtr'
    BY ZenonT(60) DEF FinPtr, NoFin
  <1>10. IoPtr' /\ DownInv' /\ TxnInv' /\ DiskInv' /\ WriteAhead'
    BY ZenonT(60) DEF IoPtr, DownInv, TxnInv, TxnFits, DiskInv, WriteAhead
  <1> QED
    BY ZenonT(60), <1>2, <1>5, <1>7, <1>8, <1>9, <1>10

\* The end of finish_end_transaction keeps the invariants.
LEMMA FinDoneStep ==
  ASSUME Inductive, FinDone
  PROVE  Inductive'
  <1> USE DEF Inductive
  <1>1. /\ up = "up" /\ fin.pc = "done" /\ fin' = NoFin /\ FinReturn
        /\ jnl' = [jnl EXCEPT !.flushing = FALSE]
        /\ UNCHANGED <<up, ring, et, io, cb, ntr, want, maybe, used, txn, log, dhdr, home, rp, rerrs>>
    BY DEF FinDone, FinAt, diskVars
  <1>2. JnlIs(jnl.owner, jnl.active_tr, jnl.cur_tr, FALSE, jnl.flush_aborted)
    BY ZenonT(60), <1>1, JnlTyped DEF JnlIs, JnlType
  <1>3. ring' \in RingType
    BY <1>1, RingTyped
  <1>4. ~jnl'.flushing
    BY <1>2 DEF JnlIs
  <1> QED
    BY <1>1, <1>2, <1>3, <1>4, ReturnStep

\* Clearing the flag of a slot keeps the type of the ring.
LEMMA SlotFreed ==
  ASSUME TypeOK, NEW i, ring' = [ring EXCEPT !.old_start[i].busy = FALSE]
  PROVE  ring' \in RingType
  BY ZenonT(60), RingTyped DEF RingType

\* The error path of finish_end_transaction, with the lock, keeps the
\* invariants.
LEMMA FinLockStep ==
  ASSUME Inductive, FinLock
  PROVE  Inductive'
  <1> USE DEF Inductive
  <1>1. /\ up = "up" /\ fin.pc = "lock" /\ fin' = NoFin /\ FinReturn
        /\ jnl' = [jnl EXCEPT !.invalid = TRUE]
        /\ ring' = [ring EXCEPT !.old_start[NOldStart].busy = FALSE]
        /\ UNCHANGED <<up, et, io, cb, ntr, want, maybe, used, txn, log, dhdr, home, rp, rerrs>>
    BY DEF FinLock, FinAt, diskVars
  <1>2. JnlKeeps /\ jnl' \in JnlType
    BY ZenonT(60), <1>1, JnlTyped DEF JnlKeeps, JnlType
  <1>3. ring' \in RingType
    BY ZenonT(60), <1>1, SlotFreed
  <1> QED
    BY <1>1, <1>2, <1>3, ReturnStep

\* The first part of buffer_flushed_callback keeps the types of the ring and
\* of its own frame.
LEMMA HomeCallback ==
  ASSUME Inductive, NEW u \in Uids, u = io.tr, CallbackBegin
  PROVE  ring' \in RingType /\ cb' \in CbType /\ ((cb'.s = 0) <=> (cb'.e = 0))
  <1> USE DEF Inductive
  <1>1. txn[u].st \in {"committed", "home"} /\ u # 0
    BY SMTT(60) DEF IoPtr, Uids
  <1>2. txn[u].js # 0 /\ txn[u].je # 0
    BY <1>1 DEF TxnInv, TxnFits
  <1>3. txn[u].js \in NoneOrOffset /\ txn[u].je \in NoneOrOffset
    BY TxnTyped DEF TxnType
  <1>4. PICK s \in Offsets, e \in Offsets : s = txn[u].js /\ e = txn[u].je
    BY ZenonT(60), <1>2, <1>3, OffsetRange
  <1>5. s # 0 /\ e # 0 /\ s \in NoneOrOffset /\ e \in NoneOrOffset
    BY <1>2, <1>3, <1>4
  <1>6. PICK a \in Offsets : a = IF s = ring.active_start THEN e ELSE ring.active_start
    BY ZenonT(60), RingFields
  <1>7. PICK i : ring' = [ring EXCEPT !.old_start[i].busy = FALSE, !.active_start = a]
    BY ZenonT(60), <1>4, <1>6 DEF CallbackBegin
  <1>8. ring' \in RingType
    BY ZenonT(60), <1>7, RingTyped DEF RingType
  <1>9. \/ cb' = [on |-> TRUE, s |-> 0, e |-> 0, i |-> 1]
        \/ cb' = [on |-> TRUE, s |-> s, e |-> e, i |-> 1]
    BY ZenonT(60), <1>4 DEF CallbackBegin
  <1>10. PICK p \in NoneOrOffset, q \in NoneOrOffset :
           /\ cb' = [on |-> TRUE, s |-> p, e |-> q, i |-> 1]
           /\ (p = 0) <=> (q = 0)
    BY ZenonT(60), <1>5, <1>9, OffsetRange
  <1>11. cb' \in CbType /\ cb'.s = p /\ cb'.e = q
    BY SMTT(60), <1>10 DEF CbType
  <1> QED
    BY <1>8, <1>10, <1>11

\* The completion of a home write, with its callback, keeps the invariants.
LEMMA HomeDoneStep ==
  ASSUME Inductive, NEW x \in io.pending, HomeDone(x)
  PROVE  Inductive'
  <1> USE DEF Inductive
  <1>1. /\ up = "up"
        /\ UNCHANGED <<up, et, th, fin, ntr, want, maybe, log, dhdr, rp, rerrs>>
    BY DEF HomeDone
  <1>2. PICK u \in Uids : u = io.tr /\ u # 0 /\ txn[u].st \in {"committed", "home"}
    BY IoUid DEF IoPtr
  <1>3. u <= ntr /\ u \in NoneOrUid /\ u \in Contents
    <2>1. ~(u > ntr)
      BY ZenonT(60), <1>2 DEF TxnInv, TxnFits
    <2> QED
      BY SMTT(60), <2>1, NtrNat, ReplayAssumption DEF Uids, NoneOrUid, Contents, TORN
  <1>4. PICK s \in {"committed", "home"} : TxnIs(u, s, txn[u].js, txn[u].je)
    <2>1. CASE txn' = [txn EXCEPT ![u].st = "home"]
      BY ZenonT(60), <2>1, TxnMoves
    <2>2. CASE txn' = txn
      BY <2>2, <1>2, TxnTyped DEF TxnIs
    <2> QED
      BY ZenonT(60), <2>1, <2>2, <1>2 DEF HomeDone
  <1>5. /\ home' \in [Blocks -> Contents]
        /\ \A b \in Blocks : home'[b] = home[b] \/ home'[b] = u
    <2>1. home \in [Blocks -> Contents]
      BY ZenonT(60) DEF TypeOK, ReplayTypeOK
    <2>2. home' = home \/ \E b : home' = [home EXCEPT ![b] = u]
      BY <1>2 DEF HomeDone
    <2> QED
      BY ZenonT(60), <2>1, <2>2, <1>3
  <1>6. used' \in UsedType
    BY DEF HomeDone, TypeOK, UsedType
  <1>7. jnl' \in JnlType /\ JnlKeeps
    <2>1. jnl' = jnl \/ jnl' = [jnl EXCEPT !.asyncIO = FALSE]
      BY DEF HomeDone
    <2> QED
      BY ZenonT(60), <2>1, JnlTyped DEF JnlType, JnlKeeps
  <1>8. /\ io' \in IoType /\ (io'.tr = u \/ (io'.tr = 0 /\ io'.pending = {}))
    <2>1. CASE io' = NoIO
      BY <2>1, NoIoTyped DEF NoIO
    <2>2. CASE io' = [io EXCEPT !.pending = @ \ {x}, !.flushed = @ + 1]
      <3>1. io.pending \in SUBSET (Nat \X Nat) /\ io.flushed \in Nat /\ io \in IoType
        BY IoTyped DEF IoType
      <3>2. PICK P \in SUBSET (Nat \X Nat) : P = io.pending \ {x}
        BY ZenonT(60), <3>1
      <3>3. PICK n \in Nat : n = io.flushed + 1
        BY <3>1
      <3>4. io' = [io EXCEPT !.pending = P, !.flushed = n]
        BY <2>2, <3>2, <3>3
      <3> QED
        BY ZenonT(60), <3>1, <3>4, <1>2 DEF IoType
    <2> QED
      BY <2>1, <2>2 DEF HomeDone
  <1>9. ring' \in RingType /\ cb' \in CbType /\ ((cb'.s = 0) <=> (cb'.e = 0))
    <2>1. CASE UNCHANGED <<ring, cb>>
      BY ZenonT(60), <2>1, RingTyped, CbTyped DEF IoPtr
    <2>2. CASE CallbackBegin
      BY ZenonT(60), <2>2, <1>2, HomeCallback
    <2> QED
      BY ZenonT(60), <2>1, <2>2 DEF HomeDone
  <1>10. TypeOK'
    BY ZenonT(60), <1>1, <1>4, <1>5, <1>6, <1>7, <1>8, <1>9 DEF TypeOK, ReplayTypeOK, UsedType, TxnIs
  <1>11. OneFlusher' /\ LockInv'
    BY ZenonT(60), <1>1, <1>7 DEF OneFlusher, Flushing, LockInv, JnlKeeps
  <1>12. RunPtr' /\ EtPtr' /\ CurPtr'
    BY ZenonT(60), <1>1, <1>2, <1>4, <1>7, CurUid DEF RunPtr, EtPtr, CurPtr, TxnIs, JnlKeeps
  <1>13. FinPtr'
    BY ZenonT(60), <1>1, <1>2, <1>4 DEF FinPtr, TxnIs
  <1>14. IoPtr' /\ DownInv'
    <2>1. txn'[u].st = s
      BY ZenonT(60), <1>4 DEF TxnIs
    <2>2. IoPtr'
      <3>1. io'.tr # 0 => txn'[io'.tr].st \in {"committed", "home"}
        BY <1>8, <2>1
      <3>2. io'.pending # {} => io'.tr # 0
        BY <1>2, <1>8
      <3> QED
        BY <1>9, <3>1, <3>2 DEF IoPtr
    <2>3. DownInv'
      BY ZenonT(60), <1>1 DEF DownInv
    <2> QED
      BY <2>2, <2>3
  <1>15. TxnInv'
    <2>1. TxnFits(u)'
      BY ZenonT(60), <1>1, <1>2, <1>4 DEF TxnInv, TxnFits, TxnIs
    <2>2. ASSUME NEW v \in Uids, v # u
          PROVE  TxnFits(v)'
      BY ZenonT(60), <2>2, <1>1, <1>4 DEF TxnInv, TxnFits, TxnIs
    <2> QED
      BY <2>1, <2>2 DEF TxnInv
  <1>16. DiskInv'
    BY <1>1, <1>3, <1>4, <1>5, LogUid DEF DiskInv, TxnIs
  <1>17. WriteAhead'
    BY ZenonT(60), <1>1, <1>2, <1>4, <1>5 DEF WriteAhead, TxnIs
  <1> QED
    BY ZenonT(60), <1>10, <1>11, <1>12, <1>13, <1>14, <1>15, <1>16, <1>17
=============================================================================
