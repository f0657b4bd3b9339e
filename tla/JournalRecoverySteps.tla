------------------------ MODULE JournalRecoverySteps ------------------------
(***************************************************************************)
(* A crash, the end of journal_close and the steps of journal_open and     *)
(* replay_journal keep the inductive invariant.                            *)
(***************************************************************************)
EXTENDS JournalFacts

\* The structures that journal_open sets up have their types.
LEMMA FreshTyped ==
  ASSUME NEW q \in Nat
  PROVE  FreshJnl(q) \in JnlType /\ FreshRing(1, 1) \in RingType /\ NoEt \in EtType
         /\ [t \in Threads |-> Idle] \in [Threads -> ThType]
  <1>1. FreshJnl(q) \in JnlType
    BY NullPtr DEF FreshJnl, JnlType
  <1>2. FreshRing(1, 1) \in RingType
    BY OffsetRange, FreshRingTyped
  <1>3. NoEt \in EtType
    BY NullPtr, FirstSlot DEF NoEt, EtType
  <1>4. Idle \in ThType
    BY NullPtr DEF Idle, ThType, Pcs, Returns
  <1> QED
    BY <1>1, <1>2, <1>3, <1>4

\* No thread and no completion is in the journal's code.
ASleep ==
  /\ th = [t \in Threads |-> Idle] /\ et = NoEt
  /\ fin = NoFin /\ io = NoIO /\ cb = NoCb /\ jnl.cur_tr = 0

\* With nobody in the journal's code the invariants about who is where hold.
LEMMA Asleep ==
  ASSUME ASleep', ~jnl'.flushing
  PROVE  /\ OneFlusher' /\ LockInv' /\ RunPtr' /\ EtPtr' /\ CurPtr' /\ FinPtr' /\ IoPtr' /\ DownInv'
  <1>1. /\ \A t \in Threads : th'[t].pc = "idle" /\ th'[t].ret = "idle"
        /\ fin'.pc = "none" /\ fin'.by = NONE /\ io'.tr = 0 /\ io'.pending = {}
        /\ cb'.s = 0 /\ cb'.e = 0 /\ jnl'.cur_tr = 0
    BY DEF ASleep, Idle, NoFin, NoIO, NoCb
  <1>2. OneFlusher'
    BY <1>1 DEF OneFlusher, Flushing, SpacePcs, FlushPcs
  <1>3. LockInv'
    BY <1>1, NoThread DEF LockInv, HeldPcs, ClosePcs, EtPcs, RunPcs, SpacePcs
  <1>4. RunPtr' /\ EtPtr' /\ CurPtr'
    BY <1>1 DEF RunPtr, EtPtr, CurPtr, HeldPcs, EtPcs, RunPcs, SpacePcs
  <1>5. FinPtr' /\ IoPtr'
    BY <1>1 DEF FinPtr, IoPtr
  <1>6. DownInv'
    BY DEF DownInv, ASleep
  <1> QED
    BY <1>2, <1>3, <1>4, <1>5, <1>6

\* When the journal in memory is gone, what is left on disk satisfies the
\* invariants.
LEMMA DownStep ==
  ASSUME Inductive, CoreGone, up' = "down", UNCHANGED <<ntr, want, maybe, txn, dhdr, rerrs>>,
         used' \in UsedType, log' \in [Cells -> CellType],
         \A c \in Cells : log'[c].uid <= ntr /\ (log'[c].uid # 0 => log'[c].k \in 1..Len(txn[log'[c].uid].hdrs)),
         home' \in [Blocks -> Contents], \A b \in Blocks : home'[b] = home[b] \/ home'[b] = TORN,
         rp' \in RpType, rp'.start < Size, rp'.orig < Size, \A b \in Blocks : rp'.buf[b] <= ntr
  PROVE  Inductive'
  <1> USE DEF Inductive
  <1>1. /\ jnl' \in JnlType /\ ring' \in RingType /\ et' \in EtType /\ th' \in [Threads -> ThType]
        /\ fin' \in FinType /\ io' \in IoType /\ cb' \in CbType
    BY FreshTyped, NoIoTyped DEF CoreGone
  <1>2. TypeOK'
    BY <1>1 DEF TypeOK, ReplayTypeOK, UsedType
  <1>3. ASleep' /\ ~jnl'.flushing
    BY DEF ASleep, CoreGone, FreshJnl
  <1>4. TxnInv'
    BY DEF TxnInv, TxnFits
  <1>5. DiskInv'
    BY DEF DiskInv, TORN
  <1>6. WriteAhead'
    BY DEF WriteAhead
  <1> QED
    BY <1>2, <1>3, <1>4, <1>5, <1>6, Asleep

\* The end of journal_close keeps the invariants.
LEMMA CloseFreeStep ==
  ASSUME Inductive, NEW t \in Threads, CloseFree(t)
  PROVE  Inductive'
  <1> USE DEF Inductive
  <1>1. /\ up' = "down" /\ CoreGone
        /\ UNCHANGED <<ntr, want, maybe, used, txn, log, dhdr, home, rp, rerrs>>
    BY DEF CloseFree, diskVars
  <1>2. used' \in UsedType /\ log' \in [Cells -> CellType] /\ home' \in [Blocks -> Contents] /\ rp' \in RpType
    BY <1>1 DEF TypeOK, ReplayTypeOK, UsedType
  <1>3. \A c \in Cells : log'[c].uid <= ntr /\ (log'[c].uid # 0 => log'[c].k \in 1..Len(txn[log'[c].uid].hdrs))
    BY <1>1, CellInv
  <1>4. rp'.start < Size /\ rp'.orig < Size /\ \A b \in Blocks : rp'.buf[b] <= ntr
    BY <1>1 DEF DiskInv
  <1>5. \A b \in Blocks : home'[b] = home[b] \/ home'[b] = TORN
    BY <1>1
  <1> QED
    BY <1>1, <1>2, <1>3, <1>4, <1>5, DownStep

\* The frame of replay_journal before it is called has its type.
LEMMA IdleFrame ==
  ReplayIdle \in RpType /\ ReplayIdle.start < Size /\ ReplayIdle.orig < Size
    /\ \A b \in Blocks : ReplayIdle.buf[b] = 0
  BY NullPtr, OffsetRange, ReplayAssumption DEF ReplayIdle, RpType, NoBuf

\* A crash leaves each cell as it was or as the write in flight would have
\* made it.
LEMMA CrashedLog ==
  ASSUME Inductive, log' \in CrashLog
  PROVE  /\ log' \in [Cells -> CellType]
         /\ \A c \in Cells : log'[c].uid <= ntr /\ (log'[c].uid # 0 => log'[c].k \in 1..Len(txn[log'[c].uid].hdrs))
  <1> USE DEF Inductive
  <1>1. CASE up = "up" /\ fin.pc = "write"
    <2>1. PICK n \in Nat : n = Len(txn[fin.tr].hdrs[fin.k])
      BY <1>1, FinList
    <2>2. PICK J \in SUBSET (0..n) : log' = LogAfter(fin.tr, fin.k, fin.pos, J)
      BY <1>1, <2>1 DEF CrashLog
    <2>3. PICK u \in NoneOrUid : u = fin.tr /\ u <= ntr
      BY <1>1, FinTxn
    <2>4. PICK k \in Nat : k = fin.k /\ k \in 1..Len(txn[fin.tr].hdrs)
      BY <1>1, FinList
    <2>5. PICK p \in Offsets : p = fin.pos
      BY FinTyped DEF FinType
    <2>6. log' = LogAfter(u, k, p, J)
      BY <2>2, <2>3, <2>4, <2>5
    <2>7. J \in SUBSET Nat
      BY SomeBlocks
    <2>8. /\ log' \in [Cells -> CellType]
          /\ \A c \in Cells : log'[c] = log[c] \/ (log'[c].uid = u /\ log'[c].k = k)
      BY <2>6, <2>7, LogAfterTyped
    <2> QED
      BY <2>3, <2>4, <2>8, CellInv
  <1>2. CASE ~(up = "up" /\ fin.pc = "write")
    <2>1. log' = log
      BY <1>2 DEF CrashLog
    <2> QED
      BY <2>1, LogTyped, CellInv
  <1> QED
    BY <1>1, <1>2

\* A crash leaves each file system block as it was or torn.
LEMMA CrashedHome ==
  ASSUME Inductive, home' \in CrashHome
  PROVE  home' \in [Blocks -> Contents] /\ \A b \in Blocks : home'[b] = home[b] \/ home'[b] = TORN
  <1>1. TORN \in Contents /\ home \in [Blocks -> Contents]
    BY ReplayAssumption DEF TORN, Contents, Inductive, TypeOK, ReplayTypeOK
  <1>2. PICK T : home' = [b \in Blocks |-> IF b \in T THEN TORN ELSE home[b]]
    BY DEF CrashHome
  <1> QED
    BY <1>1, <1>2

\* A crash keeps the invariants.
LEMMA CrashStep ==
  ASSUME Inductive, Crash
  PROVE  Inductive'
  <1> USE DEF Inductive
  <1>1. /\ up' = "down" /\ CoreGone /\ rp' = ReplayIdle
        /\ log' \in CrashLog /\ home' \in CrashHome
        /\ UNCHANGED <<ntr, want, maybe, txn, dhdr, rerrs>>
    BY DEF Crash
  <1>2. used' \in UsedType
    BY DEF Crash, TypeOK, UsedType
  <1>3. rp' \in RpType /\ rp'.start < Size /\ rp'.orig < Size /\ \A b \in Blocks : rp'.buf[b] <= ntr
    BY <1>1, IdleFrame, NtrNat
  <1>4. /\ log' \in [Cells -> CellType]
        /\ \A c \in Cells : log'[c].uid <= ntr /\ (log'[c].uid # 0 => log'[c].k \in 1..Len(txn[log'[c].uid].hdrs))
    BY <1>1, CrashedLog
  <1>5. home' \in [Blocks -> Contents] /\ \A b \in Blocks : home'[b] = home[b] \/ home'[b] = TORN
    BY <1>1, CrashedHome
  <1> QED
    BY ZenonT(60), <1>1, <1>2, <1>3, <1>4, <1>5, DownStep

\* The frame r of replay_journal has its type, its offsets are wrapped and
\* it holds blocks of allocated transactions only.
FrameOK(r) ==
  r \in RpType /\ r.start < Size /\ r.orig < Size /\ \A b \in Blocks : r.buf[b] <= ntr

\* The frame of replay_journal is as FrameOK says.
LEMMA FrameNow == Inductive => FrameOK(rp)
  BY DEF Inductive, FrameOK, DiskInv, TypeOK, ReplayTypeOK

\* A step of the mount that keeps the frame, the header and the file system
\* blocks in their types keeps the invariants.
LEMMA MountStep ==
  ASSUME Inductive, up # "up", up' \in {"replay", "failed"},
         UNCHANGED <<coreVars, ntr, want, maybe, used, txn, log>>,
         rp' \in RpType, rp'.start < Size, rp'.orig < Size, \A b \in Blocks : rp'.buf[b] <= ntr,
         dhdr' \in [start : Offsets, end : Offsets, seq : Nat],
         home' \in [Blocks -> Contents], \A b \in Blocks : home'[b] <= ntr \/ home'[b] = TORN,
         rerrs' \in Nat
  PROVE  Inductive'
  <1> USE DEF Inductive
  <1>1. UNCHANGED <<jnl, ring, et, th, fin, io, cb>>
    BY ZenonT(60) DEF coreVars
  <1>2. TypeOK'
    BY ZenonT(60), <1>1 DEF TypeOK, ReplayTypeOK
  <1>3. OneFlusher' /\ LockInv' /\ RunPtr' /\ EtPtr' /\ CurPtr' /\ FinPtr' /\ IoPtr' /\ DownInv'
    <2>1. OneFlusher' /\ LockInv' /\ DownInv'
      BY ZenonT(60), <1>1 DEF OneFlusher, Flushing, LockInv, DownInv
    <2>2. RunPtr' /\ EtPtr'
      BY ZenonT(60), <1>1 DEF RunPtr, EtPtr
    <2>3. CurPtr' /\ FinPtr' /\ IoPtr'
      BY ZenonT(60), <1>1 DEF CurPtr, FinPtr, IoPtr
    <2> QED
      BY <2>1, <2>2, <2>3
  <1>4. TxnInv'
    BY ZenonT(60) DEF TxnInv, TxnFits
  <1>5. DiskInv'
    BY ZenonT(60) DEF DiskInv, TORN
  <1>6. WriteAhead'
    BY DEF WriteAhead
  <1> QED
    BY ZenonT(60), <1>2, <1>3, <1>4, <1>5, <1>6

\* A wrapped offset lies in the ring and below its end.
LEMMA WrapRange == \A p \in Offsets : Wrap(p) \in Offsets /\ Wrap(p) < Size
  BY ReplayAssumption DEF Wrap, Offsets

\* What the invariants say of the file system blocks.
LEMMA HomeNow ==
  Inductive => /\ home \in [Blocks -> Contents]
               /\ \A b \in Blocks : home[b] <= ntr \/ home[b] = TORN
               /\ rerrs \in Nat
  BY DEF Inductive, DiskInv, TypeOK, ReplayTypeOK

\* journal_open up to the replay keeps the invariants.
LEMMA OpenStep ==
  ASSUME Inductive, journal_open
  PROVE  Inductive'
  <1> USE DEF Inductive
  <1>1. /\ up # "up" /\ up' \in {"replay", "failed"} /\ rp' = ReplayStart
        /\ UNCHANGED <<coreVars, ntr, want, maybe, used, txn, log, dhdr, home, rerrs>>
    BY DEF journal_open, diskVars
  <1>2. PICK s \in Offsets, e \in Offsets : s = Wrap(dhdr.start) /\ e = Wrap(dhdr.end) /\ s < Size
    <2>1. dhdr.start \in Offsets /\ dhdr.end \in Offsets
      BY DhdrTyped
    <2> QED
      BY <2>1, WrapRange
  <1>3. PICK p \in {"clean", "read"} :
          rp' = [ReplayIdle EXCEPT !.pc = p, !.start = s, !.end = e, !.orig = s, !.past = TRUE]
    BY ZenonT(60), <1>1, <1>2 DEF ReplayStart
  <1>4. rp' \in RpType /\ rp'.start = s /\ rp'.orig = s /\ rp'.buf = ReplayIdle.buf
    BY ZenonT(60), <1>3, IdleFrame DEF RpType
  <1>5. \A b \in Blocks : rp'.buf[b] <= ntr
    BY <1>4, IdleFrame, NtrNat
  <1>6. rp'.start < Size /\ rp'.orig < Size
    BY <1>2, <1>4
  <1>7. dhdr' \in [start : Offsets, end : Offsets, seq : Nat]
    BY <1>1, DhdrTyped
  <1> QED
    BY ZenonT(60), <1>1, <1>4, <1>5, <1>6, <1>7, HomeNow, MountStep

\* bad_txn_handling keeps the frame well formed.
LEMMA BadTxnFrame ==
  ASSUME NEW r, FrameOK(r), ntr \in Nat
  PROVE  FrameOK(BadTxn(r))
  <1>1. CASE r.txs = 0 \/ r.retry = 3
    <2>1. BadTxn(r) = [r EXCEPT !.pc = "failed"]
      BY <1>1 DEF BadTxn
    <2> QED
      BY <2>1 DEF FrameOK, RpType
  <1>2. CASE ~(r.txs = 0 \/ r.retry = 3)
    <2>1. PICK e \in Offsets : e = r.txs
      BY <1>2, OffsetRange DEF FrameOK, RpType
    <2>2. PICK n \in 0..3 : n = r.retry + 1
      <3>1. r.retry \in 0..3 /\ r.retry # 3
        BY <1>2 DEF FrameOK, RpType
      <3> QED
        BY <3>1
    <2>3. PICK s \in Offsets : s = r.orig /\ s < Size
      BY DEF FrameOK, RpType
    <2>4. BadTxn(r) = [r EXCEPT !.retry = n, !.start = s, !.end = e,
                                !.past = FALSE, !.last = 0, !.buf = NoBuf]
      BY <1>2, <2>1, <2>2, <2>3 DEF BadTxn
    <2>5. NoBuf \in [Blocks -> NoneOrUid] /\ \A b \in Blocks : NoBuf[b] = 0
      BY NullPtr DEF NoBuf
    <2>6. PICK B \in [Blocks -> NoneOrUid] : B = NoBuf
      BY <2>5
    <2>7. PICK g : g = [r EXCEPT !.retry = n, !.start = s, !.end = e,
                                 !.past = FALSE, !.last = 0, !.buf = B]
      OBVIOUS
    <2>8. g \in RpType /\ g.start = s /\ g.orig = s /\ g.buf = B
      BY ZenonT(60), <2>3, <2>7 DEF FrameOK, RpType
    <2>9. FrameOK(g)
      BY <2>3, <2>5, <2>6, <2>8 DEF FrameOK
    <2> QED
      BY ZenonT(60), <2>4, <2>6, <2>7, <2>9
  <1> QED
    BY <1>1, <1>2

\* A block list header that does not verify leaves the frame well formed.
LEMMA BadHeaderFrame ==
  ASSUME NEW r, FrameOK(r), ntr \in Nat
  PROVE  FrameOK(BadHeader(r))
  <1>1. CASE r.past /\ r.uncharted
    <2>1. BadHeader(r) = [r EXCEPT !.past = FALSE, !.end = r.start]
      BY <1>1 DEF BadHeader
    <2> QED
      BY ZenonT(60), <2>1 DEF FrameOK, RpType
  <1>2. CASE ~(r.past /\ r.uncharted) /\ r.start = r.orig
    <2>1. BadHeader(r) = [r EXCEPT !.pc = "failed"]
      BY <1>2 DEF BadHeader
    <2> QED
      BY <2>1 DEF FrameOK, RpType
  <1>3. CASE ~(r.past /\ r.uncharted) /\ r.start # r.orig
    BY <1>3, BadTxnFrame DEF BadHeader
  <1> QED
    BY <1>1, <1>2, <1>3

\* A sequence number out of order leaves the frame well formed.
LEMMA BadSequenceFrame ==
  ASSUME NEW r, FrameOK(r), ntr \in Nat
  PROVE  FrameOK(BadSequence(r))
  <1>1. PICK s : s = [r EXCEPT !.txs = r.start, !.end = r.start]
    OBVIOUS
  <1>2. FrameOK(s)
    BY ZenonT(60), <1>1, OffsetRange DEF FrameOK, RpType
  <1>3. CASE r.past
    <2>1. BadSequence(r) = [s EXCEPT !.past = FALSE]
      BY <1>1, <1>3 DEF BadSequence
    <2> QED
      BY ZenonT(60), <2>1, <1>2 DEF FrameOK, RpType
  <1>4. CASE ~r.past
    BY <1>1, <1>2, <1>4, BadTxnFrame DEF BadSequence
  <1> QED
    BY <1>3, <1>4

\* Noting a header leaves the frame well formed.
LEMMA NotedFrame ==
  ASSUME TypeOK, NEW r, FrameOK(r), NEW u \in Uids, NEW k
  PROVE  FrameOK(Noted(r, u, k))
  <1>1. PICK q \in Nat : q = txn[u].seq
    BY TxnTyped DEF TxnType
  <1>2. PICK x \in NoneOrOffset : x = IF k = 1 THEN r.start ELSE r.txs
    BY OffsetRange DEF FrameOK, RpType
  <1>3. Noted(r, u, k) = [r EXCEPT !.last = q, !.txs = x]
    BY <1>1, <1>2 DEF Noted
  <1> QED
    BY ZenonT(60), <1>3 DEF FrameOK, RpType

\* The offset after a block list, wrapped, lies in the ring and below its
\* end.
LEMMA NextOffset ==
  ASSUME NEW s \in Offsets, s < Size, NEW n \in Nat, 1 + n <= Size - 1
  PROVE  Wrap(s + 1 + n) \in Offsets /\ Wrap(s + 1 + n) < Size
  BY ReplayAssumption DEF Wrap, Offsets

\* A block list on disk fits the ring.
LEMMA ListLength ==
  ASSUME Inductive, NEW u \in Uids, NEW k \in 1..Len(txn[u].hdrs)
  PROVE  Len(txn[u].hdrs[k]) \in Nat /\ 1 + Len(txn[u].hdrs[k]) <= Size - 1
  <1> USE DEF Inductive
  <1>1. PICK h \in Seq(Seq(Entry)) : h = txn[u].hdrs
    BY TxnTyped DEF TxnType
  <1>2. h[k] \in Seq(Entry)
    BY <1>1, ElementOfSeq
  <1>3. Len(h[k]) \in Nat
    BY <1>2, LenProperties
  <1>4. PICK m \in Nat : m = txn[u].total
    <2>1. txn[u].total \in NoneOrOffset
      BY TxnTyped DEF TxnType
    <2> QED
      BY <2>1, ReplayAssumption DEF NoneOrOffset
  <1>5. 1 + Len(h[k]) <= m /\ m <= Size - 1
    BY <1>1, <1>4 DEF TxnInv, TxnFits
  <1>6. 1 + Len(h[k]) <= Size - 1
    BY <1>3, <1>4, <1>5, ReplayAssumption
  <1> QED
    BY <1>1, <1>3, <1>6

\* A block list that verifies leaves the frame well formed.
LEMMA GoodHeaderFrame ==
  ASSUME Inductive, NEW r, FrameOK(r), NEW u \in Uids, u <= ntr, NEW k \in 1..Len(txn[u].hdrs)
  PROVE  FrameOK(GoodHeader(r, u, k))
  <1> USE DEF Inductive
  <1>1. PICK s : s = Noted(r, u, k) /\ FrameOK(s)
    BY NotedFrame
  <1>2. CASE ~GoodData(u, k, r.start)
    <2>1. GoodHeader(r, u, k) = BadTxn(s)
      BY <1>1, <1>2 DEF GoodHeader
    <2> QED
      BY <2>1, <1>1, BadTxnFrame, NtrNat
  <1>3. CASE GoodData(u, k, r.start)
    <2>1. PICK n \in Offsets : n = Wrap(r.start + 1 + Len(txn[u].hdrs[k])) /\ n < Size
      <3>1. PICK m \in Nat : m = Len(txn[u].hdrs[k]) /\ 1 + m <= Size - 1
        BY ZenonT(60), ListLength
      <3>2. r.start \in Offsets /\ r.start < Size
        BY DEF FrameOK, RpType
      <3> QED
        BY <3>1, <3>2, NextOffset
    <2>2. PICK B \in [Blocks -> NoneOrUid] :
            B = AddBlocks(r.buf, u, k) /\ \A b \in Blocks : B[b] <= ntr
      <3>1. r.buf \in [Blocks -> NoneOrUid] /\ \A b \in Blocks : r.buf[b] <= ntr
        BY DEF FrameOK, RpType
      <3>2. u \in NoneOrUid
        BY NullPtr
      <3>3. PICK B : B = AddBlocks(r.buf, u, k)
        OBVIOUS
      <3>4. B = [b \in Blocks |-> B[b]]
        BY <3>3 DEF AddBlocks
      <3>5. \A b \in Blocks : B[b] = u \/ B[b] = r.buf[b]
        BY <3>3 DEF AddBlocks
      <3>6. B \in [Blocks -> NoneOrUid] /\ \A b \in Blocks : B[b] <= ntr
        BY ZenonT(60), <3>1, <3>2, <3>4, <3>5
      <3> QED
        BY <3>3, <3>6
    <2>3. PICK K \in [Blocks -> NoneOrUid] :
            K = IF k = Len(txn[u].hdrs) /\ r.retry = 0 THEN B ELSE s.keep
      <3>1. s.keep \in [Blocks -> NoneOrUid]
        BY <1>1 DEF FrameOK, RpType
      <3> QED
        BY <3>1
    <2>4. PICK y \in BOOLEAN : y = (s.uncharted \/ n = r.end)
      BY ZenonT(60)
    <2>5. GoodHeader(r, u, k) = [s EXCEPT !.buf = B, !.start = n, !.uncharted = y, !.keep = K]
      BY <1>1, <1>3, <2>1, <2>2, <2>3, <2>4 DEF GoodHeader
    <2>6. PICK g : g = [s EXCEPT !.buf = B, !.start = n, !.uncharted = y, !.keep = K]
      OBVIOUS
    <2>7. g \in RpType /\ g.start = n /\ g.orig = s.orig /\ g.buf = B
      BY ZenonT(60), <2>6, <1>1 DEF FrameOK, RpType
    <2> QED
      BY <2>1, <2>2, <2>5, <2>6, <2>7, <1>1 DEF FrameOK
  <1> QED
    BY <1>2, <1>3

\* A written cell at the replay's start offset belongs to a block list of an
\* allocated transaction.
LEMMA StartCell ==
  ASSUME Inductive, NEW r, FrameOK(r), log[r.start].uid # 0
  PROVE  /\ log[r.start].uid \in Uids /\ log[r.start].uid <= ntr
         /\ log[r.start].k \in 1..Len(txn[log[r.start].uid].hdrs)
  <1> USE DEF Inductive
  <1>1. r.start \in Cells
    <2>1. r.start \in Offsets /\ r.start < Size
      BY DEF FrameOK, RpType
    <2> QED
      BY <2>1, ReplayAssumption DEF Offsets, Cells
  <1> QED
    BY <1>1, LogUid, CellInv

\* A turn of the loop of replay_journal leaves the frame well formed.
LEMMA TurnFrame ==
  ASSUME Inductive, NEW r, FrameOK(r)
  PROVE  FrameOK(ReplayTurn(r))
  <1> USE DEF Inductive
  <1>1. CASE ~IsHeader(log[r.start])
    <2>1. ReplayTurn(r) = BadHeader(r)
      BY <1>1 DEF ReplayTurn, HeaderAccepted
    <2> QED
      BY <2>1, BadHeaderFrame, NtrNat
  <1>2. CASE HeaderAccepted(r, log[r.start])
    <2>1. ReplayTurn(r) = GoodHeader(r, log[r.start].uid, log[r.start].k)
      BY <1>2 DEF ReplayTurn, HeaderAccepted
    <2>2. log[r.start].uid # 0
      BY <1>2 DEF HeaderAccepted, IsHeader
    <2> QED
      BY ZenonT(60), <2>1, <2>2, StartCell, GoodHeaderFrame
  <1>3. CASE IsHeader(log[r.start]) /\ ~HeaderAccepted(r, log[r.start])
    <2>1. ReplayTurn(r) = BadSequence(r)
      BY <1>3 DEF ReplayTurn
    <2> QED
      BY <2>1, BadSequenceFrame, NtrNat
  <1> QED
    BY <1>1, <1>2, <1>3

\* Every step of replay_journal keeps the invariants.
LEMMA OpenReplayStep ==
  ASSUME Inductive, OpenReplay
  PROVE  Inductive'
  <1> USE DEF Inductive
  <1>1. /\ up # "up" /\ up' \in {"replay", "failed"}
        /\ UNCHANGED <<coreVars, ntr, want, maybe, used, txn, log>>
    BY DEF OpenReplay, replay_journal, ReplayRead, ReplayReadError, ReplayLoopDone, ReplayBlock,
           ReplayWriteError, ReplayHeader
  <1>2. dhdr \in [start : Offsets, end : Offsets, seq : Nat] /\ FrameOK(rp) /\ ntr \in Nat
    BY ZenonT(60), DhdrTyped, FrameNow, NtrNat
  <1>3. SUFFICES /\ FrameOK(rp')
                 /\ dhdr' \in [start : Offsets, end : Offsets, seq : Nat]
                 /\ home' \in [Blocks -> Contents]
                 /\ \A b \in Blocks : home'[b] <= ntr \/ home'[b] = TORN
                 /\ rerrs' \in Nat
    <2>1. rp' \in RpType /\ rp'.start < Size /\ rp'.orig < Size /\ \A b \in Blocks : rp'.buf[b] <= ntr
      BY <1>3 DEF FrameOK
    <2> QED
      BY ZenonT(60), <1>1, <1>3, <2>1, MountStep
  <1>4. CASE ReplayRead
    <2>1. FrameOK(rp')
      BY ZenonT(60), <1>4, <1>2, TurnFrame DEF ReplayRead
    <2> QED
      BY ZenonT(60), <2>1, <1>2, <1>4, HomeNow DEF ReplayRead
  <1>5. CASE ReplayReadError
    <2>1. CASE rp' = BadTxn(rp)
      <3>1. FrameOK(rp')
        BY ZenonT(60), <2>1, <1>2, BadTxnFrame
      <3> QED
        BY SMTT(60), <3>1, <1>2, <1>5, HomeNow DEF ReplayReadError
    <2>2. CASE /\ HeaderAccepted(rp, log[rp.start])
               /\ rp' = BadTxn(Noted(rp, log[rp.start].uid, log[rp.start].k))
      <3>1. log[rp.start].uid # 0
        BY <2>2 DEF HeaderAccepted, IsHeader
      <3>2. PICK u \in Uids, k \in Nat : u = log[rp.start].uid /\ k = log[rp.start].k
        <4>1. log[rp.start].uid \in Uids /\ log[rp.start].k \in Nat
          BY SMTT(60), <3>1, <1>2, StartCell
        <4> QED
          BY ZenonT(60), <4>1
      <3>3. PICK s : s = Noted(rp, u, k) /\ FrameOK(s)
        BY ZenonT(60), <1>2, NotedFrame
      <3>4. rp' = BadTxn(s)
        BY <2>2, <3>2, <3>3
      <3>5. FrameOK(rp')
        BY ZenonT(60), <3>3, <3>4, <1>2, BadTxnFrame
      <3> QED
        BY SMTT(60), <3>5, <1>2, <1>5, HomeNow DEF ReplayReadError
    <2> QED
      BY ZenonT(60), <2>1, <2>2, <1>5 DEF ReplayReadError
  <1>6. CASE ReplayLoopDone \/ ReplayWriteError
    <2>1. \E p \in {"write", "failed"} : rp' = [rp EXCEPT !.pc = p]
      BY <1>6 DEF ReplayLoopDone, ReplayWriteError
    <2>2. FrameOK(rp')
      BY <2>1, <1>2 DEF FrameOK, RpType
    <2> QED
      BY <2>2, <1>2, <1>6, HomeNow DEF ReplayLoopDone, ReplayWriteError
  <1>7. ASSUME NEW b \in Blocks, ReplayBlock(b)
        PROVE  /\ FrameOK(rp')
               /\ dhdr' \in [start : Offsets, end : Offsets, seq : Nat]
               /\ home' \in [Blocks -> Contents]
               /\ \A c \in Blocks : home'[c] <= ntr \/ home'[c] = TORN
               /\ rerrs' \in Nat
    <2>1. PICK u \in NoneOrUid : u = rp.buf[b] /\ u <= ntr
      BY <1>2 DEF FrameOK, RpType
    <2>2. u \in Contents
      BY ReplayAssumption DEF NoneOrUid, Contents, TORN
    <2>3. home' \in [Blocks -> Contents] /\ \A c \in Blocks : home'[c] <= ntr \/ home'[c] = TORN
      BY ZenonT(60), <1>7, <2>1, <2>2, HomeNow DEF ReplayBlock
    <2>4. rp' = [rp EXCEPT !.buf[b] = 0]
      BY <1>7 DEF ReplayBlock
    <2>5. FrameOK(rp')
      BY <2>4, <1>2, NullPtr DEF FrameOK, RpType
    <2> QED
      BY ZenonT(60), <2>3, <2>5, <1>2, <1>7, HomeNow DEF ReplayBlock
  <1>8. CASE ReplayHeader
    <2>1. rp' = [rp EXCEPT !.pc = "done"]
      BY <1>8 DEF ReplayHeader
    <2>2. FrameOK(rp')
      BY <2>1, <1>2 DEF FrameOK, RpType
    <2>3. dhdr' \in [start : Offsets, end : Offsets, seq : Nat]
      BY ZenonT(60), <1>2, <1>8 DEF ReplayHeader, FrameOK, RpType
    <2> QED
      BY <2>2, <2>3, <1>8, HomeNow DEF ReplayHeader
  <1> QED
    BY ZenonT(60), <1>4, <1>5, <1>6, <1>7, <1>8 DEF OpenReplay, replay_journal

\* The end of journal_open keeps the invariants.
LEMMA OpenDoneStep ==
  ASSUME Inductive, OpenDone
  PROVE  Inductive'
  <1> USE DEF Inductive
  <1>1. /\ up = "replay"
        /\ UNCHANGED <<et, th, fin, io, cb, ntr, used, log, dhdr, home, rerrs>>
    BY DEF OpenDone, diskVars
  <1>2. CASE up' = "failed" /\ UNCHANGED <<jnl, ring, want, maybe, txn, rp>>
    <2>1. rp' \in RpType /\ rp'.start < Size /\ rp'.orig < Size /\ \A b \in Blocks : rp'.buf[b] <= ntr
      BY <1>2, FrameNow DEF FrameOK
    <2>2. UNCHANGED <<coreVars, ntr, want, maybe, used, txn, log>>
      BY <1>1, <1>2 DEF coreVars
    <2>3. dhdr' \in [start : Offsets, end : Offsets, seq : Nat]
      BY ZenonT(60), <1>1, DhdrTyped
    <2> QED
      BY <1>1, <1>2, <2>1, <2>2, <2>3, HomeNow, MountStep
  <1>3. CASE /\ up' = "up" /\ jnl' = FreshJnl(dhdr.seq) /\ ring' = FreshRing(rp.start, rp.end)
             /\ want' = home /\ maybe' = home /\ rp' = ReplayIdle
             /\ txn' = [u \in Uids |-> IF u <= ntr THEN [txn[u] EXCEPT !.st = "old"] ELSE txn[u]]
    <2>1. jnl' \in JnlType /\ ring' \in RingType
      <3>1. dhdr.seq \in Nat /\ rp.start \in Offsets /\ rp.end \in Offsets
        BY DhdrTyped, RpTyped DEF RpType
      <3> QED
        BY ZenonT(60), <1>3, <3>1, FreshTyped, FreshRingTyped
    <2>2. /\ txn' \in [Uids -> TxnType]
          /\ \A u \in Uids : /\ txn'[u].hdrs = txn[u].hdrs /\ txn'[u].total = txn[u].total
                             /\ u <= ntr => txn'[u].st = "old"
                             /\ ~(u <= ntr) => txn'[u] = txn[u]
      BY ZenonT(60), <1>3, TxnTyped DEF TxnType
    <2>3. rp' \in RpType /\ rp'.start < Size /\ rp'.orig < Size /\ \A b \in Blocks : rp'.buf[b] <= ntr
      BY <1>3, IdleFrame, NtrNat
    <2>4. TypeOK'
      BY <1>1, <1>3, <2>1, <2>2, <2>3, HomeNow DEF TypeOK, ReplayTypeOK
    <2>5. ASleep' /\ ~jnl'.flushing
      BY <1>1, <1>3 DEF ASleep, DownInv, FreshJnl
    <2>6. TxnInv'
      <3>1. ASSUME NEW u \in Uids
            PROVE  TxnFits(u)'
        <4>1. u \in Nat /\ ntr \in Nat
          BY SMTT(60), NtrNat DEF Uids
        <4>2. CASE u <= ntr
          <5>1. ~(u > ntr)
            BY <4>1, <4>2
          <5>2. txn'[u].st = "old" /\ txn'[u].hdrs = txn[u].hdrs /\ txn'[u].total = txn[u].total
            BY ZenonT(60), <2>2, <4>2
          <5> QED
            BY <5>1, <5>2, <1>1 DEF TxnInv, TxnFits
        <4>3. CASE ~(u <= ntr)
          BY ZenonT(60), <1>1, <2>2, <4>3 DEF TxnInv, TxnFits
        <4> QED
          BY <4>2, <4>3
      <3> QED
        BY <3>1 DEF TxnInv
    <2>7. DiskInv'
      BY ZenonT(60), <1>1, <2>2, <2>3, LogUid DEF DiskInv, TORN
    <2>8. WriteAhead'
      <3>1. ASSUME NEW b \in Blocks, home[b] \in Uids
            PROVE  home[b] <= ntr
        BY <3>1, ReplayAssumption DEF DiskInv, Uids, TORN
      <3> QED
        BY ZenonT(60), <3>1, <1>1, <2>2 DEF WriteAhead
    <2> QED
      BY ZenonT(60), <2>4, <2>5, <2>6, <2>7, <2>8, Asleep
  <1> QED
    BY <1>2, <1>3 DEF OpenDone
=============================================================================
