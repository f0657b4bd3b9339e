--------------------------- MODULE JournalProofs ----------------------------
(***************************************************************************)
(* The theorems about Journal.  Inductive (module Journal) holds initially *)
(* and is kept by every step; the invariants follow from it.               *)
(***************************************************************************)
EXTENDS JournalOwnerSteps, JournalDiskSteps, JournalRecoverySteps

\* A step that changes nothing keeps the invariants.
LEMMA StutterStep ==
  ASSUME Inductive, UNCHANGED vars
  PROVE  Inductive'
  <1> USE DEF Inductive
  <1>0. UNCHANGED <<up, jnl, ring, et, th, fin, io, cb, ntr, want, maybe, used, txn, log, dhdr, home, rp, rerrs>>
    BY DEF vars, coreVars, replayVars, diskVars
  <1>1. TypeOK'
    BY ZenonT(60), <1>0 DEF TypeOK, ReplayTypeOK
  <1>2. OneFlusher' /\ LockInv' /\ RunPtr' /\ EtPtr' /\ CurPtr' /\ FinPtr' /\ IoPtr' /\ DownInv'
    BY ZenonT(60), <1>0 DEF OneFlusher, Flushing, LockInv, RunPtr, EtPtr, CurPtr, FinPtr, IoPtr, DownInv
  <1>3. TxnInv' /\ DiskInv' /\ WriteAhead'
    BY <1>0 DEF TxnInv, TxnFits, DiskInv, WriteAhead
  <1> QED
    BY <1>1, <1>2, <1>3

\* The journal that journal_create leaves, opened, satisfies the inductive
\* invariant.
LEMMA InitInductive == Init => Inductive
  <1> SUFFICES ASSUME Init PROVE Inductive
    OBVIOUS
  <1>1. /\ \A t \in Threads : th[t].pc = "idle" /\ th[t].ret = "idle"
        /\ fin.pc = "none" /\ fin.by = NONE /\ io.tr = 0 /\ io.pending = {}
        /\ cb.s = 0 /\ cb.e = 0 /\ jnl.cur_tr = 0 /\ ~jnl.flushing
    BY DEF Init, Idle, NoFin, NoIO, NoCb, FreshJnl
  <1>2. \A u \in Uids : txn[u] = NoTxn
    BY DEF Init
  <1>3. NoTxn \in TxnType /\ NoTxn.st = "none" /\ NoTxn.total = 0 /\ Len(NoTxn.hdrs) = 0
    BY OffsetRange DEF NoTxn, TxnType
  <1>4. NoCell \in CellType /\ NoCell.uid = 0
    BY NullPtr DEF NoCell, CellType
  <1>5. NoBuf \in [Blocks -> Contents] /\ \A b \in Blocks : NoBuf[b] = 0
    BY ReplayAssumption DEF NoBuf, Contents, TORN
  <1>6. TypeOK
    <2>1. /\ jnl \in JnlType /\ ring \in RingType /\ et \in EtType /\ th \in [Threads -> ThType]
          /\ fin \in FinType /\ io \in IoType /\ cb \in CbType
      BY ZenonT(60), FreshTyped, NoIoTyped DEF Init
    <2>2. ntr \in NoneOrUid /\ want \in [Blocks -> Contents] /\ maybe \in [Blocks -> Contents]
      BY ZenonT(60), <1>5, NullPtr DEF Init
    <2>3. used \in [kill : Nat, err : Nat, homeerr : Nat, crash : Nat, close : Nat]
      BY DEF Init
    <2>4. txn \in [Uids -> TxnType] /\ log \in [Cells -> CellType]
      BY ZenonT(60), <1>3, <1>4 DEF Init
    <2>5. dhdr \in [start : Offsets, end : Offsets, seq : Nat]
      BY OffsetRange DEF Init
    <2>6. home \in [Blocks -> Contents] /\ rp \in RpType /\ rerrs \in Nat
      BY ZenonT(60), <1>5, IdleFrame DEF Init
    <2>7. up \in {"up", "down", "replay", "failed"}
      BY DEF Init
    <2> QED
      BY ZenonT(60), <2>1, <2>2, <2>3, <2>4, <2>5, <2>6, <2>7 DEF TypeOK, ReplayTypeOK
  <1>7. OneFlusher
    BY <1>1 DEF OneFlusher, Flushing, SpacePcs, FlushPcs
  <1>8. LockInv
    BY ZenonT(60), <1>1, NoThread DEF LockInv, HeldPcs, ClosePcs, EtPcs, RunPcs, SpacePcs
  <1>9. RunPtr /\ EtPtr /\ CurPtr
    BY <1>1 DEF RunPtr, EtPtr, CurPtr, HeldPcs, EtPcs, RunPcs, SpacePcs
  <1>10. FinPtr /\ IoPtr
    BY <1>1 DEF FinPtr, IoPtr
  <1>11. DownInv
    BY DEF Init, DownInv
  <1>12. TxnInv
    BY SMTT(60), <1>2, <1>3, ReplayAssumption DEF TxnInv, TxnFits
  <1>13. DiskInv
    BY SMTT(60), <1>4, <1>5, IdleFrame DEF Init, DiskInv
  <1>14. WriteAhead
    BY <1>5 DEF Init, WriteAhead, Uids
  <1> QED
    BY ZenonT(60), <1>6, <1>7, <1>8, <1>9, <1>10, <1>11, <1>12, <1>13, <1>14 DEF Inductive

\* Every step of the journal, of the driver, of a crash and of recovery
\* keeps the inductive invariant.
LEMMA NextInductive == Inductive /\ [Next]_vars => Inductive'
  <1> SUFFICES ASSUME Inductive, [Next]_vars PROVE Inductive'
    OBVIOUS
  <1>1. ASSUME NEW t \in Threads, Call(t) PROVE Inductive'
    <2>1. ASSUME NEW b \in Blocks, journal_modify_block(t, b) \/ journal_kill_block(t, b)
          PROVE  Inductive'
      BY <2>1, ModifyStep, KillStep
    <2>2. ASSUME NEW w \in BOOLEAN, FlushCheck(t, w) \/ FlushOwned(t, w)
          PROVE  Inductive'
      BY ZenonT(60), <2>2, FlushCheckStep, FlushOwnedStep
    <2> QED
      BY ZenonT(60), <1>1, <2>1, <2>2, StartCheckStep, StartStep, StartNestedStep, RequestFlushStep,
         EndNestedStep, EndStep, FlushLockStep, CloseLockStep DEF Call
  <1>2. ASSUME NEW t \in Threads, Inside(t) PROVE Inductive'
    BY ZenonT(60), <1>2, EtLockStep, EtSpaceStep, EtScanStep, EtPassStep, EtGoStep, FlushHeldWaitStep,
       FlushEndStep, FlushWaitStep, FlushOwnedWaitStep, CloseBufferedStep, CloseDrainStep,
       CloseAsyncStep, CloseFreeStep DEF Inside
  <1>3. CASE write_header_thread
    BY <1>3, WriteHeaderStep
  <1>4. CASE Finisher
    BY ZenonT(60), <1>4, FinBmapErrorStep, FinWaitStep, FinWriteStep, FinHeaderStep, FinHomeStep,
       FinDoneStep, FinBadStep, FinLockStep DEF Finisher
  <1>5. CASE Driver
    BY <1>5, HomeDoneStep, CallbackWalkStep, CallbackEndStep DEF Driver
  <1>6. CASE Recovery
    BY ZenonT(60), <1>6, CrashStep, OpenStep, OpenReplayStep, OpenDoneStep DEF Recovery
  <1>7. CASE Rest \/ UNCHANGED vars
    BY <1>7, StutterStep DEF Rest
  <1> QED
    BY ZenonT(60), <1>1, <1>2, <1>3, <1>4, <1>5, <1>6, <1>7 DEF Next

\* The inductive invariant holds in every reachable state, for any number of
\* threads, blocks and transactions and any ring size.
THEOREM InductiveHolds == Spec => []Inductive
  BY InitInductive, NextInductive, PTL DEF Spec

\* Every variable keeps its type: no pointer in the ring leaves it, no
\* transaction outgrows it and no return address is lost, across crashes and
\* replays too.
THEOREM TypeCorrect == Spec => []TypeOK
  <1>1. Inductive => TypeOK
    BY ZenonT(60) DEF Inductive
  <1> QED
    BY <1>1, InductiveHolds, PTL

\* The flushing condition of the journal has at most one holder, and whoever
\* runs end_transaction past its lock or finish_end_transaction is that
\* holder: two transactions are never written into the ring at the same
\* time.
THEOREM OneFlusherAlways == Spec => []OneFlusher
  <1>1. Inductive => OneFlusher
    BY DEF Inductive
  <1> QED
    BY <1>1, InductiveHolds, PTL

\* No block reaches its home on disk before the transaction that holds it
\* was committed, whatever the interleaving, the errors and the crashes.
THEOREM WriteAheadAlways == Spec => []WriteAhead
  <1>1. Inductive => WriteAhead
    BY DEF Inductive
  <1> QED
    BY <1>1, InductiveHolds, PTL

\* No call of the journal, and no wait inside it, writes a file system
\* block.
LEMMA CallsLeaveHome ==
  ASSUME NEW t \in Threads, Call(t) \/ Inside(t)
  PROVE  UNCHANGED home
  <1>1. CASE Call(t)
    <2>1. StartCheck(t) => UNCHANGED home
      BY DEF StartCheck, diskVars
    <2>2. journal_start_transaction(t) => UNCHANGED home
      BY DEF journal_start_transaction, diskVars
    <2>3. StartNested(t) => UNCHANGED home
      BY DEF StartNested, diskVars
    <2>4. journal_request_immediate_flush(t) => UNCHANGED home
      BY DEF journal_request_immediate_flush, diskVars
    <2>5. EndNested(t) => UNCHANGED home
      BY DEF EndNested, diskVars
    <2>6. journal_end_transaction(t) => UNCHANGED home
      BY DEF journal_end_transaction, diskVars
    <2>7. FlushLock(t) => UNCHANGED home
      BY DEF FlushLock, diskVars
    <2>8. CloseLock(t) => UNCHANGED home
      BY DEF CloseLock, diskVars
    <2>9. ASSUME NEW b \in Blocks, journal_modify_block(t, b) \/ journal_kill_block(t, b)
          PROVE  UNCHANGED home
      <3>1. journal_modify_block(t, b) => UNCHANGED home
        BY ZenonT(60) DEF journal_modify_block, diskVars
      <3>2. journal_kill_block(t, b) => UNCHANGED home
        BY ZenonT(60) DEF journal_kill_block, diskVars
      <3> QED
        BY <2>9, <3>1, <3>2
    <2>10. (\E wio \in BOOLEAN : FlushCheck(t, wio) \/ FlushOwned(t, wio)) => UNCHANGED home
      BY DEF FlushCheck, FlushOwned, diskVars
    <2> QED
      BY ZenonT(60), <1>1, <2>1, <2>2, <2>3, <2>4, <2>5, <2>6, <2>7, <2>8, <2>9, <2>10 DEF Call
  <1>2. CASE Inside(t)
    <2>1. EtLock(t) => UNCHANGED home
      BY DEF EtLock, diskVars
    <2>2. EtSpace(t) => UNCHANGED home
      BY DEF EtSpace, diskVars
    <2>3. EtScan(t) => UNCHANGED home
      BY DEF EtScan, diskVars
    <2>4. EtPass(t) => UNCHANGED home
      BY DEF EtPass, diskVars
    <2>5. EtGo(t) => UNCHANGED home
      BY DEF EtGo, diskVars
    <2>6. FlushHeldWait(t) => UNCHANGED home
      BY DEF FlushHeldWait, diskVars
    <2>7. FlushEnd(t) => UNCHANGED home
      BY DEF FlushEnd, diskVars
    <2>8. FlushWait(t) => UNCHANGED home
      BY DEF FlushWait, diskVars
    <2>9. FlushOwnedWait(t) => UNCHANGED home
      BY DEF FlushOwnedWait, diskVars
    <2>10. CloseBuffered(t) => UNCHANGED home
      BY DEF CloseBuffered, diskVars
    <2>11. CloseDrain(t) => UNCHANGED home
      BY DEF CloseDrain, diskVars
    <2>12. CloseAsync(t) => UNCHANGED home
      BY DEF CloseAsync, diskVars
    <2>13. CloseFree(t) => UNCHANGED home
      BY DEF CloseFree, diskVars
    <2> QED
      BY ZenonT(60), <1>2, <2>1, <2>2, <2>3, <2>4, <2>5, <2>6, <2>7, <2>8, <2>9, <2>10, <2>11, <2>12, <2>13 DEF Inside
  <1> QED
    BY <1>1, <1>2

\* The flush and header threads, the end of the callback and the mount write
\* no file system block themselves: finish_end_transaction only hands the
\* home writes to the driver.
LEMMA FinisherLeavesHome ==
  ASSUME write_header_thread \/ Finisher \/ CallbackWalk \/ CallbackEnd \/ journal_open \/ OpenDone
  PROVE  UNCHANGED home
  <1>1. write_header_thread => UNCHANGED home
    BY DEF write_header_thread, diskVars
  <1>2. FinBmapError => UNCHANGED home
    BY DEF FinBmapError, diskVars
  <1>3. FinWait => UNCHANGED home
    BY DEF FinWait, diskVars
  <1>4. FinWrite => UNCHANGED home
    BY DEF FinWrite, diskVars
  <1>5. FinHeader => UNCHANGED home
    BY DEF FinHeader, diskVars
  <1>6. FinHome => UNCHANGED home
    BY DEF FinHome, diskVars
  <1>7. FinDone => UNCHANGED home
    BY DEF FinDone, diskVars
  <1>8. FinBad => UNCHANGED home
    BY DEF FinBad, diskVars
  <1>9. FinLock => UNCHANGED home
    BY DEF FinLock, diskVars
  <1>10. CallbackWalk => UNCHANGED home
    BY ZenonT(60) DEF CallbackWalk, diskVars
  <1>11. CallbackEnd => UNCHANGED home
    BY DEF CallbackEnd, diskVars
  <1>12. journal_open => UNCHANGED home
    BY DEF journal_open, diskVars
  <1>13. OpenDone => UNCHANGED home
    BY DEF OpenDone, diskVars
  <1> QED
    BY ZenonT(60), <1>1, <1>2, <1>3, <1>4, <1>5, <1>6, <1>7, <1>8, <1>9, <1>10, <1>11, <1>12, <1>13 DEF Finisher

\* A crash leaves a file system block as it was or torn.
LEMMA CrashTears ==
  ASSUME Crash, NEW b \in Blocks
  PROVE  home'[b] = home[b] \/ home'[b] = TORN
  BY DEF Crash, CrashHome

\* A home write that completes is one of the transaction whose I/O is under
\* way, which is committed.
LEMMA HomeWriteIsCommitted ==
  ASSUME Inductive, NEW x \in io.pending, HomeDone(x), NEW b \in Blocks
  PROVE  home'[b] = home[b] \/ txn[home'[b]].st \in {"committed", "home"}
  <1>1. txn[io.tr].st \in {"committed", "home"}
    BY ZenonT(60) DEF Inductive, IoPtr
  <1>2. home \in [Blocks -> Contents]
    BY DEF Inductive, TypeOK, ReplayTypeOK
  <1>3. home' = home \/ \E c : home' = [home EXCEPT ![c] = io.tr]
    BY ZenonT(60) DEF HomeDone
  <1> QED
    BY ZenonT(60), <1>1, <1>2, <1>3

\* What a step puts into a file system block belongs to a committed
\* transaction.
LEMMA HomeStep ==
  ASSUME Inductive, [Next]_vars, NEW b \in Blocks, up = "up", home'[b] \in Uids \ {home[b]}
  PROVE  txn[home'[b]].st \in {"committed", "home"}
  <1>1. CASE \E t \in Threads : Call(t) \/ Inside(t)
    BY ZenonT(60), <1>1, CallsLeaveHome
  <1>2. CASE write_header_thread \/ Finisher \/ CallbackWalk \/ CallbackEnd \/ journal_open \/ OpenDone
    BY ZenonT(60), <1>2, FinisherLeavesHome
  <1>3. CASE \E x \in io.pending : HomeDone(x)
    BY ZenonT(60), <1>3, HomeWriteIsCommitted
  <1>4. CASE Crash
    <2>1. TORN \notin Uids
      BY ReplayAssumption DEF TORN, Uids
    <2> QED
      BY ZenonT(60), <1>4, <2>1, CrashTears
  <1>5. CASE OpenReplay
    BY ZenonT(60), <1>5 DEF OpenReplay
  <1>6. CASE Rest \/ UNCHANGED vars
    BY <1>6 DEF Rest, vars, diskVars
  <1> QED
    BY ZenonT(60), <1>1, <1>2, <1>3, <1>4, <1>5, <1>6 DEF Next, Driver, Recovery

\* Every home write that lands, also after a failed flush has made the
\* journal invalid, is one of a transaction that was committed when it
\* landed.
THEOREM HomeWritesFollowCommit == Spec => HomeAfterCommit
  <1>1. Inductive /\ [Next]_vars =>
          (\A b \in Blocks : (up = "up" /\ home'[b] \in Uids \ {home[b]}) =>
             txn[home'[b]].st \in {"committed", "home"})
    BY HomeStep
  <1> QED
    BY <1>1, InductiveHolds, PTL DEF Spec, HomeAfterCommit
=============================================================================
