------------------------- MODULE JournalThreadSteps -------------------------
(***************************************************************************)
(* The calls of the journal's interface keep the inductive invariant: one  *)
(* lemma per action of a thread.  Most of them are instances of two        *)
(* shapes: ThreadStep (a thread goes from a place to one of the same kind) *)
(* and OwnerStep (the thread that has or takes the journal lock moves and  *)
(* hands on what it holds).                                                *)
(***************************************************************************)
EXTENDS JournalFacts

\* journal_start_transaction, before the lock, keeps the invariants.
LEMMA StartCheckStep ==
  ASSUME Inductive, NEW t \in Threads, StartCheck(t)
  PROVE  Inductive'
  <1> USE DEF Inductive
  <1>1. th[t].pc = "idle" /\ th' = [th EXCEPT ![t].pc = "st_lock"]
    BY ZenonT(60) DEF StartCheck, At, Goto
  <1>2. ThIs(t, "st_lock", th[t].ret)
    BY ZenonT(60), <1>1, ThMoves DEF Pcs
  <1> QED
    BY <1>1, <1>2, Kinds, ThreadStep DEF StartCheck, At, diskVars

\* journal_flush, before the lock, keeps the invariants.
LEMMA FlushCheckStep ==
  ASSUME Inductive, NEW t \in Threads, NEW wio \in BOOLEAN, FlushCheck(t, wio)
  PROVE  Inductive'
  <1> USE DEF Inductive
  <1>1. th[t].pc = "idle" /\ th' = [th EXCEPT ![t].pc = "jf_lock", ![t].wio = wio]
    BY ZenonT(60) DEF FlushCheck, At
  <1>2. ThIs(t, "jf_lock", th[t].ret)
    BY ZenonT(60), <1>1, ThFlushes DEF Pcs
  <1> QED
    BY <1>1, <1>2, Kinds, ThreadStep DEF FlushCheck, At, diskVars

\* journal_flush called by the owner of the journal keeps the invariants.
LEMMA FlushOwnedStep ==
  ASSUME Inductive, NEW t \in Threads, NEW wio \in BOOLEAN, FlushOwned(t, wio)
  PROVE  Inductive'
  <1> USE DEF Inductive
  <1>1. th[t].pc = "run" /\ th' = [th EXCEPT ![t].pc = "jo_wait", ![t].wio = wio]
    BY ZenonT(60) DEF FlushOwned, At
  <1>2. ThIs(t, "jo_wait", th[t].ret)
    BY ZenonT(60), <1>1, ThFlushes DEF Pcs
  <1> QED
    BY <1>1, <1>2, Kinds, ThreadStep DEF FlushOwned, At, diskVars

\* Its waits keep the invariants.
LEMMA FlushOwnedWaitStep ==
  ASSUME Inductive, NEW t \in Threads, FlushOwnedWait(t)
  PROVE  Inductive'
  <1> USE DEF Inductive
  <1>1. PICK p \in {"jo_aio", "run"} : /\ th' = [th EXCEPT ![t].pc = p]
                                       /\ SameKind(th[t].pc, p)
    BY ZenonT(60), Kinds DEF FlushOwnedWait, At, Goto
  <1>2. ThIs(t, p, th[t].ret)
    BY ZenonT(60), <1>1, ThMoves DEF Pcs
  <1> QED
    BY <1>1, <1>2, ThreadStep DEF FlushOwnedWait, At, diskVars

\* The waits of a journal_flush that flushed keep the invariants.
LEMMA FlushHeldWaitStep ==
  ASSUME Inductive, NEW t \in Threads, FlushHeldWait(t)
  PROVE  Inductive'
  <1> USE DEF Inductive
  <1>1. PICK p \in {"jf_async", "jf_end"} : /\ th' = [th EXCEPT ![t].pc = p]
                                            /\ SameKind(th[t].pc, p)
    BY ZenonT(60), Kinds DEF FlushHeldWait, At, Goto
  <1>2. ThIs(t, p, th[t].ret)
    BY ZenonT(60), <1>1, ThMoves DEF Pcs
  <1> QED
    BY <1>1, <1>2, ThreadStep DEF FlushHeldWait, At, diskVars

\* The waits of a journal_flush that found nothing to flush keep the
\* invariants.
LEMMA FlushWaitStep ==
  ASSUME Inductive, NEW t \in Threads, FlushWait(t)
  PROVE  Inductive'
  <1> USE DEF Inductive
  <1>1. CASE th[t].pc \in {"jf_wait", "jf_aio"}
    <2>1. PICK p \in {"jf_aio", "jf_ret"} : /\ th' = [th EXCEPT ![t].pc = p]
                                            /\ SameKind(th[t].pc, p)
      BY ZenonT(60), <1>1, Kinds DEF FlushWait, At, Goto
    <2>2. ThIs(t, p, th[t].ret)
      BY ZenonT(60), <2>1, ThMoves DEF Pcs
    <2> QED
      BY <2>1, <2>2, ThreadStep DEF FlushWait, At, diskVars
  <1>2. CASE th[t].pc = "jf_ret"
    <2>1. th' = [th EXCEPT ![t] = Idle]
      BY <1>2 DEF FlushWait, At, Goto
    <2>2. ThIs(t, "idle", "idle")
      BY <2>1, ThTyped, NullPtr DEF ThType, ThIs, Idle, Pcs, Returns
    <2>3. th[t].pc \notin EtPcs \cup {"sync"}
      BY <1>2 DEF EtPcs, SpacePcs
    <2> QED
      BY ZenonT(60), <1>2, <2>2, <2>3, Kinds, ThreadStep DEF FlushWait, At, diskVars
  <1> QED
    BY <1>1, <1>2 DEF FlushWait, At

\* The wait of journal_close for the home writes keeps the invariants.
LEMMA CloseAsyncStep ==
  ASSUME Inductive, NEW t \in Threads, CloseAsync(t)
  PROVE  Inductive'
  <1> USE DEF Inductive
  <1>1. th[t].pc = "cl_async" /\ th' = [th EXCEPT ![t].pc = "cl_free"]
    BY ZenonT(60) DEF CloseAsync, At, Goto
  <1>2. ThIs(t, "cl_free", th[t].ret)
    BY ZenonT(60), <1>1, ThMoves DEF Pcs
  <1> QED
    BY <1>1, <1>2, Kinds, ThreadStep DEF CloseAsync, At, diskVars

\* A nested journal_start_transaction keeps the invariants.
LEMMA StartNestedStep ==
  ASSUME Inductive, NEW t \in Threads, StartNested(t)
  PROVE  Inductive'
  <1> USE DEF Inductive
  <1>1. /\ up = "up"
        /\ UNCHANGED <<up, ring, et, th, fin, io, cb, ntr, want, maybe, used, txn,
                       log, dhdr, home, rp, rerrs>>
    BY DEF StartNested, At, diskVars
  <1>2. jnl' \in JnlType /\ JnlKeeps
    BY JnlTyped DEF StartNested, JnlType, JnlKeeps
  <1>3. TypeOK'
    BY <1>1, <1>2 DEF TypeOK, ReplayTypeOK
  <1>4. EtKeeps /\ FinKeeps /\ TxnKeeps
    BY <1>1 DEF EtKeeps, FinKeeps, TxnKeeps
  <1> QED
    BY ZenonT(60), <1>1, <1>2, <1>3, <1>4, AllKeep, IoKept, QuietStep

\* A nested journal_end_transaction keeps the invariants.
LEMMA EndNestedStep ==
  ASSUME Inductive, NEW t \in Threads, EndNested(t)
  PROVE  Inductive'
  <1> USE DEF Inductive
  <1>1. /\ up = "up" /\ jnl.nested_count > 1
        /\ UNCHANGED <<up, ring, et, th, fin, io, cb, ntr, want, maybe, used, txn,
                       log, dhdr, home, rp, rerrs>>
    BY DEF EndNested, At, diskVars
  <1>2. jnl' \in JnlType /\ JnlKeeps
    BY <1>1, JnlTyped DEF EndNested, JnlType, JnlKeeps
  <1>3. TypeOK'
    BY <1>1, <1>2 DEF TypeOK, ReplayTypeOK
  <1>4. EtKeeps /\ FinKeeps /\ TxnKeeps
    BY <1>1 DEF EtKeeps, FinKeeps, TxnKeeps
  <1> QED
    BY ZenonT(60), <1>1, <1>2, <1>3, <1>4, AllKeep, IoKept, QuietStep

\* journal_request_immediate_flush keeps the invariants.
LEMMA RequestFlushStep ==
  ASSUME Inductive, NEW t \in Threads, journal_request_immediate_flush(t)
  PROVE  Inductive'
  <1> USE DEF Inductive
  <1>1. /\ up = "up" /\ th[t].pc = "run"
        /\ UNCHANGED <<up, jnl, ring, et, th, fin, io, cb, ntr, want, maybe, used,
                       log, dhdr, home, rp, rerrs>>
    BY DEF journal_request_immediate_flush, At, coreVars, diskVars
  <1>2. PICK u \in Uids : u = jnl.active_tr
    BY <1>1 DEF RunPtr, RunPcs
  <1>3. TxnIs(u, txn[u].st, txn[u].js, txn[u].je)
    BY ZenonT(60), <1>2, TxnForced DEF journal_request_immediate_flush
  <1>4. txn' \in [Uids -> TxnType] /\ TxnKeeps
    BY <1>3 DEF TxnIs, TxnKeeps
  <1>5. TypeOK'
    BY <1>1, <1>4 DEF TypeOK, ReplayTypeOK
  <1>6. JnlKeeps /\ EtKeeps /\ FinKeeps
    BY ZenonT(60), <1>1 DEF JnlKeeps, EtKeeps, FinKeeps
  <1> QED
    BY ZenonT(60), <1>1, <1>4, <1>5, <1>6, AllKeep, IoKept, QuietStep

\* The tests at the top of check_free_space keep the invariants.
LEMMA EtSpaceStep ==
  ASSUME Inductive, NEW t \in Threads, EtSpace(t)
  PROVE  Inductive'
  <1> USE DEF Inductive
  <1>1. /\ up = "up" /\ th[t].pc = "et_space"
        /\ UNCHANGED <<up, jnl, ring, fin, io, cb, ntr, want, maybe, used, txn,
                       log, dhdr, home, rp, rerrs>>
    BY DEF EtSpace, At, diskVars
  <1>2. PICK p \in {"et_go", "et_scan"} : th' = [th EXCEPT ![t].pc = p]
    BY ZenonT(60) DEF EtSpace, Goto
  <1>3. ThIs(t, p, th[t].ret)
    BY ZenonT(60), <1>2, ThMoves DEF Pcs
  <1>4. \A s \in Threads : ThreadKeeps(s)
    BY ZenonT(60), <1>1, <1>2, <1>3, Kinds, KindKept DEF SpacePcs
  <1>5. et' = et \/ et' = [et EXCEPT !.i = 1, !.empty = TRUE]
    BY DEF EtSpace
  <1>6. et' \in EtType /\ EtKeeps
    BY ZenonT(60), <1>5, EtTyped, FirstSlot DEF EtType, EtKeeps
  <1>7. TypeOK'
    BY <1>1, <1>3, <1>6 DEF TypeOK, ReplayTypeOK, ThIs
  <1>8. JnlKeeps /\ FinKeeps /\ TxnKeeps
    BY <1>1 DEF JnlKeeps, FinKeeps, TxnKeeps
  <1> QED
    BY ZenonT(60), <1>1, <1>4, <1>6, <1>7, <1>8, IoKept, QuietStep

\* The end of a pass of check_free_space keeps the invariants.
LEMMA EtPassStep ==
  ASSUME Inductive, NEW t \in Threads, EtPass(t)
  PROVE  Inductive'
  <1> USE DEF Inductive
  <1>1. /\ up = "up" /\ th[t].pc = "et_pass"
        /\ UNCHANGED <<up, jnl, fin, io, cb, ntr, want, maybe, used, txn,
                       log, dhdr, home, rp, rerrs>>
    BY DEF EtPass, At, diskVars
  <1>2. th' = [th EXCEPT ![t].pc = "et_space"]
    BY ZenonT(60) DEF EtPass, Goto
  <1>3. ThIs(t, "et_space", th[t].ret)
    BY ZenonT(60), <1>2, ThMoves DEF Pcs
  <1>4. \A s \in Threads : ThreadKeeps(s)
    BY ZenonT(60), <1>1, <1>3, Kinds, KindKept DEF SpacePcs
  <1>5. et' = et \/ et' = [et EXCEPT !.delayed = TRUE]
    BY DEF EtPass
  <1>6. et' \in EtType /\ EtKeeps
    BY ZenonT(60), <1>5, EtTyped DEF EtType, EtKeeps
  <1>7. ring' = ring \/ ring' = [ring EXCEPT !.start = ring.active_start]
    BY DEF EtPass
  <1>8. ring' \in RingType
    BY <1>7, RingTyped DEF RingType
  <1>9. TypeOK'
    BY <1>1, <1>3, <1>6, <1>8 DEF TypeOK, ReplayTypeOK, ThIs
  <1>10. JnlKeeps /\ FinKeeps /\ TxnKeeps
    BY <1>1 DEF JnlKeeps, FinKeeps, TxnKeeps
  <1> QED
    BY ZenonT(60), <1>1, <1>4, <1>6, <1>9, <1>10, IoKept, QuietStep

\* The scan of old_start in check_free_space keeps the invariants.
LEMMA EtScanStep ==
  ASSUME Inductive, NEW t \in Threads, EtScan(t)
  PROVE  Inductive'
  <1> USE DEF Inductive
  <1>1. /\ up = "up" /\ th[t].pc = "et_scan"
        /\ UNCHANGED <<up, jnl, fin, io, cb, ntr, want, maybe, used, txn,
                       log, dhdr, home, rp, rerrs>>
    BY DEF EtScan, At, diskVars
  <1>2. PICK p \in {"et_space", "et_pass", "et_scan"} : th' = [th EXCEPT ![t].pc = p]
    BY ZenonT(60) DEF EtScan, Goto
  <1>3. ThIs(t, p, th[t].ret)
    BY ZenonT(60), <1>2, ThMoves DEF Pcs
  <1>4. \A s \in Threads : ThreadKeeps(s)
    BY ZenonT(60), <1>1, <1>2, <1>3, Kinds, KindKept DEF SpacePcs
  <1>5. PICK stop \in et.i..(NOldStart + 1), start \in 1..Size :
          /\ ring' = [ring EXCEPT !.start = start,
                        !.old_start = [j \in 1..NOldStart |-> IF j \in Consumed(stop) THEN Free
                                                              ELSE @[j]]]
          /\ et' = [et EXCEPT !.i = stop, !.empty = @ /\ Consumed(stop) = {},
                              !.delayed = @ \/ StopsWithRoom(stop)]
    BY ZenonT(60) DEF EtScan
  <1>6. stop \in Slots /\ start \in Offsets
    BY <1>5, EtTyped, JournalAssumption DEF EtType, Slots, Offsets
  <1>7. et' \in EtType /\ EtKeeps
    BY ZenonT(60), <1>5, <1>6, EtTyped DEF EtType, EtKeeps, StopsWithRoom
  <1>8. ring' \in RingType
    BY ZenonT(60), <1>5, <1>6, RingTyped, OffsetRange DEF RingType, Free
  <1>9. TypeOK'
    BY ZenonT(60), <1>1, <1>3, <1>7, <1>8 DEF TypeOK, ReplayTypeOK, ThIs
  <1>10. JnlKeeps /\ FinKeeps /\ TxnKeeps
    BY <1>1 DEF JnlKeeps, FinKeeps, TxnKeeps
  <1> QED
    BY ZenonT(60), <1>1, <1>4, <1>7, <1>9, <1>10, IoKept, QuietStep

\* The loop of journal_close that waits for the ring to empty keeps the
\* invariants.
LEMMA CloseDrainStep ==
  ASSUME Inductive, NEW t \in Threads, CloseDrain(t)
  PROVE  Inductive'
  <1> USE DEF Inductive
  <1>1. /\ up = "up" /\ th[t].pc = "cl_drain"
        /\ UNCHANGED <<up, et, fin, io, cb, ntr, want, maybe, txn, log, home, rp, rerrs>>
    BY DEF CloseDrain, At
  <1>2. th' = [th EXCEPT ![t].pc = "cl_async"]
    BY ZenonT(60) DEF CloseDrain, Goto
  <1>3. ThIs(t, "cl_async", th[t].ret)
    BY ZenonT(60), <1>2, ThMoves DEF Pcs
  <1>4. \A s \in Threads : ThreadKeeps(s)
    BY <1>1, <1>3, Kinds, KindKept
  <1>5. jnl' = jnl \/ jnl' = [jnl EXCEPT !.invalid = TRUE]
    BY DEF CloseDrain
  <1>6. jnl' \in JnlType /\ JnlKeeps
    BY ZenonT(60), <1>5, JnlTyped DEF JnlType, JnlKeeps
  <1>7. ring' = [ring EXCEPT !.start = ring.active_start]
    BY DEF CloseDrain
  <1>8. ring' \in RingType
    BY <1>7, RingTyped DEF RingType
  <1>9. dhdr' \in [start : Offsets, end : Offsets, seq : Nat]
    BY RingFields, JnlFields, DhdrTyped DEF CloseDrain
  <1>10. used' \in [kill : Nat, err : Nat, homeerr : Nat, crash : Nat, close : Nat]
    BY DEF CloseDrain, IOError, TypeOK
  <1>11. TypeOK'
    BY <1>1, <1>3, <1>6, <1>8, <1>9, <1>10 DEF TypeOK, ReplayTypeOK, ThIs
  <1>12. EtKeeps /\ FinKeeps /\ TxnKeeps
    BY <1>1 DEF EtKeeps, FinKeeps, TxnKeeps
  <1> QED
    BY ZenonT(60), <1>1, <1>4, <1>6, <1>11, <1>12, IoKept, QuietStep

\* The transactions are as they were, but open ones may have been aborted.
OnlyAborts ==
  /\ txn' \in [Uids -> TxnType]
  /\ \A u \in Uids : /\ txn'[u].js = txn[u].js /\ txn'[u].je = txn[u].je
                     /\ txn'[u].hdrs = txn[u].hdrs /\ txn'[u].total = txn[u].total
                     /\ \/ txn'[u].st = txn[u].st
                        \/ txn[u].st = "open" /\ txn'[u].st = "aborted"

\* The flushing condition is taken on the way to the space check and nowhere
\* else.
FlushBegins(p) ==
  \/ p \notin SpacePcs /\ jnl'.flushing = jnl.flushing
  \/ p \in SpacePcs /\ ~jnl.flushing /\ jnl'.flushing /\ ~jnl.flush_aborted

\* What the thread that goes to p has to hold there: the lock, the
\* transaction and the frame of end_transaction.
OwnerGoes(t, p, r) ==
  /\ p \in HeldPcs \cup ClosePcs => jnl'.owner = t
  /\ p \in EtPcs => (et'.drop <=> r # "cl_drain") /\ (~et'.drop => et'.wait)
  /\ p \in RunPcs => jnl'.active_tr \in Uids /\ txn'[jnl'.active_tr].st = "open"
  /\ p \in HeldPcs \ RunPcs => et'.tr \in Uids /\ txn'[et'.tr].st = "open"
  /\ p \in HeldPcs => jnl'.cur_tr = 0
  /\ jnl'.cur_tr # 0 => txn'[jnl'.cur_tr].st = "open"

\* Whoever gets the journal lock is the only thread at a place where it is
\* held.
LEMMA Alone ==
  ASSUME LockInv, NEW t \in Threads, jnl.owner \in {t, NONE}
  PROVE  \A s \in Threads : s # t => /\ th[s].pc \notin HeldPcs \cup ClosePcs
                                     /\ ~(th[s].pc = "sync" /\ th[s].ret = "cl_drain")
  BY ZenonT(60), NoThread DEF LockInv

\* A step of the thread that has or takes the journal lock keeps the
\* invariants, provided it has at its new place what it needs there.
LEMMA OwnerStep ==
  ASSUME Inductive, TypeOK', up = "up", UNCHANGED <<up, fin, io, cb, ntr, log, home, rp>>,
         NEW t \in Threads, NEW p, NEW r, jnl.owner \in {t, NONE},
         ThIs(t, p, r), th[t].pc \notin SpacePcs \cup {"sync"}, p # "sync",
         jnl'.flush_aborted = jnl.flush_aborted,
         OnlyAborts, FlushBegins(p), OwnerGoes(t, p, r)
  PROVE  Inductive'
  <1> USE DEF Inductive
  <1>1. \A s \in Threads : s # t => /\ th[s].pc \notin HeldPcs \cup ClosePcs
                                    /\ ~(th[s].pc = "sync" /\ th[s].ret = "cl_drain")
    BY Alone
  <1>2. \A s \in Threads : s # t => th'[s].pc = th[s].pc /\ th'[s].ret = th[s].ret
    BY DEF ThIs
  <1>3. th'[t].pc = p /\ th'[t].ret = r
    BY DEF ThIs
  <1>4. \A s \in Threads : s # t => th[s].pc \notin SpacePcs /\ th[s].pc \notin EtPcs
                                                             /\ th[s].pc \notin RunPcs
    BY <1>1 DEF HeldPcs, EtPcs
  <1>5. fin.pc \in FlushPcs \cup {"none", "lock"}
    BY FinTyped DEF FinType, FlushPcs
  <1>6. OneFlusher'
    <2>1. CASE p \notin SpacePcs
      BY ZenonT(60), <2>1, <1>2, <1>3, <1>4 DEF OneFlusher, Flushing, FlushBegins
    <2>2. CASE p \in SpacePcs
      BY ZenonT(60), <2>2, <1>2, <1>3, <1>4, <1>5 DEF OneFlusher, Flushing, FlushBegins, LockInv
    <2> QED
      BY ZenonT(60), <2>1, <2>2
  <1>7. LockInv'
    BY ZenonT(60), <1>1, <1>2, <1>3, <1>4 DEF LockInv, OwnerGoes
  <1>8. RunPtr' /\ EtPtr' /\ CurPtr'
    BY ZenonT(60), <1>1, <1>2, <1>3, <1>4 DEF RunPtr, EtPtr, CurPtr, OwnerGoes
  <1>9. FinPtr'
    BY DEF FinPtr, OnlyAborts
  <1>10. IoPtr'
    BY ZenonT(60), IoUid DEF IoPtr, OnlyAborts
  <1>11. DownInv'
    BY ZenonT(60) DEF DownInv
  <1>12. TxnInv'
    BY ZenonT(60) DEF TxnInv, TxnFits, OnlyAborts
  <1>13. DiskInv'
    BY LogUid DEF DiskInv, OnlyAborts
  <1>14. WriteAhead'
    BY DEF WriteAhead, OnlyAborts
  <1> QED
    BY ZenonT(60), <1>6, <1>7, <1>8, <1>9, <1>10, <1>11, <1>12, <1>13, <1>14

\* A step that leaves the transactions alone aborts none.
LEMMA SameAborts == TypeOK /\ UNCHANGED txn => OnlyAborts
  BY TxnTyped DEF OnlyAborts

\* abort_transaction changes the state of the open transaction only.
LEMMA AbortAborts ==
  ASSUME TypeOK, NEW u \in Uids, txn[u].st = "open", txn' = [txn EXCEPT ![u].st = "aborted"]
  PROVE  OnlyAborts
  <1>1. TxnIs(u, "aborted", txn[u].js, txn[u].je)
    BY ZenonT(60), TxnMoves
  <1> QED
    BY <1>1 DEF TxnIs, OnlyAborts

\* journal_close, when it takes the lock, keeps the invariants.
LEMMA CloseLockStep ==
  ASSUME Inductive, NEW t \in Threads, CloseLock(t)
  PROVE  Inductive'
  <1> USE DEF Inductive
  <1>1. /\ up = "up" /\ th[t].pc = "idle" /\ jnl.owner = NONE
        /\ jnl' = [jnl EXCEPT !.owner = t] /\ th' = [th EXCEPT ![t].pc = "cl_flushing"]
        /\ UNCHANGED <<up, ring, et, fin, io, cb, ntr, want, maybe, txn,
                       log, dhdr, home, rp, rerrs>>
    BY DEF CloseLock, At, Goto, diskVars
  <1>2. JnlIs(t, jnl.active_tr, jnl.cur_tr, jnl.flushing, jnl.flush_aborted)
    BY ZenonT(60), <1>1, JnlTyped DEF JnlType, JnlIs
  <1>3. ThIs(t, "cl_flushing", th[t].ret)
    BY ZenonT(60), <1>1, ThMoves DEF Pcs
  <1>4. used' \in [kill : Nat, err : Nat, homeerr : Nat, crash : Nat, close : Nat]
    BY DEF CloseLock, TypeOK
  <1>5. TypeOK'
    BY ZenonT(60), <1>1, <1>2, <1>3, <1>4 DEF TypeOK, ReplayTypeOK, JnlIs, ThIs
  <1>6. OnlyAborts /\ FlushBegins("cl_flushing")
    BY ZenonT(60), <1>1, <1>2, SameAborts DEF FlushBegins, SpacePcs, JnlIs
  <1>7. OwnerGoes(t, "cl_flushing", th[t].ret)
    BY ZenonT(60), <1>1, <1>2 DEF OwnerGoes, HeldPcs, RunPcs, EtPcs, SpacePcs, ClosePcs, JnlIs, CurPtr
  <1> QED
    BY <1>1, <1>2, <1>3, <1>5, <1>6, <1>7, OwnerStep DEF SpacePcs, JnlIs

\* journal_start_transaction that takes up the buffered transaction keeps
\* the invariants.
LEMMA StartBuffered ==
  ASSUME Inductive, NEW t \in Threads, journal_start_transaction(t), jnl.cur_tr # 0
  PROVE  Inductive'
  <1> USE DEF Inductive
  <1>1. /\ up = "up" /\ th[t].pc = "st_lock" /\ jnl.owner = NONE
        /\ jnl' = [jnl EXCEPT !.owner = t, !.nested_count = 1,
                              !.active_tr = jnl.cur_tr, !.cur_tr = 0]
        /\ th' = [th EXCEPT ![t].pc = "run"]
        /\ UNCHANGED <<up, ring, et, fin, io, cb, ntr, want, maybe, used, txn,
                       log, dhdr, home, rp, rerrs>>
    BY DEF journal_start_transaction, At, Goto, diskVars
  <1>2. JnlIs(t, jnl.cur_tr, 0, jnl.flushing, jnl.flush_aborted)
    BY ZenonT(60), <1>1, JnlTyped, NullPtr DEF JnlType, JnlIs
  <1>3. ThIs(t, "run", th[t].ret)
    BY ZenonT(60), <1>1, ThMoves DEF Pcs
  <1>4. TypeOK'
    BY ZenonT(60), <1>1, <1>2, <1>3 DEF TypeOK, ReplayTypeOK, JnlIs, ThIs
  <1>5. OnlyAborts /\ FlushBegins("run")
    BY ZenonT(60), <1>1, <1>2, SameAborts DEF FlushBegins, SpacePcs, JnlIs
  <1>6. OwnerGoes(t, "run", th[t].ret)
    BY ZenonT(60), <1>1, <1>2, CurUid DEF OwnerGoes, HeldPcs, RunPcs, EtPcs, SpacePcs, ClosePcs, JnlIs, CurPtr
  <1> QED
    BY SMTT(60), <1>1, <1>2, <1>3, <1>4, <1>5, <1>6, OwnerStep DEF SpacePcs, JnlIs

\* journal_end_transaction on an invalid journal, which aborts the
\* transaction, keeps the invariants.
LEMMA EndInvalid ==
  ASSUME Inductive, NEW t \in Threads, journal_end_transaction(t), jnl.invalid
  PROVE  Inductive'
  <1> USE DEF Inductive
  <1>1. /\ up = "up" /\ th[t].pc = "run"
        /\ jnl' = [[jnl EXCEPT !.nested_count = 0, !.active_tr = 0] EXCEPT !.owner = NONE]
        /\ txn' = [txn EXCEPT ![jnl.active_tr].st = "aborted"]
        /\ th' = [th EXCEPT ![t].pc = "idle"]
        /\ UNCHANGED <<up, ring, et, fin, io, cb, ntr, want, maybe, used,
                       log, dhdr, home, rp, rerrs>>
    BY DEF journal_end_transaction, At, Goto, diskVars
  <1>2. JnlIs(NONE, 0, jnl.cur_tr, jnl.flushing, jnl.flush_aborted)
    BY ZenonT(60), <1>1, JnlTyped, NullPtr DEF JnlType, JnlIs
  <1>3. ThIs(t, "idle", th[t].ret)
    BY ZenonT(60), <1>1, ThMoves DEF Pcs
  <1>4. jnl.owner = t /\ jnl.cur_tr = 0 /\ jnl.active_tr \in Uids /\ txn[jnl.active_tr].st = "open"
    BY <1>1 DEF LockInv, CurPtr, RunPtr, HeldPcs, RunPcs
  <1>5. OnlyAborts
    BY ZenonT(60), <1>1, <1>4, AbortAborts
  <1>6. TypeOK'
    BY <1>1, <1>2, <1>3, <1>5 DEF TypeOK, ReplayTypeOK, JnlIs, ThIs, OnlyAborts
  <1>7. FlushBegins("idle")
    BY ZenonT(60), <1>2 DEF FlushBegins, SpacePcs, JnlIs
  <1>8. OwnerGoes(t, "idle", th[t].ret)
    BY ZenonT(60), <1>2, <1>4 DEF OwnerGoes, HeldPcs, RunPcs, EtPcs, SpacePcs, ClosePcs, JnlIs
  <1> QED
    BY SMTT(60), <1>1, <1>2, <1>3, <1>4, <1>5, <1>6, <1>7, <1>8, OwnerStep DEF SpacePcs, JnlIs

\* journal_end_transaction that leaves the transaction buffered keeps the
\* invariants.
LEMMA EndBuffers ==
  ASSUME Inductive, NEW t \in Threads, NEW u \in Uids, NEW p \in Pcs, up = "up",
         jnl.owner = t, jnl'.owner \in {t, NONE}, p \in ClosePcs => jnl'.owner = t,
         jnl' \in JnlType, jnl'.cur_tr = u, txn[u].st = "open",
         jnl'.flushing = jnl.flushing, jnl'.flush_aborted = jnl.flush_aborted,
         th' = [th EXCEPT ![t].pc = p], p \notin HeldPcs \cup {"sync"},
         th[t].pc \notin SpacePcs \cup {"sync"},
         UNCHANGED <<up, ring, et, fin, io, cb, ntr, want, maybe, used, txn,
                     log, dhdr, home, rp, rerrs>>
  PROVE  Inductive'
  <1> USE DEF Inductive
  <1>1. ThIs(t, p, th[t].ret)
    BY ZenonT(60), ThMoves
  <1>2. TypeOK'
    BY <1>1 DEF TypeOK, ReplayTypeOK, ThIs
  <1>3. p \notin SpacePcs /\ p \notin EtPcs /\ p \notin RunPcs
    BY DEF HeldPcs, EtPcs
  <1>4. OnlyAborts /\ FlushBegins(p)
    BY <1>3, SameAborts DEF FlushBegins
  <1>5. OwnerGoes(t, p, th[t].ret)
    BY ZenonT(60), <1>3 DEF OwnerGoes
  <1> QED
    BY SMTT(60), <1>1, <1>2, <1>4, <1>5, OwnerStep

\* journal_end_transaction that goes on to flush keeps the invariants.
LEMMA EndFlushes ==
  ASSUME Inductive, NEW t \in Threads, NEW u \in Uids, NEW r \in Returns, up = "up",
         jnl.owner = t, jnl'.owner = t, jnl' \in JnlType, jnl'.cur_tr = 0, txn[u].st = "open",
         jnl'.flushing = jnl.flushing, jnl'.flush_aborted = jnl.flush_aborted,
         th' = [th EXCEPT ![t].pc = "et_lock", ![t].ret = r],
         th[t].pc \notin SpacePcs \cup {"sync"},
         et' \in EtType, et'.tr = u, et'.drop <=> r # "cl_drain", ~et'.drop => et'.wait,
         UNCHANGED <<up, ring, fin, io, cb, ntr, want, maybe, used, txn,
                     log, dhdr, home, rp, rerrs>>
  PROVE  Inductive'
  <1> USE DEF Inductive
  <1>1. ThIs(t, "et_lock", r)
    BY ZenonT(60), ThCalls DEF Pcs
  <1>2. TypeOK'
    BY ZenonT(60), <1>1 DEF TypeOK, ReplayTypeOK, ThIs
  <1>3. /\ "et_lock" \notin SpacePcs \cup RunPcs \cup {"sync"}
        /\ "et_lock" \in EtPcs /\ "et_lock" \in HeldPcs
    BY DEF HeldPcs, EtPcs, RunPcs, SpacePcs
  <1>4. OnlyAborts /\ FlushBegins("et_lock")
    BY <1>3, SameAborts DEF FlushBegins
  <1>5. OwnerGoes(t, "et_lock", r)
    BY <1>3 DEF OwnerGoes
  <1> QED
    BY SMTT(60), <1>1, <1>2, <1>4, <1>5, OwnerStep

\* journal_end_transaction keeps the invariants.
LEMMA EndStep ==
  ASSUME Inductive, NEW t \in Threads, journal_end_transaction(t)
  PROVE  Inductive'
  <1> USE DEF Inductive
  <1> DEFINE j == [jnl EXCEPT !.nested_count = 0, !.active_tr = 0]
  <1>1. CASE jnl.invalid
    BY ZenonT(60), <1>1, EndInvalid
  <1>2. ASSUME ~jnl.invalid
        PROVE  Inductive'
    <2>1. /\ up = "up" /\ th[t].pc = "run"
          /\ UNCHANGED <<up, ring, fin, io, cb, ntr, want, maybe, used, txn,
                         log, dhdr, home, rp, rerrs>>
      BY ZenonT(60), <1>2 DEF journal_end_transaction, At, diskVars
    <2>2. PICK u \in Uids : u = jnl.active_tr /\ txn[u].st = "open"
      BY <2>1 DEF RunPtr, RunPcs
    <2>3. jnl.owner = t /\ jnl.cur_tr = 0 /\ th[t].pc \notin SpacePcs \cup {"sync"}
      BY <2>1 DEF LockInv, CurPtr, HeldPcs, RunPcs, SpacePcs
    <2>4. u \in NoneOrUid /\ 0 \in NoneOrUid
      BY NullPtr
    <2>5. CASE txn[u].total = 1 \/ (~txn[u].force /\ NotVeryFull(u))
      <3>1. /\ jnl' = [j EXCEPT !.cur_tr = u, !.owner = NONE]
            /\ th' = [th EXCEPT ![t].pc = "idle"] /\ UNCHANGED et
        BY <1>2, <2>2, <2>5 DEF journal_end_transaction, EndTransaction
      <3>2. /\ jnl' \in JnlType /\ jnl'.owner = NONE /\ jnl'.cur_tr = u
            /\ jnl'.flushing = jnl.flushing /\ jnl'.flush_aborted = jnl.flush_aborted
        BY ZenonT(60), <3>1, <2>4, JnlTyped DEF JnlType
      <3>3. "idle" \notin HeldPcs \cup ClosePcs \cup {"sync"} /\ "idle" \in Pcs
        BY DEF HeldPcs, RunPcs, EtPcs, SpacePcs, ClosePcs, Pcs
      <3> QED
        BY ZenonT(60), <2>1, <2>2, <2>3, <3>1, <3>2, <3>3, EndBuffers
    <2>6. CASE ~(txn[u].total = 1 \/ (~txn[u].force /\ NotVeryFull(u)))
      <3>1. /\ jnl' = j
            /\ th' = [th EXCEPT ![t].pc = "et_lock", ![t].ret = "idle"]
            /\ et' = [NoEt EXCEPT !.tr = u, !.drop = TRUE, !.wait = txn[u].force \/ ~TRUE]
        BY <1>2, <2>2, <2>6 DEF journal_end_transaction, EndTransaction
      <3>2. /\ jnl' \in JnlType /\ jnl'.owner = t /\ jnl'.cur_tr = 0
            /\ jnl'.flushing = jnl.flushing /\ jnl'.flush_aborted = jnl.flush_aborted
        BY ZenonT(60), <3>1, <2>3, <2>4, JnlTyped DEF JnlType
      <3>3. et' \in EtType /\ et'.tr = u /\ et'.drop = TRUE
        BY ZenonT(60), <3>1, <2>4, FirstSlot DEF EtType, NoEt
      <3>4. "idle" \in Returns
        BY DEF Returns
      <3> QED
        BY ZenonT(60), <2>1, <2>2, <2>3, <3>1, <3>2, <3>3, <3>4, EndFlushes
    <2> QED
      BY <2>5, <2>6
  <1> QED
    BY <1>1, <1>2
=============================================================================
