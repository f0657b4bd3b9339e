-------------------------- MODULE JournalOwnerSteps -------------------------
(***************************************************************************)
(* The calls of the journal's interface, continued: the steps of the       *)
(* thread that has the journal lock and flushes, disposes of, allocates or *)
(* fills the open transaction keep the inductive invariant.                *)
(***************************************************************************)
EXTENDS JournalThreadSteps

\* The end of journal_flush keeps the invariants.
LEMMA FlushEndStep ==
  ASSUME Inductive, NEW t \in Threads, FlushEnd(t)
  PROVE  Inductive'
  <1> USE DEF Inductive
  <1>1. /\ up = "up" /\ th[t].pc = "jf_end"
        /\ UNCHANGED <<up, ring, fin, io, cb, ntr, want, maybe, used, txn,
                       log, dhdr, home, rp, rerrs>>
    BY DEF FlushEnd, At, diskVars
  <1>2. "jf_end" \in HeldPcs \ RunPcs /\ "jf_end" \notin SpacePcs \cup {"sync"}
    BY DEF HeldPcs, RunPcs, SpacePcs
  <1>3. PICK u \in Uids : u = et.tr /\ txn[u].st = "open"
    BY ZenonT(60), <1>1, <1>2 DEF EtPtr
  <1>4. jnl.owner = t /\ jnl.cur_tr = 0 /\ u \in NoneOrUid
    BY ZenonT(60), <1>1, <1>2, NullPtr DEF LockInv, CurPtr
  <1>5. PICK r \in {"jf_aio", "jf_ret"} : r = IF th[t].wio THEN "jf_aio" ELSE "jf_ret"
    OBVIOUS
  <1>6. r \in Returns /\ r \in Pcs /\ r \notin HeldPcs \cup ClosePcs \cup {"sync"} /\ r # "cl_drain"
    BY DEF HeldPcs, RunPcs, EtPcs, SpacePcs, ClosePcs, Pcs, Returns
  <1>7. CASE txn[u].total = 1
    <2>1. /\ jnl' = [jnl EXCEPT !.cur_tr = u, !.owner = NONE]
          /\ th' = [th EXCEPT ![t].pc = r] /\ UNCHANGED et
      BY <1>3, <1>5, <1>7 DEF FlushEnd, EndTransaction
    <2>2. /\ jnl' \in JnlType /\ jnl'.owner = NONE /\ jnl'.cur_tr = u
          /\ jnl'.flushing = jnl.flushing /\ jnl'.flush_aborted = jnl.flush_aborted
      BY ZenonT(60), <2>1, <1>4, JnlTyped DEF JnlType
    <2> QED
      BY ZenonT(60), <1>1, <1>2, <1>3, <1>4, <1>6, <2>1, <2>2, EndBuffers
  <1>8. CASE txn[u].total # 1
    <2>1. /\ jnl' = jnl
          /\ th' = [th EXCEPT ![t].pc = "et_lock", ![t].ret = r]
          /\ et' = [NoEt EXCEPT !.tr = u, !.drop = TRUE, !.wait = TRUE]
      BY ZenonT(60), <1>3, <1>5, <1>8 DEF FlushEnd, EndTransaction
    <2>2. et' \in EtType /\ et'.tr = u /\ et'.drop = TRUE
      BY ZenonT(60), <2>1, <1>4, FirstSlot DEF EtType, NoEt
    <2> QED
      BY ZenonT(60), <1>1, <1>2, <1>3, <1>4, <1>6, <2>1, <2>2, JnlTyped, EndFlushes
  <1> QED
    BY ZenonT(60), <1>7, <1>8

\* What a flush notes about the transactions it found has its type.
LEMMA UptoTyped ==
  ASSUME Inductive
  PROVE  LastEnded \in NoneOrUid /\ Hollow \in BOOLEAN
  <1> USE DEF Inductive
  <1>1. jnl.cur_tr # 0 => jnl.cur_tr \in Uids /\ ~(jnl.cur_tr > ntr)
    BY CurUid DEF CurPtr, TxnInv, TxnFits
  <1>2. jnl.cur_tr # 0 => ntr >= 1
    BY SMTT(60), <1>1, NtrNat DEF Uids
  <1>3. ntr \in 0..MaxTr
    BY DEF TypeOK, NoneOrUid
  <1>4. ntr >= 1 => ntr - 1 \in 0..MaxTr
    BY SMTT(60), <1>3, ReplayAssumption
  <1>5. Hollow \in BOOLEAN /\ (Hollow => jnl.cur_tr # 0)
    BY DEF Hollow
  <1>6. LastEnded \in 0..MaxTr
    BY ZenonT(60), <1>2, <1>3, <1>4, <1>5 DEF LastEnded
  <1> QED
    BY <1>5, <1>6 DEF NoneOrUid

\* journal_flush, when it has the lock, keeps the invariants.
LEMMA FlushLockStep ==
  ASSUME Inductive, NEW t \in Threads, FlushLock(t)
  PROVE  Inductive'
  <1> USE DEF Inductive
  <1>1. /\ up = "up" /\ th[t].pc = "jf_lock" /\ jnl.owner = NONE
        /\ UNCHANGED <<up, ring, fin, io, cb, ntr, want, maybe, used, txn,
                       log, dhdr, home, rp, rerrs>>
    BY DEF FlushLock, At, diskVars
  <1>2. PICK n \in NoneOrUid, w \in BOOLEAN : n = LastEnded /\ w = Hollow
    BY ZenonT(60), UptoTyped
  <1>3. CASE jnl.cur_tr # 0
    <2>1. PICK p \in {"jf_flushing", "jf_end"} :
            /\ th' = [th EXCEPT ![t].upto = n, ![t].hollow = w, ![t].pc = p]
            /\ jnl' = [jnl EXCEPT !.owner = t, !.cur_tr = 0]
            /\ et' = [NoEt EXCEPT !.tr = jnl.cur_tr]
      BY <1>2, <1>3 DEF FlushLock
    <2>2. /\ p \in Pcs /\ p \in HeldPcs \ RunPcs
          /\ p \notin SpacePcs \cup EtPcs \cup {"sync"} \cup ClosePcs
      BY ZenonT(60) DEF Pcs, HeldPcs, RunPcs, EtPcs, SpacePcs, ClosePcs
    <2>3. ThIs(t, p, th[t].ret)
      BY ZenonT(60), <2>1, <2>2, ThNotesHollow
    <2>4. JnlIs(t, jnl.active_tr, 0, jnl.flushing, jnl.flush_aborted)
      BY ZenonT(60), <2>1, JnlTyped, NullPtr DEF JnlType, JnlIs
    <2>5. et' \in EtType /\ et'.tr = jnl.cur_tr
      BY ZenonT(60), <2>1, JnlFields, FirstSlot DEF EtType, NoEt
    <2>6. TypeOK'
      BY <1>1, <2>3, <2>4, <2>5 DEF TypeOK, ReplayTypeOK, JnlIs, ThIs
    <2>7. OnlyAborts /\ FlushBegins(p)
      BY ZenonT(60), <1>1, <2>2, <2>4, SameAborts DEF FlushBegins, JnlIs
    <2>8. OwnerGoes(t, p, th[t].ret)
      BY ZenonT(60), <1>1, <1>3, <2>2, <2>4, <2>5, CurUid DEF OwnerGoes, JnlIs, CurPtr
    <2> QED
      BY SMTT(60), <1>1, <2>2, <2>3, <2>4, <2>6, <2>7, <2>8, OwnerStep DEF SpacePcs, JnlIs
  <1>4. CASE jnl.cur_tr = 0
    <2>1. th' = [th EXCEPT ![t].upto = n, ![t].pc = "jf_wait"] /\ UNCHANGED <<jnl, et>>
      BY ZenonT(60), <1>2, <1>4 DEF FlushLock
    <2>2. ThIs(t, "jf_wait", th[t].ret)
      BY ZenonT(60), <2>1, ThNotes DEF Pcs
    <2> QED
      BY ZenonT(60), <1>1, <2>1, <2>2, Kinds, ThreadStep
  <1> QED
    BY <1>3, <1>4

\* journal_close, when it disposes of the buffered transaction, keeps the
\* invariants.
LEMMA CloseBufferedStep ==
  ASSUME Inductive, NEW t \in Threads, CloseBuffered(t)
  PROVE  Inductive'
  <1> USE DEF Inductive
  <1> DEFINE j == [jnl EXCEPT !.cur_tr = 0]
  <1>1. /\ up = "up" /\ th[t].pc = "cl_flushing"
        /\ UNCHANGED <<up, ring, fin, io, cb, ntr, want, maybe, used, log, dhdr, home, rp, rerrs>>
    BY DEF CloseBuffered, At, diskVars
  <1>2. /\ "cl_flushing" \in ClosePcs /\ "cl_flushing" \notin SpacePcs \cup {"sync"}
        /\ \A p \in {"cl_drain", "cl_async"} :
             p \in ClosePcs /\ p \notin HeldPcs \cup SpacePcs \cup EtPcs \cup RunPcs \cup {"sync"}
    BY ZenonT(60) DEF HeldPcs, RunPcs, EtPcs, SpacePcs, ClosePcs
  <1>3. jnl.owner = t
    BY ZenonT(60), <1>1, <1>2 DEF LockInv
  <1>4. CASE jnl.invalid
    <2>1. /\ jnl' = j /\ th' = [th EXCEPT ![t].pc = "cl_async"] /\ UNCHANGED et
          /\ txn' = IF jnl.cur_tr = 0 THEN txn ELSE [txn EXCEPT ![jnl.cur_tr].st = "aborted"]
      BY <1>4 DEF CloseBuffered, Goto
    <2>2. JnlIs(t, jnl.active_tr, 0, jnl.flushing, jnl.flush_aborted)
      BY ZenonT(60), <2>1, <1>3, JnlTyped, NullPtr DEF JnlType, JnlIs
    <2>3. ThIs(t, "cl_async", th[t].ret)
      BY ZenonT(60), <2>1, ThMoves DEF Pcs
    <2>4. OnlyAborts
      BY ZenonT(60), <2>1, CurUid, SameAborts, AbortAborts DEF CurPtr
    <2>5. TypeOK'
      BY ZenonT(60), <1>1, <2>1, <2>2, <2>3, <2>4 DEF TypeOK, ReplayTypeOK, JnlIs, ThIs, OnlyAborts
    <2>6. FlushBegins("cl_async")
      BY ZenonT(60), <1>2, <2>2 DEF FlushBegins, JnlIs
    <2>7. OwnerGoes(t, "cl_async", th[t].ret)
      BY ZenonT(60), <1>2, <2>2 DEF OwnerGoes, JnlIs
    <2> QED
      BY SMTT(60), <1>1, <1>2, <1>3, <2>2, <2>3, <2>4, <2>5, <2>6, <2>7, OwnerStep DEF JnlIs
  <1>5. CASE ~jnl.invalid /\ jnl.cur_tr # 0
    <2>1. PICK u \in Uids : u = jnl.cur_tr /\ txn[u].st = "open" /\ u \in NoneOrUid
      BY <1>5, CurUid, NullPtr DEF CurPtr
    <2>2. UNCHANGED txn
      BY <1>5 DEF CloseBuffered
    <2>3. CASE txn[u].total = 1
      <3>1. /\ jnl' = [j EXCEPT !.cur_tr = u, !.owner = IF FALSE THEN NONE ELSE @]
            /\ th' = [th EXCEPT ![t].pc = "cl_drain"] /\ UNCHANGED et
        BY <1>5, <2>1, <2>3 DEF CloseBuffered, EndTransaction
      <3>2. /\ jnl' \in JnlType /\ jnl'.owner = t /\ jnl'.cur_tr = u
            /\ jnl'.flushing = jnl.flushing /\ jnl'.flush_aborted = jnl.flush_aborted
        BY ZenonT(60), <3>1, <1>3, <2>1, JnlTyped DEF JnlType
      <3>3. "cl_drain" \in Pcs
        BY DEF Pcs
      <3> QED
        BY ZenonT(60), <1>1, <1>2, <1>3, <2>1, <2>2, <3>1, <3>2, <3>3, EndBuffers
    <2>4. CASE txn[u].total # 1
      <3>1. /\ jnl' = j
            /\ th' = [th EXCEPT ![t].pc = "et_lock", ![t].ret = "cl_drain"]
            /\ et' = [NoEt EXCEPT !.tr = u, !.drop = FALSE, !.wait = TRUE \/ ~FALSE]
        BY <1>5, <2>1, <2>4 DEF CloseBuffered, EndTransaction
      <3>2. /\ jnl' \in JnlType /\ jnl'.owner = t /\ jnl'.cur_tr = 0
            /\ jnl'.flushing = jnl.flushing /\ jnl'.flush_aborted = jnl.flush_aborted
        BY ZenonT(60), <3>1, <1>3, NullPtr, JnlTyped DEF JnlType
      <3>3. et' \in EtType /\ et'.tr = u /\ et'.drop = FALSE /\ et'.wait = TRUE
        BY ZenonT(60), <3>1, <2>1, FirstSlot DEF EtType, NoEt
      <3>4. "cl_drain" \in Returns
        BY DEF Returns
      <3> QED
        BY ZenonT(60), <1>1, <1>2, <1>3, <2>1, <2>2, <3>1, <3>2, <3>3, <3>4, EndFlushes
    <2> QED
      BY ZenonT(60), <2>3, <2>4
  <1>6. CASE ~jnl.invalid /\ jnl.cur_tr = 0
    <2>1. th' = [th EXCEPT ![t].pc = "cl_drain"] /\ UNCHANGED <<jnl, et, txn>>
      BY ZenonT(60), <1>6 DEF CloseBuffered, Goto
    <2>2. ThIs(t, "cl_drain", th[t].ret)
      BY ZenonT(60), <2>1, ThMoves DEF Pcs
    <2> QED
      BY <1>1, <2>1, <2>2, Kinds, ThreadStep
  <1> QED
    BY <1>4, <1>5, <1>6

\* end_transaction, when it takes the flushing condition, keeps the
\* invariants.
LEMMA EtLockStep ==
  ASSUME Inductive, NEW t \in Threads, EtLock(t)
  PROVE  Inductive'
  <1> USE DEF Inductive
  <1>1. /\ up = "up" /\ th[t].pc = "et_lock" /\ ~jnl.flushing
        /\ UNCHANGED <<up, ring, fin, io, cb, ntr, want, maybe, used, log, dhdr, home, rp, rerrs>>
    BY DEF EtLock, At, diskVars
  <1>2. "et_lock" \in HeldPcs \ RunPcs /\ "et_lock" \in EtPcs /\ "et_lock" \notin SpacePcs \cup {"sync"}
    BY ZenonT(60) DEF HeldPcs, RunPcs, EtPcs, SpacePcs
  <1>3. /\ jnl.owner = t /\ jnl.cur_tr = 0
        /\ (et.drop <=> th[t].ret # "cl_drain") /\ (~et.drop => et.wait)
    BY ZenonT(60), <1>1, <1>2 DEF LockInv, CurPtr
  <1>4. PICK u \in Uids : u = et.tr /\ txn[u].st = "open"
    BY ZenonT(60), <1>1, <1>2 DEF EtPtr
  <1>5. CASE jnl.invalid \/ jnl.flush_aborted
    <2>1. PICK r \in Returns : r = th[t].ret
      BY ThFields
    <2>2. /\ r \in Pcs /\ r \notin HeldPcs \cup SpacePcs \cup EtPcs \cup RunPcs \cup {"sync"}
          /\ r \in ClosePcs => r = "cl_drain"
      BY DEF Returns, Pcs, HeldPcs, RunPcs, EtPcs, SpacePcs, ClosePcs
    <2>3. /\ jnl' = IF et.drop THEN [jnl EXCEPT !.owner = NONE] ELSE jnl
          /\ txn' = [txn EXCEPT ![u].st = "aborted"]
          /\ th' = [th EXCEPT ![t].pc = r] /\ et' = NoEt
      BY ZenonT(60), <1>4, <1>5, <2>1 DEF EtLock, Unlocked, Goto
    <2>4. JnlIs(IF et.drop THEN NONE ELSE t, jnl.active_tr, 0, jnl.flushing, jnl.flush_aborted)
      BY ZenonT(60), <2>3, <1>3, JnlTyped DEF JnlType, JnlIs
    <2>5. ThIs(t, r, r)
      BY ZenonT(60), <2>1, <2>2, <2>3, ThMoves
    <2>6. OnlyAborts
      BY ZenonT(60), <1>4, <2>3, AbortAborts
    <2>7. et' \in EtType
      BY <2>3, NullPtr, FirstSlot DEF EtType, NoEt
    <2>8. TypeOK'
      BY ZenonT(60), <1>1, <2>4, <2>5, <2>6, <2>7 DEF TypeOK, ReplayTypeOK, JnlIs, ThIs, OnlyAborts
    <2>9. FlushBegins(r)
      BY ZenonT(60), <2>2, <2>4 DEF FlushBegins, JnlIs
    <2>10. OwnerGoes(t, r, r)
      BY ZenonT(60), <1>3, <2>1, <2>2, <2>4 DEF OwnerGoes, JnlIs
    <2> QED
      BY SMTT(60), <1>1, <1>2, <1>3, <2>2, <2>4, <2>5, <2>6, <2>8, <2>9, <2>10, OwnerStep DEF JnlIs
  <1>6. CASE ~(jnl.invalid \/ jnl.flush_aborted)
    <2>1. /\ jnl' = [jnl EXCEPT !.flushing = TRUE, !.saved_sequence_num = jnl.sequence_num]
          /\ th' = [th EXCEPT ![t].pc = "et_space"] /\ UNCHANGED <<et, txn>>
      BY <1>6 DEF EtLock, Goto
    <2>2. JnlIs(t, jnl.active_tr, 0, TRUE, jnl.flush_aborted)
      BY ZenonT(60), <2>1, <1>3, JnlTyped DEF JnlType, JnlIs
    <2>3. ThIs(t, "et_space", th[t].ret)
      BY ZenonT(60), <2>1, ThMoves DEF Pcs
    <2>4. TypeOK'
      BY ZenonT(60), <1>1, <2>1, <2>2, <2>3 DEF TypeOK, ReplayTypeOK, JnlIs, ThIs
    <2>5. /\ "et_space" \in HeldPcs \ RunPcs /\ "et_space" \in EtPcs /\ "et_space" \in SpacePcs
          /\ "et_space" \notin ClosePcs \cup {"sync"}
      BY DEF HeldPcs, RunPcs, EtPcs, SpacePcs, ClosePcs
    <2>6. OnlyAborts
      BY ZenonT(60), <2>1, SameAborts
    <2>7. FlushBegins("et_space")
      BY ZenonT(60), <1>1, <1>6, <2>2, <2>5 DEF FlushBegins, JnlIs
    <2>8. OwnerGoes(t, "et_space", th[t].ret)
      BY ZenonT(60), <1>3, <1>4, <2>1, <2>2, <2>5 DEF OwnerGoes, JnlIs
    <2> QED
      BY SMTT(60), <1>1, <1>2, <1>3, <2>2, <2>3, <2>4, <2>5, <2>6, <2>7, <2>8, OwnerStep DEF JnlIs
  <1> QED
    BY <1>5, <1>6

\* journal_allocate_transaction makes a transaction with one empty block
\* list.
LEMMA NewTxnTyped ==
  ASSUME TypeOK, NEW u \in Uids, NEW n \in Nat,
         txn' = [txn EXCEPT ![u] = [NoTxn EXCEPT !.seq = n, !.hdrs = << << >> >>, !.total = 1,
                                                 !.st = "open"]]
  PROVE  /\ txn' \in [Uids -> TxnType]
         /\ \A v \in Uids : v # u => txn'[v] = txn[v]
         /\ txn'[u].st = "open" /\ txn'[u].hdrs = << << >> >> /\ txn'[u].total = 1
         /\ txn'[u].js = 0 /\ txn'[u].je = 0
  <1> DEFINE new == [NoTxn EXCEPT !.seq = n, !.hdrs = << << >> >>, !.total = 1, !.st = "open"]
  <1>1. 0 \in NoneOrOffset /\ 1 \in NoneOrOffset
    BY OffsetRange
  <1>2. << << >> >> \in Seq(Seq(Entry))
    OBVIOUS
  <1>3. new \in TxnType
    BY ZenonT(60), <1>1, <1>2 DEF NoTxn, TxnType
  <1>4. /\ new.st = "open" /\ new.hdrs = << << >> >> /\ new.total = 1
        /\ new.js = 0 /\ new.je = 0
    BY DEF NoTxn
  <1>5. txn' = [txn EXCEPT ![u] = new]
    OBVIOUS
  <1> HIDE DEF new
  <1> QED
    BY ZenonT(60), <1>3, <1>4, <1>5, TxnTyped

\* journal_start_transaction that allocates a transaction keeps the
\* invariants.
LEMMA StartAllocates ==
  ASSUME Inductive, NEW t \in Threads, journal_start_transaction(t), jnl.cur_tr = 0
  PROVE  Inductive'
  <1> USE DEF Inductive
  <1>1. /\ up = "up" /\ th[t].pc = "st_lock" /\ jnl.owner = NONE
        /\ ntr < MaxTr /\ th' = [th EXCEPT ![t].pc = "run"]
        /\ UNCHANGED <<up, ring, et, fin, io, cb, want, maybe, used, log, dhdr, home, rp, rerrs>>
    BY DEF journal_start_transaction, At, Goto, diskVars
  <1>2. PICK u \in Uids : u = ntr + 1 /\ u \in NoneOrUid
    BY ZenonT(60), <1>1, NextUid
  <1>3. u > ntr /\ txn[u].st = "none"
    BY <1>2, NtrNat DEF TxnInv, TxnFits
  <1>4. PICK n \in Nat : n = jnl.sequence_num + 1
    BY JnlFields
  <1>5. /\ ntr' = u
        /\ jnl' = [jnl EXCEPT !.owner = t, !.nested_count = 1, !.active_tr = u, !.sequence_num = n]
        /\ txn' = [txn EXCEPT ![u] = [NoTxn EXCEPT !.seq = n, !.hdrs = << << >> >>, !.total = 1,
                                                   !.st = "open"]]
    BY <1>2, <1>4 DEF journal_start_transaction
  <1>6. JnlIs(t, u, 0, jnl.flushing, jnl.flush_aborted)
    BY ZenonT(60), <1>2, <1>5, JnlTyped DEF JnlType, JnlIs
  <1>7. /\ txn' \in [Uids -> TxnType]
        /\ \A v \in Uids : v # u => txn'[v] = txn[v]
        /\ txn'[u].st = "open" /\ txn'[u].hdrs = << << >> >> /\ txn'[u].total = 1
        /\ txn'[u].js = 0 /\ txn'[u].je = 0
    BY ZenonT(60), <1>5, NewTxnTyped
  <1>8. ThIs(t, "run", th[t].ret)
    BY ZenonT(60), <1>1, ThMoves DEF Pcs
  <1>9. TypeOK'
    BY ZenonT(60), <1>1, <1>2, <1>5, <1>6, <1>7, <1>8 DEF TypeOK, ReplayTypeOK, ThIs, JnlIs
  <1>10. /\ \A s \in Threads : s # t => /\ th[s].pc \notin HeldPcs \cup ClosePcs
                                        /\ ~(th[s].pc = "sync" /\ th[s].ret = "cl_drain")
         /\ \A s \in Threads : s # t => th'[s].pc = th[s].pc /\ th'[s].ret = th[s].ret
         /\ th'[t].pc = "run"
    BY ZenonT(60), <1>1, <1>8, Alone DEF ThIs
  <1>11. /\ \A s \in Threads : s # t => th[s].pc \notin EtPcs \cup RunPcs
         /\ "run" \in RunPcs /\ "run" \in HeldPcs /\ "run" \notin EtPcs \cup ClosePcs
    BY <1>10 DEF HeldPcs, RunPcs, EtPcs, SpacePcs, ClosePcs
  <1>12. OneFlusher'
    <2>1. \A s \in Threads : Flushing(s)' <=> Flushing(s)
      BY <1>1, <1>10 DEF Flushing, SpacePcs
    <2> QED
      BY <2>1, <1>1, <1>6 DEF OneFlusher, JnlIs
  <1>13. LockInv'
    BY SMTT(60), <1>1, <1>6, <1>10, <1>11 DEF LockInv, JnlIs
  <1>14. RunPtr' /\ EtPtr' /\ CurPtr'
    BY ZenonT(60), <1>6, <1>7, <1>10, <1>11 DEF RunPtr, EtPtr, CurPtr, JnlIs
  <1>15. FinPtr' /\ IoPtr' /\ DownInv'
    BY ZenonT(60), <1>1, <1>3, <1>7, IoUid DEF FinPtr, IoPtr, DownInv
  <1>16. TxnInv'
    <2>1. ASSUME NEW v \in Uids, v # u
          PROVE  TxnFits(v)'
      <3>1. txn'[v] = txn[v] /\ (v > ntr' => v > ntr)
        BY SMTT(60), <2>1, <1>2, <1>5, <1>7, NtrNat DEF Uids
      <3> QED
        BY <3>1 DEF TxnInv, TxnFits
    <2>2. Len(txn'[u].hdrs) = 1 /\ txn'[u].hdrs[1] = << >> /\ ~(u > ntr') /\ 1 <= Size - 1
      BY SMTT(60), <1>5, <1>7, ReplayAssumption DEF Uids
    <2>3. \A k \in 1..Len(txn'[u].hdrs) : 1 + Len(txn'[u].hdrs[k]) <= txn'[u].total
      BY SMTT(60), <2>2, <1>7
    <2>4. TxnFits(u)'
      BY SMTT(60), <2>2, <2>3, <1>7 DEF TxnFits
    <2> QED
      BY ZenonT(60), <2>1, <2>4 DEF TxnInv
  <1>17. DiskInv'
    <2>1. \A x \in Nat : x <= ntr => x <= ntr' /\ x # u
      BY SMTT(60), <1>2, <1>5, NtrNat
    <2>2. ASSUME NEW c \in Cells
          PROVE  /\ log[c].uid <= ntr'
                 /\ log[c].uid # 0 => log[c].k \in 1..Len(txn'[log[c].uid].hdrs)
      <3>1. PICK x \in Nat : x = log[c].uid
        BY ZenonT(60), DiskNumbers
      <3>2. x <= ntr /\ (x # 0 => log[c].k \in 1..Len(txn[x].hdrs))
        BY ZenonT(60), <3>1, CellInv
      <3>3. x # u /\ x <= ntr'
        BY ZenonT(60), <2>1, <3>2
      <3>4. x # 0 => txn'[x] = txn[x]
        BY ZenonT(60), <3>1, <3>3, <1>7, LogUid
      <3> QED
        BY ZenonT(60), <3>1, <3>2, <3>3, <3>4
    <2>3. ASSUME NEW b \in Blocks
          PROVE  (home[b] <= ntr' \/ home[b] = TORN) /\ rp.buf[b] <= ntr'
      BY ZenonT(60), <2>1, DiskNumbers DEF DiskInv
    <2> QED
      BY ZenonT(60), <2>2, <2>3, <1>1 DEF DiskInv
  <1>18. WriteAhead'
    BY ZenonT(60), <1>1, <1>3, <1>7 DEF WriteAhead
  <1> QED
    BY <1>9, <1>12, <1>13, <1>14, <1>15, <1>16, <1>17, <1>18

\* journal_start_transaction keeps the invariants.
LEMMA StartStep ==
  ASSUME Inductive, NEW t \in Threads, journal_start_transaction(t)
  PROVE  Inductive'
  BY ZenonT(60), StartBuffered, StartAllocates

\* A step that only makes the open transaction longer keeps the invariants.
LEMMA GrowStep ==
  ASSUME Inductive, up = "up", NEW u \in Uids, txn[u].st = "open", TxnGrows(u),
         used' \in [kill : Nat, err : Nat, homeerr : Nat, crash : Nat, close : Nat],
         UNCHANGED <<up, jnl, ring, et, th, fin, io, cb, ntr, want, maybe, log, dhdr, home,
                     rp, rerrs>>
  PROVE  Inductive'
  <1> USE DEF Inductive
  <1>1. \A v \in Uids : /\ txn'[v].st = txn[v].st
                        /\ txn'[v].js = txn[v].js /\ txn'[v].je = txn[v].je
    BY ZenonT(60) DEF TxnGrows
  <1>2. TypeOK'
    BY ZenonT(60) DEF TypeOK, ReplayTypeOK, TxnGrows
  <1>3. OneFlusher' /\ LockInv' /\ DownInv'
    BY ZenonT(60) DEF OneFlusher, Flushing, LockInv, DownInv
  <1>4. RunPtr' /\ EtPtr' /\ CurPtr'
    BY ZenonT(60), <1>1, CurUid DEF RunPtr, EtPtr, CurPtr
  <1>5. FinPtr'
    BY ZenonT(60), <1>1 DEF FinPtr, TxnGrows
  <1>6. IoPtr' /\ WriteAhead'
    BY <1>1, IoUid DEF IoPtr, WriteAhead
  <1>7. TxnInv'
    <2>1. TxnFits(u)'
      <3>1. /\ txn'[u].total <= Size - 1 /\ txn'[u].st = "open" /\ ~(u > ntr')
            /\ \A k \in 1..Len(txn'[u].hdrs) : 1 + Len(txn'[u].hdrs[k]) <= txn'[u].total
        BY ZenonT(60), <1>1 DEF TxnGrows, TxnInv, TxnFits
      <3>2. Len(txn[u].hdrs) >= 1 /\ Len(txn'[u].hdrs) >= Len(txn[u].hdrs)
        BY ZenonT(60) DEF TxnGrows, TxnInv, TxnFits
      <3>3. txn[u].hdrs \in Seq(Seq(Entry)) /\ txn'[u].hdrs \in Seq(Seq(Entry))
        BY ZenonT(60), TxnTyped DEF TxnType, TxnGrows
      <3>4. Len(txn'[u].hdrs) >= 1
        BY ZenonT(60), <3>2, <3>3, LenProperties, StaysPositive
      <3> QED
        BY ZenonT(60), <3>1, <3>4 DEF TxnFits
    <2>2. ASSUME NEW v \in Uids, v # u
          PROVE  TxnFits(v)'
      BY ZenonT(60), <2>2 DEF TxnGrows, TxnInv, TxnFits
    <2> QED
      BY ZenonT(60), <2>1, <2>2 DEF TxnInv
  <1>8. DiskInv'
    <2>1. ASSUME NEW v \in Uids, NEW k \in 1..Len(txn[v].hdrs)
          PROVE  k \in 1..Len(txn'[v].hdrs)
      <3>1. txn[v].hdrs \in Seq(Seq(Entry)) /\ txn'[v].hdrs \in Seq(Seq(Entry))
        BY TxnTyped DEF TxnType, TxnGrows
      <3>2. Len(txn[v].hdrs) \in Nat /\ Len(txn'[v].hdrs) \in Nat
        BY ZenonT(60), <3>1, LenProperties
      <3>3. Len(txn'[v].hdrs) >= Len(txn[v].hdrs)
        <4>1. CASE v = u
          BY ZenonT(60), <4>1 DEF TxnGrows
        <4>2. CASE v # u
          <5>1. txn'[v] = txn[v]
            BY ZenonT(60), <4>2 DEF TxnGrows
          <5> QED
            BY ZenonT(60), <5>1, <3>2, AtLeastItself
        <4> QED
          BY <4>1, <4>2
      <3> QED
        BY ZenonT(60), <3>2, <3>3, RangeGrows
    <2> QED
      BY ZenonT(60), <2>1, LogUid DEF DiskInv
  <1> QED
    BY ZenonT(60), <1>2, <1>3, <1>4, <1>5, <1>6, <1>7, <1>8

\* journal_modify_block_start and _end keep the invariants.
LEMMA ModifyStep ==
  ASSUME Inductive, NEW t \in Threads, NEW b \in Blocks, journal_modify_block(t, b)
  PROVE  Inductive'
  <1> USE DEF Inductive
  <1>1. /\ up = "up" /\ th[t].pc = "run"
        /\ UNCHANGED <<up, jnl, ring, et, th, fin, io, cb, ntr, want, maybe, used, log, dhdr, home,
                       rp, rerrs>>
    BY ZenonT(60) DEF journal_modify_block, At, coreVars, diskVars
  <1>2. PICK u \in Uids : u = jnl.active_tr /\ txn[u].st = "open"
    BY ZenonT(60), <1>1 DEF RunPtr, RunPcs
  <1>3. TxnGrows(u)
    BY ZenonT(60), <1>2, ModifyGrows DEF journal_modify_block, ModifyLast, ModifyNew
  <1> QED
    BY ZenonT(60), <1>1, <1>2, <1>3, GrowStep DEF TypeOK

\* journal_kill_block keeps the invariants.
LEMMA KillStep ==
  ASSUME Inductive, NEW t \in Threads, NEW b \in Blocks, journal_kill_block(t, b)
  PROVE  Inductive'
  <1> USE DEF Inductive
  <1>1. /\ up = "up" /\ th[t].pc = "run"
        /\ UNCHANGED <<up, jnl, ring, et, th, fin, io, cb, ntr, want, maybe, log, dhdr, home,
                       rp, rerrs>>
    BY ZenonT(60) DEF journal_kill_block, At, coreVars, diskVars
  <1>2. PICK u \in Uids : u = jnl.active_tr /\ txn[u].st = "open"
    BY ZenonT(60), <1>1 DEF RunPtr, RunPcs
  <1>3. TxnGrows(u)
    BY ZenonT(60), <1>2, KillGrows DEF journal_kill_block
  <1>4. used' \in [kill : Nat, err : Nat, homeerr : Nat, crash : Nat, close : Nat]
    <2>1. used' = [used EXCEPT !.kill = @ + 1]
      BY ZenonT(60) DEF journal_kill_block
    <2>2. used \in UsedType
      BY ZenonT(60) DEF TypeOK, UsedType
    <2> QED
      BY ZenonT(60), <2>1, <2>2, KillCounted DEF UsedType
  <1> QED
    BY ZenonT(60), <1>1, <1>2, <1>3, <1>4, GrowStep

\* end_transaction handing the transaction over to finish_end_transaction
\* keeps the invariants.
LEMMA EtGoStep ==
  ASSUME Inductive, NEW t \in Threads, EtGo(t)
  PROVE  Inductive'
  <1> USE DEF Inductive
  <1>1. /\ up = "up" /\ th[t].pc = "et_go" /\ et' = NoEt
        /\ UNCHANGED <<up, io, cb, ntr, want, used, log, dhdr, home, rp, rerrs>>
    BY DEF EtGo, At, diskVars
  <1>2. "et_go" \in HeldPcs \ RunPcs /\ "et_go" \in EtPcs /\ "et_go" \in SpacePcs
    BY ZenonT(60) DEF HeldPcs, RunPcs, EtPcs, SpacePcs
  <1>3. PICK u \in Uids : u = et.tr /\ txn[u].st = "open" /\ u \in NoneOrUid
    BY ZenonT(60), <1>1, <1>2, NullPtr DEF EtPtr
  <1>4. /\ jnl.owner = t /\ jnl.cur_tr = 0
        /\ (et.drop <=> th[t].ret # "cl_drain") /\ (~et.drop => et.wait)
    BY ZenonT(60), <1>1, <1>2 DEF LockInv, CurPtr
  <1>5. /\ jnl.flushing /\ fin.pc = "none"
        /\ \A s \in Threads : s # t => ~Flushing(s)
    BY ZenonT(60), <1>1, <1>2 DEF OneFlusher, Flushing
  <1>6. PICK e \in Offsets : e = ring.end /\ e # 0 /\ e \in NoneOrOffset
    BY ZenonT(60), RingFields, OffsetRange
  <1>7. PICK p \in {"sync"} \cup Returns : p = IF et.wait THEN "sync" ELSE th[t].ret
    BY ZenonT(60), ThFields
  <1>8. /\ p \in Pcs /\ p \notin HeldPcs /\ p \notin SpacePcs /\ p \notin EtPcs /\ p \notin RunPcs
        /\ p \in ClosePcs => p = "cl_drain"
    BY DEF Returns, Pcs, HeldPcs, RunPcs, EtPcs, SpacePcs, ClosePcs
  <1>9. p \notin ClosePcs /\ (p = "sync" <=> et.wait)
    BY <1>4, <1>7, <1>8, ThFields DEF Returns, ClosePcs
  <1>10. JnlIs(IF et.drop THEN NONE ELSE t, jnl.active_tr, 0, TRUE, jnl.flush_aborted)
    <2>1. jnl' = [(IF et.drop THEN [jnl EXCEPT !.owner = NONE] ELSE jnl) EXCEPT
                    !.writing_header = @ \/ et.delayed,
                    !.write_header_failed = IF et.delayed THEN @ ELSE FALSE]
      BY DEF EtGo, Unlocked
    <2>2. et.delayed \in BOOLEAN /\ et.drop \in BOOLEAN
      BY EtTyped DEF EtType
    <2>3. jnl.flushing = TRUE
      BY <1>5, JnlTyped DEF JnlType
    <2> QED
      BY ZenonT(60), <2>1, <2>2, <2>3, <1>4, JnlTyped DEF JnlType, JnlIs
  <1>11. TxnIs(u, "flight", e, txn[u].je)
    BY ZenonT(60), <1>3, <1>6, TxnPlaced DEF EtGo
  <1>12. ring' \in RingType
    <2>1. ring' = [ring EXCEPT !.old_start =
                     [j \in 1..NOldStart |-> IF j < NOldStart THEN @[j + 1]
                                             ELSE [off |-> e, busy |-> TRUE]]]
      BY <1>6 DEF EtGo, OldStartPushed
    <2>2. \A j \in 1..NOldStart : j < NOldStart => j + 1 \in 1..NOldStart
      BY JournalAssumption
    <2> QED
      BY ZenonT(60), <2>1, <2>2, <1>6, RingTyped DEF RingType
  <1>13. FinIs("wait", u, 1, IF et.wait THEN t ELSE NONE)
    BY <1>3, <1>6 DEF EtGo, FinIs, FinType
  <1>14. maybe' \in [Blocks -> Contents]
    <2>1. NoneOrUid \subseteq Contents
      BY ReplayAssumption DEF NoneOrUid, Contents, TORN
    <2> QED
      BY ZenonT(60), <2>1, <1>3 DEF EtGo, TypeOK
  <1>15. ThIs(t, p, th[t].ret)
    BY ZenonT(60), <1>7, <1>8, ThMoves DEF EtGo, Goto
  <1>16. et' \in EtType
    BY <1>1, NullPtr, FirstSlot DEF EtType, NoEt
  <1>17. TypeOK'
    BY ZenonT(60), <1>1, <1>10, <1>11, <1>12, <1>13, <1>14, <1>15, <1>16
       DEF TypeOK, ReplayTypeOK, JnlIs, TxnIs, FinIs, ThIs
  <1>18. /\ \A s \in Threads : s # t => /\ th[s].pc \notin HeldPcs \cup ClosePcs
                                        /\ ~(th[s].pc = "sync" /\ th[s].ret = "cl_drain")
         /\ \A s \in Threads : s # t => th'[s].pc = th[s].pc /\ th'[s].ret = th[s].ret
         /\ th'[t].pc = p /\ th'[t].ret = th[t].ret
    BY ZenonT(60), <1>4, <1>15, Alone DEF ThIs
  <1>19. \A s \in Threads : s # t => th[s].pc \notin EtPcs \cup RunPcs
    BY ZenonT(60), <1>18 DEF HeldPcs
  <1>20. OneFlusher'
    <2>1. \A s \in Threads : ~Flushing(s)'
      BY ZenonT(60), <1>5, <1>8, <1>18 DEF Flushing
    <2> QED
      BY ZenonT(60), <2>1, <1>10, <1>13 DEF OneFlusher, JnlIs, FinIs, FlushPcs
  <1>21. LockInv'
    <2>1. \A s \in Threads : th'[s].pc \notin HeldPcs \cup ClosePcs \cup EtPcs
      BY ZenonT(60), <1>8, <1>9, <1>18, <1>19
    <2>2. \A s \in Threads : th'[s].pc = "sync" /\ th'[s].ret = "cl_drain" => jnl'.owner = s
      BY ZenonT(60), <1>4, <1>10, <1>18 DEF JnlIs
    <2>3. \A s \in Threads : fin'.by = s => th'[s].pc = "sync"
      BY ZenonT(60), <1>9, <1>13, <1>18, NoThread DEF FinIs
    <2> QED
      BY ZenonT(60), <2>1, <2>2, <2>3, <1>13 DEF LockInv, FinIs
  <1>22. RunPtr' /\ EtPtr' /\ CurPtr'
    BY ZenonT(60), <1>8, <1>10, <1>18, <1>19 DEF RunPtr, EtPtr, CurPtr, JnlIs
  <1>23. FinPtr'
    <2>1. 1 <= Len(txn[u].hdrs)
      BY ZenonT(60), <1>3 DEF TxnInv, TxnFits
    <2> QED
      BY ZenonT(60), <2>1, <1>11, <1>13 DEF FinPtr, FinIs, TxnIs
  <1>24. IoPtr' /\ DownInv'
    BY ZenonT(60), <1>1, <1>3, <1>11, IoUid DEF IoPtr, DownInv, TxnIs
  <1>25. TxnInv'
    <2>1. TxnFits(u)'
      BY ZenonT(60), <1>1, <1>3, <1>6, <1>11 DEF TxnInv, TxnFits, TxnIs
    <2>2. ASSUME NEW v \in Uids, v # u
          PROVE  TxnFits(v)'
      BY ZenonT(60), <2>2, <1>1, <1>11 DEF TxnInv, TxnFits, TxnIs
    <2> QED
      BY ZenonT(60), <2>1, <2>2 DEF TxnInv
  <1>26. DiskInv'
    BY ZenonT(60), <1>1, <1>11, LogUid DEF DiskInv, TxnIs
  <1>27. WriteAhead'
    BY ZenonT(60), <1>1, <1>3, <1>11 DEF WriteAhead, TxnIs
  <1> QED
    BY ZenonT(60), <1>17, <1>20, <1>21, <1>22, <1>23, <1>24, <1>25, <1>26, <1>27
=============================================================================
