------------------------------- MODULE Journal -------------------------------
(***************************************************************************)
(* The metadata journal of core/hfs_journal.c: transactions, group commit, *)
(* the pipelined flush to the ring, the write-back of the blocks to their  *)
(* home locations, reclaiming ring space, and recovery after a crash.      *)
(*                                                                         *)
(* Actors: the threads of the file system (Threads), the thread that       *)
(* finishes a transaction (fin: finish_end_transaction, run by its own     *)
(* kernel thread or by the caller), the thread that rewrites the header    *)
(* after the start of the ring moved (write_header_thread), the disk       *)
(* driver that completes home writes and calls buffer_flushed_callback     *)
(* (io, cb), and the mount code that replays the ring (JournalReplay).     *)
(*                                                                         *)
(* A block's data is the transaction that wrote it.                        *)
(*                                                                         *)
(* A definition named A_X is a mutant of A: A with a plausible mistake, for *)
(* checking that the properties below notice it.  No specification uses it. *)
(***************************************************************************)
EXTENDS JournalReplay

CONSTANTS
  Threads,     \* threads that call the journal
  NONE,        \* no thread
  NOldStart,   \* entries of jnl->old_start
  BlhdrCap,    \* data blocks that fit in one block list
  MaxBlhdrs,   \* bound: block lists of one transaction
  MaxNest,     \* bound: nested journal_start_transaction calls
  MaxKill,     \* bound: calls of journal_kill_block
  MaxErr,      \* bound: failures of journal I/O and of VOP_BMAP
  MaxHomeErr,  \* bound: failed home writes
  MaxCrash,    \* bound: crashes
  MaxClose     \* bound: calls of journal_close

ASSUME JournalAssumption ==
  /\ NONE \notin Threads
  /\ NOldStart \in Nat /\ NOldStart >= 1
  /\ BlhdrCap \in Nat /\ BlhdrCap >= 1
  /\ MaxBlhdrs \in Nat /\ MaxBlhdrs >= 1
  /\ MaxNest \in Nat /\ MaxKill \in Nat /\ MaxErr \in Nat
  /\ MaxHomeErr \in Nat /\ MaxCrash \in Nat /\ MaxClose \in Nat

VARIABLES
  up,          \* "up", "replay" (journal_open is running), "down", "failed"
  jnl,         \* locks, flags and transaction pointers of struct journal
  ring,        \* jhdr->start, jhdr->end, active_start, old_start, completed_trs
  et,          \* the frame of end_transaction and check_free_space
  th,          \* th[t]: where thread t is in the journal code
  fin,         \* the frame of finish_end_transaction
  io,          \* the home writes under way
  cb,          \* buffer_flushed_callback while it holds old_start_lock
  ntr,         \* transactions allocated
  want, maybe, \* what recovery must restore, without and with the one in flight
  used         \* how much of each bound has been used

coreVars == <<jnl, ring, et, th, fin, io, cb>>
diskVars == <<log, dhdr, home>>
vars == <<up, coreVars, ntr, want, maybe, used, txn, diskVars, rp, rerrs>>

Free == [off |-> 0, busy |-> FALSE]
NoTxn == [seq |-> 0, hdrs |-> << >>, total |-> 0, killed |-> 0, force |-> FALSE,
          js |-> 0, je |-> 0, st |-> "none"]
NoEt == [tr |-> 0, i |-> 1, empty |-> TRUE, delayed |-> FALSE,
         drop |-> TRUE, wait |-> FALSE]
NoFin == [pc |-> "none", tr |-> 0, pos |-> 1, k |-> 1, by |-> NONE]
NoIO == [tr |-> 0, pending |-> {}, flushed |-> 0]
NoCb == [on |-> FALSE, s |-> 0, e |-> 0, i |-> 1]
Idle == [pc |-> "idle", ret |-> "idle", wio |-> FALSE, upto |-> 0,
         hollow |-> FALSE]


\* struct journal as journal_create and journal_open leave it.
FreshJnl(seq) ==
  [owner |-> NONE, nested_count |-> 0, active_tr |-> 0, cur_tr |-> 0,
   sequence_num |-> seq, saved_sequence_num |-> 0,
   flushing |-> FALSE, asyncIO |-> FALSE, writing_header |-> FALSE,
   invalid |-> FALSE, flush_aborted |-> FALSE, write_header_failed |-> FALSE]
FreshRing(s, e) ==
  [start |-> s, end |-> e, active_start |-> s,
   old_start |-> [i \in 1..NOldStart |-> Free], completed_trs |-> << >>]

\* Nothing of the journal is in memory.
CoreGone ==
  /\ jnl' = FreshJnl(0) /\ ring' = FreshRing(1, 1)
  /\ et' = NoEt /\ th' = [t \in Threads |-> Idle]
  /\ fin' = NoFin /\ io' = NoIO /\ cb' = NoCb

\* journal_create: an empty ring and a first sequence number.
Init ==
  /\ up = "up"
  /\ jnl = FreshJnl(1) /\ ring = FreshRing(1, 1)
  /\ et = NoEt /\ th = [t \in Threads |-> Idle]
  /\ fin = NoFin /\ io = NoIO /\ cb = NoCb
  /\ ntr = 0 /\ txn = [u \in Uids |-> NoTxn]
  /\ log = [c \in Cells |-> NoCell]
  /\ dhdr = [start |-> 1, end |-> 1, seq |-> 1]
  /\ home = NoBuf /\ want = NoBuf /\ maybe = NoBuf
  /\ rp = ReplayIdle /\ rerrs = 0
  /\ used = [kill |-> 0, err |-> 0, homeerr |-> 0, crash |-> 0, close |-> 0]

-----------------------------------------------------------------------------
\* Helpers.

Goto(t, p) == th' = [th EXCEPT ![t].pc = p]
At(t, p) == up = "up" /\ th[t].pc = p
IOError == used.err < MaxErr /\ used' = [used EXCEPT !.err = @ + 1]

\* Where the live entries of a transaction are, and their blocks.
Live(u) ==
  {e \in (1..Len(txn[u].hdrs)) \X (1..BlhdrCap) :
      e[2] <= Len(txn[u].hdrs[e[1]]) /\ txn[u].hdrs[e[1]][e[2]] # KILLED}
BlockAt(u, e) == txn[u].hdrs[e[1]][e[2]]
LiveBlocks(u) == {BlockAt(u, e) : e \in Live(u)}

\* free_space.
FreeSpace(s, e) ==
  CASE s < e -> Size - (e - s) - 1
    [] s > e -> s - e
    [] OTHER -> Size - 1

\* journal_unlock, when the caller asked for it.
Unlocked(drop) == IF drop THEN [jnl EXCEPT !.owner = NONE] ELSE jnl

-----------------------------------------------------------------------------
\* Transactions.

\* journal_start_transaction up to the lock: the validity check.
StartCheck(t) ==
  /\ At(t, "idle")
  /\ ~jnl.invalid
  /\ ntr < MaxTr
  /\ Goto(t, "st_lock")
  /\ UNCHANGED <<up, jnl, ring, et, fin, io, cb, ntr, want, maybe, used, txn, diskVars, rp, rerrs>>

\* journal_start_transaction from the lock on: take the buffered transaction,
\* or allocate one (journal_allocate_transaction).
journal_start_transaction(t) ==
  /\ At(t, "st_lock")
  /\ jnl.owner = NONE
  /\ Goto(t, "run")
  /\ IF jnl.cur_tr # 0
     THEN /\ jnl' = [jnl EXCEPT !.owner = t, !.nested_count = 1,
                                !.active_tr = jnl.cur_tr, !.cur_tr = 0]
          /\ UNCHANGED <<ntr, txn>>
     ELSE /\ ntr < MaxTr
          /\ ntr' = ntr + 1
          /\ txn' = [txn EXCEPT ![ntr + 1] =
                       [NoTxn EXCEPT !.seq = jnl.sequence_num + 1,
                                     !.hdrs = << << >> >>, !.total = 1, !.st = "open"]]
          /\ jnl' = [jnl EXCEPT !.owner = t, !.nested_count = 1,
                                !.active_tr = ntr + 1, !.sequence_num = @ + 1]
  /\ UNCHANGED <<up, ring, et, fin, io, cb, want, maybe, used, diskVars, rp, rerrs>>

\* journal_start_transaction by the owner.
StartNested(t) ==
  /\ At(t, "run")
  /\ ~jnl.invalid
  /\ jnl.nested_count < MaxNest
  /\ jnl' = [jnl EXCEPT !.nested_count = @ + 1]
  /\ UNCHANGED <<up, ring, et, th, fin, io, cb, ntr, want, maybe, used, txn, diskVars, rp, rerrs>>

\* journal_modify_block_start and journal_modify_block_end of a block that the
\* transaction does not hold yet.  A transaction bigger than the whole journal
\* panics; callers keep below that.
journal_modify_block(t, b) ==
  LET u == jnl.active_tr
      n == Len(txn[u].hdrs)
  IN /\ At(t, "run")
     /\ ~jnl.invalid
     /\ b \notin LiveBlocks(u)
     /\ txn[u].total + 1 < Size - 1
     /\ \/ /\ Len(txn[u].hdrs[n]) < BlhdrCap
           /\ txn' = [txn EXCEPT ![u].hdrs[n] = Append(@, b), ![u].total = @ + 1]
        \/ /\ Len(txn[u].hdrs[n]) >= BlhdrCap
           /\ n < MaxBlhdrs
           /\ txn' = [txn EXCEPT ![u].hdrs = Append(@, <<b>>), ![u].total = @ + 2]
     /\ UNCHANGED <<up, coreVars, ntr, want, maybe, used, diskVars, rp, rerrs>>

\* Mutant: the killed block is not counted.
journal_kill_block_Uncounted(t, b) ==
  LET u == jnl.active_tr IN
  /\ At(t, "run")
  /\ ~jnl.invalid
  /\ used.kill < MaxKill
  /\ used' = [used EXCEPT !.kill = @ + 1]
  /\ \E e \in Live(u) :
       /\ BlockAt(u, e) = b
       /\ txn' = [txn EXCEPT ![u].hdrs[e[1]][e[2]] = KILLED]
  /\ UNCHANGED <<up, coreVars, ntr, want, maybe, diskVars, rp, rerrs>>

\* journal_kill_block of a block that the transaction holds.
journal_kill_block(t, b) ==
  LET u == jnl.active_tr IN
  /\ At(t, "run")
  /\ ~jnl.invalid
  /\ used.kill < MaxKill
  /\ used' = [used EXCEPT !.kill = @ + 1]
  /\ \E e \in Live(u) :
       /\ BlockAt(u, e) = b
       /\ txn' = [txn EXCEPT ![u].hdrs[e[1]][e[2]] = KILLED, ![u].killed = @ + 1]
  /\ UNCHANGED <<up, coreVars, ntr, want, maybe, diskVars, rp, rerrs>>

\* journal_request_immediate_flush.
journal_request_immediate_flush(t) ==
  /\ At(t, "run")
  /\ ~jnl.invalid
  /\ ~txn[jnl.active_tr].force
  /\ txn' = [txn EXCEPT ![jnl.active_tr].force = TRUE]
  /\ UNCHANGED <<up, coreVars, ntr, want, maybe, used, diskVars, rp, rerrs>>

-----------------------------------------------------------------------------
\* end_transaction.

\* The buffer is not very full: group commit holds on to the transaction.
NotVeryFull(u) ==
  /\ Len(txn[u].hdrs) < 3
  /\ 8 * txn[u].total <= (8 * Len(txn[u].hdrs) - 1) * (BlhdrCap + 1)

\* end_transaction up to its first wait, by thread t that holds the lock: j is
\* struct journal as the caller leaves it, ret where the caller goes on.
EndTransaction(t, u, force, drop, wait, j, ret) ==
  IF txn[u].total = 1 \/ (~force /\ NotVeryFull(u))
  THEN /\ jnl' = [j EXCEPT !.cur_tr = u, !.owner = IF drop THEN NONE ELSE @]
       /\ th' = [th EXCEPT ![t].pc = ret]
       /\ UNCHANGED et
  ELSE /\ jnl' = j
       /\ th' = [th EXCEPT ![t].pc = "et_lock", ![t].ret = ret]
       /\ et' = [NoEt EXCEPT !.tr = u, !.drop = drop, !.wait = wait \/ ~drop]

\* journal_end_transaction of a nested call.
EndNested(t) ==
  /\ At(t, "run")
  /\ jnl.nested_count > 1
  /\ jnl' = [jnl EXCEPT !.nested_count = @ - 1]
  /\ UNCHANGED <<up, ring, et, th, fin, io, cb, ntr, want, maybe, used, txn, diskVars, rp, rerrs>>

\* journal_end_transaction of the outermost call.
journal_end_transaction(t) ==
  LET u == jnl.active_tr
      j == [jnl EXCEPT !.nested_count = 0, !.active_tr = 0]
  IN /\ At(t, "run")
     /\ jnl.nested_count = 1
     /\ \/ /\ jnl.invalid
           /\ jnl' = [j EXCEPT !.owner = NONE]
           /\ txn' = [txn EXCEPT ![u].st = "aborted"]
           /\ Goto(t, "idle")
           /\ UNCHANGED et
        \/ /\ ~jnl.invalid
           /\ EndTransaction(t, u, txn[u].force, TRUE, txn[u].force, j, "idle")
           /\ UNCHANGED txn
     /\ UNCHANGED <<up, ring, fin, io, cb, ntr, want, maybe, used, diskVars, rp, rerrs>>

\* Mutant: the flush before this one is not waited for.
EtLock_NoWait(t) ==
  /\ At(t, "et_lock")
  /\ jnl' = [jnl EXCEPT !.flushing = TRUE, !.saved_sequence_num = jnl.sequence_num]
  /\ Goto(t, "et_space")
  /\ UNCHANGED <<up, ring, et, fin, io, cb, ntr, want, maybe, used, txn, diskVars, rp, rerrs>>

\* lock_condition(flushing); an aborted flush aborts this transaction too.
EtLock(t) ==
  /\ At(t, "et_lock")
  /\ ~jnl.flushing
  /\ IF jnl.invalid \/ jnl.flush_aborted
     THEN /\ jnl' = Unlocked(et.drop)
          /\ txn' = [txn EXCEPT ![et.tr].st = "aborted"]
          /\ Goto(t, th[t].ret)
          /\ et' = NoEt
     ELSE /\ jnl' = [jnl EXCEPT !.flushing = TRUE,
                                !.saved_sequence_num = jnl.sequence_num]
          /\ Goto(t, "et_space")
          /\ UNCHANGED <<et, txn>>
  /\ UNCHANGED <<up, ring, fin, io, cb, ntr, want, maybe, used, diskVars, rp, rerrs>>

\* Mutant: the ring may fill up.
EtSpace_AtLeast(t) ==
  /\ At(t, "et_space")
  /\ IF /\ FreeSpace(ring.start, ring.end) >= txn[et.tr].total
        /\ ring.old_start[1].off = 0
     THEN Goto(t, "et_go") /\ UNCHANGED et
     ELSE Goto(t, "et_scan") /\ et' = [et EXCEPT !.i = 1, !.empty = TRUE]
  /\ UNCHANGED <<up, jnl, ring, fin, io, cb, ntr, want, maybe, used, txn, diskVars, rp, rerrs>>

\* The top of the loop of check_free_space.
EtSpace(t) ==
  /\ At(t, "et_space")
  /\ IF /\ FreeSpace(ring.start, ring.end) > txn[et.tr].total
        /\ ring.old_start[1].off = 0
     THEN Goto(t, "et_go") /\ UNCHANGED et
     ELSE Goto(t, "et_scan") /\ et' = [et EXCEPT !.i = 1, !.empty = TRUE]
  /\ UNCHANGED <<up, jnl, ring, fin, io, cb, ntr, want, maybe, used, txn, diskVars, rp, rerrs>>

\* Its scan of old_start from entry et.i, under old_start_lock: it stops at an
\* entry whose transaction is still being written home (and waits there), or
\* once the entries it consumed make room, or at the end of the array.
MakesRoom(j) ==
  LET off == ring.old_start[j].off IN off # 0 /\ FreeSpace(off, ring.end) > txn[et.tr].total
StopsWithRoom(stop) == stop <= NOldStart /\ ~ring.old_start[stop].busy
Consumed(stop) ==
  {j \in et.i..NOldStart : /\ ring.old_start[j].off # 0
                           /\ j < stop \/ (StopsWithRoom(stop) /\ j = stop)}

EtScan(t) ==
  \E stop \in et.i..(NOldStart + 1), start \in 1..Size :
    LET os == ring.old_start
        room == StopsWithRoom(stop)
        taken == Consumed(stop)
    IN /\ At(t, "et_scan")
       /\ ~cb.on
       /\ \A j \in et.i..(stop - 1) : ~os[j].busy /\ ~MakesRoom(j)
       /\ stop <= NOldStart => os[stop].busy \/ MakesRoom(stop)
       /\ room \/ stop > NOldStart \/ stop # et.i
       /\ \/ taken = {} /\ start = ring.start
          \/ \E j \in taken : (\A h \in taken : h <= j) /\ start = os[j].off
       /\ ring' = [ring EXCEPT !.start = start,
                     !.old_start = [j \in 1..NOldStart |-> IF j \in taken THEN Free ELSE @[j]]]
       /\ et' = [et EXCEPT !.i = stop, !.empty = @ /\ taken = {}, !.delayed = @ \/ room]
       /\ Goto(t, IF room THEN "et_space" ELSE IF stop > NOldStart THEN "et_pass" ELSE "et_scan")
       /\ UNCHANGED <<up, jnl, fin, io, cb, ntr, want, maybe, used, txn, diskVars, rp, rerrs>>

\* Mutant: the start of the ring stays where it is.
EtPass_Stays(t) ==
  /\ At(t, "et_pass")
  /\ Goto(t, "et_space")
  /\ UNCHANGED <<up, jnl, ring, et, fin, io, cb, ntr, want, maybe, used, txn, diskVars, rp, rerrs>>

\* A whole scan made no room: with nothing left in old_start the ring starts at
\* active_start; otherwise flush, sleep and look again.
EtPass(t) ==
  /\ At(t, "et_pass")
  /\ Goto(t, "et_space")
  /\ IF et.empty
     THEN /\ ring' = [ring EXCEPT !.start = ring.active_start]
          /\ et' = [et EXCEPT !.delayed = TRUE]
     ELSE UNCHANGED <<ring, et>>
  /\ UNCHANGED <<up, jnl, fin, io, cb, ntr, want, maybe, used, txn, diskVars, rp, rerrs>>

\* The entries of old_start move up and the last one is where the transaction
\* begins, flagged until its blocks are home.  Mutant: it is not flagged.
OldStartPushed_Unflagged ==
  [j \in 1..NOldStart |-> IF j < NOldStart THEN ring.old_start[j + 1]
                          ELSE [off |-> ring.end, busy |-> FALSE]]
OldStartPushed ==
  [j \in 1..NOldStart |-> IF j < NOldStart THEN ring.old_start[j + 1]
                          ELSE [off |-> ring.end, busy |-> TRUE]]

\* The rest of end_transaction: start the header write when the start moved,
\* note where the transaction begins, copy its blocks, drop the lock and hand
\* over to finish_end_transaction, here or in a thread of its own.
EtGo(t) ==
  LET u == et.tr IN
  /\ At(t, "et_go")
  /\ ~cb.on
  /\ et.delayed => ~jnl.writing_header
  /\ jnl' = [Unlocked(et.drop) EXCEPT
               !.writing_header = @ \/ et.delayed,
               !.write_header_failed = IF et.delayed THEN @ ELSE FALSE]
  /\ txn' = [txn EXCEPT ![u].js = ring.end, ![u].st = "flight"]
  /\ ring' = [ring EXCEPT !.old_start = OldStartPushed]
  /\ fin' = [pc |-> "wait", tr |-> u, pos |-> ring.end, k |-> 1,
             by |-> IF et.wait THEN t ELSE NONE]
  /\ maybe' = [b \in Blocks |-> IF b \in LiveBlocks(u) THEN u ELSE want[b]]
  /\ Goto(t, IF et.wait THEN "sync" ELSE th[t].ret)
  /\ et' = NoEt
  /\ UNCHANGED <<up, io, cb, ntr, want, used, diskVars, rp, rerrs>>

-----------------------------------------------------------------------------
\* write_header_thread and finish_end_transaction.

HeaderInCore(seq) == [start |-> ring.start, end |-> ring.end, seq |-> seq]

\* write_header_thread: write_journal_header with updating_start.
write_header_thread ==
  /\ up = "up"
  /\ jnl.writing_header
  /\ \/ /\ dhdr' = HeaderInCore(jnl.saved_sequence_num)
        /\ jnl' = [jnl EXCEPT !.write_header_failed = FALSE, !.writing_header = FALSE]
        /\ UNCHANGED used
     \/ /\ IOError
        /\ jnl' = [jnl EXCEPT !.write_header_failed = TRUE, !.writing_header = FALSE,
                              !.invalid = TRUE]
        /\ UNCHANGED dhdr
  /\ UNCHANGED <<up, ring, et, th, fin, io, cb, ntr, want, maybe, txn, log, home, rp, rerrs>>

FinAt(p) == up = "up" /\ fin.pc = p

\* A buffer cannot be mapped to its place on disk.
FinBmapError ==
  /\ FinAt("wait")
  /\ IOError
  /\ fin' = [fin EXCEPT !.pc = "bad"]
  /\ UNCHANGED <<up, jnl, ring, et, th, io, cb, ntr, want, maybe, txn, diskVars, rp, rerrs>>

\* Mutant: the header with the new start is not waited for.
FinWait_NoWait ==
  /\ FinAt("wait")
  /\ fin' = [fin EXCEPT !.pc = IF jnl.write_header_failed THEN "bad" ELSE "write"]
  /\ UNCHANGED <<up, jnl, ring, et, th, io, cb, ntr, want, maybe, used, txn, diskVars, rp, rerrs>>

\* wait_condition(writing_header), then go on unless that write failed.
FinWait ==
  /\ FinAt("wait")
  /\ ~jnl.writing_header
  /\ fin' = [fin EXCEPT !.pc = IF jnl.write_header_failed THEN "bad" ELSE "write"]
  /\ UNCHANGED <<up, jnl, ring, et, th, io, cb, ntr, want, maybe, used, txn, diskVars, rp, rerrs>>

\* Mutants: home writes go before the header; a failed write is not noticed.
FinWrite_NoHeader ==
  LET n == Len(txn[fin.tr].hdrs[fin.k]) IN
  /\ FinAt("write")
  /\ log' = LogAfter(fin.tr, fin.k, fin.pos, 0..n)
  /\ fin' = [fin EXCEPT !.pos = Advance(@, n + 1),
               !.k = IF @ < Len(txn[fin.tr].hdrs) THEN @ + 1 ELSE @,
               !.pc = IF fin.k < Len(txn[fin.tr].hdrs) THEN "wait" ELSE "home"]
  /\ UNCHANGED <<up, jnl, ring, et, th, io, cb, ntr, want, maybe, used, txn, dhdr, home, rp, rerrs>>

\* write_journal_data of one block list.
FinWrite ==
  LET n == Len(txn[fin.tr].hdrs[fin.k]) IN
  /\ FinAt("write")
  /\ \/ /\ log' = LogAfter(fin.tr, fin.k, fin.pos, 0..n)
        /\ fin' = [fin EXCEPT !.pos = Advance(@, n + 1),
                     !.k = IF @ < Len(txn[fin.tr].hdrs) THEN @ + 1 ELSE @,
                     !.pc = IF fin.k < Len(txn[fin.tr].hdrs) THEN "wait" ELSE "header"]
        /\ UNCHANGED used
     \/ /\ IOError
        /\ \E J \in SUBSET (0..n) : log' = LogAfter(fin.tr, fin.k, fin.pos, J)
        /\ fin' = [fin EXCEPT !.pc = "bad"]
  /\ UNCHANGED <<up, jnl, ring, et, th, io, cb, ntr, want, maybe, txn, dhdr, home, rp, rerrs>>

\* Mutant: the blocks go home although the header was not written.
FinHeader_Unnoticed ==
  /\ FinAt("header")
  /\ ring' = [ring EXCEPT !.end = fin.pos]
  /\ \/ /\ dhdr' = [start |-> ring.start, end |-> fin.pos, seq |-> jnl.saved_sequence_num]
        /\ txn' = [txn EXCEPT ![fin.tr].je = fin.pos, ![fin.tr].st = "committed"]
        /\ want' = maybe
        /\ UNCHANGED <<jnl, used>>
     \/ /\ IOError
        /\ jnl' = [jnl EXCEPT !.invalid = TRUE]
        /\ txn' = [txn EXCEPT ![fin.tr].je = fin.pos]
        /\ UNCHANGED <<dhdr, want>>
  /\ fin' = [fin EXCEPT !.pc = "home"]
  /\ UNCHANGED <<up, et, th, io, cb, ntr, maybe, log, home, rp, rerrs>>

\* Update jhdr->end and write the header: the transaction is committed.
FinHeader ==
  /\ FinAt("header")
  /\ ring' = [ring EXCEPT !.end = fin.pos]
  /\ \/ /\ dhdr' = [start |-> ring.start, end |-> fin.pos, seq |-> jnl.saved_sequence_num]
        /\ fin' = [fin EXCEPT !.pc = "home"]
        /\ txn' = [txn EXCEPT ![fin.tr].je = fin.pos, ![fin.tr].st = "committed"]
        /\ want' = maybe
        /\ UNCHANGED <<jnl, used>>
     \/ /\ IOError
        /\ jnl' = [jnl EXCEPT !.invalid = TRUE]
        /\ fin' = [fin EXCEPT !.pc = "bad"]
        /\ txn' = [txn EXCEPT ![fin.tr].je = fin.pos]
        /\ UNCHANGED <<dhdr, want>>
  /\ UNCHANGED <<up, et, th, io, cb, ntr, maybe, log, home, rp, rerrs>>

\* The thread that waits for finish_end_transaction, if any, goes on.
FinReturn ==
  th' = [t \in Threads |-> IF t = fin.by THEN [th[t] EXCEPT !.pc = th[t].ret] ELSE th[t]]

\* Mutants: one block list is counted as flushed, whatever their number; a
\* transaction whose predecessor is still going home is not sent home.
FinHome_OneList ==
  /\ FinAt("home")
  /\ ~jnl.asyncIO
  /\ jnl' = [jnl EXCEPT !.asyncIO = Live(fin.tr) # {}]
  /\ io' = IF Live(fin.tr) = {} THEN NoIO
           ELSE [tr |-> fin.tr, pending |-> Live(fin.tr), flushed |-> 1]
  /\ txn' = IF Live(fin.tr) = {} THEN [txn EXCEPT ![fin.tr].st = "home"] ELSE txn
  /\ fin' = [fin EXCEPT !.pc = "done"]
  /\ UNCHANGED <<up, ring, et, th, cb, ntr, want, maybe, used, diskVars, rp, rerrs>>

FinHome_Skips ==
  /\ FinAt("home")
  /\ IF jnl.asyncIO THEN UNCHANGED <<jnl, io, txn>>
     ELSE /\ jnl' = [jnl EXCEPT !.asyncIO = Live(fin.tr) # {}]
          /\ io' = IF Live(fin.tr) = {} THEN NoIO
                   ELSE [tr |-> fin.tr, pending |-> Live(fin.tr),
                         flushed |-> Len(txn[fin.tr].hdrs)]
          /\ txn' = IF Live(fin.tr) = {} THEN [txn EXCEPT ![fin.tr].st = "home"] ELSE txn
  /\ fin' = [fin EXCEPT !.pc = "done"]
  /\ UNCHANGED <<up, ring, et, th, cb, ntr, want, maybe, used, diskVars, rp, rerrs>>

\* lock_condition(asyncIO), then issue the home writes; without any there is
\* nothing to wait for.
FinHome ==
  /\ FinAt("home")
  /\ ~jnl.asyncIO
  /\ jnl' = [jnl EXCEPT !.asyncIO = Live(fin.tr) # {}]
  /\ io' = IF Live(fin.tr) = {} THEN NoIO
           ELSE [tr |-> fin.tr, pending |-> Live(fin.tr), flushed |-> Len(txn[fin.tr].hdrs)]
  /\ txn' = IF Live(fin.tr) = {} THEN [txn EXCEPT ![fin.tr].st = "home"] ELSE txn
  /\ fin' = [fin EXCEPT !.pc = "done"]
  /\ UNCHANGED <<up, ring, et, th, cb, ntr, want, maybe, used, diskVars, rp, rerrs>>

\* unlock_condition(flushing): the next flush may begin while these blocks are
\* still going home.
FinDone ==
  /\ FinAt("done")
  /\ jnl' = [jnl EXCEPT !.flushing = FALSE]
  /\ fin' = NoFin
  /\ FinReturn
  /\ UNCHANGED <<up, ring, et, io, cb, ntr, want, maybe, used, txn, diskVars, rp, rerrs>>

\* bad_journal: abort the transaction, let the next flush in, then wait for the
\* journal lock to mark the journal invalid.
FinBad ==
  /\ FinAt("bad")
  /\ txn' = [txn EXCEPT ![fin.tr].st = "aborted"]
  /\ jnl' = [jnl EXCEPT !.flush_aborted = TRUE, !.flushing = FALSE]
  /\ fin' = [fin EXCEPT !.pc = "lock"]
  /\ UNCHANGED <<up, ring, et, th, io, cb, ntr, want, maybe, used, diskVars, rp, rerrs>>

FinLock ==
  /\ FinAt("lock")
  /\ jnl.owner = NONE
  /\ jnl' = [jnl EXCEPT !.invalid = TRUE]
  /\ ring' = [ring EXCEPT !.old_start[NOldStart].busy = FALSE]
  /\ fin' = NoFin
  /\ FinReturn
  /\ UNCHANGED <<up, et, io, cb, ntr, want, maybe, used, txn, diskVars, rp, rerrs>>

-----------------------------------------------------------------------------
\* Home writes and buffer_flushed_callback.

\* The callback counts bytes: block lists, killed blocks and blocks written.
LastFlushed == txn[io.tr].killed + io.flushed + 1 >= txn[io.tr].total

\* The entry of old_start that the callback takes for its transaction's.
Match == {j \in 1..NOldStart : ring.old_start[j].off = txn[io.tr].js}
FirstMatch == CHOOSE j \in Match : \A h \in Match : j <= h

\* Mutant: the flag of the entry stays set.
CallbackBegin_StaysFlagged ==
  LET s == txn[io.tr].js
      e == txn[io.tr].je
      oldest == s = ring.active_start
  IN /\ Match # {}
     /\ ring' = [ring EXCEPT !.active_start = IF oldest THEN e ELSE @]
     /\ cb' = [on |-> TRUE, s |-> IF oldest THEN 0 ELSE s, e |-> IF oldest THEN 0 ELSE e, i |-> 1]

\* Up to the walk over completed_trs: mark the entry of old_start, and advance
\* active_start when this is the oldest transaction.
CallbackBegin ==
  LET s == txn[io.tr].js
      e == txn[io.tr].je
      oldest == s = ring.active_start
  IN /\ Match # {}
     /\ ring' = [ring EXCEPT !.old_start[FirstMatch].busy = FALSE,
                             !.active_start = IF oldest THEN e ELSE @]
     /\ cb' = [on |-> TRUE, s |-> IF oldest THEN 0 ELSE s, e |-> IF oldest THEN 0 ELSE e, i |-> 1]

\* One home write completes, well or not, and its callback runs; with the
\* journal invalid the last callback only lets the next home writes go.
HomeDone(e) ==
  LET b == BlockAt(io.tr, e)
      rest == [io EXCEPT !.pending = @ \ {e}, !.flushed = @ + 1]
  IN /\ up = "up"
     /\ e \in io.pending
     /\ \/ home' = [home EXCEPT ![b] = io.tr] /\ UNCHANGED used
        \/ /\ used.homeerr < MaxHomeErr
           /\ used' = [used EXCEPT !.homeerr = @ + 1]
           /\ UNCHANGED home
     /\ txn' = IF LastFlushed THEN [txn EXCEPT ![io.tr].st = "home"] ELSE txn
     /\ \/ ~LastFlushed /\ io' = rest /\ UNCHANGED <<jnl, ring, cb>>
        \/ LastFlushed /\ jnl.invalid /\ io' = NoIO
           /\ jnl' = [jnl EXCEPT !.asyncIO = FALSE] /\ UNCHANGED <<ring, cb>>
        \/ LastFlushed /\ ~jnl.invalid /\ io' = rest /\ CallbackBegin /\ UNCHANGED jnl
     /\ UNCHANGED <<up, et, th, fin, ntr, want, maybe, log, dhdr, rp, rerrs>>

\* One turn of the walk that coalesces completed_trs.
Without(s, i) == SubSeq(s, 1, i - 1) \o SubSeq(s, i + 1, Len(s))
CallbackWalk ==
  LET L == ring.completed_trs
      c == L[cb.i]
      Merged == [cb EXCEPT !.s = 0, !.e = 0]
  IN /\ up = "up" /\ cb.on /\ cb.i <= Len(L)
     /\ CASE c.s = ring.active_start ->
               /\ ring' = [ring EXCEPT !.active_start = c.e, !.completed_trs = Without(L, cb.i)]
               /\ cb' = [cb EXCEPT !.i = 1]
          [] c.s # ring.active_start /\ cb.e = c.s ->
               /\ ring' = [ring EXCEPT !.completed_trs[cb.i].s = cb.s]
               /\ cb' = [Merged EXCEPT !.i = 1]
          [] c.s # ring.active_start /\ cb.e # c.s /\ cb.s = c.e ->
               /\ ring' = [ring EXCEPT !.completed_trs[cb.i].e = cb.e]
               /\ cb' = [Merged EXCEPT !.i = @ + 1]
          [] OTHER ->
               IF cb.i < Len(L) /\ c.e = L[cb.i + 1].s
               THEN /\ ring' = [ring EXCEPT !.completed_trs =
                                  Without([L EXCEPT ![cb.i].e = L[cb.i + 1].e], cb.i + 1)]
                    /\ cb' = [cb EXCEPT !.i = 1]
               ELSE cb' = [cb EXCEPT !.i = @ + 1] /\ UNCHANGED ring
     /\ UNCHANGED <<up, jnl, et, th, fin, io, ntr, want, maybe, used, txn, diskVars, rp, rerrs>>

\* The walk is over: a transaction that merged with nothing joins the sorted
\* list, and the next home writes may go.
CallbackEnd ==
  LET L == ring.completed_trs
  IN /\ up = "up" /\ cb.on /\ cb.i > Len(L)
     /\ \/ cb.s = 0 /\ UNCHANGED ring
        \/ /\ cb.s # 0
           /\ \E n \in 0..Len(L) :
                /\ \A h \in 1..n : cb.s > L[h].s
                /\ n < Len(L) => cb.s <= L[n + 1].s
                /\ ring' = [ring EXCEPT !.completed_trs =
                     SubSeq(L, 1, n) \o <<[s |-> cb.s, e |-> cb.e]>> \o SubSeq(L, n + 1, Len(L))]
     /\ jnl' = [jnl EXCEPT !.asyncIO = FALSE]
     /\ io' = NoIO /\ cb' = NoCb
     /\ UNCHANGED <<up, et, th, fin, ntr, want, maybe, used, txn, diskVars, rp, rerrs>>

-----------------------------------------------------------------------------
\* journal_flush.

\* Up to the lock; wio is JOURNAL_WAIT_FOR_IO.
FlushCheck(t, wio) ==
  /\ At(t, "idle")
  /\ ~jnl.invalid
  /\ th' = [th EXCEPT ![t].pc = "jf_lock", ![t].wio = wio]
  /\ UNCHANGED <<up, jnl, ring, et, fin, io, cb, ntr, want, maybe, used, txn, diskVars, rp, rerrs>>

\* For the properties: the last transaction with blocks that ended before this
\* point, and whether the buffered one is without any.
Hollow == jnl.cur_tr # 0 /\ txn[jnl.cur_tr].total = 1
LastEnded == IF Hollow THEN ntr - 1 ELSE ntr

\* Mutant: without a buffered transaction there is nothing to wait for.
FlushLock_NoWait(t) ==
  /\ At(t, "jf_lock")
  /\ jnl.owner = NONE
  /\ IF jnl.cur_tr # 0
     THEN /\ jnl' = [jnl EXCEPT !.owner = t, !.cur_tr = 0]
          /\ et' = [NoEt EXCEPT !.tr = jnl.cur_tr]
          /\ th' = [th EXCEPT ![t].upto = LastEnded, ![t].hollow = Hollow,
                              ![t].pc = IF th[t].wio THEN "jf_flushing" ELSE "jf_end"]
     ELSE /\ th' = [th EXCEPT ![t].upto = LastEnded, ![t].pc = "jf_ret"]
          /\ UNCHANGED <<jnl, et>>
  /\ UNCHANGED <<up, ring, fin, io, cb, ntr, want, maybe, used, txn, diskVars, rp, rerrs>>

\* With the lock: a buffered transaction is taken to be flushed; without one
\* the lock is dropped and any flush in progress is waited for.
FlushLock(t) ==
  /\ At(t, "jf_lock")
  /\ jnl.owner = NONE
  /\ IF jnl.cur_tr # 0
     THEN /\ jnl' = [jnl EXCEPT !.owner = t, !.cur_tr = 0]
          /\ et' = [NoEt EXCEPT !.tr = jnl.cur_tr]
          /\ th' = [th EXCEPT ![t].upto = LastEnded, ![t].hollow = Hollow,
                              ![t].pc = IF th[t].wio THEN "jf_flushing" ELSE "jf_end"]
     ELSE /\ th' = [th EXCEPT ![t].upto = LastEnded, ![t].pc = "jf_wait"]
          /\ UNCHANGED <<jnl, et>>
  /\ UNCHANGED <<up, ring, fin, io, cb, ntr, want, maybe, used, txn, diskVars, rp, rerrs>>

\* wait_condition(flushing) and wait_condition(asyncIO) with the lock held.
FlushHeldWait(t) ==
  /\ \/ At(t, "jf_flushing") /\ ~jnl.flushing /\ Goto(t, "jf_async")
     \/ At(t, "jf_async") /\ ~jnl.asyncIO /\ Goto(t, "jf_end")
  /\ UNCHANGED <<up, jnl, ring, et, fin, io, cb, ntr, want, maybe, used, txn, diskVars, rp, rerrs>>

\* Mutant: end_transaction is asked to keep the lock.
FlushEnd_KeepsLock(t) ==
  /\ At(t, "jf_end")
  /\ EndTransaction(t, et.tr, TRUE, FALSE, TRUE, jnl, IF th[t].wio THEN "jf_aio" ELSE "jf_ret")
  /\ UNCHANGED <<up, ring, fin, io, cb, ntr, want, maybe, used, txn, diskVars, rp, rerrs>>

\* end_transaction of the buffered transaction, forced and synchronous.
FlushEnd(t) ==
  /\ At(t, "jf_end")
  /\ EndTransaction(t, et.tr, TRUE, TRUE, TRUE, jnl, IF th[t].wio THEN "jf_aio" ELSE "jf_ret")
  /\ UNCHANGED <<up, ring, fin, io, cb, ntr, want, maybe, used, txn, diskVars, rp, rerrs>>

\* The waits after the lock is gone, and the return to the caller.
FlushWait(t) ==
  /\ \/ At(t, "jf_wait") /\ ~jnl.flushing
        /\ Goto(t, IF th[t].wio THEN "jf_aio" ELSE "jf_ret")
     \/ At(t, "jf_aio") /\ ~jnl.asyncIO /\ Goto(t, "jf_ret")
     \/ At(t, "jf_ret") /\ th' = [th EXCEPT ![t] = Idle]
  /\ UNCHANGED <<up, jnl, ring, et, fin, io, cb, ntr, want, maybe, used, txn, diskVars, rp, rerrs>>

\* journal_flush by the owner of a transaction: it keeps the lock and only
\* waits for what is already under way.
FlushOwned(t, wio) ==
  /\ At(t, "run")
  /\ ~jnl.invalid
  /\ th' = [th EXCEPT ![t].pc = "jo_wait", ![t].wio = wio]
  /\ UNCHANGED <<up, jnl, ring, et, fin, io, cb, ntr, want, maybe, used, txn, diskVars, rp, rerrs>>

FlushOwnedWait(t) ==
  /\ \/ At(t, "jo_wait") /\ ~jnl.flushing /\ Goto(t, IF th[t].wio THEN "jo_aio" ELSE "run")
     \/ At(t, "jo_aio") /\ ~jnl.asyncIO /\ Goto(t, "run")
  /\ UNCHANGED <<up, jnl, ring, et, fin, io, cb, ntr, want, maybe, used, txn, diskVars, rp, rerrs>>

-----------------------------------------------------------------------------
\* journal_close: the file system is unmounting and nobody else is in the code.

CloseLock(t) ==
  /\ At(t, "idle")
  /\ \A s \in Threads : th[s].pc = "idle"
  /\ used.close < MaxClose
  /\ used' = [used EXCEPT !.close = @ + 1]
  /\ jnl.owner = NONE
  /\ jnl' = [jnl EXCEPT !.owner = t]
  /\ Goto(t, "cl_flushing")
  /\ UNCHANGED <<up, ring, et, fin, io, cb, ntr, want, maybe, txn, diskVars, rp, rerrs>>

\* With the flush over: flush the buffered transaction with the lock held, or
\* abort it when the journal is invalid.
CloseBuffered(t) ==
  LET u == jnl.cur_tr
      j == [jnl EXCEPT !.cur_tr = 0]
  IN /\ At(t, "cl_flushing")
     /\ ~jnl.flushing
     /\ CASE jnl.invalid ->
               /\ jnl' = j
               /\ txn' = IF u = 0 THEN txn ELSE [txn EXCEPT ![u].st = "aborted"]
               /\ Goto(t, "cl_async") /\ UNCHANGED et
          [] ~jnl.invalid /\ u # 0 ->
               EndTransaction(t, u, TRUE, FALSE, TRUE, j, "cl_drain") /\ UNCHANGED txn
          [] OTHER -> Goto(t, "cl_drain") /\ UNCHANGED <<jnl, et, txn>>
     /\ UNCHANGED <<up, ring, fin, io, cb, ntr, want, maybe, used, diskVars, rp, rerrs>>

\* Mutant: after the header the ring is waited for again.
CloseDrain_Again(t) ==
  /\ At(t, "cl_drain")
  /\ ~jnl.flushing
  /\ ring' = [ring EXCEPT !.start = ring.active_start]
  /\ Goto(t, "cl_flushing")
  /\ dhdr' = [start |-> ring.active_start, end |-> ring.end, seq |-> jnl.sequence_num]
  /\ UNCHANGED <<up, jnl, used, et, fin, io, cb, ntr, want, maybe, txn, log, home, rp, rerrs>>

\* Wait for the ring to drain, for so long, and write the header.
CloseDrain(t) ==
  /\ At(t, "cl_drain")
  /\ ~jnl.flushing
  /\ ring' = [ring EXCEPT !.start = ring.active_start]
  /\ Goto(t, "cl_async")
  /\ \/ /\ dhdr' = [start |-> ring.active_start, end |-> ring.end, seq |-> jnl.sequence_num]
        /\ UNCHANGED <<jnl, used>>
     \/ /\ IOError
        /\ jnl' = [jnl EXCEPT !.invalid = TRUE]
        /\ UNCHANGED dhdr
  /\ UNCHANGED <<up, et, fin, io, cb, ntr, want, maybe, txn, log, home, rp, rerrs>>


\* wait_condition(asyncIO).
CloseAsync(t) ==
  /\ At(t, "cl_async")
  /\ ~jnl.asyncIO
  /\ Goto(t, "cl_free")
  /\ UNCHANGED <<up, jnl, ring, et, fin, io, cb, ntr, want, maybe, used, txn, diskVars, rp, rerrs>>

\* The journal is freed.
CloseFree(t) ==
  /\ At(t, "cl_free")
  /\ up' = "down"
  /\ CoreGone
  /\ UNCHANGED <<ntr, want, maybe, used, txn, diskVars, rp, rerrs>>

-----------------------------------------------------------------------------
\* Crash and recovery.

\* What a crash leaves of the journal write under way: any part of it.
CrashLog ==
  IF up = "up" /\ fin.pc = "write"
  THEN {LogAfter(fin.tr, fin.k, fin.pos, J) : J \in SUBSET (0..Len(txn[fin.tr].hdrs[fin.k]))}
  ELSE {log}

\* And of the file system blocks being written: any of them may be torn.
CrashHome ==
  LET writing == IF up = "up" THEN {BlockAt(io.tr, e) : e \in io.pending}
                 ELSE IF rp.pc = "write" THEN {b \in Blocks : rp.buf[b] # 0} ELSE {}
  IN {[b \in Blocks |-> IF b \in T THEN TORN ELSE home[b]] : T \in SUBSET writing}

Crash ==
  /\ up \in {"up", "replay"}
  /\ used.crash < MaxCrash
  /\ used' = [used EXCEPT !.crash = @ + 1]
  /\ up' = "down"
  /\ log' \in CrashLog
  /\ home' \in CrashHome
  /\ rp' = ReplayIdle
  /\ CoreGone
  /\ UNCHANGED <<ntr, want, maybe, txn, dhdr, rerrs>>

\* journal_open reads the header and calls replay_journal.
journal_open ==
  /\ up = "down"
  /\ up' = "replay"
  /\ rp' = ReplayStart
  /\ UNCHANGED <<coreVars, ntr, want, maybe, used, txn, diskVars, rerrs>>

OpenReplay ==
  /\ up = "replay"
  /\ replay_journal
  /\ UNCHANGED <<up, coreVars, ntr, want, maybe, used>>

\* Replay is over: the journal is open, or the mount fails.
OpenDone ==
  /\ up = "replay"
  /\ \/ /\ rp.pc \in {"clean", "done"}
        /\ up' = "up"
        /\ jnl' = FreshJnl(dhdr.seq)
        /\ ring' = FreshRing(rp.start, rp.end)
        /\ want' = home /\ maybe' = home
        /\ txn' = [u \in Uids |-> IF u <= ntr THEN [txn[u] EXCEPT !.st = "old"] ELSE txn[u]]
        /\ rp' = ReplayIdle
     \/ /\ rp.pc = "failed"
        /\ up' = "failed"
        /\ UNCHANGED <<jnl, ring, want, maybe, txn, rp>>
  /\ UNCHANGED <<et, th, fin, io, cb, ntr, used, diskVars, rerrs>>

-----------------------------------------------------------------------------
\* A thread calls the journal, or ends what it began.
Call(t) ==
  \/ StartCheck(t) \/ journal_start_transaction(t) \/ StartNested(t)
  \/ \E b \in Blocks : journal_modify_block(t, b) \/ journal_kill_block(t, b)
  \/ journal_request_immediate_flush(t)
  \/ EndNested(t) \/ journal_end_transaction(t)
  \/ \E wio \in BOOLEAN : FlushCheck(t, wio) \/ FlushOwned(t, wio)
  \/ FlushLock(t) \/ CloseLock(t)

\* The steps of a thread inside end_transaction, journal_flush or
\* journal_close once it holds the lock or is past it.
Inside(t) ==
  \/ EtLock(t) \/ EtSpace(t) \/ EtScan(t) \/ EtPass(t) \/ EtGo(t)
  \/ FlushHeldWait(t) \/ FlushEnd(t) \/ FlushWait(t) \/ FlushOwnedWait(t)
  \/ CloseBuffered(t) \/ CloseDrain(t) \/ CloseAsync(t) \/ CloseFree(t)

Finisher ==
  \/ FinBmapError \/ FinWait \/ FinWrite \/ FinHeader \/ FinHome \/ FinDone
  \/ FinBad \/ FinLock

Driver ==
  \/ \E e \in io.pending : HomeDone(e)
  \/ CallbackWalk
  \/ CallbackEnd

Recovery == Crash \/ journal_open \/ OpenReplay \/ OpenDone

\* The journal may rest: nobody is in the code, nothing is under way.
Rest ==
  /\ up = "failed" \/ /\ up = "up" /\ fin.pc = "none" /\ io.tr = 0
                      /\ \A t \in Threads : \/ th[t].pc = "idle"
                                            \/ th[t].pc = "st_lock" /\ ntr = MaxTr
  /\ UNCHANGED vars

Next ==
  \/ \E t \in Threads : Call(t) \/ Inside(t)
  \/ write_header_thread
  \/ Finisher
  \/ Driver
  \/ Recovery
  \/ Rest

Spec == Init /\ [][Next]_vars

\* The kernel schedules the threads that are inside the journal code and the
\* two threads it starts, and the driver completes every write; nothing obliges
\* the file system to make another call.
FairSpec ==
  /\ Spec
  /\ \A t \in Threads : WF_vars(Inside(t))
  /\ WF_vars(write_header_thread)
  /\ WF_vars(Finisher)
  /\ WF_vars(Driver)

-----------------------------------------------------------------------------
\* Properties.

Pcs ==
  {"idle", "st_lock", "run", "jo_wait", "jo_aio",
   "et_lock", "et_space", "et_scan", "et_pass", "et_go", "sync",
   "jf_lock", "jf_flushing", "jf_async", "jf_end", "jf_wait", "jf_aio", "jf_ret",
   "cl_flushing", "cl_drain", "cl_async", "cl_free"}
Returns == {"idle", "jf_aio", "jf_ret", "cl_drain"}
Slots == 1..(NOldStart + 1)

JnlType ==
  [owner : Threads \cup {NONE}, nested_count : Nat, active_tr : NoneOrUid,
   cur_tr : NoneOrUid, sequence_num : Nat, saved_sequence_num : Nat,
   flushing : BOOLEAN, asyncIO : BOOLEAN, writing_header : BOOLEAN,
   invalid : BOOLEAN, flush_aborted : BOOLEAN, write_header_failed : BOOLEAN]
RingType ==
  [start : Offsets, end : Offsets, active_start : Offsets,
   old_start : [1..NOldStart -> [off : NoneOrOffset, busy : BOOLEAN]],
   completed_trs : Seq([s : Offsets, e : Offsets])]
EtType ==
  [tr : NoneOrUid, i : Slots, empty : BOOLEAN, delayed : BOOLEAN,
   drop : BOOLEAN, wait : BOOLEAN]
ThType == [pc : Pcs, ret : Returns, wio : BOOLEAN, upto : NoneOrUid, hollow : BOOLEAN]
FinType ==
  [pc : {"none", "wait", "write", "header", "home", "done", "bad", "lock"},
   tr : NoneOrUid, pos : Offsets, k : Nat \ {0}, by : Threads \cup {NONE}]
IoType == [tr : NoneOrUid, pending : SUBSET (Nat \X Nat), flushed : Nat]
CbType == [on : BOOLEAN, s : NoneOrOffset, e : NoneOrOffset, i : Nat \ {0}]

\* Every variable has the type its C counterpart has; in particular every
\* offset stays within the journal, as the range checks of end_transaction and
\* do_journal_io require.
TypeOK ==
  /\ up \in {"up", "down", "replay", "failed"}
  /\ jnl \in JnlType
  /\ ring \in RingType
  /\ et \in EtType
  /\ th \in [Threads -> ThType]
  /\ fin \in FinType
  /\ io \in IoType
  /\ cb \in CbType
  /\ ntr \in NoneOrUid
  /\ want \in [Blocks -> Contents] /\ maybe \in [Blocks -> Contents]
  /\ used \in [kill : Nat, err : Nat, homeerr : Nat, crash : Nat, close : Nat]
  /\ ReplayTypeOK

\* The cells from offset s up to offset e.
Charted(s, e) ==
  IF Wrap(s) <= Wrap(e) THEN Wrap(s)..(Wrap(e) - 1)
  ELSE (Wrap(s)..(Size - 1)) \cup (1..(Wrap(e) - 1))

\* After a replay the volume holds exactly the committed transactions, plus
\* possibly the whole of the one whose flush the crash interrupted: no block
\* of a committed transaction is lost, none of a lost one is seen.
RecoveredPrefix ==
  up = "replay" /\ rp.pc \in {"clean", "done"} => home \in {want, maybe}


\* Whatever the crash, the journal this code wrote can be replayed.
ReplayNeverFails == rp.pc # "failed"

\* Write-ahead: a block reaches its home only after its transaction is
\* committed in the ring.
WriteAhead ==
  up = "up" => \A b \in Blocks :
     home[b] \in Uids => txn[home[b]].st \in {"committed", "home", "old"}

\* The same of every step, also of the steps after a failure: a home write that
\* lands is one of a transaction that was committed when it landed.
HomeAfterCommit ==
  [][\A b \in Blocks : up = "up" /\ home'[b] \in Uids \ {home[b]} =>
        txn[home'[b]].st \in {"committed", "home"}]_vars

\* The offset of block list k of transaction u.
ChunkStart(u, k) ==
  CASE k = 1 -> txn[u].js
    [] k = 2 -> Advance(txn[u].js, 1 + Len(txn[u].hdrs[1]))

\* A committed transaction whose blocks are not all home is still whole in the
\* part of the ring that the header on disk delimits.
UnfinishedStaysCharted ==
  up = "up" => \A u \in Uids : txn[u].st = "committed" =>
    \A k \in 1..Len(txn[u].hdrs) : \A i \in 0..Len(txn[u].hdrs[k]) :
      LET c == CellAt(ChunkStart(u, k), i) IN
      /\ log[c] = [uid |-> u, k |-> k, i |-> i]
      /\ c \in Charted(dhdr.start, dhdr.end)

\* A journal write never touches a cell between the start and the end that the
\* header on disk records: a moved start is on disk before its space is reused.
NoOverrun ==
  up = "up" /\ fin.pc = "write" =>
    \A j \in 0..Len(txn[fin.tr].hdrs[fin.k]) :
       CellAt(fin.pos, j) \notin Charted(dhdr.start, dhdr.end)

\* While its blocks go home a transaction's entry of old_start is there, and
\* the search by offset finds it and not an older entry.
CallbackFindsItsEntry ==
  io.tr # 0 /\ ~jnl.invalid /\ ~cb.on =>
    Match # {} /\ ring.old_start[FirstMatch].busy

\* The byte count of the callback says "last" exactly for the last block.
LastBlockIsLast ==
  io.tr # 0 /\ ~cb.on => (LastFlushed <=> Cardinality(io.pending) = 1)

\* An entry of old_start that is waited for has a transaction that will clear it.
FlaggedWillClear ==
  up = "up" /\ ~jnl.invalid /\ ~jnl.flush_aborted =>
    \A i \in 1..NOldStart : ring.old_start[i].busy =>
       \/ fin.tr # 0 /\ txn[fin.tr].js = ring.old_start[i].off
       \/ io.tr # 0 /\ txn[io.tr].js = ring.old_start[i].off

\* When journal_flush returns, what ended before it is committed, and with
\* JOURNAL_WAIT_FOR_IO also home.
Flushed(t) ==
  th[t].pc = "jf_ret" /\ th[t].upto # 0 =>
    txn[th[t].upto].st \in {"home", "old"} \cup (IF th[t].wio THEN {} ELSE {"committed"})
FlushMeansCommitted == \A t \in Threads : Flushed(t)

\* The same, unless the buffered transaction was without blocks.
FlushCommitsBuffered == \A t \in Threads : ~th[t].hollow => Flushed(t)


\* Nobody waits for a lock it holds: the error path of a synchronous flush
\* takes the journal lock.
NoSelfLock == fin.pc = "lock" => fin.by = NONE \/ fin.by # jnl.owner

\* The flushing condition is held by one thread in end_transaction or by the
\* finisher, never by both, and a thread that holds it finds no finisher left
\* over whose frame it would overwrite.
FlushPcs == {"wait", "write", "header", "home", "done", "bad"}
SpacePcs == {"et_space", "et_scan", "et_pass", "et_go"}
Flushing(t) == th[t].pc \in SpacePcs
OneFlusher ==
  /\ \A s, t \in Threads : Flushing(s) /\ Flushing(t) => s = t
  /\ jnl.flushing <=> (\E t \in Threads : Flushing(t)) \/ fin.pc \in FlushPcs
  /\ \A t \in Threads : Flushing(t) => fin.pc = "none"

-----------------------------------------------------------------------------
\* The inductive invariant behind TypeOK, OneFlusher and WriteAhead.

RunPcs == {"run", "jo_wait", "jo_aio"}
EtPcs == {"et_lock"} \cup SpacePcs
HeldPcs == RunPcs \cup EtPcs \cup {"jf_flushing", "jf_async", "jf_end"}
ClosePcs == {"cl_flushing", "cl_drain", "cl_async", "cl_free"}

\* Who is inside holds the journal lock, and the finisher returns only to a
\* thread that waits for it.
LockInv ==
  /\ \A t \in Threads : th[t].pc \in HeldPcs \cup ClosePcs => jnl.owner = t
  /\ \A t \in Threads : th[t].pc = "sync" /\ th[t].ret = "cl_drain" => jnl.owner = t
  /\ \A t \in Threads : th[t].pc \in EtPcs =>
                           (et.drop <=> th[t].ret # "cl_drain") /\ (~et.drop => et.wait)
  /\ \A t \in Threads : fin.by = t => th[t].pc = "sync"
  /\ fin.pc = "lock" => jnl.flush_aborted

\* Each pointer to a transaction points to one in the state that goes with it:
\* the active transaction, the one a thread flushes, the buffered one, the one
\* being finished and the one whose blocks go home.
RunPtr ==
  \A t \in Threads : th[t].pc \in RunPcs =>
    jnl.active_tr \in Uids /\ txn[jnl.active_tr].st = "open"
EtPtr ==
  \A t \in Threads : th[t].pc \in HeldPcs \ RunPcs =>
    et.tr \in Uids /\ txn[et.tr].st = "open"
CurPtr ==
  /\ \A t \in Threads : th[t].pc \in HeldPcs => jnl.cur_tr = 0
  /\ jnl.cur_tr # 0 => txn[jnl.cur_tr].st = "open"
FinPtr ==
  /\ fin.pc \in {"wait", "write", "header", "bad"} =>
       fin.tr \in Uids /\ txn[fin.tr].st = "flight"
  /\ fin.pc \in {"wait", "write"} => fin.k <= Len(txn[fin.tr].hdrs)
  /\ fin.pc = "home" => fin.tr \in Uids /\ txn[fin.tr].st \in {"committed", "home"}
IoPtr ==
  /\ io.tr # 0 => txn[io.tr].st \in {"committed", "home"}
  /\ io.pending # {} => io.tr # 0
  /\ (cb.s = 0) <=> (cb.e = 0)

\* Without the journal in memory nobody is in its code.
DownInv ==
  up # "up" => /\ th = [t \in Threads |-> Idle] /\ et = NoEt
               /\ fin = NoFin /\ io = NoIO /\ cb = NoCb /\ jnl.cur_tr = 0

\* What a transaction holds fits in the ring, and has its place there once it
\* is under way.
TxnFits(u) ==
  /\ u > ntr => txn[u].st = "none"
  /\ txn[u].total <= Size - 1
  /\ \A k \in 1..Len(txn[u].hdrs) : 1 + Len(txn[u].hdrs[k]) <= txn[u].total
  /\ txn[u].st = "open" => Len(txn[u].hdrs) >= 1
  /\ txn[u].st \in {"flight", "committed", "home"} => txn[u].js # 0
  /\ txn[u].st \in {"committed", "home"} => txn[u].je # 0
TxnInv == \A u \in Uids : TxnFits(u)

\* The disk holds data of allocated transactions only.
DiskInv ==
  /\ \A c \in Cells : /\ log[c].uid <= ntr
                      /\ log[c].uid # 0 => log[c].k \in 1..Len(txn[log[c].uid].hdrs)
  /\ \A b \in Blocks : (home[b] <= ntr \/ home[b] = TORN) /\ rp.buf[b] <= ntr
  /\ rp.start < Size /\ rp.orig < Size

Inductive ==
  /\ TypeOK /\ OneFlusher /\ LockInv
  /\ RunPtr /\ EtPtr /\ CurPtr /\ FinPtr /\ IoPtr
  /\ DownInv /\ TxnInv /\ DiskInv /\ WriteAhead

-----------------------------------------------------------------------------
\* Liveness.  A transaction that has to be flushed gets its space, is written
\* and its caller goes on: check_free_space does not wait for ever.
FlushEnds ==
  \A t \in Threads : th[t].pc = "et_lock" ~> th[t].pc \in Returns

\* The blocks of a committed transaction all reach their homes.
CommittedGoesHome ==
  \A u \in Uids : txn[u].st = "committed" ~> txn[u].st # "committed"

\* journal_close, once it has the lock, comes to its end.
CloseEnds ==
  \A t \in Threads : th[t].pc = "cl_flushing" ~> up = "down"
=============================================================================
