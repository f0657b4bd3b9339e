---------------------------- MODULE JournalReplay ----------------------------
(***************************************************************************)
(* The on-disk journal of core/hfs_journal.c and its replay at mount       *)
(* (replay_journal, called by journal_open).                               *)
(*                                                                         *)
(* Offsets are counted in blocks of jhdr_size: block 0 is the journal      *)
(* header, blocks 1..Size-1 are a ring that holds transactions.  A         *)
(* transaction is a sequence of block lists; each block list is written as *)
(* one header block followed by its data blocks.  A ring cell records      *)
(* whose data it holds: cell [uid, k, i] is the i-th block of the k-th     *)
(* block list of transaction uid, i = 0 being the block list header, and   *)
(* uid = 0 is a block that was never written.  The table txn says what     *)
(* each transaction wrote.  Checksums are ideal: a data block matches the  *)
(* checksum in its header exactly when it is the block that header was     *)
(* written with, and a data block never passes for a header.               *)
(***************************************************************************)
EXTENDS Integers, Sequences, FiniteSets

CONSTANTS
  Size,        \* jhdr->size, in blocks
  Blocks,      \* the file system blocks that are journalled
  KILLED,      \* the entry journal_kill_block leaves (bnum == -1)
  MaxTr,       \* bound: how many transactions a behaviour allocates
  MaxReadErr   \* bound: how many reads of the journal fail

ASSUME ReplayAssumption ==
  /\ Size \in Nat /\ Size >= 3
  /\ MaxTr \in Nat /\ MaxReadErr \in Nat
  /\ KILLED \notin Blocks

VARIABLES
  txn,         \* txn[u]: what transaction u holds
  log,         \* the ring on disk
  dhdr,        \* the journal header on disk
  home,        \* home[b]: whose data file system block b holds on disk
  rp,          \* the local state of replay_journal
  rerrs        \* reads that have failed

replayVars == <<txn, log, dhdr, home, rp, rerrs>>

Uids == 1..MaxTr
NoneOrUid == 0..MaxTr  \* a pointer to a transaction, or NULL
TORN == MaxTr + 1      \* a block whose write was cut short by a crash
Contents == 0..TORN    \* what a file system block holds
Cells == 1..(Size - 1)
Offsets == 1..Size     \* an offset in the ring, before it is wrapped
NoneOrOffset == 0..Size
Entry == Blocks \cup {KILLED}
NoCell == [uid |-> 0, k |-> 0, i |-> 0]

-----------------------------------------------------------------------------
\* Ring arithmetic.

\* An offset at or past the end of the ring continues after the header block.
Wrap(p) == IF p >= Size THEN p - Size + 1 ELSE p

\* Mutant: the offset is not brought back after the header block.
Advance_NoWrap(p, n) == Wrap(p) + n

\* Where do_journal_io leaves the offset after n blocks: a transfer that ends
\* exactly at the end of the ring leaves it at Size and not at 1.
Advance(p, n) ==
  LET e == Wrap(p) + n IN IF e > Size THEN e - Size + 1 ELSE e

\* The cell that holds the j-th block (counting from 0) of what starts at p.
CellAt(p, j) == Wrap(Wrap(p) + j)

\* The ring after the cells J of block list k of transaction u, header and data
\* the unit of one journal write, reached it.
LogAfter(u, k, p, J) ==
  [c \in Cells |->
     IF \E j \in J : CellAt(p, j) = c
     THEN [uid |-> u, k |-> k, i |-> CHOOSE j \in J : CellAt(p, j) = c]
     ELSE log[c]]

-----------------------------------------------------------------------------
\* replay_journal.  One action per turn of its loop.  rp.start and rp.end are
\* jhdr->start and jhdr->end of the header in memory, rp.txs is
\* txn_start_offset, rp.buf is co_buf.  For KeepsGood, rp.keep is co_buf as it
\* was after the last whole transaction found before any error.

NoBuf == [b \in Blocks |-> 0]

ReplayIdle ==
  [pc |-> "idle", start |-> 1, end |-> 1, orig |-> 1, past |-> FALSE,
   uncharted |-> FALSE, txs |-> 0, last |-> 0, retry |-> 0, buf |-> NoBuf,
   keep |-> NoBuf]

\* Before the loop: wrap both pointers; nothing to do when they are equal.
ReplayStart ==
  LET s == Wrap(dhdr.start)
      e == Wrap(dhdr.end)
  IN [ReplayIdle EXCEPT !.pc = IF s = e THEN "clean" ELSE "read",
                        !.start = s, !.end = e, !.orig = s, !.past = TRUE]

\* Mutant: no second attempt.
BadTxn_GivesUp(r) == [r EXCEPT !.pc = "failed"]

\* bad_txn_handling: give up, or replay again up to the last transaction start.
BadTxn(r) ==
  IF r.txs = 0 \/ r.retry = 3
  THEN [r EXCEPT !.pc = "failed"]
  ELSE [r EXCEPT !.retry = @ + 1, !.start = r.orig, !.end = r.txs,
                 !.past = FALSE, !.last = 0, !.buf = NoBuf]

\* A block list header that does not verify.
BadHeader(r) ==
  IF r.past /\ r.uncharted
  THEN [r EXCEPT !.past = FALSE, !.end = r.start]
  ELSE IF r.start = r.orig THEN [r EXCEPT !.pc = "failed"] ELSE BadTxn(r)

\* A header of neither this transaction nor the next one.
BadSequence(r) ==
  LET s == [r EXCEPT !.txs = r.start, !.end = r.start]
  IN IF r.past THEN [s EXCEPT !.past = FALSE] ELSE BadTxn(s)

\* The data blocks of block list k of u, laid out from p, are as it says.
GoodData(u, k, p) ==
  \A j \in DOMAIN txn[u].hdrs[k] :
     txn[u].hdrs[k][j] # KILLED =>
        log[CellAt(p, j)] = [uid |-> u, k |-> k, i |-> j]

\* Mutant: the first write of a block is the one that is kept.
AddBlocks_First(buf, u, k) ==
  [b \in Blocks |->
     IF buf[b] = 0 /\ \E j \in DOMAIN txn[u].hdrs[k] : txn[u].hdrs[k][j] = b
     THEN u ELSE buf[b]]

\* add_block for every live entry: the latest write of a block replaces an
\* earlier one in co_buf.
AddBlocks(buf, u, k) ==
  [b \in Blocks |->
     IF \E j \in DOMAIN txn[u].hdrs[k] : txn[u].hdrs[k][j] = b THEN u ELSE buf[b]]

\* A header that verifies, of this transaction or the next one.
IsHeader(c) == c.uid # 0 /\ c.i = 0
HeaderAccepted(r, c) ==
  IsHeader(c) /\ (r.last = 0 \/ txn[c.uid].seq \in {r.last, r.last + 1})

\* Mutant: only the start of the first transaction is noted.
Noted_Once(r, u, k) ==
  [r EXCEPT !.last = txn[u].seq, !.txs = IF @ = 0 THEN r.start ELSE @]

\* Its sequence number, and its offset when it opens a transaction, are noted.
Noted(r, u, k) ==
  [r EXCEPT !.last = txn[u].seq, !.txs = IF k = 1 THEN r.start ELSE @]

\* Then its data is checked and its blocks taken.
GoodHeader(r, u, k) ==
  LET s == Noted(r, u, k)
      next == Wrap(r.start + 1 + Len(txn[u].hdrs[k]))
      buf == AddBlocks(r.buf, u, k)
      whole == k = Len(txn[u].hdrs)
  IN IF GoodData(u, k, r.start)
     THEN [s EXCEPT !.buf = buf, !.start = next, !.uncharted = @ \/ next = r.end,
                    !.keep = IF whole /\ r.retry = 0 THEN buf ELSE @]
     ELSE BadTxn(s)

ReplayTurn(r) ==
  LET c == log[r.start] IN
  CASE ~IsHeader(c)          -> BadHeader(r)
    [] HeaderAccepted(r, c)  -> GoodHeader(r, c.uid, c.k)
    [] OTHER                 -> BadSequence(r)

\* One turn of the loop.
ReplayRead ==
  /\ rp.pc = "read"
  /\ rp.past \/ rp.start # rp.end
  /\ rp' = ReplayTurn(rp)
  /\ UNCHANGED <<txn, log, dhdr, home, rerrs>>

\* The device cannot read the block list header, or one of its data blocks.
ReplayReadError ==
  /\ rp.pc = "read"
  /\ rp.past \/ rp.start # rp.end
  /\ rerrs < MaxReadErr
  /\ rerrs' = rerrs + 1
  /\ \/ rp' = BadTxn(rp)
     \/ LET c == log[rp.start] IN
        /\ HeaderAccepted(rp, c)
        /\ rp' = BadTxn(Noted(rp, c.uid, c.k))
  /\ UNCHANGED <<txn, log, dhdr, home>>

\* update_fs_block, or the read of the journal before it, fails.
ReplayWriteError ==
  /\ rp.pc = "write"
  /\ rp.buf # NoBuf
  /\ rerrs < MaxReadErr
  /\ rerrs' = rerrs + 1
  /\ rp' = [rp EXCEPT !.pc = "failed"]
  /\ UNCHANGED <<txn, log, dhdr, home>>

\* The loop ends and co_buf is written out.
ReplayLoopDone ==
  /\ rp.pc = "read"
  /\ ~rp.past /\ rp.start = rp.end
  /\ rp' = [rp EXCEPT !.pc = "write"]
  /\ UNCHANGED <<txn, log, dhdr, home, rerrs>>

\* update_fs_block for one entry of co_buf.
ReplayBlock(b) ==
  /\ rp.pc = "write"
  /\ rp.buf[b] # 0
  /\ home' = [home EXCEPT ![b] = rp.buf[b]]
  /\ rp' = [rp EXCEPT !.buf[b] = 0]
  /\ UNCHANGED <<txn, log, dhdr, rerrs>>

\* The header goes out with an empty ring and the sequence number it had.
ReplayHeader ==
  /\ rp.pc = "write"
  /\ rp.buf = NoBuf
  /\ dhdr' = [dhdr EXCEPT !.start = rp.start, !.end = rp.end]
  /\ rp' = [rp EXCEPT !.pc = "done"]
  /\ UNCHANGED <<txn, log, home, rerrs>>

replay_journal ==
  \/ ReplayRead
  \/ ReplayReadError
  \/ ReplayLoopDone
  \/ \E b \in Blocks : ReplayBlock(b)
  \/ ReplayWriteError
  \/ ReplayHeader

-----------------------------------------------------------------------------
TxnType ==
  [seq : Nat, hdrs : Seq(Seq(Entry)), total : NoneOrOffset, killed : Nat, force : BOOLEAN,
   js : NoneOrOffset, je : NoneOrOffset,
   st : {"none", "open", "flight", "committed", "home", "aborted", "old"}]
CellType == [uid : NoneOrUid, k : Nat, i : Nat]
RpType ==
  [pc : {"idle", "read", "write", "clean", "done", "failed"},
   start : Offsets, end : Offsets, orig : Offsets, past : BOOLEAN,
   uncharted : BOOLEAN, txs : NoneOrOffset, last : Nat, retry : 0..3,
   buf : [Blocks -> NoneOrUid], keep : [Blocks -> NoneOrUid]]

\* The disk and the frame of replay_journal have their types.
ReplayTypeOK ==
  /\ txn \in [Uids -> TxnType]
  /\ log \in [Cells -> CellType]
  /\ dhdr \in [start : Offsets, end : Offsets, seq : Nat]
  /\ home \in [Blocks -> Contents]
  /\ rp \in RpType
  /\ rerrs \in Nat

\* What is written out is the good transactions that were found before the
\* error, all of them and nothing of the one with the error.
KeepsGood ==
  rp.pc = "read" /\ ~rp.past /\ rp.start = rp.end => rp.buf = rp.keep
=============================================================================
