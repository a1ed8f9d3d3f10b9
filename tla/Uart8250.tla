------------------------------ MODULE Uart8250 ------------------------------
(***************************************************************************)
(* The uart of include/device/uart8250.hpp between two threads: the bus    *)
(* calls do_read, do_write and irq, the console putc, getc and exist_tx.   *)
(* Nobody in the repository makes these calls; the two mutexes say how     *)
(* they are meant.                                                         *)
(*                                                                         *)
(* rx_lock is held by do_read, do_write and putc, tx_lock by do_write,     *)
(* getc and exist_tx; irq holds none.  thr_empty is written under one or   *)
(* under the other.  A call is split where state is read and written that  *)
(* its locks do not protect, and inside the two critical sections that     *)
(* look at the head of a queue before they pop it.                         *)
(*                                                                         *)
(* A character is its number in the order of sending, modulo Chars.  The   *)
(* latches DLL, DLM and MCR, which only their own reads return, are left   *)
(* out; of LCR the bit DLAB is kept.                                       *)
(***************************************************************************)
EXTENDS Integers, Sequences

CONSTANTS
  Chars,      \* the values of a char: 2^8
  MaxQueued   \* bound: characters in a queue, which std::queue leaves open

ASSUME CharsAssumption == Chars \in Nat /\ MaxQueued \in Nat /\ MaxQueued < Chars

VARIABLES
  rx, tx,            \* the queues
  rx_lock, tx_lock,  \* the thread that holds the mutex, or "none"
  thr_empty,
  IER,               \* the enabled interrupts, of RDA and THRE
  IIR,               \* the pending interrupts it showed when last updated
  DLAB,              \* the divisor latch bit of LCR
  bus,               \* where the bus thread is in its call
  console,           \* where the console thread is in its call
  held               \* what getc or do_read took from the head of a queue

VARIABLES
  tx_next, rx_next,  \* history: the number of the next character to be sent
  tx_due, rx_due,    \* history: the number of the next one to be received
  lsr                \* history: what the bus last read of LSR, DR only until it
                     \* takes a character or clears rx

locks == <<rx_lock, tx_lock>>

regs == <<IER, IIR, DLAB>>

txHistory == <<tx_next, tx_due>>
rxHistory == <<rx_next, rx_due, lsr>>

vars == <<rx, tx, locks, thr_empty, regs, bus, console, held, txHistory, rxHistory>>

Threads == {"bus", "console"}

Interrupts == {"RDA", "THRE"}

(* Data ready, transmitter holding register empty, transmitter empty.      *)
LineStatus == {"DR", "THRE", "TEMT"}

Number(n) == n % Chars

Init ==
  /\ rx = <<>> /\ tx = <<>>
  /\ rx_lock = "none" /\ tx_lock = "none"
  /\ thr_empty = FALSE
  /\ IER = {} /\ IIR = {} /\ DLAB = FALSE
  /\ bus = "idle" /\ console = "idle"
  /\ held = [t \in Threads |-> 0]
  /\ tx_next = 0 /\ tx_due = 0 /\ rx_next = 0 /\ rx_due = 0
  /\ lsr = {}

(* update_IIR *)
Pending ==
  { i \in IER : (i = "THRE" /\ thr_empty) \/ (i = "RDA" /\ rx # <<>>) }

-----------------------------------------------------------------------------
(* do_read *)

(* The register is read, or the read is begun, under rx_lock.              *)
DoRead ==
  /\ bus = "idle"
  /\ rx_lock = "none"
  /\ rx_lock' = "bus"
  /\ bus' \in IF DLAB THEN {"read_iir", "read_lsr", "read_other"}
              ELSE {"read_rx", "read_iir", "read_lsr", "read_other"}
  /\ UNCHANGED <<rx, tx, tx_lock, thr_empty, regs, console, held, txHistory, rxHistory>>

(* The end of do_read, when the unique_lock goes. *)
ReadReturns == rx_lock' = "none" /\ bus' = "idle"

(* Only DR depends on a queue: the transmitter is said to be empty, in both *)
(* bits, whatever tx holds.                                                *)
ReadLSR ==
  /\ bus = "read_lsr"
  /\ lsr' = { b \in LineStatus : b = "DR" => rx # <<>> }
  /\ ReadReturns
  /\ UNCHANGED <<rx, tx, tx_lock, thr_empty, regs, console, held, txHistory,
                 rx_next, rx_due>>

(* The registers that are returned as they are. *)
ReadOther ==
  /\ bus = "read_other"
  /\ ReadReturns
  /\ UNCHANGED <<rx, tx, tx_lock, thr_empty, regs, console, held, txHistory, rxHistory>>

(* Mutant: the read waits for a character. *)
ReadRxWaits ==
  /\ bus = "read_rx"
  /\ rx = <<>>
  /\ UNCHANGED vars

(* An empty queue leaves *buffer alone. *)
ReadRxNone ==
  /\ bus = "read_rx"
  /\ rx = <<>>
  /\ ReadReturns
  /\ UNCHANGED <<rx, tx, tx_lock, thr_empty, regs, console, held, txHistory, rxHistory>>

ReadRxFront ==
  /\ bus = "read_rx"
  /\ rx # <<>>
  /\ held' = [held EXCEPT !["bus"] = Head(rx)]
  /\ bus' = "pop_rx"
  /\ UNCHANGED <<rx, tx, locks, thr_empty, regs, console, txHistory, rxHistory>>

ReadRxPop ==
  /\ bus = "pop_rx"
  /\ rx' = SubSeq(rx, 2, Len(rx))
  /\ rx_due' = Number(rx_due + 1)
  /\ lsr' = lsr \ {"DR"}
  /\ ReadReturns
  /\ UNCHANGED <<tx, tx_lock, thr_empty, regs, console, held, txHistory, rx_next>>

ReadIIR ==
  /\ bus = "read_iir"
  /\ IIR' = Pending
  /\ bus' = "clear_thr"
  /\ UNCHANGED <<rx, tx, locks, thr_empty, IER, DLAB, console, held, txHistory,
                 rxHistory>>

(* tx_lock is not held: getc may have raised thr_empty since ReadIIR. *)
ClearThr ==
  /\ bus = "clear_thr"
  /\ thr_empty' = FALSE
  /\ ReadReturns
  /\ UNCHANGED <<rx, tx, tx_lock, regs, console, held, txHistory, rxHistory>>

(* irq *)
Irq ==
  /\ bus = "idle"
  /\ IIR' = Pending
  /\ UNCHANGED <<rx, tx, locks, thr_empty, IER, DLAB, bus, console, held,
                 txHistory, rxHistory>>

-----------------------------------------------------------------------------
(* do_write *)

DoWrite ==
  /\ bus = "idle"
  /\ tx_lock = "none"
  /\ tx_lock' = "bus"
  /\ bus' = "lock_rx"
  /\ UNCHANGED <<rx, tx, rx_lock, thr_empty, regs, console, held, txHistory, rxHistory>>

WriteLockRx ==
  /\ bus = "lock_rx"
  /\ rx_lock = "none"
  /\ rx_lock' = "bus"
  /\ bus' = "write"
  /\ UNCHANGED <<rx, tx, tx_lock, thr_empty, regs, console, held, txHistory, rxHistory>>

WriteReturns == rx_lock' = "none" /\ tx_lock' = "none" /\ bus' = "idle"

WritePush ==
  /\ bus = "write"
  /\ ~ DLAB
  /\ Len(tx) < MaxQueued
  /\ tx' = Append(tx, tx_next)
  /\ tx_next' = Number(tx_next + 1)
  /\ bus' = "pushed"
  /\ UNCHANGED <<rx, locks, thr_empty, regs, console, held, tx_due, rxHistory>>

(* Mutant: a character that is pushed does not take thr_empty back. *)
WriteKeepsThr ==
  /\ bus = "pushed"
  /\ WriteReturns
  /\ UNCHANGED <<rx, tx, thr_empty, regs, console, held, txHistory, rxHistory>>

WritePushed ==
  /\ bus = "pushed"
  /\ thr_empty' = FALSE
  /\ WriteReturns
  /\ UNCHANGED <<rx, tx, regs, console, held, txHistory, rxHistory>>

WriteIER ==
  /\ bus = "write"
  /\ ~ DLAB
  /\ IER' \in SUBSET Interrupts
  /\ WriteReturns
  /\ UNCHANGED <<rx, tx, thr_empty, IIR, DLAB, console, held, txHistory, rxHistory>>

(* FCR clears the queues its bits 1 and 2 name; thr_empty stays.           *)
WriteFCR(clear_rx, clear_tx) ==
  /\ bus = "write"
  /\ IF clear_rx THEN rx' = <<>> /\ rx_due' = rx_next /\ lsr' = lsr \ {"DR"}
     ELSE UNCHANGED <<rx, rx_due, lsr>>
  /\ IF clear_tx THEN tx' = <<>> /\ tx_due' = tx_next ELSE UNCHANGED <<tx, tx_due>>
  /\ WriteReturns
  /\ UNCHANGED <<thr_empty, regs, console, held, tx_next, rx_next>>

WriteLCR ==
  /\ bus = "write"
  /\ DLAB' \in BOOLEAN
  /\ WriteReturns
  /\ UNCHANGED <<rx, tx, thr_empty, IER, IIR, console, held, txHistory, rxHistory>>

(* A latch, or a register a write does not reach. *)
WriteOther ==
  /\ bus = "write"
  /\ WriteReturns
  /\ UNCHANGED <<rx, tx, thr_empty, regs, console, held, txHistory, rxHistory>>

-----------------------------------------------------------------------------
(* The console. *)

Putc ==
  /\ console = "idle"
  /\ rx_lock = "none"
  /\ Len(rx) < MaxQueued
  /\ rx' = Append(rx, rx_next)
  /\ rx_next' = Number(rx_next + 1)
  /\ UNCHANGED <<tx, locks, thr_empty, regs, bus, console, held, txHistory,
                 rx_due, lsr>>

(* Mutant: getc does not take the lock. *)
GetcUnlocked ==
  /\ console = "idle"
  /\ console' = "getc"
  /\ UNCHANGED <<rx, tx, locks, thr_empty, regs, bus, held, txHistory, rxHistory>>

Getc ==
  /\ console = "idle"
  /\ tx_lock = "none"
  /\ tx_lock' = "console"
  /\ console' = "getc"
  /\ UNCHANGED <<rx, tx, rx_lock, thr_empty, regs, bus, held, txHistory, rxHistory>>

GetcReturns ==
  /\ tx_lock' = IF tx_lock = "console" THEN "none" ELSE tx_lock
  /\ console' = "idle"

(* EOF, converted to a char: it may also be the number of a character.     *)
GetcNone ==
  /\ console = "getc"
  /\ tx = <<>>
  /\ held' = [held EXCEPT !["console"] = Chars - 1]
  /\ GetcReturns
  /\ UNCHANGED <<rx, tx, rx_lock, thr_empty, regs, bus, txHistory, rxHistory>>

GetcFront ==
  /\ console = "getc"
  /\ tx # <<>>
  /\ held' = [held EXCEPT !["console"] = Head(tx)]
  /\ console' = "pop_tx"
  /\ UNCHANGED <<rx, tx, locks, thr_empty, regs, bus, txHistory, rxHistory>>

GetcPop ==
  /\ console = "pop_tx"
  /\ tx' = SubSeq(tx, 2, Len(tx))
  /\ tx_due' = Number(tx_due + 1)
  /\ console' = "test_tx"
  /\ UNCHANGED <<rx, locks, thr_empty, regs, bus, held, tx_next, rxHistory>>

GetcTest ==
  /\ console = "test_tx"
  /\ thr_empty' = (thr_empty \/ tx = <<>>)
  /\ GetcReturns
  /\ UNCHANGED <<rx, tx, rx_lock, regs, bus, held, txHistory, rxHistory>>

(* exist_tx; its answer is used up by the console. *)
ExistTx ==
  /\ console = "idle"
  /\ tx_lock = "none"
  /\ UNCHANGED vars

-----------------------------------------------------------------------------

(* A thread inside a call. *)
BusInCall ==
  \/ ReadLSR \/ ReadOther \/ ReadRxNone \/ ReadRxFront \/ ReadRxPop
  \/ ReadIIR \/ ClearThr
  \/ WriteLockRx \/ WritePush \/ WritePushed \/ WriteIER \/ WriteLCR \/ WriteOther
  \/ \E clear_rx, clear_tx \in BOOLEAN : WriteFCR(clear_rx, clear_tx)

ConsoleInCall == GetcNone \/ GetcFront \/ GetcPop \/ GetcTest

Bus == DoRead \/ DoWrite \/ Irq \/ BusInCall

Console == Putc \/ Getc \/ ExistTx \/ ConsoleInCall

Next == Bus \/ Console

Spec == Init /\ [][Next]_vars

FairSpec == Spec /\ WF_vars(BusInCall) /\ WF_vars(ConsoleInCall)

-----------------------------------------------------------------------------

TypeOK ==
  /\ rx \in Seq(0 .. Chars - 1) /\ tx \in Seq(0 .. Chars - 1)
  /\ rx_lock \in Threads \cup {"none"} /\ tx_lock \in Threads \cup {"none"}
  /\ thr_empty \in BOOLEAN /\ DLAB \in BOOLEAN
  /\ IER \subseteq Interrupts /\ IIR \subseteq Interrupts
  /\ bus \in {"idle", "read_rx", "read_iir", "read_lsr", "read_other", "pop_rx",
              "clear_thr", "lock_rx", "write", "pushed"}
  /\ console \in {"idle", "getc", "pop_tx", "test_tx"}
  /\ held \in [Threads -> 0 .. Chars - 1]
  /\ {tx_next, tx_due, rx_next, rx_due} \subseteq 0 .. Chars - 1
  /\ lsr \subseteq LineStatus

InOrder(queue, due, next) ==
  /\ \A i \in DOMAIN queue : queue[i] = Number(due + i - 1)
  /\ Number(due + Len(queue)) = next

(* Whatever calls the two threads overlap, characters arrive in the order in
   which they were sent, once each, and none is lost but those that FCR clears;
   the one a call has taken from the head of a queue is still the head when the
   call pops it. *)
NothingLost ==
  /\ InOrder(tx, tx_due, tx_next) /\ InOrder(rx, rx_due, rx_next)
  /\ console = "pop_tx" => tx # <<>> /\ held["console"] = tx_due
  /\ bus = "pop_rx" => rx # <<>> /\ held["bus"] = rx_due

(* thr_empty, behind the transmitter's interrupt, is never up while characters
   wait to be sent, although no one mutex guards it, and neither is the notice
   of it that a read of IIR is about to return; a character that LSR has
   announced is there until the bus thread itself takes it or clears rx.  This is
   not said of the bits THRE and TEMT of LSR, which are set whatever tx holds.
   (Between the push of do_write and the assignment after it the flag may be
   stale, and irq takes no lock; but irq is called by the same thread.) *)
NoticesTruthful ==
  /\ thr_empty /\ bus # "pushed" => tx = <<>>
  /\ bus = "clear_thr" /\ "THRE" \in IIR => tx = <<>>
  /\ "DR" \in lsr => rx # <<>>

(* No call waits for ever, with the two mutexes do_write takes one after the
   other, if a thread that is inside a call keeps running. *)
CallsReturn ==
  /\ bus # "idle" ~> bus = "idle"
  /\ console # "idle" ~> console = "idle"
=============================================================================
