---------------------------- MODULE DeviceProofs ----------------------------
(***************************************************************************)
(* Proofs about the devices: about Uart8250, for queues of any length and  *)
(* any number of character values; and, below it, about the two confregs   *)
(* of CoSim, for every program and however far the sides are apart.        *)
(*                                                                         *)
(* The lock discipline (LocksHeld) is what the uart's rest needs: while    *)
(* getc is between the head of tx and its pop, tx_lock keeps do_write from *)
(* clearing the queue, and rx_lock does the same for do_read.  What the    *)
(* confregs need is the course of the program (Ideal): each side is on it, *)
(* at its own place.                                                       *)
(***************************************************************************)
EXTENDS Uart8250, CoSim, SequenceTheorems, WellFoundedInduction, TLAPS

(* The remainder is the only number below n that differs from x by a multiple
   of n. *)
LEMMA ModUnique ==
  ASSUME NEW x \in Int, NEW n \in Nat, n > 0,
         NEW k \in Int, NEW d \in 0 .. n - 1, x = n * k + d
  PROVE  x % n = d
<1> DEFINE j == x \div n
           m == x % n
<1>1. j \in Int /\ m \in 0 .. n - 1 /\ x = n * j + m
  OBVIOUS
<1> HIDE DEF j, m
<1>2. j >= k + 1 => n * j >= n * k + n
  BY <1>1
<1>3. j <= k - 1 => n * j <= n * k - n
  BY <1>1
<1>4. QED
  BY <1>1, <1>2, <1>3 DEF m

(* A step taken after a sum was cut down to its remainder ends where it would
   have ended without the cut. *)
LEMMA ModAdd ==
  ASSUME NEW x \in Int, NEW y \in Int, NEW n \in Nat, n > 0
  PROVE  ((x % n) + y) % n = (x + y) % n
<1> DEFINE j == x \div n
           m == x % n
           i == (m + y) \div n
           d == (m + y) % n
<1>1. j \in Int /\ m \in Int /\ x = n * j + m
  OBVIOUS
<1> HIDE DEF j, m
<1>2. i \in Int /\ d \in 0 .. n - 1 /\ m + y = n * i + d
  BY <1>1
<1> HIDE DEF i, d
<1>3. x + y = n * (j + i) + d /\ j + i \in Int
  BY <1>1, <1>2
<1>4. x + y \in Int
  OBVIOUS
<1>5. (x + y) % n = d
  BY <1>2, <1>3, <1>4, ModUnique
<1>6. QED
  BY <1>5 DEF d, m

(* Which thread holds which mutex, by where it is in its call. *)
LocksHeld ==
  /\ tx_lock = "console" <=> console # "idle"
  /\ tx_lock = "bus" <=> bus \in {"lock_rx", "write", "pushed"}
  /\ rx_lock = "bus" <=> bus \notin {"idle", "lock_rx"}

UartInv == TypeOK /\ LocksHeld /\ NoticesTruthful /\ NothingLost

(* A number is the number of some character. *)
LEMMA NumberType ==
  ASSUME NEW n \in Int
  PROVE  Number(n) \in 0 .. Chars - 1
<1>1. Chars \in Nat /\ Chars > 0
  BY CharsAssumption
<1>2. QED
  BY <1>1 DEF Number

(* What is left of a queue that lost its head. *)
LEMMA TailFacts ==
  ASSUME NEW S, NEW queue \in Seq(S)
  PROVE  /\ SubSeq(queue, 2, Len(queue)) \in Seq(S)
         /\ queue = <<>> => SubSeq(queue, 2, Len(queue)) = <<>>
         /\ queue # <<>> =>
              /\ Len(SubSeq(queue, 2, Len(queue))) = Len(queue) - 1
              /\ \A i \in 1 .. Len(queue) - 1 :
                   SubSeq(queue, 2, Len(queue))[i] = queue[i + 1]
<1> DEFINE n == Len(queue)
           rest == SubSeq(queue, 2, n)
<1>1. n \in Nat /\ (queue # <<>> => n >= 1) /\ \A i \in 2 .. n : queue[i] \in S
  OBVIOUS
<1>2. /\ rest \in Seq(S)
      /\ Len(rest) = IF 2 <= n THEN n - 2 + 1 ELSE 0
      /\ \A i \in 1 .. n - 2 + 1 : rest[i] = queue[2 + i - 1]
  <2>1. 2 \in Int /\ n \in Int
    BY <1>1
  <2>2. \A i \in 2 .. n : queue[i] \in S
    BY <1>1
  <2> HIDE DEF n
  <2>3. QED
    BY <2>1, <2>2, SubSeqProperties
<1>3. queue # <<>> => Len(rest) = n - 1
  <2> HIDE DEF n, rest
  <2>1. n >= 1 => Len(rest) = n - 1
    BY <1>1, <1>2
  <2>2. QED
    BY <1>1, <2>1
<1>4. queue # <<>> => \A i \in 1 .. n - 1 : rest[i] = queue[i + 1]
  BY <1>1, <1>2
<1>5. queue = <<>> => rest = <<>>
  BY SubSeqEmpty
<1>6. QED
  BY <1>2, <1>3, <1>4, <1>5

(* An empty queue is in order when everything sent was received. *)
LEMMA EmptyInOrder ==
  ASSUME NEW n \in 0 .. Chars - 1
  PROVE  InOrder(<<>>, n, n)
<1>1. Chars \in Nat /\ n \in Int /\ Chars > 0
  BY CharsAssumption
<1>2. n % Chars = n
  <2>1. n = Chars * 0 + n
    BY <1>1
  <2>2. QED
    BY <1>1, <2>1, ModUnique
<1>3. n + 0 = n
  BY <1>1
<1>4. QED
  BY <1>2, <1>3 DEF InOrder, Number

(* Numbers taken one after the other. *)
LEMMA NumberAdd ==
  ASSUME NEW x \in Int, NEW y \in Int
  PROVE  Number(Number(x) + y) = Number(x + y)
<1>1. Chars \in Nat /\ Chars > 0
  BY CharsAssumption
<1>2. QED
  BY <1>1, ModAdd DEF Number

(* The next character goes to the end of a queue. *)
LEMMA PushKeepsOrder ==
  ASSUME NEW queue \in Seq(0 .. Chars - 1),
         NEW due \in 0 .. Chars - 1, NEW next \in 0 .. Chars - 1,
         InOrder(queue, due, next)
  PROVE  /\ Append(queue, next) \in Seq(0 .. Chars - 1)
         /\ InOrder(Append(queue, next), due, Number(next + 1))
<1> DEFINE n == Len(queue)
           longer == Append(queue, next)
<1>1. /\ n \in Nat /\ longer \in Seq(0 .. Chars - 1) /\ Len(longer) = n + 1
      /\ longer[n + 1] = next /\ \A i \in 1 .. n : longer[i] = queue[i]
  OBVIOUS
<1>2. /\ \A i \in 1 .. n : queue[i] = Number(due + i - 1)
      /\ Number(due + n) = next
  BY DEF InOrder
<1>3. due \in Int
  BY CharsAssumption
<1> HIDE DEF n, longer
<1>4. \A i \in 1 .. n + 1 : longer[i] = Number(due + i - 1)
  <2> SUFFICES ASSUME NEW i \in 1 .. n + 1 PROVE longer[i] = Number(due + i - 1)
    OBVIOUS
  <2>1. CASE i = n + 1
    <3>1. due + i - 1 = due + n
      BY <1>1, <1>3, <2>1
    <3>2. QED
      BY <1>1, <1>2, <2>1, <3>1
  <2>2. CASE i # n + 1
    <3>1. i \in 1 .. n
      BY <1>1, <2>2
    <3>2. QED
      BY <1>1, <1>2, <3>1
  <2>3. QED
    BY <2>1, <2>2
<1>5. Number(due + (n + 1)) = Number(next + 1)
  <2>1. due + (n + 1) = (due + n) + 1 /\ due + n \in Int
    BY <1>1, <1>3
  <2>2. QED
    BY <1>2, <2>1, NumberAdd
<1>6. DOMAIN longer = 1 .. n + 1
  BY <1>1
<1>7. InOrder(longer, due, Number(next + 1))
  BY <1>1, <1>4, <1>5, <1>6 DEF InOrder
<1>8. QED
  BY <1>1, <1>7 DEF longer

(* The head of a queue is the character that is due, and the next one is due
   when it is gone. *)
LEMMA PopKeepsOrder ==
  ASSUME NEW queue \in Seq(0 .. Chars - 1), queue # <<>>,
         NEW due \in 0 .. Chars - 1, NEW next \in 0 .. Chars - 1,
         InOrder(queue, due, next)
  PROVE  /\ Head(queue) = due
         /\ SubSeq(queue, 2, Len(queue)) \in Seq(0 .. Chars - 1)
         /\ InOrder(SubSeq(queue, 2, Len(queue)), Number(due + 1), next)
<1> DEFINE n == Len(queue)
           rest == SubSeq(queue, 2, n)
<1>1. /\ rest \in Seq(0 .. Chars - 1) /\ Len(rest) = n - 1
      /\ \A i \in 1 .. n - 1 : rest[i] = queue[i + 1]
  BY TailFacts
<1>2. /\ n \in Nat /\ n >= 1 /\ Head(queue) = queue[1]
      /\ \A i \in 1 .. n : queue[i] = Number(due + i - 1)
      /\ Number(due + n) = next
  BY DEF InOrder
<1>3. Chars \in Nat /\ due \in Int /\ Chars > 0
  BY CharsAssumption
<1> HIDE DEF n, rest
<1>4. Head(queue) = due
  <2>1. due = Chars * 0 + due /\ due + 1 - 1 = due /\ 1 \in 1 .. n
    BY <1>2, <1>3
  <2>2. due % Chars = due
    <3>1. 0 \in Int
      OBVIOUS
    <3>2. QED
      BY <1>3, <2>1, <3>1, ModUnique
  <2>3. QED
    BY <1>2, <2>1, <2>2 DEF Number
<1>5. \A i \in 1 .. n - 1 : rest[i] = Number(Number(due + 1) + i - 1)
  <2> SUFFICES ASSUME NEW i \in 1 .. n - 1
               PROVE  rest[i] = Number(Number(due + 1) + i - 1)
    OBVIOUS
  <2>1. i + 1 \in 1 .. n /\ i - 1 \in Int /\ due + 1 \in Int
    BY <1>2, <1>3
  <2>2. due + (i + 1) - 1 = (due + 1) + (i - 1)
    BY <1>3, <2>1
  <2>3. Number(due + 1) + i - 1 = Number(due + 1) + (i - 1)
    <3>1. Number(due + 1) \in Int
      BY <2>1, <1>3, NumberType
    <3>2. QED
      BY <3>1
  <2>4. Number(Number(due + 1) + (i - 1)) = Number((due + 1) + (i - 1))
    BY <2>1, NumberAdd
  <2>5. QED
    BY <1>1, <1>2, <2>1, <2>2, <2>3, <2>4
<1>6. Number(Number(due + 1) + (n - 1)) = next
  <2>1. due + 1 \in Int /\ n - 1 \in Int /\ (due + 1) + (n - 1) = due + n
    BY <1>2, <1>3
  <2>2. QED
    BY <1>2, <2>1, NumberAdd
<1>7. DOMAIN rest = 1 .. n - 1
  BY <1>1
<1>8. InOrder(rest, Number(due + 1), next)
  BY <1>1, <1>5, <1>6, <1>7 DEF InOrder
<1>9. QED
  BY <1>1, <1>4, <1>8 DEF rest, n

(* A new uart has empty queues and free mutexes. *)
LEMMA InitUartInv == Init => UartInv
<1> SUFFICES ASSUME Init PROVE UartInv
  OBVIOUS
<1>1. 0 \in 0 .. Chars - 1
  BY CharsAssumption
<1>2. TypeOK
  <2>1. held \in [Threads -> 0 .. Chars - 1]
    BY <1>1 DEF Init
  <2>2. rx \in Seq(0 .. Chars - 1) /\ tx \in Seq(0 .. Chars - 1)
    BY DEF Init
  <2>3. {tx_next, tx_due, rx_next, rx_due} \subseteq 0 .. Chars - 1
    BY <1>1 DEF Init
  <2>4. QED
    BY <2>1, <2>2, <2>3 DEF Init, TypeOK, Threads
<1>3. LocksHeld /\ NoticesTruthful
  BY DEF Init, LocksHeld, NoticesTruthful
<1>4. NothingLost
  BY <1>1, EmptyInOrder DEF Init, NothingLost
<1>5. QED
  BY <1>2, <1>3, <1>4 DEF UartInv

(* The steps that leave both queues alone. *)
QuietSteps ==
  \/ DoRead \/ ReadLSR \/ ReadOther \/ ReadRxNone \/ ReadRxFront \/ ReadIIR \/ ClearThr
  \/ Irq \/ DoWrite \/ WriteLockRx \/ WritePushed \/ WriteIER \/ WriteLCR
  \/ WriteOther \/ Getc \/ ExistTx \/ GetcNone \/ GetcFront \/ GetcTest
  \/ UNCHANGED vars

(* The number a getc or a read takes from the head is the one that is due. *)
LEMMA HeadsAreDue ==
  ASSUME UartInv
  PROVE  /\ tx # <<>> => Head(tx) = tx_due
         /\ rx # <<>> => Head(rx) = rx_due
<1>1. /\ tx \in Seq(0 .. Chars - 1) /\ rx \in Seq(0 .. Chars - 1)
      /\ {tx_next, tx_due, rx_next, rx_due} \subseteq 0 .. Chars - 1
      /\ InOrder(tx, tx_due, tx_next) /\ InOrder(rx, rx_due, rx_next)
  BY DEF UartInv, TypeOK, NothingLost
<1>2. QED
  BY <1>1, PopKeepsOrder

(* Calls that touch no queue keep the types. *)
LEMMA QuietKeepsType ==
  ASSUME UartInv, QuietSteps
  PROVE  TypeOK'
<1> USE DEF UartInv, locks, regs, txHistory, rxHistory, ReadReturns, WriteReturns,
            GetcReturns, Threads
<1>1. UNCHANGED <<rx, tx, txHistory, rx_next, rx_due>>
  BY DEF QuietSteps, DoRead, ReadLSR, ReadOther, ReadRxNone, ReadRxFront, ReadIIR, ClearThr,
         Irq, DoWrite, WriteLockRx, WritePushed, WriteIER, WriteLCR, WriteOther,
         Getc, ExistTx, GetcNone, GetcFront, GetcTest, vars
<1>2. Chars - 1 \in 0 .. Chars - 1
  BY CharsAssumption
<1>3. held' \in [Threads -> 0 .. Chars - 1]
  <2>1. {tx_next, tx_due, rx_next, rx_due} \subseteq 0 .. Chars - 1
    BY DEF TypeOK
  <2>2. CASE ReadRxFront \/ GetcFront \/ GetcNone
    BY <1>2, <2>1, <2>2, HeadsAreDue DEF TypeOK, ReadRxFront, GetcFront, GetcNone
  <2>3. CASE ~ (ReadRxFront \/ GetcFront \/ GetcNone)
    BY <2>3 DEF TypeOK, QuietSteps, DoRead, ReadLSR, ReadOther, ReadRxNone, ReadIIR, ClearThr,
       Irq, DoWrite, WriteLockRx, WritePushed, WriteIER, WriteLCR, WriteOther,
       Getc, ExistTx, GetcTest, vars
  <2>4. QED
    BY <2>2, <2>3
<1>4. /\ rx_lock' \in Threads \cup {"none"} /\ tx_lock' \in Threads \cup {"none"}
      /\ bus' \in {"idle", "read_rx", "read_iir", "read_lsr", "read_other", "pop_rx",
                   "clear_thr", "lock_rx", "write", "pushed"}
      /\ console' \in {"idle", "getc", "pop_tx", "test_tx"}
  BY DEF TypeOK, QuietSteps, DoRead, ReadLSR, ReadOther, ReadRxNone, ReadRxFront, ReadIIR,
         ClearThr, Irq, DoWrite, WriteLockRx, WritePushed, WriteIER, WriteLCR,
         WriteOther, Getc, ExistTx, GetcNone, GetcFront, GetcTest, vars
<1>5. IER' \subseteq Interrupts /\ IIR' \subseteq Interrupts
  BY DEF TypeOK, QuietSteps, DoRead, ReadLSR, ReadOther, ReadRxNone, ReadRxFront, ReadIIR,
         ClearThr, Irq, DoWrite, WriteLockRx, WritePushed, WriteIER, WriteLCR,
         WriteOther, Getc, ExistTx, GetcNone, GetcFront, GetcTest, vars, Pending,
         Interrupts
<1>6. DLAB' \in BOOLEAN
  BY Zenon DEF TypeOK, QuietSteps, DoRead, ReadLSR, ReadOther, ReadRxNone, ReadRxFront,
         ReadIIR, ClearThr, Irq, DoWrite, WriteLockRx, WritePushed, WriteIER,
         WriteLCR, WriteOther, Getc, ExistTx, GetcNone, GetcFront, GetcTest, vars
<1>7. thr_empty' \in BOOLEAN
  BY Zenon DEF TypeOK, QuietSteps, DoRead, ReadLSR, ReadOther, ReadRxNone, ReadRxFront,
         ReadIIR, ClearThr, Irq, DoWrite, WriteLockRx, WritePushed, WriteIER,
         WriteLCR, WriteOther, Getc, ExistTx, GetcNone, GetcFront, GetcTest, vars
<1>8. lsr' \subseteq LineStatus
  BY DEF TypeOK, QuietSteps, DoRead, ReadLSR, ReadOther, ReadRxNone, ReadRxFront,
         ReadIIR, ClearThr, Irq, DoWrite, WriteLockRx, WritePushed, WriteIER,
         WriteLCR, WriteOther, Getc, ExistTx, GetcNone, GetcFront, GetcTest, vars
<1>9. QED
  BY <1>1, <1>3, <1>4, <1>5, <1>6, <1>7, <1>8 DEF TypeOK

(* Calls that touch no queue keep the rest of the invariant. *)
LEMMA QuietKeepsRest ==
  ASSUME UartInv, QuietSteps
  PROVE  LocksHeld' /\ NoticesTruthful' /\ NothingLost'
<1> USE DEF UartInv, locks, regs, txHistory, rxHistory, ReadReturns, WriteReturns,
            GetcReturns, Threads
<1>1. UNCHANGED <<rx, tx, txHistory, rx_next, rx_due>>
  BY DEF QuietSteps, DoRead, ReadLSR, ReadOther, ReadRxNone, ReadRxFront, ReadIIR, ClearThr,
         Irq, DoWrite, WriteLockRx, WritePushed, WriteIER, WriteLCR, WriteOther,
         Getc, ExistTx, GetcNone, GetcFront, GetcTest, vars
<1>2. LocksHeld'
  BY DEF TypeOK, LocksHeld, QuietSteps, DoRead, ReadLSR, ReadOther, ReadRxNone, ReadRxFront,
         ReadIIR, ClearThr, Irq, DoWrite, WriteLockRx, WritePushed, WriteIER,
         WriteLCR, WriteOther, Getc, ExistTx, GetcNone, GetcFront, GetcTest, vars
<1>3. NoticesTruthful'
  BY <1>1 DEF TypeOK, NoticesTruthful, QuietSteps, DoRead, ReadLSR, ReadOther, ReadRxNone,
         ReadRxFront, ReadIIR, ClearThr, Irq, DoWrite, WriteLockRx, WritePushed,
         WriteIER, WriteLCR, WriteOther, Getc, ExistTx, GetcNone, GetcFront,
         GetcTest, vars, Pending
<1>4. InOrder(tx, tx_due, tx_next)' /\ InOrder(rx, rx_due, rx_next)'
  BY <1>1 DEF NothingLost, InOrder
<1>5. /\ console' = "pop_tx" => tx # <<>> /\ held'["console"] = tx_due
      /\ bus' = "pop_rx" => rx # <<>> /\ held'["bus"] = rx_due
  BY HeadsAreDue
     DEF TypeOK, NothingLost, QuietSteps, DoRead, ReadLSR, ReadOther, ReadRxNone, ReadRxFront,
         ReadIIR, ClearThr, Irq, DoWrite, WriteLockRx, WritePushed, WriteIER,
         WriteLCR, WriteOther, Getc, ExistTx, GetcNone, GetcFront, GetcTest, vars
<1>6. QED
  BY <1>1, <1>2, <1>3, <1>4, <1>5 DEF NothingLost

(* A character more at the end of a queue. *)
LEMMA PushKeepsInv ==
  ASSUME UartInv, WritePush \/ Putc
  PROVE  UartInv'
<1> USE DEF locks, regs, txHistory, rxHistory, Threads
<1>1. /\ TypeOK /\ LocksHeld /\ NoticesTruthful /\ NothingLost
      /\ tx \in Seq(0 .. Chars - 1) /\ rx \in Seq(0 .. Chars - 1)
      /\ tx_next \in 0 .. Chars - 1 /\ tx_due \in 0 .. Chars - 1
      /\ rx_next \in 0 .. Chars - 1 /\ rx_due \in 0 .. Chars - 1
      /\ InOrder(tx, tx_due, tx_next) /\ InOrder(rx, rx_due, rx_next)
  BY DEF UartInv, TypeOK, NothingLost
<1>2. /\ Number(tx_next + 1) \in 0 .. Chars - 1
      /\ Number(rx_next + 1) \in 0 .. Chars - 1
  <2>1. tx_next + 1 \in Int /\ rx_next + 1 \in Int
    BY <1>1, CharsAssumption
  <2>2. QED
    BY <2>1, NumberType
<1>3. CASE WritePush
  <2>1. /\ tx' \in Seq(0 .. Chars - 1) /\ InOrder(tx', tx_due, tx_next')
        /\ tx_next' \in 0 .. Chars - 1
    BY <1>1, <1>2, <1>3, PushKeepsOrder DEF WritePush
  <2>2. console = "idle"
    BY <1>1, <1>3 DEF WritePush, LocksHeld, TypeOK
  <2>3. TypeOK'
    BY <1>1, <1>3, <2>1 DEF WritePush, TypeOK
  <2>4. LocksHeld' /\ NoticesTruthful'
    BY <1>1, <1>3 DEF WritePush, LocksHeld, NoticesTruthful
  <2>5. NothingLost'
    BY <1>1, <1>3, <2>1, <2>2 DEF WritePush, NothingLost, InOrder
  <2>6. QED
    BY <2>3, <2>4, <2>5 DEF UartInv
<1>4. CASE Putc
  <2>1. /\ rx' \in Seq(0 .. Chars - 1) /\ InOrder(rx', rx_due, rx_next')
        /\ rx_next' \in 0 .. Chars - 1
    BY <1>1, <1>2, <1>4, PushKeepsOrder DEF Putc
  <2>2. bus # "pop_rx"
    BY <1>1, <1>4 DEF Putc, LocksHeld, TypeOK
  <2>3. TypeOK'
    BY <1>1, <1>4, <2>1 DEF Putc, TypeOK
  <2>4. LocksHeld' /\ NoticesTruthful'
    BY <1>1, <1>4 DEF Putc, LocksHeld, NoticesTruthful
  <2>5. NothingLost'
    BY <1>1, <1>4, <2>1, <2>2 DEF Putc, NothingLost, InOrder
  <2>6. QED
    BY <2>3, <2>4, <2>5 DEF UartInv
<1>5. QED
  BY <1>3, <1>4

(* The character at the head of a queue is gone. *)
LEMMA PopKeepsInv ==
  ASSUME UartInv, ReadRxPop \/ GetcPop
  PROVE  UartInv'
<1> USE DEF locks, regs, txHistory, rxHistory, Threads
<1>1. /\ TypeOK /\ LocksHeld /\ NoticesTruthful /\ NothingLost
      /\ tx \in Seq(0 .. Chars - 1) /\ rx \in Seq(0 .. Chars - 1)
      /\ tx_next \in 0 .. Chars - 1 /\ tx_due \in 0 .. Chars - 1
      /\ rx_next \in 0 .. Chars - 1 /\ rx_due \in 0 .. Chars - 1
      /\ InOrder(tx, tx_due, tx_next) /\ InOrder(rx, rx_due, rx_next)
  BY DEF UartInv, TypeOK, NothingLost
<1>2. /\ Number(tx_due + 1) \in 0 .. Chars - 1
      /\ Number(rx_due + 1) \in 0 .. Chars - 1
  <2>1. tx_due + 1 \in Int /\ rx_due + 1 \in Int
    BY <1>1, CharsAssumption
  <2>2. QED
    BY <2>1, NumberType
<1>3. CASE GetcPop
  <2>1. tx # <<>>
    BY <1>1, <1>3 DEF GetcPop, NothingLost
  <2>2. /\ tx' \in Seq(0 .. Chars - 1) /\ InOrder(tx', tx_due', tx_next)
        /\ tx_due' \in 0 .. Chars - 1
    BY <1>1, <1>2, <1>3, <2>1, PopKeepsOrder DEF GetcPop
  <2>3. TypeOK'
    BY <1>1, <1>3, <2>2 DEF GetcPop, TypeOK
  <2>4. bus # "pushed"
    BY <1>1, <1>3 DEF GetcPop, LocksHeld
  <2>5. LocksHeld' /\ NoticesTruthful'
    BY <1>1, <1>3, <2>1, <2>4 DEF GetcPop, LocksHeld, NoticesTruthful
  <2>6. NothingLost'
    BY <1>1, <1>3, <2>2 DEF GetcPop, NothingLost, InOrder
  <2>7. QED
    BY <2>3, <2>5, <2>6 DEF UartInv
<1>4. CASE ReadRxPop
  <2>1. rx # <<>>
    BY <1>1, <1>4 DEF ReadRxPop, NothingLost
  <2>2. /\ rx' \in Seq(0 .. Chars - 1) /\ InOrder(rx', rx_due', rx_next)
        /\ rx_due' \in 0 .. Chars - 1
    BY <1>1, <1>2, <1>4, <2>1, PopKeepsOrder DEF ReadRxPop
  <2>3. TypeOK'
    BY <1>1, <1>4, <2>2 DEF ReadRxPop, ReadReturns, TypeOK
  <2>4. LocksHeld' /\ NoticesTruthful'
    BY <1>1, <1>4 DEF ReadRxPop, ReadReturns, LocksHeld, NoticesTruthful
  <2>5. NothingLost'
    BY <1>1, <1>4, <2>2 DEF ReadRxPop, ReadReturns, NothingLost, InOrder
  <2>6. QED
    BY <2>3, <2>4, <2>5 DEF UartInv
<1>5. QED
  BY <1>3, <1>4

(* FCR clears queues; getc is not between head and pop then, for do_write
   holds tx_lock, and nor is do_read, which the same thread calls. *)
LEMMA ClearKeepsInv ==
  ASSUME UartInv, NEW clear_rx \in BOOLEAN, NEW clear_tx \in BOOLEAN,
         WriteFCR(clear_rx, clear_tx)
  PROVE  UartInv'
<1> USE DEF locks, regs, txHistory, rxHistory, Threads
<1>1. /\ TypeOK /\ LocksHeld /\ NoticesTruthful /\ NothingLost
      /\ tx \in Seq(0 .. Chars - 1) /\ rx \in Seq(0 .. Chars - 1)
      /\ tx_next \in 0 .. Chars - 1 /\ tx_due \in 0 .. Chars - 1
      /\ rx_next \in 0 .. Chars - 1 /\ rx_due \in 0 .. Chars - 1
      /\ InOrder(tx, tx_due, tx_next) /\ InOrder(rx, rx_due, rx_next)
  BY DEF UartInv, TypeOK, NothingLost
<1>2. console = "idle" /\ bus = "write"
  BY <1>1 DEF WriteFCR, LocksHeld
<1>3. /\ tx' \in Seq(0 .. Chars - 1) /\ tx_due' \in 0 .. Chars - 1
      /\ InOrder(tx', tx_due', tx_next)
      /\ tx' = <<>> \/ tx' = tx
  <2>1. CASE clear_tx
    BY <1>1, <2>1, EmptyInOrder DEF WriteFCR
  <2>2. CASE ~ clear_tx
    BY <1>1, <2>2 DEF WriteFCR
  <2>3. QED
    BY <2>1, <2>2
<1>4. /\ rx' \in Seq(0 .. Chars - 1) /\ rx_due' \in 0 .. Chars - 1
      /\ InOrder(rx', rx_due', rx_next)
      /\ lsr' \subseteq LineStatus /\ ("DR" \in lsr' => rx' # <<>>)
  <2>1. CASE clear_rx
    BY <1>1, <2>1, EmptyInOrder DEF WriteFCR, TypeOK
  <2>2. CASE ~ clear_rx
    BY <1>1, <2>2 DEF WriteFCR, TypeOK, NoticesTruthful
  <2>3. QED
    BY <2>1, <2>2
<1>5. /\ UNCHANGED <<thr_empty, regs, console, held, tx_next, rx_next>>
      /\ rx_lock' = "none" /\ tx_lock' = "none" /\ bus' = "idle"
  BY DEF WriteFCR, WriteReturns
<1>6. TypeOK'
  BY <1>1, <1>3, <1>4, <1>5 DEF TypeOK
<1>7. LocksHeld' /\ NoticesTruthful'
  BY <1>1, <1>2, <1>3, <1>4, <1>5 DEF LocksHeld, NoticesTruthful
<1>8. NothingLost'
  BY <1>2, <1>3, <1>4, <1>5 DEF NothingLost, InOrder
<1>9. QED
  BY <1>6, <1>7, <1>8 DEF UartInv

(* Every step of every call keeps the invariant. *)
LEMMA NextKeepsUartInv == UartInv /\ [Next]_vars => UartInv'
<1> SUFFICES ASSUME UartInv, [Next]_vars PROVE UartInv'
  OBVIOUS
<1>1. CASE QuietSteps
  BY <1>1, QuietKeepsType, QuietKeepsRest DEF UartInv
<1>2. CASE WritePush \/ Putc
  BY <1>2, PushKeepsInv
<1>3. CASE ReadRxPop \/ GetcPop
  BY <1>3, PopKeepsInv
<1>4. CASE \E clear_rx, clear_tx \in BOOLEAN : WriteFCR(clear_rx, clear_tx)
  BY <1>4, ClearKeepsInv
<1>5. QED
  BY <1>1, <1>2, <1>3, <1>4 DEF Next, Bus, Console, BusInCall, ConsoleInCall, QuietSteps

(* The invariant of the uart: types, mutexes, thr_empty and the queues. *)
THEOREM UartInvariant == Spec => []UartInv
BY InitUartInv, NextKeepsUartInv, PTL DEF Spec

(* Every variable stays in its range. *)
THEOREM UartTypeCorrect == Spec => []TypeOK
<1>1. UartInv => TypeOK
  BY DEF UartInv
<1>2. QED
  BY <1>1, UartInvariant, PTL

(* Characters arrive in order, once each, and none is lost but those that FCR
   clears, whatever calls of the two threads overlap. *)
THEOREM UartNothingLost == Spec => []NothingLost
<1>1. UartInv => NothingLost
  BY DEF UartInv
<1>2. QED
  BY <1>1, UartInvariant, PTL

(* thr_empty and a notice of it through IIR mean an empty transmitter, and a
   character that LSR announced stays until the bus thread takes it; nothing is
   said of the bits THRE and TEMT of LSR, which are always set. *)
THEOREM UartNoticesTruthful == Spec => []NoticesTruthful
<1>1. UartInv => NoticesTruthful
  BY DEF UartInv
<1>2. QED
  BY <1>1, UartInvariant, PTL

(* What is behind CallsReturn: how many steps a call still takes at most. *)
BusLeft ==
  CASE bus = "idle" -> 0
    [] bus \in {"read_lsr", "read_other", "pop_rx", "clear_thr", "pushed"} -> 1
    [] bus \in {"read_rx", "read_iir", "write"} -> 2
    [] bus = "lock_rx" -> 3

ConsoleLeft ==
  CASE console = "idle" -> 0
    [] console = "test_tx" -> 1
    [] console = "pop_tx" -> 2
    [] console = "getc" -> 3

(* The console takes rx_lock for one step only (putc), so that it never has it
   while the bus waits for it between the two locks of do_write. *)
NobodyWaits == rx_lock # "console" /\ (bus = "lock_rx" => rx_lock = "none")

LEMMA NextKeepsRxLock ==
  rx_lock # "console" /\ [Next]_vars => (rx_lock # "console")'
BY DEF Next, vars, locks, Bus, BusInCall, Console, ConsoleInCall, DoRead, ReadLSR,
       ReadOther,
       ReadRxNone, ReadRxFront, ReadRxPop, ReadIIR, ClearThr, Irq, DoWrite,
       WriteLockRx, WritePush, WritePushed, WriteIER, WriteFCR, WriteLCR, WriteOther,
       Putc, Getc, GetcNone, GetcFront, GetcPop, GetcTest, ExistTx, ReadReturns,
       WriteReturns

LEMMA BusAdvances ==
  ASSUME BusInCall
  PROVE  bus # "idle" /\ BusLeft' < BusLeft /\ UNCHANGED console
<1>1. CASE ReadLSR \/ ReadOther \/ ReadRxNone \/ ReadRxPop \/ ClearThr \/ WritePushed
  <2>1. /\ bus \in {"read_lsr", "read_other", "read_rx", "pop_rx", "clear_thr", "pushed"}
        /\ bus' = "idle" /\ console' = console
    BY <1>1 DEF ReadLSR, ReadOther, ReadRxNone, ReadRxPop, ClearThr, WritePushed, ReadReturns,
                WriteReturns
  <2>2. QED
    BY <2>1 DEF BusLeft
<1>2. CASE ReadRxFront \/ ReadIIR \/ WriteLockRx \/ WritePush
  <2>1. /\ \/ bus = "read_rx" /\ bus' = "pop_rx"
           \/ bus = "read_iir" /\ bus' = "clear_thr"
           \/ bus = "lock_rx" /\ bus' = "write"
           \/ bus = "write" /\ bus' = "pushed"
        /\ console' = console
    BY <1>2 DEF ReadRxFront, ReadIIR, WriteLockRx, WritePush
  <2>2. QED
    BY <2>1 DEF BusLeft
<1>3. CASE WriteIER \/ WriteLCR \/ WriteOther
           \/ \E clear_rx, clear_tx \in BOOLEAN : WriteFCR(clear_rx, clear_tx)
  <2>1. bus = "write" /\ bus' = "idle" /\ console' = console
    BY <1>3 DEF WriteIER, WriteLCR, WriteOther, WriteFCR, WriteReturns
  <2>2. QED
    BY <2>1 DEF BusLeft
<1>4. QED
  BY <1>1, <1>2, <1>3 DEF BusInCall

LEMMA ConsoleAdvances ==
  ASSUME ConsoleInCall
  PROVE  console # "idle" /\ ConsoleLeft' < ConsoleLeft /\ UNCHANGED bus
<1>1. /\ \/ console = "getc" /\ console' \in {"idle", "pop_tx"}
         \/ console = "pop_tx" /\ console' = "test_tx"
         \/ console = "test_tx" /\ console' = "idle"
      /\ bus' = bus
  BY DEF ConsoleInCall, GetcNone, GetcFront, GetcPop, GetcTest, GetcReturns
<1>2. QED
  BY <1>1 DEF ConsoleLeft

(* A thread inside a call never waits for a mutex the other one holds, each of
   its steps brings its return nearer, and no step of the other thread puts it
   off. *)
THEOREM UartCallsAdvance ==
  Spec => /\ []NobodyWaits
          /\ [][ /\ bus # "idle" => BusLeft' < BusLeft \/ bus' = bus
                 /\ console # "idle" =>
                      ConsoleLeft' < ConsoleLeft \/ console' = console ]_vars
<1> DEFINE Advance ==
      /\ bus # "idle" => BusLeft' < BusLeft \/ bus' = bus
      /\ console # "idle" => ConsoleLeft' < ConsoleLeft \/ console' = console
<1>1. Init => rx_lock # "console"
  BY DEF Init
<1>2. UartInv /\ rx_lock # "console" => NobodyWaits
  BY DEF UartInv, TypeOK, LocksHeld, Threads, NobodyWaits
<1>3. [Next]_vars => [Advance]_vars
  <2> SUFFICES ASSUME Next PROVE Advance
    OBVIOUS
  <2>1. CASE BusInCall
    BY <2>1, BusAdvances
  <2>2. CASE ConsoleInCall
    BY <2>2, ConsoleAdvances
  <2>3. CASE DoRead \/ DoWrite \/ Irq
    BY <2>3 DEF DoRead, DoWrite, Irq
  <2>4. CASE Putc \/ Getc \/ ExistTx
    BY <2>4 DEF Putc, Getc, ExistTx, vars
  <2>5. QED
    BY <2>1, <2>2, <2>3, <2>4 DEF Next, Bus, Console
<1>4. QED
  BY <1>1, <1>2, <1>3, NextKeepsRxLock, UartInvariant, PTL DEF Spec

(***************************************************************************)
(* The two sets of configuration registers.                                *)
(***************************************************************************)

(* A set of numbers has a least element: the form in which induction is used
   below. *)
LEMMA LeastNat ==
  ASSUME NEW S, S \subseteq Nat, S # {}
  PROVE  \E x \in S : \A y \in S : x <= y
<1> DEFINE R == OpToRel(<, Nat)
<1>1. IsWellFoundedOn(R, Nat)
  BY NatLessThanWellFounded
<1>2. \A a, b \in Nat : a < b => <<a, b>> \in R
  BY DEF OpToRel
<1> HIDE DEF R
<1>3. PICK x \in S : \A y \in S : ~ (<<y, x>> \in R)
  BY <1>1, WFMin, Zenon
<1>4. \A y \in S : x <= y
  <2>1. TAKE y \in S
  <2>2. x \in Nat /\ y \in Nat /\ ~ (<<y, x>> \in R)
    BY <1>3
  <2>3. ~ (y < x)
    BY <1>2, <2>2
  <2>4. QED
    BY <2>2, <2>3
<1>5. QED
  BY <1>4

(* The accesses one by one: the recursive function exists, by induction on
   their number. *)
LEMMA AccessesUnrolled ==
  ASSUME NEW p, NEW c, NEW data, NEW m \in Nat, NEW cleared
  PROVE  /\ AccessesOn(p, c, data, m, m, cleared) = [c |-> c, data |-> data]
         /\ \A k \in Nat : k >= m =>
              AccessesOn(p, c, data, m, k + 1, cleared) =
                Access(AccessesOn(p, c, data, m, k, cleared).c, p[k + 1],
                       AccessesOn(p, c, data, m, k, cleared).data, cleared)
<1> DEFINE base == [c |-> c, data |-> data]
           Step(i, v) == Access(v.c, p[m + i], v.data, cleared)
           Rec(f, i) == IF i = 0 THEN base ELSE Step(i, f[i - 1])
           Upto(n, g) == \A i \in 0 .. n : g[i] = Rec(g, i)
           all == CHOOSE f : f = [i \in Nat |-> Rec(f, i)]
<1>1. \A n : AccessesOn(p, c, data, m, n, cleared) = all[n - m]
  BY DEF AccessesOn
<1> HIDE DEF Step
<1>2. \A n \in Nat : \E g : Upto(n, g)
  <2> DEFINE Bad == {n \in Nat : ~ \E g : Upto(n, g)}
  <2> SUFFICES ASSUME Bad # {} PROVE FALSE
    OBVIOUS
  <2>1. PICK n \in Bad : \A k \in Bad : n <= k
    BY LeastNat
  <2>2. n \in Nat /\ ~ \E g : Upto(n, g)
    BY <2>1
  <2>3. n # 0
    <3>1. Upto(0, [i \in {0} |-> base])
      OBVIOUS
    <3>2. QED
      BY <2>2, <3>1
  <2>4. n - 1 \in Nat /\ n - 1 < n
    BY <2>2, <2>3
  <2>5. PICK g : Upto(n - 1, g)
    <3> HIDE DEF Upto
    <3>1. ~ (n <= n - 1)
      BY <2>4
    <3>2. n - 1 \notin Bad
      BY <2>1, <3>1
    <3>3. QED
      BY <2>4, <3>2
  <2> DEFINE h == [i \in 0 .. n |-> IF i = n THEN Step(n, g[n - 1]) ELSE g[i]]
  <2>6. ASSUME NEW i \in 0 .. n PROVE h[i] = Rec(h, i)
    <3>1. CASE i = n
      <4>1. n - 1 \in 0 .. n /\ n - 1 # n /\ n \in 0 .. n
        BY <2>4
      <4>2. h[n - 1] = g[n - 1] /\ h[n] = Step(n, g[n - 1])
        BY <4>1
      <4>3. QED
        BY <2>3, <3>1, <4>2
    <3>2. CASE i # n
      <4>1. i \in 0 .. n - 1
        BY <2>4, <3>2
      <4>2. g[i] = Rec(g, i) /\ h[i] = g[i]
        BY <2>5, <3>2, <4>1
      <4>3. i # 0 => i - 1 \in 0 .. n /\ i - 1 # n
        BY <2>4, <4>1
      <4>4. i # 0 => h[i - 1] = g[i - 1]
        BY <4>3
      <4>5. QED
        BY <4>2, <4>4
    <3>3. QED
      BY <3>1, <3>2
  <2>7. Upto(n, h)
    BY <2>6
  <2>8. QED
    <3> HIDE DEF Upto, h
    <3>1. QED
      BY <2>2, <2>7
<1>3. ASSUME NEW s \in Nat, NEW n \in Nat, s <= n, NEW g, NEW h, Upto(s, g), Upto(n, h)
      PROVE  \A i \in 0 .. s : g[i] = h[i]
  <2> DEFINE Bad == {i \in 0 .. s : g[i] # h[i]}
  <2> SUFFICES ASSUME Bad # {} PROVE FALSE
    OBVIOUS
  <2>1. PICK i \in Bad : \A k \in Bad : i <= k
    <3>1. Bad \subseteq Nat
      OBVIOUS
    <3> HIDE DEF Bad
    <3>2. QED
      BY <3>1, LeastNat
  <2>2. i \in 0 .. s /\ i \in 0 .. n /\ g[i] # h[i]
    BY <1>3, <2>1
  <2>3. g[i] = Rec(g, i) /\ h[i] = Rec(h, i)
    BY <1>3, <2>2
  <2>4. i # 0
    BY <2>2, <2>3
  <2>5. i - 1 \in 0 .. s /\ ~ (i <= i - 1)
    BY <2>2, <2>4
  <2>6. g[i - 1] = h[i - 1]
    BY <2>1, <2>5
  <2>7. QED
    BY <2>2, <2>3, <2>4, <2>6
<1> DEFINE part(n) == CHOOSE g : Upto(n, g)
           F == [n \in Nat |-> part(n)[n]]
<1>4. F = [i \in Nat |-> Rec(F, i)]
  <2>1. \A n \in Nat : Upto(n, part(n))
    <3> HIDE DEF Upto
    <3>1. QED
      BY <1>2
  <2>2. ASSUME NEW n \in Nat PROVE F[n] = Rec(F, n)
    <3> HIDE DEF part
    <3>1. part(n)[n] = Rec(part(n), n)
      <4>1. Upto(n, part(n))
        <5> HIDE DEF Upto
        <5>1. QED
          BY <2>1
      <4>2. n \in 0 .. n
        OBVIOUS
      <4>3. QED
        BY <4>1, <4>2
    <3>2. F[n] = Rec(part(n), n)
      BY <3>1
    <3>3. CASE n # 0
      <4>1. n - 1 \in Nat /\ n - 1 <= n /\ n - 1 \in 0 .. n - 1
        BY <3>3
      <4>2. F[n - 1] = part(n - 1)[n - 1]
        BY <4>1
      <4>3. Upto(n - 1, part(n - 1)) /\ Upto(n, part(n))
        BY <2>1, <4>1
      <4>4. part(n - 1)[n - 1] = part(n)[n - 1]
        <5> HIDE DEF Upto
        <5>1. QED
          BY <1>3, <4>1, <4>3
      <4>5. QED
        BY <3>2, <3>3, <4>2, <4>4
    <3>4. QED
      BY <3>2, <3>3
  <2>3. QED
    <3> HIDE DEF part, Rec
    <3>1. QED
      BY <2>2
<1>5. all = [i \in Nat |-> Rec(all, i)]
  <2> HIDE DEF F
  <2>1. QED
    BY <1>4
<1>6. all[0] = base /\ \A n \in Nat : all[n + 1] = Step(n + 1, all[n])
  <2> HIDE DEF all
  <2>1. \A n \in Nat : all[n] = Rec(all, n)
    BY <1>5
  <2>2. ASSUME NEW n \in Nat PROVE all[n + 1] = Step(n + 1, all[n])
    <3>1. all[n + 1] = Rec(all, n + 1) /\ n + 1 # 0 /\ (n + 1) - 1 = n
      <4> HIDE DEF Rec
      <4>1. QED
        BY <2>1
    <3>2. QED
      BY <3>1
  <2>3. all[0] = base
    BY <2>1
  <2>4. QED
    BY <2>2, <2>3
<1> HIDE DEF all
<1>7. AccessesOn(p, c, data, m, m, cleared) = base
  <2>1. m - m = 0
    OBVIOUS
  <2>2. QED
    BY <1>1, <1>6, <2>1
<1>8. ASSUME NEW k \in Nat, k >= m
      PROVE  AccessesOn(p, c, data, m, k + 1, cleared) =
               Access(AccessesOn(p, c, data, m, k, cleared).c, p[k + 1],
                      AccessesOn(p, c, data, m, k, cleared).data, cleared)
  <2>1. PICK n \in Nat : n = k - m
    BY <1>8
  <2>2. (k + 1) - m = n + 1 /\ m + (n + 1) = k + 1
    BY <2>1
  <2>3. /\ AccessesOn(p, c, data, m, k + 1, cleared) = all[n + 1]
        /\ AccessesOn(p, c, data, m, k, cleared) = all[n]
    BY <1>1, <2>1, <2>2
  <2>4. all[n + 1] = Access(all[n].c, p[k + 1], all[n].data, cleared)
    BY <1>6, <2>2 DEF Step
  <2>5. QED
    BY <2>3, <2>4
<1>9. QED
  BY <1>7, <1>8

(* One access more in a run of them. *)
LEMMA AccessesNext ==
  ASSUME NEW p, NEW c, NEW data, NEW m \in Nat, NEW cleared, NEW k \in Nat, k >= m
  PROVE  AccessesOn(p, c, data, m, k + 1, cleared) =
           Access(AccessesOn(p, c, data, m, k, cleared).c, p[k + 1],
                  AccessesOn(p, c, data, m, k, cleared).data, cleared)
<1>1. \A j \in Nat : j >= m =>
        AccessesOn(p, c, data, m, j + 1, cleared) =
          Access(AccessesOn(p, c, data, m, j, cleared).c, p[j + 1],
                 AccessesOn(p, c, data, m, j, cleared).data, cleared)
  BY AccessesUnrolled
<1>2. QED
  BY <1>1

-----------------------------------------------------------------------------

(* The confreg after the first n accesses of the program on a clock that
   stands still, which is what the reference has. *)
Ideal(p, n) == AccessesOn(p, SwitchesOff(NewConfreg), <<>>, 0, n, TRUE).c

(* Two confregs are the same but for their timers. *)
Alike(c, d) ==
  /\ c.uart_queue = d.uart_queue
  /\ \A a \in Stored \ {"TIMER"} : c.reg[a] = d.reg[a]

(* A side has done n accesses: its confreg is the ideal one but for the timer,
   and its loads, those apart that PaddrTop refuses, returned what that one held
   when it was their turn. *)
SideFollows(p, c, data, n) ==
  /\ c \in ConfregType /\ Ideal(p, n) \in ConfregType /\ Alike(c, Ideal(p, n))
  /\ data \in Seq(RegWords) /\ Len(data) = n
  /\ \A i \in 1 .. n :
       p[i].load /\ Routed(p[i]) /\ p[i].addr # "TIMER" =>
         data[i] = ConfregRead(Ideal(p, i - 1), p[i].addr, 0)

(* The registers that matter one by one. *)
LEMMA RegisterNames ==
  /\ "TIMER" \in Stored /\ "TIMER" \in Plain /\ "TIMER" \in Addresses
  /\ Plain \cup Converted \subseteq Stored
  /\ "SWITCH" \in Stored /\ "SW_INTER" \in Stored
BY DEF Stored, Plain, Converted, Fixed, Addresses

(* The words of a register. *)
LEMMA WordCount ==
  /\ Half \in Nat /\ Bytes \in Nat /\ Bytes > 0
  /\ \E W \in Nat : W = Half * Half /\ 2 * 21845 < W /\ RegWords = 0 .. W - 1
<1>1. Half \in Nat /\ Bytes \in Nat /\ Bytes > 0
  <2>1. Half \in Nat /\ Bytes \in Nat \ {0}
    BY ConfregAssumption
  <2>2. QED
    BY <2>1
<1>2. PICK W : W = Half * Half
  OBVIOUS
<1>3. W \in Nat /\ 2 * 21845 < W
  <2>1. 43690 < W
    BY <1>2, ConfregAssumption
  <2>2. W \in Nat
    BY <1>1, <1>2
  <2>3. QED
    BY <2>1, <2>2
<1>4. RegWords = 0 .. W - 1
  BY <1>2 DEF RegWords
<1>5. QED
  BY <1>1, <1>2, <1>3, <1>4

(* Whatever is written, what is kept is a word, and the character a byte. *)
LEMMA ConvertsType ==
  ASSUME NEW addr, NEW data \in RegWords
  PROVE  /\ Converts(addr, data) \in RegWords
         /\ addr = "VIRTUAL_UART" => Converts(addr, data) \in 0 .. Bytes - 1
<1>2. PICK W \in Nat : W = Half * Half /\ 2 * 21845 < W /\ RegWords = 0 .. W - 1
  BY WordCount
<1>3. W > 1 /\ RegWords = 0 .. W - 1 /\ data < W /\ data \in Nat
  BY <1>2
<1>1. /\ Half \in Nat /\ 2 * 21845 < Half * Half /\ Bytes \in Nat /\ Bytes > 0
      /\ data \in Nat /\ data < Half * Half
  BY <1>2, <1>3, WordCount
<1>4. CASE addr = "IO_SIMU"
  <2>1. Half > 0
    <3>1. Half = 0 => Half * Half = 0
      OBVIOUS
    <3>2. QED
      BY <1>1, <3>1
  <2> DEFINE q == data \div Half
             r == data % Half
  <2>2. q \in Int /\ r \in 0 .. Half - 1 /\ data = Half * q + r
    BY <1>1, <2>1
  <2> HIDE DEF q, r
  <2>3. q >= 0
    <3>1. q <= 0 - 1 => Half * q <= 0 - Half
      BY <1>1, <2>1, <2>2
    <3>2. QED
      BY <1>1, <2>2, <3>1
  <2>4. q <= Half - 1
    <3>1. q >= Half => Half * q >= Half * Half
      BY <1>1, <2>1, <2>2
    <3>2. QED
      BY <1>1, <2>2, <3>1
  <2>5. r * Half <= Half * Half - Half /\ r * Half >= 0
    BY <1>1, <2>1, <2>2
  <2>6. r * Half + q \in 0 .. W - 1
    BY <1>1, <1>2, <2>2, <2>3, <2>4, <2>5
  <2>7. Converts(addr, data) = r * Half + q
    BY <1>4 DEF Converts, q, r
  <2>8. QED
    BY <1>3, <1>4, <2>6, <2>7
<1>5. CASE addr = "OPEN_TRACE"
  <2>1. Converts(addr, data) = IF data # 0 THEN 1 ELSE 0
    BY <1>5 DEF Converts
  <2>2. QED
    BY <1>3, <1>5, <2>1
<1>6. CASE addr = "NUM_MONITOR"
  <2>1. Converts(addr, data) = data % 2
    BY <1>6 DEF Converts
  <2>2. data % 2 \in 0 .. 1
    BY <1>1
  <2>3. QED
    BY <1>3, <1>6, <2>1, <2>2
<1>7. CASE addr = "VIRTUAL_UART"
  <2>1. Converts(addr, data) = data % Bytes
    BY <1>7 DEF Converts
  <2>2. data % Bytes \in 0 .. Bytes - 1 /\ data % Bytes <= data
    <3> DEFINE q == data \div Bytes
               r == data % Bytes
    <3>1. q \in Int /\ r \in 0 .. Bytes - 1 /\ data = Bytes * q + r
      BY <1>1
    <3> HIDE DEF q, r
    <3>2. q <= 0 - 1 => Bytes * q <= 0 - Bytes
      BY <1>1, <3>1
    <3>3. q >= 0
      BY <1>1, <3>1, <3>2
    <3>4. Bytes * q >= 0
      BY <1>1, <3>1, <3>3
    <3>5. r <= data
      BY <1>1, <3>1, <3>4
    <3>6. QED
      BY <3>1, <3>5 DEF r
  <2>3. QED
    BY <1>1, <1>3, <2>1, <2>2
<1>8. CASE addr \notin {"IO_SIMU", "OPEN_TRACE", "NUM_MONITOR", "VIRTUAL_UART"}
  BY <1>8 DEF Converts
<1>9. QED
  BY <1>4, <1>5, <1>6, <1>7, <1>8

(* set_switch(0) on a new confreg. *)
LEMMA NewConfregType == SwitchesOff(NewConfreg) \in ConfregType
<1>1. 0 \in RegWords /\ 1 \in RegWords /\ 15 \in RegWords /\ 2 * 21845 \in RegWords
  <2>1. PICK W \in Nat : 2 * 21845 < W /\ RegWords = 0 .. W - 1
    BY WordCount
  <2>2. QED
    BY <2>1
<1>2. ASSUME NEW c \in ConfregType
      PROVE  SwitchesOff(c) \in ConfregType
  <2>1. PICK v \in RegWords : v = 2 * 21845
    BY <1>1
  <2>2. SwitchesOff(c) = [c EXCEPT !.reg["SWITCH"] = 15, !.reg["SW_INTER"] = v]
    BY <2>1 DEF SwitchesOff
  <2>3. PICK Q : Q = Seq(0 .. Bytes - 1)
    OBVIOUS
  <2>4. PICK w \in RegWords : w = 15
    BY <1>1
  <2>5. c \in [reg : [Stored -> RegWords], uart_queue : Q]
    BY <2>3 DEF ConfregType
  <2>6. [c EXCEPT !.reg["SWITCH"] = w, !.reg["SW_INTER"] = v]
          \in [reg : [Stored -> RegWords], uart_queue : Q]
    BY <2>5
  <2>7. QED
    BY <2>2, <2>3, <2>4, <2>6 DEF ConfregType
<1>3. [reg |-> [a \in Stored |-> IF a \in {"OPEN_TRACE", "NUM_MONITOR"} THEN 1 ELSE 0],
       uart_queue |-> <<>>] \in ConfregType
  BY <1>1 DEF ConfregType
<1>4. QED
  BY <1>2, <1>3 DEF NewConfreg

(* A write does to two confregs that are alike the same, and the timer takes
   what is written to it. *)
LEMMA WriteFacts ==
  ASSUME NEW c \in ConfregType, NEW addr, NEW data \in RegWords
  PROVE  /\ ConfregWrite(c, addr, data) \in ConfregType
         /\ addr = "TIMER" => ConfregWrite(c, addr, data).reg["TIMER"] = data
         /\ addr # "TIMER" => ConfregWrite(c, addr, data).reg["TIMER"] = c.reg["TIMER"]
         /\ \A d \in ConfregType :
              Alike(c, d) =>
                Alike(ConfregWrite(c, addr, data), ConfregWrite(d, addr, data))
<1>1. PICK v \in RegWords :
        /\ v = Converts(addr, data)
        /\ addr = "VIRTUAL_UART" => v \in 0 .. Bytes - 1
        /\ addr = "TIMER" => v = data
  <2>1. addr = "TIMER" => Converts(addr, data) = data
    BY DEF Converts
  <2>2. QED
    BY <2>1, ConvertsType
<1>2. CASE addr \notin Plain \cup Converted
  <2>1. \A d : ConfregWrite(d, addr, data) = d
    BY <1>2 DEF ConfregWrite
  <2>2. addr # "TIMER"
    BY <1>2, RegisterNames
  <2>3. QED
    BY <2>1, <2>2
<1>3. CASE addr \in Plain \cup Converted
  <2>1. addr \in Stored
    BY <1>3, RegisterNames
  <2> DEFINE Queue(d) == IF addr = "VIRTUAL_UART" THEN Append(d.uart_queue, v)
                         ELSE d.uart_queue
  <2>2. ASSUME NEW d
        PROVE  /\ ConfregWrite(d, addr, data) =
                    [reg |-> [d.reg EXCEPT ![addr] = v], uart_queue |-> Queue(d)]
               /\ ConfregWrite(d, addr, data).reg = [d.reg EXCEPT ![addr] = v]
               /\ ConfregWrite(d, addr, data).uart_queue = Queue(d)
    <3>1. ConfregWrite(d, addr, data) =
            [reg |-> [d.reg EXCEPT ![addr] = v], uart_queue |-> Queue(d)]
      BY <1>1, <1>3 DEF ConfregWrite
    <3> HIDE DEF Queue
    <3>2. QED
      BY <3>1
  <2>3. ASSUME NEW d \in ConfregType
        PROVE  /\ d.reg \in [Stored -> RegWords]
               /\ d.uart_queue \in Seq(0 .. Bytes - 1)
               /\ [d.reg EXCEPT ![addr] = v] \in [Stored -> RegWords]
               /\ [d.reg EXCEPT ![addr] = v][addr] = v
               /\ \A a \in Stored : a # addr => [d.reg EXCEPT ![addr] = v][a] = d.reg[a]
    <3>1. d.reg \in [Stored -> RegWords] /\ d.uart_queue \in Seq(0 .. Bytes - 1)
      BY DEF ConfregType
    <3>2. QED
      BY <2>1, <3>1
  <2>4. ConfregWrite(c, addr, data) \in ConfregType
    <3>1. Queue(c) \in Seq(0 .. Bytes - 1)
      <4>1. PICK S : S = 0 .. Bytes - 1
        OBVIOUS
      <4>2. c.uart_queue \in Seq(S) /\ (addr = "VIRTUAL_UART" => v \in S)
        BY <1>1, <2>3, <4>1
      <4>3. Queue(c) \in Seq(S)
        BY <4>2
      <4>4. QED
        BY <4>1, <4>3
    <3> HIDE DEF Queue
    <3>2. [reg |-> [c.reg EXCEPT ![addr] = v], uart_queue |-> Queue(c)] \in ConfregType
      BY <2>3, <3>1 DEF ConfregType
    <3>3. QED
      BY <2>2, <3>2
  <2>5. /\ addr = "TIMER" => ConfregWrite(c, addr, data).reg["TIMER"] = data
        /\ addr # "TIMER" => ConfregWrite(c, addr, data).reg["TIMER"] = c.reg["TIMER"]
    <3> HIDE DEF Queue
    <3>1. ConfregWrite(c, addr, data).reg = [c.reg EXCEPT ![addr] = v]
      BY <2>2
    <3>2. QED
      BY <1>1, <2>3, <3>1, RegisterNames
  <2>6. ASSUME NEW d \in ConfregType, Alike(c, d)
        PROVE  Alike(ConfregWrite(c, addr, data), ConfregWrite(d, addr, data))
    <3>1. /\ ConfregWrite(c, addr, data).reg = [c.reg EXCEPT ![addr] = v]
          /\ ConfregWrite(d, addr, data).reg = [d.reg EXCEPT ![addr] = v]
      <4> HIDE DEF Queue
      <4>1. QED
        BY <2>2
    <3>2. ConfregWrite(c, addr, data).uart_queue = ConfregWrite(d, addr, data).uart_queue
      <4>1. Queue(c) = Queue(d)
        BY <2>6 DEF Alike
      <4> HIDE DEF Queue
      <4>2. QED
        BY <2>2, <4>1
    <3>3. \A a \in Stored \ {"TIMER"} :
            [c.reg EXCEPT ![addr] = v][a] = [d.reg EXCEPT ![addr] = v][a]
      BY <2>3, <2>6 DEF Alike
    <3>4. QED
      BY <3>1, <3>2, <3>3 DEF Alike
  <2>7. QED
    BY <2>4, <2>5, <2>6
<1>4. QED
  BY <1>2, <1>3

(* A read of anything but the timer does not tell two confregs apart that are
   alike. *)
LEMMA ReadFacts ==
  ASSUME NEW c \in ConfregType, NEW addr, NEW old
  PROVE  /\ ConfregRead(c, addr, old) \in RegWords
         /\ \A d : Alike(c, d) /\ addr # "TIMER" =>
                     ConfregRead(c, addr, old) = ConfregRead(d, addr, 0)
<1>1. c.reg \in [Stored -> RegWords] /\ 0 \in RegWords
  BY ConfregAssumption DEF ConfregType, RegWords
<1>2. QED
  BY <1>1 DEF ConfregRead, Alike

(* A tick moves the timer and nothing else. *)
LEMMA TickFacts ==
  ASSUME NEW c \in ConfregType
  PROVE  /\ ConfregTick(c) \in ConfregType
         /\ ConfregTick(c).reg["TIMER"] = (c.reg["TIMER"] + 1) % (Half * Half)
         /\ \A d : Alike(c, d) => Alike(ConfregTick(c), d)
<1>1. /\ c.reg \in [Stored -> RegWords] /\ c.uart_queue \in Seq(0 .. Bytes - 1)
      /\ c = [reg |-> c.reg, uart_queue |-> c.uart_queue]
  BY DEF ConfregType
<1>2. PICK v : v = (c.reg["TIMER"] + 1) % (Half * Half)
  OBVIOUS
<1>3. v \in RegWords
  <2>1. PICK W \in Nat : W = Half * Half /\ W > 0
    BY ConfregAssumption
  <2>2. c.reg["TIMER"] \in Int
    BY <1>1, RegisterNames DEF RegWords
  <2>3. v \in 0 .. W - 1
    BY <1>2, <2>1, <2>2
  <2>4. QED
    BY <2>1, <2>3 DEF RegWords
<1>4. ConfregTick(c) = [reg |-> [c.reg EXCEPT !["TIMER"] = v], uart_queue |-> c.uart_queue]
  BY <1>1, <1>2 DEF ConfregTick
<1>5. /\ [c.reg EXCEPT !["TIMER"] = v] \in [Stored -> RegWords]
      /\ [c.reg EXCEPT !["TIMER"] = v]["TIMER"] = v
      /\ \A a \in Stored \ {"TIMER"} : [c.reg EXCEPT !["TIMER"] = v][a] = c.reg[a]
  BY <1>1, <1>3, RegisterNames
<1>6. QED
  BY <1>1, <1>2, <1>4, <1>5 DEF ConfregType, Alike

-----------------------------------------------------------------------------

(* The data of an access is a word; an access is at most a word long, so that
   the range test lets every access to the timer through. *)
LEMMA AccessType ==
  ASSUME NEW p \in Programs
  PROVE  /\ Len(p) \in Nat
         /\ \A i \in 1 .. Len(p) :
              /\ p[i].load \in BOOLEAN /\ p[i].data \in RegWords
              /\ SetsTimer(p[i]) => Routed(p[i])
<1> DEFINE R == [load : BOOLEAN, addr : Addresses, size : {1, 2, 4}, data : RegWords]
<1>1. p \in Seq(R)
  BY ProgramsAssumption
<1>2. Len(p) \in Nat /\ \A i \in 1 .. Len(p) : p[i] \in R
  <2> HIDE DEF R
  <2>1. QED
    BY <1>1
<1>3. ASSUME NEW i \in 1 .. Len(p), p[i].addr = "TIMER"
      PROVE  Routed(p[i])
  <2>1. BytesLeft("TIMER") = 8
    BY DEF BytesLeft
  <2>2. p[i].size \in {1, 2, 4}
    BY <1>2
  <2>3. QED
    BY <1>3, <2>1, <2>2 DEF Routed
<1>4. QED
  BY <1>2, <1>3 DEF SetsTimer

(* The ideal confreg access by access; what data was loaded does not matter. *)
LEMMA IdealFacts ==
  ASSUME NEW p
  PROVE  /\ Ideal(p, 0) = SwitchesOff(NewConfreg)
         /\ \A n \in Nat :
              Ideal(p, n + 1) =
                IF ~ p[n + 1].load /\ Routed(p[n + 1])
                THEN ConfregWrite(Ideal(p, n), p[n + 1].addr, p[n + 1].data)
                ELSE Ideal(p, n)
<1>0. PICK t : t = TRUE
  OBVIOUS
<1> DEFINE S(n) == AccessesOn(p, SwitchesOff(NewConfreg), <<>>, 0, n, t)
<1>1. S(0) = [c |-> SwitchesOff(NewConfreg), data |-> <<>>]
  BY AccessesUnrolled
<1>2. ASSUME NEW n \in Nat
      PROVE  S(n + 1) = Access(S(n).c, p[n + 1], S(n).data, t)
  BY AccessesNext
<1>3. \A n : Ideal(p, n) = S(n).c
  BY <1>0 DEF Ideal
<1> HIDE DEF S
<1>4. ASSUME NEW n \in Nat
      PROVE  S(n + 1).c = IF ~ p[n + 1].load /\ Routed(p[n + 1])
                          THEN ConfregWrite(S(n).c, p[n + 1].addr, p[n + 1].data)
                          ELSE S(n).c
  <2>1. PICK v : v = S(n)
    OBVIOUS
  <2>2. S(n + 1) = Access(v.c, p[n + 1], v.data, t)
    BY <1>2, <2>1
  <2>3. QED
    BY <2>1, <2>2 DEF Access
<1>5. Ideal(p, 0) = SwitchesOff(NewConfreg)
  BY <1>1, <1>3
<1>6. ASSUME NEW n \in Nat
      PROVE  Ideal(p, n + 1) = IF ~ p[n + 1].load /\ Routed(p[n + 1])
                               THEN ConfregWrite(Ideal(p, n), p[n + 1].addr, p[n + 1].data)
                               ELSE Ideal(p, n)
  <2>1. Ideal(p, n + 1) = S(n + 1).c /\ Ideal(p, n) = S(n).c
    BY <1>3
  <2>2. QED
    BY <1>4, <2>1
<1>7. QED
  BY <1>5, <1>6

(* One access keeps a side on the ideal course.  The timer is left alone by
   everything but a store to it, which puts it on the course too. *)
LEMMA AccessFollows ==
  ASSUME NEW p \in Programs, NEW n \in Nat, n < Len(p),
         NEW c, NEW data, SideFollows(p, c, data, n), NEW cleared,
         NEW r, r = Access(c, p[n + 1], data, cleared)
  PROVE  /\ SideFollows(p, r.c, r.data, n + 1)
         /\ SetsTimer(p[n + 1]) => r.c.reg["TIMER"] = Ideal(p, n + 1).reg["TIMER"]
         /\ ~ SetsTimer(p[n + 1]) =>
              /\ r.c.reg["TIMER"] = c.reg["TIMER"]
              /\ Ideal(p, n + 1).reg["TIMER"] = Ideal(p, n).reg["TIMER"]
<1> DEFINE a == p[n + 1]
<1>1. /\ c \in ConfregType /\ Ideal(p, n) \in ConfregType /\ Alike(c, Ideal(p, n))
      /\ data \in Seq(RegWords) /\ Len(data) = n
      /\ \A i \in 1 .. n :
           p[i].load /\ Routed(p[i]) /\ p[i].addr # "TIMER" =>
             data[i] = ConfregRead(Ideal(p, i - 1), p[i].addr, 0)
  BY DEF SideFollows
<1>2. LastOf(data) \in RegWords
  <2>1. 0 \in RegWords
    BY WordCount
  <2>2. data # <<>> => data[Len(data)] \in RegWords
    BY <1>1
  <2>3. QED
    BY <2>1, <2>2 DEF LastOf
<1>3. Ideal(p, n + 1) =
        IF ~ a.load /\ Routed(a) THEN ConfregWrite(Ideal(p, n), a.addr, a.data)
        ELSE Ideal(p, n)
  BY IdealFacts
<1>4. /\ n + 1 \in 1 .. Len(p) /\ a.load \in BOOLEAN /\ a.data \in RegWords
      /\ SetsTimer(a) => Routed(a)
  <2>1. n + 1 \in 1 .. Len(p)
    BY AccessType
  <2>2. QED
    BY <2>1, AccessType
<1>5. ASSUME NEW v \in RegWords, r.data = Append(data, v),
             a.load /\ Routed(a) /\ a.addr # "TIMER" =>
               v = ConfregRead(Ideal(p, n), a.addr, 0)
      PROVE  /\ r.data \in Seq(RegWords) /\ Len(r.data) = n + 1
             /\ \A i \in 1 .. n + 1 :
                  p[i].load /\ Routed(p[i]) /\ p[i].addr # "TIMER" =>
                    r.data[i] = ConfregRead(Ideal(p, i - 1), p[i].addr, 0)
  <2>1. /\ r.data \in Seq(RegWords) /\ Len(r.data) = n + 1 /\ r.data[n + 1] = v
        /\ \A i \in 1 .. n : r.data[i] = data[i]
    BY <1>1, <1>5
  <2>2. ASSUME NEW i \in 1 .. n + 1, p[i].load, Routed(p[i]), p[i].addr # "TIMER"
        PROVE  r.data[i] = ConfregRead(Ideal(p, i - 1), p[i].addr, 0)
    <3>1. CASE i = n + 1
      <4>1. i - 1 = n
        BY <3>1
      <4>2. v = ConfregRead(Ideal(p, n), p[i].addr, 0)
        BY <1>5, <2>2, <3>1
      <4>3. QED
        BY <2>1, <3>1, <4>1, <4>2
    <3>2. CASE i # n + 1
      <4>1. i \in 1 .. n
        BY <3>2
      <4>2. QED
        BY <1>1, <2>1, <2>2, <4>1
    <3>3. QED
      BY <3>1, <3>2
  <2>3. QED
    BY <2>1, <2>2
<1>6. CASE a.load
  <2>1. PICK v \in RegWords :
          /\ v = IF Routed(a) THEN ConfregRead(c, a.addr, Held(data, cleared))
                 ELSE Held(data, cleared)
          /\ Routed(a) /\ a.addr # "TIMER" => v = ConfregRead(Ideal(p, n), a.addr, 0)
    <3>1. Held(data, cleared) \in RegWords
      BY <1>2, WordCount DEF Held
    <3>2. QED
      BY <1>1, <3>1, ReadFacts
  <2>2. r.c = c /\ r.data = Append(data, v)
    BY <1>6, <2>1 DEF Access
  <2>3. Ideal(p, n + 1) = Ideal(p, n) /\ ~ SetsTimer(a)
    BY <1>3, <1>6 DEF SetsTimer
  <2>4. SideFollows(p, r.c, r.data, n + 1)
    <3> HIDE DEF a
    <3>1. /\ r.data \in Seq(RegWords) /\ Len(r.data) = n + 1
          /\ \A i \in 1 .. n + 1 :
               p[i].load /\ Routed(p[i]) /\ p[i].addr # "TIMER" =>
                 r.data[i] = ConfregRead(Ideal(p, i - 1), p[i].addr, 0)
      BY <1>5, <2>1, <2>2
    <3>2. QED
      BY <1>1, <2>2, <2>3, <3>1 DEF SideFollows
  <2>5. QED
    BY <2>2, <2>3, <2>4
<1>7. CASE ~ a.load /\ Routed(a)
  <2> DEFINE w == ConfregWrite(c, a.addr, a.data)
             d == ConfregWrite(Ideal(p, n), a.addr, a.data)
  <2>1. r.c = w /\ r.data = Append(data, LastOf(data))
    BY <1>7 DEF Access
  <2>2. Ideal(p, n + 1) = d /\ (SetsTimer(a) <=> a.addr = "TIMER")
    BY <1>3, <1>7 DEF SetsTimer
  <2>3. w \in ConfregType /\ d \in ConfregType /\ Alike(w, d)
    BY <1>1, <1>4, WriteFacts
  <2>4. /\ a.addr = "TIMER" => w.reg["TIMER"] = d.reg["TIMER"]
        /\ a.addr # "TIMER" => /\ w.reg["TIMER"] = c.reg["TIMER"]
                               /\ d.reg["TIMER"] = Ideal(p, n).reg["TIMER"]
    BY <1>1, <1>4, WriteFacts
  <2> HIDE DEF w, d
  <2>5. SideFollows(p, r.c, r.data, n + 1)
    <3> HIDE DEF a
    <3>1. /\ r.data \in Seq(RegWords) /\ Len(r.data) = n + 1
          /\ \A i \in 1 .. n + 1 :
               p[i].load /\ Routed(p[i]) /\ p[i].addr # "TIMER" =>
                 r.data[i] = ConfregRead(Ideal(p, i - 1), p[i].addr, 0)
      BY <1>2, <1>5, <1>7, <2>1
    <3>2. QED
      BY <1>1, <2>1, <2>2, <2>3, <3>1 DEF SideFollows
  <2>6. QED
    BY <2>1, <2>2, <2>4, <2>5
<1>8. CASE ~ a.load /\ ~ Routed(a)
  <2>1. r.c = c /\ r.data = Append(data, LastOf(data))
    BY <1>8 DEF Access
  <2>2. Ideal(p, n + 1) = Ideal(p, n) /\ ~ SetsTimer(a)
    BY <1>3, <1>4, <1>8
  <2>3. SideFollows(p, r.c, r.data, n + 1)
    <3> HIDE DEF a
    <3>1. /\ r.data \in Seq(RegWords) /\ Len(r.data) = n + 1
          /\ \A i \in 1 .. n + 1 :
               p[i].load /\ Routed(p[i]) /\ p[i].addr # "TIMER" =>
                 r.data[i] = ConfregRead(Ideal(p, i - 1), p[i].addr, 0)
      BY <1>2, <1>5, <1>8, <2>1
    <3>2. QED
      BY <1>1, <2>1, <2>2, <3>1 DEF SideFollows
  <2>4. QED
    BY <2>1, <2>2, <2>3
<1>9. QED
  BY <1>4, <1>6, <1>7, <1>8

(* What a run of accesses from m + 1 to n has done to a side. *)
RunFollows(p, r, c, m, n) ==
  /\ SideFollows(p, r.c, r.data, n)
  /\ (\E i \in m + 1 .. n : SetsTimer(p[i])) =>
        r.c.reg["TIMER"] = Ideal(p, n).reg["TIMER"]
  /\ (\A i \in m + 1 .. n : ~ SetsTimer(p[i])) =>
        /\ r.c.reg["TIMER"] = c.reg["TIMER"]
        /\ Ideal(p, n).reg["TIMER"] = Ideal(p, m).reg["TIMER"]

(* One access more. *)
LEMMA RunStep ==
  ASSUME NEW p \in Programs, NEW m \in Nat, NEW n \in Nat, m <= n, n < Len(p),
         NEW c, NEW r, RunFollows(p, r, c, m, n), NEW cleared,
         NEW q, q = Access(r.c, p[n + 1], r.data, cleared)
  PROVE  RunFollows(p, q, c, m, n + 1)
<1>1. SideFollows(p, r.c, r.data, n)
  BY DEF RunFollows
<1>2. SideFollows(p, q.c, q.data, n + 1)
  BY <1>1, AccessFollows
<1>3. /\ SetsTimer(p[n + 1]) => q.c.reg["TIMER"] = Ideal(p, n + 1).reg["TIMER"]
      /\ ~ SetsTimer(p[n + 1]) =>
           /\ q.c.reg["TIMER"] = r.c.reg["TIMER"]
           /\ Ideal(p, n + 1).reg["TIMER"] = Ideal(p, n).reg["TIMER"]
  BY <1>1, AccessFollows
<1>4. /\ n + 1 \in m + 1 .. n + 1
      /\ \A i \in m + 1 .. n : i \in m + 1 .. n + 1
      /\ \A i \in m + 1 .. n + 1 : i = n + 1 \/ i \in m + 1 .. n
  OBVIOUS
<1>5. CASE SetsTimer(p[n + 1])
  BY <1>2, <1>3, <1>4, <1>5 DEF RunFollows
<1>6. CASE ~ SetsTimer(p[n + 1])
  <2>1. (\E i \in m + 1 .. n + 1 : SetsTimer(p[i])) =>
          q.c.reg["TIMER"] = Ideal(p, n + 1).reg["TIMER"]
    BY <1>3, <1>4, <1>6 DEF RunFollows
  <2>2. (\A i \in m + 1 .. n + 1 : ~ SetsTimer(p[i])) =>
          /\ q.c.reg["TIMER"] = c.reg["TIMER"]
          /\ Ideal(p, n + 1).reg["TIMER"] = Ideal(p, m).reg["TIMER"]
    BY <1>3, <1>4, <1>6 DEF RunFollows
  <2>3. QED
    BY <1>2, <2>1, <2>2 DEF RunFollows
<1>7. QED
  BY <1>5, <1>6

(* Any number of accesses, by induction on it. *)
LEMMA AccessesFollow ==
  ASSUME NEW p \in Programs, NEW m \in Nat, NEW n \in Nat, m <= n, n <= Len(p),
         NEW c, NEW data, SideFollows(p, c, data, m), NEW cleared,
         NEW r, r = AccessesOn(p, c, data, m, n, cleared)
  PROVE  RunFollows(p, r, c, m, n)
<1> DEFINE R(k) == AccessesOn(p, c, data, m, k, cleared)
           Bad == { k \in m .. n : ~ RunFollows(p, R(k), c, m, k) }
<1>1. RunFollows(p, R(m), c, m, m)
  <2>1. R(m) = [c |-> c, data |-> data]
    BY AccessesUnrolled
  <2> HIDE DEF R
  <2>2. R(m).c = c /\ R(m).data = data /\ m + 1 .. m = {}
    BY <2>1
  <2>3. QED
    BY <2>2 DEF RunFollows
<1>2. ASSUME NEW k \in Nat, k >= m
      PROVE  R(k + 1) = Access(R(k).c, p[k + 1], R(k).data, cleared)
  BY <1>2, AccessesNext
<1>3. r = R(n)
  OBVIOUS
<1> HIDE DEF R
<1> SUFFICES ASSUME Bad # {}
             PROVE  FALSE
  BY <1>3
<1>4. PICK k \in Bad : \A j \in Bad : k <= j
  <2>1. Bad \subseteq Nat
    OBVIOUS
  <2> HIDE DEF Bad
  <2>2. QED
    BY <2>1, LeastNat
<1>5. k \in m .. n /\ ~ RunFollows(p, R(k), c, m, k)
  BY <1>4
<1>6. PICK j \in Nat : k = j + 1 /\ j >= m /\ j < n
  <2>1. k # m
    BY <1>1, <1>5
  <2>2. k - 1 \in Nat /\ k = (k - 1) + 1 /\ k - 1 >= m /\ k - 1 < n
    BY <1>5, <2>1
  <2>3. QED
    BY <2>2
<1>7. RunFollows(p, R(j), c, m, j)
  <2>1. j \in m .. n /\ ~ (k <= j)
    BY <1>6
  <2>2. QED
    BY <1>4, <2>1
<1>8. RunFollows(p, R(j + 1), c, m, j + 1)
  <2>1. m <= j /\ j < Len(p)
    BY <1>6, AccessType
  <2>2. R(j + 1) = Access(R(j).c, p[j + 1], R(j).data, cleared)
    BY <1>2, <1>6
  <2>3. QED
    BY <1>7, <2>1, <2>2, RunStep
<1>9. QED
  BY <1>5, <1>6, <1>8

-----------------------------------------------------------------------------

(* Both sides are on the same course, the reference never ahead of what has
   retired nor a retired load ahead of the DUT; the reference's timer stands
   still, the DUT's is ahead of it by its age. *)
CoSimInv ==
  /\ program \in Programs
  /\ pc \in {"calculate", "eval", "exec"}
  /\ performed \in 0 .. Len(program) /\ retired \in 0 .. Len(program)
  /\ executed \in 0 .. retired
  /\ pc # "exec" => executed = retired
  /\ \A i \in 1 .. retired : program[i].load => i <= performed
  /\ SideFollows(program, dut, dut_data, performed)
  /\ SideFollows(program, ref, ref_data, executed)
  /\ timer_age \in Nat
  /\ ref.reg["TIMER"] = Ideal(program, executed).reg["TIMER"]
  /\ dut.reg["TIMER"] = (Ideal(program, performed).reg["TIMER"] + timer_age) % (Half * Half)

(* A timer holds a word, which the length of a word leaves as it is. *)
LEMMA TimerFacts ==
  ASSUME NEW c \in ConfregType
  PROVE  /\ c.reg["TIMER"] \in Nat
         /\ Half * Half \in Nat /\ Half * Half > 0
         /\ c.reg["TIMER"] % (Half * Half) = c.reg["TIMER"]
<1>1. PICK W \in Nat : W = Half * Half /\ 2 * 21845 < W /\ RegWords = 0 .. W - 1
  BY WordCount
<1>2. c.reg["TIMER"] \in RegWords
  <2>1. c.reg \in [Stored -> RegWords]
    BY DEF ConfregType
  <2>2. QED
    BY <2>1, RegisterNames
<1>3. PICK t \in 0 .. W - 1 : t = c.reg["TIMER"]
  BY <1>1, <1>2
<1>4. t \in Nat /\ W > 0 /\ t % W = t
  BY <1>1
<1>5. QED
  BY <1>1, <1>3, <1>4

(* Both sides start at the beginning of the course. *)
LEMMA InitCoSimInv == CoSimInit => CoSimInv
<1> SUFFICES ASSUME CoSimInit
             PROVE  CoSimInv
  OBVIOUS
<1>1. /\ program \in Programs /\ pc = "calculate"
      /\ dut = SwitchesOff(NewConfreg) /\ ref = dut
      /\ performed = 0 /\ retired = 0 /\ executed = 0
      /\ dut_data = <<>> /\ ref_data = <<>> /\ timer_age = 0
  BY DEF CoSimInit, DeepCopy
<1>2. Len(program) \in Nat
  BY <1>1, AccessType
<1>3. dut \in ConfregType /\ Ideal(program, 0) = dut
  BY <1>1, NewConfregType, IdealFacts
<1>4. SideFollows(program, dut, <<>>, 0)
  BY <1>3 DEF SideFollows, Alike
<1>5. dut.reg["TIMER"] = (Ideal(program, 0).reg["TIMER"] + 0) % (Half * Half)
  <2>1. dut.reg["TIMER"] + 0 = dut.reg["TIMER"]
    BY <1>3, TimerFacts
  <2>2. QED
    BY <1>3, <2>1, TimerFacts
<1>6. QED
  BY <1>1, <1>2, <1>3, <1>4, <1>5 DEF CoSimInv

(* A posedge's accesses of the DUT: on its confreg, in program order. *)
LEMMA CalculateKeeps ==
  ASSUME CoSimInv, Calculate
  PROVE  CoSimInv'
<1>1. /\ program \in Programs /\ pc = "calculate"
      /\ performed \in 0 .. Len(program) /\ retired \in 0 .. Len(program)
      /\ executed \in 0 .. retired /\ executed = retired
      /\ \A i \in 1 .. retired : program[i].load => i <= performed
      /\ SideFollows(program, dut, dut_data, performed)
      /\ SideFollows(program, ref, ref_data, executed)
      /\ timer_age \in Nat
      /\ ref.reg["TIMER"] = Ideal(program, executed).reg["TIMER"]
      /\ dut.reg["TIMER"] = (Ideal(program, performed).reg["TIMER"] + timer_age) % (Half * Half)
  BY DEF CoSimInv, Calculate
<1>2. UNCHANGED <<program, ref, ref_data, retired, executed>>
  BY DEF Calculate
<1>3. CASE UNCHANGED <<pc, dut, dut_data, performed, timer_age>>
  BY <1>1, <1>2, <1>3 DEF CoSimInv
<1>4. ASSUME NEW n \in Batches, NEW after,
             after = AccessesOn(program, dut, dut_data, performed, performed + n, TRUE),
             pc' = "eval", dut' = after.c, dut_data' = after.data,
             performed' = performed + n,
             timer_age' = IF \E a \in { program[i] : i \in performed + 1 .. performed + n } :
                               SetsTimer(a)
                          THEN 0 ELSE timer_age
      PROVE  CoSimInv'
  <2>1. /\ Len(program) \in Nat /\ performed \in Nat
        /\ n \in 0 .. 2 /\ performed + n <= Len(program)
    BY <1>1, AccessType DEF Batches
  <2>2. PICK last \in Nat : last = performed + n /\ performed <= last /\ last <= Len(program)
    BY <2>1
  <2>3. RunFollows(program, after, dut, performed, last)
    <3>1. PICK t : t = TRUE
      OBVIOUS
    <3>2. after = AccessesOn(program, dut, dut_data, performed, last, t)
      BY <1>4, <2>2, <3>1
    <3>3. QED
      BY <1>1, <2>1, <2>2, <3>2, AccessesFollow
  <2>4. SideFollows(program, dut', dut_data', last)
    BY <1>4, <2>3 DEF RunFollows
  <2>5. Ideal(program, last) \in ConfregType /\ Ideal(program, performed) \in ConfregType
    BY <1>1, <2>4 DEF SideFollows
  <2>6. /\ timer_age' \in Nat
        /\ dut'.reg["TIMER"] = (Ideal(program, last).reg["TIMER"] + timer_age') % (Half * Half)
    <3>1. CASE \E i \in performed + 1 .. last : SetsTimer(program[i])
      <4>1. timer_age' = 0
        BY <1>4, <2>2, <3>1
      <4>2. dut'.reg["TIMER"] = Ideal(program, last).reg["TIMER"]
        BY <1>4, <2>3, <3>1 DEF RunFollows
      <4>3. Ideal(program, last).reg["TIMER"] + 0 = Ideal(program, last).reg["TIMER"]
        BY <2>5, TimerFacts
      <4>4. QED
        BY <2>5, <4>1, <4>2, <4>3, TimerFacts
    <3>2. CASE \A i \in performed + 1 .. last : ~ SetsTimer(program[i])
      <4>1. timer_age' = timer_age
        BY <1>4, <2>2, <3>2
      <4>2. /\ dut'.reg["TIMER"] = dut.reg["TIMER"]
            /\ Ideal(program, last).reg["TIMER"] = Ideal(program, performed).reg["TIMER"]
        BY <1>4, <2>3, <3>2 DEF RunFollows
      <4>3. QED
        BY <1>1, <4>1, <4>2
    <3>3. QED
      BY <3>1, <3>2
  <2>7. \A i \in 1 .. retired : program[i].load => i <= last
    BY <1>1, <2>2
  <2>8. performed' = last /\ last \in 0 .. Len(program)
    BY <1>4, <2>1, <2>2
  <2>9. QED
    BY <1>1, <1>2, <1>4, <2>4, <2>6, <2>7, <2>8 DEF CoSimInv
<1>5. QED
  BY <1>3, <1>4 DEF Calculate

(* The clock of the DUT: its timer ticks, instructions retire. *)
LEMMA EvalKeeps ==
  ASSUME CoSimInv, Eval
  PROVE  CoSimInv'
<1>1. /\ program \in Programs
      /\ performed \in 0 .. Len(program) /\ retired \in 0 .. Len(program)
      /\ executed = retired
      /\ \A i \in 1 .. retired : program[i].load => i <= performed
      /\ SideFollows(program, dut, dut_data, performed)
      /\ SideFollows(program, ref, ref_data, executed)
      /\ timer_age \in Nat
      /\ ref.reg["TIMER"] = Ideal(program, executed).reg["TIMER"]
      /\ dut.reg["TIMER"] = (Ideal(program, performed).reg["TIMER"] + timer_age) % (Half * Half)
  BY DEF CoSimInv, Eval
<1>2. /\ pc' = "exec" /\ dut' = ConfregTick(dut) /\ timer_age' = timer_age + 1
      /\ UNCHANGED <<program, ref, performed, executed, dut_data, ref_data>>
  BY DEF Eval
<1>3. PICK n \in Retirable : retired' = retired + n
  BY DEF Eval
<1>4. /\ n \in Nat /\ retired + n <= Len(program)
      /\ \A i \in retired + 1 .. retired + n : program[i].load => i <= performed
  <2>1. MaxRetire \in Nat
    BY CountsAssumption
  <2>2. QED
    BY <2>1 DEF Retirable
<1>5. Len(program) \in Nat
  BY <1>1, AccessType
<1>6. /\ retired' \in 0 .. Len(program) /\ executed \in 0 .. retired'
  BY <1>1, <1>3, <1>4, <1>5
<1>7. \A i \in 1 .. retired' : program[i].load => i <= performed
  <2>1. \A i \in 1 .. retired' : i \in 1 .. retired \/ i \in retired + 1 .. retired + n
    BY <1>1, <1>3, <1>4, <1>5
  <2>2. QED
    BY <1>1, <1>4, <2>1
<1>8. dut \in ConfregType /\ Ideal(program, performed) \in ConfregType
  BY <1>1 DEF SideFollows
<1>9. SideFollows(program, dut', dut_data, performed)
  BY <1>1, <1>2, <1>8, TickFacts DEF SideFollows
<1>10. dut'.reg["TIMER"] = (Ideal(program, performed).reg["TIMER"] + timer_age') % (Half * Half)
  <2>1. PICK x \in Nat : x = Ideal(program, performed).reg["TIMER"]
    BY <1>8, TimerFacts
  <2>2. PICK W \in Nat : W = Half * Half /\ W > 0
    BY WordCount
  <2>3. dut'.reg["TIMER"] = (dut.reg["TIMER"] + 1) % W
    BY <1>2, <1>8, <2>2, TickFacts
  <2>4. dut.reg["TIMER"] = (x + timer_age) % W
    BY <1>1, <2>1, <2>2
  <2>5. x + timer_age \in Int
    BY <1>1
  <2>6. (((x + timer_age) % W) + 1) % W = ((x + timer_age) + 1) % W
    BY <2>2, <2>5, ModAdd
  <2>7. (x + timer_age) + 1 = x + timer_age'
    BY <1>1, <1>2
  <2>8. QED
    BY <2>1, <2>2, <2>3, <2>4, <2>6, <2>7
<1>11. timer_age' \in Nat
  BY <1>1, <1>2
<1>12. QED
  BY <1>1, <1>2, <1>6, <1>7, <1>9, <1>10, <1>11 DEF CoSimInv

(* The reference executes all that has retired and not yet been executed. *)
LEMMA ExecReferenceKeeps ==
  ASSUME CoSimInv, ExecReference
  PROVE  CoSimInv'
<1>1. /\ program \in Programs /\ pc = "exec"
      /\ performed \in 0 .. Len(program) /\ retired \in 0 .. Len(program)
      /\ executed \in 0 .. retired
      /\ \A i \in 1 .. retired : program[i].load => i <= performed
      /\ SideFollows(program, dut, dut_data, performed)
      /\ SideFollows(program, ref, ref_data, executed)
      /\ timer_age \in Nat
      /\ ref.reg["TIMER"] = Ideal(program, executed).reg["TIMER"]
      /\ dut.reg["TIMER"] = (Ideal(program, performed).reg["TIMER"] + timer_age) % (Half * Half)
  BY DEF CoSimInv, ExecReference, ExecFrom
<1>2. UNCHANGED <<program, dut, performed, retired, dut_data, timer_age>>
  BY DEF ExecReference, ExecFrom
<1>3. CASE UNCHANGED <<pc, ref, ref_data, executed>>
  BY <1>1, <1>2, <1>3 DEF CoSimInv
<1>4. ASSUME NEW after,
             after = AccessesOn(program, ref, ref_data, executed, retired, FALSE),
             pc' = "calculate", ref' = after.c, ref_data' = after.data, executed' = retired
      PROVE  CoSimInv'
  <2>1. /\ Len(program) \in Nat /\ executed \in Nat /\ retired \in Nat
        /\ executed <= retired /\ retired <= Len(program)
    BY <1>1, AccessType
  <2>2. RunFollows(program, after, ref, executed, retired)
    <3>1. PICK t : t = FALSE
      OBVIOUS
    <3>2. after = AccessesOn(program, ref, ref_data, executed, retired, t)
      BY <1>4, <3>1
    <3>3. QED
      BY <1>1, <2>1, <3>2, AccessesFollow
  <2>3. SideFollows(program, ref', ref_data', retired)
    BY <1>4, <2>2 DEF RunFollows
  <2>4. ref'.reg["TIMER"] = Ideal(program, retired).reg["TIMER"]
    <3>1. CASE \E i \in executed + 1 .. retired : SetsTimer(program[i])
      BY <1>4, <2>2, <3>1 DEF RunFollows
    <3>2. CASE \A i \in executed + 1 .. retired : ~ SetsTimer(program[i])
      BY <1>1, <1>4, <2>2, <3>2 DEF RunFollows
    <3>3. QED
      BY <3>1, <3>2
  <2>5. retired \in 0 .. retired
    BY <2>1
  <2>6. QED
    BY <1>1, <1>2, <1>4, <2>3, <2>4, <2>5 DEF CoSimInv
<1>5. QED
  BY <1>3, <1>4 DEF ExecReference, ExecFrom

(* Both confregs are on the course of the program, in every run. *)
THEOREM CoSimInvariant == CoSimSpec => []CoSimInv
<1>1. CoSimInv /\ [CoSimNext]_coSimVars => CoSimInv'
  <2> SUFFICES ASSUME CoSimInv, [CoSimNext]_coSimVars
               PROVE  CoSimInv'
    OBVIOUS
  <2>1. CASE UNCHANGED coSimVars
    BY <2>1 DEF coSimVars, CoSimInv
  <2>2. QED
    BY <2>1, CalculateKeeps, EvalKeeps, ExecReferenceKeeps DEF CoSimNext
<1>2. QED
  BY <1>1, InitCoSimInv, PTL DEF CoSimSpec

(* A load the reference has executed returned what the DUT's did, TIMER and the
   loads that PaddrTop refuses apart. *)
THEOREM ConfregLoadsAgree == CoSimSpec => []LoadsAgree
<1>1. CoSimInv => LoadsAgree
  <2> SUFFICES ASSUME CoSimInv, NEW i \in 1 .. executed,
                      program[i].load, Routed(program[i]), program[i].addr # "TIMER"
               PROVE  ref_data[i] = dut_data[i]
    BY DEF LoadsAgree
  <2>1. i \in 1 .. retired /\ i <= performed /\ i \in 1 .. performed
    <3>1. /\ executed \in 0 .. retired /\ retired \in 0 .. Len(program)
          /\ performed \in 0 .. Len(program) /\ Len(program) \in Nat
          /\ \A j \in 1 .. retired : program[j].load => j <= performed
      BY AccessType DEF CoSimInv
    <3>2. i \in 1 .. retired
      BY <3>1
    <3>3. i <= performed
      BY <3>1, <3>2
    <3>4. QED
      BY <3>1, <3>2, <3>3
  <2>2. /\ SideFollows(program, dut, dut_data, performed)
        /\ SideFollows(program, ref, ref_data, executed)
    BY DEF CoSimInv
  <2>3. ref_data[i] = ConfregRead(Ideal(program, i - 1), program[i].addr, 0)
    BY <2>2 DEF SideFollows
  <2>4. dut_data[i] = ConfregRead(Ideal(program, i - 1), program[i].addr, 0)
    BY <2>1, <2>2 DEF SideFollows
  <2>5. QED
    BY <2>3, <2>4
<1>2. QED
  BY <1>1, CoSimInvariant, PTL

(* When neither side is ahead, the copies are the same but for the timer. *)
THEOREM ConfregsConverge == CoSimSpec => []CopiesConverge
<1>1. CoSimInv => CopiesConverge
  <2> SUFFICES ASSUME CoSimInv, pc = "calculate", performed = retired
               PROVE  /\ dut.uart_queue = ref.uart_queue
                      /\ \A a \in Stored \ {"TIMER"} : dut.reg[a] = ref.reg[a]
    BY DEF CopiesConverge
  <2>1. /\ executed = performed
        /\ SideFollows(program, dut, dut_data, performed)
        /\ SideFollows(program, ref, ref_data, executed)
    BY DEF CoSimInv
  <2>2. Alike(dut, Ideal(program, performed)) /\ Alike(ref, Ideal(program, performed))
    BY <2>1 DEF SideFollows
  <2>3. QED
    BY <2>2 DEF Alike
<1>2. QED
  BY <1>1, CoSimInvariant, PTL

(* And the timers differ by the posedges since the DUT last set its own. *)
THEOREM TimersSkewed == CoSimSpec => []TimerSkew
<1>1. CoSimInv => TimerSkew
  BY DEF CoSimInv, TimerSkew
<1>2. QED
  BY <1>1, CoSimInvariant, PTL
=============================================================================
