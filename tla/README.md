# A verification development for MyDIFF

MyDIFF runs a simulated MIPS processor (the *DUT*, a Verilator model
`Vmycpu_top`) beside a reference (NEMU, loaded as a shared object) and compares
their registers after every clock edge in which the DUT retires instructions.
The DUT reaches its memories through an AXI bus whose slave, `axi_paddr`, is
written in C++.  This directory models that program in TLA+, checks the models
with TLC and proves theorems about them with TLAPS.

## 1. Inventory

| part | source | state | operations |
|---|---|---|---|
| AXI slave, read side | `csrc/axi.cpp`, `include/axi.hpp` | `r_status`, the latched request, `r_burst_count` (8 bits), `r_left_time`, `r_cur_addr`, outputs `s_ar*`, `s_r*` | `read_eval`, `accept_read_req`, `check_axi_req`, `do_once_read`, `idel_wait_read`, `update_output`, `reset` |
| AXI slave, write side | same | `w_status`, the latched request, the arrays `w_cur_addr/info/data[16]` and `w_cur_NO`, `w_left_time`, outputs | `write_eval`, `accept_write_req`, `accept_write_data`, `do_all_write`, `idel_wait_write` |
| address map | `csrc/device/PaddrTop.cpp` | vector of (interval, device) | `add_dev`, `do_read`, `do_write`, deep copy |
| memory | `csrc/device/Pmem.cpp` | bytes | `do_read`, `do_write`, `load_binary`, copy |
| configuration registers | `csrc/device/PaddrConfreg.cpp` | 8 scratch registers, timer, uart queue, switches, ... | `do_read`, `do_write`, `tick`, `set_switch`, copy, `get_uart` |
| main loop | `csrc/diff-main.cpp` | `sim_status`, `rst_ticks`, the clock and reset pins | the statements of the loop, the SIGINT handler |
| comparison | `csrc/difftest.cpp`, `csrc/dpic/export.cpp` | - | `difftest_check`, `dut_get_state`, `dpi_retire` |
| reference's memory | `csrc/diff_proj/nemu_paddr_top.cc` | a second `PaddrTop` | `paddr_do_read`, `paddr_do_write` |
| log | `csrc/log.cpp`, `include/diff_proj/diff_log.h` | a FILE, or a ring of lines | `log_write`, `lring_print` |
| uart | `include/device/uart8250.hpp` | queues `rx` and `tx`, two mutexes, `thr_empty`, IER, IIR, LCR | `do_read`, `do_write`, `irq` for the bus, `putc`, `getc`, `exist_tx` for the console |
| other legacy devices | `uartlite.hpp`, `mmio_mem.hpp`, `nscscc_confreg.hpp` | an older uart, memory, confreg | included by nothing |

How they interact.  On a valid posedge (clock high, reset inactive) `main` calls
`axi->calculate_output()`, which reads the pins as they are before the edge and
computes the slave's outputs; then `top->eval()`, in which the DUT's registers
read the same pins; then `v_confreg->tick()`; then `axi->update_output()`, which
makes the outputs visible.  `calculate_output` is `read_eval` followed by
`write_eval`, both on `paddr_top`, which dispatches to a `Pmem` or the
`PaddrConfreg`.  The reference executes on a deep copy of `paddr_top` as many
instructions as the DUT has retired, and the registers are compared.  Every
assertion (`__ASSERT_SIM__`), every mismatch and SIGINT write one variable,
`sim_status`, which the loop tests in the middle of its next valid posedge.

No file includes `uart8250.hpp`; its mutexes say that a bus thread and a console
thread are meant to call it.

What is hard.  Only the signal handler and the uart's threads run in parallel;
elsewhere the hard part is *order*: two state machines that see each other's pins one edge late and ignore
parts of the handshake; reads and writes of the same memory in the same edge;
handlers that go on after an assertion has failed; a burst counter of 8 bits;
comparisons with inclusive ends; three writers of one flag and a loop that looks
at it once per edge; two copies of the devices that are accessed at different
times.  `PROJECT.json` lists the hazards with their lines.

What makes each part correct:

* **read side** - master and slave agree on the transaction; each beat has the
  address the AXI rules give it and the bytes of that address; a burst is never
  too short; every read ends.
* **write side** - the buffer is what was sent; memory changes once per burst,
  only in bytes the burst covers, the last beat winning; one honest response
  that is held and always comes.
* **whole slave** - it implements a memory whose write bursts are atomic.
* **address map** - no byte has two devices; a routed access stays in its device;
  registering a device takes no access away from another.
* **main loop** - DUT and reference are compared in step; an abort of any origin
  stops the loop within a posedge and freezes the reference; reset ends cleanly.
* **loop and slave together** - the statements of `main` amount to whole
  posedges of the slave, from its reset state, none of them after an assertion.
* **memories** - the DUT's memory and the reference's copy hold the image and
  their own stores and nothing of the other's; nothing leaves its buffer.
* **configuration registers** - DUT and reference get the same answers from
  their own copies to every load that the address map lets through.
* **uart** - characters arrive in order and once each; the interrupt of the
  transmitter is not raised or noticed while characters wait, and no character is
  announced that is not there; no call waits for ever.

## 2. Modules

| module | models |
|---|---|
| `PaddrMap` | `AddrIntv`, the range test and the choice of the device |
| `PaddrTop` | the vector of devices, grown by `add_dev` |
| `Pmem` | what an access does to memory: sizes, strobes, untouched lanes |
| `AxiBurst` | requests, `check_axi_req`, addresses of beats; the closed form `BeatAddr` as reference |
| `AxiRead`, `AxiWrite` | one side of the slave each, with the master as environment |
| `MemoryBus` | what the processor is promised: the abstract specification |
| `AxiSlave` | both sides together, and the refinement mapping to `MemoryBus` |
| `SimLoop` | `main`, one action per statement, and the signal handler |
| `Confreg` | the configuration registers: read, write, tick, copy |
| `CoSim` | the DUT's registers and the reference's copy |
| `Harness` | `SimLoop` composed with `AxiRead` and `AxiWrite`, and the mapping to `AxiSlave` |
| `MemoryCopies` | the buffers behind the two address maps: allocated, loaded, shared, copied, written |
| `Uart8250` | the uart between two threads |
| `MC*` | instances for TLC |
| `PaddrTopProofs`, `AxiBurstProofs`, `AxiReadProofs`, `AxiWriteProofs`, `AxiSlaveProofs`, `SimLoopProofs`, `HarnessProofs`, `DeviceProofs` | theorems |

`PaddrMap` is extended by `PaddrTop` and by `Pmem`; `Pmem` by `AxiBurst`; that by
`AxiRead`, `AxiWrite` and `MemoryBus`.  `AxiSlave` instantiates the two sides on
shared memories and `MemoryBus` with a mapping.  `Harness` instantiates
`SimLoop` and the two sides, and `AxiSlave` with a mapping; so two refinements
lead from the loop to the bus: `Harness` to `AxiSlave` to `MemoryBus`.
`MemoryCopies` extends `Pmem`.  `PaddrTopProofs` extends both `PaddrTop` and
`MemoryCopies`, `DeviceProofs` both `Uart8250` and `CoSim`: each holds the proofs
of two systems that share the lemmas about their parts.  Definitions that would
clash carry the system's name (`CopiesSpec`, `CoSimSpec`).

### Correspondence to the code

*AxiRead, AxiWrite.*  One step is one valid posedge: `ReadEval` is `read_eval`
on the pins before the edge (unprimed), the master's step reads the same pins,
and `UpdateReadOutput` copies the primed outputs to the primed pins.  Each
`case` of the switch is one or two actions.  `r_burst_type`, `r_cur_id`,
`r_cur_info`, `r_wrap_off_mask` and `r_wrap_bound` are functions of the latched
request `r_req`; `w_cur_NO` is the length of `w_cur_data`.  A failed
`__ASSERT_SIM__` sets `r_fault` or `w_fault`; the handler still completes, as in
the code, and the next step is `Stopped`.  `rand()%16+16` is a choice from
`Delays`.  `r_served`, `m_out`, `m_req`, `m_got`, `m_wout`, `m_wreq` and `m_sent`
are the master's own view, or history.  The master is external: it keeps valid
and its payload until ready, has one transaction under way on each side, may
lower `rready` (some masters), may offer data before its address is taken, and
may get `wid` and `wlast` wrong (some masters).

*PaddrTop.*  A device is represented by its interval.  Intervals are aligned
powers of two in the program, so `start & mask` and `addr & mask` are remainders.
`last` records the last call of `add_dev` and what it returned.
`RegistrationKeepsRoutes` compares the map before and after a call through
`Answers`, the device `do_read` and `do_write` would choose.

*SimLoop.*  `pc` names the statement about to run.  The DUT and the reference
are external: an instruction writes one register, rightly or wrongly; `bad` is
the set of registers that differ once the reference has caught up (the pc is one
of them); `ahead` counts what the reference has still to execute.  SIGINT is
enabled between any two statements once the handler is installed.

*CoSim.*  A program is a sequence of uncached accesses the DUT performs in
order; a load is performed before it retires, a store may retire earlier.  Both
sides reach the registers through a `PaddrTop`, whose range test refuses what ends
in the last word of the interval (`Routed`): a refused access does not reach the
registers or their assertions; the DUT's load, a burst of its own, is then given
the 0 that `idel_wait_read` has left in `s_rdata`, the reference's word stays as it
was (`Access`).

*Harness.*  What `AxiSlave` does in one step, `main` does in three statements:
`Calculate` (`calculate_output`), `Eval` (`top->eval`, in which the master's
registers are clocked, and `update_output`), and before the loop's first posedge
`Clock` with `AxiReset` in every half cycle under reset.  All other statements
are those of `SimLoop`.  The assertions that `SimLoop` lets fire at will are here
the ones of `axi_paddr`.  The constructor of `axi_paddr` sets no status and no
output: `Init` lets them be anything.  `before` is history: the slave as it was
when the last posedge was complete; the mapping shows it while a posedge is under
way.  The master keeps `rready` high.

*MemoryCopies.*  `heap` holds the buffers, `dut` and `ref` say which buffer each
device of a map points to.  Both set-ups of the code are modelled: `main`'s (one
memory, deep copy for the reference) and `new_paddr_top`'s (two memories on one
buffer, which no caller in this repository uses: it is exported to a reference
that runs alone).  What `new unsigned char[]` leaves in a buffer is any value.
`Reads` is what `fread` can deliver: the length computed by the code, cut to the
file's; the image is loaded at offset 0, as both callers do.

*Uart8250.*  Each call is split where it reads or writes state its mutex does
not protect: a push and the assignment to `thr_empty` after it, the pop and the
test after it in `getc`, the computation of IIR and the clearing of `thr_empty`
in `do_read`.  `front()` and `pop()` are separate steps as well, so that the
locks are what keeps the queue still between them, not the model.  `putc` is one
step under its mutex, and a thread that waits for the first mutex of a call is
not yet in it; so the second mutex of `do_write` is always found free.  A
character is its number in the order of sending modulo `Chars`; `tx_due`, `rx_due`
and `lsr`, the line status the bus last read, are history.

Operators commented *Mutant* are not part of the models: each is a plausible
mistake in the definition it stands before, and the property it is listed with
in `PROJECT.json` fails when it takes that definition's place.

## 3. Runs

| run | states | shows |
|---|---|---|
| `paddr_top` | 12 343 | registration in any order of any aligned intervals of 2 to 16 bytes: disjoint devices, justified refusals, unique routes, accesses inside the device, and no route changed by a call but those the new device takes over from nobody |
| `paddr_top_served` | - | counterexample: the last word of a device is not served |
| `axi_read` | 228 878 | 15 requests: every burst type, narrow beats, no device, length 255 (accepted, and answered by one beat), and one request for each test of `check_axi_req` |
| `axi_read_page` | - | counterexample: the extra beat leaves the page |
| `axi_write` | 115 670 | every burst type, beats that overlap, beats without device, correct and incorrect masters |
| `axi_slave` | 125 486 | reads and writes of the same words; refinement of `MemoryBus` |
| `sim_loop` | 1 155 | all arrivals of SIGINT, assertions, mismatches and `$finish` |
| `sim_loop_every` | - | counterexample: a result that is never compared |
| `co_sim` | 703 600 | every program of three accesses out of 16, three of them refused by the map, every timing in four posedges |
| `harness` | 422 322 | the loop with the slave: reset, falling edges, interrupts and comparisons around a read, a write, and a read and a write that are asserted against; refinement of `AxiSlave` |
| `memory_copies` | 18 620 | both set-ups, five files (missing, short, as long as the window, longer than it, longer than both), every program of two stores out of 7, every interleaving of the two sides |
| `uart8250` | 1 030 464 | every overlap of the calls of two threads: nothing lost or repeated, no notice of the transmitter through IIR while characters wait, no data ready bit without a character, every call returns |

Bounds, and why they are enough.

* Address space of 64 bytes, pages of 16, one memory of 16 bytes at 16: bursts of
  up to 4 beats of 1, 2 or 4 bytes begin and end at page and device boundaries,
  wrap, and leave the memory.  The code's numbers (2^32, 4096, 2^22) enter only
  through comparisons and remainders of powers of two.
* `StallLimit` = 6: a master lowers `rready` in the first six beats only.  That is
  past the end of every short burst, so the last beat is missed, and the count
  goes once round its 256 values before the burst ends.
* `Delays` = {0, 2}, {1}, {0}: the delay is only compared with zero and
  counted down.  In `axi_slave` the delay is 0 so that both sides meet in every
  relative position through the master's choices instead.
* Two registers, a retire width of 2 (the most `dpi_retire` returns) and
  5 half cycles of reset, as in the program.
* `Harness`: one register, a retire width of 1 (`MaxRetire` - the comparison
  itself is the business of `sim_loop`), 3 half cycles of reset so that reset
  and release are both passed, `Delays` = {1} so that the delay state is entered
  and left.
* `MemoryCopies`: a memory of 16 bytes and a window of 8 on it, files from 0 to
  20 bytes; two stores, so that one can overwrite, or be hidden from, the other.
  A run ends with its program: no deadlock check.
* `Uart8250`: `MaxQueued` = 2 characters in a queue, so that a pop can leave the
  queue empty or not; `Chars` = 3 numbers tell every character of a queue from
  the next one due.  The theorems are for every value of both.
* `CoSim`: words of 16 bits, so that the timer overflows and `io_simu` swaps two
  halves of 8 bits; at most `MaxPosedges` = 4 posedges (the run simply ends
  there, or when an `assert` ends the process: no deadlock check).

Fairness.  `WF(ReadPosedge)`, `WF(WritePosedge)`: `main`'s loop keeps clocking as
long as nothing aborts it.  `WF(Main)` in `SimLoop` and `Harness`: the process is scheduled.
`WF(BusInCall)` and `WF(ConsoleInCall)` in `Uart8250`: a thread inside a call
keeps running when it can; nothing says that either ever makes a call.
Nothing is assumed of the signal, of the master (it need never set `bready`:
`ResponseComes` ends at the response) or of the DUT retiring anything.
`ReadCompletes` uses that a master raises `rready` for good after `StallLimit`
beats; a master that lowered it for ever would be served for ever.

### What the runs found

* **The last word of every device is unreachable** (`IntervalServed`).
  `PaddrTop::do_read` accepts `addr + size <= end()` where `end()` is the last
  byte, not the one after it.  `NUM_MONITOR` (0xfffc) can never be accessed.
* **Read bursts have one beat too many** (`ServedInPage`).  `rlast` compares the
  count before it is decremented.  The extra beat is harmless to a master that
  waits for `rlast` and drops what it did not ask for, but can be served from the
  next page, which the assertion on the 4KB bound excludes.
* **The first of two results retired together is not compared**
  (`EveryResultCompared`) when the second overwrites it, although the log says
  that every result will be.

Further observations, listed as hazards: `rready` is ignored but for the last
beat; `awlen` of 16 and more writes past three arrays; `arlen` of 255 is
answered by one beat; an access at the very top of the address space would be
routed to the first device; the reference's timer never ticks; a SIGINT during
the set-up is forgotten; `commit_timeout` is unused; `load_binary` with an offset
may read a long file past the end of its buffer; a refused load of
a register (`NUM_MONITOR`) gives the DUT a cleared word with DECERR and leaves the
reference's word as it was, so that the two may differ; the bits THRE and TEMT of
LSR say that the transmitter is empty whatever `tx` holds (`uart8250.hpp:79`), and
`NoticesTruthful` is not about them; a `getc` of the uart between the
computation of IIR and the clearing of `thr_empty` in `do_read` loses its notice
that the transmitter is empty (`uart8250.hpp:67`); `getc` returns EOF as a `char`,
the same value as the character 0xFF.

The commit as it is does not compile: `diff_func.hpp` gives `ref_init` two
parameters and `diff-main.cpp:98` passes one.  The models take the call for what
it is meant to do, hand the map to the reference.

## 4. Proofs

All theorems hold for every value of the constants that satisfies the named
assumptions of the modules (`AddrSpaceAssumption`, `RangesAssumption`,
`RequestsAssumption`, ...).  The main result is the last link of a chain: the
read side and the write side each keep an inductive invariant; from it follows
what a clock edge can do to a transaction; that maps to the memory bus; and
`main`'s loop with its reset, falling edges, interrupts and aborts maps to the
slave (`HarnessImplementsBus`).  Every safety invariant and action property of
the passing runs is the statement of a theorem.

* **`PaddrTopProofs`** - `DevicesDisjoint`, `RoutesUnique`, `AccessesInside`,
  `RefusalsJustified`, `RoutesKept`.  `NoOverlap` with `TypeOK` is inductive.  The test of
  `add_dev` lets two intervals through that share one byte; two aligned
  intervals of even length cannot share exactly one byte: starts are even, ends
  are odd (`AlignedStartIsEven`).  `RangesAssumption` states that lengths are at
  least two and that an interval leaves room above it for one access.
  `RefusalsJustified` is the other direction: two intervals that overlap in the
  sense of `add_dev` share a byte.  `RoutesKept` (`RegistrationKeepsRoutes`): the
  first device that matches is still the first after another is appended
  (`AppendKeepsAnswers`).

  The same module proves `MemoryCopies`.  `CopiesFollowProgram` speaks of the two
  maps and of the whole program; the inductive invariant (`CopiesInv`,
  `CopiesInvariant`) of what each statement of the set-up leaves: which buffer
  each map points to, and that a buffer holds the image with the first `n`
  stores of *its own side* in it (`BufferFollows`), byte by byte (`LeftAt`: the
  newest store that covers the byte, or the image).  That the window and the
  memory of `new_paddr_top` show the same bytes rests on where a store lands
  (`StoreLands`): all of it in the one device that takes its first byte, at that
  byte's place in the shared buffer, and inside it because the window is not the
  longer of the two (`WindowAssumption`).  From it `SidesFollowProgram`
  and `CopiesStayInside`.  `StoreTopAssumption` excludes stores that end at the
  top of the space, as on the write side.
* **`AxiBurstProofs`** - for a legal request, `NextAddr` of the address of beat
  `i` is the address of beat `i + 1` (`NextAddrIsNextBeat`): incremental masks
  and sums modulo the space agree with the closed form.  It needs the space to be
  a multiple of the wrapping burst (`WrapAssumption`).  Also what the choice of a
  device returns (`RouteFacts`), from the existence of least numbers
  (`LeastNat`), and that the offset it passes on stays inside
  (`RoutedOffset`).
* **`AxiReadProofs`** - `ReadInvariant`, and from it `ReadTypeCorrect`,
  `ReadSidesAgree`, `ReadAddresses`, `ReadNotShort`, `ReadNoBeatLost`,
  `ReadDataMatches` and the action property `ReadTransactionStable`.
  `SidesAgree` is not inductive: that the master sees its request taken in the
  same posedge as the slave takes it depends on the outputs of each state
  (`OutputsFitState`), and that the burst is long enough on the 8-bit count being
  a function of the beats served (`CountFollowsBeats`) and `rlast` of the count
  (`LastFollowsCount`).  `AddressesFollowBurst` needs the latched request to be
  legal unless the run is aborted (`LatchedIsLegal`).  `NoBeatLost` needs that
  `rready` has never been down (`KeepsUp`); from the count then follows that
  `rlast` is on beat `Beats` and on no other (`KeepingUpMeans`).  `ReadMoves` sums up what an
  edge does: nothing, start, serve one beat, or end.  `ReadCountsDown` is what a
  proof can say of `ReadCompletes`: `PosedgesLeft`, a function of the state, the
  delay and the 8-bit count, is one less after each posedge of a transaction, and
  255 more after one in which the master refuses the last beat.
  `ReadOneBeatTooMany`: the extra beat of `axi_read_page` is served to every
  request.
* **`AxiWriteProofs`** - `WriteInvariant`, and from it `WriteTypeCorrect`,
  `WriteSidesAlwaysAgree`, `WriteBuffer`, `WriteSlots`, `WriteResponseHeld`,
  masters that get `wid` and `wlast` wrong included: no slot is filled beyond the
  beats of the request, for the slave ends the burst by its own count.  (That
  the request has at most 16 is assumed.)  `SlotsInBounds` and
  `BufferFollowsBurst` are not inductive: that the next beat has a slot depends
  on how many slots each state has filled (`SlotsFitState`), which holds until an
  assertion fires; the address of the next slot on the latched request being
  legal (`LatchedIsLegal`, with `NextAddrIsNextBeat`).
  `WriteResponseHonest`, `WriteLastBeatWins` and `WriteMemoryOnCommit` are about
  `do_all_write`, a loop over the burst: `WrittenUpTo` is its recursive function,
  and what it does for every length is shown by taking the least turn at which
  it would fail (`WrittenOk`, `WrittenBytes`).  Two assumptions are the code's
  own limits: `awlen` below 16, which it does not test (`WriteRequestsAssumption`),
  and no beat that ends at the top of the address space, where `addr + size`
  is 0 and would pass the test of every device (`WriteTopAssumption`).
  `WriteCountsDown`: once the master has sent the last beat the slave knows it has
  them all (`SentIsBuffered`), and the response comes `w_left_time` + 1 posedges
  later; no assertion can come between.
* **`AxiSlaveProofs`** - `SlaveImplementsBus`: `axi_paddr` with both sides running
  implements `MemoryBus`.  `SlaveInvariant` puts the two invariants together:
  they survive that the write side changes the memory the read side reads,
  because `ReadInv` asks no more of it than its type.  Then each move of
  `ReadMoves` and `WriteMoves` is the bus step of that name under the mapping
  (`ReadStepMaps`, `WriteStepMaps`), the commit being the one that takes work:
  the memories `do_all_write` leaves are those in which each byte has the value
  of the last beat that covers it (`CommitMaps`).  `ReadSideAssumption` and
  `WriteSideAssumption` are those of the two sides.  `SlaveKeepsSides` carries over
  what each side promises alone, and `SlaveCountsDown` says that neither delays
  the other.
* **`SimLoopProofs`** - `LoopInvariant`, and from it `LoopLockStep`,
  `LoopStopsSoon`, `LoopCleanReset`, `LoopReferenceFrozen`.  The invariant ties
  `ahead` to `commit_num` between `eval` and the reference's step
  (`LeadIsCurrent`), says that a posedge evaluated after an abort is followed by
  the status test (`LateIsLast`) and where the loop can be after a mismatch
  (`MismatchAborts`), and ties the level of the clock to the parity of
  `rst_ticks` (`ResetParity`), for which the number of reset half cycles must be
  odd (`RstTicksAssumption`).  The type invariant of the loop is part of it.
  `LoopWindsDown`: after an abort, whoever raised it, `StatementsLeft` gets smaller
  with each statement of `main`, from 13 + 4 * `RstTicks` at most.  The half cycles
  of reset count in it, so that it needs `ResetParity`.  `LoopKeepsClocking`: while
  nothing ends the run the same count, taken to the next valid posedge, gets smaller
  with each statement but the evaluation of one.
* **`HarnessProofs`** - `HarnessFaultInvariant`: after an assertion of
  `axi_paddr` only the rest of its own posedge and the test of the status are
  left; from it `HarnessAbortFreezes`.  `HarnessIsLoop`: every behaviour is one
  of `SimLoop`, so that what is proved of the loop alone holds with a real
  `axi_paddr` behind it: the invariants (`HarnessKeepsStep`), the clean reset and
  the frozen reference (`HarnessKeepsActions`), the end of an aborted run
  (`HarnessWindsDown`) and the way to the next posedge (`HarnessKeepsClocking`).
  `HarnessImplementsSlave`: every behaviour, seen through `Shown`,
  is one of `AxiSlave`.  One posedge of the slave is two statements of `main`, so
  the mapping holds its state back until the second; the invariant behind it
  (`LinkInv`, `HarnessLinkInvariant`) says that between the two the slave is
  exactly `read_eval` and `write_eval` away from the state held back
  (`ReadDone`, `WriteDone`), that no posedge starts under reset or after an
  assertion, and that the half cycles of reset have put both sides in their
  idle states.  `Eval` is then a `Posedge` (`EvalIsPosedge`), everything else a
  stutter (`OthersShowNothing`).  With `SlaveImplementsBus` this gives
  `HarnessImplementsBus`.  `HarnessCountsDown`: the posedges a read still takes are
  a positive number that each evaluation of the DUT makes one smaller and nothing
  else touches; this processor never lowers `rready`.
  `LoopAssumption`, `ReadSideAssumption` and `WriteSideAssumption` are the
  assumptions of the three modules it composes.
* **`DeviceProofs`** - `UartInvariant`, and from it `UartTypeCorrect`,
  `UartNothingLost`, `UartNoticesTruthful`.  `NothingLost` is not inductive without
  the lock discipline (`LocksHeld`): which thread holds which mutex at each place
  of its call.  `UartCallsAdvance`: between the two locks of `do_write` the second
  mutex is always free, every step of a call brings its return nearer, and the
  other thread never puts it off.  That a queue holds consecutive numbers is kept by a push at one
  end and a pop at the other (`PushKeepsOrder`, `PopKeepsOrder`).

  Then `CoSim`: `CoSimInvariant`, and from it `ConfregLoadsAgree`,
  `ConfregsConverge`, `TimersSkewed`, for programs of any length and any number
  of posedges.  None of the three is inductive, since the two sides are compared
  only when they are level.  `CoSimInv` compares each with a third thing, the
  course of the program (`Ideal`: the registers after its first `n` accesses,
  with a timer that stands still, and which a refused access leaves alone), each
  side at its own place; the DUT's timer is
  ahead of the course by its age, modulo the word (`ModAdd`).  What makes the
  loads that are passed on agree is then that the answer of one is a function of
  the course (`RunFollows`), and that no load retires before it is performed.
  `ConfregAssumption` asks that what `set_switch(0)` leaves fits a word (32 bits
  in the code).

Only model-checked: the liveness properties (`ReadCompletes`, `ResponseComes`,
`DivergenceStops`, `InterruptStops`, `ReadAnswered`, `CallsReturn`), which need
fairness and enabledness that the prover does not handle.  Each of them has its
safety half proved: a number that the steps of the loop, the slave or the call
make smaller (`ReadCountsDown`, `WriteCountsDown`, `LoopWindsDown`,
`UartCallsAdvance`; for `ReadAnswered` the posedges of `HarnessCountsDown` and,
within one, the statements of `HarnessKeepsClocking`).  Fairness adds only that
these steps are taken.  The three counterexamples are TLC's as well.

## 5. Not modelled

* Parsing of arguments, waveforms, `dlopen` and the printing of errors are input
  and output.  The processor and NEMU are external.
* The log (`log.cpp`, `diff_log.h`) writes to a file; its ring of lines, the one
  part with state, does not compile at this commit (`diff_log.h:7` lacks an
  argument), so there is no behaviour of it to translate.
* `uartlite.hpp`, `mmio_mem.hpp` and `nscscc_confreg.hpp` belong to an older
  framework: no file includes them, and they include missing headers or do not
  override the interface they derive from.  The successors of the last two are
  modelled.  `uart8250.hpp` is as unused, and its class does not fit the interface
  of this commit either; it is modelled because its mutexes say who calls it, and
  it is the fuller of the two uarts, which lock in the same way.  What is shown of
  it holds for the header, not for a program that runs today.
* `compare()`, the comparison against a golden trace (`diff-main.cpp:25-45`):
  nothing calls it.
* Of the uart, the latches DLL, DLM and MCR, which only their own reads return;
  of `PaddrConfreg`, `has_uart`, `get_uart` and `get_num`, which nobody calls.
* `load_binary` at an offset other than 0, which nobody asks for, and
  `save_binary`, which changes nothing.
* Write bursts of more than 16 beats: the code writes past three arrays, and what
  that changes depends on the compiler's layout.
* `hi` and `lo` are in `diff_state` and compared by nobody.  `calculate_output`
  returns a value nobody uses.  `check_axi_req` and both sides rely on 32-bit
  buses (`BusBytes` = 4).

## 6. Plan

Done, in this order: `PaddrMap`/`PaddrTop` with proofs; `Pmem`, `AxiBurst`,
`AxiRead` with proofs; `AxiWrite` with proofs; `MemoryBus` and `AxiSlave`;
`SimLoop` with proofs; `Confreg` and `CoSim`; `Harness` with its first proof;
`MemoryCopies`; `Uart8250` with proofs; the remaining properties of both sides of
the slave and the refinement of `MemoryBus` proved.

Then the refinement of `AxiSlave` by `Harness`, and with it of `MemoryBus` by
the whole loop; `RefusalJustified`; the invariants of `MemoryCopies` and `CoSim`.

Then the counts behind the liveness properties, and what is proved of `SimLoop`
and of the two sides carried over to `Harness` and `AxiSlave`.

Then the refusals of the address map in `CoSim`, what `add_dev` may do to the
routes, and the line status of the uart.

Next, in the models: masters of `Harness` that lower `rready`; a driver of the
uart, to say what a lost notice of an empty transmitter means to it.
