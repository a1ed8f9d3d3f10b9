---------------------------- MODULE MemoryCopies ----------------------------
(***************************************************************************)
(* The buffers behind the Pmems of the two address maps: allocated,        *)
(* loaded from a file, shared or copied, and then written through.  An     *)
(* address map is the sequence of the buffers its devices point to; the    *)
(* confreg, which both have too, is in CoSim.                              *)
(*                                                                         *)
(* Two set-ups exist.  main (csrc/diff-main.cpp) gives the DUT one memory, *)
(* the first of Devices, and the reference a deep copy of it.              *)
(* new_paddr_top (csrc/diff_proj/nemu_paddr_top.cc) gives a reference that *)
(* runs alone two memories, the first a window on the buffer of the second.*)
(***************************************************************************)
EXTENDS Pmem, FiniteSets

CONSTANTS
  Files,     \* what __FUNC_BIN__ may be: [open, bytes]
  Programs   \* the stores that are executed: [addr, size, strb, data]

ASSUME FilesAssumption ==
  Files \subseteq [open : BOOLEAN, bytes : Seq(ByteValues)]

ASSUME ProgramsAssumption ==
  \A p \in Programs :
    p \in Seq([addr : Word, size : 1 .. BusBytes, strb : Strobes, data : Words])

(* No store ends at the top of the space, where the sum of the range test   *)
(* would be 0 and the first device would take it.                          *)
ASSUME StoreTopAssumption ==
  \A p \in Programs : \A i \in DOMAIN p : p[i].addr + p[i].size < AddrSpace

(* The window is not longer than the memory it shares.                     *)
ASSUME WindowAssumption ==
  Len(Devices) = 2 /\ Devices[1].mask <= Devices[2].mask

VARIABLES
  setup,      \* "main" or "new_paddr_top"
  stage,      \* the statement of it that comes next; then "run"
  file,       \* the file at __FUNC_BIN__
  garbage,    \* what new unsigned char[] leaves in each byte
  heap,       \* the buffers
  dut, ref,   \* the two maps; <<>> before they are built
  overrun,    \* an access left its buffer
  program, performed, executed   \* the stores, and how many each side has done

copiesVars == <<setup, stage, file, garbage, heap, dut, ref, overrun,
               program, performed, executed>>

chosen == <<setup, file, garbage, program>>

Sized(buffer) == Cardinality(DOMAIN buffer)

Allocated(size) == [o \in 0 .. size - 1 |-> garbage]

-----------------------------------------------------------------------------

(* Mutant: the length of the memory is not compared with the file's.       *)
ReadsUnclamped(size, offset) == IF file.open THEN Len(file.bytes) ELSE 0

(* The bytes load_binary reads.  A file that is too long is cut to the      *)
(* length of the memory, wherever it is put; one that cannot be opened has *)
(* length -1, as a size_t, and nothing can be read from it.                *)
Reads(size, offset) ==
  LET n == Len(file.bytes)
  IN  IF ~ file.open THEN 0
      ELSE IF (offset >= size \/ n + offset > size) /\ size < n THEN size
      ELSE n

(* The buffer after load_binary. *)
LoadBinary(buffer, offset) ==
  [o \in DOMAIN buffer |->
     IF o - offset \in 0 .. Reads(Sized(buffer), offset) - 1
     THEN file.bytes[o - offset + 1] ELSE buffer[o]]

(* Mutant: the copied map points to the same Pmems. *)
ShallowCopy(map) == [buffers |-> <<>>, map |-> map]

(* PaddrTop(PaddrTop&): a new Pmem with a buffer of its own for each one.  *)
DeepCopy(map) ==
  [buffers |-> [d \in DOMAIN map |-> heap[map[d]]],
   map     |-> [d \in DOMAIN map |-> Len(heap) + d]]

(* PaddrTop::do_write through a map. *)
StoreThrough(map, s) ==
  LET d   == Route(SubSeq(Devices, 1, Len(map)), s.addr, s.size)
      off == Offset(Devices[d], s.addr)
  IN  IF d = 0 THEN UNCHANGED <<heap, overrun>>
      ELSE /\ heap' = [heap EXCEPT ![map[d]] =
                         PmemWrite(@, off, s.size, s.strb, s.data)]
           /\ overrun' = (overrun \/ off + s.size > Sized(heap[map[d]]))

-----------------------------------------------------------------------------

CopiesInit ==
  /\ setup \in {"main", "new_paddr_top"}
  /\ stage = "new"
  /\ file \in Files
  /\ garbage \in ByteValues
  /\ heap = <<>>
  /\ dut = <<>> /\ ref = <<>>
  /\ overrun = FALSE
  /\ program \in Programs /\ performed = 0 /\ executed = 0

(* new Pmem(inst_range) or new Pmem(s0_1m) *)
NewPmem ==
  /\ stage = "new"
  /\ heap' = << Allocated(Devices[IF setup = "main" THEN 1 ELSE 2].mask + 1) >>
  /\ stage' = "load"
  /\ UNCHANGED <<chosen, dut, ref, overrun, performed, executed>>

(* load_binary(0, __FUNC_BIN__) *)
Load ==
  /\ stage = "load"
  /\ heap' = [heap EXCEPT ![1] = LoadBinary(@, 0)]
  /\ overrun' = (overrun \/ Reads(Sized(heap[1]), 0) > Sized(heap[1]))
  /\ stage' = "map"
  /\ UNCHANGED <<chosen, dut, ref, performed, executed>>

(* main: axi->paddr_top.add_dev(inst_range, v_inst_mem) *)
MapForDut ==
  /\ stage = "map" /\ setup = "main"
  /\ dut' = <<1>>
  /\ stage' = "copy"
  /\ UNCHANGED <<chosen, heap, ref, overrun, performed, executed>>

(* main: new PaddrTop(axi->paddr_top) *)
CopyForReference ==
  /\ stage = "copy"
  /\ heap' = heap \o DeepCopy(dut).buffers
  /\ ref' = DeepCopy(dut).map
  /\ stage' = "run"
  /\ UNCHANGED <<chosen, dut, overrun, performed, executed>>

(* new_paddr_top: Pmem(inst_range, nemu_s0_1m->get_mem_ptr()) and add_dev. *)
MapForReference ==
  /\ stage = "map" /\ setup = "new_paddr_top"
  /\ ref' = <<1, 1>>
  /\ stage' = "run"
  /\ UNCHANGED <<chosen, heap, dut, overrun, performed, executed>>

(* The DUT's store reaches the bus. *)
Perform ==
  /\ stage = "run" /\ dut # <<>>
  /\ performed < Len(program)
  /\ StoreThrough(dut, program[performed + 1])
  /\ performed' = performed + 1
  /\ UNCHANGED <<chosen, stage, dut, ref, executed>>

(* The reference executes it, earlier or later: paddr_do_write. *)
Execute ==
  /\ stage = "run"
  /\ executed < Len(program)
  /\ StoreThrough(ref, program[executed + 1])
  /\ executed' = executed + 1
  /\ UNCHANGED <<chosen, stage, dut, ref, performed>>

CopiesNext ==
  \/ NewPmem \/ Load \/ MapForDut \/ CopyForReference \/ MapForReference
  \/ Perform \/ Execute

CopiesSpec == CopiesInit /\ [][CopiesNext]_copiesVars

-----------------------------------------------------------------------------

(* The byte at address a as a map shows it. *)
Shows(map, a) ==
  LET d == Route(SubSeq(Devices, 1, Len(map)), a, 1)
  IN  heap[map[d]][Offset(Devices[d], a)]

(* The addresses of a map. *)
Mapped(map) == { a \in Word : Route(SubSeq(Devices, 1, Len(map)), a, 1) # 0 }

(* Where in the image of the program an address lies, the same in each of the
   windows. *)
Place(map, a) ==
  Offset(Devices[Route(SubSeq(Devices, 1, Len(map)), a, 1)], a)

(* The stores among the first n that cover place p, through a map. *)
CoveringStores(map, n, p) ==
  { i \in 1 .. n :
      LET s == program[i]
      IN  /\ Route(SubSeq(Devices, 1, Len(map)), s.addr, s.size) # 0
          /\ p - Place(map, s.addr) \in WrittenLanes(s.size, s.strb) }

(* What the program has left at place p after n stores: the last store to it,
   else the file, else what the allocation left there. *)
Expected(map, n, p) ==
  LET cover == CoveringStores(map, n, p)
      last  == CHOOSE i \in cover : \A j \in cover : j <= i
  IN  IF cover # {} THEN program[last].data[p - Place(map, program[last].addr)]
      ELSE IF file.open /\ p < Len(file.bytes) THEN file.bytes[p + 1]
      ELSE garbage

FollowsProgram(map, n) ==
  \A a \in Mapped(map) : Shows(map, a) = Expected(map, n, Place(map, a))

(* Each side sees the image with its own stores in it, none of the other's:
   however far one is ahead, neither reads what only the other has stored; at
   the same store they agree on every byte, those the file does not fill
   included; and the two windows of new_paddr_top show one memory. *)
CopiesFollowProgram ==
  stage = "run" =>
    /\ FollowsProgram(dut, performed)
    /\ FollowsProgram(ref, executed)

(* Neither the image, whatever its length, nor a store through a window leaves
   the buffer it is meant for. *)
NoOverrun == ~ overrun
=============================================================================
