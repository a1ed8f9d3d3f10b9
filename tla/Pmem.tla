-------------------------------- MODULE Pmem --------------------------------
(***************************************************************************)
(* What a bus access does to the memories behind a PaddrTop: the dispatch  *)
(* of PaddrTop::do_read and do_write to a Pmem and the byte lanes that     *)
(* Pmem::do_read and do_write move (csrc/device/Pmem.cpp).                 *)
(*                                                                         *)
(* A memory is a function from offsets to bytes, a word of the bus a       *)
(* function from its lanes to bytes, lane 0 the least significant.         *)
(***************************************************************************)
EXTENDS PaddrMap

CONSTANTS
  Devices,    \* the intervals registered, in order; each is a Pmem here
  ByteValues, \* what a byte can be
  BusBytes    \* CONFIG_AXI_DWID / 8, 4 in the program

ASSUME DevicesAssumption ==
  /\ Devices \in Seq([start : Nat, mask : Nat])
  /\ \A i \in DOMAIN Devices : IsAddrIntv(Devices[i])

(* add_dev refuses a device that overlaps one it has. *)
ASSUME DisjointAssumption ==
  \A i, j \in DOMAIN Devices :
    i # j => IntvBytes(Devices[i]) \cap IntvBytes(Devices[j]) = {}

ASSUME BusBytesAssumption == BusBytes \in Nat \ {0}

Lanes == 0 .. BusBytes - 1

Words == [Lanes -> ByteValues]

Strobes == SUBSET Lanes

(* All the memories: one function from offsets to bytes for each device. *)
Memories ==
  { m \in [DOMAIN Devices -> UNION { [0 .. Devices[d].mask -> ByteValues] :
                                       d \in DOMAIN Devices }] :
      \A d \in DOMAIN Devices : m[d] \in [0 .. Devices[d].mask -> ByteValues] }

(* The lanes an access of that many bytes may write: a full word obeys the *)
(* strobes, a narrow one ignores them.                                     *)
WrittenLanes(bytes, strobe) ==
  IF bytes = BusBytes THEN strobe ELSE 0 .. bytes - 1

(* A read fills the low lanes of the caller's word; do_read casts the      *)
(* pointer to a narrower type, so the other lanes keep what they held.     *)
PmemRead(m, off, bytes, old) ==
  [l \in Lanes |-> IF l < bytes THEN m[off + l] ELSE old[l]]

(* A write takes lane l to byte off + l, whatever off is. *)
PmemWrite(m, off, bytes, strobe, word) ==
  [o \in DOMAIN m |->
     IF o - off \in WrittenLanes(bytes, strobe) THEN word[o - off] ELSE m[o]]

(* PaddrTop::do_read and do_write: false and no effect when nobody takes   *)
(* the access.                                                             *)
BusRead(mem, addr, bytes, old) ==
  LET d == Route(Devices, addr, bytes)
  IN  IF d = 0
      THEN [ok |-> FALSE, data |-> old]
      ELSE [ok |-> TRUE,
            data |-> PmemRead(mem[d], Offset(Devices[d], addr), bytes, old)]

BusWrite(mem, addr, bytes, strobe, word) ==
  LET d == Route(Devices, addr, bytes)
  IN  IF d = 0
      THEN [ok |-> FALSE, mem |-> mem]
      ELSE [ok |-> TRUE,
            mem |-> [mem EXCEPT ![d] =
                       PmemWrite(@, Offset(Devices[d], addr), bytes, strobe, word)]]
=============================================================================
