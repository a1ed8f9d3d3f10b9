------------------------------ MODULE PaddrTop ------------------------------
(***************************************************************************)
(* Registration of devices in a PaddrTop (csrc/device/PaddrTop.cpp): the   *)
(* vector of intervals it holds, grown by add_dev, and what the decoding   *)
(* of PaddrMap does with it.  A device is represented by its interval.     *)
(***************************************************************************)
EXTENDS PaddrMap

CONSTANTS
  Ranges,       \* the intervals callers try to register
  AccessBytes,  \* the access sizes an AXI transfer can have: 1, 2, 4
  MaxDevices,   \* bound on the vector's length, which the program leaves open
  NoRange       \* "add_dev has not been called yet"

(* The intervals callers use are at least two bytes long (their mask has   *)
(* bit 0 set) and leave room above them for one access: no interval of the *)
(* program touches the top of the 32-bit space.                            *)
ASSUME RangesAssumption ==
  \A r \in Ranges :
    /\ IsAddrIntv(r)
    /\ r.mask % 2 = 1
    /\ \A b \in AccessBytes : IntvEnd(r) + b < AddrSpace

ASSUME AccessBytesAssumption == AccessBytes \subseteq Nat \ {0}

ASSUME NoRangeAssumption == NoRange \notin Ranges

VARIABLES
  devices,   \* std::vector of (AddrIntv, device), here the intervals
  last       \* the last add_dev call: its interval and what it returned

vars == <<devices, last>>

MaxOf(a, b) == IF a < b THEN b ELSE a
MinOf(a, b) == IF a < b THEN a ELSE b

(* Mutants of the overlap test. *)
OverlapWithFirstOnly(devs, r) ==
  /\ devs # <<>>
  /\ MaxOf(devs[1].start, r.start) < MinOf(IntvEnd(devs[1]), IntvEnd(r))

OverlapOrAdjacent(devs, r) ==
  \E i \in DOMAIN devs :
    MaxOf(devs[i].start, r.start) <= MinOf(IntvEnd(devs[i]), IntvEnd(r)) + 1

(* The loop of add_dev: l_max < r_min for some registered interval. *)
OverlapFound(devs, r) ==
  \E i \in DOMAIN devs :
    MaxOf(devs[i].start, r.start) < MinOf(IntvEnd(devs[i]), IntvEnd(r))

-----------------------------------------------------------------------------

Init ==
  /\ devices = <<>>
  /\ last = [range |-> NoRange, ok |-> FALSE]

AddDevAccepted(r) ==
  /\ ~ OverlapFound(devices, r)
  /\ Len(devices) < MaxDevices
  /\ devices' = Append(devices, r)
  /\ last' = [range |-> r, ok |-> TRUE]

(* Mutant: the interval that was there first gives way to the new one. *)
AddDevReplaces(r) ==
  /\ OverlapFound(devices, r)
  /\ \E i \in DOMAIN devices :
       /\ MaxOf(devices[i].start, r.start) < MinOf(IntvEnd(devices[i]), IntvEnd(r))
       /\ devices' = [devices EXCEPT ![i] = r]
  /\ last' = [range |-> r, ok |-> FALSE]

AddDevRefused(r) ==
  /\ OverlapFound(devices, r)
  /\ last' = [range |-> r, ok |-> FALSE]
  /\ UNCHANGED devices

AddDev(r) == AddDevAccepted(r) \/ AddDevRefused(r)

Next == \E r \in Ranges : AddDev(r)

Spec == Init /\ [][Next]_vars

-----------------------------------------------------------------------------

(* The vector holds intervals of the callers; last is a call that was made.  *)
TypeOK ==
  /\ devices \in Seq(Ranges)
  /\ last \in [range : Ranges \cup {NoRange}, ok : BOOLEAN]

(* No byte belongs to two registered devices: what the "check overlap" loop
   of add_dev is for.  The strict comparison with INCLUSIVE ends misses a
   common single byte; alignment and length of the intervals must exclude it. *)
NoOverlap ==
  \A i, j \in DOMAIN devices :
    i # j => IntvBytes(devices[i]) \cap IntvBytes(devices[j]) = {}

(* add_dev never turns away a device that fits: when it returned false, some
   registered interval really shares a byte with the refused one. *)
RefusalJustified ==
  last.range # NoRange /\ ~ last.ok =>
    \E i \in DOMAIN devices :
      IntvBytes(devices[i]) \cap IntvBytes(last.range) # {}

(* The interval whose device answers an access of that many bytes at addr. *)
Answers(devs, addr, bytes) ==
  LET d == Route(devs, addr, bytes) IN IF d = 0 THEN NoRange ELSE devs[d]

(* What one add_dev call may do to the map, seen through do_read and do_write.
   An access that some device answers is answered by the same device after it,
   at whatever address, sums that wrap included; one that no device answers may
   afterwards be answered by the new device alone, and only if add_dev returned
   true; and a device that was accepted is in the map with the very interval
   that was asked for.  A refused call thus changes no answer. *)
RegistrationKeepsRoutes ==
  [][/\ \A addr \in Word, bytes \in AccessBytes :
          \/ Answers(devices', addr, bytes) = Answers(devices, addr, bytes)
          \/ /\ last'.ok
             /\ Answers(devices, addr, bytes) = NoRange
             /\ Answers(devices', addr, bytes) = last'.range
     /\ last'.ok => \E i \in DOMAIN devices' : devices'[i] = last'.range]_vars

(* The accesses whose address arithmetic does not wrap around word_t. *)
Accesses == { a \in Word \X AccessBytes : a[1] + a[2] < AddrSpace }

(* do_read and do_write stop at the first match; at most one device matches,
   so the answer does not depend on the order of registration. *)
RouteUnique ==
  \A a \in Accesses :
    \A i, j \in Containing(devices, a[1], a[2]) : i = j

(* A routed access lies inside the device: the offset and size handed to
   Pmem::do_read and Pmem::do_write never leave its buffer of mask + 1 bytes. *)
AccessInsideDevice ==
  \A a \in Accesses :
    LET d == Route(devices, a[1], a[2])
    IN  d # 0 =>
          /\ a[1] .. (a[1] + a[2] - 1) \subseteq IntvBytes(devices[d])
          /\ Offset(devices[d], a[1]) = a[1] - devices[d].start
          /\ Offset(devices[d], a[1]) + a[2] <= devices[d].mask + 1

(* What PaddrInterface.hpp says of an interval ("[0x100,0x1ff]", "include",
   "physical address = [0x1faf0000,0x1fafffff]"): an aligned access to bytes
   a registered device stands for reaches that device. *)
IntervalServed ==
  \A i \in DOMAIN devices : \A a \in Accesses :
    /\ a[1] % a[2] = 0
    /\ a[1] .. (a[1] + a[2] - 1) \subseteq IntvBytes(devices[i])
    => Route(devices, a[1], a[2]) = i
=============================================================================
