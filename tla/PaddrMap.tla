------------------------------ MODULE PaddrMap ------------------------------
(***************************************************************************)
(* The physical address map: AddrIntv and the decoding that PaddrTop does  *)
(* of every access (include/PaddrInterface.hpp, csrc/device/PaddrTop.cpp). *)
(*                                                                         *)
(* An interval is a record [start, mask].  Both constructors of AddrIntv   *)
(* are used with power-of-two lengths only, so  start & mask  is           *)
(* start % (mask + 1)  and  addr & mask  is  addr % (mask + 1).            *)
(***************************************************************************)
EXTENDS Integers, Sequences

CONSTANT AddrSpace   \* 2^32 in the program: the number of values of word_t

ASSUME AddrSpaceAssumption == AddrSpace \in Nat \ {0}

Word == 0 .. AddrSpace - 1

(* The Assert of the constructors, and no interval running past the space. *)
IsAddrIntv(r) ==
  /\ r \in [start : Word, mask : Word]
  /\ r.start % (r.mask + 1) = 0
  /\ r.start + r.mask \in Word

(* AddrIntv::end is the LAST byte of the interval, not the one after it.   *)
IntvEnd(r) == r.start + r.mask

(* The bytes an interval stands for. *)
IntvBytes(r) == r.start .. IntvEnd(r)

(* Mutant of the range test: the size of the access is forgotten. *)
ContainsFirstByte(r, addr, bytes) ==
  /\ r.start <= addr
  /\ addr % AddrSpace <= IntvEnd(r)

(* Mutant of the range test: only the end of the interval is compared. *)
ContainsBelowEnd(r, addr, bytes) ==
  (addr + bytes) % AddrSpace <= IntvEnd(r)

(* The range test of do_read and do_write; addr + size is a word_t sum.    *)
Contains(r, addr, bytes) ==
  /\ r.start <= addr
  /\ (addr + bytes) % AddrSpace <= IntvEnd(r)

Containing(devs, addr, bytes) ==
  { i \in DOMAIN devs : Contains(devs[i], addr, bytes) }

(* The first device in registration order that takes the access, 0 if none *)
(* does (do_read and do_write then return false).                          *)
Route(devs, addr, bytes) ==
  LET hit == Containing(devs, addr, bytes)
  IN  IF hit = {} THEN 0 ELSE CHOOSE i \in hit : \A j \in hit : i <= j

(* The address the device is called with. *)
Offset(r, addr) == addr % (r.mask + 1)
=============================================================================
