----------------------------- MODULE MCPaddrTop -----------------------------
(***************************************************************************)
(* PaddrTop on an address space of 24 bytes: every aligned interval of 2,  *)
(* 4, 8 or 16 bytes below byte 16 may be registered, in any order.         *)
(***************************************************************************)
EXTENDS PaddrTop

MCRanges ==
  { r \in [start : {2 * k : k \in 0 .. 7}, mask : {1, 3, 7, 15}] :
      r.start % (r.mask + 1) = 0 /\ r.start + r.mask < 16 }

(* Two devices laid out like the program's two, at a scale of 16 to 32     *)
(* bytes; only whole words are accessed.                                   *)
MCProgramRanges ==
  { [start |-> 16, mask |-> 15], [start |-> 32, mask |-> 31] }
=============================================================================
