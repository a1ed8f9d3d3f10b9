----------------------------- MODULE MCHarness ------------------------------
(***************************************************************************)
(* One memory of 16 bytes at 16; a read and a write of one word in it, and *)
(* a read and a write whose bursts leave their page, which are asserted    *)
(* against.                                                                *)
(***************************************************************************)
EXTENDS Harness

MCDevices == << [start |-> 16, mask |-> 15] >>

MCLoaded == { [d \in {1} |-> [o \in 0 .. 15 |-> 0]] }

MCWBeats == { [data |-> [l \in 0 .. 3 |-> 1], strb |-> 0 .. 3] }

Req(addr, len, burst) ==
  [id |-> 0, addr |-> addr, len |-> len, size |-> 2, burst |-> burst]

MCRequests == { Req(20, 0, "INCR"), Req(28, 1, "INCR") }

MCWriteRequests == { Req(20, 0, "INCR"), Req(28, 1, "INCR") }
=============================================================================
