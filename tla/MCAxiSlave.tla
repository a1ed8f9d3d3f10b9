----------------------------- MODULE MCAxiSlave -----------------------------
(***************************************************************************)
(* Both sides at once, on one memory of 16 bytes at 16: reads and writes   *)
(* of the words at 20 and 24, bursts that overlap in either order, and     *)
(* bursts that leave the memory.                                           *)
(***************************************************************************)
EXTENDS AxiSlave

MCDevices == << [start |-> 16, mask |-> 15] >>

MCLoaded == { [d \in {1} |-> [o \in 0 .. 15 |-> 0]] }

MCWBeats ==
  { [data |-> [l \in 0 .. 3 |-> 1], strb |-> 0 .. 3],
    [data |-> [l \in 0 .. 3 |-> 2], strb |-> {1}] }

Req(id, addr, len, size, burst) ==
  [id |-> id, addr |-> addr, len |-> len, size |-> size, burst |-> burst]

MCRequests == { Req(0, 20, 0, 2, "INCR"), Req(1, 24, 1, 2, "WRAP") }

MCWriteRequests == { Req(0, 24, 1, 2, "FIXED"), Req(1, 24, 1, 2, "INCR"),
                     Req(0, 24, 1, 2, "WRAP"),  Req(0, 18, 0, 2, "INCR") }
=============================================================================
