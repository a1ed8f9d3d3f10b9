----------------------------- MODULE MCAxiWrite -----------------------------
(***************************************************************************)
(* The write side on 64 bytes of address space, pages of 16 bytes, and one *)
(* memory of 16 bytes at 16.                                               *)
(***************************************************************************)
EXTENDS AxiWrite

MCDevices == << [start |-> 16, mask |-> 15] >>

MCLoaded == { [d \in {1} |-> [o \in 0 .. 15 |-> 0]] }

(* Two beats: a whole word, and byte 1 of another. *)
MCWBeats ==
  { [data |-> [l \in 0 .. 3 |-> 1], strb |-> 0 .. 3],
    [data |-> [l \in 0 .. 3 |-> 2], strb |-> {1}] }

Req(id, addr, len, size, burst) ==
  [id |-> id, addr |-> addr, len |-> len, size |-> size, burst |-> burst]

(* Every burst type, a burst whose second beat and one whose first beat    *)
(* finds no device, narrow beats, and a burst that check_axi_req rejects.  *)
(* All of them meet in the one word at 24.                                 *)
MCWriteRequests ==
  { Req(1, 24, 1, 2, "FIXED"), Req(0, 24, 1, 2, "INCR"), Req(1, 28, 1, 2, "WRAP"),
    Req(0, 25, 1, 0, "WRAP"),  Req(1, 24, 2, 2, "INCR") }
=============================================================================
