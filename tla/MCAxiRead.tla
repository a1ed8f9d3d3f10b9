----------------------------- MODULE MCAxiRead ------------------------------
(***************************************************************************)
(* The read side on 64 bytes of address space with pages of 16 bytes and   *)
(* one memory of 16 bytes at 16, every byte of it different.               *)
(***************************************************************************)
EXTENDS AxiRead

MCDevices == << [start |-> 16, mask |-> 15] >>

MCLoaded == { [d \in {1} |-> [o \in 0 .. 15 |-> o]] }

Req(id, addr, len, size, burst) ==
  [id |-> id, addr |-> addr, len |-> len, size |-> size, burst |-> burst]

(* Single beats, the three burst types, a narrow transfer, a read from no  *)
(* device, the length whose count of beats is 0 (accepted: the test of the *)
(* page then ends one byte before the address), and requests each test of  *)
(* check_axi_req rejects.                                                  *)
MCRequests ==
  { Req(0, 16, 0, 2, "INCR"),  Req(1, 18, 1, 1, "INCR"),  Req(0, 16, 2, 2, "INCR"),
    Req(1, 20, 1, 2, "FIXED"), Req(0, 20, 1, 2, "WRAP"),  Req(1, 23, 3, 0, "WRAP"),
    Req(1, 24, 3, 2, "WRAP"),  Req(0, 48, 0, 2, "INCR"),
    Req(1, 17, 255, 0, "INCR"),
    Req(0, 18, 1, 2, "WRAP"),  Req(0, 16, 2, 2, "WRAP"),  Req(0, 16, 0, 3, "INCR"),
    Req(0, 24, 2, 2, "INCR"),  Req(0, 18, 0, 2, "INCR"),  Req(0, 16, 0, 2, "RESERVED") }

(* A single burst that ends with its page. *)
MCPageRequests == { Req(0, 24, 1, 2, "INCR"), Req(1, 16, 0, 2, "INCR") }
=============================================================================
