------------------------------ MODULE AxiBurst ------------------------------
(***************************************************************************)
(* AXI requests and the addresses of their beats, as axi_paddr computes    *)
(* them (csrc/axi.cpp).  The same formulas serve the read and the write    *)
(* side.  A request is what the AR or AW channel carries.                  *)
(***************************************************************************)
EXTENDS Pmem

CONSTANTS
  PageSize,   \* 4096: a burst must not leave its page
  Ids         \* transaction ids

ASSUME PageSizeAssumption == PageSize \in Nat \ {0}

BurstTypes == {"FIXED", "INCR", "WRAP", "RESERVED"}

(* len and size are raw pin values: 8 and 3 bits wide. *)
RequestType ==
  [id : Ids, addr : Word, len : 0 .. 255, size : 0 .. 7, burst : BurstTypes]

(* num_bytes = 1 << size *)
BeatBytes(req) == <<1, 2, 4, 8, 16, 32, 64, 128>>[req.size + 1]

(* r_burst_count and w_burst_count are uint8_t: len + 1 = 256 becomes 0. *)
Beats(req) == (req.len + 1) % 256

AlignedAddr(req) == req.addr - (req.addr % BeatBytes(req))

Aligned(req) == req.addr = AlignedAddr(req)

(* The first and last byte of the burst as check_axi_req sees them, in     *)
(* word_t arithmetic.                                                      *)
StaysInPage(req) ==
  AlignedAddr(req) \div PageSize =
    ((AlignedAddr(req) + BeatBytes(req) * Beats(req) - 1) % AddrSpace)
      \div PageSize

(* check_axi_req: FALSE where one of its __ASSERT_SIM__ fires. The last    *)
(* test applies unless the beat count is 0.                                *)
CheckAxiReq(req) ==
  /\ BeatBytes(req) <= BusBytes
  /\ req.burst # "RESERVED"
  /\ req.burst = "WRAP" => Aligned(req) /\ Beats(req) \in {2, 4, 8, 16}
  /\ req.burst # "WRAP" => /\ StaysInPage(req)
                           /\ Beats(req) # 0 => Aligned(req)

(* wrap_off_mask + 1 and wrap_bound; both are powers of two apart, so      *)
(*  (x & wrap_off_mask) | wrap_bound  is a sum.                            *)
WrapTotal(req) == Beats(req) * BeatBytes(req)

WrapBound(req) == req.addr - (req.addr % WrapTotal(req))

(* The address of the beat after the one at a. *)
NextAddr(req, a) ==
  CASE req.burst = "INCR" -> (a + BeatBytes(req)) % AddrSpace
    [] req.burst = "WRAP" -> WrapBound(req) + ((a + BeatBytes(req)) % WrapTotal(req))
    [] OTHER -> a

(* The reference: the address of beat i (from 0) by the AXI rules, with no *)
(* state carried from beat to beat.                                        *)
BeatAddr(req, i) ==
  CASE req.burst = "INCR" -> (req.addr + i * BeatBytes(req)) % AddrSpace
    [] req.burst = "WRAP" ->
         WrapBound(req) + ((req.addr + i * BeatBytes(req)) % WrapTotal(req))
    [] OTHER -> req.addr
=============================================================================
