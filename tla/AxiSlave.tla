------------------------------ MODULE AxiSlave ------------------------------
(***************************************************************************)
(* The whole of axi_paddr: calculate_output runs read_eval and then        *)
(* write_eval, in the same posedge and on the same memories, and the two   *)
(* sides share nothing else.  An assertion of either stops both.           *)
(***************************************************************************)
EXTENDS AxiBurst

CONSTANTS Requests, WriteRequests, WBeats, Delays, StallModes, StallLimit,
          FaultModes, LoadedMemories

VARIABLES
  r_status, r_req, r_burst_count, r_left_time, r_cur_addr, s_arready, s_r,
  arready, r, r_fault, r_served,
  arvalid, ar, rready, m_out, m_req, m_got, m_stalls,
  w_status, w_req, w_cur_addr, w_cur_data, w_left_time, s_awready, s_wready,
  s_b, awready, wready, b, w_fault,
  awvalid, aw, wvalid, w, bready, m_wout, m_wreq, m_sent, m_wfaulty,
  mem

R == INSTANCE AxiRead
W == INSTANCE AxiWrite

(* What the two sides assume of their requests, delays and memories. *)
ASSUME ReadSideAssumption ==
  /\ R!RequestsAssumption /\ R!WrapAssumption /\ R!DelaysAssumption
  /\ R!LoadedAssumption /\ R!ZeroAssumption /\ R!StallAssumption

ASSUME WriteSideAssumption ==
  /\ W!WriteRequestsAssumption /\ W!WriteWrapAssumption /\ W!WriteTopAssumption
  /\ W!WriteDataAssumption /\ W!WriteEnvAssumption

vars ==
  <<r_status, r_req, r_burst_count, r_left_time, r_cur_addr, s_arready, s_r,
    arready, r, r_fault, r_served,
    arvalid, ar, rready, m_out, m_req, m_got, m_stalls,
    w_status, w_req, w_cur_addr, w_cur_data, w_left_time, s_awready, s_wready,
    s_b, awready, wready, b, w_fault,
    awvalid, aw, wvalid, w, bready, m_wout, m_wreq, m_sent, m_wfaulty,
    mem>>

(* sim_status # SIM_RUN *)
Aborted == r_fault \/ w_fault

Init == R!Init /\ W!Init

(* read_eval comes first: it sees the memories as they were before a write *)
(* that is committed in the same posedge.                                  *)
Posedge ==
  /\ ~ Aborted
  /\ R!ReadClock
  /\ W!WriteClock

Stopped == Aborted /\ UNCHANGED vars

Next == Posedge \/ Stopped

Spec == Init /\ [][Next]_vars

-----------------------------------------------------------------------------

(* The refinement mapping: what the master has been shown so far. *)
Free == [req |-> "none"]

ShownBeat ==
  IF ~ r.valid
  THEN [resp |-> "none", data |-> <<>>]
  ELSE [resp |-> r.resp,
        data |-> IF r.resp = "DECERR" THEN <<>>
                 ELSE [l \in 0 .. BeatBytes(r_req) - 1 |-> r.data[l]]]

AbstractRead ==
  IF ~ m_out THEN Free
  ELSE [req |-> m_req, n |-> r_served, beat |-> ShownBeat, last |-> r.last]

AbstractWrite ==
  IF ~ m_wout THEN Free
  ELSE [req |-> m_wreq, sent |-> m_sent,
        resp |-> IF b.valid THEN b.resp ELSE "none"]

Bus == INSTANCE MemoryBus WITH store <- mem, rd <- AbstractRead, wr <- AbstractWrite

(* axi_paddr implements a bus whose write bursts are atomic: whatever the two
   sides do in the same posedge, a read beat shows none or all of a write
   burst, never a part of one; it shows all of it once the response is up;
   and every beat shows the memories at its own address and its own time. *)
ImplementsBus == Bus!Spec
=============================================================================
