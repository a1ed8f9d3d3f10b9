------------------------------ MODULE Harness -------------------------------
(***************************************************************************)
(* The main loop (SimLoop) with the axi_paddr it drives (AxiRead and       *)
(* AxiWrite): what AxiSlave takes for one posedge is spread over several   *)
(* statements of main, among reset half cycles, falling edges, interrupts  *)
(* and comparisons (csrc/diff-main.cpp).                                   *)
(*                                                                         *)
(* axi->reset() runs in the half cycles under reset, calculate_output()    *)
(* before top->eval(), update_output() after it; the master's registers    *)
(* are clocked by top->eval().  An assertion of axi_paddr is what makes    *)
(* Calculate of SimLoop abort the run.  The master keeps rready high.      *)
(***************************************************************************)
EXTENDS AxiBurst

CONSTANTS
  Regs, MaxRetire, RstTicks,                                 \* of SimLoop
  Requests, WriteRequests, WBeats, Delays, FaultModes, LoadedMemories

VARIABLES
  pc, sim_status, handler, rst_ticks, aclk, aresetn, axi_fresh, got_finish,
  commit_num, ahead, bad, interrupted, mismatch, slipped, late_evals

VARIABLES
  r_status, r_req, r_burst_count, r_left_time, r_cur_addr, s_arready, s_r,
  arready, r, r_fault, r_served,
  arvalid, ar, rready, m_out, m_req, m_got, m_stalls,
  w_status, w_req, w_cur_addr, w_cur_data, w_left_time, s_awready, s_wready,
  s_b, awready, wready, b, w_fault,
  awvalid, aw, wvalid, w, bready, m_wout, m_wreq, m_sent, m_wfaulty,
  mem

VARIABLE
  before  \* history: what axi_paddr and the memories held when the last
          \* posedge was complete, while the next one is under way

L == INSTANCE SimLoop
R == INSTANCE AxiRead WITH StallModes <- {FALSE}, StallLimit <- 0
W == INSTANCE AxiWrite

(* What the loop and the two sides of the slave assume of their constants. *)
ASSUME LoopAssumption ==
  L!RegsAssumption /\ L!MaxRetireAssumption /\ L!RstTicksAssumption

ASSUME ReadSideAssumption ==
  /\ R!RequestsAssumption /\ R!WrapAssumption /\ R!DelaysAssumption
  /\ R!LoadedAssumption /\ R!ZeroAssumption /\ R!StallAssumption

ASSUME WriteSideAssumption ==
  /\ W!WriteRequestsAssumption /\ W!WriteWrapAssumption /\ W!WriteTopAssumption
  /\ W!WriteDataAssumption /\ W!WriteEnvAssumption

readSlave == <<r_status, r_req, r_burst_count, r_left_time, r_cur_addr,
               s_arready, s_r, r_fault, r_served>>

writeSlave == <<w_status, w_req, w_cur_addr, w_cur_data, w_left_time,
                s_awready, s_wready, s_b, w_fault>>

(* What top->eval() and update_output() change. *)
shownVars ==
  <<arready, r, arvalid, ar, rready, m_out, m_req, m_got, m_stalls,
    awready, wready, b, awvalid, aw, wvalid, w, bready, m_wout, m_wreq, m_sent,
    m_wfaulty>>

vars ==
  <<pc, sim_status, handler, rst_ticks, aclk, aresetn, axi_fresh, got_finish,
    commit_num, ahead, bad, interrupted, mismatch, slipped, late_evals,
    readSlave, writeSlave, mem, shownVars, before>>

(* What calculate_output() changes. *)
SlaveState ==
  [r_status |-> r_status, r_req |-> r_req, r_burst_count |-> r_burst_count,
   r_left_time |-> r_left_time, r_cur_addr |-> r_cur_addr,
   s_arready |-> s_arready, s_r |-> s_r, r_fault |-> r_fault,
   r_served |-> r_served,
   w_status |-> w_status, w_req |-> w_req, w_cur_addr |-> w_cur_addr,
   w_cur_data |-> w_cur_data, w_left_time |-> w_left_time,
   s_awready |-> s_awready, s_wready |-> s_wready, s_b |-> s_b,
   w_fault |-> w_fault, mem |-> mem]

-----------------------------------------------------------------------------

(* The constructor of axi_paddr sets the pins only: status and outputs hold *)
(* anything until axi->reset().                                            *)
Init ==
  /\ L!Init
  /\ r_status \in {"r_idel", "r_req_ok", "r_wait_last"}
  /\ w_status \in {"w_idel", "w_req_ok", "w_data_ok", "w_wait_back"}
  /\ \E any \in BOOLEAN :
       /\ s_arready = any /\ s_r = [R!IdleR EXCEPT !.valid = any]
       /\ s_awready = any /\ s_wready = any /\ s_b = [W!IdleB EXCEPT !.valid = any]
  /\ R!Allocated
  /\ W!Allocated
  /\ before = SlaveState

(* Mutant: the write side is forgotten. *)
ResetReadOnly ==
  /\ r_status' = "r_idel"
  /\ R!IdelWaitRead
  /\ UNCHANGED <<r_req, r_burst_count, r_left_time, r_cur_addr, r_fault, r_served>>
  /\ UNCHANGED writeSlave

(* axi_paddr::reset(); the rest of a transaction stays as it is. *)
AxiReset ==
  /\ r_status' = "r_idel"
  /\ R!IdelWaitRead
  /\ w_status' = "w_idel"
  /\ W!IdelWaitWrite
  /\ UNCHANGED <<r_req, r_burst_count, r_left_time, r_cur_addr, r_fault, r_served>>
  /\ UNCHANGED <<w_req, w_cur_addr, w_cur_data, w_left_time, w_fault>>

Clock ==
  /\ L!Clock
  /\ IF rst_ticks > 0 THEN AxiReset ELSE UNCHANGED <<readSlave, writeSlave>>
  /\ UNCHANGED <<mem, shownVars>>
  /\ before' = SlaveState'

(* axi->calculate_output(): read_eval, write_eval; __ASSERT_SIM__ writes    *)
(* sim_status.                                                             *)
Calculate ==
  /\ L!Calculate
  /\ R!ReadEval
  /\ W!WriteEval
  /\ sim_status' = IF r_fault' \/ w_fault' THEN "SIM_ABORT" ELSE sim_status
  /\ UNCHANGED shownVars
  /\ before' = SlaveState

(* top->eval(), v_confreg->tick(), axi->update_output() *)
Eval ==
  /\ L!Eval
  /\ R!MasterStep /\ W!MasterStep
  /\ UNCHANGED <<readSlave, writeSlave, mem>>
  /\ R!UpdateReadOutput /\ W!UpdateWriteOutput
  /\ before' = SlaveState'

(* Mutant: SIM_ABORT does not end the loop. *)
RestIgnoresStatus ==
  /\ \/ L!InstallHandler \/ L!Setup \/ L!StartLoop \/ L!LoopHead
     \/ L!StatusIgnored \/ L!Retire \/ L!ExecReference \/ L!Compare
     \/ L!Negedge \/ L!Tick
  /\ UNCHANGED <<readSlave, writeSlave, mem, shownVars, before>>

(* The statements of main that do not touch axi_paddr. *)
Rest ==
  /\ \/ L!InstallHandler \/ L!Setup \/ L!StartLoop \/ L!LoopHead
     \/ L!TestStatus \/ L!Retire \/ L!ExecReference \/ L!Compare
     \/ L!Negedge \/ L!Tick
  /\ UNCHANGED <<readSlave, writeSlave, mem, shownVars, before>>

Main == Clock \/ Calculate \/ Eval \/ Rest

Interrupt ==
  /\ L!Interrupt
  /\ UNCHANGED <<readSlave, writeSlave, mem, shownVars, before>>

Terminated == pc = "done" /\ UNCHANGED vars

Next == Main \/ Interrupt \/ Terminated

Spec == Init /\ [][Next]_vars

FairSpec == Spec /\ WF_vars(Main)

-----------------------------------------------------------------------------

(* The refinement mapping: a posedge of AxiSlave has happened when          *)
(* update_output() has; before the first axi->reset() the status and the    *)
(* outputs stand for those it is about to set.                             *)
Shown ==
  IF rst_ticks < RstTicks THEN before
  ELSE [before EXCEPT !.r_status = "r_idel", !.s_arready = TRUE, !.s_r = R!IdleR,
                      !.w_status = "w_idel", !.s_awready = TRUE,
                      !.s_wready = FALSE, !.s_b = W!IdleB]

Slave == INSTANCE AxiSlave WITH
  StallModes <- {FALSE}, StallLimit <- 0,
  r_status <- Shown.r_status, r_req <- Shown.r_req,
  r_burst_count <- Shown.r_burst_count, r_left_time <- Shown.r_left_time,
  r_cur_addr <- Shown.r_cur_addr, s_arready <- Shown.s_arready,
  s_r <- Shown.s_r, r_fault <- Shown.r_fault, r_served <- Shown.r_served,
  w_status <- Shown.w_status, w_req <- Shown.w_req,
  w_cur_addr <- Shown.w_cur_addr, w_cur_data <- Shown.w_cur_data,
  w_left_time <- Shown.w_left_time, s_awready <- Shown.s_awready,
  s_wready <- Shown.s_wready, s_b <- Shown.s_b, w_fault <- Shown.w_fault,
  mem <- Shown.mem

(* main drives axi_paddr as AxiSlave assumes: from its reset state whatever
   the allocation left in it, one whole posedge at a time, never one more
   after an assertion, and not disturbed by reset half cycles, falling edges,
   interrupts or failed comparisons.  With ImplementsBus the loop as a whole
   gives the processor an atomic memory bus. *)
ImplementsSlave == Slave!Spec

(* Once an assertion of axi_paddr has fired, the offending transaction is not
   acted on: no memory changes, and the reference executes nothing more. *)
AbortFreezes ==
  [][ r_fault \/ w_fault => mem' = mem /\ ahead' >= ahead ]_vars

(* A read that was taken is answered while the loop runs, through half cycles
   that do not clock the slave, as long as nobody ends the run. *)
ReadAnswered == m_out ~> (~ m_out \/ pc = "done")
=============================================================================
