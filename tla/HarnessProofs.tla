---------------------------- MODULE HarnessProofs ---------------------------
(***************************************************************************)
(* Proofs about Harness, for every device, request, delay and register:    *)
(* an assertion of axi_paddr leaves main no statement but the rest of its  *)
(* posedge, so nothing acts on the offending transaction any more.         *)
(*                                                                         *)
(* And the refinement: every behaviour is one of SimLoop, and, seen from   *)
(* the slave, one of AxiSlave, so of MemoryBus.  LinkInv says how far the  *)
(* posedge under way has come at each statement of main; ReadDone and      *)
(* WriteDone are read_eval and write_eval as relations between two states  *)
(* of the slave, because `before' and the variables of axi_paddr are one   *)
(* posedge apart without being one step apart.                             *)
(***************************************************************************)
EXTENDS Harness, TLAPS

Fault == r_fault \/ w_fault

(* Where main can be after an assertion has fired. *)
FaultInv ==
  /\ Fault => sim_status = "SIM_ABORT" /\ pc \in {"eval", "status", "done"}
  /\ ahead \in Int /\ commit_num \in Nat

USE DEF readSlave, writeSlave, shownVars, L!Goto, L!clockVars, L!dutVars, L!seenVars

(* What LoopAssumption says of the loop's constants, in numbers. *)
LEMMA LoopConstants == MaxRetire \in Nat \ {0} /\ RstTicks \in Nat /\ RstTicks > 0
<1>1. MaxRetire \in Nat \ {0} /\ RstTicks \in Nat /\ RstTicks % 2 = 1
  BY LoopAssumption DEF L!MaxRetireAssumption, L!RstTicksAssumption
<1>2. RstTicks # 0
  <2>1. 0 % 2 = 0
    OBVIOUS
  <2>2. QED
    BY <1>1, <2>1
<1>3. QED
  BY <1>1, <1>2

(* Nothing has fired before main starts. *)
LEMMA InitFaultInv == Init => FaultInv
BY DEF Init, L!Init, R!Allocated, W!Allocated, FaultInv, Fault

(* Only calculate_output lets an assertion fire. *)
LEMMA OthersKeepFault ==
  ASSUME Clock \/ Rest \/ Interrupt \/ Eval \/ UNCHANGED vars
  PROVE  r_fault' = r_fault /\ w_fault' = w_fault
BY DEF Clock, AxiReset, Rest, Interrupt, Eval, vars

(* No statement of main takes the status back to SIM_RUN once the loop runs,
   and the first one that looks at it leaves. *)
LEMMA NextKeepsFaultInv == FaultInv /\ [Next]_vars => FaultInv'
<1> SUFFICES ASSUME FaultInv, [Next]_vars PROVE FaultInv'
  OBVIOUS
<1>1. CASE Calculate
  BY <1>1 DEF Calculate, L!Calculate, FaultInv, Fault
<1>2. CASE Eval
  <2>1. ahead' \in Int /\ commit_num' \in Nat
    <3>1. PICK n \in 0 .. MaxRetire : commit_num' = n /\ ahead' = ahead + n
      BY <1>2 DEF Eval, L!Eval
    <3>2. QED
      BY <3>1, LoopConstants DEF FaultInv
  <2>2. pc' = "status" /\ sim_status' = sim_status
    BY <1>2 DEF Eval, L!Eval
  <2>3. QED
    BY <1>2, <2>1, <2>2, OthersKeepFault DEF FaultInv, Fault
<1>3. CASE Clock
  <2>1. UNCHANGED <<sim_status, ahead, commit_num>> /\ pc = "clock"
    BY <1>3 DEF Clock, L!Clock, L!ClockAfter
  <2>2. QED
    BY <1>3, <2>1, OthersKeepFault DEF FaultInv, Fault
<1>4. CASE Rest
  <2>1. ahead' \in Int /\ commit_num' \in Nat
    <3>1. ahead \in Int /\ commit_num \in Nat
      BY DEF FaultInv
    <3>2. CASE L!ExecReference
      <4>1. ahead' = ahead - commit_num /\ commit_num' = commit_num
        BY <3>2 DEF L!ExecReference
      <4>2. QED
        BY <3>1, <4>1
    <3>3. CASE ~ L!ExecReference
      <4>1. ahead' = ahead /\ commit_num' = commit_num
        BY <1>4, <3>3 DEF Rest, L!InstallHandler, L!Setup, L!StartLoop, L!LoopHead,
           L!TestStatus, L!Retire, L!Compare, L!Negedge, L!Tick
      <4>2. QED
        BY <3>1, <4>1
    <3>4. QED
      BY <3>2, <3>3
  <2>2. Fault => sim_status' = "SIM_ABORT" /\ pc' = "done"
    BY <1>4 DEF Rest, L!InstallHandler, L!Setup, L!StartLoop, L!LoopHead,
       L!TestStatus, L!Retire, L!ExecReference, L!Compare, L!Negedge, L!Tick, FaultInv
  <2>3. QED
    BY <1>4, <2>1, <2>2, OthersKeepFault DEF FaultInv, Fault
<1>5. CASE Interrupt
  <2>1. UNCHANGED <<pc, ahead, commit_num>> /\ sim_status' = "SIM_ABORT"
    BY <1>5 DEF Interrupt, L!Interrupt
  <2>2. QED
    BY <1>5, <2>1, OthersKeepFault DEF FaultInv, Fault
<1>6. CASE UNCHANGED vars
  BY <1>6 DEF vars, FaultInv, Fault
<1>7. QED
  BY <1>1, <1>2, <1>3, <1>4, <1>5, <1>6 DEF Next, Main, Terminated

(* After an assertion the only statements left are the ones of its own posedge
   and the test of the status. *)
THEOREM HarnessFaultInvariant == Spec => []FaultInv
BY InitFaultInv, NextKeepsFaultInv, PTL DEF Spec

(* A step after an assertion writes no memory and executes nothing on the
   reference. *)
LEMMA StepFreezes ==
  ASSUME FaultInv, [Next]_vars, Fault
  PROVE  mem' = mem /\ ahead' >= ahead
<1>1. pc \in {"eval", "status", "done"} /\ ahead \in Int
  BY DEF FaultInv
<1>2. CASE Eval
  <2>1. PICK n \in 0 .. MaxRetire : ahead' = ahead + n
    BY <1>2 DEF Eval, L!Eval
  <2>2. mem' = mem
    BY <1>2 DEF Eval
  <2>3. QED
    BY <1>1, <2>1, <2>2, LoopConstants
<1>3. CASE Rest
  <2>1. mem' = mem /\ ahead' = ahead
    BY <1>1, <1>3 DEF Rest, L!InstallHandler, L!Setup, L!StartLoop, L!LoopHead,
       L!TestStatus, L!Retire, L!ExecReference, L!Compare, L!Negedge, L!Tick
  <2>2. QED
    BY <1>1, <2>1
<1>4. CASE Interrupt \/ UNCHANGED vars
  <2>1. mem' = mem /\ ahead' = ahead
    BY <1>4 DEF Interrupt, L!Interrupt, vars
  <2>2. QED
    BY <1>1, <2>1
<1>5. ~ Calculate /\ ~ Clock
  BY <1>1 DEF Calculate, L!Calculate, Clock, L!Clock, L!ClockAfter
<1>6. QED
  BY <1>2, <1>3, <1>4, <1>5 DEF Next, Main, Terminated

(* Once an assertion of axi_paddr has fired, the offending transaction is not
   acted on: no memory changes, and the reference executes nothing more. *)
THEOREM HarnessAbortFreezes == Spec => AbortFreezes
<1>1. FaultInv /\ [Next]_vars => [Fault => mem' = mem /\ ahead' >= ahead]_vars
  BY StepFreezes
<1>2. QED
  BY <1>1, HarnessFaultInvariant, PTL DEF Spec, AbortFreezes, Fault
-----------------------------------------------------------------------------

(* main with axi_paddr is main as SimLoop describes it. *)
LEMMA StepIsLoopStep == [Next]_vars => [L!Next]_(L!vars)
<1> SUFFICES ASSUME [Next]_vars PROVE [L!Next]_(L!vars)
  OBVIOUS
<1>1. CASE Clock
  BY <1>1 DEF Clock, L!Next, L!Main
<1>2. CASE Calculate
  BY <1>2 DEF Calculate, L!Next, L!Main
<1>3. CASE Eval
  BY <1>3 DEF Eval, L!Next, L!Main
<1>4. CASE Rest
  BY <1>4 DEF Rest, L!Next, L!Main
<1>5. CASE Interrupt
  BY <1>5 DEF Interrupt, L!Next
<1>6. CASE UNCHANGED vars
  BY <1>6 DEF vars, L!vars
<1>7. QED
  BY <1>1, <1>2, <1>3, <1>4, <1>5, <1>6 DEF Next, Main, Terminated

(* Every behaviour of Harness is one of SimLoop: axi_paddr adds no order of
   statements to main, whatever its assertions do. *)
THEOREM HarnessIsLoop == Spec => L!Spec
<1>1. Init => L!Init
  BY DEF Init
<1>2. QED
  BY <1>1, StepIsLoopStep, PTL DEF Spec, L!Spec

(* What the constructor leaves of axi_paddr is shown as a slave after reset. *)
LEMMA InitShown == Init => Slave!Init
<1> SUFFICES ASSUME Init PROVE Slave!Init
  OBVIOUS
<1>1. rst_ticks = RstTicks /\ before = SlaveState
  BY DEF Init, L!Init
<1>2. Shown = [before EXCEPT !.r_status = "r_idel", !.s_arready = TRUE, !.s_r = R!IdleR,
                      !.w_status = "w_idel", !.s_awready = TRUE,
                      !.s_wready = FALSE, !.s_b = W!IdleB]
  BY <1>1, LoopConstants DEF Shown
<1>3. /\ Shown.r_status = "r_idel" /\ Shown.s_arready = TRUE /\ Shown.s_r = R!IdleR
      /\ Shown.r_req = r_req /\ Shown.r_burst_count = r_burst_count
      /\ Shown.r_left_time = r_left_time /\ Shown.r_cur_addr = r_cur_addr
      /\ Shown.r_fault = r_fault /\ Shown.r_served = r_served
      /\ Shown.mem = mem
  BY <1>1, <1>2 DEF SlaveState
<1>4. Slave!R!Init
  BY <1>3 DEF Init, R!Allocated, R!IdleR, R!Lanes, Slave!R!Init, Slave!R!Allocated,
              Slave!R!IdleR, Slave!R!Lanes
<1>5. /\ Shown.w_status = "w_idel" /\ Shown.s_awready = TRUE /\ Shown.s_wready = FALSE
      /\ Shown.s_b = W!IdleB /\ Shown.w_req = w_req /\ Shown.w_cur_addr = w_cur_addr
      /\ Shown.w_cur_data = w_cur_data /\ Shown.w_left_time = w_left_time
      /\ Shown.w_fault = w_fault /\ Shown.mem = mem
  BY <1>1, <1>2 DEF SlaveState
<1>6. Slave!W!Init
  BY <1>5 DEF Init, W!Allocated, W!IdleW, W!IdleB, W!Lanes, Slave!W!Init, Slave!W!Allocated,
              Slave!W!IdleW, Slave!W!IdleB, Slave!W!Lanes
<1>7. QED
  BY <1>4, <1>6 DEF Slave!Init

-----------------------------------------------------------------------------
(* While a posedge is under way `before' and the variables of axi_paddr are
   related by read_eval and write_eval: p before, q after. *)
KeepRequest(p, q) ==
  /\ q.r_req = p.r_req /\ q.r_left_time = p.r_left_time
  /\ q.s_arready = p.s_arready /\ q.r_fault = p.r_fault

ReadServe(p, q) ==
  LET res == BusRead(p.mem, p.r_cur_addr, BeatBytes(p.r_req), p.s_r.data)
  IN  /\ q.s_r = [valid |-> TRUE,
                  last  |-> p.r_burst_count = 0,
                  id    |-> p.r_req.id,
                  resp  |-> IF res.ok THEN "OKEY" ELSE "DECERR",
                  data  |-> res.data]
      /\ q.r_burst_count = (p.r_burst_count - 1) % 256
      /\ q.r_cur_addr = NextAddr(p.r_req, p.r_cur_addr)
      /\ q.r_served = p.r_served + 1
      /\ q.r_status = "r_wait_last"
      /\ KeepRequest(p, q)

ReadDone(p, q) ==
  \/ /\ p.r_status = "r_idel" /\ ~ arvalid
     /\ q.r_status = p.r_status /\ q.s_r = p.s_r
     /\ q.r_burst_count = p.r_burst_count /\ q.r_cur_addr = p.r_cur_addr
     /\ q.r_served = p.r_served /\ KeepRequest(p, q)
  \/ /\ p.r_status = "r_idel" /\ arvalid
     /\ q.r_status = "r_req_ok" /\ q.r_req = ar /\ q.r_burst_count = Beats(ar)
     /\ q.r_cur_addr = ar.addr /\ q.r_left_time \in Delays /\ q.s_arready = FALSE
     /\ q.r_fault = (p.r_fault \/ ~ CheckAxiReq(ar)) /\ q.r_served = 0
     /\ q.s_r = p.s_r
  \/ /\ p.r_status = "r_req_ok" /\ p.r_left_time > 0
     /\ q.r_left_time = p.r_left_time - 1
     /\ q.r_status = p.r_status /\ q.r_req = p.r_req
     /\ q.r_burst_count = p.r_burst_count /\ q.r_cur_addr = p.r_cur_addr
     /\ q.s_arready = p.s_arready /\ q.s_r = p.s_r
     /\ q.r_fault = p.r_fault /\ q.r_served = p.r_served
  \/ p.r_status = "r_req_ok" /\ p.r_left_time = 0 /\ ReadServe(p, q)
  \/ p.r_status = "r_wait_last" /\ ~ (rready /\ r.last) /\ ReadServe(p, q)
  \/ /\ p.r_status = "r_wait_last" /\ rready /\ r.last
     /\ q.r_status = "r_idel" /\ q.s_r = R!IdleR /\ q.s_arready = TRUE
     /\ q.r_req = p.r_req /\ q.r_burst_count = p.r_burst_count
     /\ q.r_left_time = p.r_left_time /\ q.r_cur_addr = p.r_cur_addr
     /\ q.r_fault = p.r_fault /\ q.r_served = p.r_served

(* AxiRead and AxiSlave use the operators of AxiBurst. *)
LEMMA ReadOperators ==
  /\ \A req : R!BeatBytes(req) = BeatBytes(req) /\ Slave!R!BeatBytes(req) = BeatBytes(req)
  /\ \A m, a, n, o : /\ R!BusRead(m, a, n, o) = BusRead(m, a, n, o)
                    /\ Slave!R!BusRead(m, a, n, o) = BusRead(m, a, n, o)
  /\ \A req, a : /\ R!NextAddr(req, a) = NextAddr(req, a)
                 /\ Slave!R!NextAddr(req, a) = NextAddr(req, a)
<1>1. \A req : R!BeatBytes(req) = BeatBytes(req) /\ Slave!R!BeatBytes(req) = BeatBytes(req)
  BY DEF R!BeatBytes, Slave!R!BeatBytes, BeatBytes
<1>2. ASSUME NEW m, NEW a, NEW n, NEW o
      PROVE  /\ R!BusRead(m, a, n, o) = BusRead(m, a, n, o)
             /\ Slave!R!BusRead(m, a, n, o) = BusRead(m, a, n, o)
  BY Zenon DEF R!BusRead, R!PmemRead, R!Lanes, R!Route, R!Containing, R!Contains,
     R!IntvEnd, R!Offset, Slave!R!BusRead, Slave!R!PmemRead, Slave!R!Lanes,
     Slave!R!Route, Slave!R!Containing, Slave!R!Contains, Slave!R!IntvEnd,
     Slave!R!Offset,
     BusRead, PmemRead, Lanes, Route, Containing, Contains, IntvEnd, Offset
<1>3. ASSUME NEW req, NEW a
      PROVE  /\ R!NextAddr(req, a) = NextAddr(req, a)
             /\ Slave!R!NextAddr(req, a) = NextAddr(req, a)
  BY Zenon DEF R!NextAddr, R!WrapBound, R!WrapTotal, R!Beats, R!BeatBytes,
     Slave!R!NextAddr, Slave!R!WrapBound, Slave!R!WrapTotal, Slave!R!Beats,
     Slave!R!BeatBytes, NextAddr, WrapBound, WrapTotal, Beats, BeatBytes
<1>4. QED
  BY <1>1, <1>2, <1>3

(* read_eval does it, and what it does is a read_eval of AxiSlave. *)
LEMMA ReadEvalDone == R!ReadEval => ReadDone(SlaveState, SlaveState')
<1> DEFINE p == SlaveState
           q == SlaveState'
<1>1. /\ p.r_status = r_status /\ p.r_req = r_req /\ p.r_burst_count = r_burst_count
      /\ p.r_left_time = r_left_time /\ p.r_cur_addr = r_cur_addr
      /\ p.s_arready = s_arready /\ p.s_r = s_r /\ p.r_fault = r_fault
      /\ p.r_served = r_served /\ p.mem = mem
  BY DEF SlaveState
<1>2. /\ q.r_status = r_status' /\ q.r_req = r_req' /\ q.r_burst_count = r_burst_count'
      /\ q.r_left_time = r_left_time' /\ q.r_cur_addr = r_cur_addr'
      /\ q.s_arready = s_arready' /\ q.s_r = s_r' /\ q.r_fault = r_fault'
      /\ q.r_served = r_served' /\ q.mem = mem'
  BY DEF SlaveState
<1> HIDE DEF p, q
<1>3. ASSUME R!DoOnceRead, r_status' = "r_wait_last",
             UNCHANGED <<r_req, r_left_time, s_arready, r_fault>>
      PROVE  ReadServe(p, q)
  <2>1. R!DoOnceRead <=>
          LET res == BusRead(p.mem, p.r_cur_addr, BeatBytes(p.r_req), p.s_r.data)
          IN  /\ s_r' = [valid |-> TRUE, last |-> r_burst_count = 0, id |-> r_req.id,
                         resp |-> IF res.ok THEN "OKEY" ELSE "DECERR",
                         data |-> res.data]
              /\ r_burst_count' = (r_burst_count - 1) % 256
              /\ r_cur_addr' = NextAddr(p.r_req, p.r_cur_addr)
              /\ r_served' = r_served + 1
    BY <1>1, ReadOperators DEF R!DoOnceRead, R!Serve
  <2>2. QED
    BY <1>1, <1>2, <1>3, <2>1 DEF ReadServe, KeepRequest
<1>4. SUFFICES ASSUME R!ReadEval PROVE ReadDone(p, q)
  BY DEF p, q
<1>5. CASE R!ReadIdle
  BY <1>1, <1>2, <1>5 DEF R!ReadIdle, R!slaveVars, ReadDone, KeepRequest
<1>6. CASE R!ReadAccept
  <2>1. R!Beats(ar) = Beats(ar)
    BY DEF R!Beats, Beats
  <2>2. R!CheckAxiReq(ar) <=> CheckAxiReq(ar)
    BY Zenon DEF R!CheckAxiReq, R!Aligned, R!AlignedAddr, R!StaysInPage, R!BeatBytes,
       R!Beats, CheckAxiReq, Aligned, AlignedAddr, StaysInPage, BeatBytes, Beats
  <2>3. /\ r_status = "r_idel" /\ arvalid /\ r_status' = "r_req_ok" /\ r_req' = ar
        /\ r_burst_count' = Beats(ar) /\ r_cur_addr' = ar.addr
        /\ r_left_time' \in Delays /\ s_arready' = FALSE /\ r_served' = 0 /\ s_r' = s_r
        /\ r_fault' = (r_fault \/ ~ CheckAxiReq(ar))
    BY <1>6, <2>1, <2>2 DEF R!ReadAccept, R!AcceptReadReq
  <2>4. QED
    BY <1>1, <1>2, <2>3 DEF ReadDone
<1>7. CASE R!ReadDelay
  BY <1>1, <1>2, <1>7 DEF R!ReadDelay, ReadDone
<1>8. CASE R!ReadFirst
  BY <1>1, <1>3, <1>8 DEF R!ReadFirst, ReadDone
<1>9. CASE R!ReadMore
  BY <1>1, <1>3, <1>9 DEF R!ReadMore, ReadDone
<1>10. CASE R!ReadFinish
  BY <1>1, <1>2, <1>10 DEF R!ReadFinish, R!BackToIdle, R!IdelWaitRead, ReadDone
<1>11. QED
  BY <1>4, <1>5, <1>6, <1>7, <1>8, <1>9, <1>10 DEF R!ReadEval

(* and what ReadDone says of the states shown is read_eval of the slave. *)
LEMMA ReadDoneEval == ReadDone(Shown, Shown') => Slave!R!ReadEval
<1> SUFFICES ASSUME ReadDone(Shown, Shown') PROVE Slave!R!ReadEval
  OBVIOUS
<1> DEFINE p == Shown
           q == Shown'
<1>3. ASSUME ReadServe(p, q)
      PROVE  /\ Slave!R!DoOnceRead /\ q.r_status = "r_wait_last"
             /\ /\ q.r_req = p.r_req /\ q.r_left_time = p.r_left_time
             /\ q.s_arready = p.s_arready /\ q.r_fault = p.r_fault
  BY <1>3, ReadOperators DEF ReadServe, KeepRequest, Slave!R!DoOnceRead, Slave!R!Serve
<1>5. CASE /\ p.r_status = "r_idel" /\ ~ arvalid
           /\ q.r_status = p.r_status /\ q.s_r = p.s_r
           /\ q.r_burst_count = p.r_burst_count /\ q.r_cur_addr = p.r_cur_addr
           /\ q.r_served = p.r_served /\ KeepRequest(p, q)
  <2>1. Slave!R!ReadIdle
    BY <1>5 DEF Slave!R!ReadIdle, Slave!R!slaveVars, KeepRequest
  <2>2. QED
    BY <2>1 DEF Slave!R!ReadEval
<1>6. CASE /\ p.r_status = "r_idel" /\ arvalid
           /\ q.r_status = "r_req_ok" /\ q.r_req = ar /\ q.r_burst_count = Beats(ar)
           /\ q.r_cur_addr = ar.addr /\ q.r_left_time \in Delays /\ q.s_arready = FALSE
           /\ q.r_fault = (p.r_fault \/ ~ CheckAxiReq(ar)) /\ q.r_served = 0
           /\ q.s_r = p.s_r
  <2>1. Slave!R!ReadAccept
    BY <1>6, Zenon DEF Slave!R!ReadAccept, Slave!R!AcceptReadReq, Slave!R!Beats,
       Slave!R!CheckAxiReq, Slave!R!Aligned, Slave!R!AlignedAddr, Slave!R!StaysInPage,
       Slave!R!BeatBytes, Beats, CheckAxiReq, Aligned, AlignedAddr, StaysInPage,
       BeatBytes
  <2>2. QED
    BY <2>1 DEF Slave!R!ReadEval
<1>7. CASE /\ p.r_status = "r_req_ok" /\ p.r_left_time > 0
           /\ q.r_left_time = p.r_left_time - 1
           /\ q.r_status = p.r_status /\ q.r_req = p.r_req
           /\ q.r_burst_count = p.r_burst_count /\ q.r_cur_addr = p.r_cur_addr
           /\ q.s_arready = p.s_arready /\ q.s_r = p.s_r
           /\ q.r_fault = p.r_fault /\ q.r_served = p.r_served
  <2>1. Slave!R!ReadDelay
    BY <1>7 DEF Slave!R!ReadDelay
  <2>2. QED
    BY <2>1 DEF Slave!R!ReadEval
<1>8. CASE p.r_status = "r_req_ok" /\ p.r_left_time = 0 /\ ReadServe(p, q)
  <2>1. Slave!R!ReadFirst
    BY <1>3, <1>8 DEF Slave!R!ReadFirst
  <2>2. QED
    BY <2>1 DEF Slave!R!ReadEval
<1>9. CASE p.r_status = "r_wait_last" /\ ~ (rready /\ r.last) /\ ReadServe(p, q)
  <2>1. Slave!R!ReadMore
    BY <1>3, <1>9 DEF Slave!R!ReadMore
  <2>2. QED
    BY <2>1 DEF Slave!R!ReadEval
<1>10. CASE /\ p.r_status = "r_wait_last" /\ rready /\ r.last
            /\ q.r_status = "r_idel" /\ q.s_r = R!IdleR /\ q.s_arready = TRUE
            /\ q.r_req = p.r_req /\ q.r_burst_count = p.r_burst_count
            /\ q.r_left_time = p.r_left_time /\ q.r_cur_addr = p.r_cur_addr
            /\ q.r_fault = p.r_fault /\ q.r_served = p.r_served
  <2>1. Slave!R!ReadFinish
    BY <1>10 DEF Slave!R!ReadFinish, Slave!R!BackToIdle, Slave!R!IdelWaitRead,
       Slave!R!IdleR, Slave!R!Lanes, R!IdleR, R!Lanes
  <2>2. QED
    BY <2>1 DEF Slave!R!ReadEval
<1>11. QED
  BY <1>5, <1>6, <1>7, <1>8, <1>9, <1>10 DEF ReadDone


(* The memories and the verdict after n beats of a burst, as WrittenUpTo of
   AxiWrite defines them for the variables of one slave. *)
WrittenOf(m, addr, req, data, n) ==
  LET f[i \in Nat] ==
        IF i = 0 THEN [ok |-> TRUE, mem |-> m]
        ELSE LET done == f[i - 1]
                 this == BusWrite(done.mem, addr[i], BeatBytes(req),
                                  data[i].strb, data[i].data)
             IN  [ok |-> done.ok /\ this.ok, mem |-> this.mem]
  IN  f[n]

(* What the statements that take no beat leave alone. *)
KeepBurst(p, q) ==
  /\ q.w_req = p.w_req /\ q.w_cur_addr = p.w_cur_addr /\ q.w_cur_data = p.w_cur_data
  /\ q.w_fault = p.w_fault

KeepOutputs(p, q) ==
  q.s_awready = p.s_awready /\ q.s_wready = p.s_wready /\ q.s_b = p.s_b

WriteAccepted(p, q) ==
  /\ p.w_status = "w_idel" /\ awvalid
  /\ q.w_status = "w_req_ok" /\ q.w_req = aw /\ q.w_cur_addr = <<aw.addr>>
  /\ q.w_cur_data = <<>> /\ q.s_awready = FALSE /\ q.s_wready = TRUE
  /\ q.w_fault = (p.w_fault \/ ~ CheckAxiReq(aw))
  /\ q.w_left_time = p.w_left_time /\ q.s_b = p.s_b /\ q.mem = p.mem

WriteStored(p, q) ==
  LET isLast == Len(p.w_cur_data) + 1 = Beats(p.w_req)
  IN  /\ p.w_status = "w_req_ok" /\ wvalid
      /\ q.w_status = IF w.last THEN "w_data_ok" ELSE "w_req_ok"
      /\ q.w_cur_data = Append(p.w_cur_data, w.beat)
      /\ IF isLast
         THEN /\ q.s_wready = FALSE /\ q.w_left_time \in Delays
              /\ q.w_cur_addr = p.w_cur_addr
         ELSE /\ q.w_cur_addr = Append(p.w_cur_addr,
                   NextAddr(p.w_req, p.w_cur_addr[Len(p.w_cur_addr)]))
              /\ q.s_wready = p.s_wready /\ q.w_left_time = p.w_left_time
      /\ q.w_fault = (p.w_fault \/ (w.id # p.w_req.id \/ w.last # isLast))
      /\ q.w_req = p.w_req /\ q.s_awready = p.s_awready /\ q.s_b = p.s_b
      /\ q.mem = p.mem

WriteCommitted(p, q) ==
  LET res == WrittenOf(p.mem, p.w_cur_addr, p.w_req, p.w_cur_data, Beats(p.w_req))
  IN  /\ p.w_status = "w_data_ok" /\ p.w_left_time = 0
      /\ q.w_status = "w_wait_back"
      /\ q.mem = res.mem
      /\ q.s_b = [valid |-> TRUE, id |-> p.w_req.id,
                  resp |-> IF res.ok THEN "OKEY" ELSE "DECERR"]
      /\ q.w_left_time = p.w_left_time /\ q.s_awready = p.s_awready
      /\ q.s_wready = p.s_wready /\ KeepBurst(p, q)

WriteWaited(p, q) ==
  /\ \/ p.w_status = "w_idel" /\ ~ awvalid
     \/ p.w_status = "w_req_ok" /\ ~ wvalid
     \/ p.w_status = "w_wait_back" /\ ~ bready
  /\ q.w_left_time = p.w_left_time
  /\ q.w_status = p.w_status /\ q.mem = p.mem /\ KeepBurst(p, q) /\ KeepOutputs(p, q)

WriteDelayed(p, q) ==
  /\ p.w_status = "w_data_ok" /\ p.w_left_time > 0
  /\ q.w_left_time = p.w_left_time - 1
  /\ q.w_status = p.w_status /\ q.mem = p.mem /\ KeepBurst(p, q) /\ KeepOutputs(p, q)

WriteFinished(p, q) ==
  /\ p.w_status = "w_wait_back" /\ bready
  /\ q.w_status = "w_idel"
  /\ q.s_awready = TRUE /\ q.s_wready = FALSE /\ q.s_b = W!IdleB
  /\ q.w_left_time = p.w_left_time /\ q.mem = p.mem /\ KeepBurst(p, q)

WriteDone(p, q) ==
  \/ WriteWaited(p, q) \/ WriteAccepted(p, q) \/ WriteStored(p, q)
  \/ WriteDelayed(p, q) \/ WriteCommitted(p, q) \/ WriteFinished(p, q)

(* AxiWrite and AxiSlave use the operators of AxiBurst. *)
LEMMA WriteOperators ==
  /\ \A req : W!Beats(req) = Beats(req) /\ Slave!W!Beats(req) = Beats(req)
  /\ \A req : /\ W!CheckAxiReq(req) = CheckAxiReq(req)
              /\ Slave!W!CheckAxiReq(req) = CheckAxiReq(req)
  /\ \A req, a : /\ W!NextAddr(req, a) = NextAddr(req, a)
                 /\ Slave!W!NextAddr(req, a) = NextAddr(req, a)
<1>1. \A req : W!Beats(req) = Beats(req) /\ Slave!W!Beats(req) = Beats(req)
  BY DEF W!Beats, Slave!W!Beats, Beats
<1>2. ASSUME NEW req
      PROVE  /\ W!CheckAxiReq(req) = CheckAxiReq(req)
             /\ Slave!W!CheckAxiReq(req) = CheckAxiReq(req)
  BY Zenon DEF W!CheckAxiReq, W!Aligned, W!AlignedAddr, W!StaysInPage, W!BeatBytes,
     W!Beats, W!WrapTotal, Slave!W!CheckAxiReq, Slave!W!Aligned, Slave!W!AlignedAddr,
     Slave!W!StaysInPage, Slave!W!BeatBytes, Slave!W!Beats, Slave!W!WrapTotal,
     CheckAxiReq, Aligned, AlignedAddr, StaysInPage, BeatBytes, Beats, WrapTotal
<1>3. ASSUME NEW req, NEW a
      PROVE  /\ W!NextAddr(req, a) = NextAddr(req, a)
             /\ Slave!W!NextAddr(req, a) = NextAddr(req, a)
  BY Zenon DEF W!NextAddr, W!WrapBound, W!WrapTotal, W!Beats, W!BeatBytes,
     Slave!W!NextAddr, Slave!W!WrapBound, Slave!W!WrapTotal, Slave!W!Beats,
     Slave!W!BeatBytes, NextAddr, WrapBound, WrapTotal, Beats, BeatBytes
<1>4. QED
  BY <1>1, <1>2, <1>3

(* Both write a burst with the same recursion. *)
LEMMA WrittenSame ==
  ASSUME NEW n
  PROVE  /\ W!WrittenUpTo(n) = WrittenOf(mem, w_cur_addr, w_req, w_cur_data, n)
         /\ Slave!W!WrittenUpTo(n) =
              WrittenOf(Shown.mem, Shown.w_cur_addr, Shown.w_req, Shown.w_cur_data, n)
BY Zenon DEF WrittenOf, W!WrittenUpTo, Slave!W!WrittenUpTo,
   W!BusWrite, W!PmemWrite, W!WrittenLanes, W!Lanes, W!Route, W!Containing, W!Contains,
   W!IntvEnd, W!Offset, W!BeatBytes,
   Slave!W!BusWrite, Slave!W!PmemWrite, Slave!W!WrittenLanes, Slave!W!Lanes,
   Slave!W!Route, Slave!W!Containing, Slave!W!Contains, Slave!W!IntvEnd,
   Slave!W!Offset, Slave!W!BeatBytes,
   BusWrite, PmemWrite, WrittenLanes, Lanes, Route, Containing, Contains,
   IntvEnd, Offset, BeatBytes

(* write_eval, said of two records of the slave's state. *)
LEMMA WriteEvalDone == W!WriteEval => WriteDone(SlaveState, SlaveState')
<1> DEFINE p == SlaveState
           q == SlaveState'
<1>1. /\ p.w_status = w_status /\ p.w_req = w_req /\ p.w_cur_addr = w_cur_addr
      /\ p.w_cur_data = w_cur_data /\ p.w_left_time = w_left_time
      /\ p.s_awready = s_awready /\ p.s_wready = s_wready /\ p.s_b = s_b
      /\ p.w_fault = w_fault /\ p.mem = mem
  BY DEF SlaveState
<1>2. /\ q.w_status = w_status' /\ q.w_req = w_req' /\ q.w_cur_addr = w_cur_addr'
      /\ q.w_cur_data = w_cur_data' /\ q.w_left_time = w_left_time'
      /\ q.s_awready = s_awready' /\ q.s_wready = s_wready' /\ q.s_b = s_b'
      /\ q.w_fault = w_fault' /\ q.mem = mem'
  BY DEF SlaveState
<1> HIDE DEF p, q
<1>3. SUFFICES ASSUME W!WriteEval PROVE WriteDone(p, q)
  BY DEF p, q
<1>4. CASE W!WriteIdle \/ W!WriteNoData \/ W!WriteWaitBack
  BY <1>1, <1>2, <1>4 DEF W!WriteIdle, W!WriteNoData, W!WriteWaitBack, W!wslaveVars,
     WriteDone, WriteWaited, KeepBurst, KeepOutputs
<1>5. CASE W!WriteAccept
  BY <1>1, <1>2, <1>5, WriteOperators DEF W!WriteAccept, W!AcceptWriteReq,
     WriteDone, WriteAccepted
<1>6. CASE W!WriteData
  <2>1. WriteStored(p, q)
    BY <1>1, <1>2, <1>6, WriteOperators DEF W!WriteData, W!AcceptWriteData, W!Store,
       W!IsLastBeat, W!NextSlotAddr, WriteStored
  <2>2. QED
    BY <2>1 DEF WriteDone
<1>7. CASE W!WriteDelay
  BY <1>1, <1>2, <1>7 DEF W!WriteDelay, WriteDone, WriteDelayed, KeepBurst, KeepOutputs
<1>8. CASE W!WriteCommit
  <2>1. W!WrittenUpTo(Beats(w_req))
          = WrittenOf(p.mem, p.w_cur_addr, p.w_req, p.w_cur_data, Beats(p.w_req))
    BY <1>1, WrittenSame
  <2>2. WriteCommitted(p, q)
    BY <1>1, <1>2, <1>8, <2>1, WriteOperators DEF W!WriteCommit, W!DoAllWrite,
       W!WriteBack, WriteCommitted, KeepBurst
  <2>3. QED
    BY <2>2 DEF WriteDone
<1>9. CASE W!WriteFinish
  BY <1>1, <1>2, <1>9 DEF W!WriteFinish, W!IdelWaitWrite, WriteDone, WriteFinished,
     KeepBurst
<1>10. QED
  BY <1>3, <1>4, <1>5, <1>6, <1>7, <1>8, <1>9 DEF W!WriteEval

(* and what WriteDone says of the states shown is write_eval of the slave. *)
LEMMA WriteDoneEval == WriteDone(Shown, Shown') => Slave!W!WriteEval
<1> DEFINE p == Shown
           q == Shown'
<1> SUFFICES ASSUME WriteDone(p, q) PROVE Slave!W!WriteEval
  OBVIOUS
<1>1. CASE WriteWaited(p, q)
  BY <1>1 DEF WriteWaited, KeepBurst, KeepOutputs, Slave!W!WriteEval,
     Slave!W!WriteIdle, Slave!W!WriteNoData, Slave!W!WriteWaitBack, Slave!W!wslaveVars
<1>2. CASE WriteAccepted(p, q)
  <2>1. Slave!W!WriteAccept
    BY <1>2, WriteOperators DEF WriteAccepted, Slave!W!WriteAccept,
       Slave!W!AcceptWriteReq
  <2>2. QED
    BY <2>1 DEF Slave!W!WriteEval
<1>3. CASE WriteStored(p, q)
  <2>1. Slave!W!WriteData
    BY <1>3, WriteOperators DEF WriteStored, Slave!W!WriteData,
       Slave!W!AcceptWriteData, Slave!W!Store, Slave!W!IsLastBeat, Slave!W!NextSlotAddr
  <2>2. QED
    BY <2>1 DEF Slave!W!WriteEval
<1>4. CASE WriteDelayed(p, q)
  <2>1. Slave!W!WriteDelay
    BY <1>4 DEF WriteDelayed, KeepBurst, KeepOutputs, Slave!W!WriteDelay
  <2>2. QED
    BY <2>1 DEF Slave!W!WriteEval
<1>5. CASE WriteCommitted(p, q)
  <2>1. Slave!W!WriteCommit
    BY <1>5, WrittenSame, WriteOperators DEF WriteCommitted, KeepBurst,
       Slave!W!WriteCommit, Slave!W!DoAllWrite, Slave!W!WriteBack
  <2>2. QED
    BY <2>1 DEF Slave!W!WriteEval
<1>6. CASE WriteFinished(p, q)
  <2>1. Slave!W!WriteFinish
    BY <1>6 DEF WriteFinished, KeepBurst, Slave!W!WriteFinish, Slave!W!IdelWaitWrite,
       Slave!W!IdleB, W!IdleB
  <2>2. QED
    BY <2>1 DEF Slave!W!WriteEval
<1>7. QED
  BY <1>1, <1>2, <1>3, <1>4, <1>5, <1>6 DEF WriteDone

-----------------------------------------------------------------------------
(* axi->reset() has run and no posedge since. *)
SlaveReset ==
  /\ r_status = "r_idel" /\ s_arready = TRUE /\ s_r = R!IdleR
  /\ w_status = "w_idel" /\ s_awready = TRUE /\ s_wready = FALSE /\ s_b = W!IdleB

(* Where axi_paddr stands between the statements of main: a posedge is computed
   only out of reset and only while no assertion has fired, and until the DUT
   has been evaluated `before' and the slave are one posedge apart. *)
LinkInv ==
  /\ rst_ticks \in 0 .. RstTicks
  /\ aresetn => rst_ticks = 0
  /\ pc \in {"calculate", "eval"} => aresetn
  /\ ~ m_stalls
  /\ pc # "eval" => before = SlaveState
  /\ rst_ticks < RstTicks /\ ~ aresetn => SlaveReset
  /\ pc = "eval" =>
       /\ ReadDone(before, SlaveState) /\ WriteDone(before, SlaveState)
       /\ ~ before.r_fault /\ ~ before.w_fault

(* Before main, the half cycles of reset are all still to come. *)
LEMMA InitLinkInv == Init => LinkInv
<1> SUFFICES ASSUME Init PROVE LinkInv
  OBVIOUS
<1>1. pc = "install" /\ rst_ticks = RstTicks /\ aresetn = FALSE /\ before = SlaveState
  BY DEF Init, L!Init
<1>2. ~ m_stalls
  BY DEF Init, R!Allocated
<1>3. QED
  BY <1>1, <1>2, LoopConstants DEF LinkInv

(* The statements that leave axi_paddr alone, and where they take main. *)
LEMMA QuietSteps ==
  ASSUME Rest \/ Interrupt \/ UNCHANGED vars
  PROVE  /\ UNCHANGED <<rst_ticks, aresetn, readSlave, writeSlave, mem, shownVars, before>>
         /\ pc' # pc => pc # "eval" /\ pc' \notin {"eval", "calculate"}
<1>1. CASE Rest
  BY <1>1 DEF Rest, L!InstallHandler, L!Setup, L!StartLoop, L!LoopHead,
     L!TestStatus, L!Retire, L!ExecReference, L!Compare, L!Negedge, L!Tick
<1>2. CASE Interrupt
  BY <1>2 DEF Interrupt, L!Interrupt
<1>3. CASE UNCHANGED vars
  BY <1>3 DEF vars
<1>4. QED
  BY <1>1, <1>2, <1>3

(* What the first statements of the loop do: one half cycle less of reset, and
   a posedge only when the reset pin is up. *)
LEMMA ClockFacts ==
  ASSUME LinkInv, Clock
  PROVE  /\ pc = "clock" /\ pc' \in {"calculate", "negedge"}
         /\ pc' = "calculate" => aresetn'
         /\ \/ /\ rst_ticks > 0 /\ rst_ticks' = rst_ticks - 1 /\ ~ aresetn /\ ~ aresetn'
               /\ SlaveReset'
               /\ UNCHANGED <<r_req, r_burst_count, r_left_time, r_cur_addr, r_fault,
                              r_served, w_req, w_cur_addr, w_cur_data, w_left_time,
                              w_fault, mem>>
            \/ /\ rst_ticks = 0 /\ rst_ticks' = 0 /\ aresetn'
               /\ UNCHANGED <<readSlave, writeSlave, mem>>
         /\ UNCHANGED <<mem, shownVars>> /\ before' = SlaveState'
<1>1. rst_ticks \in 0 .. RstTicks /\ (aresetn => rst_ticks = 0)
  BY DEF LinkInv
<1>2. L!Clock
  BY DEF Clock
<1>3. /\ pc = "clock" /\ pc' \in {"calculate", "negedge"}
      /\ pc' = "calculate" => aresetn'
  BY <1>2 DEF L!Clock, L!ClockAfter
<1>4. CASE rst_ticks > 0
  <2>1. rst_ticks' = rst_ticks - 1 /\ ~ aresetn' /\ ~ aresetn
    BY <1>1, <1>2, <1>4 DEF L!Clock, L!ClockAfter
  <2>2. AxiReset /\ UNCHANGED <<mem, shownVars>> /\ before' = SlaveState'
    BY <1>4 DEF Clock
  <2>3. SlaveReset'
    BY <2>2, Zenon DEF AxiReset, SlaveReset, R!IdelWaitRead, W!IdelWaitWrite,
       R!IdleR, R!Lanes, W!IdleB
  <2>4. QED
    BY <1>3, <1>4, <2>1, <2>2, <2>3 DEF AxiReset
<1>5. CASE ~ (rst_ticks > 0)
  <2>1. rst_ticks = 0
    BY <1>1, <1>5, LoopConstants
  <2>2. QED
    BY <1>1, <1>2, <1>3, <1>5, <2>1 DEF Clock, L!Clock, L!ClockAfter
<1>6. QED
  BY <1>4, <1>5

(* What a posedge does to the slave is read off the pins alone. *)
LEMMA PinsDecide ==
  ASSUME UNCHANGED <<arvalid, ar, rready, r, awvalid, aw, wvalid, w, bready>>
  PROVE  \A p, q : /\ ReadDone(p, q)' <=> ReadDone(p, q)
                   /\ WriteDone(p, q)' <=> WriteDone(p, q)
<1>1. /\ UNCHANGED <<arvalid, ar, rready, r>>
      /\ UNCHANGED <<awvalid, aw, wvalid, w, bready>>
  OBVIOUS
<1>2. \A p, q : ReadDone(p, q)' <=> ReadDone(p, q)
  BY <1>1 DEF ReadDone, ReadServe, KeepRequest
<1>3. \A p, q : WriteDone(p, q)' <=> WriteDone(p, q)
  BY <1>1 DEF WriteDone, WriteWaited, WriteAccepted, WriteStored, WriteDelayed,
     WriteCommitted, WriteFinished, KeepBurst, KeepOutputs
<1>4. QED
  BY <1>2, <1>3

(* Every statement of main, and the handler, keep the link to the slave. *)
LEMMA NextKeepsLinkInv == FaultInv /\ LinkInv /\ [Next]_vars => LinkInv'
<1> SUFFICES ASSUME FaultInv, LinkInv, [Next]_vars PROVE LinkInv'
  OBVIOUS
<1>1. CASE Calculate
  <2>1. /\ pc = "calculate" /\ pc' = "eval" /\ UNCHANGED <<rst_ticks, aresetn>>
        /\ before' = SlaveState /\ m_stalls' = m_stalls
    BY <1>1 DEF Calculate, L!Calculate
  <2>2. ~ r_fault /\ ~ w_fault
    BY <2>1 DEF FaultInv, Fault
  <2>3. ~ before'.r_fault /\ ~ before'.w_fault
    BY <2>1, <2>2 DEF SlaveState
  <2>4. /\ ReadDone(before', SlaveState') /\ WriteDone(before', SlaveState')
    BY <1>1, <2>1, ReadEvalDone, WriteEvalDone DEF Calculate
  <2>5. UNCHANGED <<arvalid, ar, rready, r, awvalid, aw, wvalid, w, bready>>
    BY <1>1 DEF Calculate
  <2>6. ReadDone(before, SlaveState)' /\ WriteDone(before, SlaveState)'
    BY <2>4, <2>5 DEF ReadDone, ReadServe, KeepRequest, WriteDone, WriteWaited,
       WriteAccepted, WriteStored, WriteDelayed, WriteCommitted, WriteFinished,
       KeepBurst, KeepOutputs
  <2>7. aresetn /\ rst_ticks \in 0 .. RstTicks /\ rst_ticks = 0 /\ ~ m_stalls
    BY <2>1 DEF LinkInv
  <2>8. QED
    BY <2>1, <2>3, <2>6, <2>7 DEF LinkInv
<1>2. CASE Eval
  <2>1. /\ pc = "eval" /\ pc' = "status" /\ UNCHANGED <<rst_ticks, aresetn>>
        /\ before' = SlaveState'
    BY <1>2 DEF Eval, L!Eval
  <2>2. m_stalls' = m_stalls
    BY <1>2 DEF Eval, R!MasterStep, R!DriveRReady
  <2>3. aresetn
    BY <2>1 DEF LinkInv
  <2>4. QED
    BY <2>1, <2>2, <2>3 DEF LinkInv
<1>3. CASE Clock
  <2>1. m_stalls' = m_stalls
    BY <1>3, ClockFacts
  <2>2. rst_ticks' \in 0 .. RstTicks /\ (aresetn' => rst_ticks' = 0)
    BY <1>3, ClockFacts, LoopConstants DEF LinkInv
  <2>3. rst_ticks' < RstTicks /\ ~ aresetn' => SlaveReset'
    BY <1>3, ClockFacts
  <2>4. QED
    BY <1>3, ClockFacts, <2>1, <2>2, <2>3 DEF LinkInv
<1>4. CASE Rest \/ Interrupt \/ UNCHANGED vars
  <2>1. /\ UNCHANGED <<rst_ticks, aresetn, readSlave, writeSlave, mem, shownVars, before>>
        /\ pc' # pc => pc # "eval" /\ pc' \notin {"eval", "calculate"}
    BY <1>4, QuietSteps
  <2>2. SlaveState' = SlaveState
    BY <2>1 DEF SlaveState
  <2>3. SlaveReset' <=> SlaveReset
    BY <2>1 DEF SlaveReset
  <2>4. CASE pc' = pc
    <3>1. UNCHANGED <<arvalid, ar, rready, r, awvalid, aw, wvalid, w, bready>>
      BY <2>1
    <3>2. /\ ReadDone(before, SlaveState)' <=> ReadDone(before, SlaveState)
          /\ WriteDone(before, SlaveState)' <=> WriteDone(before, SlaveState)
      <4>1. SlaveState' = SlaveState /\ before' = before
        BY <2>1, <2>2
      <4>2. QED
        BY <3>1, <4>1, PinsDecide
    <3>3. QED
      BY <2>1, <2>2, <2>3, <2>4, <3>2 DEF LinkInv
  <2>5. CASE pc' # pc
    BY <2>1, <2>2, <2>3, <2>5 DEF LinkInv
  <2>6. QED
    BY <2>4, <2>5
<1>5. QED
  BY <1>1, <1>2, <1>3, <1>4 DEF Next, Main, Terminated

(* At every statement of main the slave is in the state its last whole posedge
   left, or the one read_eval and write_eval have computed from it, and reset is
   over, or has been applied, before the first posedge. *)
THEOREM HarnessLinkInvariant == Spec => [](FaultInv /\ LinkInv)
BY InitFaultInv, InitLinkInv, NextKeepsFaultInv, NextKeepsLinkInv, PTL DEF Spec

(* The evaluation of a posedge completes one of AxiSlave. *)
LEMMA EvalIsPosedge ==
  ASSUME LinkInv, Eval
  PROVE  Slave!Posedge
<1>1. /\ pc = "eval" /\ rst_ticks' = rst_ticks /\ before' = SlaveState'
      /\ UNCHANGED <<readSlave, writeSlave, mem>>
  BY DEF Eval, L!Eval
<1>2. rst_ticks = 0
  BY <1>1 DEF LinkInv
<1>3. Shown = before /\ Shown' = SlaveState /\ Shown' = SlaveState'
  BY <1>1, <1>2, LoopConstants DEF Shown, SlaveState
<1>4. /\ ReadDone(Shown, Shown') /\ WriteDone(Shown, Shown')
      /\ ~ Shown.r_fault /\ ~ Shown.w_fault
  BY <1>1, <1>3 DEF LinkInv
<1>5. Slave!R!ReadEval /\ Slave!W!WriteEval
  BY <1>4, ReadDoneEval, WriteDoneEval
<1>6. R!MasterStep /\ W!MasterStep /\ R!UpdateReadOutput /\ W!UpdateWriteOutput
  BY DEF Eval
<1>7. /\ Shown'.s_arready = s_arready' /\ Shown'.s_r = s_r'
      /\ Shown'.s_awready = s_awready' /\ Shown'.s_wready = s_wready'
      /\ Shown'.s_b = s_b'
  BY <1>3 DEF SlaveState
<1>8. Slave!R!UpdateReadOutput /\ Slave!W!UpdateWriteOutput
  BY <1>6, <1>7 DEF R!UpdateReadOutput, W!UpdateWriteOutput,
     Slave!R!UpdateReadOutput, Slave!W!UpdateWriteOutput
<1>9. Slave!R!MasterStep
  <2>1. ~ m_stalls
    BY DEF LinkInv
  <2>2. Slave!R!DriveAR /\ Slave!R!FollowRead
    BY <1>6, Zenon DEF R!MasterStep, R!DriveAR, R!FollowRead, R!TakesRequest, R!TakesBeat,
       Slave!R!DriveAR, Slave!R!FollowRead, Slave!R!TakesRequest, Slave!R!TakesBeat
  <2>3. Slave!R!DriveRReady
    BY <1>6, <2>1 DEF R!MasterStep, R!DriveRReady, Slave!R!DriveRReady
  <2>4. QED
    BY <2>2, <2>3 DEF Slave!R!MasterStep
<1>10. Slave!W!MasterStep
  BY <1>6, Zenon DEF W!MasterStep, W!DriveAW, W!FollowWrite, W!DriveW, W!OfferBeat,
     W!AWTaken, W!WTaken, W!BTaken, W!IdleW, W!Lanes,
     Slave!W!MasterStep, Slave!W!DriveAW, Slave!W!FollowWrite, Slave!W!DriveW,
     Slave!W!OfferBeat, Slave!W!AWTaken, Slave!W!WTaken, Slave!W!BTaken,
     Slave!W!IdleW, Slave!W!Lanes
<1>11. QED
  BY <1>4, <1>5, <1>8, <1>9, <1>10 DEF Slave!Posedge, Slave!Aborted,
     Slave!R!ReadClock, Slave!W!WriteClock

(* Until the DUT has been evaluated the posedge has not happened for AxiSlave,
   and no other statement of main can be told there. *)
LEMMA OthersShowNothing ==
  ASSUME LinkInv, [Next]_vars, ~ Eval
  PROVE  UNCHANGED Slave!vars
<1>0. ASSUME Shown' = Shown, UNCHANGED shownVars
      PROVE  UNCHANGED Slave!vars
  BY <1>0 DEF Slave!vars
<1>1. CASE Calculate
  <2>1. pc = "calculate" /\ rst_ticks' = rst_ticks /\ before' = SlaveState
    BY <1>1 DEF Calculate, L!Calculate
  <2>2. before = SlaveState /\ rst_ticks = 0
    BY <2>1 DEF LinkInv
  <2>3. Shown' = Shown
    BY <2>1, <2>2, LoopConstants DEF Shown
  <2>4. QED
    BY <1>0, <1>1, <2>3 DEF Calculate
<1>2. CASE Clock
  <2>1. pc # "eval" /\ before' = SlaveState' /\ UNCHANGED shownVars
    BY <1>2, ClockFacts
  <2>2. before = SlaveState /\ rst_ticks \in 0 .. RstTicks
    BY <2>1 DEF LinkInv
  <2>3. UNCHANGED Slave!vars
    <3>1. CASE rst_ticks = 0
      <4>1. rst_ticks' = 0 /\ UNCHANGED <<readSlave, writeSlave, mem>>
        BY <1>2, <3>1, ClockFacts
      <4>2. Shown' = Shown
        BY <2>1, <2>2, <3>1, <4>1, LoopConstants DEF Shown, SlaveState
      <4>3. QED
        BY <1>0, <2>1, <4>2
    <3>2. CASE rst_ticks > 0
      <4>1. /\ rst_ticks' = rst_ticks - 1 /\ ~ aresetn /\ SlaveReset'
            /\ UNCHANGED <<r_req, r_burst_count, r_left_time, r_cur_addr, r_fault,
                           r_served, w_req, w_cur_addr, w_cur_data, w_left_time,
                           w_fault, mem>>
        BY <1>2, <3>2, ClockFacts
      <4>2. Shown' = SlaveState'
        BY <2>1, <2>2, <4>1, LoopConstants DEF Shown
      <4>3. CASE rst_ticks < RstTicks
        <5>1. SlaveReset
          BY <4>1, <4>3 DEF LinkInv
        <5>2. Shown = SlaveState
          BY <2>2, <4>3 DEF Shown
        <5>3. SlaveState' = SlaveState
          BY <4>1, <5>1 DEF SlaveState, SlaveReset, R!IdleR, W!IdleB, R!Lanes
        <5>4. QED
          BY <1>0, <2>1, <4>2, <5>2, <5>3
      <4>4. CASE rst_ticks = RstTicks
        <5>1. Shown = [SlaveState EXCEPT !.r_status = "r_idel", !.s_arready = TRUE,
                         !.s_r = R!IdleR, !.w_status = "w_idel", !.s_awready = TRUE,
                         !.s_wready = FALSE, !.s_b = W!IdleB]
          BY <2>2, <4>4, LoopConstants DEF Shown
        <5>2. /\ r_status' = "r_idel" /\ s_arready' = TRUE /\ s_r' = R!IdleR
              /\ w_status' = "w_idel" /\ s_awready' = TRUE /\ s_wready' = FALSE
              /\ s_b' = W!IdleB
          BY <4>1 DEF SlaveReset, R!IdleR, W!IdleB, R!Lanes
        <5>3. /\ Shown.r_status = "r_idel" /\ Shown.s_arready = TRUE
              /\ Shown.s_r = R!IdleR /\ Shown.w_status = "w_idel"
              /\ Shown.s_awready = TRUE /\ Shown.s_wready = FALSE
              /\ Shown.s_b = W!IdleB
              /\ Shown.r_req = r_req /\ Shown.r_burst_count = r_burst_count
              /\ Shown.r_left_time = r_left_time /\ Shown.r_cur_addr = r_cur_addr
              /\ Shown.r_fault = r_fault /\ Shown.r_served = r_served
              /\ Shown.w_req = w_req /\ Shown.w_cur_addr = w_cur_addr
              /\ Shown.w_cur_data = w_cur_data /\ Shown.w_left_time = w_left_time
              /\ Shown.w_fault = w_fault /\ Shown.mem = mem
          BY <5>1 DEF SlaveState
        <5>4. /\ Shown'.r_status = r_status' /\ Shown'.s_arready = s_arready'
              /\ Shown'.s_r = s_r' /\ Shown'.w_status = w_status'
              /\ Shown'.s_awready = s_awready' /\ Shown'.s_wready = s_wready'
              /\ Shown'.s_b = s_b'
              /\ Shown'.r_req = r_req' /\ Shown'.r_burst_count = r_burst_count'
              /\ Shown'.r_left_time = r_left_time' /\ Shown'.r_cur_addr = r_cur_addr'
              /\ Shown'.r_fault = r_fault' /\ Shown'.r_served = r_served'
              /\ Shown'.w_req = w_req' /\ Shown'.w_cur_addr = w_cur_addr'
              /\ Shown'.w_cur_data = w_cur_data' /\ Shown'.w_left_time = w_left_time'
              /\ Shown'.w_fault = w_fault' /\ Shown'.mem = mem'
          BY <4>2 DEF SlaveState
        <5>5. QED
          BY <2>1, <4>1, <5>2, <5>3, <5>4 DEF Slave!vars
      <4>5. QED
        BY <2>2, <4>3, <4>4, LoopConstants
    <3>3. QED
      BY <2>2, <3>1, <3>2, LoopConstants
  <2>4. QED
    BY <2>3
<1>3. CASE Rest \/ Interrupt \/ UNCHANGED vars
  <2>1. UNCHANGED <<rst_ticks, shownVars, before>>
    BY <1>3, QuietSteps
  <2>2. QED
    BY <1>0, <2>1 DEF Shown, R!IdleR, W!IdleB, R!Lanes
<1>4. QED
  BY <1>1, <1>2, <1>3 DEF Next, Main, Terminated

(* Half cycles under reset, falling edges, interrupts and comparisons do not
   show; update_output() completes the posedge that calculate_output() began. *)
LEMMA StepImplementsSlave == LinkInv /\ [Next]_vars => [Slave!Next]_(Slave!vars)
<1> SUFFICES ASSUME LinkInv, [Next]_vars PROVE [Slave!Next]_(Slave!vars)
  OBVIOUS
<1>1. CASE Eval
  BY <1>1, EvalIsPosedge DEF Slave!Next
<1>2. CASE ~ Eval
  BY <1>2, OthersShowNothing
<1>3. QED
  BY <1>1, <1>2

(* main drives axi_paddr as AxiSlave assumes: from its reset state whatever the
   allocation left in it, one whole posedge at a time, never one more after an
   assertion, and not disturbed by reset, falling edges or interrupts. *)
THEOREM HarnessImplementsSlave == Spec => ImplementsSlave
BY HarnessLinkInvariant, InitShown, StepImplementsSlave, PTL
   DEF Spec, ImplementsSlave, Slave!Spec

(* The slave that main drives, in the module of the proofs about it. *)
SP == INSTANCE AxiSlaveProofs WITH
  StallModes <- {FALSE}, StallLimit <- 0,
  r_status <- Shown.r_status, r_req <- Shown.r_req,
  r_burst_count <- Shown.r_burst_count, r_left_time <- Shown.r_left_time,
  r_cur_addr <- Shown.r_cur_addr, s_arready <- Shown.s_arready,
  s_r <- Shown.s_r, r_fault <- Shown.r_fault, r_served <- Shown.r_served,
  w_status <- Shown.w_status, w_req <- Shown.w_req,
  w_cur_addr <- Shown.w_cur_addr, w_cur_data <- Shown.w_cur_data,
  w_left_time <- Shown.w_left_time, s_awready <- Shown.s_awready,
  s_wready <- Shown.s_wready, s_b <- Shown.s_b, w_fault <- Shown.w_fault,
  mem <- Shown.mem

SlaveAssumptions ==
  /\ SP!AddrSpaceAssumption /\ SP!DevicesAssumption /\ SP!DisjointAssumption
  /\ SP!BusBytesAssumption /\ SP!PageSizeAssumption
  /\ SP!ReadSideAssumption /\ SP!WriteSideAssumption

(* The assumptions of Harness on its slave are the ones AxiSlave makes. *)
LEMMA SlaveAssumed == SlaveAssumptions
<1>1. /\ SP!AddrSpaceAssumption /\ SP!DevicesAssumption /\ SP!DisjointAssumption
      /\ SP!BusBytesAssumption /\ SP!PageSizeAssumption
  BY AddrSpaceAssumption, DevicesAssumption, DisjointAssumption, BusBytesAssumption,
     PageSizeAssumption
     DEF
   SP!AddrSpaceAssumption, SP!DevicesAssumption, SP!DisjointAssumption,
   SP!BusBytesAssumption, SP!PageSizeAssumption, SP!Word, SP!IsAddrIntv,
   SP!IntvBytes, SP!IntvEnd, Word, IsAddrIntv, IntvBytes, IntvEnd
<1>2. SP!ReadSideAssumption
  BY ReadSideAssumption, ZenonT(120)
     DEF SP!ReadSideAssumption,
   SP!R!RequestsAssumption, SP!R!WrapAssumption, SP!R!DelaysAssumption,
   SP!R!LoadedAssumption, SP!R!ZeroAssumption, SP!R!StallAssumption, SP!R!Word,
   SP!R!RequestType, SP!R!BurstTypes, SP!R!Memories, SP!R!CheckAxiReq,
   SP!R!BeatBytes, SP!R!Beats, SP!R!AlignedAddr, SP!R!Aligned, SP!R!StaysInPage,
   SP!R!WrapTotal, R!RequestsAssumption, R!WrapAssumption, R!DelaysAssumption,
   R!LoadedAssumption, R!ZeroAssumption, R!StallAssumption, R!Word, R!RequestType,
   R!BurstTypes, R!Memories, R!CheckAxiReq, R!BeatBytes, R!Beats, R!AlignedAddr,
   R!Aligned, R!StaysInPage, R!WrapTotal
<1>3. SP!WriteSideAssumption
  BY WriteSideAssumption, ZenonT(120)
     DEF SP!WriteSideAssumption,
   SP!W!WriteRequestsAssumption, SP!W!WriteWrapAssumption, SP!W!WriteTopAssumption,
   SP!W!WriteDataAssumption, SP!W!WriteEnvAssumption, SP!W!Word, SP!W!RequestType,
   SP!W!BurstTypes, SP!W!Memories, SP!W!CheckAxiReq, SP!W!BeatBytes, SP!W!Beats,
   SP!W!AlignedAddr, SP!W!Aligned, SP!W!StaysInPage, SP!W!WrapTotal, SP!W!MaxBeats,
   SP!W!BeatAddr, SP!W!WrapBound, SP!W!Words, SP!W!Strobes, SP!W!Lanes,
   W!WriteRequestsAssumption, W!WriteWrapAssumption, W!WriteTopAssumption,
   W!WriteDataAssumption, W!WriteEnvAssumption, W!Word, W!RequestType, W!BurstTypes,
   W!Memories, W!CheckAxiReq, W!BeatBytes, W!Beats, W!AlignedAddr, W!Aligned,
   W!StaysInPage, W!WrapTotal, W!MaxBeats, W!BeatAddr, W!WrapBound, W!Words,
   W!Strobes, W!Lanes
<1>4. QED
  BY <1>1, <1>2, <1>3 DEF SlaveAssumptions

(* Slave instantiates AxiSlave itself, SP through the module of its proofs:
   their definitions are the same. *)
LEMMA SameSlaveInit == Slave!Init => SP!Init
BY Zenon DEF Slave!Init, SP!Init,
   Slave!R!Init, Slave!R!Allocated, Slave!R!IdleR, Slave!R!Lanes, SP!R!Init,
   SP!R!Allocated, SP!R!IdleR, SP!R!Lanes, Slave!W!Init, Slave!W!Allocated,
   Slave!W!IdleW, Slave!W!IdleB, Slave!W!Lanes, SP!W!Init, SP!W!Allocated,
   SP!W!IdleW, SP!W!IdleB, SP!W!Lanes

(* The same for the posedge of the read side. *)
LEMMA SameReadClock == Slave!R!ReadClock => SP!R!ReadClock
BY ZenonT(120) DEF
   Slave!R!ReadClock, Slave!R!ReadEval, Slave!R!ReadIdle, Slave!R!ReadAccept,
   Slave!R!AcceptReadReq, Slave!R!ReadDelay, Slave!R!ReadFirst, Slave!R!ReadMore,
   Slave!R!ReadFinish, Slave!R!DoOnceRead, Slave!R!Serve, Slave!R!BackToIdle,
   Slave!R!IdelWaitRead, Slave!R!IdleR, Slave!R!slaveVars, Slave!R!UpdateReadOutput,
   Slave!R!MasterStep, Slave!R!DriveAR, Slave!R!FollowRead, Slave!R!DriveRReady,
   Slave!R!TakesRequest, Slave!R!TakesBeat, Slave!R!BusRead, Slave!R!PmemRead,
   Slave!R!Lanes, Slave!R!Route, Slave!R!Containing, Slave!R!Contains,
   Slave!R!IntvEnd, Slave!R!Offset, Slave!R!NextAddr, Slave!R!WrapBound,
   Slave!R!WrapTotal, Slave!R!Beats, Slave!R!BeatBytes, Slave!R!CheckAxiReq,
   Slave!R!Aligned, Slave!R!AlignedAddr, Slave!R!StaysInPage, SP!R!ReadClock,
   SP!R!ReadEval, SP!R!ReadIdle, SP!R!ReadAccept, SP!R!AcceptReadReq, SP!R!ReadDelay,
   SP!R!ReadFirst, SP!R!ReadMore, SP!R!ReadFinish, SP!R!DoOnceRead, SP!R!Serve,
   SP!R!BackToIdle, SP!R!IdelWaitRead, SP!R!IdleR, SP!R!slaveVars,
   SP!R!UpdateReadOutput, SP!R!MasterStep, SP!R!DriveAR, SP!R!FollowRead,
   SP!R!DriveRReady, SP!R!TakesRequest, SP!R!TakesBeat, SP!R!BusRead, SP!R!PmemRead,
   SP!R!Lanes, SP!R!Route, SP!R!Containing, SP!R!Contains, SP!R!IntvEnd, SP!R!Offset,
   SP!R!NextAddr, SP!R!WrapBound, SP!R!WrapTotal, SP!R!Beats, SP!R!BeatBytes,
   SP!R!CheckAxiReq, SP!R!Aligned, SP!R!AlignedAddr, SP!R!StaysInPage

(* The same for the posedge of the write side. *)
LEMMA SameWriteClock == Slave!W!WriteClock => SP!W!WriteClock
BY ZenonT(120) DEF
   Slave!W!WriteClock, Slave!W!WriteEval, Slave!W!WriteIdle, Slave!W!WriteAccept,
   Slave!W!AcceptWriteReq, Slave!W!WriteNoData, Slave!W!WriteData,
   Slave!W!AcceptWriteData, Slave!W!Store, Slave!W!IsLastBeat, Slave!W!NextSlotAddr,
   Slave!W!WriteDelay, Slave!W!WriteCommit, Slave!W!DoAllWrite, Slave!W!WriteBack,
   Slave!W!WrittenUpTo, Slave!W!WriteWaitBack, Slave!W!WriteFinish,
   Slave!W!IdelWaitWrite, Slave!W!IdleB, Slave!W!IdleW, Slave!W!wslaveVars,
   Slave!W!UpdateWriteOutput, Slave!W!MasterStep, Slave!W!DriveAW,
   Slave!W!FollowWrite, Slave!W!DriveW, Slave!W!OfferBeat, Slave!W!AWTaken,
   Slave!W!WTaken, Slave!W!BTaken, Slave!W!BusWrite, Slave!W!PmemWrite,
   Slave!W!WrittenLanes, Slave!W!Lanes, Slave!W!Route, Slave!W!Containing,
   Slave!W!Contains, Slave!W!IntvEnd, Slave!W!Offset, Slave!W!NextAddr,
   Slave!W!WrapBound, Slave!W!WrapTotal, Slave!W!Beats, Slave!W!BeatBytes,
   Slave!W!CheckAxiReq, Slave!W!Aligned, Slave!W!AlignedAddr, Slave!W!StaysInPage,
   SP!W!WriteClock, SP!W!WriteEval, SP!W!WriteIdle, SP!W!WriteAccept,
   SP!W!AcceptWriteReq, SP!W!WriteNoData, SP!W!WriteData, SP!W!AcceptWriteData,
   SP!W!Store, SP!W!IsLastBeat, SP!W!NextSlotAddr, SP!W!WriteDelay, SP!W!WriteCommit,
   SP!W!DoAllWrite, SP!W!WriteBack, SP!W!WrittenUpTo, SP!W!WriteWaitBack,
   SP!W!WriteFinish, SP!W!IdelWaitWrite, SP!W!IdleB, SP!W!IdleW, SP!W!wslaveVars,
   SP!W!UpdateWriteOutput, SP!W!MasterStep, SP!W!DriveAW, SP!W!FollowWrite,
   SP!W!DriveW, SP!W!OfferBeat, SP!W!AWTaken, SP!W!WTaken, SP!W!BTaken,
   SP!W!BusWrite, SP!W!PmemWrite, SP!W!WrittenLanes, SP!W!Lanes, SP!W!Route,
   SP!W!Containing, SP!W!Contains, SP!W!IntvEnd, SP!W!Offset, SP!W!NextAddr,
   SP!W!WrapBound, SP!W!WrapTotal, SP!W!Beats, SP!W!BeatBytes, SP!W!CheckAxiReq,
   SP!W!Aligned, SP!W!AlignedAddr, SP!W!StaysInPage

(* The same for both at once. *)
LEMMA SamePosedge == Slave!Posedge => SP!Posedge
BY SameReadClock, SameWriteClock, Zenon DEF Slave!Posedge, SP!Posedge, Slave!Aborted,
   SP!Aborted

(* The same for the steps of the whole slave. *)
LEMMA SameSlaveStep == [Slave!Next]_(Slave!vars) => [SP!Next]_(SP!vars)
<1>1. Slave!vars = SP!vars /\ (UNCHANGED Slave!vars <=> UNCHANGED SP!vars)
  BY DEF Slave!vars, SP!vars
<1>2. QED
  BY SamePosedge, <1>1 DEF Slave!Next, SP!Next, Slave!Stopped, SP!Stopped

(* What AxiSlaveProofs shows of the slave, under its own assumptions. *)
LEMMA SlaveFacts ==
  /\ SP!Init => SP!SlaveInv
  /\ SP!SlaveInv /\ [SP!Next]_(SP!vars) => SP!SlaveInv'
  /\ SP!Init => SP!Bus!Init
  /\ SP!SlaveInv /\ [SP!Next]_(SP!vars) => [SP!Bus!Next]_(SP!Bus!busVars)
BY SlaveAssumed, SP!InitSlaveInv, SP!NextKeepsSlaveInv, SP!InitMaps, SP!StepMaps, Zenon
   DEF SlaveAssumptions

(* The bus that SP maps to is the one that Slave maps to. *)
LEMMA SameBusInit == SP!Bus!Init => Slave!Bus!Init
BY Zenon DEF SP!Bus!Init, Slave!Bus!Init, SP!Bus!Free, Slave!Bus!Free, SP!AbstractRead,
   Slave!AbstractRead, SP!AbstractWrite, Slave!AbstractWrite, SP!ShownBeat,
   Slave!ShownBeat, SP!Free, Slave!Free, SP!BeatBytes, Slave!BeatBytes

(* The same for its steps. *)
LEMMA SameBusStep ==
  [SP!Bus!Next]_(SP!Bus!busVars) => [Slave!Bus!Next]_(Slave!Bus!busVars)
<1>1. /\ SP!AbstractRead = Slave!AbstractRead /\ SP!AbstractRead' = Slave!AbstractRead'
      /\ SP!AbstractWrite = Slave!AbstractWrite
      /\ SP!AbstractWrite' = Slave!AbstractWrite'
  BY Zenon DEF
     SP!AbstractRead, SP!AbstractWrite, SP!ShownBeat, SP!Free, SP!BeatBytes,
     Slave!AbstractRead, Slave!AbstractWrite, Slave!ShownBeat, Slave!Free,
     Slave!BeatBytes
<1>2. /\ \A req : SP!Bus!BeatBytes(req) = Slave!Bus!BeatBytes(req)
      /\ \A req, i : SP!Bus!BeatAddr(req, i) = Slave!Bus!BeatAddr(req, i)
      /\ \A n, a : SP!Bus!Route(Devices, a, n) = Slave!Bus!Route(Devices, a, n)
      /\ \A d, a : SP!Bus!Offset(d, a) = Slave!Bus!Offset(d, a)
      /\ \A n, strb : SP!Bus!WrittenLanes(n, strb) = Slave!Bus!WrittenLanes(n, strb)
  <2>1. \A req : SP!Bus!BeatBytes(req) = Slave!Bus!BeatBytes(req)
    BY Zenon DEF SP!Bus!BeatBytes, Slave!Bus!BeatBytes
  <2>2. ASSUME NEW req, NEW i
        PROVE  SP!Bus!BeatAddr(req, i) = Slave!Bus!BeatAddr(req, i)
    BY Zenon DEF
       SP!Bus!BeatAddr, SP!Bus!BeatBytes, SP!Bus!Beats, SP!Bus!WrapBound,
       SP!Bus!WrapTotal, Slave!Bus!BeatAddr, Slave!Bus!BeatBytes, Slave!Bus!Beats,
       Slave!Bus!WrapBound, Slave!Bus!WrapTotal
  <2>3. ASSUME NEW n, NEW a
        PROVE  SP!Bus!Route(Devices, a, n) = Slave!Bus!Route(Devices, a, n)
    BY Zenon DEF
       SP!Bus!Route, SP!Bus!Containing, SP!Bus!Contains, SP!Bus!IntvEnd,
       Slave!Bus!Route, Slave!Bus!Containing, Slave!Bus!Contains, Slave!Bus!IntvEnd
  <2>4. /\ \A d, a : SP!Bus!Offset(d, a) = Slave!Bus!Offset(d, a)
        /\ \A n, strb : SP!Bus!WrittenLanes(n, strb) = Slave!Bus!WrittenLanes(n, strb)
    BY Zenon DEF
       SP!Bus!Offset, SP!Bus!WrittenLanes, Slave!Bus!Offset, Slave!Bus!WrittenLanes
  <2>5. QED
    BY <2>1, <2>2, <2>3, <2>4
<1>3. /\ \A req, i : SP!Bus!View(req, i) = Slave!Bus!View(req, i)
      /\ \A req, sent : /\ SP!Bus!Committed(req, sent) = Slave!Bus!Committed(req, sent)
                        /\ SP!Bus!Response(req, sent) = Slave!Bus!Response(req, sent)
  <2>1. ASSUME NEW req, NEW i
        PROVE  SP!Bus!View(req, i) = Slave!Bus!View(req, i)
    BY <1>2 DEF SP!Bus!View, Slave!Bus!View
  <2>2. ASSUME NEW req, NEW i
        PROVE  SP!Bus!Target(req, i) = Slave!Bus!Target(req, i)
    BY <1>2 DEF SP!Bus!Target, Slave!Bus!Target
  <2>3. ASSUME NEW req, NEW sent
        PROVE  SP!Bus!Response(req, sent) = Slave!Bus!Response(req, sent)
    BY <2>2 DEF SP!Bus!Response, Slave!Bus!Response
  <2>4. ASSUME NEW req, NEW sent, NEW d, NEW o
        PROVE  SP!Bus!Covering(req, sent, d, o) = Slave!Bus!Covering(req, sent, d, o)
    BY <1>2, <2>2 DEF SP!Bus!Covering, Slave!Bus!Covering
  <2>5. ASSUME NEW req, NEW sent
        PROVE  SP!Bus!Committed(req, sent) = Slave!Bus!Committed(req, sent)
    <3> DEFINE Last(cover) == CHOOSE i \in cover : \A j \in cover : j <= i
               Byte(d, o, cover, off(_)) ==
                 IF cover = {} THEN Shown.mem[d][o]
                 ELSE sent[Last(cover)].data[o - off(Last(cover))]
               P(d, o) == LET off(i) == SP!Bus!Target(req, i).off
                          IN  Byte(d, o, SP!Bus!Covering(req, sent, d, o), off)
               Q(d, o) == LET off(i) == Slave!Bus!Target(req, i).off
                          IN  Byte(d, o, Slave!Bus!Covering(req, sent, d, o), off)
    <3>1. ASSUME NEW d, NEW o
          PROVE  P(d, o) = Q(d, o)
      <4> HIDE DEF Last
      <4>1. QED
        BY <2>2, <2>4
    <3>2. /\ SP!Bus!Committed(req, sent)
               = [d \in DOMAIN Devices |-> [o \in 0 .. Devices[d].mask |-> P(d, o)]]
          /\ Slave!Bus!Committed(req, sent)
               = [d \in DOMAIN Devices |-> [o \in 0 .. Devices[d].mask |-> Q(d, o)]]
      BY Zenon DEF SP!Bus!Committed, Slave!Bus!Committed
    <3> HIDE DEF P, Q
    <3>3. QED
      BY <3>1, <3>2
  <2>6. QED
    BY <2>1, <2>3, <2>5
<1>4. SP!Bus!ReadStep => Slave!Bus!ReadStep
  BY <1>1, <1>3 DEF
     SP!Bus!ReadStep, SP!Bus!StartRead, SP!Bus!ServeBeat, SP!Bus!EndRead,
     SP!Bus!Free, SP!Bus!NoBeat, Slave!Bus!ReadStep, Slave!Bus!StartRead,
     Slave!Bus!ServeBeat, Slave!Bus!EndRead, Slave!Bus!Free, Slave!Bus!NoBeat
<1>5. SP!Bus!WriteStep => Slave!Bus!WriteStep
  BY <1>1, <1>3, Zenon DEF
     SP!Bus!WriteStep, SP!Bus!StartWrite, SP!Bus!SendBeat, SP!Bus!Commit,
     SP!Bus!EndWrite, SP!Bus!Free, Slave!Bus!WriteStep, Slave!Bus!StartWrite,
     Slave!Bus!SendBeat, Slave!Bus!Commit, Slave!Bus!EndWrite, Slave!Bus!Free
<1>6. UNCHANGED SP!Bus!busVars => UNCHANGED Slave!Bus!busVars
  BY <1>1 DEF SP!Bus!busVars, Slave!Bus!busVars
<1>7. QED
  BY <1>4, <1>5, <1>6 DEF SP!Bus!Next, Slave!Bus!Next

(* Through main, its reset half cycles, its falling edges, its interrupts and
   its failed comparisons, the processor sees an atomic memory bus: every beat
   of a read shows the memories at its own address and time, none or all of a
   write burst, and all of it once the response is up. *)
THEOREM HarnessImplementsBus == Spec => Slave!ImplementsBus
<1>1. Spec => Slave!Init /\ [][Slave!Next]_(Slave!vars)
  BY HarnessImplementsSlave DEF ImplementsSlave, Slave!Spec
<1>2. QED
  BY <1>1, SameSlaveInit, SameSlaveStep, SlaveFacts, SameBusInit, SameBusStep, PTL
     DEF Slave!ImplementsBus, Slave!Bus!Spec

(* SP says of a posedge what its own module proves of one. *)
LEMMA SlaveCounts ==
  /\ SP!SlaveInv /\ SP!Posedge => SP!AnswersNearer
  /\ SP!SlaveInv /\ m_out =>
       Shown.r_status # "r_idel" /\ SP!RP!PosedgesLeft \in Nat \ {0}
BY SlaveAssumed, SP!PosedgeCountsDown, SP!AnswerIsNear, Zenon DEF SlaveAssumptions

(* This DUT never lowers rready. *)
LEMMA AlwaysReady == (Init => rready) /\ (LinkInv /\ rready /\ [Next]_vars => rready')
<1>1. Init => rready
  BY DEF Init, R!Allocated
<1>2. ASSUME LinkInv, rready, [Next]_vars PROVE rready'
  <2>1. CASE Eval
    BY <1>2, <2>1 DEF Eval, R!MasterStep, R!DriveRReady, LinkInv
  <2>2. CASE ~ Eval
    BY <1>2, <2>2, OthersShowNothing DEF Slave!vars
  <2>3. QED
    BY <2>1, <2>2
<1>3. QED
  BY <1>1, <1>2

(* A read is answered a number of evaluations of the DUT after it was taken that
   is fixed when it is: each brings it nearer by one, and nothing else that main
   does, no half cycle of reset, falling edge, comparison or interrupt, puts it
   off. *)
AnswerComesNearer ==
  [][ m_out => SP!RP!PosedgesLeft' =
                 IF Eval THEN SP!RP!PosedgesLeft - 1 ELSE SP!RP!PosedgesLeft ]_vars

THEOREM HarnessCountsDown ==
  Spec => /\ [](m_out => SP!RP!PosedgesLeft \in Nat \ {0})
          /\ AnswerComesNearer
<1> DEFINE Nearer == m_out => SP!RP!PosedgesLeft' =
                       IF Eval THEN SP!RP!PosedgesLeft - 1 ELSE SP!RP!PosedgesLeft
<1>1. ASSUME SP!SlaveInv, LinkInv, rready, [Next]_vars, m_out
      PROVE  SP!RP!PosedgesLeft' =
               IF Eval THEN SP!RP!PosedgesLeft - 1 ELSE SP!RP!PosedgesLeft
  <2>1. CASE Eval
    <3>1. SP!Posedge
      BY <1>1, <2>1, EvalIsPosedge, SamePosedge
    <3>2. SP!AnswersNearer /\ Shown.r_status # "r_idel"
      BY <1>1, <3>1, SlaveCounts
    <3>3. SP!RP!OneLess
      BY <3>2 DEF SP!AnswersNearer
    <3>4. QED
      BY <1>1, <2>1, <3>3 DEF SP!RP!OneLess
  <2>2. CASE ~ Eval
    <3>1. UNCHANGED <<Shown.r_status, Shown.r_left_time, Shown.r_burst_count>>
      BY <1>1, <2>2, OthersShowNothing DEF Slave!vars
    <3>2. SP!RP!PosedgesLeft' = SP!RP!PosedgesLeft
      BY <3>1, Zenon DEF SP!RP!PosedgesLeft
    <3>3. QED
      BY <2>2, <3>2
  <2>3. QED
    BY <2>1, <2>2
<1>2. SP!SlaveInv /\ LinkInv /\ rready /\ [Next]_vars => [Nearer]_vars
  BY <1>1
<1>3. Spec => Slave!Init /\ [][Slave!Next]_(Slave!vars)
  BY HarnessImplementsSlave DEF ImplementsSlave, Slave!Spec
<1>4. SP!SlaveInv => (m_out => SP!RP!PosedgesLeft \in Nat \ {0})
  BY SlaveCounts
<1>5. QED
  BY <1>2, <1>3, <1>4, SameSlaveInit, SameSlaveStep, SlaveFacts, AlwaysReady,
     HarnessLinkInvariant, PTL DEF Spec, AnswerComesNearer

-----------------------------------------------------------------------------
(* What SimLoopProofs shows of main, with axi_paddr behind it. *)
LP == INSTANCE SimLoopProofs

(* L instantiates SimLoop itself, LP through the module of its proofs: their
   definitions are the same. *)
LEMMA SameLoopInit == L!Init => LP!Init
BY DEF L!Init, LP!Init

(* The same for its steps. *)
LEMMA SameLoopStep == [L!Next]_(L!vars) => [LP!Next]_(LP!vars)
BY ZenonT(120) DEF L!Next, LP!Next, L!vars, LP!vars, L!Main, LP!Main,
   L!InstallHandler, LP!InstallHandler, L!Setup, LP!Setup, L!StartLoop, LP!StartLoop,
   L!LoopHead, LP!LoopHead, L!Clock, LP!Clock, L!ClockAfter, LP!ClockAfter,
   L!Calculate, LP!Calculate, L!Eval, LP!Eval, L!Results, LP!Results,
   L!LastWrite, LP!LastWrite, L!BadAfter, LP!BadAfter, L!TestStatus, LP!TestStatus,
   L!Retire, LP!Retire, L!ExecReference, LP!ExecReference, L!Compare, LP!Compare,
   L!DifftestCheck, LP!DifftestCheck, L!Negedge, LP!Negedge, L!Tick, LP!Tick,
   L!Terminated, LP!Terminated, L!Interrupt, LP!Interrupt, L!InLoop, LP!InLoop,
   L!Goto, LP!Goto, L!clockVars, LP!clockVars, L!dutVars, LP!dutVars, L!seenVars, LP!seenVars

(* What SimLoopProofs shows of the loop, under its own assumptions. *)
LEMMA LoopFacts ==
  /\ LP!Init => LP!LoopInv
  /\ LP!LoopInv /\ [LP!Next]_(LP!vars) => LP!LoopInv'
<1>1. LP!RegsAssumption /\ LP!MaxRetireAssumption /\ LP!RstTicksAssumption
  BY LoopAssumption DEF L!RegsAssumption, L!MaxRetireAssumption, L!RstTicksAssumption,
     LP!RegsAssumption, LP!MaxRetireAssumption, LP!RstTicksAssumption
<1>2. QED
  BY <1>1, LP!InitLoopInv, LP!NextKeepsLoopInv, Zenon

(* With the assertions of a real axi_paddr, DUT and reference are still compared
   in step, and at most one posedge is evaluated after an abort. *)
THEOREM HarnessKeepsStep == Spec => [](L!LockStep /\ L!StopsWithinOnePosedge)
<1>1. LP!LoopInv => L!LockStep /\ L!StopsWithinOnePosedge
  BY DEF LP!LoopInv, LP!LeadIsCurrent, LP!LateIsLast, L!LockStep,
         L!StopsWithinOnePosedge
<1>2. Spec => L!Init /\ [][L!Next]_(L!vars)
  BY HarnessIsLoop DEF L!Spec
<1>3. QED
  BY <1>1, <1>2, SameLoopInit, SameLoopStep, LoopFacts, PTL

(* The loop of Harness is the loop SimLoopProofs speaks of. *)
LEMMA HarnessIsProvedLoop == Spec => LP!Spec
<1>1. Spec => L!Init /\ [][L!Next]_(L!vars)
  BY HarnessIsLoop DEF L!Spec
<1>2. QED
  BY <1>1, SameLoopInit, SameLoopStep, PTL DEF LP!Spec

LEMMA LoopAssumed == LP!RegsAssumption /\ LP!MaxRetireAssumption /\ LP!RstTicksAssumption
BY LoopAssumption DEF L!RegsAssumption, L!MaxRetireAssumption, L!RstTicksAssumption,
   LP!RegsAssumption, LP!MaxRetireAssumption, LP!RstTicksAssumption

(* With a real axi_paddr too, the first posedge out of reset is a half cycle away
   from it and finds the slave reset, and the reference stays where a mismatch
   was found, whichever of assertion, mismatch and SIGINT comes first. *)
THEOREM HarnessKeepsActions == Spec => L!CleanReset /\ L!ReferenceFrozen
<1>1. LP!Spec => LP!CleanReset /\ LP!ReferenceFrozen
  BY LoopAssumed, LP!LoopCleanReset, LP!LoopReferenceFrozen
<1>2. [aresetn' /\ ~ aresetn => ~ aclk' /\ axi_fresh']_(LP!vars)
        => [aresetn' /\ ~ aresetn => ~ aclk' /\ axi_fresh']_(L!vars)
  BY Zenon DEF L!vars, LP!vars, L!clockVars
<1>3. [mismatch => ahead' >= ahead]_(LP!vars) => [mismatch => ahead' >= ahead]_(L!vars)
  BY Zenon DEF L!vars, LP!vars
<1>4. QED
  BY <1>1, <1>2, <1>3, HarnessIsProvedLoop, PTL
     DEF L!CleanReset, LP!CleanReset, L!ReferenceFrozen, LP!ReferenceFrozen

(* With a real axi_paddr too, main never stops coming nearer to the next valid
   posedge, which AnswerComesNearer counts. *)
THEOREM HarnessKeepsClocking == Spec => LP!KeepsClocking
<1>1. LP!Spec => LP!KeepsClocking
  BY LoopAssumed, LP!LoopKeepsClocking
<1>2. QED
  BY <1>1, HarnessIsProvedLoop, PTL

(* An abort by an assertion of a real axi_paddr ends the run as well: at most
   13 + 4 * RstTicks statements of main are left, fewer with each. *)
THEOREM HarnessWindsDown == Spec => []LP!EndIsNear /\ LP!WindsDown
<1>1. LP!Spec => []LP!EndIsNear /\ LP!WindsDown
  BY LoopAssumed, LP!LoopWindsDown
<1>2. QED
  BY <1>1, HarnessIsProvedLoop, PTL
=============================================================================
