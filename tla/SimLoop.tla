------------------------------ MODULE SimLoop -------------------------------
(***************************************************************************)
(* The main loop of the simulator (csrc/diff-main.cpp): it clocks the      *)
(* design under test (DUT) and axi_paddr, lets the reference execute as    *)
(* many instructions as the DUT retired, and compares their registers.     *)
(* SIGINT may arrive between any two statements.                           *)
(*                                                                         *)
(* The DUT and the reference are external.  An instruction writes one      *)
(* register; `bad' is the set of registers in which the two differ.        *)
(***************************************************************************)
EXTENDS Integers, Sequences

CONSTANTS
  Regs,       \* what difftest_check compares
  MaxRetire,  \* most instructions retired in one posedge: 2 (dpi_retire)
  RstTicks    \* half cycles under reset: 5 in the program

ASSUME RegsAssumption == Regs # {}

ASSUME MaxRetireAssumption == MaxRetire \in Nat \ {0}

(* aresetn rises together with a falling clock. *)
ASSUME RstTicksAssumption == RstTicks \in Nat /\ RstTicks % 2 = 1

VARIABLES
  pc,          \* the statement of main about to be executed
  sim_status,  \* "SIM_STOP", "SIM_RUN" or "SIM_ABORT"
  handler,     \* std::signal has been called
  rst_ticks, aclk, aresetn,
  axi_fresh,   \* axi->reset() was called and no posedge since
  got_finish,  \* the DUT executed $finish
  commit_num,  \* what dpi_retire returns
  ahead,       \* instructions the DUT has retired and the reference has not
  bad,         \* registers that differ once the reference has caught up
  interrupted, \* history: a SIGINT arrived while the loop was running
  mismatch,    \* history: difftest_check returned false
  slipped,     \* history: a wrong result was gone before it was compared
  late_evals   \* history: valid posedges evaluated since the loop was aborted

vars == <<pc, sim_status, handler, rst_ticks, aclk, aresetn, axi_fresh, got_finish,
          commit_num, ahead, bad, interrupted, mismatch, slipped, late_evals>>

clockVars == <<rst_ticks, aclk, aresetn, axi_fresh>>
dutVars   == <<got_finish, commit_num, bad, slipped>>
seenVars  == <<interrupted, mismatch, late_evals>>

Labels == {"install", "setup", "start", "head", "clock", "calculate", "eval",
           "status", "retire", "exec", "compare", "negedge", "tick", "done"}

InLoop == pc \notin {"install", "setup", "start", "done"}

Init ==
  /\ pc = "install"
  /\ sim_status = "SIM_STOP"
  /\ handler = FALSE
  /\ rst_ticks = RstTicks /\ aclk = FALSE /\ aresetn = FALSE
  /\ axi_fresh = FALSE
  /\ got_finish = FALSE
  /\ commit_num = 0 /\ ahead = 0 /\ bad = {}
  /\ interrupted = FALSE /\ mismatch = FALSE /\ slipped = FALSE
  /\ late_evals = 0

-----------------------------------------------------------------------------

Goto(from, to) == pc = from /\ pc' = to

InstallHandler ==
  /\ Goto("install", "setup")
  /\ handler' = TRUE
  /\ UNCHANGED <<sim_status, clockVars, dutVars, ahead, seenVars>>

(* Devices, memory image, reference and waveform are set up. *)
Setup ==
  /\ Goto("setup", "start")
  /\ UNCHANGED <<sim_status, handler, clockVars, dutVars, ahead, seenVars>>

(* An interrupt that came before this statement is forgotten. *)
StartLoop ==
  /\ Goto("start", "head")
  /\ sim_status' = "SIM_RUN"
  /\ UNCHANGED <<handler, clockVars, dutVars, ahead, seenVars>>

LoopHead ==
  /\ pc = "head"
  /\ pc' = IF got_finish THEN "done" ELSE "clock"
  /\ UNCHANGED <<sim_status, handler, clockVars, dutVars, ahead, seenVars>>

(* One half cycle with reset held for as many of them as ticks says. *)
ClockAfter(held) ==
  /\ pc = "clock"
  /\ IF held
     THEN /\ aresetn' = FALSE
          /\ rst_ticks' = rst_ticks - 1
          /\ axi_fresh' = TRUE
     ELSE /\ aresetn' = TRUE
          /\ UNCHANGED <<rst_ticks, axi_fresh>>
  /\ aclk' = ~ aclk
  /\ pc' = IF aclk' /\ aresetn' THEN "calculate" ELSE "negedge"
  /\ UNCHANGED <<sim_status, handler, dutVars, ahead, seenVars>>

(* Mutant: the last half cycle of reset is dropped. *)
ClockShortReset == ClockAfter(rst_ticks > 1)

Clock == ClockAfter(rst_ticks > 0)

(* axi->calculate_output(): an assertion in it may abort the run. *)
Calculate ==
  /\ Goto("calculate", "eval")
  /\ \/ UNCHANGED sim_status
     \/ sim_status' = "SIM_ABORT"
  /\ axi_fresh' = FALSE
  /\ UNCHANGED <<handler, rst_ticks, aclk, aresetn, dutVars, ahead, seenVars>>

(* What n retired instructions can do to the registers that differ: each   *)
(* writes one register, rightly or wrongly.  slips: one of them was wrong  *)
(* in a register that a later one of the same posedge wrote again.         *)
Results(n) == [1 .. n -> [reg : Regs, right : BOOLEAN]]

LastWrite(res, n, i) == \A j \in i + 1 .. n : res[j].reg # res[i].reg

BadAfter(n, res) ==
  (bad \ { res[i].reg : i \in 1 .. n })
    \cup { res[i].reg : i \in { k \in 1 .. n : ~ res[k].right /\ LastWrite(res, n, k) } }

(* top->eval() on a valid posedge, v_confreg->tick(), axi->update_output() *)
Eval ==
  /\ Goto("eval", "status")
  /\ \E n \in 0 .. MaxRetire : \E res \in Results(n) :
       /\ commit_num' = n
       /\ bad' = BadAfter(n, res)
       /\ slipped' = (slipped \/ \E i \in 1 .. n :
                                   ~ res[i].right /\ ~ LastWrite(res, n, i))
       /\ ahead' = ahead + n
  /\ got_finish' \in {got_finish, TRUE}
  /\ late_evals' = IF sim_status = "SIM_ABORT" THEN late_evals + 1 ELSE late_evals
  /\ UNCHANGED <<sim_status, handler, clockVars, interrupted, mismatch>>

(* Mutant: the status is not looked at after a posedge that retires nothing. *)
StatusOnRetire ==
  /\ pc = "status"
  /\ pc' = IF sim_status # "SIM_RUN" /\ commit_num > 0 THEN "done" ELSE "retire"
  /\ UNCHANGED <<sim_status, handler, clockVars, dutVars, ahead, seenVars>>

(* Mutant: only the loop head would stop the simulation. *)
StatusIgnored ==
  /\ Goto("status", "retire")
  /\ UNCHANGED <<sim_status, handler, clockVars, dutVars, ahead, seenVars>>

TestStatus ==
  /\ pc = "status"
  /\ pc' = IF sim_status # "SIM_RUN" THEN "done" ELSE "retire"
  /\ UNCHANGED <<sim_status, handler, clockVars, dutVars, ahead, seenVars>>

Retire ==
  /\ pc = "retire"
  /\ pc' = IF commit_num > 0 THEN "exec" ELSE "tick"
  /\ UNCHANGED <<sim_status, handler, clockVars, dutVars, ahead, seenVars>>

(* Mutant: the reference executes one instruction for each comparison. *)
ExecJustOne ==
  /\ Goto("exec", "compare")
  /\ ahead' = ahead - 1
  /\ UNCHANGED <<sim_status, handler, clockVars, dutVars, seenVars>>

(* ref_exec_once, commit_num times. *)
ExecReference ==
  /\ Goto("exec", "compare")
  /\ ahead' = ahead - commit_num
  /\ UNCHANGED <<sim_status, handler, clockVars, dutVars, seenVars>>

(* difftest_check: pc and the 32 registers, not hi and lo. *)
DifftestCheck == bad = {}

(* Mutant: the error is shown and the run goes on. *)
CompareShowOnly ==
  /\ Goto("compare", "tick")
  /\ mismatch' = (mismatch \/ ~ DifftestCheck)
  /\ UNCHANGED <<sim_status, handler, clockVars, dutVars, ahead, interrupted,
                 late_evals>>

(* Mutant: a comparison that succeeds sets the run going again. *)
CompareResumes ==
  /\ Goto("compare", "tick")
  /\ IF ~ DifftestCheck
     THEN sim_status' = "SIM_ABORT" /\ mismatch' = TRUE
     ELSE sim_status' = "SIM_RUN" /\ UNCHANGED mismatch
  /\ UNCHANGED <<handler, clockVars, dutVars, ahead, interrupted, late_evals>>

(* On a difference __ASSERT_SIM__(0, "DIFFTEST ERROR!"). *)
Compare ==
  /\ Goto("compare", "tick")
  /\ IF ~ DifftestCheck
     THEN sim_status' = "SIM_ABORT" /\ mismatch' = TRUE
     ELSE UNCHANGED <<sim_status, mismatch>>
  /\ UNCHANGED <<handler, clockVars, dutVars, ahead, interrupted, late_evals>>

(* top->eval() under reset or on a falling edge. *)
Negedge ==
  /\ Goto("negedge", "tick")
  /\ got_finish' \in {got_finish, TRUE}
  /\ UNCHANGED <<sim_status, handler, clockVars, commit_num, bad, slipped, ahead,
                 seenVars>>

Tick ==
  /\ Goto("tick", "head")
  /\ UNCHANGED <<sim_status, handler, clockVars, dutVars, ahead, seenVars>>

Main ==
  \/ InstallHandler \/ Setup \/ StartLoop \/ LoopHead \/ Clock \/ Calculate
  \/ Eval \/ TestStatus \/ Retire \/ ExecReference \/ Compare \/ Negedge \/ Tick

(* The lambda given to std::signal; without it SIGINT ends the process. *)
Interrupt ==
  /\ handler
  /\ pc # "done"
  /\ sim_status' = "SIM_ABORT"
  /\ interrupted' = (interrupted \/ InLoop)
  /\ UNCHANGED <<pc, handler, clockVars, dutVars, ahead, mismatch, late_evals>>

Terminated == pc = "done" /\ UNCHANGED vars

Next == Main \/ Interrupt \/ Terminated

Spec == Init /\ [][Next]_vars

(* The process runs; nobody has to press Control-C. *)
FairSpec == Spec /\ WF_vars(Main)

-----------------------------------------------------------------------------

TypeOK ==
  /\ pc \in Labels
  /\ sim_status \in {"SIM_STOP", "SIM_RUN", "SIM_ABORT"}
  /\ rst_ticks \in 0 .. RstTicks
  /\ commit_num \in 0 .. MaxRetire /\ ahead \in 0 .. MaxRetire
  /\ bad \subseteq Regs
  /\ late_evals \in Nat
  /\ handler \in BOOLEAN /\ aclk \in BOOLEAN /\ aresetn \in BOOLEAN
  /\ axi_fresh \in BOOLEAN /\ got_finish \in BOOLEAN
  /\ interrupted \in BOOLEAN /\ mismatch \in BOOLEAN /\ slipped \in BOOLEAN

(* The registers are compared only when DUT and reference have executed the
   same instructions, and every half cycle starts with the two level, after
   interrupts and mismatches too: only the posedge that ends the run may leave
   the DUT ahead. *)
LockStep == pc \in {"compare", "head"} => ahead = 0

(* Once anything has aborted the loop, one more valid posedge is evaluated at
   most, whatever of the three wrote sim_status and wherever the loop was. *)
StopsWithinOnePosedge == late_evals <= 1

(* After a mismatch the reference stays where it is: no instruction is executed
   behind the state that difftest_show_error has printed. *)
ReferenceFrozen == [][ mismatch => ahead' >= ahead ]_vars

(* Reset ends on a falling clock, so that the first valid posedge is a whole
   half cycle later and finds axi_paddr as axi->reset() left it. *)
CleanReset ==
  [][ aresetn' /\ ~ aresetn => ~ aclk' /\ axi_fresh' ]_vars

(* A register that still differs when its posedge is compared stops the run. *)
DivergenceStops == (pc = "compare" /\ bad # {}) ~> pc = "done"

(* An interrupt while the loop runs ends it. *)
InterruptStops == interrupted ~> pc = "done"

(* difftest_init logs "The result of every instruction will be compared". *)
EveryResultCompared == ~ slipped
=============================================================================
