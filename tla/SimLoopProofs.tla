--------------------------- MODULE SimLoopProofs ----------------------------
(***************************************************************************)
(* The main loop, for any set of registers, any retire width and any odd   *)
(* length of the reset.                                                    *)
(***************************************************************************)
EXTENDS SimLoop, TLAPS

(* The lead of the DUT is what the current posedge retired, from eval to the
   reference's execution, and is settled at every other statement of the loop. *)
LeadIsCurrent ==
  /\ pc \in {"status", "retire", "exec"} => ahead = commit_num
  /\ pc \notin {"status", "retire", "exec", "done"} => ahead = 0

(* A posedge evaluated after an abort is followed by the status test, and
   nothing takes the abort back. *)
LateIsLast ==
  /\ late_evals \in {0, 1}
  /\ late_evals = 1 => pc \in {"status", "done"} /\ sim_status = "SIM_ABORT"

(* A mismatch is an abort; it is followed by no status test that passes. *)
MismatchAborts ==
  mismatch => /\ sim_status = "SIM_ABORT"
              /\ pc \in {"tick", "head", "clock", "negedge", "calculate", "eval",
                         "status", "done"}

(* Half of the reset: its length and the level of the clock go together, and
   axi_paddr is reset in every half cycle of it. *)
ResetParity ==
  /\ aresetn => rst_ticks = 0
  /\ pc = "calculate" => aresetn
  /\ ~ aresetn => (aclk <=> (RstTicks - rst_ticks) % 2 = 1)
  /\ ~ aresetn /\ rst_ticks < RstTicks => axi_fresh

LoopInv ==
  TypeOK /\ LeadIsCurrent /\ LateIsLast /\ MismatchAborts /\ ResetParity

USE DEF clockVars, dutVars, seenVars, Goto

LEMMA InitLoopInv == Init => LoopInv
<1> SUFFICES ASSUME Init PROVE LoopInv
  OBVIOUS
<1>1. TypeOK
  <2>1. 0 \in 0 .. MaxRetire /\ RstTicks \in 0 .. RstTicks
    BY MaxRetireAssumption, RstTicksAssumption
  <2>2. QED
    BY <2>1 DEF Init, TypeOK, Labels
<1>2. LeadIsCurrent /\ LateIsLast /\ MismatchAborts
  BY DEF Init, LeadIsCurrent, LateIsLast, MismatchAborts
<1>3. ResetParity
  <2>1. ~ ((RstTicks - rst_ticks) % 2 = 1) /\ ~ (rst_ticks < RstTicks)
    BY RstTicksAssumption DEF Init
  <2>2. QED
    BY <2>1 DEF Init, ResetParity
<1>4. QED
  BY <1>1, <1>2, <1>3 DEF LoopInv

(* The results of a posedge only name registers. *)
LEMMA BadAfterType ==
  ASSUME bad \subseteq Regs, NEW n \in Nat, NEW res \in Results(n)
  PROVE  BadAfter(n, res) \subseteq Regs
BY DEF BadAfter, Results, LastWrite

LEMMA EvalKeepsLoopInv == LoopInv /\ Eval => LoopInv'
<1> SUFFICES ASSUME LoopInv, Eval PROVE LoopInv'
  OBVIOUS
<1> USE DEF LoopInv
<1>0. PICK n \in 0 .. MaxRetire :
        \E res \in Results(n) :
          /\ commit_num' = n
          /\ bad' = BadAfter(n, res)
          /\ slipped' = (slipped \/ \E i \in 1 .. n :
                                      ~ res[i].right /\ ~ LastWrite(res, n, i))
          /\ ahead' = ahead + n
  BY DEF Eval
<1>1. PICK res \in Results(n) :
        /\ commit_num' = n
        /\ bad' = BadAfter(n, res)
        /\ slipped' = (slipped \/ \E i \in 1 .. n :
                                    ~ res[i].right /\ ~ LastWrite(res, n, i))
        /\ ahead' = ahead + n
  BY <1>0
<1>2. pc = "eval" /\ pc' = "status" /\ ahead = 0 /\ late_evals = 0
  BY DEF Eval, LeadIsCurrent, LateIsLast
<1>3. /\ sim_status' = sim_status /\ handler' = handler /\ rst_ticks' = rst_ticks
      /\ aclk' = aclk /\ aresetn' = aresetn /\ axi_fresh' = axi_fresh
      /\ interrupted' = interrupted /\ mismatch' = mismatch
      /\ got_finish' \in {got_finish, TRUE}
  BY DEF Eval
<1>4. /\ late_evals' \in {0, 1}
      /\ late_evals' = 1 => sim_status = "SIM_ABORT"
  BY <1>2 DEF Eval
<1>5. n \in Nat
  BY MaxRetireAssumption
<1>6. TypeOK'
  <2>1. bad' \subseteq Regs
    BY <1>1, <1>5, BadAfterType DEF TypeOK
  <2>2. ahead' \in 0 .. MaxRetire /\ commit_num' \in 0 .. MaxRetire
    BY <1>1, <1>2
  <2>3. slipped' \in BOOLEAN
    BY <1>1, Zenon
  <2>4. got_finish' \in BOOLEAN
    BY <1>3 DEF TypeOK
  <2>5. late_evals' \in Nat
    BY <1>4
  <2>6. pc' \in Labels
    BY <1>2 DEF Labels
  <2>7. QED
    BY <1>3, <2>1, <2>2, <2>3, <2>4, <2>5, <2>6 DEF TypeOK
<1>7. LeadIsCurrent'
  BY <1>1, <1>2, <1>5 DEF LeadIsCurrent
<1>8. LateIsLast'
  BY <1>2, <1>3, <1>4 DEF LateIsLast
<1>9. MismatchAborts'
  BY <1>2, <1>3 DEF MismatchAborts
<1>10. ResetParity'
  BY <1>2, <1>3 DEF ResetParity
<1>11. QED
  BY <1>6, <1>7, <1>8, <1>9, <1>10

LEMMA ClockKeepsLoopInv == LoopInv /\ Clock => LoopInv'
<1> SUFFICES ASSUME LoopInv, Clock PROVE LoopInv'
  OBVIOUS
<1> USE DEF LoopInv
<1>1. /\ pc = "clock" /\ pc' \in {"calculate", "negedge"}
      /\ aclk' = ~ aclk /\ aresetn' \in BOOLEAN
      /\ UNCHANGED <<sim_status, handler, dutVars, ahead, seenVars>>
  BY DEF Clock, ClockAfter
<1>2. rst_ticks > 0 => /\ aresetn' = FALSE /\ rst_ticks' = rst_ticks - 1
                       /\ axi_fresh' = TRUE
  BY DEF Clock, ClockAfter
<1>3. ~ (rst_ticks > 0) => /\ aresetn' = TRUE /\ rst_ticks' = rst_ticks
                           /\ axi_fresh' = axi_fresh
  BY DEF Clock, ClockAfter
<1>4. rst_ticks \in 0 .. RstTicks /\ RstTicks \in Nat
  BY RstTicksAssumption DEF TypeOK
<1>5. TypeOK'
  <2>1. rst_ticks' \in 0 .. RstTicks
    BY <1>2, <1>3, <1>4
  <2>2. axi_fresh' \in BOOLEAN /\ aclk' \in BOOLEAN
    BY <1>1, <1>2, <1>3 DEF TypeOK
  <2>3. pc' \in Labels
    BY <1>1 DEF Labels
  <2>4. QED
    BY <1>1, <2>1, <2>2, <2>3 DEF TypeOK
<1>6. LeadIsCurrent' /\ LateIsLast' /\ MismatchAborts'
  BY <1>1 DEF LeadIsCurrent, LateIsLast, MismatchAborts
<1>7. ResetParity'
  <2>1. CASE rst_ticks > 0 /\ ~ aresetn
    <3>1. aclk <=> (RstTicks - rst_ticks) % 2 = 1
      BY <2>1 DEF ResetParity
    <3>2. (RstTicks - (rst_ticks - 1)) % 2 = 1 <=> ~ ((RstTicks - rst_ticks) % 2 = 1)
      BY <1>4
    <3>3. aclk' <=> (RstTicks - rst_ticks') % 2 = 1
      BY <1>1, <1>2, <2>1, <3>1, <3>2
    <3>4. pc' # "calculate"
      BY <1>2, <2>1 DEF Clock, ClockAfter
    <3>5. QED
      BY <1>2, <2>1, <3>3, <3>4 DEF ResetParity
  <2>2. CASE ~ (rst_ticks > 0)
    <3>1. rst_ticks' = 0
      BY <1>3, <1>4, <2>2
    <3>2. QED
      BY <1>3, <2>2, <3>1 DEF ResetParity
  <2>3. CASE rst_ticks > 0 /\ aresetn
    BY <2>3 DEF ResetParity
  <2>4. QED
    BY <2>1, <2>2, <2>3 DEF TypeOK
<1>8. QED
  BY <1>5, <1>6, <1>7

(* The other statements of main, and the signal handler between them. *)
LEMMA OthersKeepLoopInv ==
  ASSUME LoopInv,
         \/ InstallHandler \/ Setup \/ StartLoop \/ LoopHead \/ Calculate
         \/ TestStatus \/ Retire \/ Negedge \/ Tick
  PROVE  LoopInv'
<1> USE DEF LoopInv, Labels
<1>1. CASE InstallHandler
  BY <1>1 DEF InstallHandler, TypeOK, LeadIsCurrent, LateIsLast, MismatchAborts,
              ResetParity
<1>2. CASE Setup
  BY <1>2 DEF Setup, TypeOK, LeadIsCurrent, LateIsLast, MismatchAborts, ResetParity
<1>3. CASE StartLoop
  BY <1>3 DEF StartLoop, TypeOK, LeadIsCurrent, LateIsLast, MismatchAborts,
              ResetParity
<1>4. CASE LoopHead
  BY <1>4 DEF LoopHead, TypeOK, LeadIsCurrent, LateIsLast, MismatchAborts,
              ResetParity
<1>5. CASE Calculate
  BY <1>5 DEF Calculate, TypeOK, LeadIsCurrent, LateIsLast, MismatchAborts,
              ResetParity
<1>6. CASE TestStatus
  BY <1>6 DEF TestStatus, TypeOK, LeadIsCurrent, LateIsLast, MismatchAborts,
              ResetParity
<1>7. CASE Retire
  BY <1>7 DEF Retire, TypeOK, LeadIsCurrent, LateIsLast, MismatchAborts, ResetParity
<1>8. CASE Negedge
  <2>1. /\ pc = "negedge" /\ pc' = "tick"
        /\ UNCHANGED <<sim_status, handler, clockVars, ahead, seenVars>>
        /\ UNCHANGED <<commit_num, bad, slipped>>
    BY <1>8 DEF Negedge
  <2>2. TypeOK'
    <3>1. got_finish' \in BOOLEAN
      BY <1>8 DEF Negedge, TypeOK
    <3>2. QED
      BY <2>1, <3>1 DEF TypeOK
  <2>3. LeadIsCurrent' /\ LateIsLast'
    BY <2>1 DEF LeadIsCurrent, LateIsLast
  <2>4. MismatchAborts'
    BY <2>1 DEF MismatchAborts
  <2>5. ResetParity'
    BY <2>1 DEF ResetParity
  <2>6. QED
    BY <2>2, <2>3, <2>4, <2>5
<1>9. CASE Tick
  BY <1>9 DEF Tick, TypeOK, LeadIsCurrent, LateIsLast, MismatchAborts, ResetParity
<1>10. QED
  BY <1>1, <1>2, <1>3, <1>4, <1>5, <1>6, <1>7, <1>8, <1>9

LEMMA ReferenceKeepsLoopInv ==
  ASSUME LoopInv, ExecReference \/ Compare
  PROVE  LoopInv'
<1> USE DEF LoopInv, Labels
<1>1. CASE ExecReference
  BY <1>1, MaxRetireAssumption
     DEF ExecReference, TypeOK, LeadIsCurrent, LateIsLast, MismatchAborts,
         ResetParity
<1>2. CASE Compare
  <2>1. TypeOK'
    BY <1>2 DEF Compare, TypeOK
  <2>2. LeadIsCurrent' /\ LateIsLast'
    BY <1>2 DEF Compare, TypeOK, LeadIsCurrent, LateIsLast
  <2>3. MismatchAborts' /\ ResetParity'
    BY <1>2 DEF Compare, TypeOK, MismatchAborts, ResetParity
  <2>4. QED
    BY <2>1, <2>2, <2>3
<1>3. QED
  BY <1>1, <1>2

LEMMA InterruptKeepsLoopInv == LoopInv /\ Interrupt => LoopInv'
<1> SUFFICES ASSUME LoopInv, Interrupt PROVE LoopInv'
  OBVIOUS
<1> USE DEF LoopInv
<1>1. /\ UNCHANGED <<pc, handler, clockVars, dutVars, ahead, mismatch, late_evals>>
      /\ sim_status' = "SIM_ABORT"
      /\ interrupted' = (interrupted \/ InLoop)
  BY DEF Interrupt
<1>2. interrupted' \in BOOLEAN
  BY <1>1, Zenon
<1>3. TypeOK'
  BY <1>1, <1>2 DEF TypeOK
<1>4. LeadIsCurrent' /\ LateIsLast' /\ MismatchAborts' /\ ResetParity'
  BY <1>1 DEF LeadIsCurrent, LateIsLast, MismatchAborts, ResetParity
<1>5. QED
  BY <1>3, <1>4

LEMMA NextKeepsLoopInv == LoopInv /\ [Next]_vars => LoopInv'
<1> SUFFICES ASSUME LoopInv, [Next]_vars PROVE LoopInv'
  OBVIOUS
<1>1. CASE Main
  BY <1>1, EvalKeepsLoopInv, ClockKeepsLoopInv, OthersKeepLoopInv,
     ReferenceKeepsLoopInv DEF Main
<1>2. CASE Interrupt
  BY <1>2, InterruptKeepsLoopInv
<1>3. CASE Terminated \/ UNCHANGED vars
  BY <1>3 DEF Terminated, vars, LoopInv, TypeOK, LeadIsCurrent, LateIsLast,
              MismatchAborts, ResetParity
<1>4. QED
  BY <1>1, <1>2, <1>3 DEF Next

(* The invariant of the loop. *)
THEOREM LoopInvariant == Spec => []LoopInv
BY InitLoopInv, NextKeepsLoopInv, PTL DEF Spec

(* The reference is level with the DUT whenever they are compared and at the
   start of every half cycle. *)
THEOREM LoopLockStep == Spec => []LockStep
<1>1. LoopInv => LockStep
  BY DEF LoopInv, LeadIsCurrent, LockStep
<1>2. QED
  BY <1>1, LoopInvariant, PTL

(* No abort, whoever raised it and wherever, lets more than one further valid
   posedge happen. *)
THEOREM LoopStopsSoon == Spec => []StopsWithinOnePosedge
<1>1. LoopInv => StopsWithinOnePosedge
  BY DEF LoopInv, LateIsLast, StopsWithinOnePosedge
<1>2. QED
  BY <1>1, LoopInvariant, PTL

(* Reset always ends on a falling clock with axi_paddr freshly reset. *)
THEOREM LoopCleanReset == Spec => CleanReset
<1>1. LoopInv /\ [Next]_vars => [aresetn' /\ ~ aresetn => ~ aclk' /\ axi_fresh']_vars
  <2> SUFFICES ASSUME LoopInv, Next, aresetn', ~ aresetn
               PROVE  ~ aclk' /\ axi_fresh'
    OBVIOUS
  <2>1. Clock
    BY DEF Next, Main, Interrupt, Terminated, vars, InstallHandler, Setup, StartLoop,
           LoopHead, Calculate, Eval, TestStatus, Retire, ExecReference, Compare,
           Negedge, Tick
  <2>2. rst_ticks = 0 /\ aclk' = ~ aclk /\ axi_fresh' = axi_fresh
    BY <2>1 DEF Clock, ClockAfter, LoopInv, TypeOK
  <2>3. 0 < RstTicks /\ (RstTicks - 0) % 2 = 1
    BY RstTicksAssumption
  <2>4. aclk /\ axi_fresh
    BY <2>2, <2>3 DEF LoopInv, ResetParity
  <2>5. QED
    BY <2>2, <2>4
<1>2. QED
  BY <1>1, LoopInvariant, PTL DEF Spec, CleanReset

(* After a mismatch no instruction is executed by the reference. *)
THEOREM LoopReferenceFrozen == Spec => ReferenceFrozen
<1>1. LoopInv /\ [Next]_vars => [mismatch => ahead' >= ahead]_vars
  <2> SUFFICES ASSUME LoopInv, Next, mismatch
               PROVE  ahead' >= ahead
    OBVIOUS
  <2>1. ahead \in Nat /\ pc # "exec"
    BY DEF LoopInv, TypeOK, MismatchAborts
  <2>2. CASE Eval
    BY <2>1, <2>2 DEF Eval
  <2>3. CASE ~ Eval
    <3>1. ahead' = ahead
      BY <2>1, <2>3
         DEF Next, Main, Interrupt, Terminated, vars, InstallHandler, Setup,
             StartLoop, LoopHead, Clock, ClockAfter, Calculate, TestStatus, Retire,
             ExecReference, Compare, Negedge, Tick
    <3>2. QED
      BY <2>1, <3>1
  <2>4. QED
    BY <2>2, <2>3
<1>2. QED
  BY <1>1, LoopInvariant, PTL DEF Spec, ReferenceFrozen

-----------------------------------------------------------------------------
(***************************************************************************)
(* What is behind InterruptStops and DivergenceStops: how many statements  *)
(* main has before it at most, once the run is aborted.                    *)
(***************************************************************************)
HalfCyclesToPosedge ==
  IF rst_ticks > 0 THEN rst_ticks + 1 ELSE IF aclk THEN 1 ELSE 0

(* A half cycle without a valid posedge is four statements, the one with it has
   five up to the test of the status; half is the number of those before it. *)
LeftFrom(statement, half) ==
  CASE statement = "done"      -> 0
    [] statement = "status"    -> 1
    [] statement = "eval"      -> 2
    [] statement = "calculate" -> 3
    [] statement = "clock"     -> 4 + 4 * half
    [] statement = "head"      -> 5 + 4 * half
    [] statement = "tick"      -> 6 + 4 * half
    [] statement \in {"compare", "negedge"} -> 7 + 4 * half
    [] statement = "exec"      -> 8 + 4 * half
    [] statement = "retire"    -> 9 + 4 * half

StatementsLeft == LeftFrom(pc, HalfCyclesToPosedge)

LEMMA LeftFromFacts ==
  ASSUME NEW half
  PROVE  /\ LeftFrom("done", half) = 0
         /\ LeftFrom("status", half) = 1
         /\ LeftFrom("eval", half) = 2
         /\ LeftFrom("calculate", half) = 3
         /\ LeftFrom("clock", half) = 4 + 4 * half
         /\ LeftFrom("head", half) = 5 + 4 * half
         /\ LeftFrom("tick", half) = 6 + 4 * half
         /\ LeftFrom("compare", half) = 7 + 4 * half
         /\ LeftFrom("negedge", half) = 7 + 4 * half
         /\ LeftFrom("exec", half) = 8 + 4 * half
         /\ LeftFrom("retire", half) = 9 + 4 * half
<1>1. LeftFrom("done", half) = 0 /\ LeftFrom("status", half) = 1
  BY DEF LeftFrom
<1>2. LeftFrom("eval", half) = 2 /\ LeftFrom("calculate", half) = 3
  BY DEF LeftFrom
<1>3. LeftFrom("clock", half) = 4 + 4 * half /\ LeftFrom("head", half) = 5 + 4 * half
  BY DEF LeftFrom
<1>4. LeftFrom("tick", half) = 6 + 4 * half
  BY DEF LeftFrom
<1>5. /\ LeftFrom("compare", half) = 7 + 4 * half
      /\ LeftFrom("negedge", half) = 7 + 4 * half
  BY DEF LeftFrom
<1>6. LeftFrom("exec", half) = 8 + 4 * half /\ LeftFrom("retire", half) = 9 + 4 * half
  BY DEF LeftFrom
<1>7. QED
  BY <1>1, <1>2, <1>3, <1>4, <1>5, <1>6

LEMMA HalfCyclesType ==
  ASSUME LoopInv
  PROVE  HalfCyclesToPosedge \in 0 .. RstTicks + 1
BY RstTicksAssumption DEF LoopInv, TypeOK, HalfCyclesToPosedge

(* A half cycle that is not a valid posedge brings that posedge one nearer: the
   reset leaves the clock high (ResetParity), one half cycle before it. *)
LEMMA ClockComesNearer ==
  ASSUME LoopInv, Clock
  PROVE  \/ pc' = "calculate"
         \/ /\ pc' = "negedge"
            /\ HalfCyclesToPosedge' = HalfCyclesToPosedge - 1
<1>1. /\ rst_ticks \in Nat /\ aclk \in BOOLEAN /\ aclk' = ~ aclk
      /\ pc' = IF aclk' /\ aresetn' THEN "calculate" ELSE "negedge"
  BY RstTicksAssumption DEF LoopInv, TypeOK, Clock, ClockAfter
<1>2. CASE rst_ticks = 0
  <2>1. aresetn' = TRUE /\ rst_ticks' = 0
    BY <1>2 DEF Clock, ClockAfter
  <2>2. CASE aclk
    <3>1. aclk' = FALSE /\ pc' = "negedge"
      BY <1>1, <2>2
    <3>2. QED
      BY <1>2, <2>1, <2>2, <3>1 DEF HalfCyclesToPosedge
  <2>3. CASE ~ aclk
    BY <1>1, <2>1, <2>3, Zenon
  <2>4. QED
    BY <2>2, <2>3
<1>3. CASE rst_ticks > 0
  <2>1. aresetn' = FALSE /\ rst_ticks' = rst_ticks - 1 /\ pc' = "negedge"
    BY <1>1, <1>3 DEF Clock, ClockAfter
  <2>2. rst_ticks = 1 => aclk' = TRUE
    <3>1. ~ aresetn
      BY <1>3 DEF LoopInv, ResetParity
    <3>2. aclk <=> (RstTicks - rst_ticks) % 2 = 1
      BY <3>1 DEF LoopInv, ResetParity
    <3>3. RstTicks \in Nat /\ (RstTicks % 2 = 1 => ~ ((RstTicks - 1) % 2 = 1))
      BY RstTicksAssumption
    <3>4. QED
      BY <1>1, <3>2, <3>3, RstTicksAssumption
  <2>3. QED
    BY <1>1, <1>3, <2>1, <2>2 DEF HalfCyclesToPosedge
<1>4. QED
  BY <1>1, <1>2, <1>3

(* From an abort on, whoever raised it and wherever, every statement main
   executes brings the end of the loop nearer, nothing takes the abort back, and
   a further interrupt does not put the end off. *)
WindsDown ==
  [][ sim_status = "SIM_ABORT" /\ InLoop =>
        /\ sim_status' = "SIM_ABORT"
        /\ StatementsLeft' <= StatementsLeft
        /\ pc' # pc => StatementsLeft' < StatementsLeft ]_vars

(* How far away the end can be, which the length of the reset decides. *)
EndIsNear == InLoop => StatementsLeft \in 1 .. 13 + 4 * RstTicks

LEMMA LoopEndIsNear ==
  ASSUME LoopInv
  PROVE  EndIsNear
<1>1. HalfCyclesToPosedge \in 0 .. RstTicks + 1 /\ RstTicks \in Nat
  BY HalfCyclesType, RstTicksAssumption
<1>2. SUFFICES ASSUME InLoop PROVE StatementsLeft \in 1 .. 13 + 4 * RstTicks
  BY DEF EndIsNear
<1>3. pc \in {"eval", "status", "calculate", "clock", "head", "tick", "compare",
             "negedge", "exec", "retire"}
  BY <1>2 DEF InLoop, LoopInv, TypeOK, Labels
<1>4. QED
  BY <1>1, <1>3, LeftFromFacts DEF StatementsLeft

(* Every statement of the loop is followed by one that is nearer to the test of
   the status, but for that test itself when it lets the run go on. *)
LEMMA StepComesNearer ==
  ASSUME LoopInv, Main, InLoop, ~ (pc = "status" /\ pc' = "retire")
  PROVE  StatementsLeft' < StatementsLeft
<1>1. HalfCyclesToPosedge \in Int
  BY HalfCyclesType, RstTicksAssumption
<1>2. CASE LoopHead \/ Negedge \/ Tick \/ Retire \/ ExecReference \/ Compare
  <2>1. HalfCyclesToPosedge' = HalfCyclesToPosedge
    <3>1. rst_ticks' = rst_ticks /\ aclk' = aclk
      BY <1>2 DEF LoopHead, Negedge, Tick, Retire, ExecReference, Compare
    <3>2. QED
      BY <3>1 DEF HalfCyclesToPosedge
  <2>2. \/ pc = "head" /\ pc' \in {"done", "clock"}
        \/ pc = "negedge" /\ pc' = "tick"
        \/ pc = "tick" /\ pc' = "head"
        \/ pc = "retire" /\ pc' \in {"exec", "tick"}
        \/ pc = "exec" /\ pc' = "compare"
        \/ pc = "compare" /\ pc' = "tick"
    BY <1>2 DEF LoopHead, Negedge, Tick, Retire, ExecReference, Compare
  <2> DEFINE half == HalfCyclesToPosedge
  <2>3. /\ StatementsLeft = LeftFrom(pc, half)
        /\ StatementsLeft' = LeftFrom(pc', half)
    BY <2>1 DEF StatementsLeft
  <2> HIDE DEF half
  <2>4. /\ LeftFrom("done", half) = 0
        /\ LeftFrom("clock", half) = 4 + 4 * half
        /\ LeftFrom("head", half) = 5 + 4 * half
        /\ LeftFrom("tick", half) = 6 + 4 * half
        /\ LeftFrom("compare", half) = 7 + 4 * half
        /\ LeftFrom("negedge", half) = 7 + 4 * half
        /\ LeftFrom("exec", half) = 8 + 4 * half
        /\ LeftFrom("retire", half) = 9 + 4 * half
    BY LeftFromFacts, Zenon
  <2>5. half \in Nat
    BY HalfCyclesType, RstTicksAssumption DEF half
  <2>6. QED
    BY <2>1, <2>2, <2>3, <2>4, <2>5
<1>3. CASE Calculate \/ Eval \/ TestStatus
  <2>1. \/ pc = "calculate" /\ pc' = "eval"
        \/ pc = "eval" /\ pc' = "status"
        \/ pc = "status" /\ pc' = "done"
    BY <1>3 DEF Calculate, Eval, TestStatus
  <2>2. \A half : /\ LeftFrom("done", half) = 0
                  /\ LeftFrom("status", half) = 1
                  /\ LeftFrom("eval", half) = 2
                  /\ LeftFrom("calculate", half) = 3
    BY LeftFromFacts, Zenon
  <2>3. /\ StatementsLeft = LeftFrom(pc, HalfCyclesToPosedge)
        /\ StatementsLeft' = LeftFrom(pc', HalfCyclesToPosedge')
    BY DEF StatementsLeft
  <2>4. QED
    BY <2>1, <2>2, <2>3
<1>4. CASE Clock
  <2>1. pc = "clock"
    BY <1>4 DEF Clock, ClockAfter
  <2>2. \/ pc' = "calculate"
        \/ pc' = "negedge" /\ HalfCyclesToPosedge' = HalfCyclesToPosedge - 1
    BY <1>4, ClockComesNearer
  <2>3. HalfCyclesToPosedge >= 0
    BY HalfCyclesType, RstTicksAssumption
  <2>4. StatementsLeft = 4 + 4 * HalfCyclesToPosedge
    BY <2>1, LeftFromFacts DEF StatementsLeft
  <2>5. CASE pc' = "calculate"
    <3>1. StatementsLeft' = 3
      BY <2>5, LeftFromFacts DEF StatementsLeft
    <3>2. QED
      BY <1>1, <2>1, <2>3, <2>4, <3>1
  <2>6. CASE pc' = "negedge" /\ HalfCyclesToPosedge' = HalfCyclesToPosedge - 1
    <3>1. StatementsLeft' = 7 + 4 * (HalfCyclesToPosedge - 1)
      BY <2>6, LeftFromFacts DEF StatementsLeft
    <3>2. QED
      BY <1>1, <2>1, <2>4, <3>1
  <2>7. QED
    BY <2>2, <2>5, <2>6
<1>5. ~ InstallHandler /\ ~ Setup /\ ~ StartLoop
  BY DEF InLoop, InstallHandler, Setup, StartLoop
<1>6. QED
  BY <1>2, <1>3, <1>4, <1>5 DEF Main

LEMMA StatementsLeftType ==
  ASSUME LoopInv
  PROVE  pc \notin {"install", "setup", "start"} => StatementsLeft \in Int
<1>1. HalfCyclesToPosedge \in Int
  BY HalfCyclesType, RstTicksAssumption
<1>2. QED
  BY <1>1, LeftFromFacts DEF StatementsLeft, LoopInv, TypeOK, Labels

(* The same in the next state. *)
LEMMA StatementsLeftPrimed ==
  ASSUME LoopInv', pc' \notin {"install", "setup", "start"}
  PROVE  StatementsLeft' \in Int
<1>1. HalfCyclesToPosedge' \in Int
  BY RstTicksAssumption DEF LoopInv, TypeOK, HalfCyclesToPosedge
<1>2. QED
  BY <1>1, LeftFromFacts DEF StatementsLeft, LoopInv, TypeOK, Labels

LEMMA StaysInLoop ==
  ASSUME LoopInv, Main, InLoop
  PROVE  pc' \notin {"install", "setup", "start"}
BY DEF InLoop, Main, InstallHandler, Setup, StartLoop, LoopHead, Clock, ClockAfter,
       Calculate, Eval, TestStatus, Retire, ExecReference, Compare, Negedge, Tick

LEMMA AbortStays ==
  ASSUME LoopInv, Main, InLoop, sim_status = "SIM_ABORT"
  PROVE  sim_status' = "SIM_ABORT" /\ ~ (pc = "status" /\ pc' = "retire")
BY DEF InLoop, Main, InstallHandler, Setup, StartLoop, LoopHead, Clock, ClockAfter,
       Calculate, Eval, TestStatus, Retire, ExecReference, Compare, Negedge, Tick

LEMMA QuietKeepsCount ==
  ASSUME Interrupt \/ Terminated \/ UNCHANGED vars
  PROVE  pc' = pc /\ StatementsLeft' = StatementsLeft
<1>1. UNCHANGED <<pc, rst_ticks, aclk>>
  BY DEF Interrupt, Terminated, vars
<1>2. QED
  BY <1>1 DEF StatementsLeft, HalfCyclesToPosedge

(* An aborted run ends: the loop has at most 13 + 4 * RstTicks statements left,
   and their number goes down with each. *)
THEOREM LoopWindsDown == Spec => []EndIsNear /\ WindsDown
<1> DEFINE Down ==
      sim_status = "SIM_ABORT" /\ InLoop =>
        /\ sim_status' = "SIM_ABORT"
        /\ StatementsLeft' <= StatementsLeft
        /\ pc' # pc => StatementsLeft' < StatementsLeft
<1>1. ASSUME LoopInv, [Next]_vars PROVE [Down]_vars
  <2> SUFFICES ASSUME Next, sim_status = "SIM_ABORT", InLoop
               PROVE  /\ sim_status' = "SIM_ABORT"
                      /\ StatementsLeft' <= StatementsLeft
                      /\ pc' # pc => StatementsLeft' < StatementsLeft
    BY <1>1
  <2>1. StatementsLeft \in Int
    BY <1>1, StatementsLeftType DEF InLoop
  <2>2. CASE Main
    <3>1. sim_status' = "SIM_ABORT" /\ StatementsLeft' < StatementsLeft
      BY <1>1, <2>2, StepComesNearer, AbortStays
    <3>2. StatementsLeft' \in Int
      BY <1>1, <2>2, StaysInLoop, NextKeepsLoopInv, StatementsLeftPrimed
    <3>3. QED
      BY <2>1, <3>1, <3>2
  <2>3. CASE Interrupt \/ Terminated
    <3>1. sim_status' = "SIM_ABORT"
      BY <2>3 DEF Interrupt, Terminated, vars
    <3>2. QED
      BY <2>1, <2>3, <3>1, QuietKeepsCount
  <2>4. QED
    BY <2>2, <2>3 DEF Next
<1>2. LoopInv => EndIsNear
  BY LoopEndIsNear
<1>3. QED
  BY <1>1, <1>2, LoopInvariant, PTL DEF Spec, WindsDown

(* How many statements there are before the next valid posedge at most. *)
StatementsToPosedge ==
  IF pc = "status" THEN LeftFrom("retire", HalfCyclesToPosedge)
  ELSE StatementsLeft - 1

(* As long as nothing ends the run, main comes nearer to the next valid posedge
   with every statement but the evaluation of one. *)
KeepsClocking ==
  [][ InLoop => \/ Eval \/ pc' = "done"
                \/ pc' = pc /\ StatementsToPosedge' = StatementsToPosedge
                \/ StatementsToPosedge' < StatementsToPosedge ]_vars

(* What fairness rests on in ReadCompletes and ResponseComes: the loop reaches a
   next valid posedge, however its half cycles of reset, its falling edges and
   its comparisons lie. *)
THEOREM LoopKeepsClocking == Spec => KeepsClocking
<1> DEFINE Nearer ==
      InLoop => \/ Eval \/ pc' = "done"
                \/ pc' = pc /\ StatementsToPosedge' = StatementsToPosedge
                \/ StatementsToPosedge' < StatementsToPosedge
<1>1. ASSUME LoopInv, [Next]_vars PROVE [Nearer]_vars
  <2> SUFFICES ASSUME Next, InLoop, ~ Eval, pc' # "done"
               PROVE  \/ pc' = pc /\ StatementsToPosedge' = StatementsToPosedge
                      \/ StatementsToPosedge' < StatementsToPosedge
    BY <1>1
  <2>1. CASE Interrupt \/ Terminated
    <3>1. UNCHANGED <<pc, rst_ticks, aclk>>
      BY <2>1 DEF Interrupt, Terminated, vars
    <3>2. QED
      BY <3>1 DEF StatementsToPosedge, StatementsLeft, HalfCyclesToPosedge
  <2>2. CASE Main /\ pc = "status"
    <3>1. pc' = "retire" /\ UNCHANGED <<rst_ticks, aclk>>
      BY <2>2 DEF Main, InstallHandler, Setup, StartLoop, LoopHead, Clock, ClockAfter,
         Calculate, Eval, TestStatus, Retire, ExecReference, Compare, Negedge, Tick
    <3>2. HalfCyclesToPosedge' = HalfCyclesToPosedge
      BY <3>1 DEF HalfCyclesToPosedge
    <3>3. /\ StatementsToPosedge = LeftFrom("retire", HalfCyclesToPosedge)
          /\ StatementsToPosedge' = LeftFrom("retire", HalfCyclesToPosedge) - 1
      BY <2>2, <3>1, <3>2 DEF StatementsToPosedge, StatementsLeft
    <3>4. LeftFrom("retire", HalfCyclesToPosedge) \in Int
      BY <1>1, HalfCyclesType, RstTicksAssumption, LeftFromFacts
    <3>5. QED
      BY <3>3, <3>4
  <2>3. CASE Main /\ pc # "status"
    <3>1. pc' # "status"
      BY <2>3 DEF Main, InstallHandler, Setup, StartLoop, LoopHead, Clock, ClockAfter,
         Calculate, TestStatus, Retire, ExecReference, Compare, Negedge, Tick
    <3>2. StatementsLeft' < StatementsLeft
      BY <1>1, <2>3, StepComesNearer
    <3>3. StatementsLeft \in Int /\ StatementsLeft' \in Int
      BY <1>1, <2>3, StaysInLoop, StatementsLeftType, NextKeepsLoopInv,
         StatementsLeftPrimed DEF InLoop
    <3>4. /\ StatementsToPosedge = StatementsLeft - 1
          /\ StatementsToPosedge' = StatementsLeft' - 1
      BY <2>3, <3>1 DEF StatementsToPosedge
    <3>5. \A m, n \in Int : m < n => m - 1 < n - 1
      OBVIOUS
    <3>6. QED
      BY <3>2, <3>3, <3>4, <3>5, Zenon
  <2>4. QED
    BY <2>1, <2>2, <2>3 DEF Next
<1>2. QED
  BY <1>1, LoopInvariant, PTL DEF Spec, KeepsClocking
=============================================================================
