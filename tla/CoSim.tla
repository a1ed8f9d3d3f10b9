------------------------------- MODULE CoSim --------------------------------
(***************************************************************************)
(* The two sets of configuration registers: the one behind axi_paddr that  *)
(* the DUT accesses and ticks, and the deep copy the reference executes    *)
(* its instructions on (csrc/diff-main.cpp, PaddrTop.cpp).                 *)
(*                                                                         *)
(* The program is a sequence of uncached accesses.  The DUT performs them  *)
(* in order; a load has been performed when it retires, a store may retire *)
(* first and reach the bus later.  The reference executes them when they   *)
(* retire.  Of the main loop only the posedges out of reset matter here.   *)
(*                                                                         *)
(* All addresses are those of the confreg's interval.  Both sides reach it *)
(* through their PaddrTop, whose range test refuses accesses to the last   *)
(* word of the interval.                                                   *)
(***************************************************************************)
EXTENDS Confreg

CONSTANTS
  Programs,    \* the sequences of accesses [load, addr, size, data]
  MaxRetire,   \* most instructions retired in one posedge: 2
  MaxPosedges  \* bound: the posedges that are looked at

ASSUME ProgramsAssumption ==
  \A p \in Programs :
    p \in Seq([load : BOOLEAN, addr : Addresses, size : {1, 2, 4}, data : RegWords])

ASSUME CountsAssumption == MaxRetire \in Nat \ {0} /\ MaxPosedges \in Nat

VARIABLES
  pc,          \* "calculate", "eval", "exec": where main is in its loop body
  program,
  dut, ref,    \* the two confregs
  performed,   \* accesses of the program the DUT has performed
  retired,     \* accesses that have retired
  executed,    \* accesses the reference has executed
  dut_data,    \* what the DUT's last load had returned, after each access
  ref_data,    \* the same for the reference
  dead,        \* an assert ended the process
  posedges,
  timer_age    \* history: ticks of dut since its timer was last set

coSimVars == <<pc, program, dut, ref, performed, retired, executed, dut_data,
               ref_data, dead, posedges, timer_age>>

(* The bytes of the interval from an address on; 8 is more than any access *)
(* there needs: all other addresses lie before the last word.              *)
BytesLeft(addr) ==
  CASE addr = "NUM_MONITOR" -> 4
    [] addr = "LAST_HALF"   -> 2
    [] addr = "LAST_BYTE"   -> 1
    [] OTHER                -> 8

(* Whether PaddrTop passes an access on: addr + size <= end(), and end()   *)
(* is the last byte, not the one after it.                                 *)
Routed(a) == a.size < BytesLeft(a.addr)

(* Only an access that is passed on meets the assertions of the confreg.   *)
Asserts(a) ==
  \/ ~ Routed(a)
  \/ IF a.load THEN ReadAsserts(a.size) ELSE WriteAsserts(a.size, a.addr)

LastOf(data) == IF data = <<>> THEN 0 ELSE data[Len(data)]

(* What the word a load is read into holds before: axi_paddr clears        *)
(* s_rdata after each burst, the reference may reuse the word.             *)
Held(data, cleared) == IF cleared THEN 0 ELSE LastOf(data)

(* One access to a confreg c; data has the outcomes of the earlier ones.   *)
(* A refused one (do_read or do_write of PaddrTop returns false) leaves    *)
(* the confreg alone, and a refused load the word it should have filled.   *)
Access(c, a, data, cleared) ==
  [c |-> IF ~ a.load /\ Routed(a) THEN ConfregWrite(c, a.addr, a.data) ELSE c,
   data |-> Append(data,
              CASE a.load /\ Routed(a)   -> ConfregRead(c, a.addr, Held(data, cleared))
                [] a.load /\ ~ Routed(a) -> Held(data, cleared)
                [] ~ a.load              -> LastOf(data))]

(* The accesses m + 1 .. n of program p, in order. *)
AccessesOn(p, c, data, m, n, cleared) ==
  LET f[i \in Nat] ==
        IF i = 0 THEN [c |-> c, data |-> data]
        ELSE Access(f[i - 1].c, p[m + i], f[i - 1].data, cleared)
  IN  f[n - m]

-----------------------------------------------------------------------------

(* main: construct the confreg, set_switch(0), copy it for the reference. *)
CoSimInit ==
  /\ pc = "calculate"
  /\ program \in Programs
  /\ dut = SwitchesOff(NewConfreg)
  /\ ref = DeepCopy(dut)
  /\ performed = 0 /\ retired = 0 /\ executed = 0
  /\ dut_data = <<>> /\ ref_data = <<>>
  /\ dead = FALSE
  /\ posedges = 0 /\ timer_age = 0

(* What calculate_output can do to the confreg in a posedge: read_eval     *)
(* serves a load, then write_eval commits a store.                         *)
Batches ==
  { n \in 0 .. 2 :
      /\ performed + n <= Len(program)
      /\ n = 2 => program[performed + 1].load /\ ~ program[performed + 2].load }

SetsTimer(a) == ~ a.load /\ a.addr = "TIMER"

Calculate ==
  /\ pc = "calculate"
  /\ posedges < MaxPosedges
  /\ \E n \in Batches :
       LET batch == { program[i] : i \in performed + 1 .. performed + n }
           after == AccessesOn(program, dut, dut_data, performed, performed + n, TRUE)
       IN  IF \E a \in batch : ~ Asserts(a)
           THEN /\ dead' = TRUE
                /\ UNCHANGED <<pc, dut, dut_data, performed, timer_age>>
           ELSE /\ pc' = "eval"
                /\ dut' = after.c
                /\ dut_data' = after.data
                /\ performed' = performed + n
                /\ timer_age' = IF \E a \in batch : SetsTimer(a) THEN 0
                                ELSE timer_age
                /\ UNCHANGED dead
  /\ UNCHANGED <<program, ref, ref_data, retired, executed, posedges>>

Retirable ==
  { n \in 0 .. MaxRetire :
      /\ retired + n <= Len(program)
      /\ \A i \in retired + 1 .. retired + n : program[i].load => i <= performed }

(* Mutant: the confreg ticks only in posedges that retire something. *)
EvalTickOnRetire ==
  /\ pc = "eval"
  /\ pc' = "exec"
  /\ \E n \in Retirable :
       /\ retired' = retired + n
       /\ dut' = IF n > 0 THEN ConfregTick(dut) ELSE dut
  /\ timer_age' = timer_age + 1
  /\ posedges' = posedges + 1
  /\ UNCHANGED <<program, ref, performed, executed, dut_data, ref_data, dead>>

(* top->eval() and v_confreg->tick(), for the DUT's confreg only. *)
Eval ==
  /\ pc = "eval"
  /\ pc' = "exec"
  /\ \E n \in Retirable : retired' = retired + n
  /\ dut' = ConfregTick(dut)
  /\ timer_age' = timer_age + 1
  /\ posedges' = posedges + 1
  /\ UNCHANGED <<program, ref, performed, executed, dut_data, ref_data, dead>>

(* The reference executes the retired accesses after the first m. *)
ExecFrom(m) ==
  LET after == AccessesOn(program, ref, ref_data, m, retired, FALSE)
  IN  /\ pc = "exec"
      /\ IF \E i \in m + 1 .. retired : ~ Asserts(program[i])
         THEN /\ dead' = TRUE
              /\ UNCHANGED <<pc, ref, ref_data, executed>>
         ELSE /\ pc' = "calculate"
              /\ ref' = after.c
              /\ ref_data' = after.data
              /\ executed' = retired
              /\ UNCHANGED dead
      /\ UNCHANGED <<program, dut, performed, retired, dut_data, posedges, timer_age>>

(* Mutant: of several instructions only the last is executed. *)
ExecLast == ExecFrom(IF retired > executed THEN retired - 1 ELSE executed)

(* ref_exec_once, once for each retired instruction. *)
ExecReference == ExecFrom(executed)

CoSimNext == ~ dead /\ (Calculate \/ Eval \/ ExecReference)

CoSimSpec == CoSimInit /\ [][CoSimNext]_coSimVars

-----------------------------------------------------------------------------

(* Whenever the loads the reference has executed are compared with the DUT's,
   they agree, TIMER apart: in spite of stores the DUT performs after they have
   retired, two accesses in a posedge, addresses without a register, stores that
   PaddrTop refuses on both sides, and a copy of the registers that was made once
   at the start.  Nothing is said of a load that PaddrTop refuses (of NUM_MONITOR,
   say): the DUT is then given 0 and DECERR, the reference's word stays as it is,
   and the two can differ. *)
LoadsAgree ==
  \A i \in 1 .. executed :
    program[i].load /\ Routed(program[i]) /\ program[i].addr # "TIMER" =>
      ref_data[i] = dut_data[i]

(* When the DUT has performed what has retired and nothing more, the two
   confregs are the same but for their timers: same registers, and the same
   characters in the same order in the uart queues, refused stores included. *)
CopiesConverge ==
  pc = "calculate" /\ performed = retired =>
    /\ dut.uart_queue = ref.uart_queue
    /\ \A a \in Stored \ {"TIMER"} : dut.reg[a] = ref.reg[a]

(* The copy's timer never ticks: it stays behind by the posedges that passed
   since the DUT last set its own, modulo the length of a word.  This is how
   far off the reference's answer to a load of TIMER can be. *)
TimerSkew ==
  pc = "calculate" /\ performed = retired =>
    dut.reg["TIMER"] = (ref.reg["TIMER"] + timer_age) % (Half * Half)
=============================================================================
