------------------------------ MODULE Confreg -------------------------------
(***************************************************************************)
(* The configuration registers of the board (csrc/device/PaddrConfreg.cpp, *)
(* class PaddrConfreg of include/PaddrInterface.hpp): what a bus access    *)
(* and a clock tick do to them.                                            *)
(*                                                                         *)
(* A confreg is a record: reg, from register names to words, and           *)
(* uart_queue.  Addresses are named as in the source; "LAST_HALF" (0xfffe) *)
(* and "LAST_BYTE" (0xffff) are the last ones of the interval, which have  *)
(* no case, and "OTHER" is every other address without one.  The           *)
(* statistics counters confreg_read and confreg_write, which nothing       *)
(* reads, are left out.                                                    *)
(***************************************************************************)
EXTENDS Integers, Sequences

CONSTANTS
  Half,   \* 2^16: the values of half a word
  Bytes   \* 2^8: the values of virtual_uart

(* What set_switch(0) leaves in the switch registers fits a word.          *)
ASSUME ConfregAssumption ==
  Half \in Nat /\ 2 * 21845 < Half * Half /\ Bytes \in Nat \ {0}

RegWords == 0 .. Half * Half - 1

Crs == {"CR0", "CR1", "CR2", "CR3", "CR4", "CR5", "CR6", "CR7"}

(* The registers that keep what is written to them, those that a write     *)
(* transforms, those no write reaches, and those that have no storage.     *)
Plain     == Crs \cup {"TIMER", "NUM"}
Converted == {"IO_SIMU", "OPEN_TRACE", "NUM_MONITOR", "VIRTUAL_UART"}
Fixed     == {"LED", "LED_RG0", "LED_RG1", "SWITCH", "SW_INTER", "SIMU_FLAG"}
Absent    == {"BTN_KEY", "BTN_STEP", "OTHER", "LAST_HALF", "LAST_BYTE"}

Stored    == Plain \cup Converted \cup Fixed
Addresses == Stored \cup Absent

ConfregType == [reg : [Stored -> RegWords], uart_queue : Seq(0 .. Bytes - 1)]

(* set_switch(0): switch_data = 0 ^ 0xf and, as no switch is on,           *)
(* switch_inter_data has bit 2 * i + 1 set for i = 0 .. 7.                 *)
SwitchesOff(c) ==
  [c EXCEPT !.reg["SWITCH"] = 15, !.reg["SW_INTER"] = 2 * 21845]

(* PaddrConfreg(false) *)
NewConfreg ==
  SwitchesOff([reg |-> [a \in Stored |->
                          IF a \in {"OPEN_TRACE", "NUM_MONITOR"} THEN 1 ELSE 0],
               uart_queue |-> <<>>])

(* deep_copy: the copy shares nothing, the queue included. *)
DeepCopy(c) == c

ConfregTick(c) == [c EXCEPT !.reg["TIMER"] = (@ + 1) % (Half * Half)]

(* Mutant: an address without a case leaves *data as it was. *)
ReadKeepsOld(c, addr, old) == IF addr \in Stored THEN c.reg[addr] ELSE old

(* do_read: what *data, which held old, holds afterwards. *)
ConfregRead(c, addr, old) == IF addr \in Stored THEN c.reg[addr] ELSE 0

(* What do_write keeps of the data. *)
Converts(addr, data) ==
  CASE addr = "IO_SIMU"      -> (data % Half) * Half + data \div Half
    [] addr = "OPEN_TRACE"   -> IF data # 0 THEN 1 ELSE 0
    [] addr = "NUM_MONITOR"  -> data % 2
    [] addr = "VIRTUAL_UART" -> data % Bytes
    [] OTHER                 -> data

(* do_write *)
ConfregWrite(c, addr, data) ==
  IF addr \notin Plain \cup Converted THEN c
  ELSE [reg |-> [c.reg EXCEPT ![addr] = Converts(addr, data)],
        uart_queue |-> IF addr = "VIRTUAL_UART"
                       THEN Append(c.uart_queue, Converts(addr, data))
                       ELSE c.uart_queue]

(* The assertions at the head of do_read and do_write; they end the process. *)
ReadAsserts(size) == size = 4

WriteAsserts(size, addr) == size = 4 \/ (size = 1 /\ addr = "VIRTUAL_UART")
=============================================================================
