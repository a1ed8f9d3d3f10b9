------------------------------- MODULE MCCoSim ------------------------------
(***************************************************************************)
(* Programs of three accesses, with words of 16 bits: loads and stores of  *)
(* every kind of register, a timer about to overflow, two characters, a    *)
(* narrow store that do_write asserts against, and a load and stores of    *)
(* the last word, which PaddrTop refuses.                                  *)
(***************************************************************************)
EXTENDS CoSim

Load(addr) == [load |-> TRUE, addr |-> addr, size |-> 4, data |-> 0]

StoreTo(addr, data) == [load |-> FALSE, addr |-> addr, size |-> 4, data |-> data]

MCAccesses ==
  { Load("CR0"), Load("TIMER"), Load("IO_SIMU"), Load("SW_INTER"), Load("OTHER"),
    StoreTo("CR0", 7), StoreTo("TIMER", 65534), StoreTo("IO_SIMU", 258),
    StoreTo("OPEN_TRACE", 9), StoreTo("LED", 1), StoreTo("VIRTUAL_UART", 65),
    [load |-> FALSE, addr |-> "VIRTUAL_UART", size |-> 1, data |-> 322],
    [load |-> FALSE, addr |-> "NUM", size |-> 2, data |-> 3],
    Load("NUM_MONITOR"), StoreTo("NUM_MONITOR", 0),
    [load |-> FALSE, addr |-> "LAST_BYTE", size |-> 1, data |-> 3] }

MCPrograms == [1 .. 3 -> MCAccesses]
=============================================================================
