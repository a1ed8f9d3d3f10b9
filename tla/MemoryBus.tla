----------------------------- MODULE MemoryBus ------------------------------
(***************************************************************************)
(* What the simulated processor is promised by axi_paddr, without the      *)
(* clock, the pins, the delays and the buffers: memories that answer one   *)
(* read burst beat by beat and take one write burst as a whole.            *)
(*                                                                         *)
(* A beat of a read shows the memories at the moment it is served, at the  *)
(* address the AXI rules give it; a write burst is not visible before it   *)
(* is committed and is visible completely afterwards; it is committed      *)
(* before it is answered.                                                  *)
(***************************************************************************)
EXTENDS AxiBurst

CONSTANTS Requests, WriteRequests, WBeats, LoadedMemories

VARIABLES
  store,  \* the memories
  rd,     \* the read under way: [req, n, beat, last]; Free if there is none
  wr      \* the write under way: [req, sent, resp]; Free if there is none

busVars == <<store, rd, wr>>

Free == [req |-> "none"]

NoBeat == [resp |-> "none", data |-> <<>>]

(* What beat i, from 0, of a read shows. *)
View(req, i) ==
  LET a == BeatAddr(req, i)
      d == Route(Devices, a, BeatBytes(req))
  IN  IF d = 0
      THEN [resp |-> "DECERR", data |-> <<>>]
      ELSE [resp |-> "OKEY",
            data |-> [l \in 0 .. BeatBytes(req) - 1 |->
                        store[d][Offset(Devices[d], a) + l]]]

(* The device and the offset of lane 0 of beat i, from 1, of a write. *)
Target(req, i) ==
  LET a == BeatAddr(req, i - 1)
      d == Route(Devices, a, BeatBytes(req))
  IN  [dev |-> d, off |-> IF d = 0 THEN 0 ELSE Offset(Devices[d], a)]

(* The beats of a write that cover byte o of memory d. *)
Covering(req, sent, d, o) ==
  { i \in DOMAIN sent :
      /\ Target(req, i).dev = d
      /\ o - Target(req, i).off \in WrittenLanes(BeatBytes(req), sent[i].strb) }

(* The memories after a write: each byte has the value of the last beat    *)
(* that covers it.                                                         *)
Committed(req, sent) ==
  [d \in DOMAIN Devices |->
     [o \in 0 .. Devices[d].mask |->
        LET cover == Covering(req, sent, d, o)
        IN  IF cover = {} THEN store[d][o]
            ELSE LET i == CHOOSE i \in cover : \A j \in cover : j <= i
                 IN  sent[i].data[o - Target(req, i).off]]]

Response(req, sent) ==
  IF \A i \in DOMAIN sent : Target(req, i).dev # 0 THEN "OKEY" ELSE "DECERR"

-----------------------------------------------------------------------------

StartRead ==
  /\ rd = Free
  /\ \E req \in Requests :
       rd' = [req |-> req, n |-> 0, beat |-> NoBeat, last |-> FALSE]

(* The number of beats is not promised, only that there are enough. *)
ServeBeat ==
  /\ rd # Free
  /\ \E last \in BOOLEAN :
       /\ last => rd.n >= rd.req.len \/ rd.req.len = 255
       /\ rd' = [rd EXCEPT !.n = @ + 1, !.beat = View(rd.req, rd.n), !.last = last]

EndRead == rd # Free /\ rd.last /\ rd' = Free

ReadStep == StartRead \/ ServeBeat \/ EndRead \/ rd' = rd

StartWrite ==
  /\ wr = Free
  /\ \E req \in WriteRequests :
       wr' = [req |-> req, sent |-> <<>>, resp |-> "none"]
  /\ UNCHANGED store

SendBeat ==
  /\ wr # Free
  /\ Len(wr.sent) <= wr.req.len
  /\ \E beat \in WBeats : wr' = [wr EXCEPT !.sent = Append(@, beat)]
  /\ UNCHANGED store

Commit ==
  /\ wr # Free
  /\ wr.resp = "none"
  /\ Len(wr.sent) = wr.req.len + 1
  /\ store' = Committed(wr.req, wr.sent)
  /\ wr' = [wr EXCEPT !.resp = Response(wr.req, wr.sent)]

EndWrite ==
  /\ wr # Free
  /\ wr.resp # "none"
  /\ wr' = Free
  /\ UNCHANGED store

WriteStep ==
  StartWrite \/ SendBeat \/ Commit \/ EndWrite \/ UNCHANGED <<store, wr>>

Init == store \in LoadedMemories /\ rd = Free /\ wr = Free

(* Both sides may move at once; the read then sees the memories as they    *)
(* were before the write.                                                  *)
Next == ReadStep /\ WriteStep

Spec == Init /\ [][Next]_busVars
=============================================================================
