------------------------------ MODULE AxiRead -------------------------------
(***************************************************************************)
(* The read side of axi_paddr: read_eval and everything it calls           *)
(* (csrc/axi.cpp), against the master that drives its AR and R channels.   *)
(*                                                                         *)
(* One step is one rising clock edge out of reset.  calculate_output reads *)
(* the pins as they were before the edge and computes the s_* outputs, the *)
(* master's registers read the same pins, and update_output then copies    *)
(* the outputs to the pins.  The master is the simulated processor: it is  *)
(* not part of the source and obeys the AXI handshake rules.               *)
(***************************************************************************)
EXTENDS AxiBurst

CONSTANTS
  Requests,    \* the read requests the master may issue
  Delays,      \* the values of rand_delay: 16 .. 31 in the program
  StallModes,  \* TRUE in it: some masters lower rready before StallLimit
  StallLimit,  \* bound: a master lowers rready only for the first beats
  LoadedMemories \* what the memories may hold when the simulation starts

ASSUME RequestsAssumption == Requests \subseteq RequestType /\ Requests # {}

(* The memory space is a whole number of wrapping bursts long. *)
ASSUME WrapAssumption ==
  \A req \in Requests :
    req.burst = "WRAP" /\ CheckAxiReq(req) => AddrSpace % WrapTotal(req) = 0

ASSUME DelaysAssumption == Delays \subseteq Nat

ASSUME LoadedAssumption == LoadedMemories \subseteq Memories

(* The idle outputs are zeroes. *)
ASSUME ZeroAssumption == 0 \in Ids /\ 0 \in ByteValues

ASSUME StallAssumption == StallModes \subseteq BOOLEAN /\ StallLimit \in Nat

VARIABLES
  r_status,       \* "r_idel", "r_req_ok" or "r_wait_last"
  r_req,          \* the latched request: r_burst_type, r_cur_id, r_cur_info,
                  \* r_wrap_off_mask and r_wrap_bound are functions of it
  r_burst_count,  \* uint8_t
  r_left_time,    \* posedges left before the first beat
  r_cur_addr,     \* the address of the next beat
  s_arready, s_r, \* the outputs calculate_output computes
  arready, r,     \* the pins the master sees
  r_fault,        \* an __ASSERT_SIM__ of the read side set SIM_ABORT
  r_served,       \* history: beats served for the latched request
  mem             \* the memories, written by others only

slaveVars == <<r_status, r_req, r_burst_count, r_left_time, r_cur_addr,
               s_arready, s_r, r_fault, r_served>>

VARIABLES
  arvalid, ar,    \* the AR channel
  rready,         \* the R channel's ready
  m_out,          \* a request of the master was taken and is not answered yet
  m_req,          \* that request
  m_got,          \* beats of the answer the master has taken
  m_stalls        \* this master lowers rready from time to time

masterVars == <<arvalid, ar, rready, m_out, m_req, m_got, m_stalls>>

readVars == <<slaveVars, masterVars, arready, r>>

vars == <<readVars, mem>>

IdleR == [valid |-> FALSE, last |-> FALSE, id |-> 0, resp |-> "OKEY",
          data |-> [l \in Lanes |-> 0]]

-----------------------------------------------------------------------------
(* The slave. *)

(* Mutant: rvalid is not lowered at the end of a burst. *)
IdelKeepsValid ==
  /\ s_r' = [s_r EXCEPT !.last = FALSE]
  /\ s_arready' = TRUE

(* idel_wait_read *)
IdelWaitRead ==
  /\ s_r' = IdleR
  /\ s_arready' = TRUE

(* accept_read_req: the request is latched and served even when            *)
(* check_axi_req has aborted the simulation.                               *)
AcceptReadReq ==
  /\ r_req' = ar
  /\ r_burst_count' = Beats(ar)
  /\ r_cur_addr' = ar.addr
  /\ r_left_time' \in Delays
  /\ s_arready' = FALSE
  /\ r_fault' = (r_fault \/ ~ CheckAxiReq(ar))
  /\ r_served' = 0
  /\ UNCHANGED s_r

(* A beat goes out with the bytes at addr; the next one is due at next.    *)
Serve(addr, last, next) ==
  LET res == BusRead(mem, addr, BeatBytes(r_req), s_r.data)
  IN  /\ s_r' = [valid |-> TRUE,
                 last  |-> last,
                 id    |-> r_req.id,
                 resp  |-> IF res.ok THEN "OKEY" ELSE "DECERR",
                 data  |-> res.data]
      /\ r_burst_count' = (r_burst_count - 1) % 256
      /\ r_cur_addr' = next
      /\ r_served' = r_served + 1

(* Mutants: the address moves on before the access; the count is one too   *)
(* few by two; the burst type is forgotten.                                *)
ServeNextAddress ==
  Serve(NextAddr(r_req, r_cur_addr), r_burst_count = 0, NextAddr(r_req, r_cur_addr))

ServeLastEarly ==
  Serve(r_cur_addr, r_burst_count <= 2, NextAddr(r_req, r_cur_addr))

ServeIncrementing ==
  Serve(r_cur_addr, r_burst_count = 0, (r_cur_addr + BeatBytes(r_req)) % AddrSpace)

(* do_once_read; rlast compares the count before it is decremented. *)
DoOnceRead ==
  Serve(r_cur_addr, r_burst_count = 0, NextAddr(r_req, r_cur_addr))

ReadIdle ==
  /\ r_status = "r_idel"
  /\ ~ arvalid
  /\ UNCHANGED slaveVars

ReadAccept ==
  /\ r_status = "r_idel"
  /\ arvalid
  /\ r_status' = "r_req_ok"
  /\ AcceptReadReq

(* Mutant: the delay is not counted down. *)
DelayForever ==
  /\ r_status = "r_req_ok"
  /\ r_left_time > 0
  /\ UNCHANGED slaveVars

ReadDelay ==
  /\ r_status = "r_req_ok"
  /\ r_left_time > 0
  /\ r_left_time' = r_left_time - 1
  /\ UNCHANGED <<r_status, r_req, r_burst_count, r_cur_addr, s_arready, s_r,
                 r_fault, r_served>>

ReadFirst ==
  /\ r_status = "r_req_ok"
  /\ r_left_time = 0
  /\ r_status' = "r_wait_last"
  /\ DoOnceRead
  /\ UNCHANGED <<r_req, r_left_time, s_arready, r_fault>>

BackToIdle ==
  /\ r_status' = "r_idel"
  /\ IdelWaitRead
  /\ UNCHANGED <<r_req, r_burst_count, r_left_time, r_cur_addr, r_fault, r_served>>

(* Mutants: one of the two conditions for the end of a burst is dropped. *)
FinishOnReady == r_status = "r_wait_last" /\ rready /\ BackToIdle

FinishOnLast == r_status = "r_wait_last" /\ r.last /\ BackToIdle

ReadFinish == r_status = "r_wait_last" /\ rready /\ r.last /\ BackToIdle

(* Every other posedge in r_wait_last serves a beat, even when rready is   *)
(* low and the beat on the pins has not been taken.                        *)
ReadMore ==
  /\ r_status = "r_wait_last"
  /\ ~ (rready /\ r.last)
  /\ DoOnceRead
  /\ UNCHANGED <<r_status, r_req, r_left_time, s_arready, r_fault>>

(* read_eval *)
ReadEval ==
  ReadIdle \/ ReadAccept \/ ReadDelay \/ ReadFirst \/ ReadMore \/ ReadFinish

(* Mutant: only AR is copied to the pins. *)
UpdateReadyOnly ==
  /\ arready' = s_arready'
  /\ r' = r

(* update_output, the read channels. *)
UpdateReadOutput ==
  /\ arready' = s_arready'
  /\ r' = s_r'

-----------------------------------------------------------------------------
(* The master, a register-transfer design clocked by the same edge. *)

(* It keeps arvalid and the request until arready, then may ask again. *)
DriveAR ==
  IF arvalid /\ ~ arready
  THEN UNCHANGED <<arvalid, ar>>
  ELSE \/ arvalid' = FALSE /\ ar' = ar
       \/ arvalid' = TRUE /\ ar' \in Requests

TakesRequest == arvalid /\ arready

TakesBeat == r.valid /\ rready

FollowRead ==
  /\ m_out' = IF TakesRequest THEN TRUE
              ELSE m_out /\ ~ (TakesBeat /\ r.last)
  /\ m_req' = IF TakesRequest THEN ar ELSE m_req
  /\ m_got' = IF TakesRequest THEN 0
              ELSE IF TakesBeat THEN m_got + 1 ELSE m_got

DriveRReady ==
  /\ rready' \in BOOLEAN
  /\ ~ m_stalls \/ r_served >= StallLimit => rready'
  /\ UNCHANGED m_stalls

MasterStep == DriveAR /\ FollowRead /\ DriveRReady

-----------------------------------------------------------------------------

(* What reset() does not touch: the pins hold their initial zeroes until    *)
(* update_output runs for the first time, and the registers of a           *)
(* transaction hold whatever the allocation left there.                    *)
Allocated ==
  /\ r_req \in Requests
  /\ r_burst_count = 0 /\ r_left_time = 0 /\ r_cur_addr = 0
  /\ arready = FALSE /\ r = IdleR
  /\ r_fault = FALSE
  /\ r_served = 0
  /\ arvalid = FALSE /\ ar = r_req
  /\ rready = TRUE
  /\ m_out = FALSE /\ m_req = r_req /\ m_got = 0
  /\ m_stalls \in StallModes
  /\ mem \in LoadedMemories

(* After reset() the outputs are idle. *)
Init ==
  /\ r_status = "r_idel"
  /\ s_arready = TRUE /\ s_r = IdleR
  /\ Allocated

(* One posedge of the read channels, on both sides of the pins. *)
ReadClock ==
  /\ ReadEval
  /\ UpdateReadOutput
  /\ MasterStep

ReadPosedge ==
  /\ ~ r_fault
  /\ ReadClock
  /\ UNCHANGED mem

(* main leaves its loop in the posedge that saw SIM_ABORT. *)
Stopped ==
  /\ r_fault
  /\ UNCHANGED vars

Next == ReadPosedge \/ Stopped

Spec == Init /\ [][Next]_vars

(* The loop of main keeps clocking. *)
FairSpec == Spec /\ WF_vars(ReadPosedge)
-----------------------------------------------------------------------------

TypeOK ==
  /\ r_status \in {"r_idel", "r_req_ok", "r_wait_last"}
  /\ r_req \in Requests /\ m_req \in Requests /\ ar \in Requests
  /\ r_burst_count \in 0 .. 255
  /\ r_left_time \in Nat
  /\ r_cur_addr \in Nat
  /\ s_r.valid \in BOOLEAN /\ s_r.last \in BOOLEAN /\ s_r.id \in Ids
  /\ s_r.resp \in {"OKEY", "DECERR"}
  /\ r = s_r
  /\ s_arready \in BOOLEAN /\ arready \in BOOLEAN /\ r_fault \in BOOLEAN
  /\ arvalid \in BOOLEAN /\ rready \in BOOLEAN
  /\ m_out \in BOOLEAN /\ m_stalls \in BOOLEAN
  /\ r_served \in Nat /\ m_got \in Nat
  /\ mem \in Memories

(* The slave takes a request whenever it is idle and arvalid is high, without
   looking at its own arready pin; the master believes a request taken when
   arvalid and arready are.  The two never disagree: on whether a transaction
   is under way, on which request it serves, on whose id a beat carries. *)
SidesAgree ==
  /\ m_out <=> r_status # "r_idel"
  /\ m_out => m_req = r_req
  /\ r.valid => m_out /\ r.id = m_req.id
  /\ arvalid => (arready <=> ~ m_out)

(* The incremental address of do_once_read, with its truncation to word_t and
   its wrap mask latched at the request, is the closed form of the AXI rules
   for every beat of every legal burst, however many beats are served. *)
AddressesFollowBurst ==
  m_out /\ ~ r_fault => r_cur_addr = BeatAddr(r_req, r_served)

(* A beat that answers OKEY carries, in its low lanes, the bytes of memory at
   the address of exactly that beat; when no device holds them it says DECERR.
   (The sum addr + size of the range test wraps to 0 for the last bytes of the
   space, which therefore alias the first device.) *)
DataMatchesBeat ==
  LET addr == BeatAddr(r_req, r_served - 1)
      size == BeatBytes(r_req)
      d    == Route(Devices, addr, size)
  IN  r.valid /\ ~ r_fault /\ addr + size < AddrSpace =>
        IF d = 0 THEN r.resp = "DECERR"
        ELSE /\ r.resp = "OKEY"
             /\ \A l \in 0 .. size - 1 :
                  r.data[l] = mem[d][addr + l - Devices[d].start]

(* do_once_read serves a beat at each posedge whatever rready is.  A master
   that keeps rready high loses and repeats none: it has taken every beat but the
   one on the pins, and the one with rlast is beat number Beats, from 0.  That is
   one beat more than it asked for, arlen + 2 in all, and the only one when arlen
   is 255.  (A master that lowers rready does lose beats; nothing is said of it.) *)
NoBeatLost ==
  m_out /\ ~ m_stalls =>
    /\ m_got + (IF r.valid THEN 1 ELSE 0) = r_served
    /\ r.valid => /\ m_got <= Beats(m_req)
                  /\ r.last <=> m_got = Beats(m_req)

(* The burst never ends before the master has what it asked for.  (arlen 255
   makes the uint8_t count 0 and is answered by a single beat.) *)
NoShortBurst ==
  r.valid /\ r.last /\ r_req.len < 255 => r_served > r_req.len

(* No beat is served outside the page of the request: check_axi_req tests that
   a burst does not "cross 4KB address bound". *)
ServedInPage ==
  r.valid /\ ~ r_fault =>
    BeatAddr(r_req, r_served - 1) \div PageSize = r_req.addr \div PageSize

(* While a transaction is under way its request stays the one that was taken,
   the beats it has served are never taken back, and it ends only in a posedge
   where the master takes a last beat. *)
TransactionStable ==
  [][ r_status # "r_idel" =>
        /\ r_req' = r_req
        /\ r_served' >= r_served
        /\ r_status' = "r_idel" => rready /\ r.valid /\ r.last ]_vars

(* Every read that was taken is finished, unless an assertion aborts the run.
   A master that misses the last beat gets it again 256 beats later, when the
   uint8_t count has come round. *)
ReadCompletes == m_out ~> (~ m_out \/ r_fault)
=============================================================================
