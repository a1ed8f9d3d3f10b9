------------------------------ MODULE AxiWrite ------------------------------
(***************************************************************************)
(* The write side of axi_paddr: write_eval and everything it calls         *)
(* (csrc/axi.cpp), against the master that drives its AW, W and B          *)
(* channels.  One step is one rising clock edge out of reset, as in        *)
(* AxiRead.  The beats of a burst are collected in w_cur_addr, w_cur_info  *)
(* and w_cur_data and written to memory together after the delay.          *)
(***************************************************************************)
EXTENDS AxiBurst

CONSTANTS
  WriteRequests,  \* the write requests the master may issue
  WBeats,         \* the beats it writes: data and strobes
  Delays,         \* the values of rand_delay: 16 .. 31 in the program
  FaultModes,     \* TRUE in it: some masters get wid or wlast wrong
  LoadedMemories  \* what the memories may hold when the simulation starts

MaxBeats == 16  \* the length of w_cur_addr, w_cur_info and w_cur_data

(* The slots of the slave are enough for these requests: accept_write_req  *)
(* does not test it, and the model says nothing of a longer one.           *)
ASSUME WriteRequestsAssumption ==
  /\ WriteRequests \subseteq RequestType /\ WriteRequests # {}
  /\ \A req \in WriteRequests : req.len < MaxBeats

ASSUME WriteWrapAssumption ==
  \A req \in WriteRequests :
    req.burst = "WRAP" /\ CheckAxiReq(req) => AddrSpace % WrapTotal(req) = 0

(* No beat of a legal request ends at the top of the space, where the sum   *)
(* of the range test would be 0 and the first device would take it.        *)
ASSUME WriteTopAssumption ==
  \A req \in WriteRequests : CheckAxiReq(req) =>
    \A i \in 0 .. req.len : BeatAddr(req, i) + BeatBytes(req) < AddrSpace

ASSUME WriteDataAssumption ==
  WBeats \subseteq [data : Words, strb : Strobes]

ASSUME WriteEnvAssumption ==
  /\ Delays \subseteq Nat
  /\ FaultModes \subseteq BOOLEAN
  /\ LoadedMemories \subseteq Memories
  /\ 0 \in Ids /\ 0 \in ByteValues

VARIABLES
  w_status,     \* "w_idel", "w_req_ok", "w_data_ok" or "w_wait_back"
  w_req,        \* the latched request: w_burst_type, w_burst_count, w_cur_id,
                \* the sizes in w_cur_info, w_wrap_off_mask and w_wrap_bound
  w_cur_addr,   \* the addresses computed so far
  w_cur_data,   \* data and strobes of the beats accepted; its length: w_cur_NO
  w_left_time,  \* posedges left before the burst is written
  s_awready, s_wready, s_b,   \* the outputs calculate_output computes
  awready, wready, b,         \* the pins the master sees
  w_fault,      \* an __ASSERT_SIM__ of the write side set SIM_ABORT
  mem           \* the memories

wslaveVars == <<w_status, w_req, w_cur_addr, w_cur_data, w_left_time,
                s_awready, s_wready, s_b, w_fault>>

VARIABLES
  awvalid, aw,  \* the AW channel
  wvalid, w,    \* the W channel: [id, beat, last]
  bready,       \* the B channel's ready
  m_wout,       \* a request was taken and its response is outstanding
  m_wreq,       \* that request
  m_sent,       \* the beats of it the slave has taken
  m_wfaulty     \* this master may get wid and wlast wrong

wmasterVars == <<awvalid, aw, wvalid, w, bready, m_wout, m_wreq, m_sent, m_wfaulty>>

writeVars == <<wslaveVars, wmasterVars, awready, wready, b>>

vars == <<writeVars, mem>>

(* What the W channel carries while wvalid is low is never read. *)
IdleW == [id |-> 0, beat |-> [data |-> [l \in Lanes |-> 0], strb |-> {}],
          last |-> FALSE]

IdleB == [valid |-> FALSE, id |-> 0, resp |-> "OKEY"]

-----------------------------------------------------------------------------
(* The slave. *)

(* accept_write_req *)
AcceptWriteReq ==
  /\ w_req' = aw
  /\ w_cur_addr' = <<aw.addr>>
  /\ w_cur_data' = <<>>
  /\ s_awready' = FALSE
  /\ s_wready' = TRUE
  /\ w_fault' = (w_fault \/ ~ CheckAxiReq(aw))
  /\ UNCHANGED <<w_left_time, s_b>>

(* The beat on the W channel is stored; next is the address of the slot    *)
(* after it, bad whether one of the assertions fires.                      *)
Store(isLast, next, bad) ==
  /\ w_cur_data' = Append(w_cur_data, w.beat)
  /\ IF isLast
     THEN /\ s_wready' = FALSE
          /\ w_left_time' \in Delays
          /\ UNCHANGED w_cur_addr
     ELSE /\ w_cur_addr' = Append(w_cur_addr, next)
          /\ UNCHANGED <<s_wready, w_left_time>>
  /\ w_fault' = (w_fault \/ bad)
  /\ UNCHANGED <<w_req, s_awready, s_b>>

IsLastBeat == Len(w_cur_data) + 1 = Beats(w_req)

NextSlotAddr == NextAddr(w_req, w_cur_addr[Len(w_cur_addr)])

(* Mutants: wlast is not compared with the count, at any beat or at the    *)
(* last one; every burst is taken for an incrementing one.                 *)
StoreUnchecked == Store(IsLastBeat, NextSlotAddr, w.id # w_req.id)

StoreLastUnchecked ==
  Store(IsLastBeat, NextSlotAddr, w.id # w_req.id \/ (w.last /\ ~ IsLastBeat))

StoreIncrementing ==
  Store(IsLastBeat,
        (w_cur_addr[Len(w_cur_addr)] + BeatBytes(w_req)) % AddrSpace,
        w.id # w_req.id \/ w.last # IsLastBeat)

(* accept_write_data *)
AcceptWriteData ==
  Store(IsLastBeat, NextSlotAddr, w.id # w_req.id \/ w.last # IsLastBeat)

(* The loop of do_all_write: the beats are written in order, and res is    *)
(* the conjunction of what do_write returned.                              *)
WrittenUpTo(n) ==
  LET f[i \in Nat] ==
        IF i = 0 THEN [ok |-> TRUE, mem |-> mem]
        ELSE LET done == f[i - 1]
                 this == BusWrite(done.mem, w_cur_addr[i], BeatBytes(w_req),
                                  w_cur_data[i].strb, w_cur_data[i].data)
             IN  [ok |-> done.ok /\ this.ok, mem |-> this.mem]
  IN  f[n]

(* Answers with the outcome of writing the first n beats. *)
WriteBack(n) ==
  /\ mem' = WrittenUpTo(n).mem
  /\ s_b' = [valid |-> TRUE,
             id    |-> w_req.id,
             resp  |-> IF WrittenUpTo(n).ok THEN "OKEY" ELSE "DECERR"]

(* Mutants: one beat is left out; the last beat alone decides the response. *)
WriteAllButLast == WriteBack(Beats(w_req) - 1)

WriteLastResponse ==
  LET n == Beats(w_req)
  IN  /\ mem' = WrittenUpTo(n).mem
      /\ s_b' = [valid |-> TRUE, id |-> w_req.id,
                 resp |-> IF Route(Devices, w_cur_addr[n], BeatBytes(w_req)) # 0
                          THEN "OKEY" ELSE "DECERR"]

(* do_all_write *)
DoAllWrite == WriteBack(Beats(w_req))

(* Mutant: bvalid stays up. *)
IdelKeepsB ==
  /\ s_awready' = TRUE
  /\ s_wready' = FALSE
  /\ s_b' = [s_b EXCEPT !.id = 0]

(* idel_wait_write *)
IdelWaitWrite ==
  /\ s_awready' = TRUE
  /\ s_wready' = FALSE
  /\ s_b' = IdleB

WriteIdle ==
  /\ w_status = "w_idel"
  /\ ~ awvalid
  /\ UNCHANGED <<wslaveVars, mem>>

WriteAccept ==
  /\ w_status = "w_idel"
  /\ awvalid
  /\ w_status' = "w_req_ok"
  /\ AcceptWriteReq
  /\ UNCHANGED mem

WriteNoData ==
  /\ w_status = "w_req_ok"
  /\ ~ wvalid
  /\ UNCHANGED <<wslaveVars, mem>>

WriteData ==
  /\ w_status = "w_req_ok"
  /\ wvalid
  /\ w_status' = IF w.last THEN "w_data_ok" ELSE "w_req_ok"
  /\ AcceptWriteData
  /\ UNCHANGED mem

(* Mutants: the delay is not counted down; or is, past zero. *)
WriteDelayForever ==
  /\ w_status = "w_data_ok"
  /\ w_left_time > 0
  /\ UNCHANGED <<wslaveVars, mem>>

WriteDelayPastZero ==
  /\ w_status = "w_data_ok"
  /\ w_left_time' = w_left_time - 1
  /\ UNCHANGED <<w_status, w_req, w_cur_addr, w_cur_data, s_awready, s_wready,
                 s_b, w_fault, mem>>

WriteDelay ==
  /\ w_status = "w_data_ok"
  /\ w_left_time > 0
  /\ w_left_time' = w_left_time - 1
  /\ UNCHANGED <<w_status, w_req, w_cur_addr, w_cur_data, s_awready, s_wready,
                 s_b, w_fault, mem>>

WriteCommit ==
  /\ w_status = "w_data_ok"
  /\ w_left_time = 0
  /\ w_status' = "w_wait_back"
  /\ DoAllWrite
  /\ UNCHANGED <<w_req, w_cur_addr, w_cur_data, w_left_time, s_awready, s_wready,
                 w_fault>>

WriteWaitBack ==
  /\ w_status = "w_wait_back"
  /\ ~ bready
  /\ UNCHANGED <<wslaveVars, mem>>

(* Mutant: the response is withdrawn whether bready is up or not. *)
FinishAtOnce ==
  /\ w_status = "w_wait_back"
  /\ w_status' = "w_idel"
  /\ IdelWaitWrite
  /\ UNCHANGED <<w_req, w_cur_addr, w_cur_data, w_left_time, w_fault, mem>>

WriteFinish ==
  /\ w_status = "w_wait_back"
  /\ bready
  /\ w_status' = "w_idel"
  /\ IdelWaitWrite
  /\ UNCHANGED <<w_req, w_cur_addr, w_cur_data, w_left_time, w_fault, mem>>

(* write_eval *)
WriteEval ==
  \/ WriteIdle \/ WriteAccept
  \/ WriteNoData \/ WriteData
  \/ WriteDelay \/ WriteCommit
  \/ WriteWaitBack \/ WriteFinish

(* update_output, the write channels. *)
UpdateWriteOutput ==
  /\ awready' = s_awready'
  /\ wready' = s_wready'
  /\ b' = s_b'

-----------------------------------------------------------------------------
(* The master. *)

DriveAW ==
  IF awvalid /\ ~ awready
  THEN UNCHANGED <<awvalid, aw>>
  ELSE \/ awvalid' = FALSE /\ aw' = aw
       \/ awvalid' = TRUE /\ aw' \in WriteRequests

AWTaken == awvalid /\ awready

WTaken == wvalid /\ wready

BTaken == b.valid /\ bready

FollowWrite ==
  /\ m_wout' = IF AWTaken THEN TRUE ELSE m_wout /\ ~ BTaken
  /\ m_wreq' = IF AWTaken THEN aw ELSE m_wreq
  /\ m_sent' = IF AWTaken THEN <<>>
               ELSE IF WTaken THEN Append(m_sent, w.beat)
               ELSE m_sent

(* Beat k of a request on the W channel. *)
OfferBeat(req, k) ==
  /\ wvalid' = TRUE
  /\ w' \in [id : Ids, beat : WBeats, last : BOOLEAN]
  /\ ~ m_wfaulty => w'.id = req.id /\ w'.last = (k = req.len + 1)

(* A beat stays on the channel until it is taken.  The next one belongs to *)
(* the request taken last, or else to the one that is on the AW channel:   *)
(* data may be offered before its request is taken.                        *)
DriveW ==
  IF wvalid /\ ~ wready
  THEN UNCHANGED <<wvalid, w>>
  ELSE \/ wvalid' = FALSE /\ w' = IdleW
       \/ /\ m_wout' /\ Len(m_sent') <= m_wreq'.len
          /\ OfferBeat(m_wreq', Len(m_sent') + 1)
       \/ /\ ~ (m_wout' /\ Len(m_sent') <= m_wreq'.len)
          /\ awvalid'
          /\ OfferBeat(aw', 1)

MasterStep ==
  /\ DriveAW
  /\ FollowWrite
  /\ DriveW
  /\ bready' \in BOOLEAN
  /\ UNCHANGED m_wfaulty

-----------------------------------------------------------------------------

(* What reset() leaves alone, as in AxiRead. *)
Allocated ==
  /\ w_req \in WriteRequests
  /\ w_cur_addr = <<>> /\ w_cur_data = <<>> /\ w_left_time = 0
  /\ awready = FALSE /\ wready = FALSE /\ b = IdleB
  /\ w_fault = FALSE
  /\ mem \in LoadedMemories
  /\ awvalid = FALSE /\ aw = w_req
  /\ wvalid = FALSE /\ w = IdleW
  /\ bready = FALSE
  /\ m_wout = FALSE /\ m_wreq = w_req /\ m_sent = <<>>
  /\ m_wfaulty \in FaultModes

Init ==
  /\ w_status = "w_idel"
  /\ s_awready = TRUE /\ s_wready = FALSE /\ s_b = IdleB
  /\ Allocated

WriteClock == WriteEval /\ UpdateWriteOutput /\ MasterStep

WritePosedge == ~ w_fault /\ WriteClock

Stopped == w_fault /\ UNCHANGED vars

Next == WritePosedge \/ Stopped

Spec == Init /\ [][Next]_vars

FairSpec == Spec /\ WF_vars(WritePosedge)

-----------------------------------------------------------------------------

TypeOK ==
  /\ w_status \in {"w_idel", "w_req_ok", "w_data_ok", "w_wait_back"}
  /\ w_req \in WriteRequests /\ m_wreq \in WriteRequests /\ aw \in WriteRequests
  /\ w_cur_addr \in Seq(Nat)
  /\ w_cur_data \in Seq(WBeats) /\ m_sent \in Seq(WBeats)
  /\ w_left_time \in Nat
  /\ s_b \in [valid : BOOLEAN, id : Ids, resp : {"OKEY", "DECERR"}]
  /\ wvalid => w \in [id : Ids, beat : WBeats, last : BOOLEAN]
  /\ b = s_b
  /\ s_awready \in BOOLEAN /\ s_wready \in BOOLEAN
  /\ awready \in BOOLEAN /\ wready \in BOOLEAN /\ w_fault \in BOOLEAN
  /\ awvalid \in BOOLEAN /\ wvalid \in BOOLEAN /\ bready \in BOOLEAN
  /\ m_wout \in BOOLEAN /\ m_wfaulty \in BOOLEAN

(* Master and slave agree on the write under way and on whose turn it is: the
   slave, which never looks at its own ready pins, takes an address or a beat
   exactly when the master sees them taken, and responds to that master's id. *)
WriteSidesAgree ==
  /\ m_wout <=> w_status # "w_idel"
  /\ m_wout => m_wreq = w_req
  /\ awvalid => (awready <=> ~ m_wout)
  /\ ~ w_fault => (w_status = "w_req_ok" <=> wready)
  /\ w_status = "w_wait_back" <=> b.valid
  /\ b.valid => b.id = m_wreq.id

(* What the slave has buffered is what the master has sent, in order, and each
   slot has the address the AXI rules give to its beat. *)
BufferFollowsBurst ==
  m_wout /\ ~ w_fault =>
    /\ w_cur_data = m_sent
    /\ \A i \in DOMAIN w_cur_addr : w_cur_addr[i] = BeatAddr(w_req, i - 1)
    /\ Len(w_cur_data) <= Len(w_cur_addr)

(* accept_write_data fills no slot beyond the beats of the request it latched,
   in a burst with a wrong wid or a wlast that comes early, late or never as
   well: it is the slave's own count that ends the burst.  (The slots are 16, and
   nothing compares awlen with that; a longer request is outside the model.) *)
SlotsInBounds ==
  Len(w_cur_data) <= Beats(w_req) /\ Len(w_cur_addr) <= Beats(w_req)

(* Beats are numbered from 1 here.  The device beat i goes to, 0 if none, and
   the lanes of it that are stored. *)
BeatDevice(i) == Route(Devices, BeatAddr(m_wreq, i - 1), BeatBytes(m_wreq))

BeatLanes(i) == WrittenLanes(BeatBytes(m_wreq), m_sent[i].strb)

(* Beat i covers address a. *)
Covers(i, a) == a - BeatAddr(m_wreq, i - 1) \in BeatLanes(i)

(* When the response is up every byte a strobe of the burst covers holds the
   value of the LAST beat that covers it: beats to the same address (FIXED, or
   a narrow beat) take effect in the order they were sent. *)
LastBeatWins ==
  b.valid /\ ~ w_fault =>
    \A i \in DOMAIN m_sent : BeatDevice(i) # 0 =>
      \A l \in BeatLanes(i) :
        LET a == BeatAddr(m_wreq, i - 1) + l
            d == BeatDevice(i)
        IN  \/ \E j \in i + 1 .. Len(m_sent) : Covers(j, a)
            \/ mem[d][a - Devices[d].start] = m_sent[i].data[l]

(* The one response of a burst says OKEY exactly when every beat of it found a
   device.  (A DECERR burst has still written the beats that did.) *)
ResponseHonest ==
  b.valid /\ ~ w_fault =>
    (b.resp = "OKEY" <=>
       \A i \in 1 .. Beats(m_wreq) : BeatDevice(i) # 0)

(* Memory changes only when a burst is complete: all its beats were sent, with
   the right wid and wlast, no assertion has fired, and no response is up yet;
   and only in bytes that some beat covers. *)
MemoryChangesOnlyOnCommit ==
  [][ mem' # mem =>
        /\ m_wout /\ ~ w_fault /\ ~ b.valid /\ b'.valid
        /\ Len(m_sent) = m_wreq.len + 1
        /\ \A d \in DOMAIN Devices : \A o \in 0 .. Devices[d].mask :
             mem'[d][o] # mem[d][o] =>
               \E i \in DOMAIN m_sent : Covers(i, Devices[d].start + o) ]_vars

(* A response stays on the channel, unchanged, until the master takes it. *)
ResponseHeld == [][ b.valid /\ ~ bready => b' = b ]_vars

(* A burst whose last beat was taken is answered, unless the run is aborted. *)
ResponseComes ==
  (m_wout /\ Len(m_sent) = m_wreq.len + 1) ~> (b.valid \/ w_fault)
=============================================================================
