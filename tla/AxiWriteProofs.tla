--------------------------- MODULE AxiWriteProofs ---------------------------
(***************************************************************************)
(* The write side of axi_paddr, for every set of requests and beats, every *)
(* delay and memory, and masters that get wid and wlast wrong.             *)
(***************************************************************************)
EXTENDS AxiWrite, AxiBurstProofs

(***************************************************************************)
(* The inductive invariant.  The outputs go with the state of the machine, *)
(* and so do the numbers of addresses and beats in the slots; an assertion *)
(* that has fired ends the relation of wready with the state.              *)
(***************************************************************************)
OutputsFitState ==
  /\ wready = s_wready
  /\ awvalid => awready = s_awready
  /\ w_status = "w_idel" => s_awready /\ ~ s_wready /\ ~ s_b.valid
  /\ w_status = "w_req_ok" => ~ s_awready /\ ~ s_b.valid
  /\ w_status = "w_data_ok" => ~ s_awready /\ ~ s_b.valid
  /\ w_status = "w_wait_back" => ~ s_awready /\ s_b.valid

ResponseIsForRequest == s_b.valid => s_b.id = w_req.id

LatchedIsLegal == w_status # "w_idel" /\ ~ w_fault => CheckAxiReq(w_req)

SlotsFitState ==
  /\ w_status = "w_req_ok" /\ ~ w_fault =>
       /\ Len(w_cur_data) < Beats(w_req)
       /\ Len(w_cur_addr) = Len(w_cur_data) + 1
  /\ w_status \in {"w_data_ok", "w_wait_back"} /\ ~ w_fault =>
       /\ Len(w_cur_data) = Beats(w_req)
       /\ Len(w_cur_addr) = Beats(w_req)

WriteInv ==
  /\ TypeOK
  /\ OutputsFitState
  /\ WriteSidesAgree
  /\ ResponseIsForRequest
  /\ LatchedIsLegal
  /\ SlotsFitState
  /\ SlotsInBounds
  /\ BufferFollowsBurst

LEMMA RequestFacts ==
  ASSUME NEW req \in WriteRequests
  PROVE  /\ req \in RequestType
         /\ req.id \in Ids
         /\ req.addr \in Nat
         /\ Beats(req) = req.len + 1
         /\ Beats(req) \in 1 .. MaxBeats
<1>1. req \in RequestType /\ req.len < MaxBeats
  BY WriteRequestsAssumption
<1>2. req.len \in 0 .. 15
  BY <1>1 DEF RequestType, MaxBeats
<1>3. QED
  BY <1>1, <1>2, AddrType DEF RequestType, Beats, MaxBeats

(* The idle response is a response. *)
LEMMA IdleBFacts ==
  /\ IdleB \in [valid : BOOLEAN, id : Ids, resp : {"OKEY", "DECERR"}]
  /\ IdleB.valid = FALSE
BY WriteEnvAssumption DEF IdleB

LEMMA InitWriteInv == Init => WriteInv
<1> SUFFICES ASSUME Init PROVE WriteInv
  OBVIOUS
<1>1. /\ w_cur_addr = <<>> /\ w_cur_data = <<>> /\ m_sent = <<>>
      /\ Len(w_cur_addr) = 0 /\ Len(w_cur_data) = 0
      /\ w_status = "w_idel" /\ m_wout = FALSE /\ w_fault = FALSE
      /\ s_b = IdleB /\ b = IdleB /\ s_b.valid = FALSE /\ b.valid = FALSE
  BY IdleBFacts DEF Init, Allocated
<1>2. TypeOK
  <2>1. /\ w_cur_addr \in Seq(Nat)
        /\ w_cur_data \in Seq(WBeats) /\ m_sent \in Seq(WBeats)
    BY <1>1
  <2>2. m_wfaulty \in BOOLEAN
    BY WriteEnvAssumption DEF Init, Allocated
  <2>3. QED
    BY <1>1, <2>1, <2>2, IdleBFacts DEF Init, Allocated, TypeOK
<1>3. OutputsFitState /\ ResponseIsForRequest
  BY <1>1 DEF Init, Allocated, OutputsFitState, ResponseIsForRequest
<1>4. WriteSidesAgree
  BY <1>1 DEF Init, Allocated, WriteSidesAgree
<1>5. LatchedIsLegal /\ SlotsFitState /\ SlotsInBounds /\ BufferFollowsBurst
  <2>1. Beats(w_req) \in Nat
    BY RequestFacts DEF Init, Allocated, MaxBeats
  <2>2. QED
    BY <1>1, <2>1 DEF LatchedIsLegal, SlotsFitState, SlotsInBounds, BufferFollowsBurst
<1>6. QED
  BY <1>2, <1>3, <1>4, <1>5 DEF WriteInv

(* What every posedge does to the pins and to the master. *)
LEMMA MasterFacts ==
  ASSUME TypeOK, WriteClock
  PROVE  /\ aw' \in WriteRequests /\ m_wreq' \in WriteRequests
         /\ m_sent' \in Seq(WBeats)
         /\ wvalid' => w' \in [id : Ids, beat : WBeats, last : BOOLEAN]
         /\ awvalid' \in BOOLEAN /\ wvalid' \in BOOLEAN /\ bready' \in BOOLEAN
         /\ m_wout' \in BOOLEAN /\ m_wfaulty' = m_wfaulty
         /\ b' = s_b' /\ awready' = s_awready' /\ wready' = s_wready'
<1>1. aw' \in WriteRequests /\ awvalid' \in BOOLEAN
  BY DEF TypeOK, WriteClock, MasterStep, DriveAW
<1>2. m_wout' \in BOOLEAN
  BY Zenon DEF TypeOK, WriteClock, MasterStep, FollowWrite
<1>3. m_wreq' \in WriteRequests
  BY DEF TypeOK, WriteClock, MasterStep, FollowWrite
<1>4. m_sent' \in Seq(WBeats)
  <2>1. WTaken => w.beat \in WBeats
    BY DEF TypeOK, WTaken
  <2>2. <<>> \in Seq(WBeats) /\ m_sent \in Seq(WBeats)
    BY DEF TypeOK
  <2>3. WTaken => Append(m_sent, w.beat) \in Seq(WBeats)
    BY <2>1, <2>2
  <2>4. m_sent' = IF AWTaken THEN <<>>
                  ELSE IF WTaken THEN Append(m_sent, w.beat) ELSE m_sent
    BY DEF WriteClock, MasterStep, FollowWrite
  <2>5. QED
    BY <2>2, <2>3, <2>4
<1>5. /\ wvalid' \in BOOLEAN
      /\ wvalid' => w' \in [id : Ids, beat : WBeats, last : BOOLEAN]
  <2>1. \/ wvalid' = wvalid /\ w' = w
        \/ wvalid' = FALSE
        \/ wvalid' = TRUE /\ w' \in [id : Ids, beat : WBeats, last : BOOLEAN]
    BY DEF WriteClock, MasterStep, DriveW, OfferBeat
  <2>2. CASE wvalid' = wvalid /\ w' = w
    <3>1. /\ wvalid \in BOOLEAN
          /\ wvalid => w \in [id : Ids, beat : WBeats, last : BOOLEAN]
      BY DEF TypeOK
    <3>2. QED
      BY <2>2, <3>1, Zenon
  <2>3. CASE wvalid' = FALSE
    BY <2>3, Zenon
  <2>4. CASE wvalid' = TRUE /\ w' \in [id : Ids, beat : WBeats, last : BOOLEAN]
    BY <2>4, Zenon
  <2>5. QED
    BY <2>1, <2>2, <2>3, <2>4, Zenon
<1>6. bready' \in BOOLEAN /\ m_wfaulty' = m_wfaulty
  BY DEF WriteClock, MasterStep
<1>7. b' = s_b' /\ awready' = s_awready' /\ wready' = s_wready'
  BY DEF WriteClock, UpdateWriteOutput
<1>8. QED
  BY <1>1, <1>2, <1>3, <1>4, <1>5, <1>6, <1>7, Zenon

(* A step that leaves the buffer, the request and m_sent alone, and does not
   end or begin a burst, keeps what is said of them. *)
LEMMA SameBuffer ==
  ASSUME LatchedIsLegal, SlotsInBounds, BufferFollowsBurst,
         UNCHANGED <<w_req, w_cur_addr, w_cur_data, w_fault, m_sent>>,
         w_status' # "w_idel" => w_status # "w_idel",
         m_wout' => m_wout
  PROVE  LatchedIsLegal' /\ SlotsInBounds' /\ BufferFollowsBurst'
BY DEF LatchedIsLegal, SlotsInBounds, BufferFollowsBurst

LEMMA IdleKeepsInv ==
  ASSUME WriteInv, ~ w_fault, WriteIdle, WriteClock
  PROVE  WriteInv'
<1> USE DEF WriteInv
<1>1. UNCHANGED wslaveVars /\ w_status = "w_idel" /\ ~ awvalid
  BY DEF WriteIdle
<1>2. ~ m_wout /\ b.valid = FALSE /\ ~ wready /\ s_b.valid = FALSE /\ ~ s_wready
  BY <1>1 DEF OutputsFitState, WriteSidesAgree, TypeOK
<1>3. ~ AWTaken /\ ~ WTaken /\ ~ BTaken
  BY <1>1, <1>2 DEF AWTaken, WTaken, BTaken
<1>4. m_wout' = FALSE /\ m_sent' = m_sent
  BY <1>2, <1>3 DEF WriteClock, MasterStep, FollowWrite
<1>5. TypeOK'
  BY <1>1, MasterFacts DEF TypeOK, wslaveVars
<1>6. OutputsFitState'
  BY <1>1, MasterFacts DEF OutputsFitState, wslaveVars
<1>7. WriteSidesAgree'
  BY <1>1, <1>2, <1>4, MasterFacts DEF WriteSidesAgree, OutputsFitState, wslaveVars
<1>8. LatchedIsLegal' /\ SlotsInBounds' /\ BufferFollowsBurst'
  BY <1>1, <1>2, <1>4, SameBuffer DEF wslaveVars
<1>9. ResponseIsForRequest' /\ SlotsFitState'
  BY <1>1 DEF ResponseIsForRequest, SlotsFitState, wslaveVars
<1>10. QED
  BY <1>5, <1>6, <1>7, <1>8, <1>9

(* Taking a request: the buffer has one address and no beat. *)
LEMMA AcceptKeepsInv ==
  ASSUME WriteInv, ~ w_fault, WriteAccept, WriteClock
  PROVE  WriteInv'
<1> USE DEF WriteInv
<1>1. /\ w_req' = aw /\ aw \in WriteRequests
      /\ w_cur_addr' = <<aw.addr>> /\ w_cur_data' = <<>>
      /\ s_awready' = FALSE /\ s_wready' = TRUE /\ s_b' = s_b
      /\ w_left_time' = w_left_time
      /\ w_fault' = (w_fault \/ ~ CheckAxiReq(aw))
      /\ w_status = "w_idel" /\ w_status' = "w_req_ok" /\ awvalid
  BY DEF WriteAccept, AcceptWriteReq, TypeOK
<1>2. s_b.valid = FALSE /\ b.valid = FALSE /\ awready
  BY <1>1 DEF OutputsFitState, TypeOK
<1>3. m_wout' = TRUE /\ m_wreq' = aw /\ m_sent' = <<>>
  BY <1>1, <1>2 DEF WriteClock, MasterStep, FollowWrite, AWTaken
<1>4. /\ aw \in RequestType /\ aw.addr \in Nat /\ Beats(aw) \in 1 .. MaxBeats
      /\ Len(w_cur_addr') = 1 /\ Len(w_cur_data') = 0
      /\ w_cur_addr'[1] = aw.addr /\ DOMAIN w_cur_addr' = {1}
  BY <1>1, RequestFacts
<1>5. TypeOK'
  <2>1. w_cur_addr' \in Seq(Nat) /\ w_cur_data' \in Seq(WBeats)
    BY <1>1, <1>4
  <2>2. QED
    BY <1>1, <2>1, MasterFacts DEF TypeOK
<1>6. OutputsFitState'
  BY <1>1, <1>2, MasterFacts DEF OutputsFitState
<1>7. WriteSidesAgree'
  BY <1>1, <1>2, <1>3, MasterFacts DEF WriteSidesAgree
<1>8. ResponseIsForRequest' /\ LatchedIsLegal'
  BY <1>1, <1>2 DEF ResponseIsForRequest, LatchedIsLegal
<1>9. SlotsFitState' /\ SlotsInBounds'
  BY <1>1, <1>4 DEF SlotsFitState, SlotsInBounds, MaxBeats
<1>10. BufferFollowsBurst'
  <2>1. ~ w_fault' => BeatAddr(aw, 0) = aw.addr
    BY <1>1, <1>4, FirstBeatAddr
  <2>2. QED
    BY <1>1, <1>3, <1>4, <2>1 DEF BufferFollowsBurst
<1>11. QED
  BY <1>5, <1>6, <1>7, <1>8, <1>9, <1>10

(* Waiting for a beat, for the delay or for bready. *)
LEMMA WaitKeepsInv ==
  ASSUME WriteInv, ~ w_fault, WriteNoData \/ WriteDelay \/ WriteWaitBack, WriteClock
  PROVE  WriteInv'
<1> USE DEF WriteInv
<1>1. /\ UNCHANGED <<w_status, w_req, w_cur_addr, w_cur_data, s_awready, s_wready,
                     s_b, w_fault>>
      /\ w_left_time' \in Nat
      /\ w_status # "w_idel"
      /\ w_status = "w_wait_back" => ~ bready
      /\ w_status = "w_req_ok" => ~ wvalid
  BY DEF WriteNoData, WriteDelay, WriteWaitBack, wslaveVars, TypeOK
<1>2. m_wout /\ (awvalid => ~ awready)
  BY <1>1 DEF WriteSidesAgree, TypeOK
<1>3. ~ AWTaken /\ ~ WTaken /\ ~ BTaken
  BY <1>1, <1>2 DEF AWTaken, WTaken, BTaken, WriteSidesAgree, TypeOK
<1>4. m_wout' = TRUE /\ m_wreq' = m_wreq /\ m_sent' = m_sent
  BY <1>2, <1>3, Zenon DEF WriteClock, MasterStep, FollowWrite
<1>5. TypeOK'
  BY <1>1, MasterFacts DEF TypeOK
<1>6. OutputsFitState'
  BY <1>1, MasterFacts DEF OutputsFitState
<1>7. WriteSidesAgree'
  BY <1>1, <1>2, <1>4, MasterFacts DEF WriteSidesAgree, OutputsFitState, TypeOK
<1>8. LatchedIsLegal' /\ SlotsInBounds' /\ BufferFollowsBurst'
  BY <1>1, <1>2, <1>4, SameBuffer
<1>9. ResponseIsForRequest' /\ SlotsFitState'
  BY <1>1 DEF ResponseIsForRequest, SlotsFitState
<1>10. QED
  BY <1>5, <1>6, <1>7, <1>8, <1>9

(* Storing a beat that no assertion objects to. *)
LEMMA StoreKeepsInv ==
  ASSUME WriteInv, ~ w_fault, WriteData, WriteClock
  PROVE  WriteInv'
<1> USE DEF WriteInv
<1> DEFINE bad == w.id # w_req.id \/ w.last # IsLastBeat
<1>1. /\ w_cur_data' = Append(w_cur_data, w.beat)
      /\ w_fault' = (w_fault \/ bad)
      /\ w_req' = w_req /\ s_awready' = s_awready /\ s_b' = s_b
      /\ w_status = "w_req_ok" /\ wvalid
      /\ w_status' = IF w.last THEN "w_data_ok" ELSE "w_req_ok"
      /\ IsLastBeat => /\ s_wready' = FALSE /\ w_left_time' \in Delays
                       /\ w_cur_addr' = w_cur_addr
      /\ ~ IsLastBeat => /\ w_cur_addr' = Append(w_cur_addr, NextSlotAddr)
                         /\ s_wready' = s_wready /\ w_left_time' = w_left_time
  BY DEF WriteData, AcceptWriteData, Store
<1>2. /\ w_req \in WriteRequests /\ w_req \in RequestType
      /\ Beats(w_req) \in 1 .. MaxBeats /\ CheckAxiReq(w_req)
      /\ w_cur_data \in Seq(WBeats) /\ w_cur_addr \in Seq(Nat)
      /\ w.beat \in WBeats /\ w.last \in BOOLEAN
  BY <1>1, RequestFacts DEF TypeOK, LatchedIsLegal
<1>3. /\ m_wout /\ m_wreq = w_req /\ s_b.valid = FALSE /\ b.valid = FALSE
      /\ wready /\ s_wready /\ (awvalid => ~ awready) /\ ~ s_awready
  BY <1>1 DEF WriteSidesAgree, OutputsFitState, TypeOK
<1>4. m_wout' = TRUE /\ m_wreq' = m_wreq /\ m_sent' = Append(m_sent, w.beat)
  <2>1. ~ AWTaken /\ WTaken /\ ~ BTaken
    BY <1>1, <1>3 DEF AWTaken, WTaken, BTaken
  <2>2. QED
    BY <1>3, <2>1, Zenon DEF WriteClock, MasterStep, FollowWrite
<1>5. /\ Len(w_cur_data) \in Nat /\ Len(w_cur_data) < Beats(w_req)
      /\ Len(w_cur_addr) = Len(w_cur_data) + 1
      /\ Len(w_cur_data') = Len(w_cur_data) + 1
      /\ w_cur_data' \in Seq(WBeats)
  BY <1>1, <1>2 DEF SlotsFitState
<1>6. /\ w_cur_data = m_sent
      /\ \A i \in DOMAIN w_cur_addr : w_cur_addr[i] = BeatAddr(w_req, i - 1)
  BY <1>3 DEF BufferFollowsBurst
<1>7. NextSlotAddr = BeatAddr(w_req, Len(w_cur_addr)) /\ NextSlotAddr \in Nat
  <2> DEFINE n == Len(w_cur_addr)
  <2>1. n \in Nat /\ n - 1 \in Nat /\ n \in DOMAIN w_cur_addr /\ (n - 1) + 1 = n
    BY <1>2, <1>5
  <2>2. w_cur_addr[n] = BeatAddr(w_req, n - 1)
    BY <1>6, <2>1
  <2>3. NextAddr(w_req, BeatAddr(w_req, n - 1)) = BeatAddr(w_req, n)
    BY <1>2, <2>1, NextAddrIsNextBeat
  <2>4. BeatAddr(w_req, n) \in Nat
    BY <1>2, <2>1, BeatAddrType
  <2>5. QED
    BY <2>2, <2>3, <2>4 DEF NextSlotAddr
<1>8. /\ w_cur_addr' \in Seq(Nat)
      /\ IsLastBeat => Len(w_cur_addr') = Len(w_cur_addr)
      /\ ~ IsLastBeat => Len(w_cur_addr') = Len(w_cur_addr) + 1
      /\ \A i \in DOMAIN w_cur_addr' : w_cur_addr'[i] = BeatAddr(w_req, i - 1)
  <2>1. CASE IsLastBeat
    BY <1>1, <1>2, <1>6, <2>1
  <2>2. CASE ~ IsLastBeat
    <3>1. w_cur_addr' = Append(w_cur_addr, NextSlotAddr)
      BY <1>1, <2>2
    <3>2. /\ w_cur_addr' \in Seq(Nat) /\ Len(w_cur_addr') = Len(w_cur_addr) + 1
          /\ DOMAIN w_cur_addr' = 1 .. Len(w_cur_addr) + 1
          /\ \A i \in 1 .. Len(w_cur_addr) : w_cur_addr'[i] = w_cur_addr[i]
          /\ w_cur_addr'[Len(w_cur_addr) + 1] = NextSlotAddr
      BY <1>2, <1>7, <3>1
    <3>3. ASSUME NEW i \in DOMAIN w_cur_addr'
          PROVE  w_cur_addr'[i] = BeatAddr(w_req, i - 1)
      <4>1. CASE i = Len(w_cur_addr) + 1
        <5>1. i - 1 = Len(w_cur_addr)
          BY <1>5, <4>1
        <5>2. QED
          BY <1>7, <3>2, <4>1, <5>1
      <4>2. CASE i # Len(w_cur_addr) + 1
        <5>1. i \in 1 .. Len(w_cur_addr) /\ i \in DOMAIN w_cur_addr
          BY <1>2, <1>5, <3>2, <4>2
        <5>2. QED
          BY <1>6, <3>2, <5>1
      <4>3. QED
        BY <4>1, <4>2
    <3>4. QED
      BY <2>2, <3>2, <3>3
  <2>3. QED
    BY <2>1, <2>2
<1>9. IsLastBeat <=> Len(w_cur_data) + 1 = Beats(w_req)
  BY DEF IsLastBeat
<1>10. TypeOK'
  <2>1. w_left_time' \in Nat /\ s_wready' \in BOOLEAN
    BY <1>1, WriteEnvAssumption DEF TypeOK
  <2>2. w_fault' \in BOOLEAN
    BY <1>1 DEF TypeOK
  <2>3. w_status' \in {"w_idel", "w_req_ok", "w_data_ok", "w_wait_back"}
    BY <1>1
  <2>4. QED
    BY <1>1, <1>5, <1>8, <2>1, <2>2, <2>3, MasterFacts DEF TypeOK
<1>11. OutputsFitState'
  BY <1>1, <1>3, MasterFacts DEF OutputsFitState
<1>12. ~ w_fault' => (w.last <=> IsLastBeat)
  BY <1>1, <1>2 DEF IsLastBeat
<1>13. WriteSidesAgree'
  <2>1. /\ m_wout' /\ m_wreq' = w_req' /\ w_status' # "w_idel"
        /\ ~ awready' /\ w_status' # "w_wait_back" /\ ~ b'.valid
    BY <1>1, <1>3, <1>4, MasterFacts
  <2>2. ~ w_fault' => (w_status' = "w_req_ok" <=> wready')
    <3>1. wready' <=> ~ IsLastBeat
      <4>1. wready' = s_wready'
        BY MasterFacts
      <4>2. CASE IsLastBeat
        BY <1>1, <4>1, <4>2, Zenon
      <4>3. CASE ~ IsLastBeat
        BY <1>1, <1>3, <4>1, <4>3, Zenon
      <4>4. QED
        BY <4>2, <4>3
    <3>2. w_status' = "w_req_ok" <=> ~ w.last
      BY <1>1
    <3>3. QED
      BY <1>12, <3>1, <3>2
  <2>3. QED
    BY <2>1, <2>2 DEF WriteSidesAgree
<1>14. ResponseIsForRequest' /\ LatchedIsLegal'
  BY <1>1, <1>2, <1>3 DEF ResponseIsForRequest, LatchedIsLegal
<1>15. SlotsFitState'
  <2>1. w_req' = w_req /\ w_status' = IF w.last THEN "w_data_ok" ELSE "w_req_ok"
    BY <1>1
  <2>2. Len(w_cur_data') <= Beats(w_req) /\ Beats(w_req) \in Nat
    BY <1>2, <1>5
  <2>3. CASE IsLastBeat
    <3>1. Len(w_cur_data') = Beats(w_req) /\ Len(w_cur_addr') = Beats(w_req)
      BY <1>5, <1>8, <1>9, <2>3
    <3>2. QED
      BY <1>12, <2>1, <2>3, <3>1 DEF SlotsFitState
  <2>4. CASE ~ IsLastBeat
    <3>1. /\ Len(w_cur_data') < Beats(w_req)
          /\ Len(w_cur_addr') = Len(w_cur_data') + 1
      BY <1>5, <1>8, <1>9, <2>2, <2>4
    <3>2. QED
      BY <1>12, <2>1, <2>4, <3>1 DEF SlotsFitState
  <2>5. QED
    BY <2>3, <2>4
<1>16. SlotsInBounds'
  <2>1. Beats(w_req) \in Nat /\ w_req' = w_req
    BY <1>1, <1>2 DEF MaxBeats
  <2>2. Len(w_cur_data') <= Beats(w_req) /\ Len(w_cur_addr') <= Beats(w_req)
    BY <1>5, <1>8, <1>9, <2>1
  <2>3. QED
    BY <2>1, <2>2 DEF SlotsInBounds
<1>17. BufferFollowsBurst'
  <2>1. Len(w_cur_data') <= Len(w_cur_addr')
    BY <1>5, <1>8
  <2>2. w_cur_data' = m_sent'
    BY <1>1, <1>4, <1>6
  <2>3. QED
    BY <1>1, <1>8, <2>1, <2>2 DEF BufferFollowsBurst
<1>18. QED
  BY <1>10, <1>11, <1>13, <1>14, <1>15, <1>16, <1>17

(* Writing the burst and raising its response. *)
LEMMA CommitKeepsInv ==
  ASSUME WriteInv, ~ w_fault, WriteCommit, WriteClock
  PROVE  WriteInv'
<1> USE DEF WriteInv
<1>1. /\ UNCHANGED <<w_req, w_cur_addr, w_cur_data, w_left_time, s_awready,
                     s_wready, w_fault>>
      /\ w_status = "w_data_ok" /\ w_status' = "w_wait_back"
      /\ s_b'.valid = TRUE /\ s_b'.id = w_req.id
      /\ s_b' \in [valid : BOOLEAN, id : Ids, resp : {"OKEY", "DECERR"}]
  <2>1. w_req.id \in Ids
    BY RequestFacts DEF TypeOK
  <2>2. PICK resp \in {"OKEY", "DECERR"} :
          s_b' = [valid |-> TRUE, id |-> w_req.id, resp |-> resp]
    BY DEF WriteCommit, DoAllWrite, WriteBack
  <2>3. QED
    BY <2>1, <2>2 DEF WriteCommit
<1>2. /\ m_wout /\ ~ wready /\ b.valid = FALSE /\ (awvalid => ~ awready)
      /\ m_wreq = w_req
  BY <1>1 DEF WriteSidesAgree, OutputsFitState, TypeOK
<1>3. m_wout' = TRUE /\ m_wreq' = m_wreq /\ m_sent' = m_sent
  <2>1. ~ AWTaken /\ ~ WTaken /\ ~ BTaken
    BY <1>2 DEF AWTaken, WTaken, BTaken
  <2>2. QED
    BY <1>2, <2>1, Zenon DEF WriteClock, MasterStep, FollowWrite
<1>4. TypeOK'
  BY <1>1, MasterFacts DEF TypeOK
<1>5. OutputsFitState'
  BY <1>1, MasterFacts DEF OutputsFitState
<1>6. WriteSidesAgree'
  BY <1>1, <1>2, <1>3, MasterFacts DEF WriteSidesAgree, OutputsFitState
<1>7. LatchedIsLegal' /\ SlotsInBounds' /\ BufferFollowsBurst'
  BY <1>1, <1>2, <1>3, SameBuffer
<1>8. ResponseIsForRequest' /\ SlotsFitState'
  BY <1>1 DEF ResponseIsForRequest, SlotsFitState
<1>9. QED
  BY <1>4, <1>5, <1>6, <1>7, <1>8

(* The response has been taken. *)
LEMMA FinishKeepsInv ==
  ASSUME WriteInv, ~ w_fault, WriteFinish, WriteClock
  PROVE  WriteInv'
<1> USE DEF WriteInv
<1>1. /\ UNCHANGED <<w_req, w_cur_addr, w_cur_data, w_left_time, w_fault>>
      /\ w_status = "w_wait_back" /\ bready /\ w_status' = "w_idel"
      /\ s_awready' = TRUE /\ s_wready' = FALSE /\ s_b' = IdleB
      /\ s_b'.valid = FALSE
  BY IdleBFacts DEF WriteFinish, IdelWaitWrite
<1>2. m_wout /\ ~ wready /\ b.valid /\ (awvalid => ~ awready)
  BY <1>1 DEF WriteSidesAgree, OutputsFitState, TypeOK
<1>3. m_wout' = FALSE /\ m_sent' = m_sent
  <2>1. ~ AWTaken /\ ~ WTaken /\ BTaken
    BY <1>1, <1>2 DEF AWTaken, WTaken, BTaken
  <2>2. QED
    BY <2>1, Zenon DEF WriteClock, MasterStep, FollowWrite
<1>4. TypeOK'
  BY <1>1, MasterFacts, IdleBFacts DEF TypeOK
<1>5. OutputsFitState'
  BY <1>1, MasterFacts DEF OutputsFitState
<1>6. WriteSidesAgree'
  BY <1>1, <1>3, MasterFacts DEF WriteSidesAgree
<1>7. LatchedIsLegal' /\ SlotsInBounds' /\ BufferFollowsBurst'
  BY <1>1, <1>2, <1>3, SameBuffer
<1>8. ResponseIsForRequest' /\ SlotsFitState'
  BY <1>1 DEF ResponseIsForRequest, SlotsFitState
<1>9. QED
  BY <1>4, <1>5, <1>6, <1>7, <1>8

LEMMA ClockKeepsWriteInv ==
  ASSUME WriteInv, ~ w_fault, WriteClock
  PROVE  WriteInv'
<1>1. CASE WriteIdle
  BY <1>1, IdleKeepsInv
<1>2. CASE WriteAccept
  BY <1>2, AcceptKeepsInv
<1>3. CASE WriteNoData \/ WriteDelay \/ WriteWaitBack
  BY <1>3, WaitKeepsInv
<1>4. CASE WriteData
  BY <1>4, StoreKeepsInv
<1>5. CASE WriteCommit
  BY <1>5, CommitKeepsInv
<1>6. CASE WriteFinish
  BY <1>6, FinishKeepsInv
<1>7. QED
  BY <1>1, <1>2, <1>3, <1>4, <1>5, <1>6 DEF WriteClock, WriteEval

LEMMA NextKeepsWriteInv == WriteInv /\ [Next]_vars => WriteInv'
<1> SUFFICES ASSUME WriteInv, [Next]_vars PROVE WriteInv'
  OBVIOUS
<1>1. CASE WritePosedge
  BY <1>1, ClockKeepsWriteInv DEF WritePosedge
<1>2. CASE Stopped \/ UNCHANGED vars
  BY <1>2 DEF Stopped, vars, writeVars, wslaveVars, wmasterVars, WriteInv, TypeOK,
              OutputsFitState, WriteSidesAgree, ResponseIsForRequest,
              LatchedIsLegal, SlotsFitState, SlotsInBounds, BufferFollowsBurst
<1>3. QED
  BY <1>1, <1>2 DEF Next

(* The invariant from which the theorems below follow. *)
THEOREM WriteInvariant == Spec => []WriteInv
BY InitWriteInv, NextKeepsWriteInv, PTL DEF Spec

(* The state machine, the buffers and the pins keep their types. *)
THEOREM WriteTypeCorrect == Spec => []TypeOK
<1>1. WriteInv => TypeOK
  BY DEF WriteInv
<1>2. QED
  BY <1>1, WriteInvariant, PTL

(* Master and slave agree on the write under way and on whose turn it is,
   although the slave never looks at its own ready pins. *)
THEOREM WriteSidesAlwaysAgree == Spec => []WriteSidesAgree
<1>1. WriteInv => WriteSidesAgree
  BY DEF WriteInv
<1>2. QED
  BY <1>1, WriteInvariant, PTL

(* The slots hold the beats that were sent and the addresses of the AXI rules. *)
THEOREM WriteBuffer == Spec => []BufferFollowsBurst
<1>1. WriteInv => BufferFollowsBurst
  BY DEF WriteInv
<1>2. QED
  BY <1>1, WriteInvariant, PTL

(* accept_write_data fills no slot beyond the beats of its request, whatever the
   master does with wid and wlast: its own count bounds the index. *)
THEOREM WriteSlots == Spec => []SlotsInBounds
<1>1. WriteInv => SlotsInBounds
  BY DEF WriteInv
<1>2. QED
  BY <1>1, WriteInvariant, PTL

(* A response stays up, unchanged, until the master takes it. *)
THEOREM WriteResponseHeld == Spec => ResponseHeld
<1>1. WriteInv /\ [Next]_vars => [b.valid /\ ~ bready => b' = b]_vars
  <2> SUFFICES ASSUME WriteInv, [Next]_vars, b.valid, ~ bready PROVE b' = b
    OBVIOUS
  <2>1. w_status = "w_wait_back" /\ b = s_b
    BY DEF WriteInv, WriteSidesAgree, TypeOK
  <2>2. CASE WritePosedge
    <3>1. WriteWaitBack
      BY <2>1, <2>2 DEF WritePosedge, WriteClock, WriteEval, WriteIdle, WriteAccept,
                        WriteNoData, WriteData, WriteDelay, WriteCommit, WriteFinish
    <3>2. s_b' = s_b
      BY <3>1 DEF WriteWaitBack, wslaveVars
    <3>3. QED
      BY <2>1, <2>2, <3>2 DEF WritePosedge, WriteClock, UpdateWriteOutput
  <2>3. CASE Stopped \/ UNCHANGED vars
    BY <2>3 DEF Stopped, vars, writeVars
  <2>4. QED
    BY <2>2, <2>3 DEF Next
<1>2. QED
  BY <1>1, WriteInvariant, PTL DEF Spec, ResponseHeld

(***************************************************************************)
(* The loop of do_all_write.                                               *)
(***************************************************************************)

(* One turn of it. *)
WriteStep(i, v) ==
  LET this == BusWrite(v.mem, w_cur_addr[i], BeatBytes(w_req),
                       w_cur_data[i].strb, w_cur_data[i].data)
  IN  [ok |-> v.ok /\ this.ok, mem |-> this.mem]

(* The loop turn by turn: the recursive function exists, by induction on the
   number of turns. *)
LEMMA WrittenUpToFacts ==
  /\ WrittenUpTo(0) = [ok |-> TRUE, mem |-> mem]
  /\ \A n \in Nat : WrittenUpTo(n + 1) = WriteStep(n + 1, WrittenUpTo(n))
<1> DEFINE base == [ok |-> TRUE, mem |-> mem]
           Rec(f, i) == IF i = 0 THEN base ELSE WriteStep(i, f[i - 1])
           Upto(n, g) == \A i \in 0 .. n : g[i] = Rec(g, i)
           all == CHOOSE f : f = [i \in Nat |-> Rec(f, i)]
<1>1. \A n : WrittenUpTo(n) = all[n]
  BY DEF WrittenUpTo, WriteStep
<1>2. \A n \in Nat : \E g : Upto(n, g)
  <2> DEFINE Bad == {n \in Nat : ~ \E g : Upto(n, g)}
  <2> SUFFICES ASSUME Bad # {} PROVE FALSE
    OBVIOUS
  <2>1. PICK n \in Bad : \A k \in Bad : n <= k
    BY LeastNat
  <2>2. n \in Nat /\ ~ \E g : Upto(n, g)
    BY <2>1
  <2>3. n # 0
    <3>1. Upto(0, [i \in {0} |-> base])
      OBVIOUS
    <3>2. QED
      BY <2>2, <3>1
  <2>4. n - 1 \in Nat /\ n - 1 < n
    BY <2>2, <2>3
  <2>5. PICK g : Upto(n - 1, g)
    <3> HIDE DEF Upto
    <3>1. ~ (n <= n - 1)
      BY <2>4
    <3>2. n - 1 \notin Bad
      BY <2>1, <3>1
    <3>3. QED
      BY <2>4, <3>2
  <2> DEFINE h == [i \in 0 .. n |-> IF i = n THEN WriteStep(n, g[n - 1]) ELSE g[i]]
  <2>6. ASSUME NEW i \in 0 .. n PROVE h[i] = Rec(h, i)
    <3>1. CASE i = n
      <4>1. n - 1 \in 0 .. n /\ n - 1 # n /\ n \in 0 .. n
        BY <2>4
      <4>2. h[n - 1] = g[n - 1] /\ h[n] = WriteStep(n, g[n - 1])
        BY <4>1
      <4>3. QED
        BY <2>3, <3>1, <4>2
    <3>2. CASE i # n
      <4>1. i \in 0 .. n - 1
        BY <2>4, <3>2
      <4>2. g[i] = Rec(g, i) /\ h[i] = g[i]
        BY <2>5, <3>2, <4>1
      <4>3. i # 0 => i - 1 \in 0 .. n /\ i - 1 # n
        BY <2>4, <4>1
      <4>4. i # 0 => h[i - 1] = g[i - 1]
        BY <4>3
      <4>5. QED
        BY <4>2, <4>4
    <3>3. QED
      BY <3>1, <3>2
  <2>7. Upto(n, h)
    BY <2>6
  <2>8. QED
    <3> HIDE DEF Upto, h
    <3>1. QED
      BY <2>2, <2>7
<1>3. ASSUME NEW m \in Nat, NEW n \in Nat, m <= n, NEW g, NEW h, Upto(m, g), Upto(n, h)
      PROVE  \A i \in 0 .. m : g[i] = h[i]
  <2> DEFINE Bad == {i \in 0 .. m : g[i] # h[i]}
  <2> SUFFICES ASSUME Bad # {} PROVE FALSE
    OBVIOUS
  <2>1. PICK i \in Bad : \A k \in Bad : i <= k
    <3>1. Bad \subseteq Nat
      OBVIOUS
    <3> HIDE DEF Bad
    <3>2. QED
      BY <3>1, LeastNat
  <2>2. i \in 0 .. m /\ i \in 0 .. n /\ g[i] # h[i]
    BY <1>3, <2>1
  <2>3. g[i] = Rec(g, i) /\ h[i] = Rec(h, i)
    BY <1>3, <2>2
  <2>4. i # 0
    BY <2>2, <2>3
  <2>5. i - 1 \in 0 .. m /\ ~ (i <= i - 1)
    BY <2>2, <2>4
  <2>6. g[i - 1] = h[i - 1]
    BY <2>1, <2>5
  <2>7. QED
    BY <2>2, <2>3, <2>4, <2>6
<1> DEFINE part(n) == CHOOSE g : Upto(n, g)
           F == [n \in Nat |-> part(n)[n]]
<1>4. F = [i \in Nat |-> Rec(F, i)]
  <2>1. \A n \in Nat : Upto(n, part(n))
    <3> HIDE DEF Upto
    <3>1. QED
      BY <1>2
  <2>2. ASSUME NEW n \in Nat PROVE F[n] = Rec(F, n)
    <3> HIDE DEF part
    <3>1. part(n)[n] = Rec(part(n), n)
      <4>1. Upto(n, part(n))
        <5> HIDE DEF Upto
        <5>1. QED
          BY <2>1
      <4>2. n \in 0 .. n
        OBVIOUS
      <4>3. QED
        BY <4>1, <4>2
    <3>2. F[n] = Rec(part(n), n)
      BY <3>1
    <3>3. CASE n # 0
      <4>1. n - 1 \in Nat /\ n - 1 <= n /\ n - 1 \in 0 .. n - 1
        BY <3>3
      <4>2. F[n - 1] = part(n - 1)[n - 1]
        BY <4>1
      <4>3. Upto(n - 1, part(n - 1)) /\ Upto(n, part(n))
        BY <2>1, <4>1
      <4>4. part(n - 1)[n - 1] = part(n)[n - 1]
        <5> HIDE DEF Upto
        <5>1. QED
          BY <1>3, <4>1, <4>3
      <4>5. QED
        BY <3>2, <3>3, <4>2, <4>4
    <3>4. QED
      BY <3>2, <3>3
  <2>3. QED
    <3> HIDE DEF part, Rec
    <3>1. QED
      BY <2>2
<1>5. all = [i \in Nat |-> Rec(all, i)]
  <2> HIDE DEF F
  <2>1. QED
    BY <1>4
<1>6. all[0] = base /\ \A n \in Nat : all[n + 1] = WriteStep(n + 1, all[n])
  <2> HIDE DEF all
  <2>1. \A n \in Nat : all[n] = Rec(all, n)
    BY <1>5
  <2>2. ASSUME NEW n \in Nat PROVE all[n + 1] = WriteStep(n + 1, all[n])
    <3>1. all[n + 1] = Rec(all, n + 1) /\ n + 1 # 0 /\ (n + 1) - 1 = n
      <4> HIDE DEF Rec
      <4>1. QED
        BY <2>1
    <3>2. QED
      BY <3>1
  <2>3. all[0] = base
    BY <2>1
  <2>4. QED
    BY <2>2, <2>3
<1> HIDE DEF all
<1>7. WrittenUpTo(0) = base
  BY <1>1, <1>6
<1>8. ASSUME NEW n \in Nat PROVE WrittenUpTo(n + 1) = WriteStep(n + 1, WrittenUpTo(n))
  <2>1. WrittenUpTo(n + 1) = all[n + 1] /\ WrittenUpTo(n) = all[n]
    BY <1>1, Zenon
  <2>2. QED
    BY <1>6, <2>1, Zenon
<1>9. QED
  BY <1>7, <1>8

(* The device that takes beat i of the burst in the slots. *)
SlotDevice(i) == Route(Devices, w_cur_addr[i], BeatBytes(w_req))

LEMMA WrittenOk ==
  \A n \in Nat : WrittenUpTo(n).ok <=> \A i \in 1 .. n : SlotDevice(i) # 0
<1> DEFINE P(n) == WrittenUpTo(n).ok <=> \A i \in 1 .. n : SlotDevice(i) # 0
           Bad == {n \in Nat : ~ P(n)}
<1> SUFFICES ASSUME Bad # {} PROVE FALSE
  OBVIOUS
<1>1. PICK n \in Bad : \A k \in Bad : n <= k
  BY LeastNat
<1>2. n \in Nat /\ ~ P(n)
  BY <1>1
<1>3. P(0)
  BY WrittenUpToFacts
<1>4. n # 0
  BY <1>2, <1>3
<1>5. n - 1 \in Nat /\ ~ (n <= n - 1) /\ (n - 1) + 1 = n
  BY <1>2, <1>4
<1>6. P(n - 1)
  <2> HIDE DEF P
  <2>1. QED
    BY <1>1, <1>5
<1>7. WrittenUpTo(n) = WriteStep(n, WrittenUpTo(n - 1))
  BY <1>5, WrittenUpToFacts
<1>8. WrittenUpTo(n).ok <=> WrittenUpTo(n - 1).ok /\ SlotDevice(n) # 0
  <2> DEFINE this == BusWrite(WrittenUpTo(n - 1).mem, w_cur_addr[n], BeatBytes(w_req),
                              w_cur_data[n].strb, w_cur_data[n].data)
  <2>1. CASE SlotDevice(n) = 0
    <3>1. this.ok = FALSE
      BY <2>1 DEF BusWrite, SlotDevice
    <3>2. WrittenUpTo(n).ok = (WrittenUpTo(n - 1).ok /\ this.ok)
      BY <1>7 DEF WriteStep
    <3>3. QED
      BY <2>1, <3>1, <3>2
  <2>2. CASE SlotDevice(n) # 0
    <3>1. this.ok = TRUE
      BY <2>2 DEF BusWrite, SlotDevice
    <3>2. WrittenUpTo(n).ok = (WrittenUpTo(n - 1).ok /\ this.ok)
      BY <1>7 DEF WriteStep
    <3>3. QED
      BY <2>2, <3>1, <3>2
  <2>3. QED
    BY <2>1, <2>2
<1>9. 1 .. n = (1 .. n - 1) \cup {n}
  BY <1>2, <1>4
<1>10. QED
  BY <1>2, <1>6, <1>8, <1>9

(* While a response is up, or being made, the master's view of the burst does
   not change. *)
LEMMA BurstKept ==
  ASSUME WriteInv, WriteClock, ~ w_fault, w_status \in {"w_data_ok", "w_wait_back"}
  PROVE  m_wreq' = m_wreq /\ m_sent' = m_sent
<1>1. ~ AWTaken /\ ~ WTaken
  BY DEF WriteInv, OutputsFitState, WriteSidesAgree, AWTaken, WTaken, TypeOK
<1>2. QED
  BY <1>1 DEF WriteClock, MasterStep, FollowWrite

(* What the slots hold when do_all_write runs. *)
LEMMA SlotFacts ==
  ASSUME WriteInv, ~ w_fault, w_status = "w_data_ok"
  PROVE  /\ m_wreq = w_req /\ w_req \in WriteRequests /\ w_req \in RequestType
         /\ CheckAxiReq(w_req) /\ m_wout
         /\ w_cur_data = m_sent /\ m_sent \in Seq(WBeats)
         /\ Len(m_sent) = w_req.len + 1 /\ Beats(w_req) = w_req.len + 1
         /\ Beats(w_req) \in Nat /\ DOMAIN m_sent = 1 .. Beats(w_req)
         /\ \A i \in 1 .. Beats(w_req) : w_cur_addr[i] = BeatAddr(m_wreq, i - 1)
<1>1. /\ m_wout /\ m_wreq = w_req /\ w_req \in WriteRequests /\ CheckAxiReq(w_req)
      /\ w_cur_data = m_sent /\ m_sent \in Seq(WBeats) /\ w_cur_addr \in Seq(Nat)
      /\ Len(w_cur_data) = Beats(w_req) /\ Len(w_cur_addr) = Beats(w_req)
      /\ \A i \in DOMAIN w_cur_addr : w_cur_addr[i] = BeatAddr(w_req, i - 1)
  BY DEF WriteInv, WriteSidesAgree, LatchedIsLegal, BufferFollowsBurst, SlotsFitState,
         TypeOK
<1>2. w_req \in RequestType /\ Beats(w_req) = w_req.len + 1 /\ Beats(w_req) \in Nat
  BY <1>1, RequestFacts DEF MaxBeats
<1>3. DOMAIN m_sent = 1 .. Beats(w_req) /\ DOMAIN w_cur_addr = 1 .. Beats(w_req)
  BY <1>1
<1>4. QED
  BY <1>1, <1>2, <1>3

(* Only the commit brings a response up and only the wait for bready keeps it. *)
LEMMA NoResponseElsewhere ==
  ASSUME WriteInv, WritePosedge, ~ WriteCommit, ~ WriteWaitBack
  PROVE  ~ b'.valid
<1>1. ~ s_b'.valid
  <2>1. CASE WriteIdle \/ WriteAccept \/ WriteNoData \/ WriteData \/ WriteDelay
    <3>1. s_b' = s_b
      BY <2>1 DEF WriteIdle, WriteAccept, AcceptWriteReq, WriteNoData, WriteData,
         AcceptWriteData, Store, WriteDelay, wslaveVars
    <3>2. ~ s_b.valid
      BY <2>1 DEF WriteIdle, WriteAccept, WriteNoData, WriteData, WriteDelay,
         WriteInv, OutputsFitState
    <3>3. QED
      BY <3>1, <3>2
  <2>2. CASE WriteFinish
    BY <2>2, IdleBFacts DEF WriteFinish, IdelWaitWrite
  <2>3. QED
    BY <2>1, <2>2 DEF WritePosedge, WriteClock, WriteEval
<1>2. b' = s_b'
  BY DEF WritePosedge, WriteClock, UpdateWriteOutput
<1>3. QED
  BY <1>1, <1>2

(* The one response of a burst is honest about every beat of it, for every
   length of burst and every set of devices. *)
LEMMA NextHonest == WriteInv /\ ResponseHonest /\ [Next]_vars => ResponseHonest'
<1> SUFFICES ASSUME WriteInv, ResponseHonest, [Next]_vars PROVE ResponseHonest'
  OBVIOUS
<1>1. CASE Stopped \/ UNCHANGED vars
  BY <1>1 DEF ResponseHonest, BeatDevice, Stopped, vars, writeVars, wslaveVars,
              wmasterVars
<1>2. CASE WritePosedge /\ WriteCommit
  <2>1. /\ WriteClock /\ ~ w_fault /\ w_status = "w_data_ok" /\ b' = s_b'
        /\ s_b'.resp = IF WrittenUpTo(Beats(w_req)).ok THEN "OKEY" ELSE "DECERR"
    BY <1>2 DEF WritePosedge, WriteClock, UpdateWriteOutput, WriteCommit, DoAllWrite,
                WriteBack
  <2>2. m_wreq' = m_wreq
    BY <2>1, BurstKept
  <2>3. WrittenUpTo(Beats(w_req)).ok <=>
          \A i \in 1 .. Beats(w_req) : SlotDevice(i) # 0
    BY <2>1, SlotFacts, WrittenOk
  <2>4. \A i \in 1 .. Beats(w_req) : SlotDevice(i) = BeatDevice(i)
    BY <2>1, SlotFacts DEF SlotDevice, BeatDevice
  <2>5. m_wreq = w_req
    BY <2>1, SlotFacts
  <2>6. QED
    BY <2>1, <2>2, <2>3, <2>4, <2>5 DEF ResponseHonest, BeatDevice
<1>3. CASE WritePosedge /\ WriteWaitBack
  <2>1. /\ WriteClock /\ ~ w_fault /\ w_status = "w_wait_back" /\ b' = s_b'
        /\ s_b' = s_b /\ w_fault' = w_fault /\ s_b = b
    BY <1>3 DEF WritePosedge, WriteClock, UpdateWriteOutput, WriteWaitBack, wslaveVars,
                WriteInv, TypeOK
  <2>2. m_wreq' = m_wreq
    BY <2>1, BurstKept
  <2>3. QED
    BY <2>1, <2>2 DEF ResponseHonest, BeatDevice
<1>4. CASE WritePosedge /\ ~ WriteCommit /\ ~ WriteWaitBack
  BY <1>4, NoResponseElsewhere DEF ResponseHonest
<1>5. QED
  BY <1>1, <1>2, <1>3, <1>4 DEF Next

(* OKEY means that every beat of the burst found a device, DECERR that one did
   not, for every length of burst. *)
THEOREM WriteResponseHonest == Spec => []ResponseHonest
<1>1. Init => ResponseHonest
  BY IdleBFacts DEF Init, Allocated, ResponseHonest
<1>2. QED
  BY <1>1, NextHonest, WriteInvariant, PTL DEF Spec

(***************************************************************************)
(* What the loop does to each byte.                                        *)
(***************************************************************************)
MemShape(m) ==
  /\ DOMAIN m = DOMAIN Devices
  /\ \A d \in DOMAIN Devices : DOMAIN m[d] = 0 .. Devices[d].mask

(* Beat i stores to byte o of device d, and what it stores there. *)
Hits(i, d, o) ==
  /\ SlotDevice(i) = d
  /\ o - Offset(Devices[d], w_cur_addr[i])
       \in WrittenLanes(BeatBytes(w_req), w_cur_data[i].strb)

Stored(i, d, o) == w_cur_data[i].data[o - Offset(Devices[d], w_cur_addr[i])]

LEMMA StepBytes ==
  ASSUME NEW v, NEW i, MemShape(v.mem)
  PROVE  /\ MemShape(WriteStep(i, v).mem)
         /\ \A d \in DOMAIN Devices : \A o \in 0 .. Devices[d].mask :
              WriteStep(i, v).mem[d][o] =
                IF Hits(i, d, o) THEN Stored(i, d, o) ELSE v.mem[d][o]
<1> DEFINE k == SlotDevice(i)
           new == WriteStep(i, v).mem
           off == Offset(Devices[k], w_cur_addr[i])
<1>1. 0 \notin DOMAIN Devices
  BY DevicesAssumption
<1>2. CASE k = 0
  <2>1. new = v.mem
    BY <1>2 DEF WriteStep, BusWrite, SlotDevice
  <2>2. \A d \in DOMAIN Devices : \A o : ~ Hits(i, d, o)
    BY <1>1, <1>2 DEF Hits
  <2>3. QED
    BY <2>1, <2>2
<1>3. CASE k # 0
  <2>1. k \in DOMAIN Devices
    BY <1>3, RouteFacts DEF SlotDevice
  <2> DEFINE stored == PmemWrite(v.mem[k], off, BeatBytes(w_req), w_cur_data[i].strb,
                                 w_cur_data[i].data)
  <2>2. new = [v.mem EXCEPT ![k] = stored]
    BY <1>3 DEF WriteStep, BusWrite, SlotDevice
  <2>3. /\ DOMAIN stored = DOMAIN v.mem[k]
        /\ \A o \in DOMAIN v.mem[k] :
             stored[o] = IF o - off \in WrittenLanes(BeatBytes(w_req), w_cur_data[i].strb)
                         THEN w_cur_data[i].data[o - off] ELSE v.mem[k][o]
    BY DEF PmemWrite
  <2> HIDE DEF stored, new, off, k
  <2>4. /\ DOMAIN new = DOMAIN v.mem /\ new[k] = stored
        /\ \A d \in DOMAIN Devices : d # k => new[d] = v.mem[d]
    BY <2>1, <2>2 DEF MemShape
  <2>5. MemShape(new)
    BY <2>1, <2>3, <2>4 DEF MemShape
  <2>6. ASSUME NEW d \in DOMAIN Devices, NEW o \in 0 .. Devices[d].mask
        PROVE  new[d][o] = IF Hits(i, d, o) THEN Stored(i, d, o) ELSE v.mem[d][o]
    <3>1. CASE d = k
      BY <2>3, <2>4, <3>1 DEF MemShape, Hits, Stored, off, k
    <3>2. CASE d # k
      BY <2>4, <3>2 DEF Hits, k
    <3>3. QED
      BY <3>1, <3>2
  <2>7. QED
    BY <2>5, <2>6 DEF new
<1>4. QED
  BY <1>2, <1>3

LEMMA WrittenShape ==
  ASSUME MemShape(mem)
  PROVE  \A n \in Nat : MemShape(WrittenUpTo(n).mem)
<1> DEFINE P(n) == MemShape(WrittenUpTo(n).mem)
           Bad == {n \in Nat : ~ P(n)}
<1> SUFFICES ASSUME Bad # {} PROVE FALSE
  OBVIOUS
<1>1. PICK n \in Bad : \A k \in Bad : n <= k
  <2> HIDE DEF P
  <2>1. QED
    BY LeastNat
<1>2. n \in Nat /\ ~ P(n)
  BY <1>1
<1>3. P(0)
  BY WrittenUpToFacts
<1>4. n # 0
  BY <1>2, <1>3
<1>5. n - 1 \in Nat /\ ~ (n <= n - 1) /\ (n - 1) + 1 = n
  BY <1>2, <1>4
<1>6. P(n - 1)
  <2> HIDE DEF P
  <2>1. QED
    BY <1>1, <1>5
<1>7. WrittenUpTo(n) = WriteStep(n, WrittenUpTo(n - 1))
  BY <1>5, WrittenUpToFacts
<1>8. QED
  BY <1>2, <1>6, <1>7, StepBytes

(* Each byte holds what the last beat that hits it stored, by induction on the
   number of beats. *)
LEMMA WrittenBytes ==
  ASSUME MemShape(mem), NEW d \in DOMAIN Devices, NEW o \in 0 .. Devices[d].mask
  PROVE  \A n \in Nat :
           /\ (\A i \in 1 .. n : ~ Hits(i, d, o)) => WrittenUpTo(n).mem[d][o] = mem[d][o]
           /\ \A i \in 1 .. n :
                Hits(i, d, o) /\ (\A j \in i + 1 .. n : ~ Hits(j, d, o))
                  => WrittenUpTo(n).mem[d][o] = Stored(i, d, o)
<1> DEFINE byte(n) == WrittenUpTo(n).mem[d][o]
           Kept(n) == (\A i \in 1 .. n : ~ Hits(i, d, o)) => byte(n) = mem[d][o]
           Last(n) == \A i \in 1 .. n :
                        Hits(i, d, o) /\ (\A j \in i + 1 .. n : ~ Hits(j, d, o))
                          => byte(n) = Stored(i, d, o)
           P(n) == Kept(n) /\ Last(n)
           Bad == {n \in Nat : ~ P(n)}
<1> SUFFICES ASSUME Bad # {} PROVE FALSE
  OBVIOUS
<1>1. PICK n \in Bad : \A k \in Bad : n <= k
  <2> HIDE DEF P
  <2>1. QED
    BY LeastNat
<1>2. n \in Nat /\ ~ P(n)
  BY <1>1
<1>3. P(0)
  BY WrittenUpToFacts
<1>4. n # 0
  <2> HIDE DEF P
  <2>1. QED
    BY <1>2, <1>3
<1>5. n - 1 \in Nat /\ ~ (n <= n - 1) /\ (n - 1) + 1 = n
  BY <1>2, <1>4
<1>6. P(n - 1)
  <2> HIDE DEF P
  <2>1. QED
    BY <1>1, <1>5
<1>7. WrittenUpTo(n) = WriteStep(n, WrittenUpTo(n - 1))
  BY <1>5, WrittenUpToFacts
<1>8. byte(n) = IF Hits(n, d, o) THEN Stored(n, d, o) ELSE byte(n - 1)
  <2>1. MemShape(WrittenUpTo(n - 1).mem)
    BY <1>5, WrittenShape
  <2>2. QED
    BY <1>7, <2>1, StepBytes
<1> HIDE DEF byte
<1>9. Kept(n)
  <2>1. n \in 1 .. n /\ \A i \in 1 .. n - 1 : i \in 1 .. n
    BY <1>2, <1>5
  <2>2. Kept(n - 1)
    BY <1>6
  <2>3. QED
    BY <1>8, <2>1, <2>2
<1>10. Last(n)
  <2> SUFFICES ASSUME NEW i \in 1 .. n, Hits(i, d, o),
                      \A j \in i + 1 .. n : ~ Hits(j, d, o)
               PROVE  byte(n) = Stored(i, d, o)
    OBVIOUS
  <2>1. CASE i = n
    BY <1>8, <2>1
  <2>2. CASE i # n
    <3>1. i \in 1 .. n - 1 /\ n \in i + 1 .. n
      BY <1>2, <1>5, <2>2
    <3>2. ~ Hits(n, d, o) /\ \A j \in i + 1 .. n - 1 : j \in i + 1 .. n
      BY <1>5, <3>1
    <3>3. Last(n - 1)
      BY <1>6
    <3>4. byte(n - 1) = Stored(i, d, o)
      BY <3>1, <3>2, <3>3
    <3>5. QED
      BY <1>8, <3>2, <3>4
  <2>3. QED
    BY <2>1, <2>2
<1>11. QED
  <2> HIDE DEF Kept, Last
  <2>1. QED
    BY <1>2, <1>9, <1>10

LEMMA DeviceType ==
  ASSUME NEW d \in DOMAIN Devices
  PROVE  Devices[d].start \in Nat /\ Devices[d].mask \in Nat
BY DevicesAssumption DEF IsAddrIntv

(* Where a beat that found a device goes: inside it, whatever its size. *)
LEMMA BeatPlace ==
  ASSUME WriteInv, ~ w_fault, w_status = "w_data_ok",
         NEW i \in 1 .. Beats(w_req), SlotDevice(i) # 0
  PROVE  /\ SlotDevice(i) \in DOMAIN Devices
         /\ Devices[SlotDevice(i)].start \in Nat /\ Devices[SlotDevice(i)].mask \in Nat
         /\ w_cur_addr[i] \in Nat
         /\ Offset(Devices[SlotDevice(i)], w_cur_addr[i])
              = w_cur_addr[i] - Devices[SlotDevice(i)].start
         /\ w_cur_addr[i] - Devices[SlotDevice(i)].start \in Nat
         /\ \A l \in BeatLanes(i) :
              /\ l \in Nat
              /\ w_cur_addr[i] - Devices[SlotDevice(i)].start + l
                   <= Devices[SlotDevice(i)].mask
<1> DEFINE k == SlotDevice(i)
           a == w_cur_addr[i]
           n == BeatBytes(w_req)
<1>1. /\ m_wreq = w_req /\ w_req \in WriteRequests /\ w_req \in RequestType
      /\ CheckAxiReq(w_req) /\ m_sent \in Seq(WBeats) /\ Beats(w_req) = w_req.len + 1
      /\ Beats(w_req) \in Nat /\ DOMAIN m_sent = 1 .. Beats(w_req)
      /\ a = BeatAddr(w_req, i - 1)
  BY SlotFacts
<1>2. i - 1 \in Nat /\ i - 1 \in 0 .. w_req.len
  <2>1. w_req \in RequestType
    BY <1>1
  <2>2. w_req.len \in 0 .. 255
    BY <2>1 DEF RequestType
  <2>3. i \in 1 .. w_req.len + 1
    BY <1>1
  <2>4. QED
    BY <2>2, <2>3
<1>3. a \in Nat /\ a + n < AddrSpace
  BY <1>1, <1>2, BeatAddrType, WriteTopAssumption
<1>4. n \in Nat /\ n > 0
  BY <1>1, BeatBytesType
<1>5. k \in DOMAIN Devices /\ Contains(Devices[k], a, n)
  BY RouteFacts DEF SlotDevice
<1> HIDE DEF k, a, n
<1>6. Devices[k].start \in Nat /\ Devices[k].mask \in Nat
  BY <1>5, DeviceType
<1>7. /\ Offset(Devices[k], a) = a - Devices[k].start
      /\ a - Devices[k].start \in Nat
      /\ a - Devices[k].start + n <= Devices[k].mask
  BY <1>3, <1>4, <1>5, RoutedOffset
<1>8. BeatLanes(i) \subseteq 0 .. n - 1
  <2>1. m_sent[i].strb \subseteq 0 .. BusBytes - 1
    BY <1>1, WriteDataAssumption DEF Strobes, Lanes
  <2>2. BeatLanes(i) = WrittenLanes(n, m_sent[i].strb)
    BY <1>1 DEF BeatLanes, n
  <2>3. QED
    BY <2>1, <2>2 DEF WrittenLanes
<1>9. QED
  BY <1>3, <1>4, <1>5, <1>6, <1>7, <1>8 DEF k, a, n

(* The bytes a beat stores to are bytes it covers. *)
LEMMA HitsCovers ==
  ASSUME WriteInv, ~ w_fault, w_status = "w_data_ok",
         NEW i \in 1 .. Beats(w_req),
         NEW d \in DOMAIN Devices, NEW o \in 0 .. Devices[d].mask, Hits(i, d, o)
  PROVE  Covers(i, Devices[d].start + o)
<1>1. SlotDevice(i) = d /\ d # 0
  BY DevicesAssumption DEF Hits
<1>2. /\ w_cur_addr[i] \in Nat /\ Devices[d].start \in Nat
      /\ Devices[d].mask \in Nat
      /\ Offset(Devices[d], w_cur_addr[i]) = w_cur_addr[i] - Devices[d].start
  BY <1>1, BeatPlace
<1>3. o - (w_cur_addr[i] - Devices[d].start) = (Devices[d].start + o) - w_cur_addr[i]
  BY <1>2
<1>4. /\ w_cur_addr[i] = BeatAddr(m_wreq, i - 1) /\ m_wreq = w_req
      /\ w_cur_data = m_sent
  BY SlotFacts
<1>5. QED
  BY <1>2, <1>3, <1>4 DEF Hits, Covers, BeatLanes

(* The memories change only when a burst is written. *)
LEMMA MemSteps ==
  ASSUME [Next]_vars, mem' # mem
  PROVE  /\ WriteClock /\ ~ w_fault /\ w_status = "w_data_ok" /\ WriteCommit
         /\ mem' = WrittenUpTo(Beats(w_req)).mem
         /\ s_b'.valid = TRUE /\ b' = s_b'
<1>1. WritePosedge
  BY DEF Next, Stopped, vars
<1>2. WriteCommit
  BY <1>1 DEF WritePosedge, WriteClock, WriteEval, WriteIdle, WriteAccept,
     WriteNoData, WriteData, WriteDelay, WriteWaitBack, WriteFinish
<1>3. QED
  BY <1>1, <1>2 DEF WritePosedge, WriteClock, WriteCommit, DoAllWrite, WriteBack,
     UpdateWriteOutput

(* They keep their type. *)
LEMMA TypedShape == mem \in Memories => MemShape(mem)
BY DEF Memories, MemShape

LEMMA InitMemories == Init => mem \in Memories
BY WriteEnvAssumption DEF Init, Allocated

(* Every beat in the slots carries bytes in lanes of the bus. *)
LEMMA SlotBytes ==
  ASSUME WriteInv, ~ w_fault, w_status = "w_data_ok", NEW i \in 1 .. Beats(w_req)
  PROVE  /\ w_cur_data[i].data \in Words
         /\ WrittenLanes(BeatBytes(w_req), w_cur_data[i].strb) \subseteq Lanes
<1>1. /\ w_req \in RequestType /\ CheckAxiReq(w_req) /\ w_cur_data = m_sent
      /\ m_sent \in Seq(WBeats) /\ DOMAIN m_sent = 1 .. Beats(w_req)
  BY SlotFacts
<1>2. w_cur_data[i] \in WBeats
  <2>1. w_cur_data \in Seq(WBeats) /\ i \in DOMAIN w_cur_data
    BY <1>1
  <2>2. QED
    BY <2>1
<1>3. w_cur_data[i].data \in Words /\ w_cur_data[i].strb \subseteq Lanes
  BY <1>2, WriteDataAssumption DEF Strobes
<1>4. BeatBytes(w_req) \in Nat /\ BeatBytes(w_req) <= BusBytes
  BY <1>1, BeatBytesType DEF CheckAxiReq
<1>5. QED
  BY <1>3, <1>4, BusBytesAssumption DEF WrittenLanes, Lanes

LEMMA StepTyped ==
  ASSUME NEW v, NEW i, v.mem \in Memories,
         w_cur_data[i].data \in Words,
         WrittenLanes(BeatBytes(w_req), w_cur_data[i].strb) \subseteq Lanes
  PROVE  WriteStep(i, v).mem \in Memories
<1> DEFINE k == SlotDevice(i)
           off == Offset(Devices[k], w_cur_addr[i])
           stored == PmemWrite(v.mem[k], off, BeatBytes(w_req), w_cur_data[i].strb,
                               w_cur_data[i].data)
<1>1. CASE k = 0
  BY <1>1 DEF WriteStep, BusWrite, SlotDevice
<1>2. CASE k # 0
  <2>1. k \in DOMAIN Devices
    BY <1>2, RouteFacts DEF SlotDevice
  <2>2. WriteStep(i, v).mem = [v.mem EXCEPT ![k] = stored]
    BY <1>2 DEF WriteStep, BusWrite, SlotDevice
  <2>3. v.mem[k] \in [0 .. Devices[k].mask -> ByteValues]
    BY <2>1 DEF Memories
  <2>4. stored \in [0 .. Devices[k].mask -> ByteValues]
    <3>1. stored = [o \in 0 .. Devices[k].mask |->
             IF o - off \in WrittenLanes(BeatBytes(w_req), w_cur_data[i].strb)
             THEN w_cur_data[i].data[o - off] ELSE v.mem[k][o]]
      BY <2>3 DEF PmemWrite
    <3> HIDE DEF stored, off, k
    <3>2. \A l \in Lanes : w_cur_data[i].data[l] \in ByteValues
      BY DEF Words
    <3>3. QED
      BY <2>3, <3>1, <3>2
  <2> HIDE DEF stored, off, k
  <2>5. PICK m : m = WriteStep(i, v).mem
    OBVIOUS
  <2>6. DOMAIN v.mem = DOMAIN Devices
    BY DEF Memories
  <2>7. m = [d \in DOMAIN Devices |-> IF d = k THEN stored ELSE v.mem[d]]
    BY <2>2, <2>5, <2>6
  <2>8. ASSUME NEW d \in DOMAIN Devices
        PROVE  m[d] \in [0 .. Devices[d].mask -> ByteValues]
    <3>1. v.mem[d] \in [0 .. Devices[d].mask -> ByteValues]
      BY DEF Memories
    <3>2. QED
      BY <2>4, <2>7, <3>1
  <2>9. m \in Memories
    <3>1. \A d \in DOMAIN Devices :
            m[d] \in UNION { [0 .. Devices[e].mask -> ByteValues] : e \in DOMAIN Devices }
      BY <2>8
    <3>2. QED
      BY <2>7, <2>8, <3>1 DEF Memories
  <2>10. QED
    BY <2>5, <2>9
<1>3. QED
  BY <1>1, <1>2

LEMMA WrittenTyped ==
  ASSUME mem \in Memories, WriteInv, ~ w_fault, w_status = "w_data_ok"
  PROVE  WrittenUpTo(Beats(w_req)).mem \in Memories
<1> DEFINE P(n) == WrittenUpTo(n).mem \in Memories
           Bad == {n \in 0 .. Beats(w_req) : ~ P(n)}
<1>1. Beats(w_req) \in Nat
  BY SlotFacts
<1>2. SUFFICES ASSUME Bad # {} PROVE FALSE
  BY <1>1
<1>3. PICK n \in Bad : \A k \in Bad : n <= k
  <2> HIDE DEF P
  <2>1. Bad \subseteq Nat
    OBVIOUS
  <2>2. QED
    BY <1>2, <2>1, LeastNat
<1>4. n \in 0 .. Beats(w_req) /\ ~ P(n)
  BY <1>3
<1>5. P(0)
  BY WrittenUpToFacts
<1>6. n # 0
  BY <1>4, <1>5
<1>7. /\ n - 1 \in Nat /\ n - 1 \in 0 .. Beats(w_req) /\ ~ (n <= n - 1)
      /\ (n - 1) + 1 = n /\ n \in 1 .. Beats(w_req)
  BY <1>1, <1>4, <1>6
<1>8. P(n - 1)
  <2> HIDE DEF P
  <2>1. QED
    BY <1>3, <1>7
<1>9. WrittenUpTo(n) = WriteStep(n, WrittenUpTo(n - 1))
  BY <1>7, WrittenUpToFacts
<1>10. QED
  BY <1>4, <1>7, <1>8, <1>9, SlotBytes, StepTyped

LEMMA ClockKeepsMemories ==
  ASSUME WriteInv, mem \in Memories, ~ w_fault, WriteClock
  PROVE  mem' \in Memories
<1>1. CASE mem' = mem
  BY <1>1
<1>2. CASE WriteCommit
  BY <1>2, WrittenTyped DEF WriteCommit, DoAllWrite, WriteBack
<1>3. QED
  BY <1>1, <1>2 DEF WriteClock, WriteEval, WriteIdle, WriteAccept,
     WriteNoData, WriteData, WriteDelay, WriteWaitBack, WriteFinish

LEMMA NextMemories == WriteInv /\ mem \in Memories /\ [Next]_vars => (mem \in Memories)'
BY ClockKeepsMemories DEF Next, WritePosedge, Stopped, vars

(* A byte changes only when a whole, legal burst is written, and only if some
   beat of it covers that byte, for every burst and every map of devices. *)
THEOREM WriteMemoryOnCommit == Spec => MemoryChangesOnlyOnCommit
<1> DEFINE Commit ==
      mem' # mem =>
        /\ m_wout /\ ~ w_fault /\ ~ b.valid /\ b'.valid
        /\ Len(m_sent) = m_wreq.len + 1
        /\ \A d \in DOMAIN Devices : \A o \in 0 .. Devices[d].mask :
             mem'[d][o] # mem[d][o] =>
               \E i \in DOMAIN m_sent : Covers(i, Devices[d].start + o)
<1>1. WriteInv /\ mem \in Memories /\ [Next]_vars => [Commit]_vars
  <2> SUFFICES ASSUME WriteInv, MemShape(mem), [Next]_vars, mem' # mem PROVE Commit
    BY TypedShape
  <2>1. /\ ~ w_fault /\ w_status = "w_data_ok" /\ b' = s_b' /\ s_b'.valid = TRUE
        /\ mem' = WrittenUpTo(Beats(w_req)).mem
    BY MemSteps
  <2>2. /\ m_wout /\ m_wreq = w_req /\ Len(m_sent) = m_wreq.len + 1
        /\ Beats(w_req) \in Nat /\ DOMAIN m_sent = 1 .. Beats(w_req)
    BY <2>1, SlotFacts
  <2>3. ~ b.valid
    BY <2>1 DEF WriteInv, WriteSidesAgree
  <2>4. ASSUME NEW d \in DOMAIN Devices, NEW o \in 0 .. Devices[d].mask,
               mem'[d][o] # mem[d][o]
        PROVE  \E i \in DOMAIN m_sent : Covers(i, Devices[d].start + o)
    <3>1. PICK i \in 1 .. Beats(w_req) : Hits(i, d, o)
      BY <2>1, <2>2, <2>4, WrittenBytes
    <3>2. Covers(i, Devices[d].start + o)
      BY <2>1, <3>1, HitsCovers
    <3>3. QED
      BY <2>2, <3>2
  <2>5. QED
    BY <2>1, <2>2, <2>3, <2>4
<1>2. QED
  BY <1>1, InitMemories, NextMemories, WriteInvariant, PTL
     DEF Spec, MemoryChangesOnlyOnCommit

(* What the memories hold when the loop is done. *)
LEMMA LastStored ==
  ASSUME WriteInv, MemShape(mem), ~ w_fault, w_status = "w_data_ok",
         NEW i \in DOMAIN m_sent, BeatDevice(i) # 0, NEW l \in BeatLanes(i),
         \A j \in i + 1 .. Len(m_sent) :
           ~ Covers(j, BeatAddr(m_wreq, i - 1) + l)
  PROVE  WrittenUpTo(Beats(w_req)).mem[BeatDevice(i)]
           [(BeatAddr(m_wreq, i - 1) + l) - Devices[BeatDevice(i)].start]
             = m_sent[i].data[l]
<1> DEFINE d == BeatDevice(i)
           a == BeatAddr(m_wreq, i - 1)
           o == (a + l) - Devices[d].start
           n == Beats(w_req)
<1>1. /\ n \in Nat /\ DOMAIN m_sent = 1 .. n /\ i \in 1 .. n /\ Len(m_sent) = n
      /\ w_cur_addr[i] = a /\ m_wreq = w_req /\ w_cur_data = m_sent
  BY SlotFacts
<1>2. SlotDevice(i) = d
  BY <1>1 DEF SlotDevice, BeatDevice
<1>3. /\ d \in DOMAIN Devices /\ Devices[d].start \in Nat /\ Devices[d].mask \in Nat
      /\ a \in Nat /\ Offset(Devices[d], a) = a - Devices[d].start
      /\ a - Devices[d].start \in Nat /\ l \in Nat
      /\ a - Devices[d].start + l <= Devices[d].mask
  BY <1>1, <1>2, BeatPlace
<1>4. BeatLanes(i) = WrittenLanes(BeatBytes(w_req), w_cur_data[i].strb)
  BY <1>1 DEF BeatLanes
<1> HIDE DEF d, a, n
<1>5. /\ o \in 0 .. Devices[d].mask
      /\ o - (a - Devices[d].start) = l
      /\ Devices[d].start + o = a + l
  <2> DEFINE s == Devices[d].start
             m == Devices[d].mask
  <2>1. /\ s \in Nat /\ m \in Nat /\ a \in Nat /\ l \in Nat
        /\ a - s \in Nat /\ a - s + l <= m
    BY <1>3
  <2> HIDE DEF s, m
  <2>2. /\ (a + l) - s \in 0 .. m /\ ((a + l) - s) - (a - s) = l
        /\ s + ((a + l) - s) = a + l
    BY <2>1
  <2>3. QED
    BY <2>1, <2>2 DEF s, m
<1>6. Hits(i, d, o) /\ Stored(i, d, o) = m_sent[i].data[l]
  <2> HIDE DEF o
  <2>1. o - Offset(Devices[d], w_cur_addr[i]) = l
    BY <1>1, <1>3, <1>5
  <2>2. Hits(i, d, o)
    BY <1>2, <1>4, <2>1 DEF Hits
  <2>3. Stored(i, d, o) = w_cur_data[i].data[l]
    BY <2>1 DEF Stored
  <2>4. QED
    BY <1>1, <2>2, <2>3
<1>7. \A j \in i + 1 .. n : ~ Hits(j, d, o)
  <2> SUFFICES ASSUME NEW j \in i + 1 .. n, Hits(j, d, o) PROVE FALSE
    OBVIOUS
  <2>1. j \in 1 .. n
    BY <1>1
  <2>2. Covers(j, Devices[d].start + o)
    <3> HIDE DEF o
    <3>1. QED
      BY <1>3, <1>5, <2>1, HitsCovers DEF n
  <2>3. QED
    BY <1>1, <1>5, <2>2 DEF a
<1> HIDE DEF o
<1>8. WrittenUpTo(n).mem[d][o] = Stored(i, d, o)
  <2>1. \A k \in 1 .. n :
          Hits(k, d, o) /\ (\A j \in k + 1 .. n : ~ Hits(j, d, o))
            => WrittenUpTo(n).mem[d][o] = Stored(k, d, o)
    BY <1>1, <1>3, <1>5, WrittenBytes
  <2>2. i \in 1 .. n
    BY <1>1
  <2>3. QED
    BY <1>6, <1>7, <2>1, <2>2, Zenon
<1>9. QED
  BY <1>6, <1>8 DEF o, d, a, n

(* LastBeatWins, of any burst and memories. *)
DeviceOf(req, i) == Route(Devices, BeatAddr(req, i - 1), BeatBytes(req))

LanesOf(req, sent, i) == WrittenLanes(BeatBytes(req), sent[i].strb)

Wins(req, sent, m) ==
  \A i \in DOMAIN sent : DeviceOf(req, i) # 0 =>
    \A l \in LanesOf(req, sent, i) :
      \/ \E j \in i + 1 .. Len(sent) :
           (BeatAddr(req, i - 1) + l) - BeatAddr(req, j - 1) \in LanesOf(req, sent, j)
      \/ m[DeviceOf(req, i)]
          [(BeatAddr(req, i - 1) + l) - Devices[DeviceOf(req, i)].start] = sent[i].data[l]

(* A response that comes up is made by the loop; one that is up stays with the
   memories and the burst it is for. *)
LEMMA NextLastBeatWins ==
  WriteInv /\ mem \in Memories /\ LastBeatWins /\ [Next]_vars => LastBeatWins'
<1> SUFFICES ASSUME WriteInv, MemShape(mem), LastBeatWins, [Next]_vars,
                    b'.valid, ~ w_fault'
             PROVE  LastBeatWins'
  BY TypedShape DEF LastBeatWins
<1>1. CASE Stopped \/ UNCHANGED vars
  BY <1>1 DEF LastBeatWins, Stopped, vars, writeVars, wslaveVars, wmasterVars,
              BeatDevice, BeatLanes, Covers
<1>2. CASE WritePosedge /\ WriteCommit
  <2>1. /\ WriteClock /\ ~ w_fault /\ w_status = "w_data_ok"
        /\ mem' = WrittenUpTo(Beats(w_req)).mem
    BY <1>2 DEF WritePosedge, WriteClock, WriteCommit, DoAllWrite, WriteBack
  <2>2. m_wreq' = m_wreq /\ m_sent' = m_sent
    BY <2>1, BurstKept
  <2>3. ASSUME NEW i \in DOMAIN m_sent, DeviceOf(m_wreq, i) # 0,
               NEW l \in LanesOf(m_wreq, m_sent, i)
        PROVE  \/ \E j \in i + 1 .. Len(m_sent) :
                    (BeatAddr(m_wreq, i - 1) + l) - BeatAddr(m_wreq, j - 1)
                      \in LanesOf(m_wreq, m_sent, j)
               \/ mem'[DeviceOf(m_wreq, i)]
                    [(BeatAddr(m_wreq, i - 1) + l) - Devices[DeviceOf(m_wreq, i)].start]
                      = m_sent[i].data[l]
    <3>1. DeviceOf(m_wreq, i) = BeatDevice(i)
      BY DEF DeviceOf, BeatDevice
    <3>2. \A j : LanesOf(m_wreq, m_sent, j) = BeatLanes(j)
      BY DEF LanesOf, BeatLanes
    <3>3. \/ \E j \in i + 1 .. Len(m_sent) : Covers(j, BeatAddr(m_wreq, i - 1) + l)
          \/ mem'[BeatDevice(i)]
               [(BeatAddr(m_wreq, i - 1) + l) - Devices[BeatDevice(i)].start]
                 = m_sent[i].data[l]
      BY <2>1, <2>3, <3>1, <3>2, LastStored
    <3>4. QED
      BY <3>1, <3>2, <3>3, Zenon DEF Covers
  <2>4. Wins(m_wreq, m_sent, mem')
    BY <2>3, Zenon DEF Wins
  <2>5. LastBeatWins' <=> (b'.valid /\ ~ w_fault' => Wins(m_wreq', m_sent', mem'))
    BY DEF LastBeatWins, Wins, DeviceOf, LanesOf, BeatDevice, BeatLanes, Covers
  <2>6. QED
    BY <2>2, <2>4, <2>5
<1>3. CASE WritePosedge /\ WriteWaitBack
  <2>1. /\ WriteClock /\ ~ w_fault /\ w_status = "w_wait_back"
        /\ mem' = mem /\ b = s_b /\ s_b.valid
    BY <1>3 DEF WritePosedge, WriteWaitBack, WriteInv, TypeOK, OutputsFitState
  <2>2. m_wreq' = m_wreq /\ m_sent' = m_sent
    BY <2>1, BurstKept
  <2>3. QED
    BY <2>1, <2>2 DEF LastBeatWins, BeatDevice, BeatLanes, Covers
<1>4. CASE WritePosedge /\ ~ WriteCommit /\ ~ WriteWaitBack
  BY <1>4, NoResponseElsewhere
<1>5. QED
  BY <1>1, <1>2, <1>3, <1>4 DEF Next

(* Beats to the same byte take effect in the order they were sent, for every
   burst, every map of devices and every content of the memories. *)
THEOREM WriteLastBeatWins == Spec => []LastBeatWins
<1>1. Init => LastBeatWins
  BY IdleBFacts DEF Init, Allocated, LastBeatWins
<1>2. QED
  BY <1>1, NextLastBeatWins, InitMemories, NextMemories, WriteInvariant, PTL
     DEF Spec

(***************************************************************************)
(* What a posedge shows the master, in its own terms.                      *)
(***************************************************************************)
WriteQuiet ==
  /\ mem' = mem /\ m_wout' = m_wout
  /\ m_wout => /\ UNCHANGED <<m_wreq, m_sent>>
               /\ b'.valid = b.valid /\ b'.resp = b.resp

WriteStarts ==
  /\ mem' = mem /\ ~ m_wout /\ m_wout' = TRUE
  /\ m_wreq' \in WriteRequests /\ m_sent' = <<>> /\ ~ b'.valid

WriteSends ==
  /\ mem' = mem /\ m_wout /\ m_wout' = TRUE /\ m_wreq' = m_wreq
  /\ Len(m_sent) <= m_wreq.len
  /\ \E beat \in WBeats : m_sent' = Append(m_sent, beat)
  /\ ~ b.valid /\ ~ b'.valid

(* Beat i stores to byte o of device d. *)
Strikes(i, d, o) ==
  /\ BeatDevice(i) = d
  /\ o - Offset(Devices[d], BeatAddr(m_wreq, i - 1)) \in BeatLanes(i)

(* Every byte that is struck gets the value of the last beat that strikes it. *)
WriteCommits ==
  /\ m_wout /\ m_wout' = TRUE /\ m_wreq' = m_wreq /\ m_sent' = m_sent
  /\ Len(m_sent) = m_wreq.len + 1
  /\ ~ b.valid /\ b'.valid
  /\ b'.resp = IF \A i \in DOMAIN m_sent : BeatDevice(i) # 0 THEN "OKEY" ELSE "DECERR"
  /\ mem' \in Memories
  /\ \A d \in DOMAIN Devices : \A o \in 0 .. Devices[d].mask :
       /\ (\A i \in DOMAIN m_sent : ~ Strikes(i, d, o)) => mem'[d][o] = mem[d][o]
       /\ \A i \in DOMAIN m_sent :
            Strikes(i, d, o) /\ (\A j \in DOMAIN m_sent : Strikes(j, d, o) => j <= i) =>
              mem'[d][o] = m_sent[i].data[o - Offset(Devices[d], BeatAddr(m_wreq, i - 1))]

WriteEnds == mem' = mem /\ m_wout /\ b.valid /\ m_wout' = FALSE

LEMMA CommitMoves ==
  ASSUME WriteInv, mem \in Memories, ~ w_fault, WriteCommit, WriteClock
  PROVE  WriteCommits
<1> DEFINE n == Beats(w_req)
<1>1. /\ w_status = "w_data_ok" /\ b' = s_b' /\ mem' = WrittenUpTo(n).mem
      /\ s_b'.valid = TRUE
      /\ s_b'.resp = IF WrittenUpTo(n).ok THEN "OKEY" ELSE "DECERR"
  BY DEF WriteCommit, DoAllWrite, WriteBack, WriteClock, UpdateWriteOutput
<1>2. /\ m_wreq = w_req /\ m_wout /\ w_cur_data = m_sent
      /\ Len(m_sent) = m_wreq.len + 1 /\ n \in Nat /\ DOMAIN m_sent = 1 .. n
      /\ \A i \in 1 .. n : w_cur_addr[i] = BeatAddr(m_wreq, i - 1)
  BY <1>1, SlotFacts
<1>3. m_wreq' = m_wreq /\ m_sent' = m_sent
  BY <1>1, BurstKept
<1>4. ~ b.valid
  BY <1>1 DEF WriteInv, WriteSidesAgree
<1>5. m_wout' = TRUE
  <2>1. ~ BTaken /\ m_wout
    BY <1>2, <1>4 DEF BTaken
  <2>2. QED
    BY <2>1, Zenon DEF WriteClock, MasterStep, FollowWrite
<1>6. mem' \in Memories
  BY ClockKeepsMemories
<1>7. \A i \in 1 .. n : SlotDevice(i) = BeatDevice(i)
  BY <1>2 DEF SlotDevice, BeatDevice
<1>8. WrittenUpTo(n).ok <=> \A i \in DOMAIN m_sent : BeatDevice(i) # 0
  BY <1>2, <1>7, WrittenOk
<1>9. ASSUME NEW i \in 1 .. n, NEW d, NEW o
      PROVE  /\ Hits(i, d, o) <=> Strikes(i, d, o)
             /\ Stored(i, d, o)
                  = m_sent[i].data[o - Offset(Devices[d], BeatAddr(m_wreq, i - 1))]
  <2>1. w_cur_addr[i] = BeatAddr(m_wreq, i - 1) /\ SlotDevice(i) = BeatDevice(i)
    BY <1>2, <1>7
  <2>2. BeatLanes(i) = WrittenLanes(BeatBytes(w_req), w_cur_data[i].strb)
    BY <1>2 DEF BeatLanes
  <2>3. QED
    BY <1>2, <2>1, <2>2, Zenon DEF Hits, Strikes, Stored
<1> HIDE DEF n
<1>10. ASSUME NEW d \in DOMAIN Devices, NEW o \in 0 .. Devices[d].mask
       PROVE  /\ (\A i \in 1 .. n : ~ Strikes(i, d, o)) => mem'[d][o] = mem[d][o]
              /\ \A i \in 1 .. n :
                   Strikes(i, d, o) /\ (\A j \in 1 .. n : Strikes(j, d, o) => j <= i) =>
                     mem'[d][o]
                       = m_sent[i].data[o - Offset(Devices[d], BeatAddr(m_wreq, i - 1))]
  <2>1. /\ (\A i \in 1 .. n : ~ Hits(i, d, o)) => mem'[d][o] = mem[d][o]
        /\ \A i \in 1 .. n :
             Hits(i, d, o) /\ (\A j \in i + 1 .. n : ~ Hits(j, d, o))
               => mem'[d][o] = Stored(i, d, o)
    BY <1>1, <1>2, WrittenBytes, TypedShape
  <2>2. ASSUME NEW i \in 1 .. n, Strikes(i, d, o),
               \A j \in 1 .. n : Strikes(j, d, o) => j <= i
        PROVE  mem'[d][o]
                 = m_sent[i].data[o - Offset(Devices[d], BeatAddr(m_wreq, i - 1))]
    <3>1. Hits(i, d, o)
      BY <1>9, <2>2
    <3>2. ASSUME NEW j \in i + 1 .. n PROVE ~ Hits(j, d, o)
      <4>1. j \in 1 .. n /\ ~ (j <= i)
        BY <1>2
      <4>2. ~ Strikes(j, d, o)
        BY <2>2, <4>1
      <4>3. QED
        BY <1>9, <4>1, <4>2
    <3>3. mem'[d][o] = Stored(i, d, o)
      BY <2>1, <3>1, <3>2
    <3>4. QED
      BY <1>9, <3>3
  <2>3. QED
    BY <1>9, <2>1, <2>2
<1>11. b'.valid /\ b'.resp = IF \A i \in DOMAIN m_sent : BeatDevice(i) # 0
                           THEN "OKEY" ELSE "DECERR"
  BY <1>1, <1>8
<1>12. DOMAIN m_sent = 1 .. n
  BY <1>2
<1>13. \A d \in DOMAIN Devices : \A o \in 0 .. Devices[d].mask :
         /\ (\A i \in DOMAIN m_sent : ~ Strikes(i, d, o)) => mem'[d][o] = mem[d][o]
         /\ \A i \in DOMAIN m_sent :
              Strikes(i, d, o) /\ (\A j \in DOMAIN m_sent : Strikes(j, d, o) => j <= i) =>
                mem'[d][o]
                  = m_sent[i].data[o - Offset(Devices[d], BeatAddr(m_wreq, i - 1))]
  BY <1>10, <1>12, Zenon
<1>14. QED
  BY <1>2, <1>3, <1>4, <1>5, <1>6, <1>11, <1>13, Zenon DEF WriteCommits

LEMMA WriteMoves ==
  ASSUME WriteInv, mem \in Memories, ~ w_fault, WriteClock
  PROVE  WriteQuiet \/ WriteStarts \/ WriteSends \/ WriteCommits \/ WriteEnds
<1> USE DEF WriteInv
<1>1. CASE WriteIdle
  <2>1. ~ m_wout /\ ~ awvalid /\ mem' = mem
    BY <1>1 DEF WriteIdle, WriteSidesAgree
  <2>2. m_wout' = FALSE
    BY <2>1 DEF WriteClock, MasterStep, FollowWrite, AWTaken
  <2>3. QED
    BY <2>1, <2>2 DEF WriteQuiet, TypeOK
<1>2. CASE WriteAccept
  <2>1. /\ awvalid /\ ~ m_wout /\ ~ s_b.valid /\ aw \in WriteRequests
        /\ s_b' = s_b /\ mem' = mem
    BY <1>2 DEF WriteAccept, AcceptWriteReq, OutputsFitState, WriteSidesAgree, TypeOK
  <2>2. awready
    BY <2>1 DEF WriteSidesAgree
  <2>3. m_wout' = TRUE /\ m_wreq' = aw /\ m_sent' = <<>>
    BY <2>1, <2>2 DEF WriteClock, MasterStep, FollowWrite, AWTaken
  <2>4. QED
    BY <2>1, <2>3, MasterFacts DEF WriteStarts
<1>3. CASE WriteNoData \/ WriteDelay \/ WriteWaitBack
  <2>1. /\ s_b' = s_b /\ mem' = mem /\ w_status # "w_idel"
        /\ w_status = "w_wait_back" => ~ bready
        /\ w_status = "w_req_ok" => ~ wvalid
    BY <1>3 DEF WriteNoData, WriteDelay, WriteWaitBack, wslaveVars
  <2>2. m_wout /\ (awvalid => ~ awready) /\ s_b = b
    BY <2>1 DEF WriteSidesAgree, TypeOK
  <2>3. ~ AWTaken /\ ~ WTaken /\ ~ BTaken
    BY <2>1, <2>2 DEF AWTaken, WTaken, BTaken, WriteSidesAgree, TypeOK
  <2>4. m_wout' = m_wout /\ m_wreq' = m_wreq /\ m_sent' = m_sent
    <3>1. m_wout \in BOOLEAN
      BY DEF TypeOK
    <3>2. QED
      BY <2>2, <2>3, <3>1, Zenon DEF WriteClock, MasterStep, FollowWrite
  <2>5. QED
    BY <2>1, <2>2, <2>4, MasterFacts DEF WriteQuiet
<1>4. CASE WriteData
  <2>1. /\ w_status = "w_req_ok" /\ wvalid /\ s_b' = s_b /\ mem' = mem
    BY <1>4 DEF WriteData, AcceptWriteData, Store
  <2>2. /\ m_wout /\ m_wreq = w_req /\ (awvalid => ~ awready) /\ wready
        /\ ~ b.valid /\ b = s_b /\ w.beat \in WBeats /\ m_wreq \in WriteRequests
        /\ w_cur_data = m_sent
    BY <2>1 DEF WriteSidesAgree, TypeOK, BufferFollowsBurst
  <2>3. m_wout' = TRUE /\ m_wreq' = m_wreq /\ m_sent' = Append(m_sent, w.beat)
    <3>1. ~ AWTaken /\ WTaken /\ ~ BTaken
      BY <2>1, <2>2 DEF AWTaken, WTaken, BTaken
    <3>2. QED
      BY <2>2, <3>1, Zenon DEF WriteClock, MasterStep, FollowWrite
  <2>4. Len(m_sent) <= m_wreq.len
    <3> DEFINE a == Len(m_sent)
               n == w_req.len
    <3>1. Len(w_cur_data) < Beats(w_req) /\ Beats(w_req) = n + 1
      BY <2>1, <2>2, RequestFacts DEF SlotsFitState
    <3>2. a < n + 1
      BY <2>2, <3>1
    <3>3. n \in 0 .. 255
      <4>1. w_req \in RequestType
        BY <2>2, RequestFacts
      <4>2. QED
        BY <4>1 DEF RequestType
    <3>4. a \in Nat
      <4>1. m_sent \in Seq(WBeats)
        BY DEF TypeOK
      <4>2. QED
        BY <4>1
    <3> HIDE DEF a, n
    <3>5. a <= n
      BY <3>2, <3>3, <3>4
    <3>6. QED
      BY <2>2, <3>5 DEF a, n
  <2>5. QED
    BY <2>1, <2>2, <2>3, <2>4, MasterFacts DEF WriteSends
<1>5. CASE WriteCommit
  BY <1>5, CommitMoves
<1>6. CASE WriteFinish
  <2>1. m_wout /\ b.valid /\ bready /\ mem' = mem /\ (awvalid => ~ awready)
    BY <1>6 DEF WriteFinish, WriteSidesAgree, TypeOK
  <2>2. ~ AWTaken /\ BTaken
    BY <2>1 DEF AWTaken, BTaken
  <2>3. m_wout' = FALSE
    BY <2>2, Zenon DEF WriteClock, MasterStep, FollowWrite
  <2>4. QED
    BY <2>1, <2>3 DEF WriteEnds
<1>7. QED
  BY <1>1, <1>2, <1>3, <1>4, <1>5, <1>6 DEF WriteClock, WriteEval

-----------------------------------------------------------------------------
(***************************************************************************)
(* What is behind ResponseComes: w_left_time counts the posedges between   *)
(* the last beat of a burst and its response.                              *)
(***************************************************************************)
BurstSent == m_wout /\ Len(m_sent) = m_wreq.len + 1

(* The slave knows that it has the whole burst: SlotsFitState and the agreement
   of buffer and master. *)
LEMMA SentIsBuffered ==
  ASSUME WriteInv, BurstSent, ~ w_fault, ~ b.valid
  PROVE  w_status = "w_data_ok"
<1>1. w_status # "w_idel" /\ w_status # "w_wait_back"
  BY DEF WriteInv, WriteSidesAgree, BurstSent
<1>2. w_req \in WriteRequests /\ m_wreq = w_req /\ w_cur_data = m_sent
  BY DEF WriteInv, WriteSidesAgree, BufferFollowsBurst, BurstSent, TypeOK
<1>3. Len(w_cur_data) = Beats(w_req) /\ Beats(w_req) \in Nat
  BY <1>2, RequestFacts DEF BurstSent, MaxBeats
<1>4. w_status # "w_req_ok"
  <2>1. w_status = "w_req_ok" => Len(w_cur_data) < Beats(w_req)
    BY DEF WriteInv, SlotsFitState
  <2>2. QED
    BY <1>3, <2>1
<1>5. QED
  BY <1>1, <1>4 DEF WriteInv, TypeOK

(* Once the master has sent the whole burst each posedge takes one from the
   delay, nothing else happens to the burst, no assertion can stop it any more,
   and the posedge after the delay brings the response. *)
OneLess ==
  /\ BurstSent' /\ ~ w_fault' /\ UNCHANGED <<m_wreq, m_sent>>
  /\ IF w_left_time > 0 THEN ~ b'.valid /\ w_left_time' = w_left_time - 1
     ELSE b'.valid

LEMMA ClockCountsDown ==
  ASSUME WriteInv, WriteClock, BurstSent, ~ w_fault, ~ b.valid
  PROVE  OneLess
<1>1. w_status = "w_data_ok"
  BY SentIsBuffered
<1>2. WriteDelay \/ WriteCommit
  BY <1>1 DEF WriteClock, WriteEval, WriteIdle, WriteAccept, WriteNoData, WriteData,
              WriteWaitBack, WriteFinish
<1>3. m_wreq' = m_wreq /\ m_sent' = m_sent
  BY <1>1, BurstKept
<1>4. ~ w_fault' /\ w_status' \in {"w_data_ok", "w_wait_back"}
  BY <1>1, <1>2 DEF WriteDelay, WriteCommit
<1>5. m_wout' = TRUE
  <2>1. WriteInv'
    BY ClockKeepsWriteInv
  <2>2. QED
    BY <1>4, <2>1 DEF WriteInv, WriteSidesAgree, TypeOK
<1>6. BurstSent'
  BY <1>3, <1>5 DEF BurstSent
<1>7. CASE WriteDelay
  <2>1. w_left_time > 0 /\ w_left_time' = w_left_time - 1 /\ ~ WriteCommit
    BY <1>7 DEF WriteDelay, WriteCommit
  <2>2. ~ b'.valid
    BY <1>1, <2>1, NoResponseElsewhere DEF WriteWaitBack, WritePosedge
  <2>3. QED
    BY <1>3, <1>4, <1>6, <2>1, <2>2 DEF OneLess
<1>8. CASE WriteCommit
  <2>1. ~ (w_left_time > 0)
    BY <1>8 DEF WriteCommit
  <2>2. b'.valid
    BY <1>8, MasterFacts DEF WriteInv, WriteCommit, DoAllWrite, WriteBack
  <2>3. QED
    BY <1>3, <1>4, <1>6, <2>1, <2>2 DEF OneLess
<1>9. QED
  BY <1>2, <1>7, <1>8

(* The response to a burst comes exactly w_left_time + 1 posedges after its last
   beat was taken. *)
THEOREM WriteCountsDown ==
  Spec => [][BurstSent /\ ~ w_fault /\ ~ b.valid => OneLess]_vars
<1>1. WriteInv /\ [Next]_vars => [BurstSent /\ ~ w_fault /\ ~ b.valid => OneLess]_vars
  BY ClockCountsDown DEF Next, WritePosedge, Stopped
<1>2. QED
  BY <1>1, WriteInvariant, PTL DEF Spec
=============================================================================
