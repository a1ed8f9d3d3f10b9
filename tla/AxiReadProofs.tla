--------------------------- MODULE AxiReadProofs ----------------------------
(***************************************************************************)
(* The read side of axi_paddr, for every set of requests, every delay,     *)
(* every memory and every width of the address space.                      *)
(***************************************************************************)
EXTENDS AxiRead, AxiBurstProofs

(***************************************************************************)
(* The inductive invariant.  SidesAgree is not inductive: it needs the     *)
(* outputs that go with each state of the machine.  The address and the    *)
(* count are functions of the number of beats served, and rlast of the     *)
(* count.                                                                  *)
(***************************************************************************)
OutputsFitState ==
  /\ r_status = "r_idel" => s_arready /\ ~ s_r.valid /\ ~ s_r.last
  /\ r_status = "r_req_ok" =>
       ~ s_arready /\ ~ s_r.valid /\ ~ s_r.last /\ r_served = 0
  /\ r_status = "r_wait_last" => ~ s_arready /\ s_r.valid /\ r_served >= 1
  /\ arvalid => arready = s_arready

LatchedIsLegal == r_status # "r_idel" /\ ~ r_fault => CheckAxiReq(r_req)

CountFollowsBeats ==
  r_status # "r_idel" => (r_served + r_burst_count) % 256 = Beats(r_req)

LastFollowsCount == s_r.valid => (s_r.last <=> r_burst_count = 255)

ReadInv ==
  /\ TypeOK
  /\ OutputsFitState
  /\ SidesAgree
  /\ LatchedIsLegal
  /\ AddressesFollowBurst
  /\ CountFollowsBeats
  /\ LastFollowsCount

LEMMA RequestFacts ==
  ASSUME NEW req \in Requests
  PROVE  /\ req \in RequestType
         /\ req.id \in Ids
         /\ Beats(req) \in 0 .. 255
         /\ req.addr \in Nat
         /\ req.len \in 0 .. 255
<1>1. req \in RequestType
  BY RequestsAssumption
<1>2. QED
  BY <1>1, BeatsType, AddrType DEF RequestType

LEMMA InitReadInv == Init => ReadInv
<1> SUFFICES ASSUME Init PROVE ReadInv
  OBVIOUS
<1>1. TypeOK
  <2>1. mem \in Memories
    BY LoadedAssumption DEF Init, Allocated
  <2>2. s_r = IdleR /\ r = IdleR /\ IdleR.id = 0 /\ IdleR.resp = "OKEY"
        /\ IdleR.valid = FALSE /\ IdleR.last = FALSE
    BY DEF Init, Allocated, IdleR
  <2>3. m_stalls \in BOOLEAN
    BY StallAssumption DEF Init, Allocated
  <2>4. /\ s_r.valid \in BOOLEAN /\ s_r.last \in BOOLEAN /\ s_r.id \in Ids
        /\ s_r.resp \in {"OKEY", "DECERR"} /\ r = s_r
    BY <2>2, ZeroAssumption
  <2>5. /\ s_arready \in BOOLEAN /\ arready \in BOOLEAN /\ r_fault \in BOOLEAN
        /\ arvalid \in BOOLEAN /\ rready \in BOOLEAN /\ m_out \in BOOLEAN
    BY DEF Init, Allocated
  <2>6. /\ r_status \in {"r_idel", "r_req_ok", "r_wait_last"}
        /\ r_req \in Requests /\ m_req \in Requests /\ ar \in Requests
    BY DEF Init, Allocated
  <2>7. /\ r_burst_count \in 0 .. 255 /\ r_left_time \in Nat
        /\ r_cur_addr \in Nat /\ r_served \in Nat /\ m_got \in Nat
    BY DEF Init, Allocated
  <2>8. QED
    BY <2>1, <2>3, <2>4, <2>5, <2>6, <2>7 DEF TypeOK
<1>2. r.valid = FALSE /\ s_r.valid = FALSE /\ s_r.last = FALSE
  BY DEF Init, Allocated, IdleR
<1>3. QED
  BY <1>1, <1>2
     DEF Init, Allocated, ReadInv, OutputsFitState, SidesAgree, LatchedIsLegal,
         AddressesFollowBurst, CountFollowsBeats, LastFollowsCount

(* What every posedge does to the pins and to the master. *)
LEMMA MasterFacts ==
  ASSUME TypeOK, ReadClock
  PROVE  /\ ar' \in Requests /\ m_req' \in Requests
         /\ arvalid' \in BOOLEAN /\ rready' \in BOOLEAN /\ m_out' \in BOOLEAN
         /\ m_stalls' = m_stalls
         /\ m_got' \in Nat
         /\ r' = s_r' /\ arready' = s_arready'
<1>1. ar' \in Requests /\ arvalid' \in BOOLEAN
  BY DEF TypeOK, ReadClock, MasterStep, DriveAR
<1>2. m_req' \in Requests /\ m_out' \in BOOLEAN /\ m_got' \in Nat
  <2>1. m_out' \in BOOLEAN
    BY Zenon DEF TypeOK, ReadClock, MasterStep, FollowRead
  <2>2. m_req' \in Requests
    BY DEF TypeOK, ReadClock, MasterStep, FollowRead
  <2>3. m_got' \in Nat
    BY DEF TypeOK, ReadClock, MasterStep, FollowRead
  <2>4. QED
    BY <2>1, <2>2, <2>3
<1>3. rready' \in BOOLEAN /\ m_stalls' = m_stalls
  BY DEF ReadClock, MasterStep, DriveRReady
<1>4. QED
  BY <1>1, <1>2, <1>3 DEF ReadClock, UpdateReadOutput

(* What serving one beat does to the registers of the slave. *)
LEMMA ServeFacts ==
  ASSUME TypeOK, DoOnceRead, r_req' = r_req
  PROVE  /\ s_r'.valid = TRUE
         /\ s_r'.last = (r_burst_count = 0)
         /\ s_r'.id = r_req.id
         /\ s_r'.resp \in {"OKEY", "DECERR"}
         /\ r_burst_count' = (r_burst_count - 1) % 256
         /\ r_burst_count' \in 0 .. 255
         /\ r_cur_addr' = NextAddr(r_req, r_cur_addr)
         /\ r_served' = r_served + 1
BY DEF DoOnceRead, Serve, TypeOK

(* Taking a request establishes the invariant of the burst it starts. *)
LEMMA AcceptKeepsInv ==
  ASSUME ReadInv, ~ r_fault, ReadAccept, ReadClock, mem' \in Memories
  PROVE  ReadInv'
<1> USE DEF ReadInv
<1>1. /\ r_req' = ar /\ ar \in Requests
      /\ r_burst_count' = Beats(ar)
      /\ r_cur_addr' = ar.addr
      /\ r_left_time' \in Nat
      /\ s_arready' = FALSE
      /\ r_fault' = (r_fault \/ ~ CheckAxiReq(ar))
      /\ r_served' = 0
      /\ s_r' = s_r
      /\ r_status = "r_idel" /\ r_status' = "r_req_ok" /\ arvalid
  BY DelaysAssumption DEF ReadAccept, AcceptReadReq, TypeOK
<1>2. s_r.valid = FALSE /\ r.valid = FALSE /\ arready
  BY <1>1 DEF OutputsFitState, TypeOK
<1>3. m_out' = TRUE /\ m_req' = ar /\ m_got' = 0
  BY <1>1, <1>2 DEF ReadClock, MasterStep, FollowRead, TakesRequest
<1>4. TypeOK'
  BY <1>1, MasterFacts, RequestFacts DEF TypeOK
<1>5. OutputsFitState'
  BY <1>1, <1>2, MasterFacts DEF OutputsFitState
<1>6. SidesAgree'
  BY <1>1, <1>2, <1>3, MasterFacts DEF SidesAgree
<1>7. LatchedIsLegal'
  BY <1>1 DEF LatchedIsLegal
<1>8. AddressesFollowBurst'
  <2>1. ~ r_fault' => CheckAxiReq(ar)
    BY <1>1
  <2>2. ~ r_fault' => BeatAddr(ar, 0) = ar.addr
    BY <1>1, <2>1, RequestFacts, FirstBeatAddr
  <2>3. QED
    BY <1>1, <2>2 DEF AddressesFollowBurst
<1>9. CountFollowsBeats'
  BY <1>1, RequestFacts DEF CountFollowsBeats
<1>10. LastFollowsCount'
  BY <1>1, <1>2 DEF LastFollowsCount
<1>11. QED
  BY <1>4, <1>5, <1>6, <1>7, <1>8, <1>9, <1>10

(* Serving a beat, the first or a later one, moves count and address on
   together. *)
LEMMA ServeKeepsInv ==
  ASSUME ReadInv, ~ r_fault, DoOnceRead, ReadClock, mem' \in Memories,
         r_status # "r_idel", r_status' = "r_wait_last",
         ~ (r.valid /\ rready /\ r.last),
         UNCHANGED <<r_req, r_left_time, s_arready, r_fault>>
  PROVE  ReadInv'
<1> USE DEF ReadInv
<1>1. /\ s_r'.valid = TRUE /\ s_r'.last = (r_burst_count = 0)
      /\ s_r'.id = r_req.id /\ s_r'.resp \in {"OKEY", "DECERR"}
      /\ r_burst_count' = (r_burst_count - 1) % 256
      /\ r_burst_count' \in 0 .. 255
      /\ r_cur_addr' = NextAddr(r_req, r_cur_addr)
      /\ r_served' = r_served + 1
      /\ r_req' = r_req /\ r_fault' = r_fault /\ s_arready' = s_arready
      /\ r_left_time' = r_left_time
  BY ServeFacts
<1>2. /\ r_req \in Requests /\ r_req \in RequestType /\ r_req.id \in Ids
      /\ CheckAxiReq(r_req)
  BY RequestFacts DEF TypeOK, LatchedIsLegal
<1>3. m_out /\ m_req = r_req /\ ~ s_arready
  BY DEF SidesAgree, OutputsFitState, TypeOK
<1>4. ~ TakesRequest
  BY <1>3 DEF TakesRequest, OutputsFitState
<1>5. m_out' = TRUE /\ m_req' = m_req
  BY <1>3, <1>4 DEF ReadClock, MasterStep, FollowRead, TakesBeat
<1>6. r_cur_addr' = BeatAddr(r_req, r_served + 1) /\ r_cur_addr' \in Nat
  <2>1. r_served \in Nat /\ r_served + 1 \in Nat
    BY DEF TypeOK
  <2>2. r_cur_addr = BeatAddr(r_req, r_served)
    BY <1>3 DEF AddressesFollowBurst
  <2>3. NextAddr(r_req, BeatAddr(r_req, r_served)) = BeatAddr(r_req, r_served + 1)
    BY <1>2, <2>1, NextAddrIsNextBeat
  <2>4. BeatAddr(r_req, r_served + 1) \in Nat
    BY <1>2, <2>1, BeatAddrType
  <2>5. QED
    BY <1>1, <2>2, <2>3, <2>4
<1>7. TypeOK'
  <2>1. /\ s_r'.valid \in BOOLEAN /\ s_r'.last \in BOOLEAN
        /\ s_r'.id \in Ids /\ s_r'.resp \in {"OKEY", "DECERR"}
    BY <1>1, <1>2, Zenon
  <2>2. r_served' \in Nat /\ r_burst_count' \in 0 .. 255 /\ r_cur_addr' \in Nat
    BY <1>1, <1>6 DEF TypeOK
  <2>3. /\ r_status' \in {"r_idel", "r_req_ok", "r_wait_last"}
        /\ r_req' \in Requests /\ r_left_time' \in Nat /\ mem' \in Memories
        /\ s_arready' \in BOOLEAN /\ r_fault' \in BOOLEAN
    BY <1>1, <1>2 DEF TypeOK
  <2>4. QED
    BY <2>1, <2>2, <2>3, MasterFacts DEF TypeOK
<1>8. OutputsFitState'
  BY <1>1, <1>3, MasterFacts DEF OutputsFitState, TypeOK
<1>9. SidesAgree'
  BY <1>1, <1>3, <1>5, MasterFacts DEF SidesAgree
<1>10. LatchedIsLegal'
  BY <1>1, <1>2 DEF LatchedIsLegal
<1>11. AddressesFollowBurst'
  BY <1>1, <1>6 DEF AddressesFollowBurst
<1>12. CountFollowsBeats'
  <2>1. r_served \in Nat /\ r_burst_count \in 0 .. 255
    BY DEF TypeOK
  <2>2. (r_served + r_burst_count) % 256 = Beats(r_req)
    BY DEF CountFollowsBeats
  <2>3. (r_served + 1 + ((r_burst_count - 1) % 256)) % 256
          = (r_served + r_burst_count) % 256
    BY <2>1
  <2>4. QED
    BY <1>1, <2>2, <2>3 DEF CountFollowsBeats
<1>13. LastFollowsCount'
  <2>1. r_burst_count' = 255 <=> r_burst_count = 0
    BY <1>1 DEF TypeOK
  <2>2. s_r'.last <=> r_burst_count = 0
    BY <1>1, Zenon
  <2>3. QED
    BY <2>1, <2>2, Zenon DEF LastFollowsCount
<1>14. QED
  BY <1>7, <1>8, <1>9, <1>10, <1>11, <1>12, <1>13

LEMMA IdleKeepsInv ==
  ASSUME ReadInv, ~ r_fault, ReadIdle, ReadClock, mem' \in Memories
  PROVE  ReadInv'
<1> USE DEF ReadInv
<1>1. UNCHANGED slaveVars /\ r_status = "r_idel" /\ ~ arvalid
  BY DEF ReadIdle
<1>2. ~ m_out /\ s_r.valid = FALSE /\ r.valid = FALSE /\ s_arready
  BY <1>1 DEF OutputsFitState, SidesAgree, TypeOK
<1>3. m_out' = FALSE
  BY <1>1, <1>2 DEF ReadClock, MasterStep, FollowRead, TakesRequest
<1>4. TypeOK'
  BY <1>1, MasterFacts DEF TypeOK, slaveVars
<1>5. OutputsFitState'
  BY <1>1, MasterFacts DEF OutputsFitState, slaveVars
<1>6. SidesAgree'
  BY <1>1, <1>2, <1>3, MasterFacts DEF SidesAgree, slaveVars
<1>7. QED
  BY <1>1, <1>2, <1>3, <1>4, <1>5, <1>6
     DEF LatchedIsLegal, AddressesFollowBurst, CountFollowsBeats,
         LastFollowsCount, slaveVars

LEMMA DelayKeepsInv ==
  ASSUME ReadInv, ~ r_fault, ReadDelay, ReadClock, mem' \in Memories
  PROVE  ReadInv'
<1> USE DEF ReadInv
<1>1. /\ UNCHANGED <<r_status, r_req, r_burst_count, r_cur_addr, s_arready, s_r,
                     r_fault, r_served>>
      /\ r_status = "r_req_ok" /\ r_left_time > 0
      /\ r_left_time' = r_left_time - 1
  BY DEF ReadDelay
<1>2. m_out /\ s_r.valid = FALSE /\ r.valid = FALSE /\ ~ s_arready
  BY <1>1 DEF OutputsFitState, SidesAgree, TypeOK
<1>3. m_out' = TRUE /\ m_req' = m_req
  <2>1. ~ TakesRequest /\ ~ TakesBeat
    BY <1>2 DEF TakesRequest, TakesBeat, OutputsFitState
  <2>2. QED
    BY <1>2, <2>1, Zenon DEF ReadClock, MasterStep, FollowRead
<1>4. TypeOK'
  BY <1>1, MasterFacts DEF TypeOK
<1>5. OutputsFitState'
  BY <1>1, MasterFacts DEF OutputsFitState
<1>6. SidesAgree'
  BY <1>1, <1>2, <1>3, MasterFacts DEF SidesAgree
<1>7. QED
  BY <1>1, <1>2, <1>3, <1>4, <1>5, <1>6
     DEF LatchedIsLegal, AddressesFollowBurst, CountFollowsBeats, LastFollowsCount

LEMMA FinishKeepsInv ==
  ASSUME ReadInv, ~ r_fault, ReadFinish, ReadClock, mem' \in Memories
  PROVE  ReadInv'
<1> USE DEF ReadInv
<1>1. /\ UNCHANGED <<r_req, r_burst_count, r_left_time, r_cur_addr, r_fault,
                     r_served>>
      /\ r_status = "r_wait_last" /\ rready /\ r.last /\ r_status' = "r_idel"
      /\ s_r' = IdleR /\ s_arready' = TRUE
  BY DEF ReadFinish, BackToIdle, IdelWaitRead
<1>2. s_r'.valid = FALSE /\ s_r'.last = FALSE /\ s_r'.id = 0
      /\ s_r'.resp = "OKEY"
  BY <1>1 DEF IdleR
<1>3. r.valid /\ ~ s_arready
  BY <1>1 DEF OutputsFitState, TypeOK
<1>4. m_out' = FALSE
  <2>1. ~ TakesRequest /\ TakesBeat
    BY <1>1, <1>3 DEF TakesRequest, TakesBeat, OutputsFitState
  <2>2. QED
    BY <1>1, <2>1, Zenon DEF ReadClock, MasterStep, FollowRead
<1>5. TypeOK'
  BY <1>1, <1>2, MasterFacts, ZeroAssumption DEF TypeOK
<1>6. OutputsFitState'
  BY <1>1, <1>2, MasterFacts DEF OutputsFitState
<1>7. SidesAgree'
  BY <1>1, <1>2, <1>4, MasterFacts DEF SidesAgree
<1>8. QED
  BY <1>1, <1>2, <1>4, <1>5, <1>6, <1>7
     DEF LatchedIsLegal, AddressesFollowBurst, CountFollowsBeats, LastFollowsCount

(* Whatever others write to the memories meanwhile. *)
LEMMA ClockKeepsReadInv ==
  ASSUME ReadInv, ~ r_fault, ReadClock, mem' \in Memories
  PROVE  ReadInv'
<1>1. CASE ReadIdle
  BY <1>1, IdleKeepsInv
<1>2. CASE ReadAccept
  BY <1>2, AcceptKeepsInv
<1>3. CASE ReadDelay
  BY <1>3, DelayKeepsInv
<1>4. CASE ReadFirst
  <2>1. r.valid = FALSE
    BY <1>4 DEF ReadFirst, ReadInv, OutputsFitState, TypeOK
  <2>2. QED
    BY <1>4, <2>1, ServeKeepsInv DEF ReadFirst
<1>5. CASE ReadMore
  BY <1>5, ServeKeepsInv DEF ReadMore
<1>6. CASE ReadFinish
  BY <1>6, FinishKeepsInv
<1>7. QED
  BY <1>1, <1>2, <1>3, <1>4, <1>5, <1>6 DEF ReadClock, ReadEval

LEMMA NextKeepsReadInv == ReadInv /\ [Next]_vars => ReadInv'
<1> SUFFICES ASSUME ReadInv, [Next]_vars PROVE ReadInv'
  OBVIOUS
<1>1. CASE ReadPosedge
  <2>1. ~ r_fault /\ ReadClock /\ mem' = mem
    BY <1>1 DEF ReadPosedge
  <2>2. mem \in Memories
    BY DEF ReadInv, TypeOK
  <2>3. QED
    BY <2>1, <2>2, ClockKeepsReadInv
<1>2. CASE Stopped \/ UNCHANGED vars
  BY <1>2 DEF Stopped, vars, readVars, slaveVars, masterVars, ReadInv, TypeOK,
              OutputsFitState, SidesAgree, LatchedIsLegal, AddressesFollowBurst,
              CountFollowsBeats, LastFollowsCount
<1>3. QED
  BY <1>1, <1>2 DEF Next

(* The invariant from which the theorems below follow. *)
THEOREM ReadInvariant == Spec => []ReadInv
BY InitReadInv, NextKeepsReadInv, PTL DEF Spec

(* The state machine and the pins keep their types. *)
THEOREM ReadTypeCorrect == Spec => []TypeOK
<1>1. ReadInv => TypeOK
  BY DEF ReadInv
<1>2. QED
  BY <1>1, ReadInvariant, PTL

(* Master and slave never disagree on the transaction under way, although the
   slave never looks at its own ready pin. *)
THEOREM ReadSidesAgree == Spec => []SidesAgree
<1>1. ReadInv => SidesAgree
  BY DEF ReadInv
<1>2. QED
  BY <1>1, ReadInvariant, PTL

(* The address of each beat is the one the AXI rules give, for every burst
   type, length and size, at any width of the address space. *)
THEOREM ReadAddresses == Spec => []AddressesFollowBurst
<1>1. ReadInv => AddressesFollowBurst
  BY DEF ReadInv
<1>2. QED
  BY <1>1, ReadInvariant, PTL

(* No burst is cut short: the beat with rlast is at least the arlen + 1st. *)
THEOREM ReadNotShort == Spec => []NoShortBurst
<1>1. ReadInv => NoShortBurst
  <2> SUFFICES ASSUME ReadInv, r.valid, r.last, r_req.len < 255
               PROVE  r_served > r_req.len
    BY DEF NoShortBurst
  <2>1. r = s_r /\ r_served \in Nat /\ r_req \in Requests
    BY DEF ReadInv, TypeOK
  <2>2. r_status = "r_wait_last" /\ r_served >= 1
    BY <2>1 DEF ReadInv, OutputsFitState, TypeOK
  <2>3. r_burst_count = 255 /\ (r_served + 255) % 256 = Beats(r_req)
    BY <2>1, <2>2 DEF ReadInv, LastFollowsCount, CountFollowsBeats
  <2>4. r_req.len \in 0 .. 254 /\ Beats(r_req) = r_req.len + 1
    BY <2>1, RequestFacts DEF Beats
  <2>5. QED
    BY <2>1, <2>2, <2>3, <2>4
<1>2. QED
  BY <1>1, ReadInvariant, PTL

(* The transaction under way is not replaced, its beats are not taken back, and
   it ends only where the master takes a last beat. *)
THEOREM ReadTransactionStable == Spec => TransactionStable
<1> DEFINE Stable ==
      r_status # "r_idel" =>
        /\ r_req' = r_req
        /\ r_served' >= r_served
        /\ r_status' = "r_idel" => rready /\ r.valid /\ r.last
<1>1. ASSUME ReadInv, [Next]_vars PROVE Stable
  <2> SUFFICES ASSUME r_status # "r_idel"
               PROVE  /\ r_req' = r_req
                      /\ r_served' >= r_served
                      /\ r_status' = "r_idel" => rready /\ r.valid /\ r.last
    OBVIOUS
  <2>1. TypeOK /\ OutputsFitState /\ r_served \in Nat /\ r = s_r
    BY <1>1 DEF ReadInv, TypeOK
  <2>2. CASE ReadDelay
    BY <2>1, <2>2 DEF ReadDelay
  <2>3. CASE ReadFirst \/ ReadMore
    <3>1. DoOnceRead /\ r_req' = r_req /\ r_status' = "r_wait_last"
      BY <2>3 DEF ReadFirst, ReadMore
    <3>2. r_served' = r_served + 1
      BY <2>1, <3>1, ServeFacts
    <3>3. QED
      BY <2>1, <3>1, <3>2
  <2>4. CASE ReadFinish
    <3>1. UNCHANGED <<r_req, r_served>> /\ rready /\ r.last /\ r_status = "r_wait_last"
      BY <2>4 DEF ReadFinish, BackToIdle
    <3>2. QED
      BY <2>1, <3>1 DEF OutputsFitState
  <2>5. CASE Stopped \/ UNCHANGED vars
    BY <2>1, <2>5 DEF Stopped, vars, readVars, slaveVars
  <2>6. ~ ReadIdle /\ ~ ReadAccept
    BY DEF ReadIdle, ReadAccept
  <2>7. QED
    BY <1>1, <2>2, <2>3, <2>4, <2>5, <2>6
       DEF Next, ReadPosedge, ReadClock, ReadEval
<1>2. QED
  BY <1>1, ReadInvariant, PTL DEF Spec, TransactionStable

(* A master that never stalls keeps rready high: what NoBeatLost needs.  Where
   rlast is follows from the count, as long as the beats have not gone past it. *)
KeepsUp ==
  ~ m_stalls =>
    /\ rready
    /\ m_out => /\ m_got + (IF r.valid THEN 1 ELSE 0) = r_served
                /\ r.valid => m_got <= Beats(m_req)

LEMMA KeepingUpMeans == ReadInv /\ KeepsUp => NoBeatLost
<1> SUFFICES ASSUME ReadInv, KeepsUp, m_out, ~ m_stalls, r.valid
             PROVE  r.last <=> m_got = Beats(m_req)
  BY DEF NoBeatLost, KeepsUp
<1>1. m_got + 1 = r_served /\ m_got \in Nat /\ m_got <= Beats(m_req)
  BY DEF KeepsUp, ReadInv, TypeOK
<1>2. Beats(m_req) \in 0 .. 255 /\ m_req = r_req /\ r_status # "r_idel"
  BY RequestFacts DEF ReadInv, TypeOK, SidesAgree
<1>3. /\ (r_served + r_burst_count) % 256 = Beats(m_req) /\ r_burst_count \in 0 .. 255
      /\ r.last <=> r_burst_count = 255
  BY <1>2 DEF ReadInv, TypeOK, CountFollowsBeats, LastFollowsCount
<1>4. CASE r_burst_count = 255
  BY <1>1, <1>2, <1>3, <1>4
<1>5. CASE r_burst_count # 255
  BY <1>1, <1>2, <1>3, <1>5
<1>6. QED
  BY <1>4, <1>5

LEMMA NextKeepsUp == ReadInv /\ KeepsUp /\ [Next]_vars => KeepsUp'
<1> SUFFICES ASSUME ReadInv, KeepsUp, [Next]_vars, ~ m_stalls'
             PROVE  /\ rready'
                    /\ m_out' => /\ m_got' + (IF r'.valid THEN 1 ELSE 0) = r_served'
                                 /\ r'.valid => m_got' <= Beats(m_req')
  BY DEF KeepsUp, Beats
<1>1. CASE Stopped \/ UNCHANGED vars
  BY <1>1 DEF KeepsUp, Stopped, vars, readVars, slaveVars, masterVars
<1>2. CASE ReadPosedge
  <2>1. /\ TypeOK /\ ReadClock /\ m_got \in Nat /\ r_served \in Nat
        /\ OutputsFitState /\ SidesAgree /\ r = s_r /\ r' = s_r'
    BY <1>2, MasterFacts DEF ReadInv, TypeOK, ReadPosedge
  <2>2. rready' /\ rready /\ ~ m_stalls
    BY <2>1 DEF ReadClock, MasterStep, DriveRReady, KeepsUp
  <2>3. m_out => /\ m_got + (IF r.valid THEN 1 ELSE 0) = r_served
                 /\ r.valid => /\ m_got <= Beats(m_req)
                               /\ r.last <=> m_got = Beats(m_req)
    BY <2>2, KeepingUpMeans DEF KeepsUp, NoBeatLost
  <2>4. /\ m_out' = IF TakesRequest THEN TRUE ELSE m_out /\ ~ (TakesBeat /\ r.last)
        /\ m_got' = IF TakesRequest THEN 0
                    ELSE IF TakesBeat THEN m_got + 1 ELSE m_got
        /\ m_req' = IF TakesRequest THEN ar ELSE m_req
    BY <2>1 DEF ReadClock, MasterStep, FollowRead
  <2>5. CASE ReadIdle
    <3>1. ~ m_out /\ ~ arvalid
      BY <2>1, <2>5 DEF ReadIdle, SidesAgree
    <3>2. QED
      BY <2>2, <2>4, <3>1 DEF TakesRequest
  <2>6. CASE ReadAccept
    <3>1. arvalid /\ ~ r.valid /\ arready
      BY <2>1, <2>6 DEF ReadAccept, OutputsFitState
    <3>2. r_served' = 0 /\ s_r' = s_r
      BY <2>6 DEF ReadAccept, AcceptReadReq
    <3>3. QED
      BY <2>1, <2>2, <2>4, <3>1, <3>2 DEF TakesRequest
  <2>7. CASE r_status # "r_idel"
    <3>1. m_out /\ ~ TakesRequest
      BY <2>1, <2>7 DEF SidesAgree, TakesRequest
    <3>2. CASE ReadDelay
      <4>1. ~ r.valid /\ s_r' = s_r /\ r_served' = r_served
        BY <2>1, <3>2 DEF ReadDelay, OutputsFitState
      <4>2. QED
        BY <2>1, <2>2, <2>3, <2>4, <3>1, <4>1 DEF TakesBeat
    <3>3. CASE ReadFirst \/ ReadMore
      <4>1. DoOnceRead /\ r_req' = r_req
        BY <3>3 DEF ReadFirst, ReadMore
      <4>2. r_served' = r_served + 1 /\ r'.valid
        BY <2>1, <4>1, ServeFacts
      <4>3. r.valid \in BOOLEAN
        BY <2>1 DEF TypeOK
      <4>4. m_got' = m_got + (IF r.valid THEN 1 ELSE 0)
        BY <2>1, <2>2, <2>4, <3>1, <4>3 DEF TakesBeat
      <4>5. m_got' + 1 = r_served'
        BY <2>1, <2>3, <3>1, <4>2, <4>3, <4>4
      <4>6. m_req' = m_req /\ Beats(m_req) \in 0 .. 255
        BY <2>1, <2>4, <3>1, RequestFacts DEF TypeOK
      <4>7. m_got' <= Beats(m_req)
        <5>1. CASE ReadFirst
          <6>1. ~ r.valid /\ r_served = 0
            BY <2>1, <5>1 DEF ReadFirst, OutputsFitState
          <6>2. m_got = 0
            BY <2>1, <2>3, <3>1, <6>1
          <6>3. QED
            BY <4>4, <4>6, <6>1, <6>2
        <5>2. CASE ReadMore
          <6>1. r.valid /\ ~ r.last
            BY <2>1, <2>2, <5>2 DEF ReadMore, OutputsFitState
          <6>2. m_got <= Beats(m_req) /\ m_got # Beats(m_req)
            BY <2>3, <3>1, <6>1
          <6>3. QED
            BY <2>1, <4>4, <4>6, <6>1, <6>2
        <5>3. QED
          BY <3>3, <5>1, <5>2
      <4>8. Beats(m_req') = Beats(m_req)
        BY <4>6
      <4>9. QED
        BY <2>2, <4>2, <4>5, <4>7, <4>8
    <3>4. CASE ReadFinish
      <4>1. r.valid /\ r.last
        BY <2>1, <3>4 DEF ReadFinish, OutputsFitState
      <4>2. ~ m_out'
        BY <2>2, <2>4, <3>1, <4>1 DEF TakesBeat
      <4>3. QED
        BY <2>2, <4>2
    <3>5. QED
      BY <2>1, <2>7, <3>2, <3>3, <3>4 DEF ReadClock, ReadEval, ReadIdle, ReadAccept
  <2>8. QED
    BY <2>1, <2>5, <2>6, <2>7 DEF ReadClock, ReadEval, ReadDelay, ReadFirst,
       ReadMore, ReadFinish
<1>3. QED
  BY <1>1, <1>2 DEF Next

(* A master that keeps rready high loses and repeats no beat, though the slave
   serves one at each posedge whatever rready is, and sees rlast on the beat after
   those it asked for, neither earlier nor later. *)
THEOREM ReadNoBeatLost == Spec => []NoBeatLost
<1>1. Init => KeepsUp
  BY DEF Init, Allocated, KeepsUp
<1>2. QED
  BY <1>1, KeepingUpMeans, NextKeepsUp, ReadInvariant, PTL DEF Spec

LEMMA NextMatchesBeat == ReadInv /\ DataMatchesBeat /\ [Next]_vars => DataMatchesBeat'
<1> SUFFICES ASSUME ReadInv, DataMatchesBeat, [Next]_vars PROVE DataMatchesBeat'
  OBVIOUS
<1>1. CASE Stopped \/ UNCHANGED vars
  BY <1>1 DEF DataMatchesBeat, Stopped, vars, readVars, slaveVars, masterVars
<1>2. CASE ReadPosedge /\ (ReadFirst \/ ReadMore)
  <2>1. /\ TypeOK /\ r' = s_r' /\ mem' = mem /\ ~ r_fault /\ DoOnceRead
        /\ r_req' = r_req /\ r_status # "r_idel"
    BY <1>2, MasterFacts DEF ReadInv, ReadPosedge, ReadFirst, ReadMore
  <2>2. /\ r_req \in Requests /\ r_req \in RequestType /\ CheckAxiReq(r_req)
        /\ r_served \in Nat
    BY <2>1, RequestFacts DEF ReadInv, LatchedIsLegal, TypeOK
  <2> DEFINE addr == r_cur_addr
             size == BeatBytes(r_req)
             d    == Route(Devices, addr, size)
  <2>3. r_served' - 1 = r_served /\ addr = BeatAddr(r_req, r_served) /\ addr \in Nat
    <3>1. r_served' = r_served + 1
      BY <2>1, ServeFacts
    <3>2. m_out /\ r_cur_addr \in Nat
      BY <2>1 DEF ReadInv, SidesAgree, TypeOK
    <3>3. r_cur_addr = BeatAddr(r_req, r_served)
      BY <2>1, <3>2 DEF ReadInv, AddressesFollowBurst
    <3>4. QED
      BY <2>2, <3>1, <3>2, <3>3
  <2>4. size \in Nat /\ size >= 1 /\ size <= BusBytes
    BY <2>2, BeatBytesType DEF CheckAxiReq
  <2>5. /\ r'.resp = IF BusRead(mem, addr, size, s_r.data).ok THEN "OKEY" ELSE "DECERR"
        /\ r'.data = BusRead(mem, addr, size, s_r.data).data
    BY <2>1 DEF DoOnceRead, Serve
  <2>6. SUFFICES ASSUME addr + size < AddrSpace
                 PROVE  IF d = 0 THEN r'.resp = "DECERR"
                        ELSE /\ r'.resp = "OKEY"
                             /\ \A l \in 0 .. size - 1 :
                                  r'.data[l] = mem[d][addr + l - Devices[d].start]
    BY <2>1, <2>3 DEF DataMatchesBeat
  <2>7. CASE d = 0
    BY <2>5, <2>7 DEF BusRead
  <2>8. CASE d # 0
    <3>1. d \in DOMAIN Devices /\ Contains(Devices[d], addr, size)
      BY <2>8, RouteFacts
    <3>2. Offset(Devices[d], addr) = addr - Devices[d].start
      BY <2>3, <2>4, <2>6, <3>1, RoutedOffset
    <3>3. /\ r'.resp = "OKEY"
          /\ r'.data = PmemRead(mem[d], addr - Devices[d].start, size, s_r.data)
      BY <2>5, <2>8, <3>2 DEF BusRead
    <3>4. ASSUME NEW l \in 0 .. size - 1
          PROVE  r'.data[l] = mem[d][addr + l - Devices[d].start]
      <4>1. l \in Lanes /\ l < size
        BY <2>4, BusBytesAssumption DEF Lanes
      <4>2. r'.data[l] = mem[d][(addr - Devices[d].start) + l]
        BY <3>3, <4>1 DEF PmemRead
      <4>3. Devices[d].start \in Nat
        BY <3>1, DevicesAssumption DEF IsAddrIntv
      <4>4. (addr - Devices[d].start) + l = addr + l - Devices[d].start
        BY <2>3, <4>1, <4>3
      <4>5. QED
        BY <4>2, <4>4
    <3>5. QED
      BY <2>8, <3>3, <3>4
  <2>9. QED
    BY <2>7, <2>8
<1>3. CASE ReadPosedge /\ ~ (ReadFirst \/ ReadMore)
  <2>1. r' = s_r'
    BY <1>3 DEF ReadPosedge, ReadClock, UpdateReadOutput
  <2>2. ~ s_r'.valid
    BY <1>3 DEF ReadPosedge, ReadClock, ReadEval, ReadIdle, ReadAccept, AcceptReadReq,
       ReadDelay, ReadFinish, BackToIdle, IdelWaitRead, IdleR, slaveVars, ReadInv,
       OutputsFitState
  <2>3. QED
    BY <2>1, <2>2 DEF DataMatchesBeat
<1>4. QED
  BY <1>1, <1>2, <1>3 DEF Next

(* Every beat answers with the bytes at its own address, or says that no device
   holds them, for every memory and any address in the space. *)
THEOREM ReadDataMatches == Spec => []DataMatchesBeat
<1>1. Init => DataMatchesBeat
  BY DEF Init, Allocated, IdleR, DataMatchesBeat
<1>2. QED
  BY <1>1, NextMatchesBeat, ReadInvariant, PTL DEF Spec

(***************************************************************************)
(* What a posedge shows the master, in its own terms.                      *)
(***************************************************************************)
ReadQuiet ==
  /\ m_out' = m_out
  /\ m_out => UNCHANGED <<m_req, r_req, r_served, r>>

ReadStarts ==
  /\ ~ m_out /\ m_out' = TRUE
  /\ m_req' \in Requests
  /\ r_served' = 0 /\ ~ r'.valid /\ ~ r'.last

(* The beat on the pins shows the memories as they were before the posedge. *)
ShowsBeat ==
  LET a == BeatAddr(m_req, r_served)
      d == Route(Devices, a, BeatBytes(m_req))
  IN  /\ d = 0 => r'.resp = "DECERR"
      /\ d # 0 => /\ r'.resp = "OKEY"
                  /\ \A l \in 0 .. BeatBytes(m_req) - 1 :
                       r'.data[l] = mem[d][Offset(Devices[d], a) + l]

ReadServes ==
  /\ m_out /\ m_out' = TRUE
  /\ m_req' = m_req /\ r_req' = m_req
  /\ r_served' = r_served + 1
  /\ r'.valid /\ r'.last \in BOOLEAN
  /\ r'.last => r_served >= m_req.len \/ m_req.len = 255
  /\ ShowsBeat

ReadEnds == m_out /\ r.last /\ m_out' = FALSE

LEMMA ServesBeat ==
  ASSUME ReadInv, ~ r_fault, ReadClock, DoOnceRead, r_req' = r_req,
         r_status # "r_idel", ~ (r.valid /\ rready /\ r.last)
  PROVE  ReadServes
<1>1. TypeOK /\ m_out /\ m_req = r_req /\ ~ s_arready /\ r_served \in Nat
  BY DEF ReadInv, SidesAgree, OutputsFitState, TypeOK
<1>2. /\ r_req \in Requests /\ r_req \in RequestType /\ CheckAxiReq(r_req)
      /\ r_req.len \in 0 .. 255
  BY <1>1, RequestFacts DEF ReadInv, LatchedIsLegal, TypeOK, RequestType
<1>3. m_out' = TRUE /\ m_req' = m_req
  <2>1. ~ TakesRequest
    BY <1>1 DEF TakesRequest, ReadInv, OutputsFitState
  <2>2. QED
    BY <1>1, <2>1 DEF ReadClock, MasterStep, FollowRead, TakesBeat
<1>4. /\ s_r'.valid = TRUE /\ s_r'.last = (r_burst_count = 0)
      /\ r_served' = r_served + 1 /\ r' = s_r'
  BY <1>1, ServeFacts, MasterFacts
<1>5. r_burst_count = 0 => r_served >= m_req.len \/ m_req.len = 255
  <2>1. r_burst_count = 0 => r_served % 256 = (m_req.len + 1) % 256
    BY <1>1 DEF ReadInv, CountFollowsBeats, Beats
  <2>2. QED
    BY <1>1, <1>2, <2>1
<1>6. ShowsBeat
  <2> DEFINE a == BeatAddr(m_req, r_served)
             size == BeatBytes(m_req)
             d == Route(Devices, a, size)
             res == BusRead(mem, a, size, s_r.data)
  <2>1. r_cur_addr = a
    BY <1>1 DEF ReadInv, AddressesFollowBurst
  <2>2. r'.resp = (IF res.ok THEN "OKEY" ELSE "DECERR") /\ r'.data = res.data
    BY <1>1, <1>4, <2>1 DEF DoOnceRead, Serve
  <2>3. size \in Nat /\ size >= 1 /\ size <= BusBytes
    BY <1>1, <1>2, BeatBytesType DEF CheckAxiReq
  <2>4. d = 0 => r'.resp = "DECERR"
    BY <2>2 DEF BusRead
  <2>5. d # 0 => /\ r'.resp = "OKEY"
                 /\ r'.data = PmemRead(mem[d], Offset(Devices[d], a), size, s_r.data)
    BY <2>2 DEF BusRead
  <2>6. \A l \in 0 .. size - 1 : l \in Lanes /\ l < size
    BY <2>3, BusBytesAssumption DEF Lanes
  <2> HIDE DEF a, size, d, res
  <2>7. ASSUME d # 0, NEW l \in 0 .. size - 1
        PROVE  r'.data[l] = mem[d][Offset(Devices[d], a) + l]
    BY <2>5, <2>6, <2>7 DEF PmemRead
  <2>8. QED
    BY <2>4, <2>5, <2>7 DEF ShowsBeat, a, size, d
<1>7. QED
  BY <1>1, <1>3, <1>4, <1>5, <1>6 DEF ReadServes

LEMMA ReadMoves ==
  ASSUME ReadInv, ~ r_fault, ReadClock
  PROVE  ReadQuiet \/ ReadStarts \/ ReadServes \/ ReadEnds
<1> USE DEF ReadInv
<1>1. CASE ReadIdle
  <2>1. ~ m_out /\ ~ arvalid
    BY <1>1 DEF ReadIdle, SidesAgree
  <2>2. m_out' = FALSE
    BY <2>1 DEF ReadClock, MasterStep, FollowRead, TakesRequest
  <2>3. QED
    BY <2>1, <2>2 DEF ReadQuiet, SidesAgree, TypeOK
<1>2. CASE ReadAccept
  <2>1. /\ arvalid /\ ~ m_out /\ s_arready /\ ~ s_r.valid /\ ~ s_r.last /\ ar \in Requests
        /\ r_served' = 0 /\ s_r' = s_r
    BY <1>2 DEF ReadAccept, AcceptReadReq, OutputsFitState, SidesAgree, TypeOK
  <2>2. arready
    BY <2>1 DEF SidesAgree
  <2>3. m_out' = TRUE /\ m_req' = ar
    BY <2>1, <2>2 DEF ReadClock, MasterStep, FollowRead, TakesRequest
  <2>4. QED
    BY <2>1, <2>3, MasterFacts DEF ReadStarts
<1>3. CASE ReadDelay
  <2>1. /\ m_out /\ ~ s_arready /\ ~ r.valid /\ r = s_r
        /\ UNCHANGED <<r_req, r_served, s_r>>
    BY <1>3 DEF ReadDelay, OutputsFitState, SidesAgree, TypeOK
  <2>2. ~ TakesRequest /\ ~ TakesBeat
    BY <2>1 DEF TakesRequest, TakesBeat, OutputsFitState
  <2>3. m_out' = m_out /\ m_req' = m_req
    BY <2>1, <2>2, Zenon DEF ReadClock, MasterStep, FollowRead, TypeOK
  <2>4. QED
    BY <2>1, <2>3, MasterFacts DEF ReadQuiet
<1>4. CASE ReadFirst
  <2>1. ~ r.valid
    BY <1>4 DEF ReadFirst, OutputsFitState, TypeOK
  <2>2. QED
    BY <1>4, <2>1, ServesBeat DEF ReadFirst
<1>5. CASE ReadMore
  BY <1>5, ServesBeat DEF ReadMore
<1>6. CASE ReadFinish
  <2>1. m_out /\ rready /\ r.last /\ r.valid /\ ~ s_arready
    BY <1>6 DEF ReadFinish, OutputsFitState, SidesAgree, TypeOK
  <2>2. ~ TakesRequest /\ TakesBeat
    BY <2>1 DEF TakesRequest, TakesBeat, OutputsFitState
  <2>3. m_out' = FALSE
    BY <2>1, <2>2, Zenon DEF ReadClock, MasterStep, FollowRead
  <2>4. QED
    BY <2>1, <2>3 DEF ReadEnds
<1>7. QED
  BY <1>1, <1>2, <1>3, <1>4, <1>5, <1>6 DEF ReadClock, ReadEval

-----------------------------------------------------------------------------
(***************************************************************************)
(* What is behind ReadCompletes: how many posedges are left until the      *)
(* slave is idle again, if the master does not refuse the last beat.       *)
(***************************************************************************)
PosedgesLeft ==
  CASE r_status = "r_idel"      -> 0
    [] r_status = "r_req_ok"    -> r_left_time + r_burst_count + 2
    [] r_status = "r_wait_last" -> ((r_burst_count + 1) % 256) + 1

LEMMA PosedgesLeftType ==
  ASSUME TypeOK
  PROVE  PosedgesLeft \in Nat /\ (r_status # "r_idel" => PosedgesLeft > 0)
<1>1. CASE r_status = "r_idel"
  BY <1>1 DEF PosedgesLeft
<1>2. CASE r_status = "r_req_ok"
  BY <1>2 DEF PosedgesLeft, TypeOK
<1>3. CASE r_status = "r_wait_last"
  <2>1. PosedgesLeft = ((r_burst_count + 1) % 256) + 1 /\ r_burst_count \in 0 .. 255
    BY <1>3 DEF PosedgesLeft, TypeOK
  <2>2. (r_burst_count + 1) % 256 \in 0 .. 255
    BY <2>1
  <2>3. QED
    BY <2>1, <2>2
<1>4. QED
  BY <1>1, <1>2, <1>3 DEF TypeOK

(* rlast comes with the beat after the last one that was asked for (or 256, 512
   ... beats later, to a master that refuses it): do_once_read compares the count
   before it decrements it, for every request and not only for those of the
   counterexample to ServedInPage. *)
THEOREM ReadOneBeatTooMany ==
  Spec => [](r.valid /\ r.last => r_served % 256 = (r_req.len + 2) % 256)
<1>1. ASSUME ReadInv, r.valid, r.last
      PROVE  r_served % 256 = (r_req.len + 2) % 256
  <2>1. r = s_r /\ r_served \in Nat /\ r_req \in Requests
    BY <1>1 DEF ReadInv, TypeOK
  <2>2. r_status = "r_wait_last"
    BY <1>1, <2>1 DEF ReadInv, OutputsFitState, TypeOK
  <2>3. (r_served + 255) % 256 = Beats(r_req)
    BY <1>1, <2>1, <2>2 DEF ReadInv, LastFollowsCount, CountFollowsBeats
  <2>4. r_req.len \in 0 .. 255
    BY <2>1, RequestFacts
  <2>5. QED
    BY <2>1, <2>3, <2>4 DEF Beats
<1>2. QED
  BY <1>1, ReadInvariant, PTL

(* In a state of r_wait_last the beat on the pins has rlast exactly when one
   posedge is left. *)
LEMMA BeatsLeft ==
  ASSUME ReadInv, r_status = "r_wait_last"
  PROVE  PosedgesLeft = IF r.last THEN 1 ELSE r_burst_count + 2
<1>1. PosedgesLeft = ((r_burst_count + 1) % 256) + 1 /\ r_burst_count \in 0 .. 255
  BY DEF PosedgesLeft, ReadInv, TypeOK
<1>2. r.last <=> r_burst_count = 255
  BY DEF ReadInv, TypeOK, OutputsFitState, LastFollowsCount
<1>3. CASE r_burst_count = 255
  BY <1>1, <1>2, <1>3
<1>4. CASE r_burst_count # 255
  <2>1. r_burst_count + 1 \in 1 .. 255
    BY <1>1, <1>4
  <2>2. (r_burst_count + 1) % 256 = r_burst_count + 1
    BY <2>1
  <2>3. QED
    BY <1>1, <1>2, <1>4, <2>2
<1>5. QED
  BY <1>3, <1>4

(* What one served beat leaves to be done. *)
LEMMA ServeCountsDown ==
  ASSUME ReadInv, DoOnceRead, r_req' = r_req, r_status' = "r_wait_last"
  PROVE  PosedgesLeft' = r_burst_count + 1
<1>1. /\ r_burst_count \in 0 .. 255
      /\ r_burst_count' = (r_burst_count - 1) % 256
  BY ServeFacts DEF ReadInv, TypeOK
<1>2. PosedgesLeft' = ((r_burst_count' + 1) % 256) + 1
  BY DEF PosedgesLeft
<1>3. CASE r_burst_count = 0
  <2>1. r_burst_count' = 255 <=> r_burst_count = 0
    BY <1>1
  <2>2. r_burst_count' = 255
    BY <1>3, <2>1
  <2>3. (255 + 1) % 256 = 0
    OBVIOUS
  <2>4. QED
    BY <1>2, <1>3, <2>2, <2>3
<1>4. CASE r_burst_count # 0
  <2>1. r_burst_count' = r_burst_count - 1
    BY <1>1, <1>4
  <2>2. (r_burst_count' + 1) % 256 = r_burst_count
    BY <1>1, <1>4, <2>1
  <2>3. QED
    BY <1>2, <2>2
<1>5. QED
  BY <1>3, <1>4, Zenon

(* Every posedge of a transaction brings its end nearer by exactly one; a last
   beat that is refused puts it off by 255. *)
OneLess ==
  IF r.last /\ ~ rready THEN PosedgesLeft' = PosedgesLeft + 255
  ELSE PosedgesLeft' = PosedgesLeft - 1

LEMMA ClockCountsDown ==
  ASSUME ReadInv, ReadClock, r_status # "r_idel"
  PROVE  OneLess
<1>1. /\ r = s_r /\ r_burst_count \in 0 .. 255 /\ r_left_time \in Nat
      /\ r_status = "r_req_ok" => ~ r.last
  BY DEF ReadInv, TypeOK, OutputsFitState
<1>2. CASE ReadDelay
  <2>1. r_status = "r_req_ok" /\ r_status' = r_status
    BY <1>2 DEF ReadDelay
  <2>2. r_left_time' = r_left_time - 1 /\ r_burst_count' = r_burst_count
    BY <1>2 DEF ReadDelay
  <2>3. QED
    BY <1>1, <2>1, <2>2 DEF OneLess, PosedgesLeft
<1>3. CASE ReadFirst
  <2>1. PosedgesLeft' = r_burst_count + 1
    BY <1>3, ServeCountsDown DEF ReadFirst
  <2>2. r_status = "r_req_ok" /\ r_left_time = 0
    BY <1>3 DEF ReadFirst
  <2>3. PosedgesLeft = r_burst_count + 2
    BY <1>1, <2>2 DEF PosedgesLeft
  <2>4. QED
    BY <1>1, <2>1, <2>2, <2>3 DEF OneLess
<1>4. CASE ReadMore
  <2>1. /\ r_status = "r_wait_last" /\ r_status' = "r_wait_last"
        /\ ~ (rready /\ r.last) /\ DoOnceRead /\ r_req' = r_req
    BY <1>4 DEF ReadMore
  <2>2. PosedgesLeft' = r_burst_count + 1
    BY <2>1, ServeCountsDown
  <2>3. PosedgesLeft = IF r.last THEN 1 ELSE r_burst_count + 2
    BY <2>1, BeatsLeft
  <2>4. r.last => r_burst_count = 255
    BY <1>1, <2>1 DEF ReadInv, OutputsFitState, LastFollowsCount
  <2>5. QED
    BY <1>1, <2>1, <2>2, <2>3, <2>4 DEF OneLess
<1>5. CASE ReadFinish
  <2>1. r_status = "r_wait_last" /\ rready /\ r.last /\ r_status' = "r_idel"
    BY <1>5 DEF ReadFinish, BackToIdle
  <2>2. PosedgesLeft = 1 /\ PosedgesLeft' = 0
    BY <2>1, BeatsLeft DEF PosedgesLeft
  <2>3. QED
    BY <2>1, <2>2 DEF OneLess
<1>6. ~ ReadIdle /\ ~ ReadAccept
  BY DEF ReadIdle, ReadAccept
<1>7. QED
  BY <1>2, <1>3, <1>4, <1>5, <1>6 DEF ReadClock, ReadEval

(* A transaction of fewer than 256 beats is over rand_delay + arlen + 3 posedges
   after it was taken, if the master does not refuse its last beat: their number
   is positive until then, and one less after each. *)
THEOREM ReadCountsDown ==
  Spec => /\ [](r_status # "r_idel" => PosedgesLeft \in Nat \ {0})
          /\ [][r_status # "r_idel" => OneLess]_vars
<1>1. ReadInv /\ [Next]_vars => [r_status # "r_idel" => OneLess]_vars
  BY ClockCountsDown DEF Next, ReadPosedge, Stopped
<1>2. ReadInv => (r_status # "r_idel" => PosedgesLeft \in Nat \ {0})
  BY PosedgesLeftType DEF ReadInv
<1>3. QED
  BY <1>1, <1>2, ReadInvariant, PTL DEF Spec
=============================================================================
