--------------------------- MODULE AxiSlaveProofs ---------------------------
(***************************************************************************)
(* The proof that axi_slave.hpp implements the memory bus of MemoryBus:     *)
(* every clock edge of the slave and its masters is, seen through           *)
(* AbstractRead and AbstractWrite, one step of the bus or a stutter.        *)
(*                                                                          *)
(* AxiReadProofs and AxiWriteProofs say what an edge does to each side      *)
(* while the invariants ReadInv and WriteInv hold: nothing the bus can see  *)
(* (ReadQuiet, WriteQuiet), or exactly one of the moves of a transaction    *)
(* (ReadStarts, ReadServes, ReadEnds; WriteStarts, WriteSends,              *)
(* WriteCommits, WriteEnds).  Here the two are put together: an edge keeps  *)
(* both invariants although the write side changes the memory the read      *)
(* side reads, and each move maps to the bus step of the same name.         *)
(***************************************************************************)
EXTENDS AxiSlave, TLAPS

RP == INSTANCE AxiReadProofs
WP == INSTANCE AxiWriteProofs

(* What the two modules assume of the constants. *)
ReadAssumptions ==
  /\ RP!AddrSpaceAssumption /\ RP!DevicesAssumption /\ RP!DisjointAssumption
  /\ RP!BusBytesAssumption /\ RP!PageSizeAssumption
  /\ RP!RequestsAssumption /\ RP!WrapAssumption /\ RP!DelaysAssumption
  /\ RP!LoadedAssumption /\ RP!ZeroAssumption /\ RP!StallAssumption

WriteAssumptions ==
  /\ WP!AddrSpaceAssumption /\ WP!DevicesAssumption /\ WP!DisjointAssumption
  /\ WP!BusBytesAssumption /\ WP!PageSizeAssumption
  /\ WP!WriteRequestsAssumption /\ WP!WriteWrapAssumption /\ WP!WriteTopAssumption
  /\ WP!WriteDataAssumption /\ WP!WriteEnvAssumption

(* The assumptions of AxiSlave are the ones its two sides need. *)
LEMMA ReadAssumed == ReadAssumptions
BY ReadSideAssumption, AddrSpaceAssumption, DevicesAssumption, DisjointAssumption,
   BusBytesAssumption, PageSizeAssumption
   DEF ReadAssumptions,
   R!RequestsAssumption, R!WrapAssumption, R!DelaysAssumption, R!LoadedAssumption,
   R!ZeroAssumption, R!StallAssumption,
   RP!AddrSpaceAssumption, RP!DevicesAssumption, RP!DisjointAssumption,
   RP!BusBytesAssumption, RP!PageSizeAssumption,
   RP!RequestsAssumption, RP!WrapAssumption, RP!DelaysAssumption,
   RP!LoadedAssumption, RP!ZeroAssumption, RP!StallAssumption,
   Word, IsAddrIntv, IntvBytes, IntvEnd,
   RP!Word, RP!IsAddrIntv, RP!IntvBytes, RP!IntvEnd,
   R!Word, R!RequestType, R!BurstTypes, R!Memories, R!CheckAxiReq, R!BeatBytes,
   R!Beats, R!AlignedAddr, R!Aligned, R!StaysInPage, R!WrapTotal,
   RP!RequestType, RP!BurstTypes, RP!Memories, RP!CheckAxiReq, RP!BeatBytes,
   RP!Beats, RP!AlignedAddr, RP!Aligned, RP!StaysInPage, RP!WrapTotal

(* The assumptions of AxiWriteProofs hold of the instance. *)
LEMMA WriteAssumed == WriteAssumptions
BY WriteSideAssumption, AddrSpaceAssumption, DevicesAssumption, DisjointAssumption,
   BusBytesAssumption, PageSizeAssumption
   DEF WriteAssumptions,
   W!WriteRequestsAssumption, W!WriteWrapAssumption, W!WriteTopAssumption,
   W!WriteDataAssumption, W!WriteEnvAssumption,
   WP!AddrSpaceAssumption, WP!DevicesAssumption, WP!DisjointAssumption,
   WP!BusBytesAssumption, WP!PageSizeAssumption,
   WP!WriteRequestsAssumption, WP!WriteWrapAssumption, WP!WriteTopAssumption,
   WP!WriteDataAssumption, WP!WriteEnvAssumption,
   Word, IsAddrIntv, IntvBytes, IntvEnd,
   WP!Word, WP!IsAddrIntv, WP!IntvBytes, WP!IntvEnd,
   W!Word, W!RequestType, W!BurstTypes, W!Memories, W!CheckAxiReq, W!BeatBytes,
   W!Beats, W!AlignedAddr, W!Aligned, W!StaysInPage, W!WrapTotal, W!MaxBeats,
   W!BeatAddr, W!WrapBound, W!Words, W!Strobes, W!Lanes,
   WP!RequestType, WP!BurstTypes, WP!Memories, WP!CheckAxiReq, WP!BeatBytes,
   WP!Beats, WP!AlignedAddr, WP!Aligned, WP!StaysInPage, WP!WrapTotal, WP!MaxBeats,
   WP!BeatAddr, WP!WrapBound, WP!Words, WP!Strobes, WP!Lanes

(* R and W instantiate AxiRead and AxiWrite themselves, RP and WP reach them
   through the modules of their proofs: their definitions are the same. *)
LEMMA SameReadInit == R!Init => RP!Init
BY DEF R!Init, R!Allocated, R!IdleR, R!Lanes,
       RP!Init, RP!Allocated, RP!IdleR, RP!Lanes

(* The same for the write side. *)
LEMMA SameWriteInit == W!Init => WP!Init
BY DEF W!Init, W!Allocated, W!IdleW, W!IdleB, W!Lanes,
       WP!Init, WP!Allocated, WP!IdleW, WP!IdleB, WP!Lanes

(* The same for the posedge of the read side. *)
LEMMA SameReadClock == R!ReadClock => RP!ReadClock
BY ZenonT(120) DEF R!ReadClock, R!ReadEval, R!ReadIdle, R!ReadAccept, R!AcceptReadReq,
   R!ReadDelay, R!ReadFirst, R!ReadMore, R!ReadFinish, R!DoOnceRead, R!Serve,
   R!BackToIdle, R!IdelWaitRead, R!IdleR, R!slaveVars, R!UpdateReadOutput,
   R!MasterStep, R!DriveAR, R!FollowRead, R!DriveRReady, R!TakesRequest, R!TakesBeat,
   R!BusRead, R!PmemRead, R!Lanes, R!Route, R!Containing, R!Contains, R!IntvEnd,
   R!Offset, R!NextAddr, R!WrapBound, R!WrapTotal, R!Beats, R!BeatBytes,
   R!CheckAxiReq, R!Aligned, R!AlignedAddr, R!StaysInPage,
   RP!ReadClock, RP!ReadEval, RP!ReadIdle, RP!ReadAccept, RP!AcceptReadReq,
   RP!ReadDelay, RP!ReadFirst, RP!ReadMore, RP!ReadFinish, RP!DoOnceRead, RP!Serve,
   RP!BackToIdle, RP!IdelWaitRead, RP!IdleR, RP!slaveVars, RP!UpdateReadOutput,
   RP!MasterStep, RP!DriveAR, RP!FollowRead, RP!DriveRReady, RP!TakesRequest, RP!TakesBeat,
   RP!BusRead, RP!PmemRead, RP!Lanes, RP!Route, RP!Containing, RP!Contains, RP!IntvEnd,
   RP!Offset, RP!NextAddr, RP!WrapBound, RP!WrapTotal, RP!Beats, RP!BeatBytes,
   RP!CheckAxiReq, RP!Aligned, RP!AlignedAddr, RP!StaysInPage

(* The same for the posedge of the write side. *)
LEMMA SameWriteClock == W!WriteClock => WP!WriteClock
BY ZenonT(120) DEF W!WriteClock, W!WriteEval, W!WriteIdle, W!WriteAccept, W!AcceptWriteReq,
   W!WriteNoData, W!WriteData, W!AcceptWriteData, W!Store, W!IsLastBeat, W!NextSlotAddr,
   W!WriteDelay, W!WriteCommit, W!DoAllWrite, W!WriteBack, W!WrittenUpTo,
   W!WriteWaitBack, W!WriteFinish, W!IdelWaitWrite, W!IdleB, W!IdleW, W!wslaveVars,
   W!UpdateWriteOutput, W!MasterStep, W!DriveAW, W!FollowWrite, W!DriveW, W!OfferBeat,
   W!AWTaken, W!WTaken, W!BTaken,
   W!BusWrite, W!PmemWrite, W!WrittenLanes, W!Lanes, W!Route, W!Containing, W!Contains,
   W!IntvEnd, W!Offset, W!NextAddr, W!WrapBound, W!WrapTotal, W!Beats, W!BeatBytes,
   W!CheckAxiReq, W!Aligned, W!AlignedAddr, W!StaysInPage,
   WP!WriteClock, WP!WriteEval, WP!WriteIdle, WP!WriteAccept, WP!AcceptWriteReq,
   WP!WriteNoData, WP!WriteData, WP!AcceptWriteData, WP!Store, WP!IsLastBeat, WP!NextSlotAddr,
   WP!WriteDelay, WP!WriteCommit, WP!DoAllWrite, WP!WriteBack, WP!WrittenUpTo,
   WP!WriteWaitBack, WP!WriteFinish, WP!IdelWaitWrite, WP!IdleB, WP!IdleW, WP!wslaveVars,
   WP!UpdateWriteOutput, WP!MasterStep, WP!DriveAW, WP!FollowWrite, WP!DriveW, WP!OfferBeat,
   WP!AWTaken, WP!WTaken, WP!BTaken,
   WP!BusWrite, WP!PmemWrite, WP!WrittenLanes, WP!Lanes, WP!Route, WP!Containing, WP!Contains,
   WP!IntvEnd, WP!Offset, WP!NextAddr, WP!WrapBound, WP!WrapTotal, WP!Beats, WP!BeatBytes,
   WP!CheckAxiReq, WP!Aligned, WP!AlignedAddr, WP!StaysInPage

(* The facts of AxiReadProofs and AxiWriteProofs that are used. *)
LEMMA ReadFacts ==
  /\ RP!Init => RP!ReadInv
  /\ RP!ReadInv /\ [RP!Next]_RP!vars => RP!ReadInv'
  /\ RP!ReadInv /\ ~ r_fault /\ RP!ReadClock /\ mem' \in RP!Memories => RP!ReadInv'
  /\ RP!ReadInv /\ ~ r_fault /\ RP!ReadClock =>
       RP!ReadQuiet \/ RP!ReadStarts \/ RP!ReadServes \/ RP!ReadEnds
BY ReadAssumed, RP!InitReadInv, RP!NextKeepsReadInv, RP!ClockKeepsReadInv, RP!ReadMoves,
   Zenon
   DEF ReadAssumptions,
   RP!AddrSpaceAssumption, RP!DevicesAssumption, RP!DisjointAssumption,
   RP!BusBytesAssumption, RP!PageSizeAssumption,
   RP!RequestsAssumption, RP!WrapAssumption, RP!DelaysAssumption,
   RP!LoadedAssumption, RP!ZeroAssumption, RP!StallAssumption

(* What AxiWriteProofs shows of the write side. *)
LEMMA WriteFacts ==
  /\ WP!Init => WP!WriteInv
  /\ WP!Init => mem \in WP!Memories
  /\ WP!WriteInv /\ [WP!Next]_WP!vars => WP!WriteInv'
  /\ WP!WriteInv /\ mem \in WP!Memories /\ [WP!Next]_WP!vars => mem' \in WP!Memories
  /\ WP!WriteInv /\ ~ w_fault /\ WP!WriteClock => WP!WriteInv'
  /\ WP!WriteInv /\ mem \in WP!Memories /\ ~ w_fault /\ WP!WriteClock =>
       /\ mem' \in WP!Memories
       /\ WP!WriteQuiet \/ WP!WriteStarts \/ WP!WriteSends \/ WP!WriteCommits
            \/ WP!WriteEnds
BY WriteAssumed, WP!InitWriteInv, WP!InitMemories, WP!NextKeepsWriteInv,
   WP!ClockKeepsWriteInv, WP!NextMemories, WP!ClockKeepsMemories, WP!WriteMoves, Zenon
   DEF WriteAssumptions,
   WP!AddrSpaceAssumption, WP!DevicesAssumption, WP!DisjointAssumption,
   WP!BusBytesAssumption, WP!PageSizeAssumption,
   WP!WriteRequestsAssumption, WP!WriteWrapAssumption, WP!WriteTopAssumption,
   WP!WriteDataAssumption, WP!WriteEnvAssumption

(* The invariant the refinement rests on. *)
SlaveInv == RP!ReadInv /\ WP!WriteInv /\ mem \in WP!Memories

(* Both sides start in their invariants. *)
LEMMA InitSlaveInv == Init => SlaveInv
BY SameReadInit, SameWriteInit, ReadFacts, WriteFacts DEF Init, SlaveInv

(* Both sides mean the same memories. *)
LEMMA SameMemories == WP!Memories = RP!Memories
BY DEF WP!Memories, RP!Memories

(* The write side stores only at its commit, and what it stores are memories
   again; ReadInv speaks of the memory only as far as that. *)
LEMMA NextKeepsSlaveInv == SlaveInv /\ [Next]_vars => SlaveInv'
<1> SUFFICES ASSUME SlaveInv, [Next]_vars PROVE SlaveInv'
  OBVIOUS
<1>1. CASE Posedge
  <2>1. ~ r_fault /\ ~ w_fault /\ RP!ReadClock /\ WP!WriteClock
    BY <1>1, SameReadClock, SameWriteClock DEF Posedge, Aborted
  <2>2. WP!WriteInv' /\ mem' \in WP!Memories
    BY <2>1, WriteFacts DEF SlaveInv
  <2>3. RP!ReadInv'
    BY <2>1, <2>2, ReadFacts, SameMemories DEF SlaveInv
  <2>4. QED
    BY <2>2, <2>3, SameMemories DEF SlaveInv, WP!Memories
<1>2. CASE UNCHANGED vars
  <2>1. UNCHANGED RP!vars /\ UNCHANGED WP!vars
    BY <1>2 DEF vars, RP!vars, RP!readVars, RP!slaveVars, RP!masterVars,
                WP!vars, WP!writeVars, WP!wslaveVars, WP!wmasterVars
  <2>2. RP!ReadInv' /\ WP!WriteInv' /\ mem' \in WP!Memories
    BY <2>1, ReadFacts, WriteFacts DEF SlaveInv
  <2>3. QED
    BY <2>2 DEF SlaveInv, WP!Memories
<1>3. QED
  BY <1>1, <1>2 DEF Next, Stopped

(* The operators of the three modules on addresses and devices are the same. *)
LEMMA SameBeat ==
  ASSUME NEW req, NEW i
  PROVE  /\ Bus!BeatAddr(req, i) = RP!BeatAddr(req, i)
         /\ Bus!BeatAddr(req, i) = WP!BeatAddr(req, i)
         /\ Bus!BeatBytes(req) = RP!BeatBytes(req)
         /\ Bus!BeatBytes(req) = WP!BeatBytes(req)
         /\ Bus!BeatBytes(req) = BeatBytes(req)
BY Zenon DEF Bus!BeatAddr, RP!BeatAddr, WP!BeatAddr, Bus!BeatBytes, RP!BeatBytes,
   WP!BeatBytes, BeatBytes, Bus!WrapBound, RP!WrapBound, WP!WrapBound,
   Bus!WrapTotal, RP!WrapTotal, WP!WrapTotal, Bus!Beats, RP!Beats, WP!Beats

(* The bus chooses the device that the two sides choose. *)
LEMMA SameRoute ==
  ASSUME NEW a, NEW n, NEW s, NEW d
  PROVE  /\ Bus!Route(Devices, a, n) = RP!Route(Devices, a, n)
         /\ Bus!Route(Devices, a, n) = WP!Route(Devices, a, n)
         /\ Bus!Offset(d, a) = RP!Offset(d, a)
         /\ Bus!Offset(d, a) = WP!Offset(d, a)
         /\ Bus!WrittenLanes(n, s) = WP!WrittenLanes(n, s)
BY Zenon DEF Bus!Route, RP!Route, WP!Route, Bus!Containing, RP!Containing, WP!Containing,
   Bus!Contains, RP!Contains, WP!Contains, Bus!IntvEnd, RP!IntvEnd, WP!IntvEnd,
   Bus!Offset, RP!Offset, WP!Offset, Bus!WrittenLanes, WP!WrittenLanes

(* A read or a write under way is not Free. *)
LEMMA NotFree ==
  /\ \A q, n, v, l : [req |-> q, n |-> n, beat |-> v, last |-> l] # Bus!Free
  /\ \A q, s, v : [req |-> q, sent |-> s, resp |-> v] # Bus!Free
  /\ Free = Bus!Free
<1>1. ASSUME NEW q, NEW n, NEW v, NEW l
      PROVE  [req |-> q, n |-> n, beat |-> v, last |-> l] # Bus!Free
  <2>1. "n" \in DOMAIN [req |-> q, n |-> n, beat |-> v, last |-> l]
    OBVIOUS
  <2>2. "n" \notin DOMAIN Bus!Free
    BY DEF Bus!Free
  <2>3. QED
    BY <2>1, <2>2
<1>2. ASSUME NEW q, NEW s, NEW v
      PROVE  [req |-> q, sent |-> s, resp |-> v] # Bus!Free
  <2>1. "sent" \in DOMAIN [req |-> q, sent |-> s, resp |-> v]
    OBVIOUS
  <2>2. "sent" \notin DOMAIN Bus!Free
    BY DEF Bus!Free
  <2>3. QED
    BY <2>1, <2>2
<1>3. QED
  BY <1>1, <1>2 DEF Free, Bus!Free

(* A clock edge of the read side is a read step of the bus: the beat it puts
   on the channel is the view of the memory just before the edge. *)
LEMMA ReadStepMaps ==
  ASSUME RP!ReadInv, RP!ReadInv', ~ r_fault, RP!ReadClock
  PROVE  Bus!ReadStep
<1>1. CASE RP!ReadQuiet
  <2>1. AbstractRead' = AbstractRead
    <3>1. CASE m_out
      <4>1. m_out' = m_out /\ UNCHANGED <<m_req, r_req, r_served, r>>
        BY <1>1, <3>1 DEF RP!ReadQuiet
      <4>2. QED
        BY <3>1, <4>1 DEF AbstractRead, ShownBeat, BeatBytes
    <3>2. CASE ~ m_out
      BY <1>1, <3>2 DEF RP!ReadQuiet, AbstractRead, Free
    <3>3. QED
      BY <3>1, <3>2
  <2>2. QED
    BY <2>1 DEF Bus!ReadStep
<1>2. CASE RP!ReadStarts
  <2>1. /\ ~ m_out /\ m_out' = TRUE /\ m_req' \in Requests
        /\ r_served' = 0 /\ ~ r'.valid /\ r'.last = FALSE
    BY <1>2 DEF RP!ReadStarts, RP!ReadInv, RP!TypeOK
  <2>2. AbstractRead = Bus!Free
    BY <2>1, NotFree DEF AbstractRead
  <2>3. ShownBeat' = Bus!NoBeat
    BY <2>1 DEF ShownBeat, Bus!NoBeat
  <2>4. AbstractRead' = [req |-> m_req', n |-> 0, beat |-> Bus!NoBeat, last |-> FALSE]
    BY <2>1, <2>3 DEF AbstractRead
  <2>5. Bus!StartRead
    BY <2>1, <2>2, <2>4 DEF Bus!StartRead
  <2>6. QED
    BY <2>5 DEF Bus!ReadStep
<1>3. CASE RP!ReadServes
  <2>1. /\ m_out /\ m_out' = TRUE /\ m_req' = m_req /\ r_req' = m_req
        /\ r_served' = r_served + 1 /\ r'.valid /\ r'.last \in BOOLEAN
        /\ r'.last => r_served >= m_req.len \/ m_req.len = 255
        /\ RP!ShowsBeat
    BY <1>3 DEF RP!ReadServes
  <2> DEFINE a == Bus!BeatAddr(m_req, r_served)
             n == Bus!BeatBytes(m_req)
             d == Bus!Route(Devices, a, n)
  <2>2. /\ d = 0 => r'.resp = "DECERR"
        /\ d # 0 => /\ r'.resp = "OKEY"
                    /\ \A l \in 0 .. n - 1 :
                         r'.data[l] = mem[d][Bus!Offset(Devices[d], a) + l]
    <3>1. /\ a = RP!BeatAddr(m_req, r_served) /\ n = RP!BeatBytes(m_req)
      BY SameBeat
    <3>2. d = RP!Route(Devices, RP!BeatAddr(m_req, r_served), RP!BeatBytes(m_req))
      BY <3>1, SameRoute
    <3>3. Bus!Offset(Devices[d], a) = RP!Offset(Devices[d], a)
      BY SameRoute
    <3> HIDE DEF a, n, d
    <3>4. QED
      BY <2>1, <3>1, <3>2, <3>3 DEF RP!ShowsBeat
  <2>3. BeatBytes(m_req) = n
    BY SameBeat
  <2>4. ShownBeat' = Bus!View(m_req, r_served)
    <3>1. ShownBeat' = [resp |-> r'.resp,
                        data |-> IF r'.resp = "DECERR" THEN <<>>
                                 ELSE [l \in 0 .. n - 1 |-> r'.data[l]]]
      <4>1. BeatBytes(r_req)' = n
        BY <2>1, <2>3 DEF BeatBytes
      <4> HIDE DEF n
      <4>2. QED
        BY <2>1, <4>1, Zenon DEF ShownBeat
    <3>2. Bus!View(m_req, r_served) =
            IF d = 0 THEN [resp |-> "DECERR", data |-> <<>>]
            ELSE [resp |-> "OKEY",
                  data |-> [l \in 0 .. n - 1 |-> mem[d][Bus!Offset(Devices[d], a) + l]]]
      BY Zenon DEF Bus!View
    <3> HIDE DEF a, n, d
    <3>3. CASE d = 0
      BY <2>2, <3>1, <3>2, <3>3
    <3>4. CASE d # 0
      <4>1. [l \in 0 .. n - 1 |-> r'.data[l]]
              = [l \in 0 .. n - 1 |-> mem[d][Bus!Offset(Devices[d], a) + l]]
        BY <2>2, <3>4
      <4>2. r'.resp = "OKEY"
        BY <2>2, <3>4
      <4>3. QED
        BY <3>1, <3>2, <3>4, <4>1, <4>2
    <3>5. QED
      BY <3>3, <3>4
  <2>5. /\ AbstractRead = [req |-> m_req, n |-> r_served, beat |-> ShownBeat,
                           last |-> r.last]
        /\ AbstractRead' = [req |-> m_req, n |-> r_served + 1,
                            beat |-> Bus!View(m_req, r_served), last |-> r'.last]
    BY <2>1, <2>4 DEF AbstractRead
  <2>6. AbstractRead # Bus!Free
    BY <2>5, NotFree
  <2>7. Bus!ServeBeat
    <3>1. /\ AbstractRead.req = m_req /\ AbstractRead.n = r_served
          /\ AbstractRead' = [AbstractRead EXCEPT !.n = @ + 1,
                                !.beat = Bus!View(m_req, r_served), !.last = r'.last]
      <4> DEFINE Fields == {"req", "n", "beat", "last"}
                 view == Bus!View(m_req, r_served)
                 next == [AbstractRead EXCEPT !.n = r_served + 1, !.beat = view,
                                              !.last = r'.last]
      <4> HIDE DEF view
      <4>1. /\ next = [i \in Fields |-> next[i]]
            /\ next.req = m_req /\ next.n = r_served + 1 /\ next.beat = view
            /\ next.last = r'.last
        BY <2>5
      <4>2. /\ AbstractRead' = [i \in Fields |-> AbstractRead'[i]]
            /\ AbstractRead'.req = m_req /\ AbstractRead'.n = r_served + 1
            /\ AbstractRead'.beat = view /\ AbstractRead'.last = r'.last
        BY <2>5 DEF view
      <4>3. AbstractRead' = next
        <5> HIDE DEF next
        <5>1. QED
          BY <4>1, <4>2
      <4>4. AbstractRead.req = m_req /\ AbstractRead.n = r_served
        BY <2>5
      <4>5. QED
        BY <4>3, <4>4, Zenon DEF view
    <3>2. QED
      BY <2>1, <2>6, <3>1, Zenon DEF Bus!ServeBeat
  <2>8. QED
    BY <2>7 DEF Bus!ReadStep
<1>4. CASE RP!ReadEnds
  <2>1. m_out /\ r.last /\ m_out' = FALSE
    BY <1>4 DEF RP!ReadEnds
  <2>2. AbstractRead # Bus!Free /\ AbstractRead.last = r.last
    BY <2>1, NotFree DEF AbstractRead
  <2>3. AbstractRead' = Bus!Free
    BY <2>1, NotFree DEF AbstractRead, Free
  <2>4. QED
    BY <2>1, <2>2, <2>3 DEF Bus!EndRead, Bus!ReadStep
<1>5. QED
  BY <1>1, <1>2, <1>3, <1>4, ReadFacts

(* A set of beats has a last one. *)
LEMMA LastBeat ==
  ASSUME NEW n \in Nat, NEW S, S \subseteq 1 .. n, S # {}
  PROVE  \E i \in S : \A j \in S : j <= i
<1> DEFINE T == { n - i : i \in S }
<1>1. T \subseteq Nat /\ T # {}
  <2>1. \A i \in S : n - i \in Nat /\ n - i \in T
    OBVIOUS
  <2>2. QED
    BY <2>1
<1>2. PICK t \in T : \A u \in T : t <= u
  <2>1. \A U : U \subseteq Nat /\ U # {} => \E x \in U : \A y \in U : x <= y
    BY ReadAssumed, RP!LeastNat, Zenon
       DEF ReadAssumptions,
       RP!AddrSpaceAssumption, RP!DevicesAssumption, RP!DisjointAssumption,
       RP!BusBytesAssumption, RP!PageSizeAssumption,
       RP!RequestsAssumption, RP!WrapAssumption, RP!DelaysAssumption,
       RP!LoadedAssumption, RP!ZeroAssumption, RP!StallAssumption
  <2> HIDE DEF T
  <2>2. QED
    BY <1>1, <2>1
<1>3. PICK i \in S : t = n - i
  BY <1>2
<1>4. ASSUME NEW j \in S PROVE j <= i
  <2>1. n - j \in T
    OBVIOUS
  <2>2. t <= n - j
    BY <1>2, <2>1
  <2>3. i \in 1 .. n /\ j \in 1 .. n
    OBVIOUS
  <2>4. QED
    BY <1>3, <2>2, <2>3
<1>5. QED
  BY <1>4

(* The memories after do_all_write are the ones the abstract commit asks for. *)
LEMMA CommitMaps ==
  ASSUME WP!WriteInv, WP!WriteCommits
  PROVE  mem' = Bus!Committed(m_wreq, m_sent) /\ b'.resp = Bus!Response(m_wreq, m_sent)
<1>1. /\ Len(m_sent) = m_wreq.len + 1
      /\ b'.resp = IF \A i \in DOMAIN m_sent : WP!BeatDevice(i) # 0
                   THEN "OKEY" ELSE "DECERR"
      /\ mem' \in WP!Memories
  BY DEF WP!WriteCommits
<1>2. PICK n \in Nat : DOMAIN m_sent = 1 .. n
  <2>1. m_sent \in Seq(WBeats)
    BY DEF WP!WriteInv, WP!TypeOK
  <2>2. QED
    BY <2>1
<1>3. ASSUME NEW i
      PROVE  Bus!Target(m_wreq, i) =
               [dev |-> WP!BeatDevice(i),
                off |-> IF WP!BeatDevice(i) = 0 THEN 0
                        ELSE WP!Offset(Devices[WP!BeatDevice(i)],
                                       WP!BeatAddr(m_wreq, i - 1))]
  <2> DEFINE a == Bus!BeatAddr(m_wreq, i - 1)
             k == Bus!Route(Devices, a, Bus!BeatBytes(m_wreq))
  <2>1. a = WP!BeatAddr(m_wreq, i - 1) /\ Bus!BeatBytes(m_wreq) = WP!BeatBytes(m_wreq)
    BY SameBeat
  <2>2. k = WP!BeatDevice(i)
    BY <2>1, SameRoute DEF WP!BeatDevice
  <2>3. Bus!Offset(Devices[k], a) = WP!Offset(Devices[k], a)
    BY SameRoute
  <2>4. Bus!Target(m_wreq, i) =
          [dev |-> k, off |-> IF k = 0 THEN 0 ELSE Bus!Offset(Devices[k], a)]
    BY Zenon DEF Bus!Target
  <2> HIDE DEF a, k
  <2>5. QED
    BY <2>1, <2>2, <2>3, <2>4, Zenon
<1>4. b'.resp = Bus!Response(m_wreq, m_sent)
  BY <1>1, <1>3 DEF Bus!Response
<1>5. 0 \notin DOMAIN Devices
  BY DevicesAssumption
<1>6. ASSUME NEW d \in DOMAIN Devices, NEW o \in 0 .. Devices[d].mask
      PROVE  mem'[d][o] =
               LET cover == Bus!Covering(m_wreq, m_sent, d, o)
               IN  IF cover = {} THEN mem[d][o]
                   ELSE LET i == CHOOSE i \in cover : \A j \in cover : j <= i
                        IN  m_sent[i].data[o - Bus!Target(m_wreq, i).off]
  <2> DEFINE cover == Bus!Covering(m_wreq, m_sent, d, o)
             last == CHOOSE i \in cover : \A j \in cover : j <= i
  <2>1. d # 0
    BY <1>5
  <2>2. \A i : i \in cover <=> i \in DOMAIN m_sent /\ WP!Strikes(i, d, o)
    <3> TAKE i
    <3>1. i \in cover <=>
            /\ i \in DOMAIN m_sent
            /\ Bus!Target(m_wreq, i).dev = d
            /\ o - Bus!Target(m_wreq, i).off
                 \in Bus!WrittenLanes(Bus!BeatBytes(m_wreq), m_sent[i].strb)
      BY DEF Bus!Covering
    <3>2. Bus!WrittenLanes(Bus!BeatBytes(m_wreq), m_sent[i].strb) = WP!BeatLanes(i)
      <4>1. Bus!BeatBytes(m_wreq) = WP!BeatBytes(m_wreq)
        BY SameBeat
      <4>2. QED
        BY <4>1, SameRoute DEF WP!BeatLanes
    <3>3. Bus!Target(m_wreq, i).dev = WP!BeatDevice(i)
      BY <1>3
    <3>4. WP!BeatDevice(i) = d =>
            Bus!Target(m_wreq, i).off = WP!Offset(Devices[d], WP!BeatAddr(m_wreq, i - 1))
      BY <1>3, <2>1
    <3> HIDE DEF cover
    <3>5. QED
      BY <3>1, <3>2, <3>3, <3>4 DEF WP!Strikes
  <2>3. /\ (\A i \in DOMAIN m_sent : ~ WP!Strikes(i, d, o)) => mem'[d][o] = mem[d][o]
        /\ \A i \in DOMAIN m_sent :
             WP!Strikes(i, d, o) /\ (\A j \in DOMAIN m_sent : WP!Strikes(j, d, o) => j <= i)
               => mem'[d][o] = m_sent[i].data
                                 [o - WP!Offset(Devices[d], WP!BeatAddr(m_wreq, i - 1))]
    BY Zenon DEF WP!WriteCommits
  <2> HIDE DEF cover
  <2>4. CASE cover = {}
    BY <2>2, <2>3, <2>4 DEF cover
  <2>5. CASE cover # {}
    <3>1. cover \subseteq 1 .. n
      BY <1>2, <2>2
    <3>2. last \in cover /\ \A j \in cover : j <= last
      BY <2>5, <3>1, <1>2, LastBeat
    <3> HIDE DEF last
    <3>3. mem'[d][o] = m_sent[last].data
                         [o - WP!Offset(Devices[d], WP!BeatAddr(m_wreq, last - 1))]
      BY <2>2, <2>3, <3>2
    <3>4. Bus!Target(m_wreq, last).off
            = WP!Offset(Devices[d], WP!BeatAddr(m_wreq, last - 1))
      <4>1. WP!BeatDevice(last) = d
        BY <2>2, <3>2 DEF WP!Strikes
      <4>2. QED
        BY <1>3, <2>1, <4>1
    <3>5. mem'[d][o] = m_sent[last].data[o - Bus!Target(m_wreq, last).off]
      BY <3>3, <3>4
    <3>6. QED
      BY <2>5, <3>5, Zenon DEF last, cover
  <2>6. QED
    BY <2>4, <2>5
<1>7. mem' = Bus!Committed(m_wreq, m_sent)
  <2>1. /\ mem' = [d \in DOMAIN Devices |-> mem'[d]]
        /\ \A d \in DOMAIN Devices :
             mem'[d] = [o \in 0 .. Devices[d].mask |-> mem'[d][o]]
    BY <1>1 DEF WP!Memories
  <2>2. Bus!Committed(m_wreq, m_sent) =
          [d \in DOMAIN Devices |->
             [o \in 0 .. Devices[d].mask |->
                LET cover == Bus!Covering(m_wreq, m_sent, d, o)
                IN  IF cover = {} THEN mem[d][o]
                    ELSE LET i == CHOOSE i \in cover : \A j \in cover : j <= i
                         IN  m_sent[i].data[o - Bus!Target(m_wreq, i).off]]]
    BY Zenon DEF Bus!Committed
  <2> DEFINE new(d, o) ==
               LET cover == Bus!Covering(m_wreq, m_sent, d, o)
               IN  IF cover = {} THEN mem[d][o]
                   ELSE LET i == CHOOSE i \in cover : \A j \in cover : j <= i
                        IN  m_sent[i].data[o - Bus!Target(m_wreq, i).off]
  <2>3. \A d \in DOMAIN Devices : \A o \in 0 .. Devices[d].mask : mem'[d][o] = new(d, o)
    BY <1>6, Zenon
  <2>4. Bus!Committed(m_wreq, m_sent)
          = [d \in DOMAIN Devices |-> [o \in 0 .. Devices[d].mask |-> new(d, o)]]
    BY <2>2, Zenon
  <2> HIDE DEF new
  <2>5. \A d \in DOMAIN Devices : mem'[d] = [o \in 0 .. Devices[d].mask |-> new(d, o)]
    BY <2>1, <2>3
  <2>6. QED
    BY <2>1, <2>4, <2>5
<1>8. QED
  BY <1>4, <1>7

(* A clock edge of the write side is a write step of the bus, and the memory
   changes in none but the commit. *)
LEMMA WriteStepMaps ==
  ASSUME WP!WriteInv, WP!WriteInv', mem \in WP!Memories, ~ w_fault, WP!WriteClock
  PROVE  Bus!WriteStep
<1>1. CASE WP!WriteQuiet
  <2>1. mem' = mem /\ m_wout' = m_wout
    BY <1>1 DEF WP!WriteQuiet
  <2>2. AbstractWrite' = AbstractWrite
    <3>1. CASE m_wout
      <4>1. UNCHANGED <<m_wreq, m_sent>> /\ b'.valid = b.valid /\ b'.resp = b.resp
        BY <1>1, <3>1 DEF WP!WriteQuiet
      <4>2. QED
        BY <2>1, <3>1, <4>1 DEF AbstractWrite
    <3>2. CASE ~ m_wout
      BY <2>1, <3>2 DEF AbstractWrite, Free
    <3>3. QED
      BY <3>1, <3>2
  <2>3. QED
    BY <2>1, <2>2 DEF Bus!WriteStep
<1>2. CASE WP!WriteStarts
  <2>1. /\ mem' = mem /\ ~ m_wout /\ m_wout' = TRUE /\ m_wreq' \in WriteRequests
        /\ m_sent' = <<>> /\ ~ b'.valid
    BY <1>2 DEF WP!WriteStarts
  <2>2. AbstractWrite = Bus!Free
    BY <2>1, NotFree DEF AbstractWrite
  <2>3. AbstractWrite' = [req |-> m_wreq', sent |-> <<>>, resp |-> "none"]
    BY <2>1 DEF AbstractWrite
  <2>4. QED
    BY <2>1, <2>2, <2>3 DEF Bus!StartWrite, Bus!WriteStep
<1>3. CASE WP!WriteSends
  <2>1. /\ mem' = mem /\ m_wout /\ m_wout' = TRUE /\ m_wreq' = m_wreq
        /\ Len(m_sent) <= m_wreq.len /\ ~ b.valid /\ ~ b'.valid
    BY <1>3 DEF WP!WriteSends
  <2>2. PICK beat \in WBeats : m_sent' = Append(m_sent, beat)
    BY <1>3 DEF WP!WriteSends
  <2>3. AbstractWrite = [req |-> m_wreq, sent |-> m_sent, resp |-> "none"]
    BY <2>1 DEF AbstractWrite
  <2>4. AbstractWrite' = [req |-> m_wreq, sent |-> Append(m_sent, beat), resp |-> "none"]
    BY <2>1, <2>2 DEF AbstractWrite
  <2>5. AbstractWrite # Bus!Free
    BY <2>3, NotFree
  <2>6. AbstractWrite' = [AbstractWrite EXCEPT !.sent = Append(@, beat)]
    <3> DEFINE longer == Append(m_sent, beat)
               now == [req |-> m_wreq, sent |-> m_sent, resp |-> "none"]
    <3>1. now.sent = m_sent
      OBVIOUS
    <3>2. [now EXCEPT !.sent = longer]
            = [req |-> m_wreq, sent |-> longer, resp |-> "none"]
      <4> HIDE DEF longer
      <4>1. QED
        OBVIOUS
    <3>3. AbstractWrite = now
      BY <2>3
    <3> HIDE DEF now
    <3>4. QED
      BY <2>4, <3>1, <3>2, <3>3, Zenon
  <2>7. AbstractWrite.sent = m_sent /\ AbstractWrite.req = m_wreq
    BY <2>3
  <2>8. Bus!SendBeat
    BY <2>1, <2>5, <2>6, <2>7, Zenon DEF Bus!SendBeat
  <2>9. QED
    BY <2>8 DEF Bus!WriteStep
<1>4. CASE WP!WriteCommits
  <2>1. /\ m_wout /\ m_wout' = TRUE /\ m_wreq' = m_wreq /\ m_sent' = m_sent
        /\ Len(m_sent) = m_wreq.len + 1 /\ ~ b.valid /\ b'.valid
    BY <1>4 DEF WP!WriteCommits
  <2>2. /\ mem' = Bus!Committed(m_wreq, m_sent)
        /\ b'.resp = Bus!Response(m_wreq, m_sent)
    BY <1>4, CommitMaps
  <2>3. AbstractWrite = [req |-> m_wreq, sent |-> m_sent, resp |-> "none"]
    BY <2>1 DEF AbstractWrite
  <2>4. AbstractWrite'
          = [req |-> m_wreq, sent |-> m_sent, resp |-> Bus!Response(m_wreq, m_sent)]
    BY <2>1, <2>2 DEF AbstractWrite
  <2>5. AbstractWrite # Bus!Free
    BY <2>3, NotFree
  <2>6. AbstractWrite' = [AbstractWrite EXCEPT !.resp = Bus!Response(m_wreq, m_sent)]
    BY <2>3, <2>4
  <2>7. /\ AbstractWrite.sent = m_sent /\ AbstractWrite.req = m_wreq
        /\ AbstractWrite.resp = "none"
    BY <2>3
  <2>8. Bus!Commit
    BY <2>1, <2>2, <2>5, <2>6, <2>7, Zenon DEF Bus!Commit
  <2>9. QED
    BY <2>8 DEF Bus!WriteStep
<1>5. CASE WP!WriteEnds
  <2>1. mem' = mem /\ m_wout /\ b.valid /\ m_wout' = FALSE
    BY <1>5 DEF WP!WriteEnds
  <2>2. b.resp # "none"
    BY DEF WP!WriteInv, WP!TypeOK
  <2>3. AbstractWrite = [req |-> m_wreq, sent |-> m_sent, resp |-> b.resp]
    BY <2>1 DEF AbstractWrite
  <2>4. AbstractWrite # Bus!Free /\ AbstractWrite.resp = b.resp
    BY <2>3, NotFree
  <2>5. AbstractWrite' = Bus!Free
    BY <2>1, NotFree DEF AbstractWrite, Free
  <2>6. QED
    BY <2>1, <2>2, <2>4, <2>5 DEF Bus!EndWrite, Bus!WriteStep
<1>6. QED
  BY <1>1, <1>2, <1>3, <1>4, <1>5, WriteFacts

(* The invariants of both sides hold together while both run on one memory,
   where the write side may change what the read side is about to read. *)
THEOREM SlaveInvariant == Spec => []SlaveInv
<1>1. QED
  BY InitSlaveInv, NextKeepsSlaveInv, PTL DEF Spec

(* At the start no transaction is under way. *)
LEMMA InitMaps == Init => Bus!Init
<1> SUFFICES ASSUME Init PROVE Bus!Init
  OBVIOUS
<1>1. mem \in LoadedMemories /\ m_out = FALSE /\ m_wout = FALSE
  BY DEF Init, R!Init, R!Allocated, W!Init, W!Allocated
<1>2. AbstractRead = Bus!Free /\ AbstractWrite = Bus!Free
  BY <1>1, NotFree DEF AbstractRead, AbstractWrite
<1>3. QED
  BY <1>1, <1>2 DEF Bus!Init

(* A clock edge is a step of the bus on both sides, or a stutter. *)
LEMMA StepMaps == SlaveInv /\ [Next]_vars => [Bus!Next]_(Bus!busVars)
<1> SUFFICES ASSUME SlaveInv, [Next]_vars PROVE [Bus!Next]_(Bus!busVars)
  OBVIOUS
<1>1. CASE Posedge
  <2>1. ~ r_fault /\ ~ w_fault /\ RP!ReadClock /\ WP!WriteClock
    BY <1>1, SameReadClock, SameWriteClock DEF Posedge, Aborted
  <2>2. RP!ReadInv /\ WP!WriteInv /\ mem \in WP!Memories
    BY DEF SlaveInv
  <2>3. RP!ReadInv' /\ WP!WriteInv'
    BY NextKeepsSlaveInv DEF SlaveInv
  <2>4. Bus!ReadStep /\ Bus!WriteStep
    BY <2>1, <2>2, <2>3, ReadStepMaps, WriteStepMaps
  <2>5. QED
    BY <2>4 DEF Bus!Next
<1>2. CASE UNCHANGED vars
  BY <1>2 DEF vars, Bus!busVars, AbstractRead, AbstractWrite, ShownBeat, BeatBytes, Free
<1>3. QED
  BY <1>1, <1>2 DEF Next, Stopped

(* Read and write bursts that are served at the same time by axi_slave behave
   like transactions of a memory bus, for every address map, every set of
   legal requests and every delay: a beat shows the memory at one moment of
   the burst, the beats come in the order of the request, a write takes
   effect at once for all its beats and before its response, and nothing else
   changes the memory. *)
THEOREM SlaveImplementsBus == Spec => ImplementsBus
BY InitMaps, StepMaps, InitSlaveInv, NextKeepsSlaveInv, PTL
   DEF Spec, ImplementsBus, Bus!Spec

(* The properties of each side hold while both run: the invariants of the two
   share only the memories. *)
THEOREM SlaveKeepsSides ==
  Spec => [](/\ R!SidesAgree /\ R!AddressesFollowBurst
             /\ W!WriteSidesAgree /\ W!BufferFollowsBurst /\ W!SlotsInBounds)
<1>1. RP!ReadInv => R!SidesAgree /\ R!AddressesFollowBurst
  BY DEF RP!ReadInv, RP!SidesAgree, R!SidesAgree, RP!AddressesFollowBurst,
         R!AddressesFollowBurst, RP!BeatAddr, R!BeatAddr, RP!BeatBytes, R!BeatBytes,
         RP!WrapBound, R!WrapBound, RP!WrapTotal, R!WrapTotal, RP!Beats, R!Beats
<1>2. WP!WriteInv => W!WriteSidesAgree /\ W!BufferFollowsBurst /\ W!SlotsInBounds
  BY DEF WP!WriteInv, WP!WriteSidesAgree, W!WriteSidesAgree, WP!BufferFollowsBurst,
         W!BufferFollowsBurst, WP!SlotsInBounds, W!SlotsInBounds,
         WP!BeatAddr, W!BeatAddr, WP!BeatBytes, W!BeatBytes,
         WP!WrapBound, W!WrapBound, WP!WrapTotal, W!WrapTotal, WP!Beats, W!Beats
<1>3. QED
  BY <1>1, <1>2, SlaveInvariant, PTL DEF SlaveInv

(* Both answers are one posedge nearer. *)
AnswersNearer ==
  /\ r_status # "r_idel" => RP!OneLess
  /\ WP!BurstSent /\ ~ b.valid => WP!OneLess

LEMMA PosedgeCountsDown ==
  ASSUME SlaveInv, Posedge
  PROVE  AnswersNearer
<1>1. RP!ReadInv /\ WP!WriteInv /\ RP!ReadClock /\ WP!WriteClock /\ ~ w_fault
  BY SameReadClock, SameWriteClock DEF Posedge, Aborted, SlaveInv
<1>2. r_status # "r_idel" => RP!OneLess
  BY <1>1, ReadAssumed, RP!ClockCountsDown, Zenon
     DEF ReadAssumptions, RP!AddrSpaceAssumption, RP!DevicesAssumption,
         RP!DisjointAssumption, RP!BusBytesAssumption, RP!PageSizeAssumption,
         RP!RequestsAssumption, RP!WrapAssumption, RP!DelaysAssumption,
         RP!LoadedAssumption, RP!ZeroAssumption, RP!StallAssumption
<1>3. WP!BurstSent /\ ~ b.valid => WP!OneLess
  BY <1>1, WriteAssumed, WP!ClockCountsDown, Zenon
     DEF WriteAssumptions, WP!AddrSpaceAssumption, WP!DevicesAssumption,
         WP!DisjointAssumption, WP!BusBytesAssumption, WP!PageSizeAssumption,
         WP!WriteRequestsAssumption, WP!WriteWrapAssumption,
         WP!WriteTopAssumption, WP!WriteDataAssumption, WP!WriteEnvAssumption
<1>4. QED
  BY <1>2, <1>3 DEF AnswersNearer

(* A read that the master waits for is some posedges from its end. *)
LEMMA AnswerIsNear ==
  ASSUME SlaveInv, m_out
  PROVE  r_status # "r_idel" /\ RP!PosedgesLeft \in Nat \ {0}
<1>1. RP!TypeOK /\ r_status # "r_idel"
  BY DEF SlaveInv, RP!ReadInv, RP!SidesAgree
<1>2. RP!PosedgesLeft \in Nat /\ (r_status # "r_idel" => RP!PosedgesLeft > 0)
  BY <1>1, ReadAssumed, RP!PosedgesLeftType, Zenon
     DEF ReadAssumptions, RP!AddrSpaceAssumption, RP!DevicesAssumption,
         RP!DisjointAssumption, RP!BusBytesAssumption, RP!PageSizeAssumption,
         RP!RequestsAssumption, RP!WrapAssumption, RP!DelaysAssumption,
         RP!LoadedAssumption, RP!ZeroAssumption, RP!StallAssumption
<1>3. QED
  BY <1>1, <1>2

(* Neither side delays the other: while no assertion has stopped them, each
   posedge brings both answers one nearer, whatever the other side is doing. *)
THEOREM SlaveCountsDown == Spec => [][AnswersNearer]_vars
<1>1. SlaveInv /\ [Next]_vars => [AnswersNearer]_vars
  BY PosedgeCountsDown DEF Next, Stopped
<1>2. QED
  BY <1>1, SlaveInvariant, PTL DEF Spec
=============================================================================
