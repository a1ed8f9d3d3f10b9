--------------------------- MODULE AxiBurstProofs ---------------------------
(***************************************************************************)
(* The address of a beat, for every request: the increments of axi_paddr   *)
(* compute the closed form of the AXI rules.                               *)
(***************************************************************************)
EXTENDS AxiBurst, WellFoundedInduction, TLAPS

(* The remainder is the only number below n that differs from x by a multiple
   of n. *)
LEMMA ModUnique ==
  ASSUME NEW x \in Int, NEW n \in Nat, n > 0,
         NEW k \in Int, NEW d \in 0 .. n - 1, x = n * k + d
  PROVE  x % n = d
<1> DEFINE j == x \div n
           m == x % n
<1>1. j \in Int /\ m \in 0 .. n - 1 /\ x = n * j + m
  OBVIOUS
<1> HIDE DEF j, m
<1>2. j >= k + 1 => n * j >= n * k + n
  BY <1>1
<1>3. j <= k - 1 => n * j <= n * k - n
  BY <1>1
<1>4. QED
  BY <1>1, <1>2, <1>3 DEF m

(* A step taken after a sum was cut down to its remainder ends where it would
   have ended without the cut. *)
LEMMA ModAdd ==
  ASSUME NEW x \in Int, NEW y \in Int, NEW n \in Nat, n > 0
  PROVE  ((x % n) + y) % n = (x + y) % n
<1> DEFINE j == x \div n
           m == x % n
           i == (m + y) \div n
           d == (m + y) % n
<1>1. j \in Int /\ m \in Int /\ x = n * j + m
  OBVIOUS
<1> HIDE DEF j, m
<1>2. i \in Int /\ d \in 0 .. n - 1 /\ m + y = n * i + d
  BY <1>1
<1> HIDE DEF i, d
<1>3. x + y = n * (j + i) + d /\ j + i \in Int
  BY <1>1, <1>2
<1>4. x + y \in Int
  OBVIOUS
<1>5. (x + y) % n = d
  BY <1>2, <1>3, <1>4, ModUnique
<1>6. QED
  BY <1>5 DEF d, m

(* Adding a multiple of n changes no remainder. *)
LEMMA ModMultiple ==
  ASSUME NEW x \in Int, NEW b \in Int, NEW n \in Nat, n > 0, b % n = 0
  PROVE  (b + x) % n = x % n
<1>1. ((b % n) + x) % n = (b + x) % n
  BY ModAdd
<1>2. QED
  BY <1>1

(* Cutting x down to a multiple of n leaves a multiple of n. *)
LEMMA ModFloor ==
  ASSUME NEW x \in Int, NEW n \in Nat, n > 0
  PROVE  (x - (x % n)) % n = 0
<1> DEFINE m == x % n
<1>1. m \in 0 .. n - 1 /\ - m \in Int /\ x - m = x + (- m) /\ m + (- m) = 0 /\ 0 % n = 0
  OBVIOUS
<1>2. (m + (- m)) % n = (x + (- m)) % n
  <2>1. \A y \in Int : (m + y) % n = (x + y) % n
    BY ModAdd
  <2> HIDE DEF m
  <2>2. QED
    BY <1>1, <2>1
<1> HIDE DEF m
<1>3. QED
  BY <1>1, <1>2 DEF m

(* For an address inside an aligned interval,  addr & mask  is the distance
   from its start. *)
LEMMA OffsetIsDistance ==
  ASSUME NEW s \in Nat, NEW m \in Nat, s % (m + 1) = 0, NEW a \in s .. s + m
  PROVE  a % (m + 1) = a - s
<1> DEFINE n == m + 1
           k == s \div n
<1>1. n \in Nat /\ n > 0 /\ k \in Int /\ s = n * k /\ a \in Int /\ a - s \in 0 .. n - 1
  OBVIOUS
<1> HIDE DEF n, k
<1>2. a = n * k + (a - s)
  BY <1>1
<1>3. QED
  BY <1>1, <1>2, ModUnique DEF n

LEMMA BeatBytesType ==
  ASSUME NEW req \in RequestType
  PROVE  BeatBytes(req) \in Nat /\ BeatBytes(req) >= 1
<1>1. req.size \in 0 .. 7
  BY DEF RequestType
<1>2. QED
  BY <1>1 DEF BeatBytes

LEMMA BeatsType ==
  ASSUME NEW req \in RequestType
  PROVE  Beats(req) \in 0 .. 255
<1>1. req.len \in 0 .. 255
  BY DEF RequestType
<1>2. QED
  BY <1>1 DEF Beats

LEMMA AddrType ==
  ASSUME NEW req \in RequestType
  PROVE  req.addr \in Nat /\ req.addr < AddrSpace
BY AddrSpaceAssumption DEF RequestType, Word

(* A wrapping burst that passes check_axi_req has a container to wrap in. *)
LEMMA WrapTotalType ==
  ASSUME NEW req \in RequestType, CheckAxiReq(req), req.burst = "WRAP"
  PROVE  WrapTotal(req) \in Nat /\ WrapTotal(req) > 0
<1>1. Beats(req) \in {2, 4, 8, 16}
  BY DEF CheckAxiReq
<1>2. QED
  BY <1>1, BeatBytesType DEF WrapTotal

(* The container of a wrapping burst starts at a multiple of its length. *)
LEMMA WrapBoundFacts ==
  ASSUME NEW req \in RequestType, CheckAxiReq(req), req.burst = "WRAP"
  PROVE  /\ WrapBound(req) \in Nat
         /\ WrapBound(req) % WrapTotal(req) = 0
         /\ WrapBound(req) + (req.addr % WrapTotal(req)) = req.addr
<1> DEFINE T == WrapTotal(req)
           x == req.addr
<1>1. T \in Nat /\ T > 0 /\ x \in Nat
  BY WrapTotalType, AddrType
<1> HIDE DEF T, x
<1>2. x % T \in 0 .. T - 1 /\ x % T <= x
  BY <1>1
<1>3. (x - (x % T)) % T = 0
  BY <1>1, ModFloor
<1>4. QED
  BY <1>1, <1>2, <1>3 DEF WrapBound, T, x

(* The first beat is at the address of the request. *)
LEMMA FirstBeatAddr ==
  ASSUME NEW req \in RequestType, CheckAxiReq(req)
  PROVE  BeatAddr(req, 0) = req.addr
<1>1. req.burst \in {"FIXED", "INCR", "WRAP"}
  BY DEF CheckAxiReq, RequestType, BurstTypes
<1>2. /\ BeatBytes(req) \in Nat
      /\ req.addr \in Nat /\ req.addr < AddrSpace
      /\ req.addr + 0 * BeatBytes(req) = req.addr
  BY BeatBytesType, AddrType
<1>3. CASE req.burst = "FIXED"
  BY <1>3 DEF BeatAddr
<1>4. CASE req.burst = "INCR"
  BY <1>2, <1>4, AddrSpaceAssumption DEF BeatAddr
<1>5. CASE req.burst = "WRAP"
  BY <1>2, <1>5, WrapBoundFacts DEF BeatAddr
<1>6. QED
  BY <1>1, <1>3, <1>4, <1>5

(* The increment of do_once_read and accept_write_data leads from each beat
   of a legal burst to the next one, for every beat number. *)
LEMMA NextAddrIsNextBeat ==
  ASSUME NEW req \in RequestType, CheckAxiReq(req), NEW i \in Nat
  PROVE  NextAddr(req, BeatAddr(req, i)) = BeatAddr(req, i + 1)
<1> DEFINE b == BeatBytes(req)
           x == req.addr + i * b
           y == req.addr + (i + 1) * b
<1>1. req.burst \in {"FIXED", "INCR", "WRAP"}
  BY DEF CheckAxiReq, RequestType, BurstTypes
<1>2. b \in Nat /\ x \in Nat /\ x + b = y
  <2>1. b \in Nat /\ req.addr \in Nat
    BY BeatBytesType, AddrType
  <2> HIDE DEF b
  <2>2. QED
    BY <2>1
<1>3. CASE req.burst = "FIXED"
  BY <1>3 DEF NextAddr, BeatAddr
<1>4. CASE req.burst = "INCR"
  <2>1. BeatAddr(req, i) = x % AddrSpace /\ BeatAddr(req, i + 1) = y % AddrSpace
    BY <1>4 DEF BeatAddr
  <2>2. NextAddr(req, BeatAddr(req, i)) = ((x % AddrSpace) + b) % AddrSpace
    BY <1>4, <2>1 DEF NextAddr
  <2> HIDE DEF b, x, y
  <2>3. ((x % AddrSpace) + b) % AddrSpace = (x + b) % AddrSpace
    <3>1. x \in Int /\ b \in Int /\ AddrSpace \in Nat /\ AddrSpace > 0
      BY <1>2, AddrSpaceAssumption
    <3>2. QED
      BY <3>1, ModAdd
  <2>4. QED
    BY <1>2, <2>1, <2>2, <2>3
<1>5. CASE req.burst = "WRAP"
  <2> DEFINE T == WrapTotal(req)
             w == WrapBound(req)
  <2>1. BeatAddr(req, i) = w + (x % T) /\ BeatAddr(req, i + 1) = w + (y % T)
    BY <1>5 DEF BeatAddr
  <2>2. NextAddr(req, BeatAddr(req, i)) = w + ((w + (x % T) + b) % T)
    BY <1>5, <2>1 DEF NextAddr
  <2>3. T \in Nat /\ T > 0 /\ w \in Nat /\ w % T = 0
    BY <1>5, WrapTotalType, WrapBoundFacts
  <2> HIDE DEF b, x, y, T, w
  <2>4. x % T \in 0 .. T - 1
    BY <1>2, <2>3
  <2>5. (w + ((x % T) + b)) % T = ((x % T) + b) % T
    <3>1. (x % T) + b \in Int /\ w \in Int
      BY <1>2, <2>3, <2>4
    <3>2. QED
      BY <2>3, <3>1, ModMultiple
  <2>6. ((x % T) + b) % T = (x + b) % T
    <3>1. x \in Int /\ b \in Int
      BY <1>2
    <3>2. QED
      BY <2>3, <3>1, ModAdd
  <2>7. w + (x % T) + b = w + ((x % T) + b)
    BY <1>2, <2>3, <2>4
  <2>8. QED
    BY <1>2, <2>1, <2>2, <2>5, <2>6, <2>7
<1>6. QED
  BY <1>1, <1>3, <1>4, <1>5

(* Every beat address of a legal burst is a number. *)
LEMMA BeatAddrType ==
  ASSUME NEW req \in RequestType, CheckAxiReq(req), NEW i \in Nat
  PROVE  BeatAddr(req, i) \in Nat
<1> DEFINE x == req.addr + i * BeatBytes(req)
<1>1. req.burst \in {"FIXED", "INCR", "WRAP"}
  BY DEF CheckAxiReq, RequestType, BurstTypes
<1>2. x \in Nat
  <2>1. BeatBytes(req) \in Nat /\ req.addr \in Nat
    BY BeatBytesType, AddrType
  <2>2. QED
    BY <2>1
<1>3. CASE req.burst = "FIXED"
  BY <1>3, AddrType DEF BeatAddr
<1>4. CASE req.burst = "INCR"
  <2>1. BeatAddr(req, i) = x % AddrSpace
    BY <1>4 DEF BeatAddr
  <2> HIDE DEF x
  <2>2. QED
    BY <1>2, <2>1, AddrSpaceAssumption
<1>5. CASE req.burst = "WRAP"
  <2> DEFINE T == WrapTotal(req)
  <2>1. BeatAddr(req, i) = WrapBound(req) + (x % T)
    BY <1>5 DEF BeatAddr
  <2>2. T \in Nat /\ T > 0 /\ WrapBound(req) \in Nat
    BY <1>5, WrapTotalType, WrapBoundFacts
  <2> HIDE DEF x, T
  <2>3. QED
    BY <1>2, <2>1, <2>2
<1>6. QED
  BY <1>1, <1>3, <1>4, <1>5

(* A set of numbers has a least element: the form in which induction is used
   below. *)
LEMMA LeastNat ==
  ASSUME NEW S, S \subseteq Nat, S # {}
  PROVE  \E x \in S : \A y \in S : x <= y
<1> DEFINE R == OpToRel(<, Nat)
<1>1. IsWellFoundedOn(R, Nat)
  BY NatLessThanWellFounded
<1>2. \A a, b \in Nat : a < b => <<a, b>> \in R
  BY DEF OpToRel
<1> HIDE DEF R
<1>3. PICK x \in S : \A y \in S : ~ (<<y, x>> \in R)
  BY <1>1, WFMin, Zenon
<1>4. \A y \in S : x <= y
  <2>1. TAKE y \in S
  <2>2. x \in Nat /\ y \in Nat /\ ~ (<<y, x>> \in R)
    BY <1>3
  <2>3. ~ (y < x)
    BY <1>2, <2>2
  <2>4. QED
    BY <2>2, <2>3
<1>5. QED
  BY <1>4

(* Route finds a device exactly when one contains the access. *)
LEMMA RouteFacts ==
  ASSUME NEW addr, NEW bytes
  PROVE  /\ Route(Devices, addr, bytes) = 0 => Containing(Devices, addr, bytes) = {}
         /\ Route(Devices, addr, bytes) # 0 =>
              /\ Route(Devices, addr, bytes) \in DOMAIN Devices
              /\ Contains(Devices[Route(Devices, addr, bytes)], addr, bytes)
<1> DEFINE hit == Containing(Devices, addr, bytes)
           least == CHOOSE i \in hit : \A j \in hit : i <= j
<1>1. hit \subseteq DOMAIN Devices /\ \A i \in hit : Contains(Devices[i], addr, bytes)
  BY DEF Containing
<1>2. DOMAIN Devices \subseteq Nat \ {0}
  BY DevicesAssumption
<1>3. Route(Devices, addr, bytes) = IF hit = {} THEN 0 ELSE least
  BY DEF Route
<1> HIDE DEF hit
<1>4. hit # {} => least \in hit
  BY <1>1, <1>2, LeastNat
<1>5. QED
  BY <1>1, <1>2, <1>3, <1>4 DEF hit

(* Where the device that takes an access has its bytes. *)
LEMMA RoutedOffset ==
  ASSUME NEW addr \in Nat, NEW bytes \in Nat, bytes > 0, addr + bytes < AddrSpace,
         NEW d \in DOMAIN Devices, Contains(Devices[d], addr, bytes)
  PROVE  /\ Offset(Devices[d], addr) = addr - Devices[d].start
         /\ addr - Devices[d].start \in Nat
         /\ addr - Devices[d].start + bytes <= Devices[d].mask
<1>1. /\ Devices[d].start \in Nat /\ Devices[d].mask \in Nat
      /\ Devices[d].start % (Devices[d].mask + 1) = 0
  BY DevicesAssumption DEF IsAddrIntv
<1>2. (addr + bytes) % AddrSpace = addr + bytes
  BY AddrSpaceAssumption
<1>3. Devices[d].start <= addr /\ addr + bytes <= Devices[d].start + Devices[d].mask
  BY <1>2 DEF Contains, IntvEnd
<1>4. addr \in Devices[d].start .. Devices[d].start + Devices[d].mask
  BY <1>1, <1>3
<1>5. addr % (Devices[d].mask + 1) = addr - Devices[d].start
  BY <1>1, <1>4, OffsetIsDistance
<1>6. QED
  BY <1>1, <1>3, <1>5 DEF Offset
=============================================================================
