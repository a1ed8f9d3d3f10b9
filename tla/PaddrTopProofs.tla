--------------------------- MODULE PaddrTopProofs ---------------------------
(***************************************************************************)
(* Proofs about the address maps: about PaddrTop, for every address space, *)
(* every set of intervals and any number of registered devices; and, below *)
(* it, about the buffers the Pmems of the maps point to (MemoryCopies),    *)
(* for every image, every program of stores and every garbage.             *)
(***************************************************************************)
EXTENDS PaddrTop, MemoryCopies, AxiBurstProofs, FiniteSetTheorems, SequenceTheorems, TLAPS

(* An aligned interval of even length starts on an even byte. *)
LEMMA AlignedStartIsEven ==
  ASSUME NEW s \in Nat, NEW m \in Nat, m % 2 = 1, s % (m + 1) = 0
  PROVE  s % 2 = 0
<1> DEFINE h == (m + 1) \div 2
           k == s \div (m + 1)
<1>1. m + 1 = 2 * h /\ h \in Nat /\ k \in Int /\ s = (m + 1) * k
  OBVIOUS
<1> HIDE DEF h, k
<1>2. s = 2 * (h * k) /\ h * k \in Int
  BY <1>1
<1>3. QED
  BY <1>2

(* The numbers an interval of the program is made of. *)
LEMMA RangeFacts ==
  ASSUME NEW r \in Ranges
  PROVE  /\ r.start \in Nat /\ r.mask \in Nat
         /\ r.mask % 2 = 1
         /\ r.start % (r.mask + 1) = 0
         /\ r.start + r.mask < AddrSpace
         /\ IntvEnd(r) = r.start + r.mask
  BY RangesAssumption, AddrSpaceAssumption DEF IsAddrIntv, Word, IntvEnd

-----------------------------------------------------------------------------

(* add_dev keeps the vector a sequence of intervals of its callers. *)
THEOREM TypeCorrect == Spec => []TypeOK
<1>1. Init => TypeOK
  BY DEF Init, TypeOK
<1>2. TypeOK /\ [Next]_vars => TypeOK'
  <2> SUFFICES ASSUME TypeOK, [Next]_vars
               PROVE  TypeOK'
    OBVIOUS
  <2>1. ASSUME NEW r \in Ranges, AddDevAccepted(r)
        PROVE  TypeOK'
    BY <2>1 DEF AddDevAccepted, TypeOK
  <2>2. ASSUME NEW r \in Ranges, AddDevRefused(r)
        PROVE  TypeOK'
    BY <2>2 DEF AddDevRefused, TypeOK
  <2>3. CASE UNCHANGED vars
    BY <2>3 DEF vars, TypeOK
  <2>4. QED
    BY <2>1, <2>2, <2>3 DEF Next, AddDev
<1>3. QED
  BY <1>1, <1>2, PTL DEF Spec

(* The first device that takes an access is the one Route finds. *)
LEMMA FirstIsRoute ==
  ASSUME NEW devs \in Seq(Ranges), NEW addr, NEW bytes,
         NEW x \in Containing(devs, addr, bytes),
         \A y \in Containing(devs, addr, bytes) : x <= y
  PROVE  Route(devs, addr, bytes) = x /\ x # 0
<1> DEFINE hit == Containing(devs, addr, bytes)
           least == CHOOSE i \in hit : \A j \in hit : i <= j
<1>1. hit \subseteq 1 .. Len(devs)
  BY DEF Containing
<1>2. Route(devs, addr, bytes) = IF hit = {} THEN 0 ELSE least
  BY DEF Route
<1> HIDE DEF hit
<1>3. x \in hit /\ \A y \in hit : x <= y
  BY DEF hit
<1>4. least \in hit /\ \A y \in hit : least <= y
  BY <1>3
<1> HIDE DEF least
<1>5. least \in Nat /\ x \in Nat /\ least <= x /\ x <= least
  <2>1. hit \subseteq Nat
    BY <1>1
  <2>2. QED
    BY <1>3, <1>4, <2>1
<1>6. least = x
  BY <1>5
<1>7. hit # {}
  BY <1>3
<1>8. Route(devs, addr, bytes) = x
  BY <1>2, <1>6, <1>7
<1>9. x # 0
  <2>1. \A i \in 1 .. Len(devs) : i # 0
    OBVIOUS
  <2>2. QED
    BY <1>1, <1>3, <2>1
<1>10. QED
  BY <1>8, <1>9

(* One more device at the end answers only what nobody answered before. *)
LEMMA AppendKeepsAnswers ==
  ASSUME NEW devs \in Seq(Ranges), NEW r \in Ranges, NEW addr, NEW bytes
  PROVE  \/ Answers(Append(devs, r), addr, bytes) = Answers(devs, addr, bytes)
         \/ /\ Answers(devs, addr, bytes) = NoRange
            /\ Answers(Append(devs, r), addr, bytes) = r
<1> DEFINE more == Append(devs, r)
           old  == Containing(devs, addr, bytes)
           new  == Containing(more, addr, bytes)
<1>1. /\ more \in Seq(Ranges) /\ Len(devs) \in Nat /\ Len(more) = Len(devs) + 1
      /\ \A i \in 1 .. Len(devs) : more[i] = devs[i]
      /\ more[Len(devs) + 1] = r
  OBVIOUS
<1>2. old = { i \in 1 .. Len(devs) : Contains(devs[i], addr, bytes) }
  BY DEF Containing
<1> HIDE DEF more
<1>3. new = { i \in 1 .. Len(devs) + 1 : Contains(more[i], addr, bytes) }
  BY <1>1 DEF Containing
<1>4. /\ old \subseteq new
      /\ \A i \in new : i \in old \/ i = Len(devs) + 1
      /\ old \subseteq 1 .. Len(devs)
  BY <1>1, <1>2, <1>3
<1>5. CASE old # {}
  <2>1. PICK x \in old : \A y \in old : x <= y
    <3>1. old \subseteq Nat
      BY <1>4
    <3>2. QED
      BY <1>5, <3>1, LeastNat
  <2>2. \A y \in new : x <= y
    BY <1>1, <1>4, <2>1
  <2>3. Route(devs, addr, bytes) = x /\ x # 0
    BY <2>1, FirstIsRoute
  <2>4. Route(more, addr, bytes) = x
    BY <1>1, <1>4, <2>1, <2>2, FirstIsRoute
  <2>5. x \in 1 .. Len(devs)
    BY <1>4, <2>1
  <2>6. QED
    BY <1>1, <2>3, <2>4, <2>5 DEF Answers, more
<1>6. CASE old = {} /\ new = {}
  <2>1. Route(devs, addr, bytes) = 0 /\ Route(more, addr, bytes) = 0
    BY <1>6 DEF Route
  <2>2. QED
    BY <2>1 DEF Answers, more
<1>7. CASE old = {} /\ new # {}
  <2>1. \A y \in new : y = Len(devs) + 1
    BY <1>4, <1>7
  <2>2. Len(devs) + 1 \in new /\ \A y \in new : Len(devs) + 1 <= y
    BY <1>1, <1>7, <2>1
  <2>3. Route(more, addr, bytes) = Len(devs) + 1 /\ Len(devs) + 1 # 0
    BY <1>1, <2>2, FirstIsRoute
  <2>4. Route(devs, addr, bytes) = 0
    BY <1>7 DEF Route
  <2>5. QED
    BY <1>1, <2>3, <2>4 DEF Answers, more
<1>8. QED
  BY <1>5, <1>6, <1>7

(* No call of add_dev changes who answers an access that somebody answers, and
   an accepted device is registered as asked, for every set of intervals and
   any number of devices. *)
THEOREM RoutesKept == Spec => RegistrationKeepsRoutes
<1> DEFINE Kept ==
      /\ \A addr \in Word, bytes \in AccessBytes :
           \/ Answers(devices', addr, bytes) = Answers(devices, addr, bytes)
           \/ /\ last'.ok
              /\ Answers(devices, addr, bytes) = NoRange
              /\ Answers(devices', addr, bytes) = last'.range
      /\ last'.ok => \E i \in DOMAIN devices' : devices'[i] = last'.range
<1>1. TypeOK /\ [Next]_vars => [Kept]_vars
  <2> SUFFICES ASSUME TypeOK, Next
               PROVE  Kept
    OBVIOUS
  <2>1. devices \in Seq(Ranges)
    BY DEF TypeOK
  <2>2. ASSUME NEW r \in Ranges, AddDevAccepted(r)
        PROVE  Kept
    <3>1. devices' = Append(devices, r) /\ last' = [range |-> r, ok |-> TRUE]
      BY <2>2 DEF AddDevAccepted
    <3>2. \A addr \in Word, bytes \in AccessBytes :
            \/ Answers(devices', addr, bytes) = Answers(devices, addr, bytes)
            \/ /\ Answers(devices, addr, bytes) = NoRange
               /\ Answers(devices', addr, bytes) = r
      BY <2>1, <3>1, AppendKeepsAnswers
    <3>3. Len(devices) + 1 \in DOMAIN devices' /\ devices'[Len(devices) + 1] = r
      BY <2>1, <3>1
    <3>4. last'.ok /\ last'.range = r
      BY <3>1
    <3>5. QED
      BY <3>2, <3>3, <3>4
  <2>3. ASSUME NEW r \in Ranges, AddDevRefused(r)
        PROVE  Kept
    <3>1. devices' = devices /\ last' = [range |-> r, ok |-> FALSE]
      BY <2>3 DEF AddDevRefused
    <3>2. ~ last'.ok
      BY <3>1
    <3>3. QED
      BY <3>1, <3>2
  <2>4. QED
    BY <2>2, <2>3 DEF Next, AddDev
<1>2. QED
  BY <1>1, TypeCorrect, PTL DEF Spec, RegistrationKeepsRoutes

(* The heart of the matter: the comparison of add_dev is strict although the
   ends are inclusive, yet two aligned intervals of even length cannot share
   exactly one byte, because that byte would be even as a start and odd as
   an end. *)
LEMMA NoOverlapFoundMeansDisjoint ==
  ASSUME NEW p \in Ranges, NEW r \in Ranges,
         ~ (MaxOf(p.start, r.start) < MinOf(IntvEnd(p), IntvEnd(r)))
  PROVE  IntvBytes(p) \cap IntvBytes(r) = {}
<1>1. /\ p.start \in Nat /\ p.mask \in Nat /\ p.mask % 2 = 1
      /\ r.start \in Nat /\ r.mask \in Nat /\ r.mask % 2 = 1
      /\ IntvEnd(p) = p.start + p.mask /\ IntvEnd(r) = r.start + r.mask
  BY RangeFacts
<1>2. p.start % 2 = 0 /\ r.start % 2 = 0
  BY <1>1, RangeFacts, AlignedStartIsEven
<1>3. IntvEnd(p) < r.start \/ IntvEnd(r) < p.start
  BY <1>1, <1>2 DEF MaxOf, MinOf
<1>4. QED
  BY <1>1, <1>3 DEF IntvBytes

(* No byte is claimed by two devices, whatever is registered in whatever
   order. *)
THEOREM DevicesDisjoint == Spec => []NoOverlap
<1>1. Init => NoOverlap
  BY DEF Init, NoOverlap
<1>2. TypeOK /\ NoOverlap /\ [Next]_vars => NoOverlap'
  <2> SUFFICES ASSUME TypeOK, NoOverlap, [Next]_vars
               PROVE  NoOverlap'
    OBVIOUS
  <2>1. ASSUME NEW r \in Ranges, AddDevAccepted(r)
        PROVE  NoOverlap'
    <3>1. /\ devices \in Seq(Ranges)
          /\ devices' = Append(devices, r)
          /\ devices' \in Seq(Ranges)
      BY <2>1 DEF TypeOK, AddDevAccepted
    <3>2. ASSUME NEW i \in DOMAIN devices
          PROVE  IntvBytes(devices[i]) \cap IntvBytes(r) = {}
      <4>1. devices[i] \in Ranges
        BY <3>1
      <4>2. ~ (MaxOf(devices[i].start, r.start)
                 < MinOf(IntvEnd(devices[i]), IntvEnd(r)))
        BY <2>1 DEF AddDevAccepted, OverlapFound
      <4>3. QED
        BY <4>1, <4>2, NoOverlapFoundMeansDisjoint
    <3>3. ASSUME NEW i \in DOMAIN devices', NEW j \in DOMAIN devices', i # j
          PROVE  IntvBytes(devices'[i]) \cap IntvBytes(devices'[j]) = {}
      <4>1. \A k \in DOMAIN devices' :
              \/ k \in DOMAIN devices /\ devices'[k] = devices[k]
              \/ k = Len(devices) + 1 /\ devices'[k] = r
        BY <3>1
      <4>2. CASE i \in DOMAIN devices /\ j \in DOMAIN devices
        BY <4>1, <4>2, <3>1, <3>3 DEF NoOverlap
      <4>3. CASE i = Len(devices) + 1 /\ j \in DOMAIN devices
        BY <4>1, <4>3, <3>1, <3>2, <3>3
      <4>4. CASE i \in DOMAIN devices /\ j = Len(devices) + 1
        BY <4>1, <4>4, <3>1, <3>2, <3>3
      <4>5. QED
        BY <4>1, <4>2, <4>3, <4>4, <3>3
    <3>4. QED
      BY <3>3 DEF NoOverlap, IntvBytes, IntvEnd
  <2>2. ASSUME NEW r \in Ranges, AddDevRefused(r)
        PROVE  NoOverlap'
    BY <2>2 DEF AddDevRefused, NoOverlap
  <2>3. CASE UNCHANGED vars
    BY <2>3 DEF vars, NoOverlap
  <2>4. QED
    BY <2>1, <2>2, <2>3 DEF Next, AddDev
<1>3. QED
  BY <1>1, <1>2, TypeCorrect, PTL DEF Spec

(* A match of the range test, for an access that does not wrap, puts the
   whole access and one byte more inside the interval. *)
LEMMA ContainsFacts ==
  ASSUME NEW r \in Ranges, NEW a \in Accesses, Contains(r, a[1], a[2])
  PROVE  /\ a[1] \in Nat /\ a[2] \in Nat /\ a[2] > 0
         /\ r.start <= a[1] /\ a[1] + a[2] <= r.start + r.mask
<1>1. /\ a[1] \in Nat /\ a[2] \in Nat /\ a[2] > 0 /\ a[1] + a[2] < AddrSpace
  <2>1. a \in Word \X AccessBytes /\ a[1] + a[2] < AddrSpace
    BY DEF Accesses
  <2>2. a[1] \in Word /\ a[2] \in AccessBytes
    BY <2>1
  <2>3. Word \subseteq Nat
    BY AddrSpaceAssumption DEF Word
  <2>4. a[2] \in Nat /\ a[2] # 0
    BY <2>2, AccessBytesAssumption
  <2>5. a[1] \in Nat
    BY <2>2, <2>3
  <2>6. QED
    BY <2>1, <2>4, <2>5
<1>2. (a[1] + a[2]) % AddrSpace = a[1] + a[2]
  BY <1>1, AddrSpaceAssumption
<1>3. QED
  BY <1>1, <1>2, RangeFacts DEF Contains

(* Two devices that both take an access both hold its first byte. *)
LEMMA DisjointMeansUnique == TypeOK /\ NoOverlap => RouteUnique
<1> SUFFICES ASSUME TypeOK, NoOverlap, NEW a \in Accesses,
                    NEW i \in Containing(devices, a[1], a[2]),
                    NEW j \in Containing(devices, a[1], a[2])
             PROVE  i = j
  BY DEF RouteUnique
<1>1. /\ i \in DOMAIN devices /\ devices[i] \in Ranges
      /\ Contains(devices[i], a[1], a[2])
  BY DEF Containing, TypeOK
<1>2. /\ j \in DOMAIN devices /\ devices[j] \in Ranges
      /\ Contains(devices[j], a[1], a[2])
  BY DEF Containing, TypeOK
<1>3. a[1] \in IntvBytes(devices[i])
  BY <1>1, ContainsFacts, RangeFacts DEF IntvBytes
<1>4. a[1] \in IntvBytes(devices[j])
  BY <1>2, ContainsFacts, RangeFacts DEF IntvBytes
<1>5. QED
  BY <1>1, <1>2, <1>3, <1>4 DEF NoOverlap

(* At most one device takes an access, so the order of registration never
   decides who answers. *)
THEOREM RoutesUnique == Spec => []RouteUnique
BY TypeCorrect, DevicesDisjoint, DisjointMeansUnique, PTL

(* Every routed access stays inside the buffer of its device. *)
THEOREM AccessesInside == Spec => []AccessInsideDevice
<1>1. TypeOK /\ NoOverlap => AccessInsideDevice
  <2> SUFFICES ASSUME TypeOK, NoOverlap, NEW a \in Accesses,
                      NEW d, d = Route(devices, a[1], a[2]), d # 0
               PROVE  /\ a[1] .. (a[1] + a[2] - 1) \subseteq IntvBytes(devices[d])
                      /\ Offset(devices[d], a[1]) = a[1] - devices[d].start
                      /\ Offset(devices[d], a[1]) + a[2] <= devices[d].mask + 1
    BY DEF AccessInsideDevice
  <2>1. d \in Containing(devices, a[1], a[2])
    <3> DEFINE hit == Containing(devices, a[1], a[2])
    <3>1. hit # {} /\ d = CHOOSE i \in hit : \A j \in hit : i <= j
      BY DEF Route
    <3>2. \A i, j \in hit : i = j /\ i \in Nat
      BY DisjointMeansUnique DEF RouteUnique, Containing, TypeOK
    <3>3. \E i \in hit : \A j \in hit : i <= j
      BY <3>1, <3>2
    <3>4. QED
      BY <3>1, <3>3
  <2>2. d \in DOMAIN devices /\ Contains(devices[d], a[1], a[2])
    BY <2>1 DEF Containing
  <2>3. devices[d] \in Ranges
    BY <2>2 DEF TypeOK
  <2> DEFINE s == devices[d].start
             m == devices[d].mask
  <2>4. /\ a[1] \in Nat /\ a[2] \in Nat /\ a[2] > 0
        /\ s <= a[1] /\ a[1] + a[2] <= s + m
    BY <2>2, <2>3, ContainsFacts
  <2>5. s \in Nat /\ m \in Nat /\ s % (m + 1) = 0 /\ IntvEnd(devices[d]) = s + m
    BY <2>3, RangeFacts
  <2> HIDE DEF s, m
  <2>6. a[1] \in s .. s + m
    BY <2>4, <2>5
  <2>7. a[1] % (m + 1) = a[1] - s
    BY <2>5, <2>6, OffsetIsDistance
  <2>8. Offset(devices[d], a[1]) = a[1] - s
    BY <2>7 DEF Offset, m
  <2>9. a[1] .. (a[1] + a[2] - 1) \subseteq s .. s + m
    BY <2>4, <2>5
  <2>10. IntvBytes(devices[d]) = s .. s + m
    BY <2>5 DEF IntvBytes, s
  <2>11. a[1] - s + a[2] <= m + 1
    BY <2>4, <2>5
  <2>12. QED
    BY <2>8, <2>9, <2>10, <2>11 DEF s, m
<1>2. QED
  BY <1>1, TypeCorrect, DevicesDisjoint, PTL

(* The converse of NoOverlapFoundMeansDisjoint: the larger of the two starts is
   a byte of both intervals. *)
LEMMA OverlapFoundMeansShared ==
  ASSUME NEW p \in Ranges, NEW r \in Ranges,
         MaxOf(p.start, r.start) < MinOf(IntvEnd(p), IntvEnd(r))
  PROVE  IntvBytes(p) \cap IntvBytes(r) # {}
<1> DEFINE x == MaxOf(p.start, r.start)
<1>1. p.start \in Nat /\ r.start \in Nat /\ IntvEnd(p) \in Nat /\ IntvEnd(r) \in Nat
  BY RangeFacts
<1>2. /\ x \in Nat /\ p.start <= x /\ r.start <= x
      /\ x <= IntvEnd(p) /\ x <= IntvEnd(r)
  BY <1>1 DEF MaxOf, MinOf
<1> HIDE DEF x
<1>3. x \in IntvBytes(p) /\ x \in IntvBytes(r)
  BY <1>1, <1>2 DEF IntvBytes
<1>4. QED
  BY <1>3

(* add_dev turns a device away only if some registered interval really shares a
   byte with it. *)
THEOREM RefusalsJustified == Spec => []RefusalJustified
<1>1. Init => RefusalJustified
  BY DEF Init, RefusalJustified
<1>2. TypeOK /\ RefusalJustified /\ [Next]_vars => RefusalJustified'
  <2> SUFFICES ASSUME TypeOK, RefusalJustified, [Next]_vars PROVE RefusalJustified'
    OBVIOUS
  <2>1. ASSUME NEW r \in Ranges, AddDevAccepted(r)
        PROVE  RefusalJustified'
    BY <2>1 DEF AddDevAccepted, RefusalJustified
  <2>2. ASSUME NEW r \in Ranges, AddDevRefused(r)
        PROVE  RefusalJustified'
    <3>1. PICK i \in DOMAIN devices :
            MaxOf(devices[i].start, r.start) < MinOf(IntvEnd(devices[i]), IntvEnd(r))
      BY <2>2 DEF AddDevRefused, OverlapFound
    <3>2. devices[i] \in Ranges
      BY <3>1 DEF TypeOK
    <3>3. IntvBytes(devices[i]) \cap IntvBytes(r) # {}
      BY <3>1, <3>2, OverlapFoundMeansShared
    <3>4. devices' = devices /\ last'.range = r
      BY <2>2 DEF AddDevRefused
    <3>5. QED
      BY <3>1, <3>3, <3>4 DEF RefusalJustified, IntvBytes, IntvEnd
  <2>3. CASE UNCHANGED vars
    BY <2>3 DEF vars, RefusalJustified, IntvBytes, IntvEnd
  <2>4. QED
    BY <2>1, <2>2, <2>3 DEF Next, AddDev
<1>3. QED
  BY <1>1, <1>2, TypeCorrect, PTL DEF Spec

-----------------------------------------------------------------------------

(* What the file and the allocation have left at place p of a memory. *)
Image(p) == IF file.open /\ p < Len(file.bytes) THEN file.bytes[p + 1] ELSE garbage

(* The device that takes store i of the program, 0 if none does. *)
Stored(map, i) == Route(SubSeq(Devices, 1, Len(map)), program[i].addr, program[i].size)

(* Store i of the program covers place p of the image. *)
CoversPlace(map, i, p) ==
  /\ Stored(map, i) # 0
  /\ p - Place(map, program[i].addr) \in WrittenLanes(program[i].size, program[i].strb)

(* v is what the first n stores have left at place p. *)
LeftAt(v, map, n, p) ==
  \/ /\ \A i \in 1 .. n : ~ CoversPlace(map, i, p)
     /\ v = Image(p)
  \/ \E i \in 1 .. n :
       /\ CoversPlace(map, i, p)
       /\ \A j \in i + 1 .. n : ~ CoversPlace(map, j, p)
       /\ v = program[i].data[p - Place(map, program[i].addr)]

(* A buffer of that size holds the image with the first n stores in it. *)
BufferFollows(buffer, size, map, n) ==
  /\ DOMAIN buffer = 0 .. size - 1
  /\ \A p \in 0 .. size - 1 : LeftAt(buffer[p], map, n, p)

(* The bytes of the memory of the set-up. *)
MemSize == Devices[IF setup = "main" THEN 1 ELSE 2].mask + 1

(* What each statement of the set-up leaves: one buffer with the image in it,
   then a map that points to it, then the other side's map, which points to a
   copy of it (main) or twice to it (new_paddr_top).  From then on a buffer
   follows the stores of its own side only. *)
CopiesInv ==
  /\ setup \in {"main", "new_paddr_top"} /\ file \in Files /\ program \in Programs
  /\ performed \in 0 .. Len(program) /\ executed \in 0 .. Len(program)
  /\ ~ overrun
  /\ stage # "run" => performed = 0 /\ executed = 0
  /\ \/ stage = "new" /\ heap = <<>> /\ dut = <<>> /\ ref = <<>>
     \/ stage = "load" /\ heap = << Allocated(MemSize) >> /\ dut = <<>> /\ ref = <<>>
     \/ /\ stage = "map" /\ heap = << heap[1] >> /\ dut = <<>> /\ ref = <<>>
        /\ BufferFollows(heap[1], MemSize, <<>>, 0)
     \/ /\ stage = "copy" /\ setup = "main" /\ heap = << heap[1] >>
        /\ dut = <<1>> /\ ref = <<>>
        /\ BufferFollows(heap[1], MemSize, dut, 0)
     \/ /\ stage = "run" /\ setup = "main" /\ DOMAIN heap = 1 .. 2
        /\ dut = <<1>> /\ ref = <<2>>
        /\ BufferFollows(heap[1], MemSize, dut, performed)
        /\ BufferFollows(heap[2], MemSize, ref, executed)
     \/ /\ stage = "run" /\ setup = "new_paddr_top" /\ DOMAIN heap = 1 .. 1
        /\ dut = <<>> /\ ref = <<1, 1>>
        /\ BufferFollows(heap[1], MemSize, ref, executed)

(* What decoding through a map of k devices finds. *)
LEMMA MapRoute ==
  ASSUME NEW map, NEW k \in 0 .. 2, k = Len(map), NEW addr, NEW bytes
  PROVE  LET d == Route(SubSeq(Devices, 1, Len(map)), addr, bytes)
         IN  /\ d # 0 => /\ d \in 1 .. Len(map)
                         /\ Contains(Devices[d], addr, bytes)
             /\ \A i \in 1 .. Len(map) : Contains(Devices[i], addr, bytes) => d # 0
<1> DEFINE devs == SubSeq(Devices, 1, Len(map))
           hit == Containing(devs, addr, bytes)
           least == CHOOSE i \in hit : \A j \in hit : i <= j
<1>1. Devices \in Seq([start : Nat, mask : Nat]) /\ Len(Devices) = 2
  BY DevicesAssumption, WindowAssumption
<1>2. DOMAIN devs = 1 .. Len(map) /\ \A i \in 1 .. Len(map) : devs[i] = Devices[i]
  BY <1>1
<1> HIDE DEF devs
<1>3. hit = { i \in 1 .. Len(map) : Contains(Devices[i], addr, bytes) }
  BY <1>2 DEF Containing
<1>4. Route(devs, addr, bytes) = IF hit = {} THEN 0 ELSE least
  BY DEF Route
<1> HIDE DEF hit
<1>5. hit # {} => least \in hit
  <2>1. hit \subseteq Nat
    BY <1>3
  <2>2. QED
    BY <2>1, LeastNat
<1>6. QED
  BY <1>3, <1>4, <1>5 DEF devs

(* A sequence over S has its elements in S. *)
LEMMA SeqElement ==
  ASSUME NEW S, NEW s \in Seq(S)
  PROVE  DOMAIN s = 1 .. Len(s) /\ \A i \in 1 .. Len(s) : s[i] \in S
OBVIOUS

(* What a store of the program is made of. *)
LEMMA StoreFacts ==
  ASSUME program \in Programs, NEW i \in 1 .. Len(program)
  PROVE  /\ program[i].addr \in Nat /\ program[i].size \in Nat /\ program[i].size >= 1
         /\ program[i].addr \in Word
         /\ program[i].size \in 1 .. BusBytes
         /\ program[i].strb \in Strobes /\ program[i].data \in Words
         /\ program[i].addr + program[i].size < AddrSpace
<1> DEFINE Record == [addr : Word, size : 1 .. BusBytes, strb : Strobes, data : Words]
<1>1. program \in Seq(Record)
  BY ProgramsAssumption
<1>2. DOMAIN program = 1 .. Len(program) /\ \A j \in 1 .. Len(program) : program[j] \in Record
  <2> HIDE DEF Record
  <2>1. QED
    BY <1>1, SeqElement
<1>3. program[i] \in Record
  BY <1>2
<1>4. program[i].addr + program[i].size < AddrSpace
  <2>1. \A j \in DOMAIN program : program[j].addr + program[j].size < AddrSpace
    BY StoreTopAssumption
  <2>2. QED
    BY <1>2, <2>1
<1>5. program[i].addr \in Nat /\ program[i].size \in Nat /\ program[i].size >= 1
  BY <1>3, AddrSpaceAssumption, BusBytesAssumption DEF Word
<1>6. QED
  BY <1>3, <1>4, <1>5

(* The two devices. *)
LEMMA TwoDevices ==
  /\ DOMAIN Devices = 1 .. 2
  /\ \A d \in 1 .. 2 : Devices[d].start \in Nat /\ Devices[d].mask \in Nat
  /\ Devices[1].mask <= Devices[2].mask
<1> DEFINE Record == [start : Nat, mask : Nat]
<1>1. Devices \in Seq(Record) /\ Len(Devices) = 2
  BY DevicesAssumption, WindowAssumption
<1>2. DOMAIN Devices = 1 .. 2 /\ \A d \in 1 .. 2 : Devices[d] \in Record
  <2> HIDE DEF Record
  <2>1. QED
    BY <1>1, SeqElement
<1>3. \A d \in 1 .. 2 : Devices[d].start \in Nat /\ Devices[d].mask \in Nat
  BY <1>2
<1>4. QED
  BY <1>2, <1>3, WindowAssumption

(* A device that takes a store takes its first byte alone, and no other
   device does. *)
LEMMA OneDevice ==
  ASSUME NEW addr \in Nat, NEW size \in Nat, size >= 1, addr + size < AddrSpace,
         NEW d \in DOMAIN Devices, Contains(Devices[d], addr, size)
  PROVE  /\ Contains(Devices[d], addr, 1)
         /\ \A e \in DOMAIN Devices : Contains(Devices[e], addr, 1) => e = d
<1>1. \A e \in DOMAIN Devices : Devices[e].start \in Nat /\ Devices[e].mask \in Nat
  BY TwoDevices
<1>2. \A n \in 0 .. AddrSpace - 1 : n % AddrSpace = n
  BY AddrSpaceAssumption
<1>6. (addr + 1) % AddrSpace = addr + 1 /\ (addr + size) % AddrSpace = addr + size
  BY <1>2, AddrSpaceAssumption
<1>3. Contains(Devices[d], addr, 1)
  BY <1>1, <1>6 DEF Contains, IntvEnd
<1>4. \A e \in DOMAIN Devices : Contains(Devices[e], addr, 1) => addr \in IntvBytes(Devices[e])
  BY <1>1, <1>6 DEF Contains, IntvBytes, IntvEnd
<1>5. QED
  BY <1>3, <1>4, DisjointAssumption

(* A device that takes a store takes each of its bytes: the store lands where
   its first byte lies in the image, and inside the buffer. *)
LEMMA StoreLands ==
  ASSUME NEW map, NEW k \in 0 .. 2, k = Len(map), program \in Programs,
         NEW i \in 1 .. Len(program), NEW d, d = Stored(map, i), d # 0
  PROVE  /\ d \in 1 .. k
         /\ \E off \in Nat :
              /\ off = Place(map, program[i].addr)
              /\ off = Offset(Devices[d], program[i].addr)
              /\ off + program[i].size <= Devices[d].mask
<1>1. PICK addr \in Nat : addr = program[i].addr
  BY StoreFacts
<1>2. PICK size \in Nat : size = program[i].size
  BY StoreFacts
<1>3. size >= 1 /\ addr + size < AddrSpace
  BY <1>1, <1>2, StoreFacts
<1>4. d \in 1 .. k /\ Contains(Devices[d], addr, size)
  BY <1>1, <1>2, MapRoute DEF Stored
<1>5. DOMAIN Devices = 1 .. 2
  BY TwoDevices
<1>6. d \in DOMAIN Devices
  <2>1. d \in 1 .. k
    BY <1>4
  <2>2. d \in 1 .. 2
    BY <2>1
  <2>3. QED
    BY <1>5, <2>2
<1>7. /\ Offset(Devices[d], addr) = addr - Devices[d].start
      /\ addr - Devices[d].start \in Nat
      /\ addr - Devices[d].start + size <= Devices[d].mask
  <2>1. size > 0 /\ addr + size < AddrSpace /\ Contains(Devices[d], addr, size)
    BY <1>3, <1>4
  <2>2. QED
    BY <1>6, <2>1, RoutedOffset
<1>8. Route(SubSeq(Devices, 1, Len(map)), addr, 1) = d
  <2> DEFINE e == Route(SubSeq(Devices, 1, Len(map)), addr, 1)
  <2>1. Contains(Devices[d], addr, 1)
    BY <1>3, <1>4, <1>6, OneDevice
  <2>2. e # 0 /\ e \in 1 .. k /\ Contains(Devices[e], addr, 1)
    BY <1>4, <2>1, MapRoute
  <2> HIDE DEF e
  <2>3. e \in DOMAIN Devices
    BY <1>5, <2>2
  <2>4. e = d
    BY <1>3, <1>4, <1>6, <2>2, <2>3, OneDevice
  <2>5. QED
    BY <2>4 DEF e
<1>9. Place(map, program[i].addr) = Offset(Devices[d], addr)
  BY <1>1, <1>8 DEF Place
<1>10. QED
  BY <1>1, <1>2, <1>4, <1>7, <1>9

(* One more store leaves a place alone or decides what it holds. *)
LEMMA LeftAtStep ==
  ASSUME NEW v, NEW map, NEW n \in Nat, NEW p, LeftAt(v, map, n, p)
  PROVE  /\ ~ CoversPlace(map, n + 1, p) => LeftAt(v, map, n + 1, p)
         /\ CoversPlace(map, n + 1, p) =>
              LeftAt(program[n + 1].data[p - Place(map, program[n + 1].addr)], map, n + 1, p)
<1>1. \A i \in 1 .. n + 1 : i \in 1 .. n \/ i = n + 1
  OBVIOUS
<1>2. ASSUME ~ CoversPlace(map, n + 1, p)
      PROVE  LeftAt(v, map, n + 1, p)
  <2>1. CASE /\ \A i \in 1 .. n : ~ CoversPlace(map, i, p)
             /\ v = Image(p)
    BY <1>1, <1>2, <2>1 DEF LeftAt
  <2>2. ASSUME NEW i \in 1 .. n, CoversPlace(map, i, p),
               \A j \in i + 1 .. n : ~ CoversPlace(map, j, p),
               v = program[i].data[p - Place(map, program[i].addr)]
        PROVE  LeftAt(v, map, n + 1, p)
    <3>1. i \in 1 .. n + 1 /\ \A j \in i + 1 .. n + 1 : j \in i + 1 .. n \/ j = n + 1
      OBVIOUS
    <3>2. QED
      BY <1>2, <2>2, <3>1 DEF LeftAt
  <2>3. QED
    BY <2>1, <2>2 DEF LeftAt
<1>3. ASSUME CoversPlace(map, n + 1, p)
      PROVE  LeftAt(program[n + 1].data[p - Place(map, program[n + 1].addr)], map, n + 1, p)
  <2>1. n + 1 \in 1 .. n + 1 /\ (n + 1) + 1 .. n + 1 = {}
    OBVIOUS
  <2>2. QED
    BY <1>3, <2>1 DEF LeftAt
<1>4. QED
  BY <1>2, <1>3

(* A buffer is as long as its domain. *)
LEMMA SizedBuffer ==
  ASSUME NEW buffer, NEW size \in Nat, DOMAIN buffer = 0 .. size - 1
  PROVE  Sized(buffer) = size
<1>1. Cardinality(0 .. size - 1) = IF 0 > size - 1 THEN 0 ELSE (size - 1) - 0 + 1
  BY FS_Interval
<1>2. QED
  BY <1>1 DEF Sized

(* A store through a map all of whose devices point to buffer h puts exactly
   that store into it, and stays inside. *)
LEMMA StoreFollows ==
  ASSUME NEW map, NEW k \in 0 .. 2, k = Len(map), program \in Programs,
         NEW n \in Nat, n < Len(program),
         NEW h \in DOMAIN heap, \A d \in 1 .. k : map[d] = h,
         NEW size \in Nat, \A d \in 1 .. k : Devices[d].mask < size,
         BufferFollows(heap[h], size, map, n),
         StoreThrough(map, program[n + 1])
  PROVE  /\ DOMAIN heap' = DOMAIN heap
         /\ \A g \in DOMAIN heap : g # h => heap'[g] = heap[g]
         /\ BufferFollows(heap'[h], size, map, n + 1)
         /\ ~ overrun => ~ overrun'
<1> DEFINE s == program[n + 1]
<1>1. PICK i \in 1 .. Len(program) : i = n + 1
  OBVIOUS
<1>0. PICK d : d = Stored(map, n + 1)
  OBVIOUS
<1>2. CASE d = 0
  <2>1. UNCHANGED <<heap, overrun>>
    BY <1>0, <1>2 DEF StoreThrough, Stored
  <2>2. \A p : ~ CoversPlace(map, n + 1, p)
    BY <1>0, <1>2 DEF CoversPlace
  <2>3. BufferFollows(heap[h], size, map, n + 1)
    BY <2>2, LeftAtStep DEF BufferFollows
  <2>4. QED
    BY <2>1, <2>3
<1>3. CASE d # 0
  <2>1. d = Stored(map, i) /\ s = program[i]
    BY <1>0, <1>1
  <2>2. d \in 1 .. k
    BY <1>3, <2>1, StoreLands, Zenon
  <2>3. PICK off \in Nat :
          /\ off = Place(map, program[i].addr)
          /\ off = Offset(Devices[d], program[i].addr)
          /\ off + program[i].size <= Devices[d].mask
    BY <1>3, <2>1, StoreLands
  <2>4. /\ off = Place(map, s.addr)
        /\ off = Offset(Devices[d], s.addr)
        /\ off + s.size <= Devices[d].mask
    BY <2>1, <2>3
  <2>5. off + s.size <= size
    <3>1. program[i].size \in Nat
      BY StoreFacts
    <3>2. \A x \in 1 .. k : Devices[x].mask \in Nat /\ Devices[x].mask < size
      <4>1. \A x \in 1 .. k : x \in 1 .. 2
        OBVIOUS
      <4>2. QED
        BY <4>1, TwoDevices, Zenon
    <3>3. Devices[d].mask \in Nat /\ Devices[d].mask < size
      BY <2>2, <3>2, Zenon
    <3>4. off + program[i].size <= size
      BY <2>3, <3>1, <3>3
    <3>5. QED
      BY <2>1, <3>4
  <2> DEFINE w == PmemWrite(heap[h], off, s.size, s.strb, s.data)
  <2>6. /\ heap' = [heap EXCEPT ![h] = w]
        /\ overrun' = (overrun \/ off + s.size > Sized(heap[h]))
    <3>1. map[d] = h
      BY <2>2
    <3>2. QED
      BY <1>0, <1>3, <2>4, <3>1 DEF StoreThrough, Stored
  <2>7. ~ overrun => ~ overrun'
    <3>1. Sized(heap[h]) = size
      BY SizedBuffer DEF BufferFollows
    <3>2. program[i].size \in Nat
      BY StoreFacts
    <3>3. ~ (off + s.size > Sized(heap[h]))
      <4>1. PICK z \in Nat : z = s.size
        BY <2>1, <3>2
      <4>2. off + z <= size
        BY <2>5, <4>1
      <4>3. ~ (off + z > size)
        BY <4>2
      <4>4. QED
        BY <3>1, <4>1, <4>3
    <3>4. QED
      BY <2>6, <3>3, Zenon
  <2>8. DOMAIN w = 0 .. size - 1
    BY DEF PmemWrite, BufferFollows
  <2>9. ASSUME NEW p \in 0 .. size - 1
        PROVE  LeftAt(w[p], map, n + 1, p)
    <3>1. LeftAt(heap[h][p], map, n, p) /\ p \in DOMAIN heap[h]
      BY DEF BufferFollows
    <3>2. CoversPlace(map, n + 1, p) <=> p - off \in WrittenLanes(s.size, s.strb)
      BY <1>0, <1>3, <2>4 DEF CoversPlace
    <3>3. w[p] = IF CoversPlace(map, n + 1, p) THEN s.data[p - off] ELSE heap[h][p]
      BY <3>1, <3>2 DEF PmemWrite
    <3>4. QED
      BY <2>4, <3>1, <3>3, LeftAtStep
  <2>10. QED
    BY <2>6, <2>7, <2>8, <2>9 DEF BufferFollows
<1>4. QED
  BY <1>2, <1>3

-----------------------------------------------------------------------------

(* The memory of a set-up, and the windows on it. *)
LEMMA MemSizeFacts ==
  ASSUME setup \in {"main", "new_paddr_top"}
  PROVE  /\ MemSize \in Nat /\ MemSize >= 1
         /\ Devices[1].mask < MemSize
         /\ setup = "new_paddr_top" => Devices[2].mask < MemSize
<1>1. /\ Devices[1].mask \in Nat /\ Devices[2].mask \in Nat
      /\ Devices[1].mask <= Devices[2].mask
  BY TwoDevices
<1>2. QED
  BY <1>1 DEF MemSize

(* Before any store, a memory holds the image. *)
LEMMA NoStoreYet ==
  ASSUME NEW v, NEW map, NEW p
  PROVE  LeftAt(v, map, 0, p) <=> v = Image(p)
BY DEF LeftAt

(* What a buffer follows, and how long the memory is, depends on nothing that
   changes once a run has been chosen. *)
LEMMA FollowsSame ==
  ASSUME UNCHANGED chosen
  PROVE  /\ \A b, size, map, n :
              BufferFollows(b, size, map, n)' <=> BufferFollows(b, size, map, n)
         /\ MemSize' = MemSize
<1>1. /\ setup' = setup /\ file' = file /\ garbage' = garbage
      /\ program' = program
  BY DEF chosen
<1>2. \A v, map, n, q : LeftAt(v, map, n, q)' <=> LeftAt(v, map, n, q)
  BY <1>1 DEF LeftAt, CoversPlace, Stored, Image
<1>3. QED
  BY <1>1, <1>2 DEF BufferFollows, MemSize

(* The allocation: every byte is garbage, there is no map yet. *)
LEMMA NewPmemKeeps ==
  ASSUME CopiesInv, NewPmem
  PROVE  CopiesInv'
<1>1. stage = "new" /\ heap = <<>> /\ dut = <<>> /\ ref = <<>>
  BY DEF CopiesInv, NewPmem
<1>2. heap' = << Allocated(MemSize) >> /\ stage' = "load" /\ UNCHANGED <<chosen, dut, ref>>
  BY DEF NewPmem, MemSize
<1>3. << Allocated(MemSize) >>' = << Allocated(MemSize) >>
  BY <1>2 DEF Allocated, MemSize, chosen
<1>4. QED
  BY <1>1, <1>2, <1>3 DEF CopiesInv, NewPmem, chosen

(* Loading puts the image, cut to the memory, at its start. *)
LEMMA LoadKeeps ==
  ASSUME CopiesInv, Load
  PROVE  CopiesInv'
<1> DEFINE b == Allocated(MemSize)
           n == Len(file.bytes)
           r == Reads(MemSize, 0)
<1>1. /\ stage = "load" /\ heap = << b >> /\ dut = <<>> /\ ref = <<>>
      /\ setup \in {"main", "new_paddr_top"} /\ ~ overrun
      /\ performed = 0 /\ executed = 0
  BY DEF CopiesInv, Load
<1>2. file \in [open : BOOLEAN, bytes : Seq(ByteValues)]
  BY FilesAssumption DEF CopiesInv
<1>3. n \in Nat
  BY <1>2
<1>4. DOMAIN b = 0 .. MemSize - 1 /\ \A o \in 0 .. MemSize - 1 : b[o] = garbage
  BY DEF Allocated
<1>5. Sized(b) = MemSize
  BY <1>1, <1>4, SizedBuffer, MemSizeFacts
<1>6. /\ r = IF ~ file.open THEN 0 ELSE IF MemSize < n THEN MemSize ELSE n
      /\ r \in Nat /\ r <= MemSize
  BY <1>1, <1>3, MemSizeFacts DEF Reads
<1>7. heap' = << LoadBinary(b, 0) >> /\ ~ overrun'
  <2>1. heap[1] = b
    BY <1>1
  <2>2. ~ (Reads(Sized(heap[1]), 0) > Sized(heap[1]))
    BY <1>1, <1>5, <1>6, <2>1, MemSizeFacts
  <2>3. heap' = [heap EXCEPT ![1] = LoadBinary(b, 0)]
    BY <2>1 DEF Load
  <2>4. heap' = << LoadBinary(b, 0) >>
    BY <1>1, <2>3
  <2>5. QED
    BY <1>1, <2>2, <2>4, Zenon DEF Load
<1>8. BufferFollows(LoadBinary(b, 0), MemSize, <<>>, 0)
  <2>1. DOMAIN LoadBinary(b, 0) = 0 .. MemSize - 1
    BY <1>4 DEF LoadBinary
  <2>2. ASSUME NEW p \in 0 .. MemSize - 1
        PROVE  LoadBinary(b, 0)[p] = Image(p)
    <3>1. LoadBinary(b, 0)[p] = IF p - 0 \in 0 .. r - 1 THEN file.bytes[p - 0 + 1] ELSE garbage
      BY <1>4, <1>5 DEF LoadBinary
    <3>2. p - 0 = p /\ (p \in 0 .. r - 1 <=> file.open /\ p < n)
      BY <1>1, <1>3, <1>6, MemSizeFacts
    <3>3. QED
      BY <3>1, <3>2 DEF Image
  <2>3. QED
    BY <2>1, <2>2, NoStoreYet DEF BufferFollows
<1>9. /\ stage' = "map" /\ UNCHANGED <<chosen, dut, ref, performed, executed>>
      /\ (LoadBinary(b, 0))' = LoadBinary(b, 0)
  BY DEF Load, LoadBinary, Allocated, MemSize, Reads, Sized, chosen
<1>10. BufferFollows(heap[1], MemSize, <<>>, 0)'
  <2>1. heap'[1] = LoadBinary(b, 0)
    BY <1>7
  <2>2. QED
    BY <1>8, <1>9, <2>1, FollowsSame
<1>11. heap' = << heap'[1] >>
  BY <1>7
<1>12. QED
  BY <1>1, <1>7, <1>9, <1>10, <1>11 DEF CopiesInv, chosen

(* The DUT's map points to the buffer that was loaded. *)
LEMMA MapForDutKeeps ==
  ASSUME CopiesInv, MapForDut
  PROVE  CopiesInv'
<1>1. /\ stage = "map" /\ setup = "main" /\ heap = << heap[1] >> /\ ref = <<>>
      /\ BufferFollows(heap[1], MemSize, <<>>, 0)
  BY DEF CopiesInv, MapForDut
<1>2. /\ stage' = "copy" /\ dut' = <<1>>
      /\ UNCHANGED <<chosen, heap, ref, overrun, performed, executed>>
  BY DEF MapForDut
<1>3. BufferFollows(heap[1], MemSize, <<1>>, 0)
  BY <1>1, NoStoreYet DEF BufferFollows
<1>4. BufferFollows(heap[1], MemSize, dut, 0)'
  BY <1>2, <1>3, FollowsSame
<1>5. QED
  BY <1>1, <1>2, <1>4 DEF CopiesInv, chosen

(* Both windows of new_paddr_top point to the buffer that was loaded. *)
LEMMA MapForReferenceKeeps ==
  ASSUME CopiesInv, MapForReference
  PROVE  CopiesInv'
<1>1. /\ stage = "map" /\ setup = "new_paddr_top" /\ heap = << heap[1] >> /\ dut = <<>>
      /\ performed = 0 /\ executed = 0
      /\ BufferFollows(heap[1], MemSize, <<>>, 0)
  BY DEF CopiesInv, MapForReference
<1>2. /\ stage' = "run" /\ ref' = <<1, 1>>
      /\ UNCHANGED <<chosen, heap, dut, overrun, performed, executed>>
  BY DEF MapForReference
<1>3. BufferFollows(heap[1], MemSize, <<1, 1>>, 0)
  BY <1>1, NoStoreYet DEF BufferFollows
<1>4. BufferFollows(heap[1], MemSize, ref, executed)'
  BY <1>1, <1>2, <1>3, FollowsSame
<1>5. DOMAIN heap = 1 .. 1
  BY <1>1
<1>6. QED
  BY <1>1, <1>2, <1>4, <1>5 DEF CopiesInv, chosen

(* The deep copy has a buffer of its own, equal to the one it copies. *)
LEMMA CopyForReferenceKeeps ==
  ASSUME CopiesInv, CopyForReference
  PROVE  CopiesInv'
<1>1. /\ stage = "copy" /\ setup = "main" /\ heap = << heap[1] >> /\ dut = <<1>>
      /\ performed = 0 /\ executed = 0
      /\ BufferFollows(heap[1], MemSize, dut, 0)
  BY DEF CopiesInv, CopyForReference
<1>2. /\ stage' = "run" /\ heap' = heap \o DeepCopy(dut).buffers /\ ref' = DeepCopy(dut).map
      /\ UNCHANGED <<chosen, dut, overrun, performed, executed>>
  BY DEF CopyForReference
<1>3. Len(heap) = 1
  BY <1>1
<1>4. /\ DeepCopy(dut).buffers = << heap[1] >>
      /\ DeepCopy(dut).map = << 2 >>
  <2>1. DOMAIN dut = 1 .. 1 /\ dut[1] = 1
    BY <1>1
  <2>2. /\ DeepCopy(dut).buffers = [d \in 1 .. 1 |-> heap[dut[d]]]
        /\ DeepCopy(dut).map = [d \in 1 .. 1 |-> 1 + d]
    BY <1>3, <2>1 DEF DeepCopy
  <2>3. /\ [d \in 1 .. 1 |-> heap[dut[d]]] = << heap[1] >>
        /\ [d \in 1 .. 1 |-> 1 + d] = << 2 >>
    BY <2>1
  <2>4. QED
    BY <2>2, <2>3
<1>5. PICK x : x = heap[1]
  OBVIOUS
<1>6. /\ DOMAIN heap' = 1 .. 2 /\ heap'[1] = heap[1] /\ heap'[2] = heap[1] /\ ref' = <<2>>
  <2>1. <<x>> \in Seq({x}) /\ Len(<<x>>) = 1 /\ <<x>>[1] = x
    OBVIOUS
  <2>2. /\ <<x>> \o <<x>> \in Seq({x}) /\ Len(<<x>> \o <<x>>) = 2
        /\ \A i \in 1 .. 2 : (<<x>> \o <<x>>)[i] = IF i <= 1 THEN <<x>>[i] ELSE <<x>>[i - 1]
    BY <2>1, ConcatProperties
  <2>3. heap' = <<x>> \o <<x>>
    BY <1>1, <1>2, <1>4, <1>5
  <2>4. DOMAIN heap' = 1 .. 2
    BY <2>2, <2>3
  <2>5. heap'[1] = x /\ heap'[2] = x
    BY <2>1, <2>2, <2>3
  <2>6. QED
    BY <1>2, <1>4, <1>5, <2>4, <2>5
<1>7. BufferFollows(heap[1], MemSize, <<2>>, 0)
  BY <1>1, NoStoreYet DEF BufferFollows
<1>8. BufferFollows(heap[1], MemSize, dut, performed)'
  BY <1>1, <1>2, <1>6, FollowsSame
<1>9. BufferFollows(heap[2], MemSize, ref, executed)'
  BY <1>1, <1>2, <1>6, <1>7, FollowsSame
<1>10. QED
  BY <1>1, <1>2, <1>6, <1>8, <1>9 DEF CopiesInv, chosen

(* The DUT's store reaches its own buffer and not the reference's. *)
LEMMA PerformKeeps ==
  ASSUME CopiesInv, Perform
  PROVE  CopiesInv'
<1>1. /\ stage = "run" /\ setup = "main" /\ DOMAIN heap = 1 .. 2
      /\ dut = <<1>> /\ ref = <<2>> /\ ~ overrun
      /\ program \in Programs
      /\ performed \in 0 .. Len(program) /\ executed \in 0 .. Len(program)
      /\ BufferFollows(heap[1], MemSize, dut, performed)
      /\ BufferFollows(heap[2], MemSize, ref, executed)
  BY DEF CopiesInv, Perform
<1>2. /\ performed < Len(program) /\ StoreThrough(dut, program[performed + 1])
      /\ performed' = performed + 1
      /\ UNCHANGED <<chosen, stage, dut, ref, executed>>
  BY DEF Perform
<1>3. performed \in Nat /\ performed + 1 \in 0 .. Len(program)
  BY <1>1, <1>2
<1>4. /\ 1 \in DOMAIN heap /\ Len(dut) = 1 /\ \A d \in 1 .. 1 : dut[d] = 1
      /\ MemSize \in Nat /\ \A d \in 1 .. 1 : Devices[d].mask < MemSize
  BY <1>1, MemSizeFacts
<1>5. /\ DOMAIN heap' = DOMAIN heap
      /\ \A g \in DOMAIN heap : g # 1 => heap'[g] = heap[g]
      /\ BufferFollows(heap'[1], MemSize, dut, performed + 1)
      /\ ~ overrun => ~ overrun'
  BY <1>1, <1>2, <1>3, <1>4, StoreFollows
<1>6. heap'[2] = heap[2]
  BY <1>1, <1>5
<1>7. /\ BufferFollows(heap[1], MemSize, dut, performed)'
      /\ BufferFollows(heap[2], MemSize, ref, executed)'
  BY <1>1, <1>2, <1>5, <1>6, FollowsSame
<1>8. QED
  BY <1>1, <1>2, <1>3, <1>5, <1>7 DEF CopiesInv, chosen

(* The reference's store reaches its own buffer and not the DUT's. *)
LEMMA ExecuteKeeps ==
  ASSUME CopiesInv, Execute
  PROVE  CopiesInv'
<1>1. /\ stage = "run" /\ ~ overrun
      /\ setup \in {"main", "new_paddr_top"} /\ program \in Programs
      /\ performed \in 0 .. Len(program) /\ executed \in 0 .. Len(program)
  BY DEF CopiesInv, Execute
<1>2. /\ executed < Len(program) /\ StoreThrough(ref, program[executed + 1])
      /\ executed' = executed + 1
      /\ UNCHANGED <<chosen, stage, dut, ref, performed>>
  BY DEF Execute
<1>3. executed \in Nat /\ executed + 1 \in 0 .. Len(program)
  BY <1>1, <1>2
<1>4. CASE setup = "main"
  <2>1. /\ DOMAIN heap = 1 .. 2 /\ dut = <<1>> /\ ref = <<2>>
        /\ BufferFollows(heap[1], MemSize, dut, performed)
        /\ BufferFollows(heap[2], MemSize, ref, executed)
    BY <1>1, <1>4 DEF CopiesInv
  <2>2. /\ 2 \in DOMAIN heap /\ Len(ref) = 1 /\ \A d \in 1 .. 1 : ref[d] = 2
        /\ MemSize \in Nat /\ \A d \in 1 .. 1 : Devices[d].mask < MemSize
    BY <1>1, <2>1, MemSizeFacts
  <2>3. /\ DOMAIN heap' = DOMAIN heap
        /\ \A g \in DOMAIN heap : g # 2 => heap'[g] = heap[g]
        /\ BufferFollows(heap'[2], MemSize, ref, executed + 1)
        /\ ~ overrun => ~ overrun'
    BY <1>1, <1>2, <1>3, <2>1, <2>2, StoreFollows
  <2>4. heap'[1] = heap[1]
    BY <2>1, <2>3
  <2>5. /\ BufferFollows(heap[1], MemSize, dut, performed)'
        /\ BufferFollows(heap[2], MemSize, ref, executed)'
    BY <1>2, <2>1, <2>3, <2>4, FollowsSame
  <2>6. QED
    BY <1>1, <1>2, <1>3, <1>4, <2>1, <2>3, <2>5 DEF CopiesInv, chosen
<1>5. CASE setup = "new_paddr_top"
  <2>1. /\ DOMAIN heap = 1 .. 1 /\ dut = <<>> /\ ref = <<1, 1>>
        /\ BufferFollows(heap[1], MemSize, ref, executed)
    BY <1>1, <1>5 DEF CopiesInv
  <2>2. /\ 1 \in DOMAIN heap /\ Len(ref) = 2 /\ \A d \in 1 .. 2 : ref[d] = 1
        /\ MemSize \in Nat /\ \A d \in 1 .. 2 : Devices[d].mask < MemSize
    BY <1>1, <1>5, <2>1, MemSizeFacts
  <2>3. /\ DOMAIN heap' = DOMAIN heap
        /\ BufferFollows(heap'[1], MemSize, ref, executed + 1)
        /\ ~ overrun => ~ overrun'
    BY <1>1, <1>2, <1>3, <2>1, <2>2, StoreFollows
  <2>4. BufferFollows(heap[1], MemSize, ref, executed)'
    BY <1>2, <2>1, <2>3, FollowsSame
  <2>5. QED
    BY <1>1, <1>2, <1>3, <1>5, <2>1, <2>3, <2>4 DEF CopiesInv, chosen
<1>6. QED
  BY <1>1, <1>4, <1>5

(* Each buffer follows the stores of the side it belongs to, whatever the
   order in which the two sides come to them. *)
THEOREM CopiesInvariant == CopiesSpec => []CopiesInv
<1>1. CopiesInit => CopiesInv
  <2> SUFFICES ASSUME CopiesInit
               PROVE  CopiesInv
    OBVIOUS
  <2>1. 0 \in 0 .. Len(program)
    <3>1. program \in Seq([addr : Word, size : 1 .. BusBytes, strb : Strobes, data : Words])
      BY ProgramsAssumption DEF CopiesInit
    <3>2. QED
      BY <3>1
  <2>2. QED
    BY <2>1 DEF CopiesInit, CopiesInv
<1>2. CopiesInv /\ [CopiesNext]_copiesVars => CopiesInv'
  <2> SUFFICES ASSUME CopiesInv, [CopiesNext]_copiesVars
               PROVE  CopiesInv'
    OBVIOUS
  <2>1. CASE UNCHANGED copiesVars
    <3>1. /\ UNCHANGED <<setup, stage, file, garbage, heap, dut, ref, overrun>>
          /\ UNCHANGED <<program, performed, executed>>
      BY <2>1 DEF copiesVars
    <3>2. /\ UNCHANGED chosen
          /\ Allocated(MemSize)' = Allocated(MemSize)
      <4>1. UNCHANGED chosen
        BY <3>1 DEF chosen
      <4>2. QED
        BY <3>1, <4>1, FollowsSame DEF Allocated
    <3>3. QED
      BY <3>1, <3>2, FollowsSame DEF CopiesInv
  <2>2. QED
    BY <2>1, NewPmemKeeps, LoadKeeps, MapForDutKeeps, CopyForReferenceKeeps,
       MapForReferenceKeeps, PerformKeeps, ExecuteKeeps DEF CopiesNext
<1>3. QED
  BY <1>1, <1>2, PTL DEF CopiesSpec

-----------------------------------------------------------------------------

(* What the stores have left at a place is what the program leaves there. *)
LEMMA LeftAtIsExpected ==
  ASSUME NEW v, NEW map, NEW n \in Nat, NEW p, LeftAt(v, map, n, p)
  PROVE  v = Expected(map, n, p)
<1> DEFINE cover == CoveringStores(map, n, p)
           newest == CHOOSE i \in cover : \A j \in cover : j <= i
<1>1. cover = { i \in 1 .. n : CoversPlace(map, i, p) }
  BY DEF CoveringStores, CoversPlace, Stored
<1>2. Expected(map, n, p) =
        IF cover # {} THEN program[newest].data[p - Place(map, program[newest].addr)]
        ELSE Image(p)
  BY DEF Expected, Image
<1> HIDE DEF cover
<1>3. CASE /\ \A i \in 1 .. n : ~ CoversPlace(map, i, p)
           /\ v = Image(p)
  BY <1>1, <1>2, <1>3
<1>4. ASSUME NEW i \in 1 .. n, CoversPlace(map, i, p),
             \A j \in i + 1 .. n : ~ CoversPlace(map, j, p),
             v = program[i].data[p - Place(map, program[i].addr)]
      PROVE  v = Expected(map, n, p)
  <2>1. i \in cover /\ \A j \in cover : j <= i
    BY <1>1, <1>4
  <2>2. cover \subseteq Nat
    BY <1>1
  <2>3. newest \in cover /\ \A j \in cover : j <= newest
    BY <2>1
  <2>4. newest = i
    <3>1. PICK m : m = newest
      OBVIOUS
    <3>2. m \in Nat /\ m <= i /\ i <= m
      BY <2>1, <2>2, <2>3, <3>1
    <3>3. QED
      BY <3>1, <3>2
  <2>5. QED
    BY <1>2, <1>4, <2>1, <2>4
<1>5. QED
  BY <1>3, <1>4 DEF LeftAt

(* A map whose devices all show a buffer that follows the program follows it. *)
LEMMA MapFollows ==
  ASSUME NEW map, NEW k \in 0 .. 2, k = Len(map), NEW n \in Nat, NEW buffer,
         \A d \in 1 .. k : heap[map[d]] = buffer,
         NEW size \in Nat, \A d \in 1 .. k : Devices[d].mask < size,
         BufferFollows(buffer, size, map, n)
  PROVE  FollowsProgram(map, n)
<1> SUFFICES ASSUME NEW a \in Mapped(map)
             PROVE  Shows(map, a) = Expected(map, n, Place(map, a))
  BY DEF FollowsProgram
<1>1. PICK d : d = Route(SubSeq(Devices, 1, Len(map)), a, 1)
  OBVIOUS
<1>2. a \in Nat /\ d # 0
  BY <1>1, AddrSpaceAssumption DEF Mapped, Word
<1>3. d \in 1 .. k
  BY <1>1, <1>2, MapRoute
<1>4. Devices[d].mask \in Nat /\ Devices[d].mask < size /\ heap[map[d]] = buffer
  <2>1. \A x \in 1 .. k : x \in 1 .. 2
    OBVIOUS
  <2>2. QED
    BY <1>3, <2>1, TwoDevices, Zenon
<1>5. PICK p : p = Offset(Devices[d], a)
  OBVIOUS
<1>6. Place(map, a) = p /\ Shows(map, a) = buffer[p]
  BY <1>1, <1>4, <1>5 DEF Place, Shows
<1>7. p \in 0 .. size - 1
  <2>1. \A m \in Nat : a % (m + 1) \in 0 .. m
    BY <1>2
  <2>2. p \in 0 .. Devices[d].mask
    BY <1>4, <1>5, <2>1 DEF Offset
  <2>3. QED
    BY <1>4, <2>2
<1>8. LeftAt(buffer[p], map, n, p)
  BY <1>7 DEF BufferFollows
<1>9. QED
  BY <1>6, <1>8, LeftAtIsExpected

(* Each side sees the image with its own stores in it and none of the other's:
   for every file, every program and every way the two sides take turns. *)
THEOREM SidesFollowProgram == CopiesSpec => []CopiesFollowProgram
<1>1. CopiesInv => CopiesFollowProgram
  <2> SUFFICES ASSUME CopiesInv, stage = "run"
               PROVE  FollowsProgram(dut, performed) /\ FollowsProgram(ref, executed)
    BY DEF CopiesFollowProgram
  <2>1. /\ setup \in {"main", "new_paddr_top"}
        /\ performed \in Nat /\ executed \in Nat
    <3>1. program \in Seq([addr : Word, size : 1 .. BusBytes, strb : Strobes, data : Words])
      BY ProgramsAssumption DEF CopiesInv
    <3>2. QED
      BY <3>1 DEF CopiesInv
  <2>2. CASE setup = "main"
    <3>1. /\ dut = <<1>> /\ ref = <<2>>
          /\ BufferFollows(heap[1], MemSize, dut, performed)
          /\ BufferFollows(heap[2], MemSize, ref, executed)
      BY <2>2 DEF CopiesInv
    <3>2. /\ Len(dut) = 1 /\ \A d \in 1 .. 1 : heap[dut[d]] = heap[1]
          /\ Len(ref) = 1 /\ \A d \in 1 .. 1 : heap[ref[d]] = heap[2]
          /\ MemSize \in Nat /\ \A d \in 1 .. 1 : Devices[d].mask < MemSize
      BY <2>1, <3>1, MemSizeFacts
    <3>3. FollowsProgram(dut, performed)
      BY <2>1, <3>1, <3>2, MapFollows
    <3>4. FollowsProgram(ref, executed)
      BY <2>1, <3>1, <3>2, MapFollows
    <3>5. QED
      BY <3>3, <3>4
  <2>3. CASE setup = "new_paddr_top"
    <3>1. /\ dut = <<>> /\ ref = <<1, 1>>
          /\ BufferFollows(heap[1], MemSize, ref, executed)
      BY <2>3 DEF CopiesInv
    <3>2. /\ Len(ref) = 2 /\ \A d \in 1 .. 2 : heap[ref[d]] = heap[1]
          /\ MemSize \in Nat /\ \A d \in 1 .. 2 : Devices[d].mask < MemSize
      BY <2>1, <2>3, <3>1, MemSizeFacts
    <3>3. FollowsProgram(ref, executed)
      BY <2>1, <3>1, <3>2, MapFollows
    <3>4. FollowsProgram(dut, performed)
      <4>1. Len(dut) = 0
        BY <3>1
      <4>2. \A a : Route(SubSeq(Devices, 1, Len(dut)), a, 1) = 0
        <5>1. ASSUME NEW a
              PROVE  Route(SubSeq(Devices, 1, Len(dut)), a, 1) = 0
          <6>1. PICK d : d = Route(SubSeq(Devices, 1, Len(dut)), a, 1)
            OBVIOUS
          <6>2. d # 0 => d \in 1 .. 0
            BY <4>1, <6>1, MapRoute
          <6>3. QED
            BY <6>1, <6>2
        <5>2. QED
          BY <5>1
      <4>3. QED
        BY <4>2 DEF FollowsProgram, Mapped
    <3>5. QED
      BY <3>3, <3>4
  <2>4. QED
    BY <2>1, <2>2, <2>3
<1>2. QED
  BY <1>1, CopiesInvariant, PTL

(* Neither loading the image nor a store of either side leaves its buffer. *)
THEOREM CopiesStayInside == CopiesSpec => []NoOverrun
<1>1. CopiesInv => NoOverrun
  BY DEF CopiesInv, NoOverrun
<1>2. QED
  BY <1>1, CopiesInvariant, PTL
=============================================================================
