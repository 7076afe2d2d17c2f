--------------------------- MODULE GeometryProofs ----------------------------
(***************************************************************************)
(* Layout and geometry for every width of usize, every page size, every    *)
(* length and count a caller passes and any number of endpoints.  That     *)
(* endpoints agree on what an entry is, and get the length they asked for, *)
(* needs no assumption on the sizes; that slots lie inside the mapping     *)
(* needs the sum in required_bytes to fit usize, which nothing in the code *)
(* checks.                                                                 *)
(***************************************************************************)
EXTENDS Geometry, TLAPS

(* No geometry that check_geometry lets through is too large for usize:    *)
(* elements take one byte or eight, and products saturate.                 *)
SizesFit ==
    \A n \in Lengths, count \in Counts, k \in {1, 8} :
        CheckGeometry(SaturatingMul(n, k), count) =>
            HeaderBytes + count * (SlotAlign + SaturatingMul(n, k)) < Modulus

(* The header of a segment that has one passed check_geometry, and its     *)
(* mapping is not smaller than what required_bytes came to.                *)
SegmentSound ==
    seg.state = "ready" =>
        /\ CheckGeometry(seg.payload, seg.count)
        /\ RequiredBytes(seg.payload, seg.count) <= seg.len
        /\ SizesFit => HeaderBytes + seg.count * (SlotAlign + seg.payload)
                         < Modulus

(* A bound endpoint has the geometry of the header, as a type that may     *)
(* share it, and the bytes its elements take.                              *)
BoundSound(m) ==
    m.bound =>
        /\ seg.state = "ready"
        /\ m.payload = seg.payload /\ m.count = seg.count
        /\ m.dtype \in {"u8", seg.dtype}
        /\ m.asked # Unasked => m.payload = m.asked * SizeOf(m.dtype)

GeometryInv ==
    /\ TypeOK
    /\ SegmentSound
    /\ \A e \in Endpoints : BoundSound(ep[e])

-----------------------------------------------------------------------------

(* Products of naturals. *)
LEMMA Products ==
    ASSUME NEW a \in Nat, NEW b \in Nat, NEW c \in Nat, a <= b
    PROVE  /\ a * c \in Nat /\ b * c \in Nat
           /\ a * c <= b * c
           /\ (a + 1) * c = a * c + c
OBVIOUS

(* A mapping's length is a natural number, and not less than what was      *)
(* asked for.                                                              *)
LEMMA RoundUpFacts ==
    ASSUME NEW n \in Nat
    PROVE  RoundUp(n) \in Nat /\ n <= RoundUp(n)
<1> DEFINE q == (n + Page - 1) \div Page
<1>1. Page \in Nat /\ Page > 0
  BY UsizeAssumption
<1>2. n + Page - 1 \in Nat
  BY <1>1
<1>3. q \in Int /\ Page * q <= n + Page - 1 /\ n + Page - 1 < Page * q + Page
  BY <1>1, <1>2
<1>4. q \in Nat
  BY <1>1, <1>2
<1> HIDE DEF q
<1>5. q * Page = Page * q /\ Page * q \in Nat
  BY <1>1, <1>4
<1>6. RoundUp(n) = q * Page
  BY DEF RoundUp, q
<1> QED
  BY <1>1, <1>3, <1>5, <1>6

(* What wraps is a usize. *)
LEMMA WrapFacts ==
    ASSUME NEW n \in Nat
    PROVE  Wrap(n) \in Usize /\ (n < Modulus => Wrap(n) = n)
BY UsizeAssumption DEF Wrap, Usize

(* required_bytes is a usize. *)
LEMMA RequiredFacts ==
    ASSUME NEW payload \in Usize, NEW count \in Usize
    PROVE  RequiredBytes(payload, count) \in Nat
<1>1. payload \in Nat /\ count \in Nat
  BY UsizeAssumption DEF Usize
<1>2. EntryBytes(payload) \in Nat
  <2>1. SlotAlign + payload \in Nat
    BY <1>1 DEF SlotAlign
  <2> QED
    BY <2>1, WrapFacts DEF EntryBytes, Usize
<1>3. HeaderBytes + count * EntryBytes(payload) \in Nat
  <2>1. count * EntryBytes(payload) \in Nat
    BY <1>1, <1>2
  <2> QED
    BY <2>1 DEF HeaderBytes
<1> QED
  BY <1>3, WrapFacts DEF RequiredBytes, Usize

(* The sizes of element types. *)
LEMMA SizeFacts ==
    ASSUME NEW dtype \in Dtypes
    PROVE  SizeOf(dtype) \in {1, 8}
BY DEF SizeOf

(* A length whose bytes do not fit usize saturates to a number that is no  *)
(* multiple of eight: check_geometry refuses it.  Any other one is taken   *)
(* as it is.                                                               *)
LEMMA Saturation ==
    ASSUME NEW n \in Lengths, NEW k \in {1, 8}, NEW count \in Counts
    PROVE  /\ SaturatingMul(n, k) \in Usize
           /\ CheckGeometry(SaturatingMul(n, k), count)
                => SaturatingMul(n, k) = n * k
<1>1. n \in Nat /\ n < Modulus /\ Modulus \in Nat /\ Modulus > 80
  BY UsizeAssumption
<1>2. n * k \in Nat
  BY <1>1
<1>3. SaturatingMul(n, k) \in Usize
  BY <1>1, <1>2 DEF SaturatingMul, Usize
<1>4. (Modulus - 1) % 8 = 7
  BY UsizeAssumption
<1> QED
  BY <1>3, <1>4 DEF SaturatingMul, CheckGeometry, SlotAlign

(* The constructors' sizes, typed and Python, are such products.           *)
LEMMA ConstructorBytes ==
    ASSUME NEW n \in Lengths, NEW dtype \in Dtypes
    PROVE  /\ TypedBytes(dtype, n) = SaturatingMul(n, SizeOf(dtype))
           /\ dtype # "i64" => PyBytes(dtype, n) = SaturatingMul(n, SizeOf(dtype))
<1>1. n \in Nat /\ n < Modulus
  BY UsizeAssumption
<1>2. SaturatingMul(n, 1) = n
  BY <1>1 DEF SaturatingMul
<1> QED
  BY <1>2 DEF TypedBytes, PyBytes, SizeOf, Dtypes

-----------------------------------------------------------------------------

(* An endpoint is bound to what the header says, and nobody is bound to a  *)
(* segment whose header is only now laid down.                             *)
LEMMA BindStep ==
    ASSUME GeometryInv, NEW e \in Endpoints, NEW dtype \in Dtypes,
           NEW n \in Usize \cup {Unasked}, NEW s \in Segment,
           seg' = s, Bind(e, s, dtype, n), s.state = "ready", SegmentSound',
           dtype \in {"u8", s.dtype},
           n # Unasked => s.payload = n * SizeOf(dtype),
           s = seg \/ seg.state # "ready"
    PROVE  GeometryInv'
<1> DEFINE m == [bound |-> TRUE, payload |-> s.payload,
                 count |-> s.count, dtype |-> dtype, asked |-> n]
<1>1. /\ ep \in [Endpoints -> Endpoint]
      /\ \A f \in Endpoints : BoundSound(ep[f])
  BY DEF GeometryInv, TypeOK
<1>2. s.payload \in Usize /\ s.count \in Usize
  BY DEF Segment
<1>3. m \in Endpoint
  BY <1>2 DEF Endpoint
<1>4. BoundSound(m)'
  BY DEF BoundSound
<1>5. ep' = [ep EXCEPT ![e] = m]
  BY DEF Bind
<1> HIDE DEF m
<1>6. ep'[e] = m /\ \A f \in Endpoints : f # e => ep'[f] = ep[f]
  BY <1>1, <1>5
<1>7. TypeOK'
  BY <1>1, <1>3, <1>5 DEF TypeOK
<1>8. ASSUME NEW f \in Endpoints PROVE BoundSound(ep[f])'
  <2>1. CASE f = e
    BY <1>4, <1>6, <2>1 DEF BoundSound
  <2>2. CASE f # e
    BY <1>1, <1>6, <2>2 DEF BoundSound
  <2> QED
    BY <2>1, <2>2
<1> QED
  BY <1>7, <1>8 DEF GeometryInv

(* open_or_create with a geometry, in each of the states it may find the   *)
(* segment in.                                                             *)
LEMMA SupplyStep ==
    ASSUME GeometryInv, NEW e \in Endpoints, NEW dtype \in Dtypes,
           NEW n \in Lengths, NEW p, p = SaturatingMul(n, SizeOf(dtype)),
           Supply(e, p, dtype, n)
    PROVE  GeometryInv'
<1>1. /\ seg \in Segment /\ ep \in [Endpoints -> Endpoint]
      /\ seg.len \in Nat /\ seg.payload \in Usize /\ seg.count \in Usize
      /\ SegmentSound
      /\ \A f \in Endpoints : BoundSound(ep[f])
  BY DEF GeometryInv, TypeOK, Segment
<1>2. PICK count \in Counts :
        /\ CheckGeometry(p, count)
        /\ \/ Create(e, p, count, dtype, n)
           \/ Abandon(p, count)
           \/ Adopt(e, p, count, dtype, n)
           \/ Reinitialise(e, p, count, dtype, n)
  BY DEF Supply
<1>3. SizeOf(dtype) \in {1, 8}
  BY SizeFacts
<1>4. p \in Usize /\ p = n * SizeOf(dtype)
  BY <1>2, <1>3, Saturation
<1>5. count \in Usize /\ n \in Usize
  BY UsizeAssumption DEF Usize
<1>6. SizesFit => HeaderBytes + count * (SlotAlign + p) < Modulus
  BY <1>2, <1>3, <1>4 DEF SizesFit
<1>7. RequiredBytes(p, count) \in Nat
  BY <1>4, <1>5, RequiredFacts
<1>8. /\ RoundUp(RequiredBytes(p, count)) \in Nat
      /\ RequiredBytes(p, count) <= RoundUp(RequiredBytes(p, count))
  BY <1>7, RoundUpFacts
<1>9. ASSUME NEW len \in Nat, RequiredBytes(p, count) <= len,
             seg' = Ready(len, p, count, dtype), seg.state # "ready",
             Bind(e, seg', dtype, n)
      PROVE  GeometryInv'
  <2>1. seg' \in Segment
    BY <1>4, <1>5, <1>9 DEF Ready, Segment
  <2>2. /\ seg'.state = "ready" /\ seg'.payload = p /\ seg'.count = count
        /\ seg'.dtype = dtype /\ seg'.len = len
    BY <1>9 DEF Ready
  <2>3. SegmentSound'
    BY <1>2, <1>6, <1>9, <2>2 DEF SegmentSound
  <2> QED
    BY <1>4, <1>5, <1>9, <2>1, <2>2, <2>3, BindStep
<1>10. CASE Create(e, p, count, dtype, n)
  BY <1>8, <1>9, <1>10 DEF Create
<1>11. CASE Abandon(p, count)
  <2> DEFINE len == RoundUp(RequiredBytes(p, count))
  <2>1. /\ seg.state = "none" /\ ep' = ep
        /\ seg' = [NoSegment EXCEPT !.state = "reserved", !.len = len]
    BY <1>11 DEF Abandon
  <2>2. NoSegment \in Segment
    BY UsizeAssumption DEF NoSegment, Segment, Usize, Dtypes
  <2> HIDE DEF len
  <2>3. seg' \in Segment /\ seg'.state = "reserved"
    BY <1>8, <2>1, <2>2 DEF Segment, len
  <2>4. \A f \in Endpoints : ~ep[f].bound
    BY <1>1, <2>1 DEF BoundSound
  <2>5. TypeOK' /\ SegmentSound'
    BY <1>1, <2>1, <2>3 DEF TypeOK, SegmentSound
  <2> QED
    BY <2>1, <2>4, <2>5 DEF GeometryInv, BoundSound
<1>12. CASE Adopt(e, p, count, dtype, n)
  <2>1. /\ seg.state = "ready" /\ seg.payload = p /\ seg' = seg
        /\ dtype \in {"u8", seg.dtype}
        /\ Bind(e, seg', dtype, n)
    BY <1>12 DEF Adopt, ValidateHeader, CheckDtype
  <2>2. SegmentSound'
    BY <1>1, <2>1 DEF SegmentSound
  <2> QED
    BY <1>1, <1>4, <1>5, <2>1, <2>2, BindStep
<1>13. CASE Reinitialise(e, p, count, dtype, n)
  BY <1>1, <1>9, <1>13 DEF Reinitialise, LargeEnough
<1> QED
  BY <1>2, <1>10, <1>11, <1>12, <1>13

(* It holds at first ... *)
LEMMA GeometryInit == Init => GeometryInv
<1> SUFFICES ASSUME Init PROVE GeometryInv
  OBVIOUS
<1>1. NoSegment \in Segment /\ Closed \in Endpoint
  BY UsizeAssumption DEF NoSegment, Closed, Segment, Endpoint, Usize, Dtypes
<1>2. NoSegment.state = "none" /\ ~Closed.bound
  BY DEF NoSegment, Closed
<1> QED
  BY <1>1, <1>2 DEF Init, GeometryInv, TypeOK, SegmentSound, BoundSound

(* ... and every step keeps it. *)
LEMMA GeometryStep ==
    ASSUME GeometryInv, [Next]_vars
    PROVE  GeometryInv'
<1>1. ASSUME NEW e \in Endpoints, Close(e) PROVE GeometryInv'
  <2>1. Closed \in Endpoint /\ ~Closed.bound
    BY UsizeAssumption DEF Closed, Endpoint, Usize, Dtypes
  <2>2. seg' = seg /\ ep' = [ep EXCEPT ![e] = Closed]
    BY <1>1 DEF Close
  <2>3. TypeOK' /\ SegmentSound'
    BY <2>1, <2>2 DEF GeometryInv, TypeOK, SegmentSound
  <2>4. ASSUME NEW f \in Endpoints PROVE BoundSound(ep[f])'
    BY <2>1, <2>2 DEF GeometryInv, TypeOK, BoundSound
  <2> QED
    BY <2>3, <2>4 DEF GeometryInv
<1>2. ASSUME NEW e \in Endpoints, NEW dtype \in Dtypes, Attach(e, dtype)
      PROVE  GeometryInv'
  <2>1. /\ seg.state = "ready" /\ seg' = seg /\ dtype \in {"u8", seg.dtype}
        /\ Bind(e, seg', dtype, Unasked)
    BY <1>2 DEF Attach, CheckDtype
  <2>2. seg' \in Segment /\ SegmentSound'
    BY <2>1 DEF GeometryInv, TypeOK, SegmentSound
  <2> QED
    BY <2>1, <2>2, BindStep
<1>3. ASSUME NEW e \in Endpoints, NEW dtype \in Dtypes, NEW n \in Lengths,
             OpenTyped(e, dtype, n) \/ OpenPy(e, dtype, n)
      PROVE  GeometryInv'
  BY <1>3, ConstructorBytes, SupplyStep DEF OpenTyped, OpenPy
<1>4. CASE UNCHANGED vars
  BY <1>4 DEF vars, GeometryInv, TypeOK, SegmentSound, BoundSound
<1> QED
  BY <1>1, <1>2, <1>3, <1>4 DEF Next

-----------------------------------------------------------------------------

(* What is known of a segment and its endpoints in every behaviour. *)
LEMMA GeometrySafety == Spec => []GeometryInv
<1>1. GeometryInv /\ [Next]_vars => GeometryInv'
  BY GeometryStep
<1> QED
  BY <1>1, GeometryInit, PTL DEF Spec

(* check_dtype and validate_header keep two typed endpoints of a segment   *)
(* from taking its entries for different things, whether they created it,  *)
(* adopted it, laid it out anew or attached to it.                         *)
THEOREM GeometryElementsAgree == Spec => []ElementsAgree
<1>1. GeometryInv => ElementsAgree
  BY DEF GeometryInv, BoundSound, ElementsAgree, EntryLength
<1> QED
  BY <1>1, GeometrySafety, PTL

(* An endpoint that asked for a length has it: a product that saturates is *)
(* refused by check_geometry, for every width of usize.                    *)
THEOREM GeometryLengthHonoured == Spec => []LengthHonoured
<1>1. ASSUME GeometryInv PROVE LengthHonoured
  <2> SUFFICES ASSUME NEW e \in Endpoints, ep[e].bound, ep[e].asked # Unasked
               PROVE  /\ EntryLength(e) = ep[e].asked
                      /\ ep[e].payload = EntryLength(e) * SizeOf(ep[e].dtype)
    BY DEF LengthHonoured
  <2>1. ep[e].dtype \in Dtypes /\ ep[e].asked \in Nat
    BY <1>1, UsizeAssumption DEF GeometryInv, TypeOK, Endpoint, Usize
  <2>2. ep[e].payload = ep[e].asked * SizeOf(ep[e].dtype)
    BY <1>1 DEF GeometryInv, BoundSound
  <2>3. SizeOf(ep[e].dtype) \in {1, 8}
    BY <2>1, SizeFacts
  <2> QED
    BY <2>1, <2>2, <2>3 DEF EntryLength
<1> QED
  BY <1>1, GeometrySafety, PTL

(* The layout of a geometry that fits usize: nothing wraps, slots follow   *)
(* one another from the header on, and they are aligned.                   *)
LEMMA Layout ==
    ASSUME NEW p \in Nat, NEW count \in Nat, CheckGeometry(p, count),
           HeaderBytes + count * (SlotAlign + p) < Modulus,
           NEW i \in 0 .. count - 1
    PROVE  /\ SeqOffset(p, i) = HeaderBytes + i * (SlotAlign + p)
           /\ PayloadOffset(p, i) = SeqOffset(p, i) + SlotAlign
           /\ PayloadOffset(p, i) + p <= RequiredBytes(p, count)
           /\ SeqOffset(p, i) >= HeaderBytes
           /\ SeqOffset(p, i) % 8 = 0
<1> DEFINE E == SlotAlign + p
<1>1. E \in Nat /\ E = 8 + p /\ HeaderBytes = 72 /\ Modulus \in Nat
  BY UsizeAssumption DEF SlotAlign, HeaderBytes
<1>2. i \in Nat /\ i + 1 <= count /\ i + 1 \in Nat /\ 1 <= count
  OBVIOUS
<1>3. /\ i * E \in Nat /\ count * E \in Nat
      /\ (i + 1) * E <= count * E
      /\ (i + 1) * E = i * E + E
  <2>1. i <= i /\ i + 1 <= count
    BY <1>2
  <2> HIDE DEF E
  <2> QED
    BY <1>1, <1>2, <2>1, Products
<1>4. 72 + count * E < Modulus
  BY <1>1
<1>5. EntryBytes(p) = E
  <2>1. E < Modulus
    <3> HIDE DEF E
    <3> QED BY <1>1, <1>3, <1>4
  <2> QED
    BY <1>1, <2>1, WrapFacts DEF EntryBytes
<1>6. i * E + E <= count * E
  BY <1>3
<1>7. \E q \in Nat : p = 8 * q
  BY DEF CheckGeometry, SlotAlign
<1> HIDE DEF E
<1>8. SeqOffset(p, i) = 72 + i * E
  <2>1. 72 + i * E \in Nat /\ 72 + i * E < Modulus
    BY <1>1, <1>3, <1>4, <1>6
  <2> QED
    BY <1>1, <1>5, <2>1, WrapFacts DEF SeqOffset
<1>9. RequiredBytes(p, count) = 72 + count * E
  <2>1. 72 + count * E \in Nat
    BY <1>3
  <2> QED
    BY <1>1, <1>4, <1>5, <2>1, WrapFacts DEF RequiredBytes
<1>10. PayloadOffset(p, i) = 72 + i * E + 8
  <2>1. 72 + i * E + 8 \in Nat /\ 72 + i * E + 8 < Modulus
    BY <1>1, <1>3, <1>4, <1>6
  <2> QED
    BY <1>8, <2>1, WrapFacts DEF PayloadOffset, SlotAlign
<1>11. (72 + i * E) % 8 = 0
  <2>1. PICK q \in Nat : p = 8 * q
    BY <1>7
  <2>2. E = 8 * (1 + q)
    BY <1>1, <2>1
  <2>3. i * E = 8 * (i * (1 + q)) /\ i * (1 + q) \in Nat
    BY <1>2, <2>2
  <2>4. \A k \in Nat : (72 + 8 * k) % 8 = 0
    OBVIOUS
  <2> QED
    BY <2>3, <2>4
<1> QED
  BY <1>1, <1>3, <1>6, <1>8, <1>9, <1>10, <1>11 DEF SlotAlign, E

(* When the sizes fit usize, every slot a bound endpoint addresses lies    *)
(* behind the header and inside the mapping, aligned, and apart from the   *)
(* others.                                                                 *)
THEOREM GeometrySlotsInside ==
    ASSUME SizesFit
    PROVE  Spec => []SlotsInside
<1>1. ASSUME GeometryInv PROVE SlotsInside
  <2> SUFFICES ASSUME NEW e \in Endpoints, ep[e].bound,
                      NEW i \in 0 .. ep[e].count - 1
               PROVE  /\ SeqOffset(ep[e].payload, i) >= HeaderBytes
                      /\ SeqOffset(ep[e].payload, i) % 8 = 0
                      /\ PayloadOffset(ep[e].payload, i) + ep[e].payload
                           <= seg.len
                      /\ i > 0 => SeqOffset(ep[e].payload, i) =
                           PayloadOffset(ep[e].payload, i - 1) + ep[e].payload
    BY DEF SlotsInside
  <2> DEFINE p == ep[e].payload
             count == ep[e].count
  <2>1. p = seg.payload /\ count = seg.count /\ seg.state = "ready"
    BY <1>1 DEF GeometryInv, BoundSound
  <2>2. p \in Nat /\ count \in Nat /\ seg.len \in Nat
    BY <1>1, UsizeAssumption DEF GeometryInv, TypeOK, Endpoint, Segment, Usize
  <2>3. /\ CheckGeometry(p, count)
        /\ RequiredBytes(p, count) <= seg.len
        /\ HeaderBytes + count * (SlotAlign + p) < Modulus
    BY <1>1, <2>1 DEF GeometryInv, SegmentSound
  <2> HIDE DEF p, count
  <2>4. i \in 0 .. count - 1
    BY DEF count
  <2>5. /\ SeqOffset(p, i) = HeaderBytes + i * (SlotAlign + p)
        /\ PayloadOffset(p, i) + p <= RequiredBytes(p, count)
        /\ SeqOffset(p, i) >= HeaderBytes
        /\ SeqOffset(p, i) % 8 = 0
        /\ PayloadOffset(p, i) = SeqOffset(p, i) + SlotAlign
    BY <2>2, <2>3, <2>4, Layout
  <2>6. i > 0 => SeqOffset(p, i) = PayloadOffset(p, i - 1) + p
    <3> SUFFICES ASSUME i > 0 PROVE SeqOffset(p, i) = PayloadOffset(p, i - 1) + p
      OBVIOUS
    <3>1. i - 1 \in 0 .. count - 1 /\ i - 1 \in Nat
      BY <2>2, <2>4
    <3>2. PayloadOffset(p, i - 1)
            = HeaderBytes + (i - 1) * (SlotAlign + p) + SlotAlign
      BY <2>2, <2>3, <3>1, Layout
    <3>3. SlotAlign + p \in Nat
      BY <2>2 DEF SlotAlign
    <3>4. i * (SlotAlign + p) = (i - 1) * (SlotAlign + p) + (SlotAlign + p)
      BY <3>1, <3>3
    <3>5. (i - 1) * (SlotAlign + p) \in Nat
      BY <3>1, <3>3
    <3> QED
      BY <2>2, <2>5, <3>2, <3>4, <3>5 DEF SlotAlign, HeaderBytes
  <2>7. PayloadOffset(p, i) + p <= seg.len
    <3>1. SeqOffset(p, i) \in Int
      <4>1. i * (SlotAlign + p) \in Int
        BY <2>2, <2>4 DEF SlotAlign
      <4> QED
        BY <2>5, <4>1 DEF HeaderBytes
    <3>2. RequiredBytes(p, count) \in Int /\ PayloadOffset(p, i) + p \in Int
      BY <2>2, <2>5, <3>1, UsizeAssumption DEF RequiredBytes, Wrap, SlotAlign,
         HeaderBytes, EntryBytes
    <3> QED
      BY <2>2, <2>3, <2>5, <3>2
  <2> QED
    BY <2>5, <2>6, <2>7 DEF p
<1> QED
  BY <1>1, GeometrySafety, PTL
=============================================================================
