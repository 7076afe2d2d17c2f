------------------------------ MODULE Geometry -------------------------------
(***************************************************************************)
(* How big a segment is, where its slots lie, and which endpoints may      *)
(* share it: the layout arithmetic of metadata.rs in usize, and the        *)
(* constructors of the typed and the Python endpoints that feed it.        *)
(*                                                                         *)
(* usize is the numbers below Modulus.  +, * and / are the release         *)
(* build's: they wrap around.  Opening is one step; the races between      *)
(* openers are Lifecycle's.                                                *)
(***************************************************************************)
EXTENDS Integers

CONSTANTS
    Modulus,    \* 2^w of a w-bit usize
    Page,       \* what the system rounds the length of a mapping up to
    Endpoints,
    Lengths,    \* values of entry_length that callers pass
    Counts      \* values of entry_count that callers pass

ASSUME UsizeAssumption ==
    /\ Modulus \in Nat /\ Modulus % 8 = 0 /\ Modulus > 80
    /\ Page \in Nat \ {0}
    /\ Lengths \cup Counts \subseteq 0 .. Modulus - 1

VARIABLES
    seg,  \* the named segment: its mapped length and, once ready, its header
    ep    \* what each endpoint is bound to, and the length it asked for

vars == <<seg, ep>>

Usize == 0 .. Modulus - 1
Dtypes == {"u8", "i64", "f64"}
Unasked == -1

Segment == [state : {"none", "reserved", "ready"}, len : Nat,
            payload : Usize, count : Usize, dtype : Dtypes]
Endpoint == [bound : BOOLEAN, payload : Usize, count : Usize, dtype : Dtypes,
             asked : Usize \cup {Unasked}]

NoSegment ==
    [state |-> "none", len |-> 0, payload |-> 0, count |-> 0, dtype |-> "u8"]
Closed ==
    [bound |-> FALSE, payload |-> 0, count |-> 0, dtype |-> "u8",
     asked |-> Unasked]

Init ==
    /\ seg = NoSegment
    /\ ep = [e \in Endpoints |-> Closed]

-----------------------------------------------------------------------------

HeaderBytes == 72
SlotAlign == 8
SizeOf(dtype) == IF dtype = "u8" THEN 1 ELSE 8

(* entry_bytes, required_bytes, payload_offset and seq_cell's offset.      *)
Wrap(n) == n % Modulus
EntryBytes(payload) == Wrap(SlotAlign + payload)
RequiredBytes(payload, count) == Wrap(HeaderBytes + count * EntryBytes(payload))
SeqOffset(payload, i) == Wrap(HeaderBytes + i * EntryBytes(payload))
PayloadOffset(payload, i) == Wrap(SeqOffset(payload, i) + SlotAlign)

(* check_geometry *)
CheckGeometry(payload, count) ==
    /\ payload # 0 /\ count # 0
    /\ payload % SlotAlign = 0

(* check_dtype: u8 is opaque, any other type must match.  Faulty variant:  *)
(* an opaque segment is open to any type as well.                          *)
CheckDtypeBothWays(dtype) == "u8" \in {dtype, seg.dtype} \/ dtype = seg.dtype
CheckDtype(dtype) == dtype = "u8" \/ dtype = seg.dtype

(* validate_header *)
ValidateHeader(payload, count) == seg.payload = payload /\ seg.count = count

(* The bytes an entry of n elements takes: Writer<T>, Reader<T> ...        *)
(* Faulty variant: the product wraps.                                      *)
SaturatingMulWraps(n, k) == (n * k) % Modulus
SaturatingMul(n, k) == IF n * k < Modulus THEN n * k ELSE Modulus - 1
TypedBytes(dtype, n) == SaturatingMul(n, SizeOf(dtype))

(* ... and the Python classes, which have no i64. *)
PyBytes(dtype, n) == IF dtype = "u8" THEN n ELSE SaturatingMul(n, 8)

-----------------------------------------------------------------------------

(* RawWriter::attach and RawReader::attach take the geometry of the header.*)
Bind(e, s, dtype, n) ==
    ep' = [ep EXCEPT ![e] = [bound |-> TRUE, payload |-> s.payload,
                             count |-> s.count, dtype |-> dtype,
                             asked |-> n]]

Ready(len, payload, count, dtype) ==
    [state |-> "ready", len |-> len, payload |-> payload, count |-> count,
     dtype |-> dtype]

RoundUp(n) == ((n + Page - 1) \div Page) * Page

(* create_segment: the name is free.  A mapping of no bytes is refused.    *)
Create(e, payload, count, dtype, n) ==
    /\ seg.state = "none"
    /\ RequiredBytes(payload, count) # 0
    /\ seg' = Ready(RoundUp(RequiredBytes(payload, count)), payload, count,
                    dtype)
    /\ Bind(e, seg', dtype, n)

(* The creator dies between reserving the name and writing the header. *)
Abandon(payload, count) ==
    /\ seg.state = "none"
    /\ RequiredBytes(payload, count) # 0
    /\ seg' = [NoSegment EXCEPT
                 !.state = "reserved",
                 !.len = RoundUp(RequiredBytes(payload, count))]
    /\ UNCHANGED ep

(* open_or_create finds a header, and it is the one asked for. *)
Adopt(e, payload, count, dtype, n) ==
    /\ seg.state = "ready"
    /\ ValidateHeader(payload, count)
    /\ CheckDtype(dtype)
    /\ Bind(e, seg, dtype, n)
    /\ UNCHANGED seg

(* open_or_create finds no header: an abandoned segment is laid out anew   *)
(* if it is large enough.  Faulty variant: its length is not looked at.    *)
LargeEnoughAlways(payload, count) == TRUE
LargeEnough(payload, count) == seg.len >= RequiredBytes(payload, count)

Reinitialise(e, payload, count, dtype, n) ==
    /\ seg.state = "reserved"
    /\ LargeEnough(payload, count)
    /\ seg' = Ready(seg.len, payload, count, dtype)
    /\ Bind(e, seg', dtype, n)

(* open_or_create with a geometry.  A rejected call changes nothing. *)
Supply(e, payload, dtype, n) ==
    /\ ~ep[e].bound
    /\ \E count \in Counts :
         /\ CheckGeometry(payload, count)
         /\ \/ Create(e, payload, count, dtype, n)
            \/ Abandon(payload, count)
            \/ Adopt(e, payload, count, dtype, n)
            \/ Reinitialise(e, payload, count, dtype, n)

(* Writer<T>::new, Reader<T>::new and Reader<T>::new_zero_copy. *)
OpenTyped(e, dtype, n) == Supply(e, TypedBytes(dtype, n), dtype, n)

(* The constructors of BytesWriter, BytesReader, Float64Writer and         *)
(* Float64Reader.                                                          *)
OpenPy(e, dtype, n) ==
    /\ dtype # "i64"
    /\ Supply(e, PyBytes(dtype, n), dtype, n)

(* try_attach: no geometry is supplied, at once or when a deferred         *)
(* endpoint is called again.                                               *)
Attach(e, dtype) ==
    /\ ~ep[e].bound
    /\ seg.state = "ready"
    /\ seg.payload # 0 /\ seg.count # 0
    /\ CheckDtype(dtype)
    /\ Bind(e, seg, dtype, Unasked)
    /\ UNCHANGED seg

(* A tenant is dropped, or a process ends.  The segment stays: who unlinks *)
(* its name, and what becomes of those still bound to it, is Lifecycle's.  *)
Close(e) ==
    /\ ep[e].bound
    /\ ep' = [ep EXCEPT ![e] = Closed]
    /\ UNCHANGED seg

Next ==
    \E e \in Endpoints :
        \/ Close(e)
        \/ \E dtype \in Dtypes :
             \/ Attach(e, dtype)
             \/ \E n \in Lengths : OpenTyped(e, dtype, n) \/ OpenPy(e, dtype, n)

Spec == Init /\ [][Next]_vars

-----------------------------------------------------------------------------

(* entry_length: what an endpoint tells its caller. *)
EntryLength(e) == ep[e].payload \div SizeOf(ep[e].dtype)

(* Sizes are usize values, the mapped length a natural number. *)
TypeOK ==
    /\ seg \in Segment
    /\ ep \in [Endpoints -> Endpoint]

(* Every slot a bound endpoint addresses lies behind the header and inside *)
(* the mapping, its control word is aligned, and the next slot starts      *)
(* where its payload ends: "Create the segment with header_bytes +         *)
(* entry_count x entry_bytes bytes".                                       *)
SlotsInside ==
    \A e \in Endpoints : ep[e].bound =>
        \A i \in 0 .. ep[e].count - 1 :
            LET p == ep[e].payload
            IN  /\ SeqOffset(p, i) >= HeaderBytes
                /\ SeqOffset(p, i) % 8 = 0
                /\ PayloadOffset(p, i) + p <= seg.len
                /\ i > 0 => SeqOffset(p, i) = PayloadOffset(p, i - 1) + p

(* Endpoints of one segment agree on what an entry is: a typed endpoint    *)
(* never meets another element type or another number of elements, however *)
(* each of them came in.                                                   *)
ElementsAgree ==
    \A e, f \in Endpoints :
        /\ ep[e].bound /\ ep[f].bound
        /\ "u8" \notin {ep[e].dtype, ep[f].dtype}
        => /\ ep[e].dtype = ep[f].dtype
           /\ EntryLength(e) = EntryLength(f)
           /\ ep[e].count = ep[f].count

(* An endpoint that asked for a length has it, in whole elements: no size  *)
(* too large for usize is quietly replaced by another one.                 *)
LengthHonoured ==
    \A e \in Endpoints :
        ep[e].bound /\ ep[e].asked # Unasked
            => /\ EntryLength(e) = ep[e].asked
               /\ ep[e].payload = EntryLength(e) * SizeOf(ep[e].dtype)
=============================================================================
