-------------------------- MODULE LifecycleProofs ----------------------------
(***************************************************************************)
(* What opening, claiming, dropping and dying leave of a channel, for any  *)
(* number of endpoints, processes, segments and deaths, when suppliers of  *)
(* a geometry open one after the other.                                    *)
(*                                                                         *)
(* The invariant comes in layers.  Headers needs the order of the          *)
(* suppliers only.  Claims needs PIDs to name the processes they always    *)
(* named.  Names holds until a process dies or somebody calls unlink.      *)
(***************************************************************************)
EXTENDS Lifecycle, TLAPS

(* Suppliers wait for one another's open. *)
OpenInTurn == Orderly = TRUE

Unmapped == {"closed", "create", "open", "deferred", "dead"}
Laying == {"zero", "stamp", "magic"}
Bidding == {"deed", "adopt deed"}
Adopting == {"adopt deed", "adopt role"}
Accepting == {"deed", "adopt deed", "role", "adopt role", "bound", "unmap"}

(* Where an endpoint e may be, given the headers sg.  It maps a segment    *)
(* exactly while its call needs one; only suppliers create, initialise and *)
(* bid.  There is no magic while the header is laid down, the supplier's   *)
(* words are under it before it is there, and it is there for all who went *)
(* past it.                                                                *)
Placed(e, m, sg) ==
    /\ m.map = NoSeg <=> m.pc \in Unmapped
    /\ m.own => m.map # NoSeg
    /\ m.pc \in {"create", "check"} \cup Laying \cup Bidding => e \in Suppliers
    /\ m.pc \in Laying => ~sg[m.map].magic
    /\ m.pc \in {"magic", "check"}
         => sg[m.map].geometry = GeometryOf[e] /\ sg[m.map].owner = ProcOf[e]
    /\ m.pc = "check" \/ (m.own /\ m.pc \notin Laying) => sg[m.map].magic
    /\ m.pc \in Accepting
         => sg[m.map].magic /\ sg[m.map].geometry \in Accepted[e]
    /\ m.pc = "adopt role" => RoleOf[e] \in Roles

AllPlaced == \A e \in Endpoints : Placed(e, ep[e], seg)

(* A header with its magic names an owner. *)
Owned == \A s \in Segments : seg[s].magic => seg[s].owner \in Procs

(* Who is not dead lives in a live process. *)
Running ==
    /\ \A e \in Endpoints : ep[e].pc # "dead" => ProcOf[e] \in alive
    /\ deaths = 0 => alive = Procs

(* One supplier at a time is on its way. *)
InTurn ==
    \A e, f \in Suppliers :
        ep[e].pc \in Opening /\ ep[f].pc \in Opening => e = f

(* Nobody bids for or has the deed that the initialiser is about to take.  *)
CheckAlone ==
    \A e, f \in Endpoints :
        ep[e].pc = "check" /\ e # f /\ ep[e].map = ep[f].map
          => ep[f].pc \notin Bidding /\ ~ep[f].own

HeaderInv ==
    TypeOK /\ AllPlaced /\ Owned /\ Running /\ InTurn /\ CheckAlone

(* A PID in the header is that of the process that wrote it. *)
PidsFaithful == ~ReusePids \/ deaths = 0

(* Who was looked up as dead is dead, and the words for the deed and the   *)
(* role name those who have them.                                          *)
Claimed(e, m, sg) ==
    /\ m.pc \in Adopting => m.saw \notin alive
    /\ m.own /\ m.pc \notin Laying => sg[m.map].owner = ProcOf[e]
    /\ m.pc = "bound" /\ RoleOf[e] \in Roles
         => sg[m.map].role[RoleOf[e]] = ProcOf[e]

OwnExclusive ==
    \A e, f \in Endpoints :
        ep[e].own /\ ep[f].own /\ ep[e].map = ep[f].map => e = f

Claims ==
    /\ \A e \in Endpoints : Claimed(e, ep[e], seg)
    /\ RolesExclusive
    /\ OwnExclusive

(* While nobody dies or unlinks, the name goes with the deed, and a        *)
(* segment without magic is being initialised by its creator.              *)
Undisturbed == deaths = 0 /\ ~AllowUnlink

Names ==
    /\ \A e \in Endpoints : ep[e].own => linked = ep[e].map
    /\ \A e \in Endpoints :
         ep[e].pc = "check" \/ ep[e].pc \in Laying => ep[e].own
    /\ \A s \in Segments :
         InUse(s, linked, ep) /\ ~seg[s].magic
           => \E e \in Endpoints : ep[e].pc \in Laying /\ ep[e].map = s

LifecycleInv ==
    /\ HeaderInv
    /\ PidsFaithful => Claims
    /\ Undisturbed => Names

-----------------------------------------------------------------------------

(* The fields of a state that is of its type. *)
LEMMA FieldTypes ==
    ASSUME TypeOK
    PROVE  /\ \A e \in Endpoints :
                /\ ep[e] \in Endpoint
                /\ ep[e].pc \in EndpointPc
                /\ ep[e].map \in Segments \cup {NoSeg}
                /\ ep[e].own \in BOOLEAN
                /\ ep[e].saw \in Pids
           /\ \A s \in Segments :
                /\ seg[s] \in Segment
                /\ seg[s].size \in Nat
                /\ seg[s].magic \in BOOLEAN
                /\ seg[s].geometry \in Nat
                /\ seg[s].owner \in Pids
                /\ seg[s].role \in [Roles -> Pids]
<1>1. ASSUME NEW e \in Endpoints
      PROVE  /\ ep[e] \in Endpoint
             /\ ep[e].pc \in EndpointPc
             /\ ep[e].map \in Segments \cup {NoSeg}
             /\ ep[e].own \in BOOLEAN
             /\ ep[e].saw \in Pids
  BY DEF TypeOK, Endpoint
<1>2. ASSUME NEW s \in Segments
      PROVE  /\ seg[s] \in Segment
             /\ seg[s].size \in Nat
             /\ seg[s].magic \in BOOLEAN
             /\ seg[s].geometry \in Nat
             /\ seg[s].owner \in Pids
             /\ seg[s].role \in [Roles -> Pids]
  BY DEF TypeOK, Segment
<1> QED
  BY <1>1, <1>2

(* While an endpoint lays down a header, nobody else is in a place that    *)
(* depends on it.                                                          *)
LEMMA LayingAlone ==
    ASSUME HeaderInv, NEW e \in Endpoints, ep[e].pc \in Laying,
           NEW f \in Endpoints, f # e, ep[f].map = ep[e].map
    PROVE  /\ ep[f].pc \notin Laying \cup Accepting \cup {"check"}
           /\ ~ep[f].own
<1>1. e \in Suppliers /\ ~seg[ep[e].map].magic
  BY DEF HeaderInv, AllPlaced, Placed
<1>2. ep[f].pc \in Laying => f \in Suppliers
  BY DEF HeaderInv, AllPlaced, Placed
<1>3. ep[f].pc \notin Laying
  BY <1>1, <1>2 DEF HeaderInv, InTurn, Laying, Opening
<1> QED
  BY <1>1, <1>3 DEF HeaderInv, AllPlaced, Placed

-----------------------------------------------------------------------------

(* Endpoint e may go to m without touching a segment: what has to be known *)
(* of m, of e and of the segments, but of no other endpoint unless e joins *)
(* the suppliers that are on their way.                                    *)
WalksTo(e, m) ==
    /\ Placed(e, m, seg)
    /\ PidsFaithful => Claimed(e, m, seg)
    /\ ep[e].pc # "dead" /\ m.pc # "dead"
    /\ ep[e].pc \notin Laying /\ m.pc # "check"
    /\ Undisturbed => m.pc \notin Laying
    /\ m.pc \in Opening /\ e \in Suppliers =>
         ep[e].pc \in Opening \/ \A f \in Suppliers : ep[f].pc \notin Opening
    /\ m.map \in {NoSeg, ep[e].map, linked}
    /\ m.pc \in Bidding =>
         m.map = ep[e].map /\ ep[e].pc \in Bidding \cup {"header"}
    /\ m.own => m.map = ep[e].map /\ (ep[e].own \/ ep[e].pc = "check")
    /\ m.pc = "bound" => RoleOf[e] \notin Roles

LEMMA Walk ==
    ASSUME LifecycleInv, NEW e \in Endpoints, NEW m \in Endpoint,
           ep' = [ep EXCEPT ![e] = m], UNCHANGED <<linked, seg, alive, deaths>>,
           WalksTo(e, m)
    PROVE  LifecycleInv'
<1>1. /\ HeaderInv
      /\ PidsFaithful => Claims
      /\ Undisturbed => Names
  BY DEF LifecycleInv
<1>2. TypeOK'
  BY <1>1 DEF HeaderInv, TypeOK
<1>3. ep'[e] = m /\ \A f \in Endpoints : f # e => ep'[f] = ep[f]
  BY <1>1 DEF HeaderInv, TypeOK
<1>4. AllPlaced' /\ Owned' /\ Running'
  <2>1. AllPlaced'
    <3>1. Placed(e, m, seg)
      BY DEF WalksTo
    <3>2. \A f \in Endpoints : Placed(f, ep[f], seg)
      BY <1>1 DEF HeaderInv, AllPlaced
    <3>3. \A f \in Endpoints : Placed(f, ep'[f], seg)
      BY <1>3, <3>1, <3>2
    <3> QED
      BY <3>3 DEF AllPlaced, Placed
  <2>2. Owned' /\ Running'
    BY <1>1, <1>3 DEF HeaderInv, Owned, Running, WalksTo
  <2> QED
    BY <2>1, <2>2
<1>5. InTurn'
  BY <1>1, <1>3, LifecycleAssumption DEF HeaderInv, InTurn, WalksTo
<1>6. ASSUME NEW f \in Endpoints, f # e, ep[f].pc = "check",
             e \in Suppliers, ep[e].pc \in Opening
      PROVE  FALSE
  <2>1. f \in Suppliers /\ ep[f].pc \in Opening
    BY <1>1, <1>6 DEF HeaderInv, AllPlaced, Placed, Opening
  <2> QED
    BY <1>1, <1>6, <2>1 DEF HeaderInv, InTurn
<1>7. CheckAlone'
  <2> SUFFICES ASSUME NEW f \in Endpoints, f # e, ep[f].pc = "check",
                      ep[f].map = m.map
               PROVE  m.pc \notin Bidding /\ ~m.own
    BY <1>1, <1>3 DEF HeaderInv, CheckAlone, WalksTo
  <2>1. m.pc \in Bidding => e \in Suppliers
    BY DEF WalksTo, Placed
  <2>2. ep[e].pc = "check" => e \in Suppliers
    BY <1>1 DEF HeaderInv, AllPlaced, Placed
  <2> QED
    BY <1>1, <1>6, <2>1, <2>2 DEF HeaderInv, CheckAlone, WalksTo, Opening
<1>8. ASSUME PidsFaithful' PROVE Claims'
  <2>1. PidsFaithful
    BY <1>8 DEF PidsFaithful
  <2>2. \A f \in Endpoints : Claimed(f, ep[f], seg)'
    BY <1>1, <1>3, <2>1 DEF Claims, Claimed, WalksTo
  <2>3. RolesExclusive'
    BY <1>1, <1>3, <2>1 DEF Claims, RolesExclusive, Bound, WalksTo
  <2>4. OwnExclusive'
    BY <1>1, <1>3, <2>1 DEF Claims, OwnExclusive, WalksTo, HeaderInv, CheckAlone
  <2> QED
    BY <2>2, <2>3, <2>4 DEF Claims
<1>9. ASSUME Undisturbed' PROVE Names'
  <2>1. Undisturbed /\ Names
    BY <1>1, <1>9 DEF Undisturbed
  <2>2. \A f \in Endpoints : ep'[f].own => linked = ep'[f].map
    BY <1>3, <2>1 DEF Names, WalksTo
  <2>3. \A f \in Endpoints :
          ep'[f].pc = "check" \/ ep'[f].pc \in Laying => ep'[f].own
    BY <1>3, <2>1 DEF Names, WalksTo
  <2>4. ASSUME NEW s \in Segments, InUse(s, linked, ep'), ~seg[s].magic
        PROVE  \E f \in Endpoints : ep'[f].pc \in Laying /\ ep'[f].map = s
    <3>1. InUse(s, linked, ep)
      BY <1>3, <2>4, LifecycleAssumption DEF InUse, WalksTo
    <3>2. PICK f \in Endpoints : ep[f].pc \in Laying /\ ep[f].map = s
      BY <2>1, <2>4, <3>1 DEF Names
    <3>3. f # e
      BY <3>2 DEF WalksTo
    <3> QED
      BY <1>3, <3>2, <3>3
  <2> QED
    BY <2>2, <2>3, <2>4 DEF Names, InUse
<1> QED
  BY <1>2, <1>4, <1>5, <1>7, <1>8, <1>9 DEF LifecycleInv, HeaderInv

(* The same for a step that changes nothing but the place of e. *)
LEMMA WalkTo ==
    ASSUME LifecycleInv, NEW e \in Endpoints, NEW pc \in EndpointPc,
           To(e, pc), UNCHANGED <<linked, seg, alive, deaths>>,
           WalksTo(e, [ep[e] EXCEPT !.pc = pc])
    PROVE  LifecycleInv'
<1> DEFINE m == [ep[e] EXCEPT !.pc = pc]
<1>1. ep \in [Endpoints -> Endpoint]
  BY DEF LifecycleInv, HeaderInv, TypeOK
<1>2. m \in Endpoint
  BY <1>1 DEF Endpoint
<1>3. ep' = [ep EXCEPT ![e] = m]
  BY <1>1 DEF To
<1> HIDE DEF m
<1> QED
  BY <1>2, <1>3, Walk DEF m

(* The open of a segment, up to its header. *)
LEMMA WalkOpen ==
    ASSUME LifecycleInv, OpenInTurn, NEW e \in Endpoints,
           Open(e) \/ CreateExists(e) \/ TryOpen(e)
    PROVE  LifecycleInv'
<1>1. /\ HeaderInv
      /\ TypeOK
      /\ Placed(e, ep[e], seg)
      /\ PidsFaithful => Claimed(e, ep[e], seg)
  BY DEF LifecycleInv, HeaderInv, AllPlaced, Claims
<1>2. CASE Open(e)
  <2> DEFINE pc == IF e \in Suppliers THEN "create" ELSE "open"
  <2>1. pc \in EndpointPc /\ To(e, pc)
    BY <1>2 DEF Open, EndpointPc
  <2>2. ep[e] \in Endpoint
    BY <1>1, FieldTypes
  <2>3. WalksTo(e, [ep[e] EXCEPT !.pc = pc])
    BY <1>1, <1>2, <2>2, LifecycleAssumption
    DEF Open, OpenInTurn, WalksTo, Placed, Claimed, Unmapped, Laying, Bidding,
        Accepting, Adopting, Opening, Endpoint
  <2> HIDE DEF pc
  <2> QED
    BY <1>2, <2>1, <2>3, WalkTo DEF Open
<1>3. CASE CreateExists(e)
  <2>1. ep[e] \in Endpoint
    BY <1>1, FieldTypes
  <2>2. WalksTo(e, [ep[e] EXCEPT !.pc = "open"])
    BY <1>1, <1>3, <2>1
    DEF CreateExists, WalksTo, Placed, Claimed, Unmapped, Laying, Bidding,
        Accepting, Adopting, Opening, Endpoint
  <2> QED
    BY <1>3, <2>2, WalkTo DEF CreateExists, EndpointPc
<1>4. CASE TryOpen(e)
  <2> DEFINE m == IF linked = NoSeg THEN NotThere(e)
                  ELSE Mapping("header", linked, FALSE)
  <2>1. m \in Endpoint /\ ep' = [ep EXCEPT ![e] = m]
    BY <1>1, <1>4 DEF TryOpen, TypeOK, NotThere, Unconnected, Closed, Mapping,
        Endpoint, EndpointPc, Pids
  <2>2. WalksTo(e, m)
    BY <1>1, <1>4
    DEF TryOpen, WalksTo, Placed, Claimed, Unmapped, Laying, Bidding,
        Accepting, Adopting, Opening, NotThere, Unconnected, Closed, Mapping
  <2> HIDE DEF m
  <2> QED
    BY <1>4, <2>1, <2>2, Walk DEF TryOpen
<1> QED
  BY <1>2, <1>3, <1>4

(* What e finds in the header, or in the words for the deed and the role,  *)
(* that makes it move on without writing.                                  *)
LEMMA WalkHeader ==
    ASSUME LifecycleInv, NEW e \in Endpoints,
           InitCheck(e) \/ HeaderFound(e) \/ HeaderMissing(e)
    PROVE  LifecycleInv'
<1>1. /\ HeaderInv
      /\ TypeOK
      /\ ep[e] \in Endpoint
      /\ Placed(e, ep[e], seg)
      /\ PidsFaithful => Claimed(e, ep[e], seg)
      /\ Undisturbed => Names
  BY FieldTypes DEF LifecycleInv, HeaderInv, AllPlaced, Claims
<1>2. CASE InitCheck(e)
  <2> DEFINE m == [ep[e] EXCEPT !.pc = "role", !.own = TRUE]
  <2>1. seg[ep[e].map].magic /\ m \in Endpoint
    BY <1>1, <1>2 DEF InitCheck, Placed, Endpoint, EndpointPc
  <2>2. ep' = [ep EXCEPT ![e] = m]
    BY <1>2, <2>1 DEF InitCheck
  <2>3. WalksTo(e, m)
    BY <1>1, <1>2, <2>1, LifecycleAssumption
    DEF InitCheck, WalksTo, Placed, Claimed, Unmapped, Laying, Bidding,
        Accepting, Adopting, Opening, Endpoint
  <2> HIDE DEF m
  <2> QED
    BY <1>2, <2>1, <2>2, <2>3, Walk DEF InitCheck
<1>3. CASE HeaderFound(e)
  <2> DEFINE pc == IF ~Accepts(e, seg[ep[e].map]) THEN "reject"
                   ELSE IF e \in Suppliers THEN "deed" ELSE "role"
  <2>1. pc \in EndpointPc /\ To(e, pc)
    BY <1>3 DEF HeaderFound, EndpointPc
  <2>2. WalksTo(e, [ep[e] EXCEPT !.pc = pc])
    BY <1>1, <1>3
    DEF HeaderFound, Accepts, WalksTo, Placed, Claimed, Unmapped, Laying,
        Bidding, Accepting, Adopting, Opening, Endpoint
  <2> HIDE DEF pc
  <2> QED
    BY <1>3, <2>1, <2>2, WalkTo DEF HeaderFound
<1>4. CASE HeaderMissing(e)
  <2> DEFINE pc == IF e \in Suppliers /\ seg[ep[e].map].size >= GeometryOf[e]
                   THEN "zero" ELSE "reject"
  <2>1. pc \in EndpointPc /\ To(e, pc)
    BY <1>4 DEF HeaderMissing, EndpointPc
  <2>2. ASSUME Undisturbed, e \in Suppliers PROVE FALSE
    <3>1. ep[e].map \in Segments
      BY <1>1, <1>4, FieldTypes DEF HeaderMissing, Placed, Unmapped
    <3>2. InUse(ep[e].map, linked, ep)
      BY DEF InUse
    <3>3. PICK f \in Endpoints : ep[f].pc \in Laying
      BY <1>1, <1>4, <2>2, <3>1, <3>2 DEF HeaderMissing, Names
    <3>4. f \in Suppliers
      BY <1>1, <3>3 DEF HeaderInv, AllPlaced, Placed
    <3> QED
      BY <1>1, <1>4, <2>2, <3>3, <3>4
      DEF HeaderMissing, HeaderInv, InTurn, Laying, Opening
  <2>3. ~ep[e].own
    BY <1>1, <1>4 DEF HeaderMissing, Placed, Laying
  <2>4. WalksTo(e, [ep[e] EXCEPT !.pc = pc])
    BY <1>1, <1>4, <2>2, <2>3
    DEF HeaderMissing, WalksTo, Placed, Claimed, Unmapped, Laying,
        Bidding, Accepting, Adopting, Opening, Endpoint
  <2> HIDE DEF pc
  <2> QED
    BY <1>4, <2>1, <2>4, WalkTo DEF HeaderMissing
<1> QED
  BY <1>2, <1>3, <1>4

(* Bids that are turned down, and an endpoint that never connected. *)
LEMMA WalkBid ==
    ASSUME LifecycleInv, NEW e \in Endpoints,
           \/ ClaimSegment(e) \/ DeedStale(e)
           \/ AdoptDeed(e) /\ ~StillSaw(e, Deed(e))
           \/ DropUnconnected(e)
    PROVE  LifecycleInv'
<1>1. /\ HeaderInv
      /\ TypeOK
      /\ ep[e] \in Endpoint
      /\ Placed(e, ep[e], seg)
      /\ PidsFaithful => Claimed(e, ep[e], seg)
  BY FieldTypes DEF LifecycleInv, HeaderInv, AllPlaced, Claims
<1>2. ASSUME ep[e].pc \in Bidding
      PROVE  /\ ep[e].map \in Segments
             /\ seg[ep[e].map].magic
             /\ Deed(e) \in Procs /\ ~Free(Deed(e))
  <2>1. ep[e].map \in Segments /\ seg[ep[e].map].magic
    BY <1>1, <1>2, FieldTypes DEF Placed, Unmapped, Bidding, Accepting
  <2> QED
    BY <1>1, <2>1, LifecycleAssumption DEF HeaderInv, Owned, Deed, Free
<1>3. CASE ClaimSegment(e)
  <2> DEFINE m == [ep[e] EXCEPT !.pc = "role", !.own = FALSE]
  <2>1. ep[e].pc = "deed" /\ Free(Deed(e)) = FALSE
    BY <1>2, <1>3 DEF ClaimSegment, Bidding, Free
  <2>2. ep' = [ep EXCEPT ![e] = m] /\ seg' = seg /\ m \in Endpoint
    BY <1>1, <1>3, <2>1 DEF ClaimSegment, Endpoint, EndpointPc, TypeOK
  <2>3. WalksTo(e, m)
    BY <1>1, <2>1
    DEF WalksTo, Placed, Claimed, Unmapped, Laying, Bidding,
        Accepting, Adopting, Opening, Endpoint
  <2> HIDE DEF m
  <2> QED
    BY <1>3, <2>2, <2>3, Walk DEF ClaimSegment
<1>4. CASE DeedStale(e)
  <2> DEFINE m == [ep[e] EXCEPT !.pc = "adopt deed", !.saw = Deed(e)]
  <2>1. ep[e].pc = "deed" /\ Deed(e) \in Pids /\ Deed(e) \notin alive
    BY <1>2, <1>4 DEF DeedStale, DeedTaken, ProcessAlive, Bidding, Pids
  <2>2. ep' = [ep EXCEPT ![e] = m] /\ m \in Endpoint
    BY <1>1, <1>4, <2>1 DEF DeedStale, Endpoint, EndpointPc, TypeOK
  <2>3. WalksTo(e, m)
    BY <1>1, <2>1
    DEF WalksTo, Placed, Claimed, Unmapped, Laying, Bidding,
        Accepting, Adopting, Opening, Endpoint
  <2> HIDE DEF m
  <2> QED
    BY <1>4, <2>2, <2>3, Walk DEF DeedStale
<1>5. CASE AdoptDeed(e) /\ ~StillSaw(e, Deed(e))
  <2> DEFINE m == Mapping("deed", ep[e].map, FALSE)
  <2>1. ep[e].pc = "adopt deed"
    BY <1>5 DEF AdoptDeed
  <2>2. ep' = [ep EXCEPT ![e] = m] /\ seg' = seg
    BY <1>1, <1>5 DEF AdoptDeed, TypeOK
  <2>3. m \in Endpoint
    BY <1>1 DEF Mapping, Endpoint, EndpointPc, Pids
  <2>4. WalksTo(e, m)
    BY <1>1, <2>1
    DEF WalksTo, Placed, Claimed, Unmapped, Laying, Bidding,
        Accepting, Adopting, Opening, Mapping
  <2> HIDE DEF m
  <2> QED
    BY <1>5, <2>2, <2>3, <2>4, Walk DEF AdoptDeed
<1>6. CASE DropUnconnected(e)
  <2>1. Closed \in Endpoint
    BY DEF Closed, Mapping, Endpoint, EndpointPc, Pids
  <2>2. WalksTo(e, Closed)
    BY <1>1, <1>6
    DEF DropUnconnected, WalksTo, Placed, Claimed, Unmapped, Laying, Bidding,
        Accepting, Adopting, Opening, Closed, Mapping
  <2> QED
    BY <1>6, <2>1, <2>2, Walk DEF DropUnconnected
<1> QED
  BY <1>3, <1>4, <1>5, <1>6

(* The same for a role, and the steps of an endpoint that needs none. *)
LEMMA WalkRole ==
    ASSUME LifecycleInv, NEW e \in Endpoints,
           \/ RoleStale(e) \/ RoleConflict(e)
           \/ AdoptRole(e) /\ ~StillSaw(e, RoleWord(e))
           \/ (ClaimRole(e) \/ DropBound(e)) /\ RoleOf[e] \notin Roles
    PROVE  LifecycleInv'
<1>1. /\ HeaderInv
      /\ TypeOK
      /\ ep[e] \in Endpoint
      /\ Placed(e, ep[e], seg)
      /\ PidsFaithful => Claimed(e, ep[e], seg)
  BY FieldTypes DEF LifecycleInv, HeaderInv, AllPlaced, Claims
<1>2. CASE RoleStale(e)
  <2> DEFINE m == [ep[e] EXCEPT !.pc = "adopt role", !.saw = RoleWord(e)]
  <2>1. ep[e].map \in Segments
    BY <1>1, <1>2, FieldTypes DEF RoleStale, Placed, Unmapped
  <2>2. ep[e].pc = "role" /\ RoleWord(e) \in Pids /\ RoleWord(e) \notin alive
    <3>1. seg[ep[e].map].role \in [Roles -> Pids]
      BY <1>1, <2>1, FieldTypes
    <3> QED
      BY <1>2, <3>1 DEF RoleStale, RoleTaken, ProcessAlive, RoleWord
  <2>3. ep' = [ep EXCEPT ![e] = m] /\ m \in Endpoint
    BY <1>1, <1>2, <2>2 DEF RoleStale, Endpoint, EndpointPc, TypeOK
  <2>4. WalksTo(e, m)
    BY <1>1, <1>2, <2>2
    DEF RoleStale, WalksTo, Placed, Claimed, Unmapped, Laying, Bidding,
        Accepting, Adopting, Opening, Endpoint
  <2> HIDE DEF m
  <2> QED
    BY <1>2, <2>3, <2>4, Walk DEF RoleStale
<1>3. CASE RoleConflict(e)
  <2>1. WalksTo(e, [ep[e] EXCEPT !.pc = "reject"])
    BY <1>1, <1>3
    DEF RoleConflict, WalksTo, Placed, Claimed, Unmapped, Laying, Bidding,
        Accepting, Adopting, Opening, Endpoint
  <2> QED
    BY <1>3, <2>1, WalkTo DEF RoleConflict, EndpointPc
<1>4. CASE AdoptRole(e) /\ ~StillSaw(e, RoleWord(e))
  <2> DEFINE m == [ep[e] EXCEPT !.saw = NoPid, !.pc = "role"]
  <2>1. ep[e].pc = "adopt role" /\ seg' = seg /\ m \in Endpoint
    BY <1>1, <1>4 DEF AdoptRole, Endpoint, EndpointPc, Pids
  <2>2. ep' = [ep EXCEPT ![e] = m]
    BY <1>1, <1>4 DEF AdoptRole, TypeOK
  <2>3. WalksTo(e, m)
    BY <1>1, <2>1
    DEF WalksTo, Placed, Claimed, Unmapped, Laying, Bidding,
        Accepting, Adopting, Opening, Endpoint
  <2> HIDE DEF m
  <2> QED
    BY <1>4, <2>1, <2>2, <2>3, Walk DEF AdoptRole
<1>5. CASE ClaimRole(e) /\ RoleOf[e] \notin Roles
  <2>1. WalksTo(e, [ep[e] EXCEPT !.pc = "bound"])
    BY <1>1, <1>5
    DEF ClaimRole, WalksTo, Placed, Claimed, Unmapped, Laying, Bidding,
        Accepting, Adopting, Opening, Endpoint
  <2> QED
    BY <1>5, <2>1, WalkTo DEF ClaimRole, EndpointPc
<1>6. CASE DropBound(e) /\ RoleOf[e] \notin Roles
  <2>1. WalksTo(e, [ep[e] EXCEPT !.pc = "unmap"])
    BY <1>1, <1>6
    DEF DropBound, WalksTo, Placed, Claimed, Unmapped, Laying, Bidding,
        Accepting, Adopting, Opening, Endpoint
  <2> QED
    BY <1>6, <2>1, WalkTo DEF DropBound, EndpointPc
<1> QED
  BY <1>2, <1>3, <1>4, <1>5, <1>6

-----------------------------------------------------------------------------

(* Endpoint e moves to m and writes p into the word of its role, taking or *)
(* releasing it.                                                           *)
RoleWritten(e, m, p) ==
    /\ ep' = [ep EXCEPT ![e] = m]
    /\ seg' = [seg EXCEPT ![ep[e].map].role[RoleOf[e]] = p]
    /\ UNCHANGED <<linked, alive, deaths>>

(* That word is nobody else's while the words are faithful. *)
LEMMA WriteRole ==
    ASSUME LifecycleInv, NEW e \in Endpoints, RoleOf[e] \in Roles,
           ep[e].pc \in {"role", "adopt role", "bound"},
           NEW m \in Endpoint, NEW p \in Pids, RoleWritten(e, m, p),
           m.map = ep[e].map, m.own <=> ep[e].own,
           (m.pc = "bound" /\ p = ProcOf[e]) \/ m.pc = "unmap",
           PidsFaithful =>
             \A f \in Endpoints : f # e /\ ep[f].pc = "bound"
                 /\ ep[f].map = ep[e].map => RoleOf[f] # RoleOf[e]
    PROVE  LifecycleInv'
<1>1. /\ HeaderInv
      /\ TypeOK
      /\ Placed(e, ep[e], seg)
      /\ PidsFaithful => Claims
      /\ Undisturbed => Names
  BY DEF LifecycleInv, HeaderInv, AllPlaced
<1> DEFINE s == ep[e].map
<1>2. s \in Segments /\ seg[s].role \in [Roles -> Pids]
  BY <1>1, FieldTypes DEF Placed, Unmapped, s
<1>3. /\ seg[s] \in Segment
      /\ seg \in [Segments -> Segment]
  BY <1>1, <1>2 DEF TypeOK
<1> HIDE DEF s
<1>4. /\ \A t \in Segments : /\ seg'[t].magic <=> seg[t].magic
                             /\ seg'[t].geometry = seg[t].geometry
                             /\ seg'[t].owner = seg[t].owner
      /\ seg' \in [Segments -> Segment]
  BY <1>2, <1>3 DEF RoleWritten, Segment, s
<1>r. /\ seg'[s].role[RoleOf[e]] = p
      /\ \A t \in Segments : \A k \in Roles :
           t # s \/ k # RoleOf[e] => seg'[t].role[k] = seg[t].role[k]
  BY <1>2, <1>3 DEF RoleWritten, Segment, s
<1>5. ep'[e] = m /\ \A f \in Endpoints : f # e => ep'[f] = ep[f]
  BY <1>1 DEF RoleWritten, TypeOK
<1>m. \A f \in Endpoints : /\ ep'[f].map = ep[f].map
                           /\ ep'[f].own <=> ep[f].own
  BY <1>5
<1>6. UNCHANGED <<linked, alive, deaths>> /\ TypeOK'
  BY <1>1, <1>4 DEF RoleWritten, TypeOK
<1>7. \A f \in Endpoints : ep[f].map # NoSeg => ep[f].map \in Segments
  BY <1>1, FieldTypes
<1>8. AllPlaced'
  <2>1. ASSUME NEW f \in Endpoints, f # e PROVE Placed(f, ep[f], seg')
    <3>1. Placed(f, ep[f], seg)
      BY <1>1 DEF HeaderInv, AllPlaced
    <3>2. ep[f].map = NoSeg \/ ep[f].map \in Segments
      BY <1>7
    <3>3. ep[f].map \in Segments =>
            /\ seg'[ep[f].map].magic <=> seg[ep[f].map].magic
            /\ seg'[ep[f].map].geometry = seg[ep[f].map].geometry
            /\ seg'[ep[f].map].owner = seg[ep[f].map].owner
      BY <1>4
    <3> QED
      BY <3>1, <3>2, <3>3 DEF Placed, Unmapped, Laying, Accepting
  <2>2. Placed(e, m, seg')
    BY <1>1, <1>2, <1>4
    DEF Placed, Unmapped, Laying, Accepting, Bidding, s
  <2> QED
    BY <1>5, <2>1, <2>2 DEF AllPlaced
<1>9. Owned' /\ Running'
  BY <1>1, <1>4, <1>5, <1>6 DEF HeaderInv, Owned, Running
<1>10. InTurn' /\ CheckAlone'
  <2>1. InTurn'
    BY <1>1, <1>5, LifecycleAssumption DEF HeaderInv, InTurn, Opening
  <2>2. CheckAlone'
    BY <1>1, <1>5, <1>m DEF HeaderInv, CheckAlone, Bidding
  <2> QED
    BY <2>1, <2>2
<1>11. ASSUME PidsFaithful' PROVE Claims'
  <2>1. PidsFaithful /\ Claims
    BY <1>1, <1>6, <1>11 DEF PidsFaithful
  <2>2. ASSUME NEW f \in Endpoints, f # e PROVE Claimed(f, ep[f], seg)'
    <3>1. /\ ep[f].pc \in Adopting => ep[f].saw \notin alive
          /\ ep[f].own /\ ep[f].pc \notin Laying
               => ep[f].map \in Segments /\ seg[ep[f].map].owner = ProcOf[f]
      BY <1>1, <1>7, <2>1, <2>2
      DEF Claims, Claimed, HeaderInv, AllPlaced, Placed
    <3>2. ASSUME ep[f].pc = "bound", RoleOf[f] \in Roles
          PROVE  seg'[ep[f].map].role[RoleOf[f]] = ProcOf[f]
      <4>1. seg[ep[f].map].role[RoleOf[f]] = ProcOf[f]
        BY <2>1, <3>2 DEF Claims, Claimed
      <4>2. ep[f].map \in Segments
        BY <1>1, <1>7, <3>2 DEF HeaderInv, AllPlaced, Placed, Unmapped
      <4> QED
        BY <1>r, <2>1, <2>2, <3>2, <4>1, <4>2 DEF s
    <3> QED
      BY <1>4, <1>5, <1>6, <2>2, <3>1, <3>2 DEF Claimed
  <2>3. Claimed(e, ep[e], seg)'
    BY <1>2, <1>4, <1>r, <1>5, <1>6, <2>1 DEF Claims, Claimed, Adopting, Laying, s
  <2>4. RolesExclusive'
    <3> SUFFICES ASSUME NEW f \in Endpoints, NEW g \in Endpoints,
                        ep'[f].pc = "bound", ep'[g].pc = "bound",
                        ep[f].map = ep[g].map, RoleOf[f] = RoleOf[g],
                        RoleOf[f] \in Roles
                 PROVE  f = g
      BY <1>m DEF RolesExclusive, Bound
    <3>1. \A d \in Endpoints : d # e /\ ep'[d].pc = "bound"
            /\ ep[d].map = ep[e].map => RoleOf[d] # RoleOf[e]
      BY <1>5, <2>1
    <3>2. f # e /\ g # e => f = g
      BY <1>5, <2>1 DEF Claims, RolesExclusive, Bound
    <3> QED
      BY <3>1, <3>2
  <2>5. OwnExclusive'
    BY <1>m, <2>1 DEF Claims, OwnExclusive
  <2> QED
    BY <2>2, <2>3, <2>4, <2>5 DEF Claims
<1>12. ASSUME Undisturbed' PROVE Names'
  <2>1. Undisturbed /\ Names
    BY <1>1, <1>6, <1>12 DEF Undisturbed
  <2>2. \A t \in Segments : InUse(t, linked, ep') => InUse(t, linked, ep)
    BY <1>m DEF InUse
  <2>3. ASSUME NEW f \in Endpoints
        PROVE  /\ ep'[f].own => linked = ep'[f].map
               /\ ep'[f].pc = "check" \/ ep'[f].pc \in Laying => ep'[f].own
    <3>1. ep'[f].own => linked = ep'[f].map
      BY <1>m, <2>1 DEF Names
    <3>2. CASE f = e
      BY <1>5, <3>1, <3>2 DEF Laying
    <3>3. CASE f # e
      BY <1>5, <2>1, <3>1, <3>3 DEF Names
    <3> QED
      BY <3>2, <3>3
  <2>4. ASSUME NEW t \in Segments, InUse(t, linked, ep'), ~seg[t].magic
        PROVE  \E f \in Endpoints : ep'[f].pc \in Laying /\ ep'[f].map = t
    <3>1. PICK f \in Endpoints : ep[f].pc \in Laying /\ ep[f].map = t
      BY <2>1, <2>2, <2>4 DEF Names
    <3>2. f # e
      BY <3>1 DEF Laying
    <3> QED
      BY <1>5, <3>1, <3>2
  <2> QED
    BY <1>4, <1>6, <2>3, <2>4 DEF Names, InUse
<1> QED
  BY <1>6, <1>8, <1>9, <1>10, <1>11, <1>12 DEF LifecycleInv, HeaderInv

(* A role is claimed when its word is free or names a dead process, which  *)
(* no bound endpoint lives in, and is released by the one that has it.     *)
LEMMA RoleSteps ==
    ASSUME LifecycleInv, NEW e \in Endpoints, RoleOf[e] \in Roles,
           \/ ClaimRole(e) \/ DropBound(e)
           \/ AdoptRole(e) /\ StillSaw(e, RoleWord(e))
    PROVE  LifecycleInv'
<1>1. /\ HeaderInv
      /\ TypeOK
      /\ ep[e] \in Endpoint
      /\ PidsFaithful => Claims
  BY FieldTypes DEF LifecycleInv, HeaderInv
<1>2. ProcOf[e] \in Pids /\ NoPid \in Pids
  BY LifecycleAssumption DEF Pids
<1>3. ASSUME PidsFaithful, NEW f \in Endpoints, ep[f].pc = "bound",
             ep[f].map = ep[e].map, RoleOf[f] = RoleOf[e]
      PROVE  RoleWord(e) = ProcOf[f] /\ RoleWord(e) \in alive
  BY <1>1, <1>3 DEF Claims, Claimed, HeaderInv, Running, RoleWord
<1>4. CASE ClaimRole(e)
  <2> DEFINE m == [ep[e] EXCEPT !.pc = "bound"]
  <2>1. /\ m \in Endpoint
        /\ m.map = ep[e].map /\ (m.own <=> ep[e].own) /\ m.pc = "bound"
    BY <1>1 DEF Endpoint, EndpointPc
  <2>2. RoleWritten(e, m, ProcOf[e])
    BY <1>1, <1>4 DEF ClaimRole, To, WithRole, RoleWritten, TypeOK
  <2>3. RoleWord(e) \notin alive
    BY <1>1, <1>4, LifecycleAssumption DEF ClaimRole, Free, TypeOK
  <2>4. ep[e].pc \in {"role", "adopt role", "bound"}
    BY <1>4 DEF ClaimRole
  <2> HIDE DEF m
  <2> QED
    BY <1>2, <1>3, <2>1, <2>2, <2>3, <2>4, WriteRole
<1>5. CASE AdoptRole(e) /\ StillSaw(e, RoleWord(e))
  <2> DEFINE m == [ep[e] EXCEPT !.saw = NoPid, !.pc = "bound"]
  <2>1. /\ m \in Endpoint
        /\ m.map = ep[e].map /\ (m.own <=> ep[e].own) /\ m.pc = "bound"
    BY <1>1, <1>2 DEF Endpoint, EndpointPc
  <2>2. ep' = [ep EXCEPT ![e] = m]
    BY <1>1, <1>5 DEF AdoptRole, TypeOK
  <2>3. RoleWritten(e, m, ProcOf[e])
    BY <1>5, <2>2 DEF AdoptRole, WithRole, RoleWritten
  <2>4. PidsFaithful => RoleWord(e) \notin alive
    BY <1>1, <1>5 DEF AdoptRole, StillSaw, Claims, Claimed, Adopting
  <2>5. ep[e].pc \in {"role", "adopt role", "bound"}
    BY <1>5 DEF AdoptRole
  <2> HIDE DEF m
  <2> QED
    BY <1>2, <1>3, <2>1, <2>3, <2>4, <2>5, WriteRole
<1>6. CASE DropBound(e)
  <2> DEFINE m == [ep[e] EXCEPT !.pc = "unmap"]
             p == Released(e, RoleWord(e))
  <2>1. /\ m \in Endpoint
        /\ m.map = ep[e].map /\ (m.own <=> ep[e].own) /\ m.pc = "unmap"
    BY <1>1 DEF Endpoint, EndpointPc
  <2>2. ep[e].map \in Segments
    BY <1>1, <1>6, FieldTypes
    DEF DropBound, HeaderInv, AllPlaced, Placed, Unmapped
  <2>3. p \in Pids
    <3>1. seg[ep[e].map].role \in [Roles -> Pids]
      BY <1>1, <2>2, FieldTypes
    <3> QED
      BY <1>2, <3>1 DEF Released, RoleWord
  <2>4. RoleWritten(e, m, p)
    BY <1>1, <1>6 DEF DropBound, To, RoleWritten, RoleWord, TypeOK
  <2>5. PidsFaithful =>
          \A f \in Endpoints : f # e /\ ep[f].pc = "bound"
              /\ ep[f].map = ep[e].map => RoleOf[f] # RoleOf[e]
    BY <1>1, <1>6 DEF DropBound, Claims, RolesExclusive, Bound
  <2>6. ep[e].pc \in {"role", "adopt role", "bound"}
    BY <1>6 DEF DropBound
  <2> HIDE DEF m, p
  <2> QED
    BY <2>1, <2>3, <2>4, <2>5, <2>6, WriteRole
<1> QED
  BY <1>4, <1>5, <1>6

-----------------------------------------------------------------------------

(* A stage of init_header: e goes on to pc and the header it maps is h. *)
LaidDown(e, pc, h) ==
    /\ To(e, pc)
    /\ seg' = [seg EXCEPT ![ep[e].map] = h]
    /\ UNCHANGED <<linked, alive, deaths>>

(* Nobody else depends on the header that e lays down. *)
LEMMA LayHeader ==
    ASSUME LifecycleInv, NEW e \in Endpoints, ep[e].pc \in Laying,
           NEW pc \in {"stamp", "magic", "check"}, NEW h \in Segment,
           LaidDown(e, pc, h),
           h.magic <=> pc = "check",
           pc # "stamp" => h.geometry = GeometryOf[e] /\ h.owner = ProcOf[e]
    PROVE  LifecycleInv'
<1>1. /\ HeaderInv
      /\ TypeOK
      /\ Placed(e, ep[e], seg)
      /\ PidsFaithful => Claims
      /\ Undisturbed => Names
  BY DEF LifecycleInv, HeaderInv, AllPlaced
<1> DEFINE s == ep[e].map
<1>2. s \in Segments /\ e \in Suppliers
  BY <1>1, FieldTypes DEF Placed, Unmapped, Laying
<1> HIDE DEF s
<1>3. /\ seg'[s] = h
      /\ \A t \in Segments : t # s => seg'[t] = seg[t]
      /\ seg' \in [Segments -> Segment]
  BY <1>1, <1>2 DEF LaidDown, TypeOK, s
<1>4. /\ ep'[e].pc = pc /\ ep'[e].map = s
      /\ ep'[e].own <=> ep[e].own
      /\ \A f \in Endpoints : f # e => ep'[f] = ep[f]
      /\ ep' \in [Endpoints -> Endpoint]
  BY <1>1 DEF LaidDown, To, TypeOK, Endpoint, EndpointPc, s
<1>5. \A f \in Endpoints : /\ ep'[f].map = ep[f].map
                           /\ ep'[f].own <=> ep[f].own
  BY <1>4 DEF s
<1>6. UNCHANGED <<linked, alive, deaths>> /\ TypeOK'
  BY <1>1, <1>3, <1>4 DEF LaidDown, TypeOK
<1>7. ASSUME NEW f \in Endpoints, f # e, ep[f].map = s
      PROVE  /\ ep[f].pc \notin Laying \cup Accepting \cup {"check"}
             /\ ~ep[f].own
  BY <1>1, <1>7, LayingAlone DEF s
<1>8. ASSUME NEW f \in Endpoints, f # e
      PROVE  \/ ep[f].map = NoSeg
             \/ ep[f].map = s
             \/ ep[f].map \in Segments /\ seg'[ep[f].map] = seg[ep[f].map]
  BY <1>1, <1>3, FieldTypes
<1>9. AllPlaced'
  <2>1. ASSUME NEW f \in Endpoints, f # e PROVE Placed(f, ep[f], seg')
    <3>1. Placed(f, ep[f], seg)
      BY <1>1 DEF HeaderInv, AllPlaced
    <3> QED
      BY <1>7, <1>8, <2>1, <3>1 DEF Placed, Unmapped, Laying, Accepting
  <2>2. Placed(e, ep'[e], seg')
    BY <1>2, <1>3, <1>4, LifecycleAssumption
    DEF Placed, Unmapped, Laying, Bidding, Accepting
  <2> QED
    BY <1>4, <2>1, <2>2 DEF AllPlaced
<1>10. Owned' /\ Running'
  <2>1. Owned'
    BY <1>1, <1>3, LifecycleAssumption DEF HeaderInv, Owned
  <2>2. Running'
    BY <1>1, <1>4, <1>6 DEF HeaderInv, Running, Laying
  <2> QED
    BY <2>1, <2>2
<1>11. InTurn'
  BY <1>1, <1>4, LifecycleAssumption DEF HeaderInv, InTurn, Opening, Laying
<1>12. CheckAlone'
  <2> SUFFICES ASSUME NEW d \in Endpoints, NEW f \in Endpoints,
                      ep'[d].pc = "check", d # f, ep[d].map = ep[f].map
               PROVE  ep'[f].pc \notin Bidding /\ ~ep[f].own
    BY <1>5 DEF CheckAlone
  <2>1. CASE d = e
    BY <1>4, <1>7, <2>1 DEF Bidding, Accepting, s
  <2>2. CASE f = e
    BY <1>4, <1>7, <2>2 DEF Bidding, s
  <2>3. CASE d # e /\ f # e
    BY <1>1, <1>4, <2>3 DEF HeaderInv, CheckAlone
  <2> QED
    BY <2>1, <2>2, <2>3
<1>13. ASSUME PidsFaithful' PROVE Claims'
  <2>1. PidsFaithful /\ Claims
    BY <1>1, <1>6, <1>13 DEF PidsFaithful
  <2>2. ASSUME NEW f \in Endpoints, f # e PROVE Claimed(f, ep[f], seg)'
    <3>1. Claimed(f, ep[f], seg) /\ Placed(f, ep[f], seg)
      BY <1>1, <2>1 DEF Claims, HeaderInv, AllPlaced
    <3> QED
      BY <1>4, <1>6, <1>7, <1>8, <2>2, <3>1
      DEF Claimed, Placed, Adopting, Accepting, Laying, Unmapped
  <2>3. Claimed(e, ep[e], seg)'
    BY <1>3, <1>4 DEF Claimed, Adopting, Laying
  <2>4. RolesExclusive'
    BY <1>4, <2>1 DEF Claims, RolesExclusive, Bound
  <2>5. OwnExclusive'
    BY <1>5, <2>1 DEF Claims, OwnExclusive
  <2> QED
    BY <2>2, <2>3, <2>4, <2>5 DEF Claims
<1>14. ASSUME Undisturbed' PROVE Names'
  <2>1. Undisturbed /\ Names
    BY <1>1, <1>6, <1>14 DEF Undisturbed
  <2>2. \A t \in Segments : InUse(t, linked, ep') => InUse(t, linked, ep)
    BY <1>5 DEF InUse
  <2>3. \A f \in Endpoints :
          /\ ep'[f].own => linked = ep'[f].map
          /\ ep'[f].pc = "check" \/ ep'[f].pc \in Laying => ep'[f].own
    BY <1>4, <1>5, <2>1 DEF Names, Laying
  <2>4. ASSUME NEW t \in Segments, InUse(t, linked, ep'), ~seg'[t].magic
        PROVE  \E f \in Endpoints : ep'[f].pc \in Laying /\ ep'[f].map = t
    <3>1. CASE t = s
      BY <1>3, <1>4, <2>4, <3>1 DEF Laying
    <3>2. CASE t # s
      <4>1. PICK f \in Endpoints : ep[f].pc \in Laying /\ ep[f].map = t
        BY <1>3, <2>1, <2>2, <2>4, <3>2 DEF Names
      <4>2. f # e
        BY <3>2, <4>1 DEF s
      <4> QED
        BY <1>4, <4>1, <4>2
    <3> QED
      BY <3>1, <3>2
  <2> QED
    BY <1>6, <2>3, <2>4 DEF Names, InUse
<1> QED
  BY <1>6, <1>9, <1>10, <1>11, <1>12, <1>13, <1>14 DEF LifecycleInv, HeaderInv

(* The three stages of init_header. *)
LEMMA LaySteps ==
    ASSUME LifecycleInv, NEW e \in Endpoints,
           InitZero(e) \/ InitStamp(e) \/ InitMagic(e)
    PROVE  LifecycleInv'
<1>1. /\ TypeOK
      /\ Placed(e, ep[e], seg)
      /\ ep[e].pc \in Laying
  BY DEF LifecycleInv, HeaderInv, AllPlaced, InitZero, InitStamp, InitMagic,
         Laying
<1> DEFINE s == ep[e].map
<1>2. /\ s \in Segments
      /\ seg \in [Segments -> Segment]
      /\ seg[s] \in Segment
      /\ seg[s].size \in Nat
      /\ ~seg[s].magic
  BY <1>1, FieldTypes DEF TypeOK, Placed, Unmapped, Laying
<1>3. CASE InitZero(e)
  <2> DEFINE h == Zeroed(seg[s].size)
  <2>1. h \in Segment /\ ~h.magic
    BY <1>2 DEF Zeroed, Segment, Pids
  <2>2. LaidDown(e, "stamp", h)
    BY <1>3 DEF InitZero, LaidDown
  <2> HIDE DEF h
  <2> QED
    BY <1>1, <2>1, <2>2, LayHeader
<1>4. CASE InitStamp(e)
  <2> DEFINE h == Stamped(e, seg[s])
  <2>1. /\ h \in Segment /\ ~h.magic
        /\ h.geometry = GeometryOf[e] /\ h.owner = ProcOf[e]
    BY <1>2, LifecycleAssumption DEF Stamped, DeedOf, Segment, Pids
  <2>2. LaidDown(e, "magic", h)
    BY <1>4 DEF InitStamp, LaidDown
  <2> HIDE DEF h
  <2> QED
    BY <1>1, <2>1, <2>2, LayHeader
<1>5. CASE InitMagic(e)
  <2> DEFINE h == [seg[s] EXCEPT !.magic = TRUE]
  <2>1. /\ h \in Segment /\ h.magic
        /\ h.geometry = seg[s].geometry /\ h.owner = seg[s].owner
    BY <1>2 DEF Segment
  <2>2. seg[s].geometry = GeometryOf[e] /\ seg[s].owner = ProcOf[e]
    BY <1>1, <1>5 DEF InitMagic, Placed
  <2>3. LaidDown(e, "check", h)
    BY <1>2, <1>5 DEF InitMagic, LaidDown
  <2> HIDE DEF h
  <2> QED
    BY <1>1, <2>1, <2>2, <2>3, LayHeader
<1> QED
  BY <1>3, <1>4, <1>5

(* The deed of a dead owner passes to one bidder: the words say that       *)
(* nobody alive has it.  It never comes to that while nobody has died.     *)
LEMMA AdoptStep ==
    ASSUME LifecycleInv, NEW e \in Endpoints, AdoptDeed(e),
           StillSaw(e, Deed(e))
    PROVE  LifecycleInv'
<1>1. /\ HeaderInv
      /\ TypeOK
      /\ ep[e] \in Endpoint
      /\ Placed(e, ep[e], seg)
      /\ PidsFaithful => Claims
  BY FieldTypes DEF LifecycleInv, HeaderInv, AllPlaced
<1> DEFINE s == ep[e].map
<1>2. /\ ep[e].pc = "adopt deed" /\ ep[e].map = s
      /\ s \in Segments /\ seg[s].magic /\ e \in Suppliers
      /\ seg[s].geometry \in Accepted[e]
      /\ seg[s].owner \in Procs
      /\ PidsFaithful => seg[s].owner \notin alive
  <2>1. ep[e].pc = "adopt deed"
    BY DEF AdoptDeed
  <2>2. /\ s \in Segments /\ seg[s].magic /\ e \in Suppliers
        /\ seg[s].geometry \in Accepted[e]
    BY <1>1, <2>1, FieldTypes DEF Placed, Unmapped, Bidding, Accepting
  <2>3. seg[s].owner \in Procs
    BY <1>1, <2>2 DEF HeaderInv, Owned
  <2>4. PidsFaithful => seg[s].owner \notin alive
    BY <1>1, <2>1 DEF Claims, Claimed, Adopting, StillSaw, Deed
  <2> QED
    BY <2>1, <2>2, <2>3, <2>4
<1> HIDE DEF s
<1> DEFINE h == [seg[s] EXCEPT !.owner = ProcOf[e]]
<1>a. /\ seg' = [seg EXCEPT ![s] = h]
      /\ ep' = [ep EXCEPT ![e] = Mapping("role", s, TRUE)]
  BY <1>1 DEF AdoptDeed, TypeOK, s
<1>b. seg \in [Segments -> Segment] /\ seg[s] \in Segment
  BY <1>1, <1>2 DEF TypeOK
<1>h. /\ h \in Segment
      /\ h.magic <=> seg[s].magic
      /\ h.geometry = seg[s].geometry
      /\ h.role = seg[s].role
      /\ h.owner = ProcOf[e]
  BY <1>b, LifecycleAssumption DEF Segment, Pids
<1> HIDE DEF h
<1>3. /\ \A t \in Segments : /\ seg'[t].magic <=> seg[t].magic
                             /\ seg'[t].geometry = seg[t].geometry
                             /\ seg'[t].role = seg[t].role
                             /\ t # s => seg'[t].owner = seg[t].owner
      /\ seg'[s].owner = ProcOf[e]
      /\ seg' \in [Segments -> Segment]
  BY <1>2, <1>a, <1>b, <1>h
<1>4. /\ ep'[e].pc = "role" /\ ep'[e].map = s /\ ep'[e].own
      /\ \A f \in Endpoints : f # e => ep'[f] = ep[f]
      /\ ep' \in [Endpoints -> Endpoint]
  BY <1>1, <1>2, <1>a DEF TypeOK, Mapping, Endpoint, EndpointPc, Pids
<1>5. UNCHANGED <<linked, alive, deaths>> /\ TypeOK'
  BY <1>1, <1>3, <1>4 DEF AdoptDeed, TypeOK
<1>6. ASSUME NEW f \in Endpoints, f # e, ep[f].map = s
      PROVE  /\ ep[f].pc # "check" /\ ep[f].pc \notin Laying
             /\ PidsFaithful => ~ep[f].own
  <2>1. ep[f].pc # "check"
    BY <1>1, <1>2, <1>6 DEF HeaderInv, CheckAlone, Bidding
  <2>2. ep[f].pc \notin Laying
    BY <1>1, <1>2, <1>6 DEF HeaderInv, AllPlaced, Placed
  <2>3. ASSUME PidsFaithful, ep[f].own PROVE FALSE
    <3>1. seg[s].owner = ProcOf[f]
      BY <1>1, <1>6, <2>2, <2>3 DEF Claims, Claimed
    <3>2. ep[f].pc # "dead"
      BY <1>1, <1>2, <1>6, LifecycleAssumption
      DEF HeaderInv, AllPlaced, Placed, Unmapped
    <3> QED
      BY <1>1, <1>2, <2>3, <3>1, <3>2 DEF HeaderInv, Running
  <2> QED
    BY <2>1, <2>2, <2>3
<1>7. ASSUME NEW f \in Endpoints
      PROVE  ep[f].map = NoSeg \/ ep[f].map \in Segments
  BY <1>1, FieldTypes
<1>8. AllPlaced'
  <2>1. ASSUME NEW f \in Endpoints, f # e PROVE Placed(f, ep[f], seg')
    <3>1. Placed(f, ep[f], seg)
      BY <1>1 DEF HeaderInv, AllPlaced
    <3>2. ep[f].map \in Segments =>
            /\ seg'[ep[f].map].magic <=> seg[ep[f].map].magic
            /\ seg'[ep[f].map].geometry = seg[ep[f].map].geometry
            /\ ep[f].map # s => seg'[ep[f].map].owner = seg[ep[f].map].owner
      BY <1>3
    <3> QED
      BY <1>6, <1>7, <2>1, <3>1, <3>2 DEF Placed, Unmapped, Laying, Accepting
  <2>2. Placed(e, ep'[e], seg')
    BY <1>2, <1>3, <1>4, LifecycleAssumption
    DEF Placed, Unmapped, Laying, Bidding, Accepting
  <2> QED
    BY <1>4, <2>1, <2>2 DEF AllPlaced
<1>9. Owned' /\ Running'
  <2>1. Owned'
    BY <1>1, <1>3, LifecycleAssumption DEF HeaderInv, Owned
  <2>2. Running'
    BY <1>1, <1>2, <1>4, <1>5 DEF HeaderInv, Running
  <2> QED
    BY <2>1, <2>2
<1>10. InTurn'
  BY <1>1, <1>4, LifecycleAssumption DEF HeaderInv, InTurn, Opening
<1>11. CheckAlone'
  <2> SUFFICES ASSUME NEW d \in Endpoints, NEW f \in Endpoints,
                      ep'[d].pc = "check", d # f, ep'[d].map = ep'[f].map
               PROVE  ep'[f].pc \notin Bidding /\ ~ep'[f].own
    BY DEF CheckAlone
  <2>1. d # e /\ ep'[d] = ep[d]
    BY <1>4
  <2>2. f # e
    BY <1>4, <1>6, <2>1
  <2> QED
    BY <1>1, <1>4, <2>1, <2>2 DEF HeaderInv, CheckAlone
<1>12. ASSUME PidsFaithful' PROVE Claims'
  <2>1. PidsFaithful /\ Claims
    BY <1>1, <1>5, <1>12 DEF PidsFaithful
  <2>2. ASSUME NEW f \in Endpoints, f # e PROVE Claimed(f, ep[f], seg)'
    <3>1. Claimed(f, ep[f], seg) /\ Placed(f, ep[f], seg)
      BY <1>1, <2>1 DEF Claims, HeaderInv, AllPlaced
    <3>2. ep[f].map \in Segments =>
            /\ seg'[ep[f].map].role = seg[ep[f].map].role
            /\ ep[f].map # s => seg'[ep[f].map].owner = seg[ep[f].map].owner
      BY <1>3
    <3> QED
      BY <1>4, <1>5, <1>6, <1>7, <2>1, <2>2, <3>1, <3>2
      DEF Claimed, Placed, Unmapped
  <2>3. Claimed(e, ep[e], seg)'
    BY <1>3, <1>4 DEF Claimed, Adopting, Laying
  <2>4. RolesExclusive'
    BY <1>4, <2>1 DEF Claims, RolesExclusive, Bound
  <2>5. OwnExclusive'
    BY <1>4, <1>6, <2>1 DEF Claims, OwnExclusive
  <2> QED
    BY <2>2, <2>3, <2>4, <2>5 DEF Claims
<1>13. ~Undisturbed'
  BY <1>1, <1>2, <1>5 DEF Undisturbed, PidsFaithful, HeaderInv, Running
<1> QED
  BY <1>5, <1>8, <1>9, <1>10, <1>11, <1>12, <1>13 DEF LifecycleInv, HeaderInv

-----------------------------------------------------------------------------

(* The creator of a segment is alone on it, and no owner is left. *)
LEMMA CreateStep ==
    ASSUME LifecycleInv, NEW e \in Endpoints, Create(e)
    PROVE  LifecycleInv'
<1>1. /\ HeaderInv
      /\ TypeOK
      /\ Placed(e, ep[e], seg)
      /\ PidsFaithful => Claims
      /\ Undisturbed => Names
  BY DEF LifecycleInv, HeaderInv, AllPlaced
<1>2. PICK s \in Segments :
        /\ ~InUse(s, linked, ep)
        /\ linked' = s
        /\ seg' = [seg EXCEPT ![s] = Zeroed(GeometryOf[e])]
        /\ ep' = [ep EXCEPT ![e] = Mapping("zero", s, TRUE)]
  BY DEF Create
<1>3. /\ ep[e].pc = "create" /\ linked = NoSeg
      /\ e \in Suppliers
      /\ UNCHANGED <<alive, deaths>>
  BY <1>1 DEF Create, Placed
<1>4. /\ ~seg'[s].magic
      /\ \A t \in Segments : t # s => seg'[t] = seg[t]
      /\ seg' \in [Segments -> Segment]
  BY <1>1, <1>2, LifecycleAssumption DEF TypeOK, Zeroed, Segment, Pids
<1>5. /\ ep'[e].pc = "zero" /\ ep'[e].map = s /\ ep'[e].own
      /\ \A f \in Endpoints : f # e => ep'[f] = ep[f]
      /\ ep' \in [Endpoints -> Endpoint]
  BY <1>1, <1>2 DEF TypeOK, Mapping, Endpoint, EndpointPc, Pids
<1>6. \A f \in Endpoints : ep[f].map # s
  BY <1>2 DEF InUse
<1>7. \A f \in Endpoints :
        ep[f].map = NoSeg \/ seg'[ep[f].map] = seg[ep[f].map]
  BY <1>1, <1>4, <1>6, FieldTypes
<1>8. TypeOK'
  BY <1>1, <1>2, <1>3, <1>4, <1>5 DEF TypeOK
<1>9. AllPlaced'
  <2>1. ASSUME NEW f \in Endpoints, f # e PROVE Placed(f, ep[f], seg')
    <3>1. Placed(f, ep[f], seg)
      BY <1>1 DEF HeaderInv, AllPlaced
    <3> QED
      BY <1>7, <3>1 DEF Placed, Unmapped, Laying, Accepting
  <2>2. Placed(e, ep'[e], seg')
    BY <1>3, <1>4, <1>5, LifecycleAssumption
    DEF Placed, Unmapped, Laying, Bidding, Accepting
  <2> QED
    BY <1>5, <2>1, <2>2 DEF AllPlaced
<1>10. Owned' /\ Running'
  <2>1. Owned'
    BY <1>1, <1>4 DEF HeaderInv, Owned
  <2>2. Running'
    BY <1>1, <1>3, <1>5 DEF HeaderInv, Running
  <2> QED
    BY <2>1, <2>2
<1>11. InTurn'
  BY <1>1, <1>3, <1>5, LifecycleAssumption DEF HeaderInv, InTurn, Opening
<1>12. CheckAlone'
  BY <1>1, <1>5, <1>6 DEF HeaderInv, CheckAlone
<1>13. ASSUME PidsFaithful' PROVE Claims'
  <2>1. PidsFaithful /\ Claims
    BY <1>1, <1>3, <1>13 DEF PidsFaithful
  <2>2. ASSUME NEW f \in Endpoints, f # e PROVE Claimed(f, ep[f], seg)'
    <3>1. Claimed(f, ep[f], seg) /\ Placed(f, ep[f], seg)
      BY <1>1, <2>1 DEF Claims, HeaderInv, AllPlaced
    <3> QED
      BY <1>3, <1>5, <1>7, <2>2, <3>1 DEF Claimed, Placed, Unmapped
  <2>3. Claimed(e, ep[e], seg)'
    BY <1>5 DEF Claimed, Adopting, Laying
  <2>4. RolesExclusive'
    BY <1>5, <2>1 DEF Claims, RolesExclusive, Bound
  <2>5. OwnExclusive'
    BY <1>5, <1>6, <2>1 DEF Claims, OwnExclusive
  <2> QED
    BY <2>2, <2>3, <2>4, <2>5 DEF Claims
<1>14. ASSUME Undisturbed' PROVE Names'
  <2>1. Undisturbed /\ Names
    BY <1>1, <1>3, <1>14 DEF Undisturbed
  <2>2. \A f \in Endpoints : ~ep[f].own
    BY <1>1, <1>3, <2>1 DEF Names, HeaderInv, AllPlaced, Placed
  <2>3. \A f \in Endpoints :
          /\ ep'[f].own => linked' = ep'[f].map
          /\ ep'[f].pc = "check" \/ ep'[f].pc \in Laying => ep'[f].own
    BY <1>2, <1>5, <2>1, <2>2 DEF Names
  <2>4. ASSUME NEW t \in Segments, InUse(t, linked', ep'), ~seg'[t].magic
        PROVE  \E f \in Endpoints : ep'[f].pc \in Laying /\ ep'[f].map = t
    <3>1. CASE t = s
      BY <1>5, <3>1 DEF Laying
    <3>2. CASE t # s
      <4>1. InUse(t, linked, ep)
        BY <1>2, <1>5, <2>4, <3>2 DEF InUse
      <4>2. FALSE
        BY <1>4, <2>1, <2>2, <2>4, <3>2, <4>1 DEF Names
      <4> QED
        BY <4>2
    <3> QED
      BY <3>1, <3>2
  <2> QED
    BY <2>3, <2>4 DEF Names, InUse
<1> QED
  BY <1>8, <1>9, <1>10, <1>11, <1>12, <1>13, <1>14 DEF LifecycleInv, HeaderInv

-----------------------------------------------------------------------------

Gone == {Closed, Unconnected, Dead}

(* The fields of an endpoint that is gone. *)
LEMMA GoneFields ==
    \A m \in Gone : /\ m \in Endpoint
                    /\ m.map = NoSeg
                    /\ ~m.own
                    /\ m.pc \in {"closed", "deferred", "dead"}
<1>1. \A m \in Gone : /\ m.map = NoSeg
                      /\ ~m.own
                      /\ m.pc \in {"closed", "deferred", "dead"}
  BY DEF Gone, Closed, Unconnected, Dead, Mapping
<1>2. Gone \subseteq Endpoint
  <2>1. Closed \in Endpoint
    BY DEF Closed, Mapping, Endpoint, EndpointPc, Pids
  <2>2. Unconnected \in Endpoint
    BY DEF Unconnected, Mapping, Endpoint, EndpointPc, Pids
  <2>3. Dead \in Endpoint
    BY DEF Dead, Mapping, Endpoint, EndpointPc, Pids
  <2> QED
    BY <2>1, <2>2, <2>3 DEF Gone
<1> QED
  BY <1>1, <1>2

(* Endpoints let go of their segments, and of a segment in use nothing is  *)
(* lost: what is known of those who stay is still so.                      *)
LEMMA LetGo ==
    ASSUME LifecycleInv, TypeOK',
           \A f \in Endpoints : ep'[f] = ep[f] \/ ep'[f] \in Gone,
           \A f \in Endpoints :
               ep'[f].map = NoSeg \/ seg'[ep'[f].map] = seg[ep'[f].map],
           \A t \in Segments : seg'[t] = seg[t] \/ ~seg'[t].magic
    PROVE  /\ AllPlaced' /\ Owned' /\ InTurn' /\ CheckAlone'
           /\ Claims /\ alive' \subseteq alive => Claims'
<1>1. HeaderInv
  BY DEF LifecycleInv
<1>2. \A m \in Gone : /\ m.map = NoSeg
                      /\ ~m.own
                      /\ m.pc \in {"closed", "deferred", "dead"}
  BY GoneFields
<1>3. AllPlaced'
  <2>1. ASSUME NEW f \in Endpoints, ep'[f] = ep[f] PROVE Placed(f, ep[f], seg)'
    <3>1. Placed(f, ep[f], seg)
      BY <1>1 DEF HeaderInv, AllPlaced
    <3> QED
      BY <2>1, <3>1 DEF Placed, Unmapped, Laying, Accepting
  <2>2. ASSUME NEW f \in Endpoints, ep'[f] \in Gone PROVE Placed(f, ep[f], seg)'
    BY <1>2, <2>2 DEF Placed, Unmapped, Laying, Bidding, Accepting
  <2> QED
    BY <2>1, <2>2 DEF AllPlaced
<1>4. Owned'
  BY <1>1 DEF HeaderInv, Owned
<1>5. InTurn'
  BY <1>1, <1>2, LifecycleAssumption DEF HeaderInv, InTurn, Opening
<1>6. CheckAlone'
  BY <1>1, <1>2 DEF HeaderInv, CheckAlone, Bidding
<1>7. ASSUME Claims, alive' \subseteq alive PROVE Claims'
  <2>1. ASSUME NEW f \in Endpoints, ep'[f] = ep[f]
        PROVE  Claimed(f, ep[f], seg)'
    <3>1. Claimed(f, ep[f], seg) /\ Placed(f, ep[f], seg)
      BY <1>1, <1>7 DEF HeaderInv, AllPlaced, Claims
    <3> QED
      BY <1>7, <2>1, <3>1 DEF Claimed, Placed, Unmapped
  <2>2. ASSUME NEW f \in Endpoints, ep'[f] \in Gone
        PROVE  Claimed(f, ep[f], seg)'
    BY <1>2, <2>2 DEF Claimed, Adopting
  <2>3. RolesExclusive'
    BY <1>2, <1>7 DEF Claims, RolesExclusive, Bound
  <2>4. OwnExclusive'
    BY <1>2, <1>7 DEF Claims, OwnExclusive
  <2> QED
    BY <2>1, <2>2, <2>3, <2>4 DEF Claims
<1> QED
  BY <1>3, <1>4, <1>5, <1>6, <1>7

(* What is left of the segments. *)
LEMMA KeptSegments ==
    ASSUME TypeOK, NEW name, NEW eps
    PROVE  /\ Kept(name, eps) \in [Segments -> Segment]
           /\ \A t \in Segments : \/ Kept(name, eps)[t] = seg[t]
                                  \/ ~Kept(name, eps)[t].magic
           /\ \A t \in Segments : InUse(t, name, eps)
                                    => Kept(name, eps)[t] = seg[t]
BY DEF TypeOK, Kept, Zeroed, Segment, Pids

(* An owner takes the name along, and it is that of its own segment. *)
LEMMA UnmapStep ==
    ASSUME LifecycleInv, NEW e \in Endpoints, Unmap(e)
    PROVE  LifecycleInv'
<1>1. /\ HeaderInv
      /\ TypeOK
      /\ PidsFaithful => Claims
      /\ Undisturbed => Names
  BY DEF LifecycleInv, HeaderInv
<1>2. PICK left \in Gone : ep' = [ep EXCEPT ![e] = left]
  BY DEF Unmap, NotThere, Gone
<1>3. /\ ep[e].pc \in {"unmap", "reject"}
      /\ linked' = IF ep[e].own THEN NoSeg ELSE linked
      /\ seg' = Kept(linked', ep')
      /\ UNCHANGED <<alive, deaths>>
  BY DEF Unmap
<1>4. /\ left \in Endpoint
      /\ left.map = NoSeg /\ ~left.own
      /\ left.pc \in {"closed", "deferred", "dead"}
  BY GoneFields
<1>5. /\ ep'[e] = left
      /\ \A f \in Endpoints : f # e => ep'[f] = ep[f]
      /\ ep' \in [Endpoints -> Endpoint]
  BY <1>1, <1>2, <1>4 DEF TypeOK
<1>6. TypeOK'
  BY <1>1, <1>3, <1>5, KeptSegments DEF TypeOK
<1>7. \A f \in Endpoints :
        ep'[f].map = NoSeg \/ seg'[ep'[f].map] = seg[ep'[f].map]
  <2> SUFFICES ASSUME NEW f \in Endpoints, ep'[f].map # NoSeg
               PROVE  seg'[ep'[f].map] = seg[ep'[f].map]
    OBVIOUS
  <2>1. ep'[f].map \in Segments
    BY <1>5 DEF Endpoint
  <2>2. InUse(ep'[f].map, linked', ep')
    BY DEF InUse
  <2> QED
    BY <1>1, <1>3, <2>1, <2>2, KeptSegments
<1>8. /\ AllPlaced' /\ Owned' /\ InTurn' /\ CheckAlone'
      /\ Claims => Claims'
  <2>1. \A f \in Endpoints : ep'[f] = ep[f] \/ ep'[f] \in Gone
    BY <1>5
  <2>2. \A t \in Segments : seg'[t] = seg[t] \/ ~seg'[t].magic
    BY <1>1, <1>3, KeptSegments
  <2>3. alive' \subseteq alive
    BY <1>3
  <2> QED
    BY <1>6, <1>7, <2>1, <2>2, <2>3, LetGo
<1>9. Running'
  BY <1>1, <1>3, <1>5 DEF HeaderInv, Running
<1>10. PidsFaithful' => Claims'
  BY <1>1, <1>3, <1>8 DEF PidsFaithful
<1>11. ASSUME Undisturbed' PROVE Names'
  <2>1. Undisturbed /\ Names /\ Claims
    BY <1>1, <1>3, <1>11 DEF Undisturbed, PidsFaithful
  <2>2. ASSUME NEW f \in Endpoints, ep'[f].own PROVE linked' = ep'[f].map
    <3>1. f # e /\ ep'[f] = ep[f]
      BY <1>4, <1>5, <2>2
    <3>2. linked = ep[f].map
      BY <2>1, <2>2, <3>1 DEF Names
    <3>3. ep[e].own => ep[e].map = ep[f].map
      BY <2>1, <3>2 DEF Names
    <3> QED
      BY <1>3, <2>1, <2>2, <3>1, <3>2, <3>3 DEF Claims, OwnExclusive
  <2>3. \A f \in Endpoints :
          ep'[f].pc = "check" \/ ep'[f].pc \in Laying => ep'[f].own
    BY <1>4, <1>5, <2>1 DEF Names, Laying
  <2>4. ASSUME NEW t \in Segments, InUse(t, linked', ep'), ~seg'[t].magic
        PROVE  \E f \in Endpoints : ep'[f].pc \in Laying /\ ep'[f].map = t
    <3>1. seg'[t] = seg[t]
      BY <1>1, <1>3, <2>4, KeptSegments
    <3>2. InUse(t, linked, ep)
      BY <1>3, <1>4, <1>5, <2>4, LifecycleAssumption DEF InUse
    <3>3. PICK f \in Endpoints : ep[f].pc \in Laying /\ ep[f].map = t
      BY <2>1, <2>4, <3>1, <3>2 DEF Names
    <3>4. f # e
      BY <1>3, <3>3 DEF Laying
    <3> QED
      BY <1>5, <3>3, <3>4
  <2> QED
    BY <2>2, <2>3, <2>4 DEF Names, InUse
<1> QED
  BY <1>6, <1>8, <1>9, <1>10, <1>11 DEF LifecycleInv, HeaderInv

(* A name that is taken away leaves every mapping as it was. *)
LEMMA UnlinkStep ==
    ASSUME LifecycleInv, Unlink
    PROVE  LifecycleInv'
<1>1. /\ HeaderInv
      /\ TypeOK
      /\ PidsFaithful => Claims
  BY DEF LifecycleInv, HeaderInv
<1>2. /\ linked' = NoSeg
      /\ seg' = Kept(NoSeg, ep)
      /\ UNCHANGED <<alive, deaths, ep>>
      /\ ~Undisturbed'
  BY DEF Unlink, Undisturbed
<1>3. TypeOK'
  BY <1>1, <1>2, KeptSegments DEF TypeOK
<1>4. \A f \in Endpoints :
        ep'[f].map = NoSeg \/ seg'[ep'[f].map] = seg[ep'[f].map]
  <2> SUFFICES ASSUME NEW f \in Endpoints, ep[f].map # NoSeg
               PROVE  seg'[ep[f].map] = seg[ep[f].map]
    BY <1>2
  <2>1. ep[f].map \in Segments
    BY <1>1, FieldTypes
  <2>2. InUse(ep[f].map, NoSeg, ep)
    BY DEF InUse
  <2> QED
    BY <1>1, <1>2, <2>1, <2>2, KeptSegments
<1>5. /\ AllPlaced' /\ Owned' /\ InTurn' /\ CheckAlone'
      /\ Claims => Claims'
  <2>1. \A t \in Segments : seg'[t] = seg[t] \/ ~seg'[t].magic
    BY <1>1, <1>2, KeptSegments
  <2> QED
    BY <1>2, <1>3, <1>4, <2>1, LetGo
<1>6. Running'
  BY <1>1, <1>2 DEF HeaderInv, Running
<1>7. PidsFaithful' => Claims'
  BY <1>1, <1>2, <1>5 DEF PidsFaithful
<1> QED
  BY <1>2, <1>3, <1>5, <1>6, <1>7 DEF LifecycleInv, HeaderInv

(* A process that dies takes its endpoints along, and leaves its PID. *)
LEMMA CrashStep ==
    ASSUME LifecycleInv, NEW p \in Procs, Crash(p)
    PROVE  LifecycleInv'
<1>1. /\ HeaderInv
      /\ TypeOK
      /\ PidsFaithful => Claims
  BY DEF LifecycleInv, HeaderInv
<1>2. /\ alive' = alive \ {p}
      /\ deaths < MaxCrashes /\ deaths' = deaths + 1
      /\ seg' = Kept(linked, ep')
      /\ linked' = linked
  BY DEF Crash
<1>3. deaths \in 0 .. MaxCrashes
  BY <1>1 DEF TypeOK
<1>4. deaths' \in 0 .. MaxCrashes /\ deaths' # 0
  BY <1>2, <1>3, LifecycleAssumption
<1>5. /\ ep' \in [Endpoints -> Endpoint]
      /\ \A f \in Endpoints : ep'[f] = IF ProcOf[f] = p THEN Dead ELSE ep[f]
  BY <1>1, GoneFields DEF Crash, TypeOK, Gone
<1>6. TypeOK'
  BY <1>1, <1>2, <1>4, <1>5, KeptSegments DEF TypeOK
<1>7. \A f \in Endpoints :
        ep'[f].map = NoSeg \/ seg'[ep'[f].map] = seg[ep'[f].map]
  <2> SUFFICES ASSUME NEW f \in Endpoints, ep'[f].map # NoSeg
               PROVE  seg'[ep'[f].map] = seg[ep'[f].map]
    OBVIOUS
  <2>1. ep'[f].map \in Segments
    BY <1>5 DEF Endpoint
  <2>2. InUse(ep'[f].map, linked, ep')
    BY DEF InUse
  <2> QED
    BY <1>1, <1>2, <2>1, <2>2, KeptSegments
<1>8. /\ AllPlaced' /\ Owned' /\ InTurn' /\ CheckAlone'
      /\ Claims => Claims'
  <2>1. \A f \in Endpoints : ep'[f] = ep[f] \/ ep'[f] \in Gone
    BY <1>5 DEF Gone
  <2>2. \A t \in Segments : seg'[t] = seg[t] \/ ~seg'[t].magic
    BY <1>1, <1>2, KeptSegments
  <2>3. alive' \subseteq alive
    BY <1>2
  <2> QED
    BY <1>6, <1>7, <2>1, <2>2, <2>3, LetGo
<1>9. Running'
  <2>1. Dead.pc = "dead"
    BY DEF Dead, Mapping
  <2> QED
    BY <1>1, <1>2, <1>4, <1>5, <2>1 DEF HeaderInv, Running
<1>10. PidsFaithful' => Claims'
  BY <1>1, <1>4, <1>8 DEF PidsFaithful
<1>11. ~Undisturbed'
  BY <1>4 DEF Undisturbed
<1> QED
  BY <1>6, <1>8, <1>9, <1>10, <1>11 DEF LifecycleInv, HeaderInv

(* With a PID reused, only what does not depend on PIDs is known. *)
LEMMA ReuseStep ==
    ASSUME LifecycleInv, NEW p \in Procs, Reuse(p)
    PROVE  LifecycleInv'
<1>1. HeaderInv /\ TypeOK
  BY DEF LifecycleInv, HeaderInv
<1>2. /\ ReusePids /\ p \notin alive
      /\ alive' = alive \cup {p}
      /\ UNCHANGED <<linked, seg, deaths>>
  BY DEF Reuse
<1>3. deaths # 0
  BY <1>1, <1>2 DEF HeaderInv, Running
<1>4. /\ ep' \in [Endpoints -> Endpoint]
      /\ \A f \in Endpoints : ep'[f] = IF ProcOf[f] = p THEN Closed ELSE ep[f]
  BY <1>1, GoneFields DEF Reuse, TypeOK, Gone
<1>5. TypeOK'
  BY <1>1, <1>2, <1>4 DEF TypeOK
<1>6. AllPlaced' /\ Owned' /\ InTurn' /\ CheckAlone'
  <2>1. \A f \in Endpoints : ep'[f] = ep[f] \/ ep'[f] \in Gone
    BY <1>4 DEF Gone
  <2> QED
    BY <1>2, <1>5, <2>1, LetGo
<1>7. Running'
  BY <1>1, <1>2, <1>3, <1>4 DEF HeaderInv, Running
<1>8. ~PidsFaithful' /\ ~Undisturbed'
  BY <1>2, <1>3 DEF PidsFaithful, Undisturbed
<1> QED
  BY <1>5, <1>6, <1>7, <1>8 DEF LifecycleInv, HeaderInv

-----------------------------------------------------------------------------

(* It holds at first. *)
LEMMA LifecycleInit ==
    Init => LifecycleInv
<1> SUFFICES ASSUME Init PROVE LifecycleInv
  OBVIOUS
<1>1. /\ \A e \in Endpoints : ep[e] = Closed
      /\ \A s \in Segments : seg[s] = Zeroed(0)
      /\ linked = NoSeg /\ alive = Procs /\ deaths = 0
  BY DEF Init
<1>2. Closed.pc = "closed" /\ Closed.map = NoSeg /\ ~Closed.own
  BY DEF Closed, Mapping
<1>3. Zeroed(0) \in Segment /\ ~Zeroed(0).magic
  BY DEF Zeroed, Segment, Pids
<1>4. TypeOK
  BY <1>3, GoneFields, LifecycleAssumption DEF Init, TypeOK, Gone
<1>5. AllPlaced /\ Owned /\ Running /\ InTurn /\ CheckAlone
  <2>1. AllPlaced
    BY <1>1, <1>2
    DEF AllPlaced, Placed, Unmapped, Laying, Bidding, Accepting
  <2>2. Owned /\ Running
    BY <1>1, <1>3, LifecycleAssumption DEF Owned, Running
  <2>3. InTurn /\ CheckAlone
    BY <1>1, <1>2, LifecycleAssumption DEF InTurn, CheckAlone, Opening
  <2> QED
    BY <2>1, <2>2, <2>3
<1>6. Claims
  BY <1>1, <1>2
  DEF Claims, Claimed, Adopting, RolesExclusive, Bound, OwnExclusive
<1>7. Names
  <2>1. \A s \in Segments : ~InUse(s, linked, ep)
    BY <1>1, <1>2, LifecycleAssumption DEF InUse
  <2> QED
    BY <1>1, <1>2, <2>1 DEF Names, Laying
<1> QED
  BY <1>4, <1>5, <1>6, <1>7 DEF LifecycleInv, HeaderInv

(* Every step keeps it. *)
LEMMA LifecycleStep ==
    ASSUME OpenInTurn, LifecycleInv, [Next]_vars
    PROVE  LifecycleInv'
<1>1. ASSUME NEW e \in Endpoints, Open(e) PROVE LifecycleInv'
  BY <1>1, WalkOpen
<1>2. ASSUME NEW e \in Endpoints, Proceed(e) PROVE LifecycleInv'
  <2>1. CASE CreateExists(e) \/ TryOpen(e)
    BY <2>1, WalkOpen
  <2>2. CASE Create(e)
    BY <2>2, CreateStep
  <2>3. CASE InitZero(e) \/ InitStamp(e) \/ InitMagic(e)
    BY <2>3, LaySteps
  <2>4. CASE InitCheck(e) \/ HeaderFound(e) \/ HeaderMissing(e)
    BY <2>4, WalkHeader
  <2>5. CASE ClaimSegment(e) \/ DeedStale(e)
    BY <2>5, WalkBid
  <2>6. CASE AdoptDeed(e)
    BY <2>6, WalkBid, AdoptStep
  <2>7. CASE ClaimRole(e)
    BY <2>7, WalkRole, RoleSteps
  <2>8. CASE AdoptRole(e)
    <3>1. CASE StillSaw(e, RoleWord(e)) /\ RoleOf[e] \in Roles
      BY <2>8, <3>1, RoleSteps
    <3>2. CASE ~StillSaw(e, RoleWord(e))
      BY <2>8, <3>2, WalkRole
    <3>3. RoleOf[e] \in Roles
      BY <2>8 DEF AdoptRole, LifecycleInv, HeaderInv, AllPlaced, Placed
    <3> QED
      BY <3>1, <3>2, <3>3
  <2>9. CASE RoleStale(e) \/ RoleConflict(e)
    BY <2>9, WalkRole
  <2>10. CASE Unmap(e)
    BY <2>10, UnmapStep
  <2> QED
    BY <1>2, <2>1, <2>2, <2>3, <2>4, <2>5, <2>6, <2>7, <2>8, <2>9, <2>10
    DEF Proceed
<1>3. ASSUME NEW e \in Endpoints, DropBound(e) PROVE LifecycleInv'
  BY <1>3, WalkRole, RoleSteps
<1>4. ASSUME NEW e \in Endpoints, DropUnconnected(e) PROVE LifecycleInv'
  BY <1>4, WalkBid
<1>5. CASE Unlink
  BY <1>5, UnlinkStep
<1>6. ASSUME NEW p \in Procs, Crash(p) \/ Reuse(p) PROVE LifecycleInv'
  BY <1>6, CrashStep, ReuseStep
<1>7. CASE UNCHANGED vars
  BY <1>7 DEF vars, LifecycleInv, HeaderInv, TypeOK, AllPlaced, Placed, Owned,
    Running, InTurn, CheckAlone, PidsFaithful, Claims, Claimed, RolesExclusive,
    Bound, OwnExclusive, Undisturbed, Names, InUse
<1> QED
  BY <1>1, <1>2, <1>3, <1>4, <1>5, <1>6, <1>7 DEF Next

-----------------------------------------------------------------------------

(* The layers of the invariant hold in every behaviour. *)
LEMMA LifecycleSafety ==
    ASSUME OpenInTurn
    PROVE  Spec => []LifecycleInv
<1>1. LifecycleInv /\ [Next]_vars => LifecycleInv'
  BY LifecycleStep
<1> QED
  BY <1>1, LifecycleInit, PTL DEF Spec

(* The state of a channel, its segments and its endpoints stays of its     *)
(* type, whoever opens, dies, unlinks or is given a reused PID.            *)
THEOREM LifecycleTypeOK ==
    ASSUME OpenInTurn
    PROVE  Spec => []TypeOK
<1>1. LifecycleInv => TypeOK
  BY DEF LifecycleInv, HeaderInv
<1> QED
  BY <1>1, LifecycleSafety, PTL

(* A header is never laid down again under an endpoint that is bound to    *)
(* its segment, and everybody is bound to a geometry they accept, across   *)
(* deaths, unlinks and reused PIDs: open_or_create's check of the magic is *)
(* enough when suppliers open in turn.                                     *)
THEOREM LifecycleHeaderStable ==
    ASSUME OpenInTurn
    PROVE  Spec => []HeaderStable
<1>1. LifecycleInv => HeaderStable
  BY DEF LifecycleInv, HeaderInv, AllPlaced, Placed, Accepting, HeaderStable,
         Bound
<1> QED
  BY <1>1, LifecycleSafety, PTL

(* claim_role lets one live endpoint at a time into a role, across deaths  *)
(* and takeovers, as long as the PID of a dead process is not given to a   *)
(* new one.                                                                *)
THEOREM LifecycleRolesExclusive ==
    ASSUME OpenInTurn, ~ReusePids
    PROVE  Spec => []RolesExclusive
<1>1. LifecycleInv => RolesExclusive
  BY DEF LifecycleInv, PidsFaithful, Claims
<1> QED
  BY <1>1, LifecycleSafety, PTL

(* The header names a bound endpoint's process until it drops the role: no *)
(* late release_role and no takeover evicts it.                            *)
THEOREM LifecycleRoleHeld ==
    ASSUME OpenInTurn, ~ReusePids
    PROVE  Spec => []RoleHeld
<1>1. LifecycleInv => RoleHeld
  BY DEF LifecycleInv, PidsFaithful, Claims, Claimed, RoleHeld, Bound
<1> QED
  BY <1>1, LifecycleSafety, PTL

(* claim_segment leaves one endpoint responsible for unlinking a segment,  *)
(* the one whose process the header names once it is bound.                *)
THEOREM LifecycleDeedExclusive ==
    ASSUME OpenInTurn, ~ReusePids
    PROVE  Spec => []DeedExclusive
<1>1. LifecycleInv => DeedExclusive
  BY DEF LifecycleInv, PidsFaithful, Claims, Claimed, OwnExclusive,
         DeedExclusive, Bound, Laying
<1> QED
  BY <1>1, LifecycleSafety, PTL

(* The name an owner's destructor unlinks is that of its own segment, up   *)
(* to the first death, if nobody else unlinks.                             *)
THEOREM LifecycleUnlinksOwn ==
    ASSUME OpenInTurn
    PROVE  Spec => []UnlinksOwn
<1>1. LifecycleInv => UnlinksOwn
  BY DEF LifecycleInv, Undisturbed, Names, UnlinksOwn
<1> QED
  BY <1>1, LifecycleSafety, PTL
=============================================================================
