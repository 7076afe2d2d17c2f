------------------------------ MODULE Lifecycle ------------------------------
(***************************************************************************)
(* The lifecycle of a named channel: who creates and initialises the       *)
(* shared-memory segment, who holds its deed (and unlinks the name on the  *)
(* way out), and who holds the exclusive writer and zero-copy reader       *)
(* roles.  An endpoint is a RawWriter or RawReader of the zerochannel      *)
(* crate, living in a process; a process may die at any step, and its PID  *)
(* may be given to a new process.                                          *)
(*                                                                         *)
(* A geometry is a number that stands for sizes and element type; a larger *)
(* one needs a larger mapping.                                             *)
(***************************************************************************)
EXTENDS Naturals, FiniteSets

CONSTANTS
    Endpoints,
    Procs,        \* processes, as PIDs
    ProcOf,       \* the process an endpoint lives in
    RoleOf,       \* "writer", "zc" (zero-copy reader) or "none" (reader)
    Suppliers,    \* endpoints that supply a geometry, bidding for the deed
    GeometryOf,   \* the geometry an endpoint supplies
    Accepted,     \* the geometries an endpoint can be bound to
    Deferred,     \* endpoints opened with delayed_connect
    Segments,     \* shared-memory objects, at least one per endpoint
    NoSeg, NoPid,
    Orderly,      \* do suppliers wait for one another's open?
    AllowUnlink,  \* may a supervisor call unlink(name)?
    ReusePids,    \* may the PID of a dead process be reused?
    MaxCrashes    \* bound: processes that die

ASSUME LifecycleAssumption ==
    /\ Suppliers \subseteq Endpoints
    /\ Deferred \subseteq Endpoints \ Suppliers
    /\ RoleOf \in [Endpoints -> {"writer", "zc", "none"}]
    /\ ProcOf \in [Endpoints -> Procs]
    /\ GeometryOf \in [Endpoints -> Nat \ {0}]
    /\ Accepted \in [Endpoints -> SUBSET Nat]
    /\ \A e \in Suppliers : GeometryOf[e] \in Accepted[e]
    /\ NoSeg \notin Segments /\ NoPid \notin Procs
    /\ Orderly \in BOOLEAN /\ AllowUnlink \in BOOLEAN /\ ReusePids \in BOOLEAN
    /\ MaxCrashes \in Nat

VARIABLES
    linked,  \* the segment the channel's name refers to
    seg,     \* header of every segment
    alive,   \* PIDs of live processes
    deaths,  \* processes that have died
    ep       \* private state of every endpoint

vars == <<linked, seg, alive, deaths, ep>>

-----------------------------------------------------------------------------

Pids == Procs \cup {NoPid}

Roles == {"writer", "zc"}

(* size is the geometry the mapping was created for, the rest is the       *)
(* header: magic, geometry, segment_owner, and writer_owner and            *)
(* zero_copy_reader_owner under role.                                      *)
Segment == [size : Nat, magic : BOOLEAN, geometry : Nat,
            owner : Pids, role : [Roles -> Pids]]

Zeroed(size) == [size |-> size, magic |-> FALSE, geometry |-> 0,
                 owner |-> NoPid, role |-> [k \in Roles |-> NoPid]]

EndpointPc == {"closed", "create", "open", "header", "zero", "stamp",
               "magic", "check", "deed", "adopt deed", "role", "adopt role",
               "bound", "unmap", "reject", "deferred", "dead"}

(* map is the mapped segment, own is Shmem's owner flag (its destructor    *)
(* unlinks the name exactly when it is set), saw the dead holder that      *)
(* claim_segment or claim_role is about to replace.                        *)
Endpoint == [pc : EndpointPc, map : Segments \cup {NoSeg}, own : BOOLEAN,
             saw : Pids]

Mapping(pc, s, own) == [pc |-> pc, map |-> s, own |-> own, saw |-> NoPid]

Closed == Mapping("closed", NoSeg, FALSE)
Unconnected == Mapping("deferred", NoSeg, FALSE)
Dead == Mapping("dead", NoSeg, FALSE)

TypeOK ==
    /\ linked \in Segments \cup {NoSeg}
    /\ seg \in [Segments -> Segment]
    /\ alive \in SUBSET Procs
    /\ deaths \in 0 .. MaxCrashes
    /\ ep \in [Endpoints -> Endpoint]

Init ==
    /\ linked = NoSeg
    /\ seg = [s \in Segments |-> Zeroed(0)]
    /\ alive = Procs
    /\ deaths = 0
    /\ ep = [e \in Endpoints |-> Closed]

(* Shared memory with neither a name nor a mapping is gone. *)
InUse(s, name, eps) == s = name \/ \E e \in Endpoints : eps[e].map = s
Kept(name, eps) ==
    [s \in Segments |-> IF InUse(s, name, eps) THEN seg[s] ELSE Zeroed(0)]

To(e, pc) == ep' = [ep EXCEPT ![e].pc = pc]

(* process_alive.  Faulty variants: every holder is taken for dead, or for *)
(* alive.                                                                  *)
ProcessNeverAlive(p) == FALSE
ProcessAlwaysAlive(p) == TRUE
ProcessAlive(p) == p \in alive

(* What is left of an endpoint that finds no channel: a deferred one tries *)
(* again at its next call.                                                 *)
NotThere(e) == IF e \in Deferred THEN Unconnected ELSE Closed

-----------------------------------------------------------------------------
(* open_or_create *)

Opening == {"create", "open", "header", "zero", "stamp", "magic", "check"}

(* The constructor, or ensure_connected at a call of a deferred endpoint.  *)
Open(e) ==
    /\ ep[e].pc \in {"closed", "deferred"}
    /\ (Orderly /\ e \in Suppliers) =>
           \A f \in Suppliers : ep[f].pc \notin Opening
    /\ To(e, IF e \in Suppliers THEN "create" ELSE "open")
    /\ UNCHANGED <<linked, seg, alive, deaths>>

(* create_segment: the name is free and O_EXCL gives it to one creator ... *)
Create(e) ==
    /\ ep[e].pc = "create"
    /\ linked = NoSeg
    /\ \E s \in Segments :
         /\ ~InUse(s, linked, ep)
         /\ linked' = s
         /\ seg' = [seg EXCEPT ![s] = Zeroed(GeometryOf[e])]
         /\ ep' = [ep EXCEPT ![e] = Mapping("zero", s, TRUE)]
    /\ UNCHANGED <<alive, deaths>>

(* ... or it is taken. *)
CreateExists(e) ==
    /\ ep[e].pc = "create"
    /\ linked # NoSeg
    /\ To(e, "open")
    /\ UNCHANGED <<linked, seg, alive, deaths>>

(* try_open *)
TryOpen(e) ==
    /\ ep[e].pc = "open"
    /\ ep' = [ep EXCEPT ![e] =
                IF linked = NoSeg
                THEN NotThere(e)
                ELSE Mapping("header", linked, FALSE)]
    /\ UNCHANGED <<linked, seg, alive, deaths>>

(* init_header, in its three stages: everything zero, then the geometry    *)
(* and the deed, then the magic.                                           *)
InitZero(e) ==
    /\ ep[e].pc = "zero"
    /\ seg' = [seg EXCEPT ![ep[e].map] = Zeroed(seg[ep[e].map].size)]
    /\ To(e, "stamp")
    /\ UNCHANGED <<linked, alive, deaths>>

(* The deed goes to whoever lays down the header.  Faulty variants: the    *)
(* deed is left blank; the words of the two are mixed up.                  *)
DeedOfNobody(e) == NoPid
DeedOf(e) == ProcOf[e]

StampedSwapped(e, h) == [h EXCEPT !.geometry = DeedOf(e),
                                  !.owner = GeometryOf[e]]
Stamped(e, h) == [h EXCEPT !.geometry = GeometryOf[e], !.owner = DeedOf(e)]

InitStamp(e) ==
    /\ ep[e].pc = "stamp"
    /\ seg' = [seg EXCEPT ![ep[e].map] = Stamped(e, @)]
    /\ To(e, "magic")
    /\ UNCHANGED <<linked, alive, deaths>>

InitMagic(e) ==
    /\ ep[e].pc = "magic"
    /\ seg' = [seg EXCEPT ![ep[e].map].magic = TRUE]
    /\ To(e, "check")
    /\ UNCHANGED <<linked, alive, deaths>>

(* header_of after init: with the magic in place the endpoint is the owner *)
(* and goes on to its role; without it the open fails.                     *)
InitCheck(e) ==
    /\ ep[e].pc = "check"
    /\ ep' = [ep EXCEPT ![e] =
                IF seg[ep[e].map].magic
                THEN [@ EXCEPT !.pc = "role", !.own = TRUE]
                ELSE [@ EXCEPT !.pc = "reject"]]
    /\ UNCHANGED <<linked, seg, alive, deaths>>

(* validate_header and check_dtype of a supplier, which must find its own  *)
(* sizes and a type it can take, and check_dtype of an attacher, which     *)
(* takes any sizes.  Faulty variant: nothing is validated.                 *)
AcceptsAny(e, h) == TRUE
Accepts(e, h) == h.geometry \in Accepted[e]

(* read_header found the magic: a supplier validates before it bids. *)
HeaderFound(e) ==
    /\ ep[e].pc = "header"
    /\ seg[ep[e].map].magic
    /\ To(e, IF ~Accepts(e, seg[ep[e].map]) THEN "reject"
             ELSE IF e \in Suppliers THEN "deed" ELSE "role")
    /\ UNCHANGED <<linked, seg, alive, deaths>>

(* No magic: a supplier whose geometry fits initialises the segment, any   *)
(* other endpoint lets go of it.                                           *)
HeaderMissing(e) ==
    /\ ep[e].pc = "header"
    /\ ~seg[ep[e].map].magic
    /\ To(e, IF e \in Suppliers /\ seg[ep[e].map].size >= GeometryOf[e]
             THEN "zero" ELSE "reject")
    /\ UNCHANGED <<linked, seg, alive, deaths>>

-----------------------------------------------------------------------------

(* claim_segment and claim_role: the word is free and the first            *)
(* compare-and-swap takes it, or its holder is looked up ...               *)
Free(holder) == holder = NoPid

(* ... and what decides against the bidder.  A role held in this very      *)
(* process is a conflict too.  Faulty variant: it is not.                  *)
RoleTakenByOthers(e, holder) ==
    ~Free(holder) /\ ProcessAlive(holder) /\ holder # ProcOf[e]
RoleTaken(e, holder) == ~Free(holder) /\ ProcessAlive(holder)

DeedTaken(e, holder) ==
    ~Free(holder) /\ (holder = ProcOf[e] \/ ProcessAlive(holder))

(* The second compare-and-swap replaces a dead holder, if it is still the  *)
(* one that was looked up.  Faulty variant: a plain store.                 *)
StillSawAssumed(e, holder) == TRUE
StillSaw(e, holder) == holder = ep[e].saw

Deed(e) == seg[ep[e].map].owner

(* claim_segment: the bidder wins the deed, or goes on as a tenant. *)
ClaimSegment(e) ==
    /\ ep[e].pc = "deed"
    /\ Free(Deed(e)) \/ DeedTaken(e, Deed(e))
    /\ seg' = IF Free(Deed(e)) THEN [seg EXCEPT ![ep[e].map].owner = ProcOf[e]]
              ELSE seg
    /\ ep' = [ep EXCEPT ![e].pc = "role", ![e].own = Free(Deed(e))]
    /\ UNCHANGED <<linked, alive, deaths>>

DeedStale(e) ==
    /\ ep[e].pc = "deed"
    /\ ~Free(Deed(e)) /\ ~DeedTaken(e, Deed(e))
    /\ ep' = [ep EXCEPT ![e].pc = "adopt deed", ![e].saw = Deed(e)]
    /\ UNCHANGED <<linked, seg, alive, deaths>>

AdoptDeed(e) ==
    /\ ep[e].pc = "adopt deed"
    /\ IF StillSaw(e, Deed(e))
       THEN /\ seg' = [seg EXCEPT ![ep[e].map].owner = ProcOf[e]]
            /\ ep' = [ep EXCEPT ![e] = Mapping("role", @.map, TRUE)]
       ELSE /\ ep' = [ep EXCEPT ![e] = Mapping("deed", @.map, FALSE)]
            /\ UNCHANGED seg
    /\ UNCHANGED <<linked, alive, deaths>>

RoleWord(e) == seg[ep[e].map].role[RoleOf[e]]
WithRole(e) == [seg EXCEPT ![ep[e].map].role[RoleOf[e]] = ProcOf[e]]

(* bind: claim_role, which a one-copy reader does without, then attach. *)
ClaimRole(e) ==
    /\ ep[e].pc = "role"
    /\ RoleOf[e] \in Roles => Free(RoleWord(e))
    /\ seg' = IF RoleOf[e] \in Roles THEN WithRole(e) ELSE seg
    /\ To(e, "bound")
    /\ UNCHANGED <<linked, alive, deaths>>

RoleStale(e) ==
    /\ ep[e].pc = "role"
    /\ RoleOf[e] \in Roles
    /\ ~Free(RoleWord(e)) /\ ~RoleTaken(e, RoleWord(e))
    /\ ep' = [ep EXCEPT ![e].pc = "adopt role", ![e].saw = RoleWord(e)]
    /\ UNCHANGED <<linked, seg, alive, deaths>>

AdoptRole(e) ==
    /\ ep[e].pc = "adopt role"
    /\ ep' = [ep EXCEPT ![e].saw = NoPid,
                        ![e].pc = IF StillSaw(e, RoleWord(e)) THEN "bound"
                                                              ELSE "role"]
    /\ seg' = IF StillSaw(e, RoleWord(e)) THEN WithRole(e) ELSE seg
    /\ UNCHANGED <<linked, alive, deaths>>

(* bind fails with RoleConflict: the mapping is dropped and no role is     *)
(* released, for none was taken.                                           *)
RoleConflict(e) ==
    /\ ep[e].pc = "role"
    /\ RoleOf[e] \in Roles /\ RoleTaken(e, RoleWord(e))
    /\ To(e, "reject")
    /\ UNCHANGED <<linked, seg, alive, deaths>>

-----------------------------------------------------------------------------

(* release_role: a compare-and-swap from this process to none. *)
Released(e, holder) == IF holder = ProcOf[e] THEN NoPid ELSE holder

(* Drop of a bound endpoint hands the role back ... *)
DropBound(e) ==
    /\ ep[e].pc = "bound"
    /\ seg' = IF RoleOf[e] \in Roles
              THEN [seg EXCEPT ![ep[e].map].role[RoleOf[e]] = Released(e, @)]
              ELSE seg
    /\ To(e, "unmap")
    /\ UNCHANGED <<linked, alive, deaths>>

(* ... and then drops the mapping, as an open that fails does.  An owner's *)
(* destructor unlinks the name, whatever segment it refers to by then.     *)
(* An open fails in the constructor, or in a call of a deferred endpoint,  *)
(* which stays as it was.                                                  *)
Unmap(e) ==
    /\ ep[e].pc \in {"unmap", "reject"}
    /\ linked' = IF ep[e].own THEN NoSeg ELSE linked
    /\ \E left \in IF ep[e].pc = "unmap" THEN {Closed}
                                        ELSE {Closed, NotThere(e)} :
           ep' = [ep EXCEPT ![e] = left]
    /\ seg' = Kept(linked', ep')
    /\ UNCHANGED <<alive, deaths>>

DropUnconnected(e) ==
    /\ ep[e].pc = "deferred"
    /\ ep' = [ep EXCEPT ![e] = Closed]
    /\ UNCHANGED <<linked, seg, alive, deaths>>

(* unlink(name) *)
Unlink ==
    /\ AllowUnlink
    /\ linked # NoSeg
    /\ linked' = NoSeg
    /\ seg' = Kept(NoSeg, ep)
    /\ UNCHANGED <<alive, deaths, ep>>

(* A process dies: its mappings go, its PID stays in the header. *)
Crash(p) ==
    /\ p \in alive
    /\ deaths < MaxCrashes
    /\ alive' = alive \ {p}
    /\ deaths' = deaths + 1
    /\ ep' = [e \in Endpoints |-> IF ProcOf[e] = p THEN Dead ELSE ep[e]]
    /\ seg' = Kept(linked, ep')
    /\ UNCHANGED linked

(* A new process, of the same program, is given the PID of a dead one. *)
Reuse(p) ==
    /\ ReusePids
    /\ p \notin alive
    /\ alive' = alive \cup {p}
    /\ ep' = [e \in Endpoints |-> IF ProcOf[e] = p THEN Closed ELSE ep[e]]
    /\ UNCHANGED <<linked, seg, deaths>>

(* What an endpoint does on its own once a call has begun: nothing in it   *)
(* waits for anybody.                                                      *)
Proceed(e) ==
    \/ Create(e) \/ CreateExists(e) \/ TryOpen(e)
    \/ InitZero(e) \/ InitStamp(e) \/ InitMagic(e) \/ InitCheck(e)
    \/ HeaderFound(e) \/ HeaderMissing(e)
    \/ ClaimSegment(e) \/ DeedStale(e) \/ AdoptDeed(e)
    \/ ClaimRole(e) \/ RoleStale(e) \/ AdoptRole(e) \/ RoleConflict(e)
    \/ Unmap(e)

Next ==
    \/ \E e \in Endpoints :
           Open(e) \/ Proceed(e) \/ DropBound(e) \/ DropUnconnected(e)
    \/ Unlink
    \/ \E p \in Procs : Crash(p) \/ Reuse(p)

Spec == Init /\ [][Next]_vars

-----------------------------------------------------------------------------

Bound(e) == ep[e].pc = "bound"

(* At most one live writer, and one live zero-copy reader, is bound to a   *)
(* segment (claim_role).                                                   *)
RolesExclusive ==
    \A e, f \in Endpoints :
        /\ Bound(e) /\ Bound(f) /\ ep[e].map = ep[f].map
        /\ RoleOf[e] = RoleOf[f] /\ RoleOf[e] \in Roles
        => e = f

(* A bound endpoint's role stays written down in the header until it drops *)
(* it: nobody's late or failing drop evicts it (release_role).             *)
RoleHeld ==
    \A e \in Endpoints :
        Bound(e) /\ RoleOf[e] \in Roles =>
            seg[ep[e].map].role[RoleOf[e]] = ProcOf[e]

(* A segment that somebody is bound to is never initialised again under    *)
(* it, and everybody is bound to a geometry they accept.                   *)
HeaderStable ==
    \A e \in Endpoints : Bound(e) =>
        seg[ep[e].map].magic /\ seg[ep[e].map].geometry \in Accepted[e]

(* At most one endpoint is responsible for unlinking a segment, and once   *)
(* bound it lives in the process that holds the deed (claim_segment).      *)
DeedExclusive ==
    \A e, f \in Endpoints :
        /\ ep[e].own /\ ep[f].own /\ ep[e].map = ep[f].map => e = f
        /\ Bound(e) /\ ep[e].own => seg[ep[e].map].owner = ProcOf[e]

(* An open that is rejected does not unlink a channel others are bound to. *)
RejectedOpenKeepsName ==
    \A e, f \in Endpoints :
        ep[e].pc = "reject" /\ ep[e].own /\ Bound(f) => ep[f].map # ep[e].map

(* The name an owner takes away when it unmaps is that of the segment it   *)
(* is responsible for (Shmem's destructor unlinks by name), as long as no  *)
(* process has died and nobody else unlinks.  After a death the deed can   *)
(* pass to an endpoint whose segment has lost its name already.            *)
UnlinksOwn ==
    deaths = 0 /\ ~AllowUnlink =>
        \A e \in Endpoints :
            ep[e].pc \in {"unmap", "reject"} /\ ep[e].own =>
                linked \in {NoSeg, ep[e].map}

-----------------------------------------------------------------------------
(* Calls run to their end, and a deferred endpoint is called again and     *)
(* again: each call is another ensure_connected.                           *)

FairSpec ==
    /\ Spec
    /\ \A e \in Endpoints : WF_vars(Proceed(e))
    /\ \A e \in Deferred : WF_vars(Open(e))

(* The channel is there, of a kind e accepts, and nobody alive has e's     *)
(* role on it.                                                             *)
Available(e) ==
    /\ linked # NoSeg
    /\ seg[linked].magic
    /\ Accepts(e, seg[linked])
    /\ RoleOf[e] \in Roles => seg[linked].role[RoleOf[e]] \notin alive

(* A deferred endpoint gets through: unless it dies, it is not kept out of *)
(* a channel that stays available to it, whoever died in what state.       *)
Takeover ==
    \A e \in Deferred :
        <>[](Available(e) /\ ep[e].pc # "dead") => <>Bound(e)
=============================================================================
