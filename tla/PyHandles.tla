------------------------------ MODULE PyHandles ------------------------------
(***************************************************************************)
(* ReadHandle and WriteHandle of the Python bindings: objects that lend a  *)
(* ring slot out and export it through the buffer protocol.  A view (a     *)
(* memoryview, a numpy array) points straight into the slot.  Two things   *)
(* stand between a view and a slot that is handed on under it: the strong  *)
(* reference view.obj, and the export counter that release and commit      *)
(* look at.                                                                *)
(*                                                                         *)
(* One process holds a reader and a writer of one channel, both created by *)
(* the thread Home.  The interpreter lock makes every call one step.  Of a *)
(* control word only its sign is kept; the races inside the ring are       *)
(* Ring's.  Every class is unsendable: off Home a method panics before its *)
(* body runs, and the last reference dropped there frees the object but    *)
(* never runs its destructor.                                              *)
(***************************************************************************)
EXTENDS Integers, FiniteSets

CONSTANTS
    EntryCount,  \* ring slots
    Handles,     \* handle objects alive at a time
    Views,       \* views alive at a time
    Home,        \* the thread that created the endpoints
    Threads,     \* the threads that drop references
    Overlap,     \* may the writer be used while a write handle is out?
    MaxExports,  \* bound: the counter of a handle
    NoHandle     \* a view that is not alive

ASSUME PyAssumption ==
    /\ EntryCount \in Nat \ {0}
    /\ IsFiniteSet(Views)
    /\ Home \in Threads
    /\ Overlap \in BOOLEAN
    /\ MaxExports \in Nat
    /\ NoHandle \notin Handles

VARIABLES
    word,    \* entry_seq of each slot: "empty" (0), "entry" (> 0), "held" (< 0)
    cursor,  \* RawWriter.current_index
    hd,      \* the handle objects
    views,   \* view.obj: the handle a view exports, or NoHandle
    ends,    \* the two endpoint objects
    astray   \* has a reference died where no destructor helps?  (history)

vars == <<word, cursor, hd, views, ends, astray>>

Slots == 0 .. EntryCount - 1
Kinds == {"read", "write"}
Objects == {"live", "gone", "leaked"}

(* loan: the Option is Some.  named: something other than a view refers to *)
(* the object.                                                             *)
HandleObject ==
    [kind : Kinds, obj : Objects, loan : BOOLEAN, slot : Slots,
     exports : Nat, named : BOOLEAN]
Endpoint == [obj : Objects, named : BOOLEAN]

(* Every field keeps its type: slots in range, counts never negative.      *)
TypeOK ==
    /\ word \in [Slots -> {"empty", "entry", "held"}]
    /\ cursor \in Slots
    /\ hd \in [Handles -> HandleObject]
    /\ views \in [Views -> Handles \cup {NoHandle}]
    /\ ends \in [Kinds -> Endpoint]
    /\ astray \in BOOLEAN

Unused ==
    [kind |-> "read", obj |-> "gone", loan |-> FALSE, slot |-> 0,
     exports |-> 0, named |-> FALSE]

Init ==
    /\ word = [s \in Slots |-> "empty"]
    /\ cursor = 0
    /\ hd = [h \in Handles |-> Unused]
    /\ views = [v \in Views |-> NoHandle]
    /\ ends = [k \in Kinds |-> [obj |-> "live", named |-> TRUE]]
    /\ astray = FALSE

-----------------------------------------------------------------------------

(* A handle the program can reach and call: by name, or as a view's obj.   *)
Reachable(h) == hd[h].obj = "live"
Loans(h, kind) == Reachable(h) /\ hd[h].kind = kind /\ hd[h].loan

(* (s + 1) % entry_count.  Faulty variant: the wrap-around is forgotten.   *)
SlotAfterNoWrap(s) == s + 1
SlotAfter(s) == IF s + 1 = EntryCount THEN 0 ELSE s + 1

(* try_acquire wraps the core handle and a reference to its endpoint.      *)
Wrapped(kind, s) ==
    [kind |-> kind, obj |-> "live", loan |-> TRUE, slot |-> s,
     exports |-> 0, named |-> TRUE]

(* BytesReader.try_acquire and Float64Reader.try_acquire: some committed   *)
(* entry is pinned.  Which one the watermark decides (RingReader).         *)
ReaderTryAcquire(h) ==
    /\ ends["read"].named
    /\ hd[h].obj = "gone"
    /\ \E s \in Slots :
         /\ word[s] = "entry"
         /\ word' = [word EXCEPT ![s] = "held"]
         /\ hd' = [hd EXCEPT ![h] = Wrapped("read", s)]
    /\ UNCHANGED <<cursor, views, ends, astray>>

(* claim_slot: the first slot from the cursor on that no reader holds; if  *)
(* there is none the call raises BlockingIOError and changes nothing.      *)
Ahead(s) == IF s < cursor THEN s + EntryCount - cursor ELSE s - cursor
Claimable(s) ==
    /\ word[s] # "held"
    /\ \A k \in Slots : Ahead(k) < Ahead(s) => word[k] = "held"

WriterFree ==
    /\ ends["write"].named
    /\ Overlap \/ \A h \in Handles : ~Loans(h, "write")

(* BytesWriter.try_acquire and Float64Writer.try_acquire. *)
WriterTryAcquire(h) ==
    /\ WriterFree
    /\ hd[h].obj = "gone"
    /\ \E s \in Slots :
         /\ Claimable(s)
         /\ word' = [word EXCEPT ![s] = "empty"]
         /\ hd' = [hd EXCEPT ![h] = Wrapped("write", s)]
    /\ UNCHANGED <<cursor, views, ends, astray>>

(* BytesWriter.write and Float64Writer.write: claimed, filled, published.  *)
Write ==
    /\ WriterFree
    /\ \E s \in Slots :
         /\ Claimable(s)
         /\ word' = [word EXCEPT ![s] = "entry"]
         /\ cursor' = SlotAfter(s)
    /\ UNCHANGED <<hd, views, ends, astray>>

(* __getbuffer__ fills view.obj and counts the export.  Faulty variant:    *)
(* the export is not counted.                                              *)
CountedNever(n) == n
Counted(n) == n + 1

GetBuffer(h, v) ==
    /\ Reachable(h)
    /\ hd[h].loan
    /\ views[v] = NoHandle
    /\ hd[h].exports < MaxExports
    /\ views' = [views EXCEPT ![v] = h]
    /\ hd' = [hd EXCEPT ![h].exports = Counted(@)]
    /\ UNCHANGED <<word, cursor, ends, astray>>

(* What release and commit require.  Faulty variant: exports are ignored.  *)
MayFinishAlways(h) == hd[h].loan
MayFinish(h) == hd[h].loan /\ hd[h].exports = 0

(* ReadHandle.release and __exit__.  With exports outstanding BufferError  *)
(* is raised, without a loan nothing is done: neither changes anything.    *)
Release(h) ==
    /\ Reachable(h)
    /\ hd[h].kind = "read"
    /\ MayFinish(h)
    /\ word' = [word EXCEPT ![hd[h].slot] = "entry"]
    /\ hd' = [hd EXCEPT ![h].loan = FALSE]
    /\ UNCHANGED <<cursor, views, ends, astray>>

(* WriteHandle.commit, and __exit__ when the block did not raise; when it  *)
(* did, __exit__ does nothing and the handle keeps its slot.               *)
Commit(h) ==
    /\ Reachable(h)
    /\ hd[h].kind = "write"
    /\ MayFinish(h)
    /\ word' = [word EXCEPT ![hd[h].slot] = "entry"]
    /\ cursor' = SlotAfter(hd[h].slot)
    /\ hd' = [hd EXCEPT ![h].loan = FALSE]
    /\ UNCHANGED <<views, ends, astray>>

-----------------------------------------------------------------------------

(* An endpoint with neither a name nor a handle is dropped: RawReader and  *)
(* RawWriter give their role back and unmap the segment.  Faulty variant:  *)
(* handles do not keep their endpoint.                                     *)
KeptByNone(k, hs) == FALSE
KeptBy(k, hs) ==
    \E h \in Handles : hs[h].obj \in {"live", "leaked"} /\ hs[h].kind = k

DropEndpoint(e, k, hs, t) ==
    IF e.named \/ e.obj # "live" \/ KeptBy(k, hs) THEN e
    ELSE [e EXCEPT !.obj = IF t = Home THEN "gone" ELSE "leaked"]

(* PyReadHandle::drop releases the slot if it can.  PyWriteHandle has no   *)
(* destructor: the slot stays empty.  Faulty variant: no read handle       *)
(* releases.                                                               *)
BackstopNone(o) == FALSE
Backstop(o) == o.kind = "read" /\ o.loan /\ o.exports = 0

Strayed(t) == astray \/ t # Home

(* A reference to handle h is gone; hs and vs are the objects without it.  *)
(* What the last reference sets off depends on the thread t it dies on.    *)
Kept(h, hs, vs, t) ==
    /\ hs[h].named \/ \E v \in Views : vs[v] = h
    /\ hd' = hs
    /\ astray' = Strayed(t)
    /\ UNCHANGED <<word, ends>>

DroppedHome(h, hs, vs, t) ==
    /\ ~hs[h].named /\ \A v \in Views : vs[v] # h
    /\ t = Home
    /\ hd' = [hs EXCEPT ![h] = [@ EXCEPT !.obj = "gone", !.loan = FALSE]]
    /\ word' = IF Backstop(hs[h]) THEN [word EXCEPT ![hs[h].slot] = "entry"]
               ELSE word
    /\ ends' = [k \in Kinds |-> DropEndpoint(ends[k], k, hd', t)]
    /\ astray' = Strayed(t)

(* The collector runs the finaliser in the middle of the reader's read,    *)
(* which borrows the reader: with_raw fails, drop ignores the error, and   *)
(* the slot stays held for good.                                           *)
DroppedInCall(h, hs, vs, t) ==
    /\ ~hs[h].named /\ \A v \in Views : vs[v] # h
    /\ t = Home
    /\ ends["read"].named
    /\ Backstop(hs[h])
    /\ hd' = [hs EXCEPT ![h] = [@ EXCEPT !.obj = "gone", !.loan = FALSE]]
    /\ astray' = TRUE
    /\ UNCHANGED <<word, ends>>

DroppedElsewhere(h, hs, vs, t) ==
    /\ ~hs[h].named /\ \A v \in Views : vs[v] # h
    /\ t # Home
    /\ hd' = [hs EXCEPT ![h].obj = "leaked"]
    /\ astray' = Strayed(t)
    /\ UNCHANGED <<word, ends>>

Dereferenced(h, hs, vs, t) ==
    \/ Kept(h, hs, vs, t)
    \/ DroppedHome(h, hs, vs, t)
    \/ DroppedInCall(h, hs, vs, t)
    \/ DroppedElsewhere(h, hs, vs, t)

(* __releasebuffer__: saturating_sub, on the handle's own thread.  Faulty  *)
(* variants: a view's death clears the count; it leaves the count.         *)
UncountedAll(n, t) == 0
UncountedNever(n, t) == n
Uncounted(n, t) == IF t # Home \/ n = 0 THEN n ELSE n - 1

(* A view dies: __releasebuffer__, then its reference to the handle.       *)
ReleaseBuffer(v, t) ==
    /\ views[v] # NoHandle
    /\ views' = [views EXCEPT ![v] = NoHandle]
    /\ Dereferenced(views[v],
                    [hd EXCEPT ![views[v]].exports = Uncounted(@, t)],
                    views', t)
    /\ UNCHANGED cursor

(* The program's last own reference to a handle goes. *)
Forget(h, t) ==
    /\ Reachable(h)
    /\ hd[h].named
    /\ Dereferenced(h, [hd EXCEPT ![h].named = FALSE], views, t)
    /\ UNCHANGED <<cursor, views>>

(* The program's last own reference to an endpoint goes. *)
ForgetEndpoint(k, t) ==
    /\ ends[k].named
    /\ ends' = [ends EXCEPT ![k] =
                  DropEndpoint([@ EXCEPT !.named = FALSE], k, hd, t)]
    /\ astray' = Strayed(t)
    /\ UNCHANGED <<word, cursor, hd, views>>

-----------------------------------------------------------------------------

Next ==
    \/ Write
    \/ \E h \in Handles :
         \/ ReaderTryAcquire(h)
         \/ WriterTryAcquire(h)
         \/ Release(h)
         \/ Commit(h)
         \/ \E v \in Views : GetBuffer(h, v)
         \/ \E t \in Threads : Forget(h, t)
    \/ \E v \in Views, t \in Threads : ReleaseBuffer(v, t)
    \/ \E k \in Kinds, t \in Threads : ForgetEndpoint(k, t)

Spec == Init /\ [][Next]_vars

-----------------------------------------------------------------------------

(* A view of a read handle points into a slot the writer steps over,       *)
(* whatever was released, dropped or reused in the meantime: "the slot     *)
(* must not be recycled while any memoryview or numpy array still          *)
(* references it".                                                         *)
ViewsPinned ==
    \A v \in Views :
        views[v] # NoHandle /\ hd[views[v]].kind = "read"
            => word[hd[views[v]].slot] = "held"

(* A view of a write handle points into a slot no reader sees: "writing    *)
(* through one after the entry is visible would corrupt a published        *)
(* entry".                                                                 *)
ViewsPrivate ==
    \A v \in Views :
        views[v] # NoHandle /\ hd[views[v]].kind = "write"
            => word[hd[views[v]].slot] = "empty"

(* A view outlives neither its handle nor the mapping: the endpoint that   *)
(* owns the mapping is not dropped while a view is alive, even after the   *)
(* program has dropped both the handle and the endpoint.                   *)
ViewsMapped ==
    \A v \in Views :
        views[v] # NoHandle
            => /\ hd[views[v]].obj = "live"
               /\ ends[hd[views[v]].kind].obj = "live"

(* A slot is held only as long as some handle can still give it back: "the *)
(* slot is returned automatically once the last view dies and the handle   *)
(* is finalised".  True until a reference dies off the handle's thread,    *)
(* where neither __releasebuffer__ nor PyReadHandle::drop runs, or inside  *)
(* a call of the reader, where drop finds it borrowed.                     *)
SlotReturned ==
    ~astray =>
        \A s \in Slots :
            word[s] = "held"
                => \E h \in Handles : Loans(h, "read") /\ hd[h].slot = s

(* PyReadHandle::drop: "exports are necessarily zero here".  Again until a *)
(* reference dies off the handle's thread: a view that does leaves its     *)
(* export counted.                                                         *)
DropSeesNoExports ==
    ~astray =>
        \A h \in Handles :
            hd[h].obj = "gone" /\ hd[h].kind = "read" => hd[h].exports = 0
=============================================================================
