--------------------------- MODULE PyHandlesProofs ---------------------------
(***************************************************************************)
(* The export counter never falls below the number of live views, on       *)
(* whatever thread they die.  So release and commit, which wait for zero,  *)
(* never hand on a slot under a view.  Until a reference dies off its      *)
(* thread the counter is exact, and then no slot stays held without a      *)
(* handle to return it.                                                    *)
(*                                                                         *)
(* The parts of the invariant take the state as parameters, because a      *)
(* dying reference is followed by a finaliser in the same step, and the    *)
(* invariant is needed in between.                                         *)
(***************************************************************************)
EXTENDS PyHandles, FiniteSetTheorems, TLAPS

(* The caller's side of the single-writer rule: the writer is not used     *)
(* while a write handle is out.                                            *)
OneWriteHandle == ~Overlap

Typed(w, hs, vs, es) ==
    /\ w \in [Slots -> {"empty", "entry", "held"}]
    /\ hs \in [Handles -> HandleObject]
    /\ vs \in [Views -> Handles \cup {NoHandle}]
    /\ es \in [Kinds -> Endpoint]

OnLoan(hs, h, kind) == hs[h].obj = "live" /\ hs[h].kind = kind /\ hs[h].loan
Of(vs, h) == {v \in Views : vs[v] = h}

(* A live view has a live handle that has not finished. *)
ViewsLoaned(hs, vs) ==
    \A v \in Views :
        vs[v] # NoHandle => hs[vs[v]].obj = "live" /\ hs[vs[v]].loan

(* A name, or a handle that was not finalised, keeps an endpoint. *)
EndsKept(hs, es) ==
    /\ \A k \in Kinds : es[k].named => es[k].obj = "live"
    /\ \A h \in Handles :
         hs[h].obj \in {"live", "leaked"} => es[hs[h].kind].obj = "live"

(* Read handles pin slots, each its own. *)
PinsHeld(w, hs) ==
    /\ \A h \in Handles : OnLoan(hs, h, "read") => w[hs[h].slot] = "held"
    /\ \A g, h \in Handles :
         OnLoan(hs, g, "read") /\ OnLoan(hs, h, "read")
            /\ hs[g].slot = hs[h].slot => g = h

(* There is one write handle at a time, and its slot is empty. *)
WriteAlone(w, hs) ==
    /\ \A h \in Handles : OnLoan(hs, h, "write") => w[hs[h].slot] = "empty"
    /\ \A g, h \in Handles :
         OnLoan(hs, g, "write") /\ OnLoan(hs, h, "write") => g = h

(* The counter covers the live views. *)
ExportsCover(hs, vs) ==
    \A h \in Handles : Cardinality(Of(vs, h)) <= hs[h].exports

Shape(w, hs, vs, es) ==
    /\ Typed(w, hs, vs, es)
    /\ ViewsLoaned(hs, vs)
    /\ EndsKept(hs, es)
    /\ PinsHeld(w, hs)
    /\ WriteAlone(w, hs)
    /\ ExportsCover(hs, vs)

PyInv == cursor \in Slots /\ Shape(word, hd, views, ends)

-----------------------------------------------------------------------------

(* The views of a handle are finitely many, and none when they count zero. *)
LEMMA FewViews ==
    ASSUME NEW vs, NEW h
    PROVE  /\ IsFiniteSet(Of(vs, h))
           /\ Cardinality(Of(vs, h)) \in Nat
           /\ Cardinality(Of(vs, h)) = 0 => \A v \in Views : vs[v] # h
           /\ (\A v \in Views : vs[v] # h) => Cardinality(Of(vs, h)) = 0
<1>1. IsFiniteSet(Of(vs, h))
  BY PyAssumption, FS_Subset DEF Of
<1>2. Cardinality(Of(vs, h)) \in Nat
  BY <1>1, FS_CardinalityType
<1>3. Cardinality(Of(vs, h)) = 0 <=> Of(vs, h) = {}
  BY <1>1, FS_EmptySet
<1> QED
  BY <1>1, <1>2, <1>3 DEF Of

(* A new view adds one to the views of its handle. *)
LEMMA OneMoreView ==
    ASSUME NEW vs \in [Views -> Handles \cup {NoHandle}], NEW v \in Views,
           NEW h \in Handles, vs[v] = NoHandle
    PROVE  \A g \in Handles :
             Cardinality(Of([vs EXCEPT ![v] = h], g)) =
               IF g = h THEN Cardinality(Of(vs, g)) + 1
               ELSE Cardinality(Of(vs, g))
<1> DEFINE ws == [vs EXCEPT ![v] = h]
<1> SUFFICES ASSUME NEW g \in Handles
             PROVE  Cardinality(Of(ws, g)) =
                      IF g = h THEN Cardinality(Of(vs, g)) + 1
                      ELSE Cardinality(Of(vs, g))
  OBVIOUS
<1>1. IsFiniteSet(Of(vs, g))
  BY FewViews
<1>2. CASE g = h
  <2>1. Of(ws, g) = Of(vs, g) \cup {v}
    BY <1>2, PyAssumption DEF Of
  <2>2. v \notin Of(vs, g)
    BY PyAssumption DEF Of
  <2> QED
    BY <1>1, <1>2, <2>1, <2>2, FS_AddElement
<1>3. CASE g # h
  <2>1. Of(ws, g) = Of(vs, g)
    BY <1>3, PyAssumption DEF Of
  <2> QED
    BY <1>3, <2>1
<1> QED
  BY <1>2, <1>3

(* A view that dies takes one from the views of its handle. *)
LEMMA OneViewLess ==
    ASSUME NEW vs \in [Views -> Handles \cup {NoHandle}], NEW v \in Views,
           vs[v] # NoHandle
    PROVE  \A g \in Handles :
             Cardinality(Of([vs EXCEPT ![v] = NoHandle], g)) =
               IF g = vs[v] THEN Cardinality(Of(vs, g)) - 1
               ELSE Cardinality(Of(vs, g))
<1> DEFINE ws == [vs EXCEPT ![v] = NoHandle]
<1> SUFFICES ASSUME NEW g \in Handles
             PROVE  Cardinality(Of(ws, g)) =
                      IF g = vs[v] THEN Cardinality(Of(vs, g)) - 1
                      ELSE Cardinality(Of(vs, g))
  OBVIOUS
<1>1. IsFiniteSet(Of(vs, g))
  BY FewViews
<1>2. CASE g = vs[v]
  <2>1. Of(ws, g) = Of(vs, g) \ {v}
    BY <1>2, PyAssumption DEF Of
  <2>2. v \in Of(vs, g)
    BY <1>2 DEF Of
  <2> QED
    BY <1>1, <1>2, <2>1, <2>2, FS_RemoveElement
<1>3. CASE g # vs[v]
  <2>1. Of(ws, g) = Of(vs, g)
    BY <1>3, PyAssumption DEF Of
  <2> QED
    BY <1>3, <2>1
<1> QED
  BY <1>2, <1>3

-----------------------------------------------------------------------------

(* The invariant holds initially. *)
LEMMA PyInit == Init => PyInv
<1> SUFFICES ASSUME Init PROVE PyInv
  OBVIOUS
<1>1. cursor \in Slots /\ Typed(word, hd, views, ends)
  BY PyAssumption DEF Init, Typed, Slots, Unused, HandleObject, Objects,
     Kinds, Endpoint
<1>2. ViewsLoaned(hd, views) /\ EndsKept(hd, ends) /\ PinsHeld(word, hd)
        /\ WriteAlone(word, hd)
  BY DEF Kinds, Init, ViewsLoaned, EndsKept, PinsHeld, WriteAlone, OnLoan, Unused
<1>3. ExportsCover(hd, views)
  <2> SUFFICES ASSUME NEW h \in Handles
               PROVE  Cardinality(Of(views, h)) <= hd[h].exports
    BY DEF ExportsCover
  <2>1. Cardinality(Of(views, h)) = 0
    BY FewViews, PyAssumption DEF Init
  <2> QED
    BY <2>1 DEF Init, Unused
<1> QED
  BY <1>1, <1>2, <1>3 DEF PyInv, Shape

(* A reader's try_acquire pins a slot nobody holds. *)
LEMMA PyReaderTryAcquire ==
    ASSUME PyInv, NEW h \in Handles, ReaderTryAcquire(h)
    PROVE  PyInv'
<1> USE DEF PyInv, Shape
<1>1. PICK s \in Slots :
        /\ word[s] = "entry"
        /\ word' = [word EXCEPT ![s] = "held"]
        /\ hd' = [hd EXCEPT ![h] = Wrapped("read", s)]
  BY DEF ReaderTryAcquire
<1>2. /\ hd[h].obj = "gone"
      /\ UNCHANGED <<cursor, views, ends>>
      /\ ends["read"].obj = "live"
  BY DEF ReaderTryAcquire, EndsKept, Kinds
<1>3. Typed(word, hd, views, ends)'
  BY <1>1, <1>2 DEF Typed, Wrapped, HandleObject, Objects, Kinds
<1>4. ViewsLoaned(hd, views)'
  BY <1>1, <1>2 DEF Typed, ViewsLoaned, Wrapped
<1>5. EndsKept(hd, ends)'
  BY <1>1, <1>2 DEF Typed, EndsKept, Wrapped
<1>6. PinsHeld(word, hd)'
  BY <1>1, <1>2 DEF Typed, PinsHeld, OnLoan, Wrapped, HandleObject
<1>7. WriteAlone(word, hd)'
  BY <1>1, <1>2 DEF Typed, WriteAlone, OnLoan, Wrapped, HandleObject
<1>8. ExportsCover(hd, views)'
  <2>1. \A v \in Views : views[v] # h
    BY <1>2, PyAssumption DEF ViewsLoaned
  <2>2. Cardinality(Of(views, h)) = 0
    BY <2>1, FewViews
  <2> QED
    BY <1>1, <1>2, <2>2 DEF Typed, ExportsCover, Wrapped
<1> QED
  BY <1>2, <1>3, <1>4, <1>5, <1>6, <1>7, <1>8

(* The slot after a slot is a slot. *)
LEMMA NextSlot == \A s \in Slots : SlotAfter(s) \in Slots
  BY PyAssumption DEF SlotAfter, Slots

(* A writer's try_acquire empties a slot no reader holds, and no other     *)
(* write handle is out.                                                    *)
LEMMA PyWriterTryAcquire ==
    ASSUME OneWriteHandle, PyInv, NEW h \in Handles, WriterTryAcquire(h)
    PROVE  PyInv'
<1> USE DEF PyInv, Shape
<1>1. PICK s \in Slots :
        /\ word[s] # "held"
        /\ word' = [word EXCEPT ![s] = "empty"]
        /\ hd' = [hd EXCEPT ![h] = Wrapped("write", s)]
  BY DEF WriterTryAcquire, Claimable
<1>2. /\ hd[h].obj = "gone"
      /\ UNCHANGED <<cursor, views, ends>>
      /\ ends["write"].obj = "live"
      /\ \A g \in Handles : ~OnLoan(hd, g, "write")
  BY DEF WriterTryAcquire, WriterFree, OneWriteHandle, EndsKept, Kinds, Loans,
     Reachable, OnLoan
<1>3. Typed(word, hd, views, ends)'
  BY <1>1, <1>2 DEF Typed, Wrapped, HandleObject, Objects, Kinds
<1>4. ViewsLoaned(hd, views)'
  BY <1>1, <1>2 DEF Typed, ViewsLoaned, Wrapped
<1>5. EndsKept(hd, ends)'
  BY <1>1, <1>2 DEF Typed, EndsKept, Wrapped
<1>6. PinsHeld(word, hd)'
  BY <1>1, <1>2 DEF Typed, PinsHeld, OnLoan, Wrapped, HandleObject
<1>7. WriteAlone(word, hd)'
  BY <1>1, <1>2 DEF Typed, WriteAlone, OnLoan, Wrapped, HandleObject
<1>8. ExportsCover(hd, views)'
  <2>1. \A v \in Views : views[v] # h
    BY <1>2, PyAssumption DEF ViewsLoaned
  <2>2. Cardinality(Of(views, h)) = 0
    BY <2>1, FewViews
  <2> QED
    BY <1>1, <1>2, <2>2 DEF Typed, ExportsCover, Wrapped
<1> QED
  BY <1>2, <1>3, <1>4, <1>5, <1>6, <1>7, <1>8

(* write publishes a slot neither a reader nor a write handle has. *)
LEMMA PyWrite ==
    ASSUME OneWriteHandle, PyInv, Write
    PROVE  PyInv'
<1> USE DEF PyInv, Shape
<1>1. PICK s \in Slots :
        /\ word[s] # "held"
        /\ word' = [word EXCEPT ![s] = "entry"]
        /\ cursor' = SlotAfter(s)
  BY DEF Write, Claimable
<1>2. /\ UNCHANGED <<hd, views, ends>>
      /\ \A g \in Handles : ~OnLoan(hd, g, "write")
  BY DEF Write, WriterFree, OneWriteHandle, Loans, Reachable, OnLoan
<1>3. cursor' \in Slots /\ Typed(word, hd, views, ends)'
  BY <1>1, <1>2, NextSlot DEF Typed
<1>4. PinsHeld(word, hd)' /\ WriteAlone(word, hd)'
  BY <1>1, <1>2 DEF Typed, PinsHeld, WriteAlone, OnLoan, HandleObject
<1> QED
  BY <1>2, <1>3, <1>4 DEF ViewsLoaned, EndsKept, ExportsCover

(* An export adds a view and a count. *)
LEMMA PyGetBuffer ==
    ASSUME PyInv, NEW h \in Handles, NEW v \in Views, GetBuffer(h, v)
    PROVE  PyInv'
<1> USE DEF PyInv, Shape
<1>1. /\ hd[h].obj = "live" /\ hd[h].loan
      /\ views[v] = NoHandle
      /\ views' = [views EXCEPT ![v] = h]
      /\ hd' = [hd EXCEPT ![h].exports = @ + 1]
      /\ UNCHANGED <<word, cursor, ends>>
  BY DEF GetBuffer, Counted, Reachable
<1>2. Typed(word, hd, views, ends)'
  BY <1>1 DEF Typed, HandleObject
<1>3. ViewsLoaned(hd, views)' /\ EndsKept(hd, ends)'
  BY <1>1 DEF Typed, ViewsLoaned, EndsKept, HandleObject
<1>4. PinsHeld(word, hd)' /\ WriteAlone(word, hd)'
  BY <1>1 DEF Typed, PinsHeld, WriteAlone, OnLoan, HandleObject
<1>5. ExportsCover(hd, views)'
  <2>1. \A g \in Handles :
          Cardinality(Of(views', g)) =
            IF g = h THEN Cardinality(Of(views, g)) + 1
            ELSE Cardinality(Of(views, g))
    <3>1. \A g \in Handles :
            Cardinality(Of([views EXCEPT ![v] = h], g)) =
              IF g = h THEN Cardinality(Of(views, g)) + 1
              ELSE Cardinality(Of(views, g))
      BY <1>1, OneMoreView DEF Typed
    <3> QED
      BY <1>1, <3>1
  <2>2. \A g \in Handles :
          hd'[g].exports = IF g = h THEN hd[g].exports + 1 ELSE hd[g].exports
    BY <1>1 DEF Typed, HandleObject
  <2>3. \A g \in Handles :
          Cardinality(Of(views, g)) \in Nat /\ hd[g].exports \in Nat
    BY FewViews DEF Typed, HandleObject
  <2> QED
    BY <2>1, <2>2, <2>3 DEF ExportsCover
<1> QED
  BY <1>1, <1>2, <1>3, <1>4, <1>5

(* release and commit hand on a slot that has no view any more. *)
LEMMA PyFinish ==
    ASSUME PyInv, NEW h \in Handles, Release(h) \/ Commit(h)
    PROVE  PyInv'
<1> USE DEF PyInv, Shape
<1>1. /\ hd[h].obj = "live" /\ hd[h].loan
      /\ hd[h].exports = 0
      /\ word' = [word EXCEPT ![hd[h].slot] = "entry"]
      /\ hd' = [hd EXCEPT ![h].loan = FALSE]
      /\ UNCHANGED <<views, ends>>
      /\ cursor' \in {cursor, SlotAfter(hd[h].slot)}
  BY DEF Release, Commit, MayFinish, Reachable
<1>2. \A v \in Views : views[v] # h
  BY <1>1, FewViews DEF ExportsCover, Typed, HandleObject
<1>3. hd[h].slot \in Slots /\ hd[h].kind \in {"read", "write"}
  BY DEF Typed, HandleObject, Kinds
<1>4. cursor' \in Slots /\ Typed(word, hd, views, ends)'
  BY <1>1, <1>3, NextSlot DEF Typed, HandleObject
<1>5. ViewsLoaned(hd, views)' /\ EndsKept(hd, ends)' /\ ExportsCover(hd, views)'
  BY <1>1, <1>2 DEF Typed, ViewsLoaned, EndsKept, ExportsCover, HandleObject
<1>6. PinsHeld(word, hd)'
  <2>1. \A g \in Handles : OnLoan(hd, g, "read") /\ g # h
                             => hd[g].slot # hd[h].slot
    BY <1>1, <1>3 DEF PinsHeld, WriteAlone, OnLoan
  <2> QED
    BY <1>1, <1>3, <2>1 DEF Typed, PinsHeld, OnLoan, HandleObject
<1>7. WriteAlone(word, hd)'
  <2>1. \A g \in Handles : OnLoan(hd, g, "write") /\ g # h
                             => hd[g].slot # hd[h].slot
    BY <1>1, <1>3 DEF PinsHeld, WriteAlone, OnLoan
  <2> QED
    BY <1>1, <1>3, <2>1 DEF Typed, WriteAlone, OnLoan, HandleObject
<1> QED
  BY <1>1, <1>4, <1>5, <1>6, <1>7

-----------------------------------------------------------------------------

(* Dropping an endpoint spares one that has a name or a handle. *)
LEMMA DropSpares ==
    ASSUME NEW hs \in [Handles -> HandleObject], NEW t,
           NEW es \in [Kinds -> Endpoint], EndsKept(hs, es)
    PROVE  /\ \A k \in Kinds : DropEndpoint(es[k], k, hs, t) \in Endpoint
           /\ EndsKept(hs, [k \in Kinds |-> DropEndpoint(es[k], k, hs, t)])
<1> DEFINE D(k) == DropEndpoint(es[k], k, hs, t)
<1>1. ASSUME NEW k \in Kinds
      PROVE  /\ D(k) \in Endpoint
             /\ D(k).named = es[k].named
             /\ es[k].named \/ KeptBy(k, hs) => D(k) = es[k]
  BY <1>1 DEF DropEndpoint, Endpoint, Objects
<1>2. ASSUME NEW h \in Handles, hs[h].obj \in {"live", "leaked"}
      PROVE  hs[h].kind \in Kinds /\ KeptBy(hs[h].kind, hs)
  BY <1>2 DEF KeptBy, HandleObject
<1> QED
  BY <1>1, <1>2 DEF EndsKept

(* A handle that loses a reference, and perhaps its life, leaves the       *)
(* invariant as it was.                                                    *)
LEMMA PyDereferenced ==
    ASSUME NEW h \in Handles, NEW hs, NEW vs, NEW t,
           Shape(word, hs, vs, ends), hs[h].obj = "live",
           Dereferenced(h, hs, vs, t)
    PROVE  Shape(word', hd', vs, ends')
<1> USE DEF Shape
<1>1. CASE Kept(h, hs, vs, t)
  BY <1>1 DEF Kept
<1>2. CASE DroppedElsewhere(h, hs, vs, t)
  <2>1. /\ \A v \in Views : vs[v] # h
        /\ hd' = [hs EXCEPT ![h].obj = "leaked"]
        /\ UNCHANGED <<word, ends>>
    BY <1>2 DEF DroppedElsewhere
  <2>2. Typed(word', hd', vs, ends')
    BY <2>1 DEF Typed, HandleObject, Objects
  <2>3. ViewsLoaned(hd', vs) /\ EndsKept(hd', ends')
    BY <2>1 DEF Typed, ViewsLoaned, EndsKept, HandleObject
  <2>4. PinsHeld(word', hd') /\ WriteAlone(word', hd') /\ ExportsCover(hd', vs)
    BY <2>1 DEF Typed, PinsHeld, WriteAlone, ExportsCover, OnLoan, HandleObject
  <2> QED
    BY <2>2, <2>3, <2>4
<1>3. CASE DroppedHome(h, hs, vs, t)
  <2>1. /\ \A v \in Views : vs[v] # h
        /\ hd' = [hs EXCEPT ![h] = [@ EXCEPT !.obj = "gone", !.loan = FALSE]]
        /\ ends' = [k \in Kinds |-> DropEndpoint(ends[k], k, hd', t)]
        /\ \/ UNCHANGED word
           \/ /\ OnLoan(hs, h, "read")
              /\ word' = [word EXCEPT ![hs[h].slot] = "entry"]
    BY <1>3 DEF DroppedHome, Backstop, OnLoan
  <2>2. hd' \in [Handles -> HandleObject]
    <3>1. hs[h] \in HandleObject
      BY DEF Typed
    <3>2. [hs[h] EXCEPT !.obj = "gone", !.loan = FALSE] \in HandleObject
      BY <3>1 DEF HandleObject, Objects
    <3> QED
      BY <2>1, <3>2 DEF Typed
  <2>3. EndsKept(hd', ends)
    BY <2>1 DEF Typed, EndsKept, HandleObject
  <2>4. ends' \in [Kinds -> Endpoint] /\ EndsKept(hd', ends')
    <3>1. ends \in [Kinds -> Endpoint]
      BY DEF Typed
    <3>2. /\ \A k \in Kinds : DropEndpoint(ends[k], k, hd', t) \in Endpoint
          /\ EndsKept(hd', [k \in Kinds |-> DropEndpoint(ends[k], k, hd', t)])
      BY <2>2, <2>3, <3>1, DropSpares, Zenon
    <3> QED
      BY <2>1, <3>2
  <2>5. Typed(word', hd', vs, ends')
    BY <2>1, <2>2, <2>4 DEF Typed
  <2>6. ViewsLoaned(hd', vs) /\ ExportsCover(hd', vs)
    BY <2>1 DEF Typed, ViewsLoaned, ExportsCover, HandleObject
  <2>7. /\ ~hd'[h].loan
        /\ \A g \in Handles : g # h => hd'[g] = hs[g]
    BY <2>1 DEF Typed, HandleObject
  <2>8. \A g \in Handles :
          OnLoan(hd', g, "read") \/ OnLoan(hd', g, "write")
            => hs[g] = hd'[g] /\ hs[g].slot \in Slots
                /\ word'[hs[g].slot] = word[hs[g].slot]
    <3> SUFFICES ASSUME NEW g \in Handles,
                        OnLoan(hd', g, "read") \/ OnLoan(hd', g, "write")
                 PROVE  hs[g] = hd'[g] /\ hs[g].slot \in Slots
                          /\ word'[hs[g].slot] = word[hs[g].slot]
      OBVIOUS
    <3>1. g # h /\ hs[g] = hd'[g] /\ hs[g].slot \in Slots
      BY <2>7 DEF OnLoan, Typed, HandleObject
    <3>2. OnLoan(hs, h, "read") => hs[g].slot # hs[h].slot
      BY <3>1 DEF OnLoan, PinsHeld, WriteAlone
    <3> QED
      BY <2>1, <3>1, <3>2 DEF Typed
  <2>9. PinsHeld(word', hd') /\ WriteAlone(word', hd')
    BY <2>8 DEF PinsHeld, WriteAlone, OnLoan
  <2> QED
    BY <2>4, <2>5, <2>6, <2>9
<1>4. CASE DroppedInCall(h, hs, vs, t)
  <2>1. /\ \A v \in Views : vs[v] # h
        /\ hd' = [hs EXCEPT ![h] = [@ EXCEPT !.obj = "gone", !.loan = FALSE]]
        /\ UNCHANGED <<word, ends>>
    BY <1>4 DEF DroppedInCall
  <2>2. hd' \in [Handles -> HandleObject]
    <3>1. hs[h] \in HandleObject
      BY DEF Typed
    <3>2. [hs[h] EXCEPT !.obj = "gone", !.loan = FALSE] \in HandleObject
      BY <3>1 DEF HandleObject, Objects
    <3> QED
      BY <2>1, <3>2 DEF Typed
  <2>3. /\ ~hd'[h].loan /\ hd'[h].obj = "gone"
        /\ hd'[h].exports = hs[h].exports
        /\ \A g \in Handles : g # h => hd'[g] = hs[g]
    BY <2>1 DEF Typed, HandleObject
  <2>4. Typed(word', hd', vs, ends')
    BY <2>1, <2>2 DEF Typed
  <2>5. ViewsLoaned(hd', vs) /\ ExportsCover(hd', vs) /\ EndsKept(hd', ends')
    BY <2>1, <2>3 DEF Typed, ViewsLoaned, ExportsCover, EndsKept
  <2>6. PinsHeld(word', hd') /\ WriteAlone(word', hd')
    BY <2>1, <2>3 DEF PinsHeld, WriteAlone, OnLoan
  <2> QED
    BY <2>4, <2>5, <2>6
<1> QED
  BY <1>1, <1>2, <1>3, <1>4 DEF Dereferenced

(* The objects when a view has died, and when a name has. *)
ViewGone(v) == [views EXCEPT ![v] = NoHandle]
Discounted(v, t) == [hd EXCEPT ![views[v]].exports = Uncounted(@, t)]
Nameless(h) == [hd EXCEPT ![h].named = FALSE]

(* What a dying view changes of its handle is the counter. *)
LEMMA DiscountedFields ==
    ASSUME PyInv, NEW v \in Views, NEW t, views[v] # NoHandle
    PROVE  /\ views[v] \in Handles /\ hd[views[v]].obj = "live"
           /\ Discounted(v, t) \in [Handles -> HandleObject]
           /\ \A g \in Handles :
                /\ Discounted(v, t)[g].exports =
                     IF g = views[v] THEN Uncounted(hd[g].exports, t)
                     ELSE hd[g].exports
                /\ Discounted(v, t)[g].obj = hd[g].obj
                /\ Discounted(v, t)[g].loan = hd[g].loan
                /\ Discounted(v, t)[g].kind = hd[g].kind
                /\ Discounted(v, t)[g].slot = hd[g].slot
<1>1. views[v] \in Handles /\ hd[views[v]].obj = "live"
  BY DEF PyInv, Shape, Typed, ViewsLoaned
<1>2. \A n \in Nat : Uncounted(n, t) \in Nat
  BY DEF Uncounted
<1> QED
  BY <1>1, <1>2 DEF PyInv, Shape, Typed, Discounted, HandleObject

(* A view that dies lowers the counter by no more than one. *)
LEMMA PyDiscounted ==
    ASSUME PyInv, NEW v \in Views, NEW t, views[v] # NoHandle
    PROVE  Shape(word, Discounted(v, t), ViewGone(v), ends)
<1> DEFINE hs == Discounted(v, t)
           vs == ViewGone(v)
           h == views[v]
<1> USE DEF PyInv, Shape
<1>1. /\ h \in Handles
      /\ hs \in [Handles -> HandleObject]
      /\ \A g \in Handles :
           /\ hs[g].exports = IF g = h THEN Uncounted(hd[g].exports, t)
                              ELSE hd[g].exports
           /\ hs[g].obj = hd[g].obj /\ hs[g].loan = hd[g].loan
           /\ hs[g].kind = hd[g].kind /\ hs[g].slot = hd[g].slot
  BY DiscountedFields
<1>2. /\ vs \in [Views -> Handles \cup {NoHandle}]
      /\ \A u \in Views : vs[u] = views[u] \/ vs[u] = NoHandle
  BY DEF Typed, ViewGone
<1>3. \A g \in Handles :
        Cardinality(Of(vs, g)) = IF g = h THEN Cardinality(Of(views, g)) - 1
                                 ELSE Cardinality(Of(views, g))
  BY OneViewLess DEF Typed, ViewGone
<1> HIDE DEF hs, vs
<1>4. Typed(word, hs, vs, ends)
  BY <1>1, <1>2 DEF Typed
<1>5. ViewsLoaned(hs, vs) /\ EndsKept(hs, ends)
  BY <1>1, <1>2 DEF Typed, ViewsLoaned, EndsKept
<1>6. PinsHeld(word, hs) /\ WriteAlone(word, hs)
  BY <1>1 DEF PinsHeld, WriteAlone, OnLoan
<1>7. ExportsCover(hs, vs)
  <2>1. \A g \in Handles :
          /\ Cardinality(Of(views, g)) \in Nat
          /\ Cardinality(Of(vs, g)) \in Nat
          /\ hd[g].exports \in Nat
    BY FewViews DEF Typed, HandleObject
  <2> QED
    BY <1>1, <1>3, <2>1 DEF ExportsCover, Uncounted
<1> QED
  BY <1>4, <1>5, <1>6, <1>7 DEF hs, vs

(* __releasebuffer__ keeps the invariant. *)
LEMMA PyReleaseBuffer ==
    ASSUME PyInv, NEW v \in Views, NEW t, ReleaseBuffer(v, t)
    PROVE  PyInv'
<1>1. /\ views[v] # NoHandle
      /\ views' = ViewGone(v)
      /\ Dereferenced(views[v], Discounted(v, t), ViewGone(v), t)
      /\ UNCHANGED cursor
  BY DEF ReleaseBuffer, Discounted, ViewGone
<1>2. /\ views[v] \in Handles
      /\ Discounted(v, t)[views[v]].obj = "live"
      /\ Shape(word, Discounted(v, t), ViewGone(v), ends)
  BY <1>1, DiscountedFields, PyDiscounted
<1>3. Shape(word', hd', ViewGone(v), ends')
  BY <1>1, <1>2, PyDereferenced
<1> QED
  BY <1>1, <1>3 DEF PyInv

(* A name that dies changes nothing the invariant speaks of. *)
LEMMA PyNameless ==
    ASSUME PyInv, NEW h \in Handles
    PROVE  /\ Shape(word, Nameless(h), views, ends)
           /\ \A g \in Handles :
                /\ Nameless(h)[g].exports = hd[g].exports
                /\ Nameless(h)[g].obj = hd[g].obj
                /\ Nameless(h)[g].loan = hd[g].loan
                /\ Nameless(h)[g].kind = hd[g].kind
                /\ Nameless(h)[g].slot = hd[g].slot
<1> USE DEF PyInv, Shape
<1>1. /\ Nameless(h) \in [Handles -> HandleObject]
      /\ \A g \in Handles :
           /\ Nameless(h)[g].exports = hd[g].exports
           /\ Nameless(h)[g].obj = hd[g].obj
           /\ Nameless(h)[g].loan = hd[g].loan
           /\ Nameless(h)[g].kind = hd[g].kind
           /\ Nameless(h)[g].slot = hd[g].slot
  BY DEF Typed, HandleObject, Nameless
<1> QED
  BY <1>1 DEF Typed, ViewsLoaned, EndsKept, PinsHeld, WriteAlone,
     ExportsCover, OnLoan

(* Forgetting a handle keeps the invariant. *)
LEMMA PyForget ==
    ASSUME PyInv, NEW h \in Handles, NEW t, Forget(h, t)
    PROVE  PyInv'
<1>1. /\ hd[h].obj = "live"
      /\ Dereferenced(h, Nameless(h), views, t)
      /\ UNCHANGED <<cursor, views>>
  BY DEF Forget, Reachable, Nameless
<1>2. Nameless(h)[h].obj = "live" /\ Shape(word, Nameless(h), views, ends)
  BY <1>1, PyNameless
<1>3. Shape(word', hd', views, ends')
  BY <1>1, <1>2, PyDereferenced
<1> QED
  BY <1>1, <1>3 DEF PyInv

(* An endpoint without a name stays as long as it has handles. *)
LEMMA PyForgetEndpoint ==
    ASSUME PyInv, NEW k \in Kinds, NEW t, ForgetEndpoint(k, t)
    PROVE  PyInv'
<1> DEFINE e == [ends[k] EXCEPT !.named = FALSE]
           es == [ends EXCEPT ![k] = e]
<1> USE DEF PyInv, Shape
<1>1. /\ ends' = [ends EXCEPT ![k] = DropEndpoint(e, k, hd, t)]
      /\ UNCHANGED <<word, cursor, hd, views>>
  BY DEF ForgetEndpoint
<1>2. e \in Endpoint /\ ~e.named /\ e.obj = ends[k].obj
  BY DEF Typed, Endpoint
<1>3. es \in [Kinds -> Endpoint] /\ EndsKept(hd, es)
  BY <1>2 DEF Typed, EndsKept
<1>4. es[k] = e /\ \A j \in Kinds : j # k => es[j] = ends[j]
  BY <1>2 DEF Typed
<1> HIDE DEF e, es
<1>5. /\ DropEndpoint(e, k, hd, t) \in Endpoint
      /\ DropEndpoint(e, k, hd, t).named = e.named
      /\ KeptBy(k, hd) => DropEndpoint(e, k, hd, t) = e
  BY <1>2 DEF DropEndpoint, Endpoint, Objects
<1>6. Typed(word, hd, views, ends)'
  BY <1>1, <1>5 DEF Typed
<1>7. EndsKept(hd, ends)'
  <2>1. \A h \in Handles : hd[h].obj \in {"live", "leaked"}
          => hd[h].kind \in Kinds /\ KeptBy(hd[h].kind, hd)
    BY DEF KeptBy, Typed, HandleObject
  <2>2. /\ ends'[k] = DropEndpoint(e, k, hd, t)
        /\ \A j \in Kinds : j # k => ends'[j] = ends[j]
    BY <1>1 DEF Typed
  <2> QED
    BY <1>1, <1>2, <1>5, <2>1, <2>2 DEF EndsKept
<1> QED
  BY <1>1, <1>6, <1>7 DEF ViewsLoaned, PinsHeld, WriteAlone, ExportsCover, OnLoan

-----------------------------------------------------------------------------

(* The invariant is inductive. *)
LEMMA PyStep ==
    ASSUME OneWriteHandle, PyInv, [Next]_vars
    PROVE  PyInv'
<1>1. CASE UNCHANGED vars
  BY <1>1 DEF vars, PyInv
<1>2. CASE Next
  BY <1>2, PyReaderTryAcquire, PyWriterTryAcquire, PyWrite, PyGetBuffer,
     PyFinish, PyReleaseBuffer, PyForget, PyForgetEndpoint DEF Next
<1> QED
  BY <1>1, <1>2

(* The handles stay sound however many there are, and on whatever threads  *)
(* names and views die.                                                    *)
THEOREM PyInvariant ==
    ASSUME OneWriteHandle PROVE Spec => []PyInv
<1>1. PyInv /\ [Next]_vars => PyInv'
  BY PyStep
<1> QED
  BY <1>1, PyInit, PTL DEF Spec

(* astray is a truth value, and once true it stays so. *)
LEMMA AstrayStep ==
    ASSUME [Next]_vars
    PROVE  /\ astray \in BOOLEAN => astray' \in BOOLEAN
           /\ ~astray' => ~astray
<1>1. CASE UNCHANGED vars
  BY <1>1 DEF vars
<1>2. CASE Next
  <2>0. ASSUME NEW h, NEW hs, NEW vs, NEW t, Dereferenced(h, hs, vs, t)
        PROVE  astray' = TRUE \/ astray' = Strayed(t)
    BY <2>0, Zenon DEF Dereferenced, Kept, DroppedHome, DroppedInCall,
       DroppedElsewhere
  <2>1. \/ astray' = astray
        \/ astray' = TRUE
        \/ \E t \in Threads : astray' = Strayed(t)
    BY <1>2, <2>0, Zenon DEF Next, Write, ReaderTryAcquire, WriterTryAcquire,
       Release, Commit, GetBuffer, Forget, ReleaseBuffer, ForgetEndpoint
  <2>2. ASSUME NEW t, astray' = Strayed(t)
        PROVE  astray' \in BOOLEAN /\ (~astray' => ~astray)
    <3>1. astray' = (astray \/ t # Home)
      BY <2>2 DEF Strayed
    <3> QED
      BY <3>1, Zenon
  <2>3. CASE astray' = TRUE
    BY <2>3, Zenon
  <2>4. CASE astray' = astray
    BY <2>4
  <2>5. CASE \E t \in Threads : astray' = Strayed(t)
    BY <2>2, <2>5, Zenon
  <2> QED
    BY <2>1, <2>3, <2>4, <2>5, Zenon
<1> QED
  BY <1>1, <1>2

LEMMA AstrayType == Spec => [](astray \in BOOLEAN)
<1>1. Init => astray \in BOOLEAN
  BY DEF Init
<1>2. astray \in BOOLEAN /\ [Next]_vars => (astray \in BOOLEAN)'
  BY AstrayStep
<1> QED
  BY <1>1, <1>2, PTL DEF Spec

(* Every field keeps its type. *)
THEOREM PyTypeCorrect ==
    ASSUME OneWriteHandle PROVE Spec => []TypeOK
<1>1. PyInv /\ astray \in BOOLEAN => TypeOK
  BY DEF PyInv, Shape, Typed, TypeOK
<1> QED
  BY <1>1, PyInvariant, AstrayType, PTL

(* Nothing dangles: a slot is pinned while a read view is alive, ...       *)
THEOREM PyViewsPinned ==
    ASSUME OneWriteHandle PROVE Spec => []ViewsPinned
<1>1. PyInv => ViewsPinned
  BY DEF PyInv, Shape, Typed, ViewsLoaned, PinsHeld, OnLoan, ViewsPinned
<1> QED
  BY <1>1, PyInvariant, PTL

(* ... unpublished while a writable view is alive, ...                     *)
THEOREM PyViewsPrivate ==
    ASSUME OneWriteHandle PROVE Spec => []ViewsPrivate
<1>1. PyInv => ViewsPrivate
  BY DEF PyInv, Shape, Typed, ViewsLoaned, WriteAlone, OnLoan, ViewsPrivate
<1> QED
  BY <1>1, PyInvariant, PTL

(* ... and mapped while any view is alive.                                 *)
THEOREM PyViewsMapped ==
    ASSUME OneWriteHandle PROVE Spec => []ViewsMapped
<1>1. PyInv => ViewsMapped
  BY DEF PyInv, Shape, Typed, ViewsLoaned, EndsKept, ViewsMapped
<1> QED
  BY <1>1, PyInvariant, PTL

-----------------------------------------------------------------------------

(* The counter is exact. *)
Exact(hs, vs) ==
    \A h \in Handles : hs[h].exports = Cardinality(Of(vs, h))

(* A held slot is on loan. *)
HeldLoaned(w, hs) ==
    \A s \in Slots :
        w[s] = "held"
            => \E h \in Handles : OnLoan(hs, h, "read") /\ hs[h].slot = s

AllHome == Exact(hd, views) /\ HeldLoaned(word, hd)
HomeInv == PyInv /\ (~astray => AllHome)

(* A reference that dies at home does not lose a slot: without views the   *)
(* exact counter is zero, and the destructor releases.                     *)
LEMMA HomeDereferenced ==
    ASSUME NEW h \in Handles, NEW hs, NEW vs, NEW t, ~astray',
           Shape(word, hs, vs, ends), Exact(hs, vs), HeldLoaned(word, hs),
           Dereferenced(h, hs, vs, t)
    PROVE  Exact(hd', vs) /\ HeldLoaned(word', hd')
<1>1. CASE Kept(h, hs, vs, t)
  BY <1>1 DEF Kept
<1>2. ~DroppedElsewhere(h, hs, vs, t) /\ ~DroppedInCall(h, hs, vs, t)
  BY Zenon DEF DroppedElsewhere, DroppedInCall, Strayed
<1>3. CASE DroppedHome(h, hs, vs, t)
  <2>1. /\ \A v \in Views : vs[v] # h
        /\ hd' = [hs EXCEPT ![h] = [@ EXCEPT !.obj = "gone", !.loan = FALSE]]
        /\ word' = IF Backstop(hs[h])
                   THEN [word EXCEPT ![hs[h].slot] = "entry"] ELSE word
    BY <1>3 DEF DroppedHome
  <2>2. /\ hs \in [Handles -> HandleObject]
        /\ word \in [Slots -> {"empty", "entry", "held"}]
    BY DEF Shape, Typed
  <2>3. hs[h].exports = 0
    BY <2>1, FewViews DEF Exact
  <2>4. \A g \in Handles :
          /\ hd'[g].exports = hs[g].exports
          /\ g # h => hd'[g] = hs[g]
    BY <2>1, <2>2 DEF HandleObject
  <2>5. Exact(hd', vs)
    BY <2>4 DEF Exact
  <2>6. ASSUME NEW s \in Slots, word'[s] = "held"
        PROVE  \E g \in Handles : OnLoan(hd', g, "read") /\ hd'[g].slot = s
    <3>1. word[s] = "held" /\ ~(Backstop(hs[h]) /\ hs[h].slot = s)
      BY <2>1, <2>2, <2>6
    <3>2. PICK g \in Handles : OnLoan(hs, g, "read") /\ hs[g].slot = s
      BY <3>1 DEF HeldLoaned
    <3>3. g # h
      BY <2>3, <3>1, <3>2 DEF Backstop, OnLoan
    <3> QED
      BY <2>4, <3>2, <3>3 DEF OnLoan
  <2> QED
    BY <2>5, <2>6 DEF HeldLoaned
<1> QED
  BY <1>1, <1>2, <1>3 DEF Dereferenced

(* The stronger invariant is inductive too. *)
LEMMA HomeStep ==
    ASSUME OneWriteHandle, HomeInv, [Next]_vars
    PROVE  HomeInv'
<1> SUFFICES ASSUME ~astray' PROVE AllHome'
  BY PyStep DEF HomeInv
<1>0. PyInv' /\ PyInv /\ Exact(hd, views) /\ HeldLoaned(word, hd)
  BY PyStep, AstrayStep DEF HomeInv, AllHome
<1> USE <1>0
<1>1. /\ hd \in [Handles -> HandleObject]
      /\ word \in [Slots -> {"empty", "entry", "held"}]
      /\ views \in [Views -> Handles \cup {NoHandle}]
  BY DEF PyInv, Shape, Typed
<1>2. ASSUME UNCHANGED vars PROVE Exact(hd, views)' /\ HeldLoaned(word, hd)'
  BY <1>2 DEF vars, Exact, HeldLoaned
<1>3. ASSUME NEW h \in Handles, ReaderTryAcquire(h) \/ WriterTryAcquire(h)
      PROVE  Exact(hd, views)' /\ HeldLoaned(word, hd)'
  <2>1. PICK s \in Slots, k \in {"read", "write"} :
          /\ hd' = [hd EXCEPT ![h] = Wrapped(k, s)]
          /\ word' = [word EXCEPT ![s] = IF k = "read" THEN "held" ELSE "empty"]
    BY <1>3 DEF ReaderTryAcquire, WriterTryAcquire
  <2>2. hd[h].obj = "gone" /\ views' = views
    BY <1>3 DEF ReaderTryAcquire, WriterTryAcquire
  <2>3. Cardinality(Of(views, h)) = 0
    BY <2>2, FewViews, PyAssumption DEF PyInv, Shape, ViewsLoaned
  <2>4. Exact(hd, views)'
    BY <1>1, <2>1, <2>2, <2>3 DEF Exact, Wrapped
  <2>5. HeldLoaned(word, hd)'
    BY <1>1, <2>1, <2>2 DEF HeldLoaned, OnLoan, Wrapped
  <2> QED
    BY <2>4, <2>5
<1>4. ASSUME Write PROVE Exact(hd, views)' /\ HeldLoaned(word, hd)'
  BY <1>1, <1>4 DEF Write, Exact, HeldLoaned, OnLoan
<1>5. ASSUME NEW h \in Handles, NEW v \in Views, GetBuffer(h, v)
      PROVE  Exact(hd, views)' /\ HeldLoaned(word, hd)'
  <2>1. /\ views[v] = NoHandle
        /\ views' = [views EXCEPT ![v] = h]
        /\ hd' = [hd EXCEPT ![h].exports = @ + 1]
        /\ word' = word
    BY <1>5 DEF GetBuffer, Counted
  <2>2. \A g \in Handles :
          Cardinality(Of(views', g)) =
            IF g = h THEN Cardinality(Of(views, g)) + 1
            ELSE Cardinality(Of(views, g))
    <3>1. \A g \in Handles :
            Cardinality(Of([views EXCEPT ![v] = h], g)) =
              IF g = h THEN Cardinality(Of(views, g)) + 1
              ELSE Cardinality(Of(views, g))
      BY <1>1, <2>1, OneMoreView
    <3> QED
      BY <2>1, <3>1
  <2>3. \A g \in Handles :
          /\ hd'[g].exports = IF g = h THEN hd[g].exports + 1
                              ELSE hd[g].exports
          /\ hd'[g].obj = hd[g].obj /\ hd'[g].loan = hd[g].loan
          /\ hd'[g].kind = hd[g].kind /\ hd'[g].slot = hd[g].slot
    BY <1>1, <2>1 DEF HandleObject
  <2> QED
    <3>1. Exact(hd', views')
      BY <2>2, <2>3 DEF Exact
    <3>2. HeldLoaned(word', hd')
      BY <2>1, <2>3 DEF HeldLoaned, OnLoan
    <3> QED
      BY <3>1, <3>2
<1>6. ASSUME NEW h \in Handles, Release(h) \/ Commit(h)
      PROVE  Exact(hd, views)' /\ HeldLoaned(word, hd)'
  <2>1. /\ hd' = [hd EXCEPT ![h].loan = FALSE]
        /\ word' = [word EXCEPT ![hd[h].slot] = "entry"]
        /\ views' = views
    BY <1>6 DEF Release, Commit
  <2>2. \A g \in Handles :
          /\ hd'[g].exports = hd[g].exports
          /\ hd'[g].obj = hd[g].obj /\ g # h => hd'[g] = hd[g]
    BY <1>1, <2>1 DEF HandleObject
  <2> QED
    BY <1>1, <2>1, <2>2 DEF Exact, HeldLoaned, OnLoan
<1>7. ASSUME NEW h \in Handles, NEW t \in Threads, Forget(h, t)
      PROVE  Exact(hd, views)' /\ HeldLoaned(word, hd)'
  <2>0. t = Home
    BY <1>7, Zenon DEF Forget, Dereferenced, Kept, DroppedHome,
       DroppedInCall, DroppedElsewhere, Strayed
  <2>1. Dereferenced(h, Nameless(h), views, t) /\ views' = views
    BY <1>7 DEF Forget, Nameless
  <2>2. /\ Shape(word, Nameless(h), views, ends)
        /\ Exact(Nameless(h), views) /\ HeldLoaned(word, Nameless(h))
    BY PyNameless DEF Exact, HeldLoaned, OnLoan
  <2> QED
    BY <2>0, <2>1, <2>2, HomeDereferenced
<1>8. ASSUME NEW v \in Views, NEW t \in Threads, ReleaseBuffer(v, t)
      PROVE  Exact(hd, views)' /\ HeldLoaned(word, hd)'
  <2>0. t = Home
    BY <1>8, Zenon DEF ReleaseBuffer, Dereferenced, Kept, DroppedHome,
       DroppedInCall, DroppedElsewhere, Strayed
  <2>1. /\ views[v] # NoHandle
        /\ Dereferenced(views[v], Discounted(v, t), ViewGone(v), t)
        /\ views' = ViewGone(v)
    BY <1>8 DEF ReleaseBuffer, Discounted, ViewGone
  <2>2. views[v] \in Handles /\ Shape(word, Discounted(v, t), ViewGone(v), ends)
    BY <2>1, DiscountedFields, PyDiscounted
  <2>3. HeldLoaned(word, Discounted(v, t))
    BY <2>1, DiscountedFields DEF HeldLoaned, OnLoan
  <2>4. Exact(Discounted(v, t), ViewGone(v))
    <3>1. \A g \in Handles :
            Cardinality(Of(ViewGone(v), g)) =
              IF g = views[v] THEN Cardinality(Of(views, g)) - 1
              ELSE Cardinality(Of(views, g))
      BY <1>1, <2>1, OneViewLess DEF ViewGone
    <3>2. \A g \in Handles :
            Cardinality(Of(views, g)) \in Nat
              /\ Cardinality(Of(ViewGone(v), g)) \in Nat
      BY FewViews
    <3> QED
      BY <2>0, <2>1, <3>1, <3>2, DiscountedFields DEF Exact, Uncounted
  <2> QED
    BY <2>0, <2>1, <2>2, <2>3, <2>4, HomeDereferenced
<1>9. ASSUME NEW k \in Kinds, NEW t \in Threads, ForgetEndpoint(k, t)
      PROVE  Exact(hd, views)' /\ HeldLoaned(word, hd)'
  BY <1>9 DEF ForgetEndpoint, Exact, HeldLoaned
<1> QED
  BY <1>2, <1>3, <1>4, <1>5, <1>6, <1>7, <1>8, <1>9 DEF Next, AllHome

LEMMA HomeInvariant ==
    ASSUME OneWriteHandle PROVE Spec => []HomeInv
<1>1. Init => HomeInv
  <2> SUFFICES ASSUME Init PROVE HomeInv
    OBVIOUS
  <2>1. PyInv
    BY PyInit
  <2>2. Exact(hd, views)
    <3>1. \A h \in Handles : Cardinality(Of(views, h)) = 0
      BY FewViews, PyAssumption DEF Init
    <3> QED
      BY <3>1 DEF Init, Exact, Unused
  <2>3. HeldLoaned(word, hd)
    BY DEF Init, HeldLoaned
  <2> QED
    BY <2>1, <2>2, <2>3 DEF HomeInv, AllHome
<1>2. HomeInv /\ [Next]_vars => HomeInv'
  BY HomeStep
<1> QED
  BY <1>1, <1>2, PTL DEF Spec

(* As long as names and views die on the thread that created the           *)
(* endpoints, no slot is lost to the ring: whoever forgets to release,     *)
(* every held slot has a live handle, ...                                  *)
THEOREM PySlotReturned ==
    ASSUME OneWriteHandle PROVE Spec => []SlotReturned
<1>1. HomeInv => SlotReturned
  BY DEF HomeInv, AllHome, HeldLoaned, OnLoan, SlotReturned, Loans, Reachable
<1> QED
  BY <1>1, HomeInvariant, PTL

(* ... because the destructor never meets an outstanding export.           *)
THEOREM PyDropSeesNoExports ==
    ASSUME OneWriteHandle PROVE Spec => []DropSeesNoExports
<1>1. HomeInv => DropSeesNoExports
  <2> SUFFICES ASSUME HomeInv, ~astray, NEW h \in Handles,
                      hd[h].obj = "gone"
               PROVE  hd[h].exports = 0
    BY DEF DropSeesNoExports
  <2>1. \A v \in Views : views[v] # h
    BY PyAssumption DEF HomeInv, PyInv, Shape, ViewsLoaned
  <2> QED
    BY <2>1, FewViews DEF HomeInv, AllHome, Exact
<1> QED
  BY <1>1, HomeInvariant, PTL
=============================================================================
