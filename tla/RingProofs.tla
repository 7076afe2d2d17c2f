----------------------------- MODULE RingProofs ------------------------------
(***************************************************************************)
(* Proofs about the ring protocol, for every number of slots, words and    *)
(* readers and with no bound on claims, crashes or retries that matters.   *)
(***************************************************************************)
EXTENDS Ring, TLAPS

USE GeometryAssumption

(* The index arithmetic of the ring stays inside it, and with more than    *)
(* one slot the next slot is another one.                                  *)
LEMMA SlotFacts ==
    /\ 0 \in Slots
    /\ \A i \in Slots : SlotAfter(i) \in Slots
    /\ EntryCount > 1 => \A i \in Slots : SlotAfter(i) # i
BY DEF Slots, SlotAfter

(* A zeroed payload is a payload. *)
LEMMA BlankFacts == Blank \in Payload
BY DEF Blank, Payload

(* A reader that has just attached is a reader record. *)
LEMMA FreshType == Fresh \in Reader
BY SlotFacts, BlankFacts DEF Fresh, Reader

(* A reader's record with its call's locals gone is a record. *)
LEMMA ReturnedType ==
    ASSUME NEW rec \in Reader
    PROVE  Returned(rec) \in Reader
BY SlotFacts DEF Returned, Reader

(* A record that a successful call leaves behind is a record. *)
LEMMA DeliveredType ==
    ASSUME NEW rec \in Reader, NEW s \in Nat, NEW i \in Slots,
           NEW hs \in SUBSET ReadHandle
    PROVE  /\ [rec EXCEPT !.got = s, !.lastSeq = s, !.lastIdx = i] \in Reader
           /\ [rec EXCEPT !.lastSeq = s, !.lastIdx = i, !.held = hs] \in Reader
BY DEF Reader

(* The numbers a reader holds are naturals. *)
LEMMA ReaderNumbers ==
    ASSUME ReaderTypeOK, NEW r \in Readers
    PROVE  rd[r].seq \in Nat /\ \A h \in rd[r].held : h.seq \in Nat
<1>1. rd[r] \in Reader
  BY DEF ReaderTypeOK
<1> QED
  BY <1>1 DEF Reader, ReadHandle

(* A record whose call goes back to locate is a record. *)
LEMMA RetriedType ==
    ASSUME NEW rec \in Reader
    PROVE  [rec EXCEPT !.pc = "fast", !.tries = rec.tries + 1, !.idx = 0,
                       !.seq = 0, !.since = 0, !.copied = {}] \in Reader
<1>1. \A t \in Nat :
        [rec EXCEPT !.pc = "fast", !.tries = t, !.idx = 0,
                    !.seq = 0, !.since = 0, !.copied = {}] \in Reader
  BY SlotFacts DEF Reader
<1>2. rec.tries + 1 \in Nat
  BY DEF Reader
<1> QED
  BY <1>1, <1>2

(* The types hold initially. *)
LEMMA TypeInit == Init => TypeOK
BY SlotFacts, BlankFacts, FreshType
   DEF Init, SegInit, WriterInit, ReaderInit, TypeOK, SegTypeOK,
       WriterTypeOK, ReaderTypeOK, WriterPc

(* A writer that attaches with any header keeps the types. *)
LEMMA TypeAttach ==
    ASSUME TypeOK, NEW index \in Slots, NEW mark \in Nat,
           AttachFrom(index, mark), UNCHANGED rd
    PROVE  TypeOK'
<1>1. \A n \in Int : Abs(n) \in Nat
  BY DEF Abs
<1>2. RingSeqs(mark) \subseteq Nat
  BY <1>1 DEF RingSeqs, TypeOK, SegTypeOK
<1>3. \A n \in Nat : RecoveredIndex(index, n) \in Slots
  BY SlotFacts DEF RecoveredIndex
<1> QED
  BY <1>2, <1>3 DEF AttachFrom, TypeOK, SegTypeOK, WriterTypeOK, ReaderTypeOK,
     WriterPc, segVars, callVars

(* Steps of the writer. *)
LEMMA TypeWriter ==
    ASSUME TypeOK, WriterNext, UNCHANGED rd
    PROVE  TypeOK'
<1> USE SlotFacts DEF TypeOK, SegTypeOK, WriterTypeOK, WriterPc, segVars,
        callVars, cursor, writerVars
<1>0. ReaderTypeOK'
  BY DEF ReaderTypeOK
<1>1. CASE Attach
  BY <1>1, TypeAttach DEF Attach
<1>2. CASE Write \/ TryAcquire
  BY <1>0, <1>2 DEF Write, TryAcquire, Call
<1>3. CASE ProbeHeld
  <2>1. probed + 1 \in Slots
    BY <1>3 DEF ProbeHeld, LastProbe, Slots
  <2> QED
    BY <1>0, <1>3, <2>1 DEF ProbeHeld
<1>4. CASE ProbeBusy \/ ProbeFree
  BY <1>0, <1>4 DEF ProbeBusy, ProbeFree
<1>5. CASE Claim
  <2>1. [index |-> wIndex, stamp |-> claims + 1] \in Handle
    BY DEF Handle
  <2> QED
    BY <1>0, <1>5, <2>1 DEF Claim, MarkInProgress
<1>6. ASSUME NEW w \in Words, CopyIn(w) PROVE TypeOK'
  BY <1>0, <1>6 DEF CopyIn, Payload
<1>7. CASE PublishWrite
  BY <1>0, <1>7 DEF PublishWrite, StoreSeq
<1>8. ASSUME NEW h \in handles, NEW w \in Words, Fill(h, w) PROVE TypeOK'
  BY <1>0, <1>8 DEF Fill, Payload, Handle
<1>9. ASSUME NEW h \in handles, Commit(h) PROVE TypeOK'
  <2>1. h.index \in Slots
    BY DEF Handle
  <2> QED
    BY <1>0, <1>9, <2>1 DEF Commit, StoreSeq
<1>10. ASSUME NEW h \in handles, DropHandle(h) PROVE TypeOK'
  BY <1>0, <1>10 DEF DropHandle
<1>11. CASE PersistIndex \/ PersistMark
  BY <1>0, <1>11 DEF PersistIndex, PersistMark, Advertised
<1>12. CASE WriterGone
  BY <1>0, <1>12 DEF WriterGone
<1> QED
  BY <1>1, <1>2, <1>3, <1>4, <1>5, <1>6, <1>7, <1>8, <1>9, <1>10, <1>11,
     <1>12 DEF WriterNext

(* Steps of a reader: each leaves its own record a record and touches no   *)
(* other one, and of the segment at most one control word.                 *)
LEMMA TypeReader ==
    ASSUME TypeOK, NEW r \in Readers, ReaderNext(r), UNCHANGED writerVars
    PROVE  TypeOK'
<1> DEFINE rec == rd[r]
<1> USE SlotFacts, BlankFacts DEF TypeOK, SegTypeOK, ReaderTypeOK, segVars
<1>0. WriterTypeOK' /\ rec \in Reader /\ Len(published) \in Nat
  BY DEF WriterTypeOK, writerVars, callVars, cursor
<1>1. ASSUME NEW new \in Reader, rd' = [rd EXCEPT ![r] = new],
             UNCHANGED segVars
      PROVE  TypeOK'
  BY <1>0, <1>1
<1>2. \A m \in Watermarks(r) : m \in Nat
  BY <1>0, ReaderAssumption DEF Watermarks, Reader
<1>3. Scanned(rec) \in Reader
  <2>1. seq[rec.scan] \in Int /\ rec.scan \in Slots /\ rec.mark \in Nat
    BY <1>0 DEF Reader
  <2>2. Improves(rec, seq[rec.scan]) => seq[rec.scan] \in Nat
    BY <2>1 DEF Improves
  <2> QED
    BY <1>0, <2>1, <2>2 DEF Scanned, Reader
<1>4. CASE UpToDate(r)
  BY <1>0, <1>1, <1>4 DEF UpToDate, Reader
<1>5. CASE ReadInto(r) \/ TryAcquireRead(r)
  BY <1>0, <1>1, <1>2, <1>5 DEF ReadInto, TryAcquireRead, Begin, Reader
<1>6. CASE FastHit(r)
  <2> DEFINE next == SlotAfter(rec.lastIdx)
             new == [rec EXCEPT !.pc = AfterLocate(rec), !.idx = next,
                                !.seq = seq[next], !.since = Len(published)]
  <2>1. next \in Slots /\ rec.mark \in Nat
    BY <1>0 DEF Reader
  <2>2. seq[next] \in Nat
    BY <1>6, <2>1 DEF FastHit
  <2>3. new \in Reader
    BY <1>0, <2>1, <2>2 DEF AfterLocate, Reader
  <2>4. rd' = [rd EXCEPT ![r] = new] /\ UNCHANGED segVars
    BY <1>6 DEF FastHit
  <2> QED
    BY <1>1, <2>3, <2>4
<1>7. CASE FastMiss(r)
  BY <1>0, <1>1, <1>7 DEF FastMiss, Reader
<1>8. CASE ScanSlot(r)
  <2> DEFINE new == [Scanned(rec) EXCEPT !.scan = rec.scan + 1]
  <2>1. rec.scan \in Slots /\ Scanned(rec).scan = rec.scan
    BY <1>0 DEF Scanned, Reader
  <2>2. rec.scan + 1 # EntryCount
    BY <1>8 DEF ScanSlot, ScanEnds
  <2>3. rec.scan + 1 \in Slots
    <3> HIDE DEF rec
    <3> QED BY ONLY <2>1, <2>2, GeometryAssumption DEF Slots
  <2>4. new \in Reader
    BY <1>3, <2>1, <2>3 DEF Reader
  <2>5. rd' = [rd EXCEPT ![r] = new] /\ UNCHANGED segVars
    BY <1>8 DEF ScanSlot
  <2> QED
    BY <1>1, <2>4, <2>5
<1>9. CASE ScanFound(r)
  <2>1. [Scanned(rec) EXCEPT !.pc = AfterLocate(rec), !.scan = 0] \in Reader
    BY <1>3 DEF AfterLocate, Reader
  <2> QED
    BY <1>1, <1>9, <2>1 DEF ScanFound
<1>10. CASE ScanEmpty(r)
  BY <1>0, <1>1, <1>10, ReturnedType DEF ScanEmpty
<1>11. ASSUME NEW w \in Words, CopyOut(r, w) PROVE TypeOK'
  <2> DEFINE dst == [rec.dst EXCEPT ![w] = payload[rec.idx][w]]
             new == [rec EXCEPT !.dst = dst, !.copied = rec.copied \cup {w}]
  <2>1. payload[rec.idx][w] \in Nat /\ rec.dst \in Payload
    BY <1>0 DEF Reader, Payload
  <2>2. dst \in Payload
    BY <2>1 DEF Payload
  <2>3. rd' = [rd EXCEPT ![r] = new] /\ UNCHANGED segVars
    BY <1>11 DEF CopyOut
  <2>4. new \in Reader
    <3> HIDE DEF dst
    <3> QED BY <1>0, <2>2 DEF Reader
  <2> QED
    BY <1>1, <2>3, <2>4
<1>12. CASE RecheckOk(r)
  <2>1. [Returned(rec) EXCEPT !.got = rec.seq, !.lastSeq = rec.seq,
                              !.lastIdx = rec.idx] \in Reader
    <3>1. Returned(rec) \in Reader /\ rec.seq \in Nat /\ rec.idx \in Slots
      BY <1>0, ReturnedType DEF Reader
    <3> QED
      BY <3>1, DeliveredType
  <2> QED
    BY <1>1, <1>12, <2>1 DEF RecheckOk
<1>13. CASE CasOk(r)
  <2>1. [index |-> rec.idx, seq |-> rec.seq, data |-> payload[rec.idx]]
           \in ReadHandle
    BY <1>0 DEF ReadHandle, Reader
  <2> DEFINE new ==
               [Returned(rec) EXCEPT
                  !.lastSeq = rec.seq, !.lastIdx = rec.idx,
                  !.held = rec.held \cup {[index |-> rec.idx, seq |-> rec.seq,
                                           data |-> payload[rec.idx]]}]
  <2>2. /\ new \in Reader
        /\ rec.seq \in Nat /\ rec.idx \in Slots /\ -rec.seq \in Int
    <3>1. /\ Returned(rec) \in Reader /\ rec.seq \in Nat /\ rec.idx \in Slots
          /\ rec.held \in SUBSET ReadHandle
      BY <1>0, ReturnedType DEF Reader
    <3>2. rec.held \cup {[index |-> rec.idx, seq |-> rec.seq,
                          data |-> payload[rec.idx]]} \in SUBSET ReadHandle
      BY <2>1, <3>1
    <3>3. new \in Reader
      BY <3>1, <3>2, DeliveredType, Zenon
    <3> QED
      BY <3>1, <3>3
  <2>3. seq' \in [Slots -> Int]
    <3>1. seq' = [seq EXCEPT ![rec.idx] = -rec.seq] /\ seq \in [Slots -> Int]
      BY <1>0, <1>13 DEF CasOk
    <3> QED
      BY <2>2, <3>1
  <2>4. /\ rd' = [rd EXCEPT ![r] = new]
        /\ UNCHANGED <<payload, writeIndex, highWatermark, published, claims>>
    BY <1>13 DEF CasOk
  <2> HIDE DEF new
  <2> QED
    BY <1>0, <2>2, <2>3, <2>4
<1>14. CASE Retry(r)
  <2> DEFINE new == [rec EXCEPT !.pc = "fast", !.tries = rec.tries + 1, !.idx = 0,
                                !.seq = 0, !.since = 0, !.copied = {}]
  <2>1. new \in Reader
    BY <1>0, RetriedType
  <2>2. rd' = [rd EXCEPT ![r] = new] /\ UNCHANGED segVars
    BY <1>14 DEF Retry
  <2> QED
    BY <1>1, <2>1, <2>2
<1>15. CASE GiveUp(r)
  BY <1>0, <1>1, <1>15, ReturnedType DEF GiveUp
<1>16. ASSUME NEW h \in rec.held, Release(r, h) PROVE TypeOK'
  <2>1. h \in ReadHandle
    BY <1>0 DEF Reader
  <2>2. seq' \in [Slots -> Int]
    BY <1>16, <2>1 DEF Release, ReturnedSeq, ReadHandle
  <2> DEFINE new == [rec EXCEPT !.held = rec.held \ {h}]
  <2>3. new \in Reader
    BY <1>0 DEF Reader
  <2>4. /\ rd' = [rd EXCEPT ![r] = new]
        /\ UNCHANGED <<payload, writeIndex, highWatermark, published, claims>>
    BY <1>16 DEF Release
  <2> HIDE DEF new
  <2> QED
    BY <1>0, <2>2, <2>3, <2>4
<1>17. CASE ReaderGone(r)
  BY <1>1, <1>17, FreshType DEF ReaderGone
<1>18. ASSUME NEW h \in rec.held, Forget(r, h) PROVE TypeOK'
  <2> DEFINE new == [rec EXCEPT !.held = rec.held \ {h}]
  <2>1. new \in Reader
    BY <1>0 DEF Reader
  <2>2. rd' = [rd EXCEPT ![r] = new] /\ UNCHANGED segVars
    BY <1>18 DEF Forget
  <2> QED
    BY <1>1, <2>1, <2>2
<1> QED
  BY <1>4, <1>5, <1>6, <1>7, <1>8, <1>9, <1>10, <1>11, <1>12, <1>13, <1>14,
     <1>15, <1>16, <1>17, <1>18 DEF ReaderNext

(* A step of the ring is a step of one of its ends. *)
LEMMA NextSplit ==
    ASSUME Next
    PROVE  \/ WriterNext /\ UNCHANGED rd
           \/ \E r \in Readers : ReaderNext(r) /\ UNCHANGED writerVars
BY Zenon DEF Next, Operate, WriterNext, ReaderNext

(* Every variable of the ring keeps its type, in every use of it.          *)
THEOREM RingTypeOK == Spec => []TypeOK
<1>1. TypeOK /\ [Next]_vars => TypeOK'
  <2> SUFFICES ASSUME TypeOK, [Next]_vars PROVE TypeOK'
    OBVIOUS
  <2>1. CASE Next
    BY <2>1, NextSplit, TypeWriter, TypeReader
  <2>2. CASE UNCHANGED vars
    BY <2>2 DEF vars, segVars, writerVars, callVars, cursor, TypeOK,
       SegTypeOK, WriterTypeOK, ReaderTypeOK
  <2> QED
    BY <2>1, <2>2
<1> QED
  BY TypeInit, <1>1, PTL DEF Spec

-----------------------------------------------------------------------------

(* What a writer counts, and what a reader may still write back, was       *)
(* committed.                                                              *)
CountersBounded ==
    /\ wpc # "down" => lastEntrySeq <= Len(published)
    /\ \A r \in Readers :
         /\ rd[r].seq <= Len(published)
         /\ \A h \in rd[r].held : h.seq <= Len(published)

PhantomInv == TypeOK /\ NoPhantom /\ CountersBounded

(* A number that stays, or that follows a counter within n, is within      *)
(* n + 1.                                                                  *)
LEMMA AbsBound ==
    ASSUME NEW a \in Int, NEW b, NEW c \in Nat, NEW n \in Nat,
           Abs(a) <= n, c <= n, b = a \/ b = c + 1
    PROVE  Abs(b) <= n + 1
BY DEF Abs

(* recover_state resumes from a number that was committed, given a header  *)
(* that was true once.                                                     *)
LEMMA PhantomAttach ==
    ASSUME PhantomInv, NEW index, NEW mark \in Nat, mark <= Len(published),
           AttachFrom(index, mark), UNCHANGED rd
    PROVE  NoPhantom' /\ CountersBounded'
<1>1. \A i \in Slots : Abs(seq[i]) \in Nat /\ Abs(seq[i]) <= Len(published)
  BY DEF Abs, PhantomInv, NoPhantom, TypeOK, SegTypeOK
<1>2. \A s \in RingSeqs(mark) : s \in Nat /\ s <= Len(published)
  BY <1>1 DEF RingSeqs
<1> QED
  BY <1>2 DEF PhantomInv, AttachFrom, NoPhantom, CountersBounded, segVars

(* The writer, whoever it is, brings in no number that was not committed.  *)
LEMMA PhantomWriter ==
    ASSUME PhantomInv, WriterNext, UNCHANGED rd
    PROVE  NoPhantom' /\ CountersBounded'
<1> USE DEF PhantomInv, TypeOK, SegTypeOK, WriterTypeOK, segVars, callVars,
        cursor, writerVars
<1> USE SlotFacts
<1>0. Len(published) \in Nat /\ \A i \in Slots : seq[i] \in Int
  OBVIOUS
<1>1. \A i \in Slots : Abs(seq[i]) \in Nat /\ Abs(seq[i]) <= Len(published)
  BY <1>0 DEF Abs, NoPhantom
<1>2. ASSUME UNCHANGED <<seq, published, highWatermark>>,
             wpc' # "down" => wpc # "down" /\ UNCHANGED lastEntrySeq
      PROVE  NoPhantom' /\ CountersBounded'
  BY <1>2 DEF NoPhantom, CountersBounded
<1>3. ASSUME NEW index \in Slots, wpc # "down", StoreSeq(index),
             UNCHANGED highWatermark
      PROVE  NoPhantom' /\ CountersBounded'
  <2>1. /\ Len(published') = Len(published) + 1
        /\ lastEntrySeq' = lastEntrySeq + 1
        /\ lastEntrySeq <= Len(published)
    BY <1>3 DEF StoreSeq, CountersBounded
  <2>2. \A i \in Slots : seq'[i] = seq[i] \/ seq'[i] = lastEntrySeq + 1
    BY <1>3 DEF StoreSeq
  <2>3. ASSUME NEW i \in Slots PROVE Abs(seq'[i]) <= Len(published')
    <3>1. seq[i] \in Int /\ Abs(seq[i]) <= Len(published)
      BY <1>0, <1>1
    <3>2. Len(published) \in Nat /\ lastEntrySeq \in Nat
      BY <1>0
    <3>3. Abs(seq'[i]) <= Len(published) + 1
      BY <2>1, <2>2, <3>1, <3>2, AbsBound
    <3> QED
      BY <2>1, <3>3
  <2>4. NoPhantom'
    BY <1>3, <2>1, <2>3 DEF NoPhantom
  <2>5. ASSUME NEW r \in Readers
        PROVE  /\ rd'[r].seq <= Len(published')
               /\ \A h \in rd'[r].held : h.seq <= Len(published')
    <3>1. rd[r].seq \in Nat /\ \A h \in rd[r].held : h.seq \in Nat
      BY ReaderNumbers
    <3>2. /\ rd[r].seq <= Len(published)
          /\ \A h \in rd[r].held : h.seq <= Len(published)
      BY DEF CountersBounded
    <3>3. rd' = rd /\ Len(published) \in Nat
      BY <1>0
    <3> HIDE DEF PhantomInv, TypeOK, SegTypeOK, WriterTypeOK
    <3> QED
      BY <2>1, <3>1, <3>2, <3>3
  <2>6. lastEntrySeq' <= Len(published')
    BY <1>0, <1>3, <2>1
  <2>7. CountersBounded'
    BY <2>5, <2>6 DEF CountersBounded
  <2> QED
    BY <1>3, <2>4, <2>7
<1>4. CASE Attach
  <2>1. highWatermark \in Nat /\ highWatermark <= Len(published)
    BY DEF NoPhantom
  <2> QED
    BY <1>4, <2>1, PhantomAttach DEF Attach
<1>5. CASE Write \/ TryAcquire
  BY <1>2, <1>5 DEF Write, TryAcquire, Call
<1>6. CASE ProbeHeld \/ ProbeBusy \/ ProbeFree
  BY <1>2, <1>6 DEF ProbeHeld, ProbeBusy, ProbeFree
<1>7. CASE Claim
  <2>1. \A i \in Slots : seq'[i] = seq[i] \/ seq'[i] = 0
    BY <1>7 DEF Claim, MarkInProgress
  <2>2. \A i \in Slots : Abs(seq'[i]) <= Len(published)
    BY <1>0, <1>1, <2>1 DEF Abs
  <2> QED
    BY <1>7, <2>2 DEF Claim, NoPhantom, CountersBounded
<1>8. ASSUME NEW w \in Words, CopyIn(w)
      PROVE  NoPhantom' /\ CountersBounded'
  BY <1>2, <1>8 DEF CopyIn
<1>9. CASE PublishWrite
  BY <1>3, <1>9 DEF PublishWrite
<1>10. ASSUME NEW h \in handles, NEW w \in Words, Fill(h, w)
       PROVE  NoPhantom' /\ CountersBounded'
  BY <1>2, <1>10 DEF Fill
<1>11. ASSUME NEW h \in handles, Commit(h)
       PROVE  NoPhantom' /\ CountersBounded'
  <2>1. h.index \in Slots
    BY DEF Handle
  <2> QED
    BY <1>3, <1>11, <2>1 DEF Commit
<1>12. ASSUME NEW h \in handles, DropHandle(h)
       PROVE  NoPhantom' /\ CountersBounded'
  BY <1>2, <1>12 DEF DropHandle
<1>13. CASE PersistIndex
  BY <1>2, <1>13 DEF PersistIndex
<1>14. CASE PersistMark
  BY <1>14 DEF PersistMark, Advertised, NoPhantom, CountersBounded
<1>15. CASE WriterGone
  BY <1>2, <1>15 DEF WriterGone
<1> QED
  BY <1>4, <1>5, <1>6, <1>7, <1>8, <1>9, <1>10, <1>11, <1>12, <1>13, <1>14,
     <1>15 DEF WriterNext

(* A reader, released handles included, brings in no new number. *)
LEMMA PhantomReader ==
    ASSUME PhantomInv, NEW r \in Readers, ReaderNext(r), UNCHANGED writerVars
    PROVE  NoPhantom' /\ CountersBounded'
<1> DEFINE rec == rd[r]
<1> USE SlotFacts DEF PhantomInv, TypeOK, SegTypeOK, segVars, writerVars, cursor
<1>0. /\ Len(published) \in Nat /\ 0 <= Len(published)
      /\ \A i \in Slots : seq[i] \in Int
      /\ rec \in Reader /\ rec.seq \in Nat /\ rec.idx \in Slots
      /\ rec.scan \in Slots /\ rec.mark \in Nat
      /\ rec.seq <= Len(published)
      /\ \A h \in rec.held : h \in ReadHandle /\ h.seq <= Len(published)
  BY DEF ReaderTypeOK, Reader, CountersBounded
<1>1. \A i \in Slots : seq[i] <= Len(published)
  BY <1>0 DEF Abs, NoPhantom
<1>2. ASSUME NEW new, rd' = [rd EXCEPT ![r] = new],
             new.seq <= Len(published),
             \A h \in new.held : h.seq <= Len(published),
             UNCHANGED <<highWatermark, published>>
      PROVE  CountersBounded'
  BY <1>2 DEF CountersBounded, ReaderTypeOK
<1>3. ASSUME NEW new, rd' = [rd EXCEPT ![r] = new],
             new.seq <= Len(published),
             new.held = rec.held \/ new.held = {},
             UNCHANGED segVars
      PROVE  NoPhantom' /\ CountersBounded'
  <2>1. CountersBounded'
    BY <1>0, <1>2, <1>3
  <2> QED
    BY <1>3, <2>1 DEF NoPhantom
<1>4. /\ Returned(rec).seq = 0
      /\ Returned(rec).held = rec.held
  BY <1>0 DEF Returned, Reader
<1>5. /\ Scanned(rec).seq <= Len(published)
      /\ Scanned(rec).held = rec.held
      /\ Scanned(rec) \in Reader
  <2>1. Improves(rec, seq[rec.scan]) => seq[rec.scan] \in Nat
    BY <1>0 DEF Improves
  <2> QED
    BY <1>0, <1>1, <2>1 DEF Scanned, Reader
<1>6. CASE UpToDate(r)
  BY <1>0, <1>3, <1>6 DEF UpToDate, Reader
<1>7. CASE ReadInto(r) \/ TryAcquireRead(r)
  <2>1. PICK m, call : rd' = [rd EXCEPT ![r] =
                 [rec EXCEPT !.pc = "fast", !.call = call, !.mark = m,
                             !.dst = Blank, !.got = 0]]
    BY <1>7 DEF ReadInto, TryAcquireRead, Begin
  <2>2. UNCHANGED segVars
    BY <1>7 DEF ReadInto, TryAcquireRead, Begin
  <2> QED
    BY <1>0, <1>3, <2>1, <2>2 DEF Reader
<1>8. CASE FastHit(r)
  <2> DEFINE next == SlotAfter(rec.lastIdx)
             new == [rec EXCEPT !.pc = AfterLocate(rec), !.idx = next,
                                !.seq = seq[next], !.since = Len(published)]
  <2>1. seq[next] <= Len(published)
    BY <1>0, <1>1 DEF Reader
  <2>2. rd' = [rd EXCEPT ![r] = new] /\ UNCHANGED segVars
    BY <1>8 DEF FastHit
  <2>3. new.seq = seq[next] /\ new.held = rec.held
    BY <1>0 DEF Reader
  <2> HIDE DEF new, next
  <2> QED
    BY <1>3, <2>1, <2>2, <2>3
<1>9. CASE FastMiss(r)
  BY <1>0, <1>3, <1>9 DEF FastMiss, Reader
<1>10. CASE ScanSlot(r)
  <2> DEFINE new == [Scanned(rec) EXCEPT !.scan = rec.scan + 1]
  <2>1. rd' = [rd EXCEPT ![r] = new] /\ UNCHANGED segVars
    BY <1>10 DEF ScanSlot
  <2>2. new.seq = Scanned(rec).seq /\ new.held = Scanned(rec).held
    BY <1>5 DEF Reader
  <2> HIDE DEF new
  <2> QED
    BY <1>3, <1>5, <2>1, <2>2
<1>11. CASE ScanFound(r)
  <2> DEFINE new == [Scanned(rec) EXCEPT !.pc = AfterLocate(rec), !.scan = 0]
  <2>1. rd' = [rd EXCEPT ![r] = new] /\ UNCHANGED segVars
    BY <1>11 DEF ScanFound
  <2>2. new.seq = Scanned(rec).seq /\ new.held = Scanned(rec).held
    BY <1>5 DEF Reader
  <2> HIDE DEF new
  <2> QED
    BY <1>3, <1>5, <2>1, <2>2
<1>12. CASE ScanEmpty(r) \/ GiveUp(r)
  BY <1>0, <1>3, <1>4, <1>12 DEF ScanEmpty, GiveUp
<1>13. ASSUME NEW w \in Words, CopyOut(r, w)
       PROVE  NoPhantom' /\ CountersBounded'
  <2> DEFINE dst == [rec.dst EXCEPT ![w] = payload[rec.idx][w]]
             new == [rec EXCEPT !.dst = dst, !.copied = rec.copied \cup {w}]
  <2>1. rd' = [rd EXCEPT ![r] = new] /\ UNCHANGED segVars
    BY <1>13 DEF CopyOut
  <2>2. new.seq = rec.seq /\ new.held = rec.held
    BY <1>0 DEF Reader
  <2> HIDE DEF new
  <2> QED
    BY <1>0, <1>3, <2>1, <2>2
<1>14. CASE RecheckOk(r)
  <2> DEFINE new == [Returned(rec) EXCEPT !.got = rec.seq, !.lastSeq = rec.seq,
                                          !.lastIdx = rec.idx]
  <2>1. rd' = [rd EXCEPT ![r] = new] /\ UNCHANGED segVars
    BY <1>14 DEF RecheckOk
  <2>2. new.seq = 0 /\ new.held = rec.held
    BY <1>0, <1>4, ReturnedType DEF Reader
  <2> HIDE DEF new
  <2>3. new.seq <= Len(published)
    BY <1>0, <2>2
  <2> QED
    BY <1>3, <2>1, <2>2, <2>3
<1>15. CASE CasOk(r)
  <2> DEFINE h == [index |-> rec.idx, seq |-> rec.seq,
                   data |-> payload[rec.idx]]
             new == [Returned(rec) EXCEPT !.lastSeq = rec.seq,
                                          !.lastIdx = rec.idx,
                                          !.held = rec.held \cup {h}]
  <2>1. /\ rd' = [rd EXCEPT ![r] = new]
        /\ seq' = [seq EXCEPT ![rec.idx] = -rec.seq]
        /\ UNCHANGED <<payload, highWatermark, published>>
    BY <1>15 DEF CasOk
  <2>2. new.seq = 0 /\ new.held = rec.held \cup {h}
    BY <1>0, <1>4, ReturnedType DEF Reader
  <2>3. CountersBounded'
    <3>1. h.seq = rec.seq
      OBVIOUS
    <3> HIDE DEF new, h
    <3>2. new.seq <= Len(published)
      BY <1>0, <2>2
    <3>3. \A k \in new.held : k.seq <= Len(published)
      BY <1>0, <2>2, <3>1
    <3> QED
      BY <1>2, <2>1, <3>2, <3>3
  <2>4. \A i \in Slots : Abs(seq'[i]) <= Len(published)
    <3>1. Abs(-rec.seq) <= Len(published)
      BY <1>0 DEF Abs
    <3> QED
      BY <1>0, <2>1, <3>1 DEF NoPhantom
  <2> QED
    BY <2>1, <2>3, <2>4 DEF NoPhantom
<1>16. CASE Retry(r)
  <2> DEFINE new == [rec EXCEPT !.pc = "fast", !.tries = rec.tries + 1,
                                !.idx = 0, !.seq = 0, !.since = 0,
                                !.copied = {}]
  <2>1. rd' = [rd EXCEPT ![r] = new] /\ UNCHANGED segVars
    BY <1>16 DEF Retry
  <2>2. new.seq = 0 /\ new.held = rec.held
    BY <1>0 DEF Reader
  <2> HIDE DEF new
  <2>3. new.seq <= Len(published)
    BY <1>0, <2>2
  <2> QED
    BY <1>3, <2>1, <2>2, <2>3
<1>17. ASSUME NEW h \in rec.held, Release(r, h)
       PROVE  NoPhantom' /\ CountersBounded'
  <2> DEFINE new == [rec EXCEPT !.held = rec.held \ {h}]
  <2>1. /\ rd' = [rd EXCEPT ![r] = new]
        /\ seq' = [seq EXCEPT ![h.index] = h.seq]
        /\ UNCHANGED <<highWatermark, published>>
    BY <1>17 DEF Release, ReturnedSeq
  <2>2. new.seq = rec.seq /\ new.held = rec.held \ {h}
    BY <1>0 DEF Reader
  <2>3. CountersBounded'
    <3> HIDE DEF new
    <3> QED
      BY <1>0, <1>2, <2>1, <2>2
  <2>4. \A i \in Slots : Abs(seq'[i]) <= Len(published)
    <3>1. h.index \in Slots /\ Abs(h.seq) <= Len(published)
      BY <1>0 DEF Abs, ReadHandle
    <3> QED
      BY <1>0, <2>1, <3>1 DEF NoPhantom
  <2> QED
    BY <2>1, <2>3, <2>4 DEF NoPhantom
<1>18. CASE ReaderGone(r)
  <2>1. Fresh.seq <= Len(published) /\ Fresh.held = {}
    BY <1>0 DEF Fresh
  <2>2. rd' = [rd EXCEPT ![r] = Fresh] /\ UNCHANGED segVars
    BY <1>18 DEF ReaderGone
  <2> QED
    BY <1>3, <2>1, <2>2
<1>19. ASSUME NEW h \in rec.held, Forget(r, h)
       PROVE  NoPhantom' /\ CountersBounded'
  <2> DEFINE new == [rec EXCEPT !.held = rec.held \ {h}]
  <2>1. rd' = [rd EXCEPT ![r] = new] /\ UNCHANGED segVars
    BY <1>19 DEF Forget
  <2>2. new.seq = rec.seq /\ new.held \subseteq rec.held
    BY <1>0 DEF Reader
  <2>3. CountersBounded'
    <3> HIDE DEF new
    <3> QED
      BY <1>0, <1>2, <2>1, <2>2
  <2> QED
    BY <2>1, <2>3 DEF NoPhantom
<1> QED
  BY <1>6, <1>7, <1>8, <1>9, <1>10, <1>11, <1>12, <1>13, <1>14, <1>15,
     <1>16, <1>17, <1>18, <1>19 DEF ReaderNext

(* PhantomInv is inductive. *)
LEMMA PhantomStep ==
    ASSUME PhantomInv, [Next]_vars
    PROVE  PhantomInv'
<1>1. CASE Next
  BY <1>1, NextSplit, TypeWriter, TypeReader, PhantomWriter, PhantomReader
     DEF PhantomInv
<1>2. CASE UNCHANGED vars
  BY <1>2 DEF vars, segVars, writerVars, callVars, cursor, PhantomInv, TypeOK,
     SegTypeOK, WriterTypeOK, ReaderTypeOK, NoPhantom, CountersBounded
<1> QED
  BY <1>1, <1>2

(* PhantomInv holds initially. *)
LEMMA PhantomInit == Init => PhantomInv
<1> SUFFICES ASSUME Init PROVE PhantomInv
  OBVIOUS
<1>1. NoPhantom
  BY DEF Init, SegInit, NoPhantom, Abs
<1>2. CountersBounded
  BY DEF Init, SegInit, WriterInit, ReaderInit, Fresh, CountersBounded
<1> QED
  BY <1>1, <1>2, TypeInit DEF PhantomInv

(* Whatever the two ends do, zero-copy races and overlapping handles       *)
(* included, no control word and no header ever shows a number that was    *)
(* not committed.                                                          *)
THEOREM RingNoPhantom == Spec => []NoPhantom
<1>1. PhantomInv => NoPhantom
  BY DEF PhantomInv
<1>2. PhantomInv /\ [Next]_vars => PhantomInv'
  BY PhantomStep
<1> QED
  BY PhantomInit, <1>1, <1>2, PTL DEF Spec
=============================================================================
