-------------------------- MODULE RingSerialProofs ---------------------------
(***************************************************************************)
(* Zero-copy use of the ring in which the calls of the two ends do not     *)
(* overlap and write handles are taken one at a time, for every number of  *)
(* slots, words, readers, claims and crashes.  Then a held slot is left    *)
(* alone for as long as it is held, for good when its handle is lost, and  *)
(* Busy means that every slot is held.                                     *)
(***************************************************************************)
EXTENDS RingProofs

(* No call starts while a write handle is outstanding. *)
OneWriteHandle == OverlapHandles = FALSE

(* How many slots claim_slot looks at before it comes to slot i. *)
Rounds(i) ==
    IF i >= currentIndex THEN i - currentIndex
    ELSE i + EntryCount - currentIndex

(* The slot a reader has located carries a number, and so does every slot  *)
(* it holds; a slot is held once.                                          *)
HandlesSound ==
    /\ \A r \in Readers : rd[r].pc \in {"copy", "cas"} => rd[r].seq > 0
    /\ \A r \in Readers : \A h \in rd[r].held : h.seq > 0
    /\ \A r, q \in Readers : \A h \in rd[r].held, k \in rd[q].held :
         h.index = k.index => r = q /\ h = k

(* Readers are idle and write handles are given back during a call of the  *)
(* writer.                                                                 *)
CallsApart ==
    /\ wpc \notin {"down", "idle"} =>
           handles = {} /\ \A r \in Readers : rd[r].pc = "idle"
    /\ \A h, k \in handles : h = k

(* The slot being claimed is not held, the slot being filled is marked     *)
(* in-progress, and claim_slot has found every slot held that it passed.   *)
ClaimSound ==
    /\ wpc = "zero" => seq[wIndex] >= 0
    /\ wpc = "copy" => seq[wIndex] = 0
    /\ \A h \in handles : seq[h.index] = 0
    /\ wpc \notin {"probe", "zero"} => probed = 0
    /\ wpc = "probe" =>
         /\ Rounds(wIndex) = probed
         /\ \A i \in Slots : Rounds(i) < probed => seq[i] < 0

SerialInv == TypeOK /\ PinnedStable /\ HandlesSound /\ CallsApart /\ ClaimSound

-----------------------------------------------------------------------------

(* What the types say of the ring's numbers. *)
LEMMA SerialTypes ==
    ASSUME TypeOK
    PROVE  /\ \A i \in Slots : seq[i] \in Int /\ payload[i] \in Payload
           /\ wIndex \in Slots /\ currentIndex \in Slots /\ probed \in Slots
           /\ lastEntrySeq \in Nat
           /\ \A h \in handles : h.index \in Slots
           /\ \A r \in Readers :
                /\ rd[r] \in Reader
                /\ rd[r].seq \in Nat /\ rd[r].idx \in Slots
                /\ \A h \in rd[r].held : h.index \in Slots /\ h.seq \in Nat
<1>1. /\ seq \in [Slots -> Int] /\ payload \in [Slots -> Payload]
      /\ wIndex \in Slots /\ currentIndex \in Slots /\ probed \in Slots
      /\ lastEntrySeq \in Nat /\ handles \in SUBSET Handle
      /\ rd \in [Readers -> Reader]
  BY DEF TypeOK, SegTypeOK, WriterTypeOK, ReaderTypeOK
<1>2. \A h \in handles : h.index \in Slots
  BY <1>1 DEF Handle
<1>3. ASSUME NEW r \in Readers
      PROVE  /\ rd[r] \in Reader
             /\ rd[r].seq \in Nat /\ rd[r].idx \in Slots
             /\ \A h \in rd[r].held : h.index \in Slots /\ h.seq \in Nat
  BY <1>1 DEF Reader, ReadHandle
<1> QED
  BY <1>1, <1>2, <1>3

(* The next slot is one round further, up to the last round. *)
LEMMA NextRound ==
    ASSUME currentIndex \in Slots, NEW i \in Slots, Rounds(i) + 1 # EntryCount
    PROVE  /\ Rounds(SlotAfter(i)) = Rounds(i) + 1
           /\ \A j \in Slots : Rounds(j) = Rounds(i) => j = i
BY GeometryAssumption DEF Rounds, Slots, SlotAfter

(* The last round comes after all the others. *)
LEMMA LastRound ==
    ASSUME currentIndex \in Slots, NEW i \in Slots, Rounds(i) + 1 = EntryCount
    PROVE  \A j \in Slots : Rounds(j) < Rounds(i) \/ j = i
BY GeometryAssumption DEF Rounds, Slots

(* A step of the writer that leaves the slots alone, or changes one that   *)
(* is not held into one that is not.                                       *)
SparesHeld ==
    \A i \in Slots : seq[i] < 0 => seq'[i] = seq[i] /\ payload'[i] = payload[i]

(* Such a step leaves the readers' handles as they were. *)
LEMMA SparedHandles ==
    ASSUME TypeOK, PinnedStable, HandlesSound, SparesHeld, UNCHANGED rd
    PROVE  PinnedStable' /\ HandlesSound'
<1>1. PinnedStable'
  <2> SUFFICES ASSUME NEW r \in Readers, NEW h \in rd[r].held
               PROVE  seq'[h.index] = -h.seq /\ payload'[h.index] = h.data
    BY DEF PinnedStable
  <2>1. /\ h.index \in Slots /\ h.seq \in Nat /\ h.seq > 0
        /\ seq[h.index] = -h.seq /\ payload[h.index] = h.data
    BY SerialTypes DEF HandlesSound, PinnedStable
  <2> QED
    BY <2>1 DEF SparesHeld
<1>2. HandlesSound'
  BY DEF HandlesSound
<1> QED
  BY <1>1, <1>2

(* The writer's calls. *)
LEMMA SerialWriterStep ==
    ASSUME OneWriteHandle, SerialInv, WriterNext, SerialWriter, UNCHANGED rd
    PROVE  CallsApart' /\ ClaimSound' /\ SparesHeld
<1>1. /\ TypeOK /\ CallsApart /\ ClaimSound
      /\ \A r \in Readers : rd'[r].pc = "idle"
  BY DEF SerialInv, SerialWriter
<1>2. /\ \A i \in Slots : seq[i] \in Int
      /\ wIndex \in Slots /\ currentIndex \in Slots /\ probed \in Slots
      /\ lastEntrySeq \in Nat
      /\ \A h \in handles : h.index \in Slots
      /\ seq \in [Slots -> Int] /\ payload \in [Slots -> Payload]
  BY <1>1, SerialTypes DEF TypeOK, SegTypeOK
<1>3. CASE Attach
  BY <1>1, <1>2, <1>3
  DEF Attach, AttachFrom, CallsApart, ClaimSound, SparesHeld, segVars, callVars
<1>4. CASE Write \/ TryAcquire
  <2>1. /\ wpc = "idle" /\ wpc' = "probe" /\ wIndex' = currentIndex
        /\ handles = {} /\ handles' = {} /\ probed' = probed
        /\ UNCHANGED <<seq, payload, currentIndex>>
    BY <1>4 DEF Write, TryAcquire, Call, OneWriteHandle, segVars, cursor
  <2>2. probed = 0
    BY <1>1, <2>1 DEF ClaimSound
  <2>3. Rounds(wIndex)' = 0 /\ \A i \in Slots : ~(Rounds(i)' < 0)
    BY <1>2, <2>1, GeometryAssumption DEF Rounds, Slots
  <2> QED
    BY <1>1, <2>1, <2>2, <2>3 DEF CallsApart, ClaimSound, SparesHeld
<1>5. CASE ProbeHeld
  <2>1. /\ wpc = "probe" /\ wpc' = "probe" /\ seq[wIndex] < 0
        /\ probed + 1 # EntryCount /\ probed' = probed + 1
        /\ wIndex' = SlotAfter(wIndex)
        /\ UNCHANGED <<seq, payload, currentIndex, handles>>
    BY <1>5 DEF ProbeHeld, Held, LastProbe, segVars, cursor
  <2>2. /\ Rounds(wIndex) = probed
        /\ \A i \in Slots : Rounds(i) < probed => seq[i] < 0
        /\ handles = {}
    BY <1>1, <2>1 DEF ClaimSound, CallsApart
  <2>3. /\ Rounds(SlotAfter(wIndex)) = probed + 1
        /\ \A j \in Slots : Rounds(j) = probed => j = wIndex
    BY <1>2, <2>1, <2>2, NextRound
  <2>4. \A i \in Slots : Rounds(i)' = Rounds(i) /\ Rounds(i) \in Int
    BY <1>2, <2>1, GeometryAssumption DEF Rounds, Slots
  <2>5. Rounds(wIndex)' = probed + 1
    BY <2>1, <2>3 DEF Rounds
  <2>6. \A i \in Slots : Rounds(i)' < probed + 1 => seq[i] < 0
    BY <1>2, <2>1, <2>2, <2>3, <2>4 DEF Slots
  <2> QED
    BY <1>1, <2>1, <2>2, <2>5, <2>6 DEF CallsApart, ClaimSound, SparesHeld
<1>6. CASE ProbeBusy
  BY <1>1, <1>2, <1>6
  DEF ProbeBusy, CallsApart, ClaimSound, SparesHeld, segVars
<1>7. CASE ProbeFree
  BY <1>1, <1>2, <1>7
  DEF ProbeFree, Held, CallsApart, ClaimSound, SparesHeld, segVars, callVars
<1>8. CASE Claim
  <2>1. /\ wpc = "zero" /\ seq[wIndex] >= 0 /\ handles = {}
        /\ seq' = [seq EXCEPT ![wIndex] = 0] /\ payload' = payload
        /\ probed' = 0
        /\ \/ wpc' = "copy" /\ wIndex' = wIndex /\ handles' = handles
           \/ /\ wpc' = "idle"
              /\ handles' = handles \cup {[index |-> wIndex, stamp |-> claims + 1]}
    BY <1>1, <1>8 DEF Claim, MarkInProgress, CallsApart, ClaimSound
  <2>2. SparesHeld
    BY <1>2, <2>1 DEF SparesHeld
  <2>3. seq'[wIndex] = 0
    BY <1>2, <2>1
  <2>4. \A h, k \in handles' : h = k /\ h.index = wIndex
    BY <2>1
  <2> QED
    BY <1>1, <2>1, <2>2, <2>3, <2>4 DEF CallsApart, ClaimSound
<1>9. ASSUME NEW w \in Words, CopyIn(w)
      PROVE  CallsApart' /\ ClaimSound' /\ SparesHeld
  <2>1. SparesHeld
    BY <1>1, <1>2, <1>9 DEF CopyIn, ClaimSound, SparesHeld
  <2> QED
    BY <1>1, <1>9, <2>1 DEF CopyIn, CallsApart, ClaimSound
<1>10. ASSUME NEW h \in handles, NEW w \in Words, Fill(h, w)
       PROVE  CallsApart' /\ ClaimSound' /\ SparesHeld
  <2>1. SparesHeld
    BY <1>1, <1>2, <1>10 DEF Fill, ClaimSound, SparesHeld
  <2>2. UNCHANGED <<seq, wpc, wIndex, probed, currentIndex, handles>>
    BY <1>10 DEF Fill, writerVars, callVars, cursor
  <2> QED
    BY <1>1, <2>1, <2>2 DEF CallsApart, ClaimSound, Rounds
<1>11. ASSUME NEW i \in Slots, StoreSeq(i), seq[i] = 0, handles' = {},
              payload' = payload, probed' = probed, probed = 0
       PROVE  CallsApart' /\ ClaimSound' /\ SparesHeld
  <2>1. SparesHeld
    BY <1>2, <1>11 DEF StoreSeq, SparesHeld
  <2> QED
    BY <1>1, <1>11, <2>1 DEF StoreSeq, CallsApart, ClaimSound
<1>12. CASE PublishWrite
  BY <1>1, <1>2, <1>11, <1>12 DEF PublishWrite, CallsApart, ClaimSound
<1>13. ASSUME NEW h \in handles, Commit(h)
       PROVE  CallsApart' /\ ClaimSound' /\ SparesHeld
  <2>1. handles' = {}
    BY <1>1, <1>13 DEF Commit, CallsApart
  <2> QED
    BY <1>1, <1>2, <1>11, <1>13, <2>1 DEF Commit, ClaimSound
<1>14. ASSUME NEW h \in handles, DropHandle(h)
       PROVE  CallsApart' /\ ClaimSound' /\ SparesHeld
  BY <1>1, <1>2, <1>14
  DEF DropHandle, CallsApart, ClaimSound, SparesHeld, segVars, callVars, cursor,
      Rounds
<1>15. CASE PersistIndex \/ PersistMark
  BY <1>1, <1>2, <1>15
  DEF PersistIndex, PersistMark, CallsApart, ClaimSound, SparesHeld, callVars
<1>16. CASE WriterGone
  BY <1>1, <1>2, <1>16
  DEF WriterGone, CallsApart, ClaimSound, SparesHeld, segVars
<1> QED
  BY <1>3, <1>4, <1>5, <1>6, <1>7, <1>8, <1>9, <1>10, <1>12, <1>13, <1>14,
     <1>15, <1>16 DEF WriterNext

(* Reader r takes hold of the slot it has located, or gives one back. *)
Holds(r) ==
    LET h == [index |-> rd[r].idx, seq |-> rd[r].seq,
              data |-> payload[rd[r].idx]]
    IN  /\ rd[r].seq > 0
        /\ seq[rd[r].idx] = rd[r].seq
        /\ seq' = [seq EXCEPT ![rd[r].idx] = -rd[r].seq]
        /\ rd'[r].held = rd[r].held \cup {h}

GivesBack(r) ==
    \E h \in rd[r].held :
        /\ seq' = [seq EXCEPT ![h.index] = h.seq]
        /\ rd'[r].held = rd[r].held \ {h}

(* A step of reader r does nothing else to the slots, and no payload is    *)
(* changed by it.                                                          *)
LEMMA ReaderEffect ==
    ASSUME TypeOK, HandlesSound, NEW r \in Readers, ReaderNext(r)
    PROVE  /\ payload' = payload
           /\ \A q \in Readers : q # r => rd'[q] = rd[q]
           /\ rd'[r].pc \in {"copy", "cas"} => rd'[r].seq > 0
           /\ \/ seq' = seq /\ rd'[r].held \subseteq rd[r].held
              \/ Holds(r)
              \/ GivesBack(r)
<1> DEFINE rec == rd[r]
           Effect ==
             /\ payload' = payload
             /\ \A q \in Readers : q # r => rd'[q] = rd[q]
             /\ rd'[r].pc \in {"copy", "cas"} => rd'[r].seq > 0
             /\ \/ seq' = seq /\ rd'[r].held \subseteq rec.held
                \/ Holds(r)
                \/ GivesBack(r)
<1>1. /\ rec \in Reader /\ rd \in [Readers -> Reader]
      /\ rec.seq \in Nat /\ rec.mark \in Nat /\ rec.scan \in Slots
      /\ rec.pc \in {"copy", "cas"} => rec.seq > 0
      /\ \A i \in Slots : seq[i] \in Int
  BY SerialTypes DEF TypeOK, ReaderTypeOK, HandlesSound, Reader
<1>2. ASSUME NEW new, rd' = [rd EXCEPT ![r] = new], UNCHANGED segVars,
             new.held \subseteq rec.held,
             new.pc \in {"copy", "cas"} => new.seq > 0
      PROVE  Effect
  BY <1>1, <1>2 DEF segVars
<1>3. /\ Returned(rec).pc = "idle" /\ Returned(rec).held = rec.held
      /\ Returned(rec) \in Reader
  BY <1>1, ReturnedType DEF Returned, Reader
<1>4. /\ Scanned(rec) \in Reader
      /\ Scanned(rec).held = rec.held /\ Scanned(rec).pc = rec.pc
      /\ Scanned(rec).seq \in Nat
  <2>1. Improves(rec, seq[rec.scan]) => seq[rec.scan] \in Nat
    BY <1>1 DEF Improves
  <2> QED
    BY <1>1, <2>1 DEF Scanned, Reader
<1>5. CASE UpToDate(r)
  BY <1>1, <1>2, <1>5 DEF UpToDate, Reader
<1>6. CASE ReadInto(r) \/ TryAcquireRead(r)
  <2>1. PICK m, call :
          rd' = [rd EXCEPT ![r] =
                   [rec EXCEPT !.pc = "fast", !.call = call, !.mark = m,
                               !.dst = Blank, !.got = 0]]
    BY <1>6 DEF ReadInto, TryAcquireRead, Begin
  <2>2. UNCHANGED segVars
    BY <1>6 DEF ReadInto, TryAcquireRead, Begin
  <2> QED
    BY <1>1, <1>2, <2>1, <2>2 DEF Reader
<1>7. CASE FastHit(r)
  <2> DEFINE next == SlotAfter(rec.lastIdx)
             new == [rec EXCEPT !.pc = AfterLocate(rec), !.idx = next,
                                !.seq = seq[next], !.since = Len(published)]
  <2>1. seq[next] = rec.mark + 1
    BY <1>7 DEF FastHit
  <2>2. rd' = [rd EXCEPT ![r] = new] /\ UNCHANGED segVars
    BY <1>7 DEF FastHit
  <2>3. new.seq = seq[next] /\ new.held = rec.held
    BY <1>1 DEF Reader
  <2> HIDE DEF new, next
  <2>4. new.seq > 0
    BY <1>1, <2>1, <2>3
  <2> QED
    BY <1>2, <2>2, <2>3, <2>4
<1>8. CASE FastMiss(r)
  BY <1>1, <1>2, <1>8 DEF FastMiss, Reader
<1>9. CASE ScanSlot(r)
  <2> DEFINE new == [Scanned(rec) EXCEPT !.scan = rec.scan + 1]
  <2>1. rd' = [rd EXCEPT ![r] = new] /\ UNCHANGED segVars /\ rec.pc = "scan"
    BY <1>9 DEF ScanSlot
  <2>2. new.pc = Scanned(rec).pc /\ new.held = Scanned(rec).held
    BY <1>4 DEF Reader
  <2> HIDE DEF new
  <2> QED
    BY <1>2, <1>4, <2>1, <2>2
<1>10. CASE ScanFound(r)
  <2> DEFINE new == [Scanned(rec) EXCEPT !.pc = AfterLocate(rec), !.scan = 0]
  <2>1. /\ rd' = [rd EXCEPT ![r] = new] /\ UNCHANGED segVars
        /\ Scanned(rec).seq # 0
    BY <1>10 DEF ScanFound
  <2>2. new.seq = Scanned(rec).seq /\ new.held = Scanned(rec).held
    BY <1>4 DEF Reader
  <2> HIDE DEF new
  <2>3. new.seq > 0
    BY <1>4, <2>1, <2>2
  <2> QED
    BY <1>2, <1>4, <2>1, <2>2, <2>3
<1>11. CASE ScanEmpty(r) \/ GiveUp(r)
  BY <1>2, <1>3, <1>11 DEF ScanEmpty, GiveUp
<1>12. ASSUME NEW w \in Words, CopyOut(r, w) PROVE Effect
  <2> DEFINE dst == [rec.dst EXCEPT ![w] = payload[rec.idx][w]]
             new == [rec EXCEPT !.dst = dst, !.copied = rec.copied \cup {w}]
  <2>1. rd' = [rd EXCEPT ![r] = new] /\ UNCHANGED segVars
    BY <1>12 DEF CopyOut
  <2>2. new.seq = rec.seq /\ new.held = rec.held /\ new.pc = rec.pc
    BY <1>1 DEF Reader
  <2> HIDE DEF new
  <2> QED
    BY <1>1, <1>2, <2>1, <2>2
<1>13. CASE RecheckOk(r)
  <2> DEFINE new == [Returned(rec) EXCEPT !.got = rec.seq, !.lastSeq = rec.seq,
                                          !.lastIdx = rec.idx]
  <2>1. rd' = [rd EXCEPT ![r] = new] /\ UNCHANGED segVars
    BY <1>13 DEF RecheckOk
  <2>2. new.pc = "idle" /\ new.held = rec.held
    BY <1>3 DEF Reader
  <2> HIDE DEF new
  <2> QED
    BY <1>2, <2>1, <2>2
<1>14. CASE CasOk(r)
  <2> DEFINE h == [index |-> rec.idx, seq |-> rec.seq,
                   data |-> payload[rec.idx]]
             new == [Returned(rec) EXCEPT !.lastSeq = rec.seq,
                                          !.lastIdx = rec.idx,
                                          !.held = rec.held \cup {h}]
  <2>1. /\ rd' = [rd EXCEPT ![r] = new]
        /\ rec.pc = "cas" /\ seq[rec.idx] = rec.seq
        /\ seq' = [seq EXCEPT ![rec.idx] = -rec.seq]
        /\ payload' = payload
    BY <1>14 DEF CasOk, StillThere
  <2>2. new.pc = "idle" /\ new.held = rec.held \cup {h}
    BY <1>3 DEF Reader
  <2> HIDE DEF new
  <2>3. rd'[r] = new /\ \A q \in Readers : q # r => rd'[q] = rd[q]
    BY <1>1, <2>1
  <2>4. Holds(r)
    BY <1>1, <2>1, <2>2, <2>3 DEF Holds
  <2> QED
    BY <2>1, <2>2, <2>3, <2>4
<1>15. CASE Retry(r)
  <2> DEFINE new == [rec EXCEPT !.pc = "fast", !.tries = rec.tries + 1,
                                !.idx = 0, !.seq = 0, !.since = 0,
                                !.copied = {}]
  <2>1. rd' = [rd EXCEPT ![r] = new] /\ UNCHANGED segVars
    BY <1>15 DEF Retry
  <2>2. new.pc = "fast" /\ new.held = rec.held
    BY <1>1 DEF Reader
  <2> HIDE DEF new
  <2> QED
    BY <1>2, <2>1, <2>2
<1>16. ASSUME NEW h \in rec.held, Release(r, h) PROVE Effect
  <2> DEFINE new == [rec EXCEPT !.held = rec.held \ {h}]
  <2>1. /\ rd' = [rd EXCEPT ![r] = new]
        /\ seq' = [seq EXCEPT ![h.index] = h.seq]
        /\ payload' = payload /\ rec.pc = "idle"
    BY <1>16 DEF Release, ReturnedSeq
  <2>2. new.pc = rec.pc /\ new.held = rec.held \ {h}
    BY <1>1 DEF Reader
  <2> HIDE DEF new
  <2>3. rd'[r] = new /\ \A q \in Readers : q # r => rd'[q] = rd[q]
    BY <1>1, <2>1
  <2>4. GivesBack(r)
    BY <2>1, <2>2, <2>3 DEF GivesBack
  <2> QED
    BY <2>1, <2>2, <2>3, <2>4
<1>17. ASSUME NEW h \in rec.held, Forget(r, h) PROVE Effect
  <2> DEFINE new == [rec EXCEPT !.held = rec.held \ {h}]
  <2>1. rd' = [rd EXCEPT ![r] = new] /\ UNCHANGED segVars
    BY <1>17 DEF Forget
  <2>2. new.pc = rec.pc /\ new.seq = rec.seq /\ new.held \subseteq rec.held
    BY <1>1 DEF Reader
  <2> HIDE DEF new
  <2> QED
    BY <1>1, <1>2, <2>1, <2>2
<1>18. CASE ReaderGone(r)
  <2>1. Fresh.pc = "idle" /\ Fresh.held = {}
    BY DEF Fresh
  <2>2. rd' = [rd EXCEPT ![r] = Fresh] /\ UNCHANGED segVars
    BY <1>18 DEF ReaderGone
  <2> QED
    BY <1>2, <2>1, <2>2
<1> QED
  BY <1>5, <1>6, <1>7, <1>8, <1>9, <1>10, <1>11, <1>12, <1>13, <1>14, <1>15,
     <1>16, <1>17, <1>18 DEF ReaderNext

(* The reader's calls. *)
LEMMA SerialReaderStep ==
    ASSUME SerialInv, NEW r \in Readers, ReaderNext(r), SerialReader(r),
           UNCHANGED writerVars
    PROVE  PinnedStable' /\ HandlesSound' /\ CallsApart' /\ ClaimSound'
<1>1. /\ TypeOK /\ PinnedStable /\ HandlesSound /\ CallsApart /\ ClaimSound
      /\ wpc \in {"down", "idle"}
      /\ UNCHANGED <<wpc, wIndex, probed, handles, currentIndex>>
  BY DEF SerialInv, SerialReader, writerVars, callVars, cursor
<1>2. /\ seq \in [Slots -> Int]
      /\ \A h \in handles : h.index \in Slots
      /\ \A q \in Readers : /\ rd[q].seq \in Nat /\ rd[q].idx \in Slots
                            /\ \A h \in rd[q].held :
                                 h.index \in Slots /\ h.seq \in Nat
  BY <1>1, SerialTypes DEF TypeOK, SegTypeOK
<1>3. /\ \A q \in Readers : \A h \in rd[q].held :
           h.seq > 0 /\ seq[h.index] = -h.seq /\ payload[h.index] = h.data
      /\ \A h \in handles : seq[h.index] = 0
  BY <1>1 DEF PinnedStable, HandlesSound, ClaimSound
<1>4. /\ payload' = payload
      /\ \A q \in Readers : q # r => rd'[q] = rd[q]
      /\ rd'[r].pc \in {"copy", "cas"} => rd'[r].seq > 0
      /\ \/ seq' = seq /\ rd'[r].held \subseteq rd[r].held
         \/ Holds(r)
         \/ GivesBack(r)
  BY <1>1, ReaderEffect
<1>5. CallsApart'
  BY <1>1 DEF CallsApart
<1>6. \A q \in Readers : rd'[q].pc \in {"copy", "cas"} => rd'[q].seq > 0
  BY <1>1, <1>4 DEF HandlesSound
<1>7. CASE seq' = seq /\ rd'[r].held \subseteq rd[r].held
  <2>1. \A q \in Readers : rd'[q].held \subseteq rd[q].held
    BY <1>4, <1>7
  <2>2. PinnedStable'
    BY <1>3, <1>4, <1>7, <2>1 DEF PinnedStable
  <2>3. HandlesSound'
    BY <1>1, <1>6, <2>1 DEF HandlesSound
  <2> QED
    BY <1>1, <1>5, <1>7, <2>2, <2>3 DEF ClaimSound
<1>8. CASE Holds(r)
  <2> DEFINE i == rd[r].idx
             g == [index |-> i, seq |-> rd[r].seq, data |-> payload[i]]
  <2>1. /\ rd[r].seq > 0 /\ seq[i] = rd[r].seq
        /\ seq' = [seq EXCEPT ![i] = -rd[r].seq]
        /\ rd'[r].held = rd[r].held \cup {g}
    BY <1>8 DEF Holds
  <2>2. /\ g.index = i /\ g.seq = rd[r].seq /\ g.data = payload[i]
        /\ i \in Slots /\ g.seq \in Nat /\ g.seq > 0
    BY <1>2, <2>1
  <2>3. \A q \in Readers : \A h \in rd[q].held : h.index # i
    BY <1>2, <1>3, <2>1
  <2> HIDE DEF g
  <2>4. /\ seq'[i] = -g.seq
        /\ \A j \in Slots : j # i => seq'[j] = seq[j]
    BY <1>2, <2>1, <2>2
  <2>5. \A q \in Readers : \A h \in rd'[q].held :
          (q = r /\ h = g) \/ h \in rd[q].held
    BY <1>4, <2>1
  <2>6. PinnedStable'
    BY <1>2, <1>3, <1>4, <2>2, <2>3, <2>4, <2>5 DEF PinnedStable
  <2>7. HandlesSound'
    <3>1. \A q \in Readers : \A h \in rd'[q].held : h.seq > 0
      BY <1>3, <2>2, <2>5
    <3>2. \A p, q \in Readers : \A h \in rd'[p].held, k \in rd'[q].held :
            h.index = k.index => p = q /\ h = k
      BY <1>1, <2>2, <2>3, <2>5 DEF HandlesSound
    <3> QED
      BY <1>6, <3>1, <3>2 DEF HandlesSound
  <2>8. ClaimSound'
    <3>1. \A h \in handles : seq'[h.index] = 0
      BY <1>2, <1>3, <2>1, <2>2, <2>4
    <3> QED
      BY <1>1, <3>1 DEF ClaimSound
  <2> QED
    BY <1>5, <2>6, <2>7, <2>8
<1>9. CASE GivesBack(r)
  <2>1. PICK g \in rd[r].held : /\ seq' = [seq EXCEPT ![g.index] = g.seq]
                                /\ rd'[r].held = rd[r].held \ {g}
    BY <1>9 DEF GivesBack
  <2>2. \A q \in Readers : \A h \in rd'[q].held :
          h \in rd[q].held /\ h.index # g.index
    BY <1>1, <1>4, <2>1 DEF HandlesSound
  <2>3. PinnedStable'
    BY <1>2, <1>3, <1>4, <2>1, <2>2 DEF PinnedStable
  <2>4. HandlesSound'
    BY <1>1, <1>6, <2>2 DEF HandlesSound
  <2>5. ClaimSound'
    <3>1. \A h \in handles : h.index # g.index
      BY <1>2, <1>3
    <3>2. \A h \in handles : seq'[h.index] = 0
      BY <1>2, <1>3, <2>1, <3>1
    <3> QED
      BY <1>1, <3>2 DEF ClaimSound
  <2> QED
    BY <1>5, <2>3, <2>4, <2>5
<1> QED
  BY <1>4, <1>7, <1>8, <1>9

-----------------------------------------------------------------------------

(* The invariant holds at first ... *)
LEMMA SerialInit == Init => SerialInv
<1> SUFFICES ASSUME Init PROVE SerialInv
  OBVIOUS
<1>1. /\ \A r \in Readers : rd[r] = Fresh
      /\ wpc = "down" /\ handles = {} /\ probed = 0
  BY DEF Init, WriterInit, ReaderInit
<1>2. Fresh.pc = "idle" /\ Fresh.held = {}
  BY DEF Fresh
<1>3. PinnedStable /\ HandlesSound
  BY <1>1, <1>2 DEF PinnedStable, HandlesSound
<1>4. CallsApart /\ ClaimSound
  BY <1>1 DEF CallsApart, ClaimSound
<1> QED
  BY <1>3, <1>4, TypeInit DEF SerialInv

(* ... and every step keeps it. *)
LEMMA SerialStep ==
    ASSUME OneWriteHandle, SerialInv, [SerialNext]_vars
    PROVE  SerialInv'
<1>1. CASE WriterNext /\ SerialWriter /\ UNCHANGED rd
  BY <1>1, SerialWriterStep, SparedHandles, TypeWriter DEF SerialInv
<1>2. ASSUME NEW r \in Readers, ReaderNext(r), SerialReader(r),
             UNCHANGED writerVars
      PROVE  SerialInv'
  BY <1>2, SerialReaderStep, TypeReader DEF SerialInv
<1>3. CASE UNCHANGED vars
  <2>1. TypeOK'
    BY <1>3 DEF SerialInv, vars, segVars, writerVars, callVars, cursor, TypeOK,
       SegTypeOK, WriterTypeOK, ReaderTypeOK
  <2>2. UNCHANGED <<seq, payload, rd, wpc, handles, wIndex, probed,
                    currentIndex>>
    BY <1>3 DEF vars, segVars, writerVars, callVars, cursor
  <2>3. PinnedStable' /\ HandlesSound'
    BY <2>2 DEF SerialInv, PinnedStable, HandlesSound
  <2>4. CallsApart' /\ ClaimSound'
    BY <2>2 DEF SerialInv, CallsApart, ClaimSound, Rounds
  <2> QED
    BY <2>1, <2>3, <2>4 DEF SerialInv
<1> QED
  BY <1>1, <1>2, <1>3 DEF SerialNext

(* While a zero-copy read handle is held, no claim_slot, commit or write   *)
(* through a handle reaches its slot: it stays pinned under its number and *)
(* shows the payload it showed when it was taken.                          *)
THEOREM SerialPinnedStable ==
    ASSUME OneWriteHandle
    PROVE  SerialSpec => []PinnedStable
<1>1. SerialInv /\ [SerialNext]_vars => SerialInv'
  BY SerialStep
<1>2. SerialInv => PinnedStable
  BY DEF SerialInv
<1> QED
  BY <1>1, <1>2, SerialInit, PTL DEF SerialSpec

(* A slot that is negative and held by nobody any more is left alone by    *)
(* one step.                                                               *)
LEMMA RetiredStep ==
    ASSUME OneWriteHandle, SerialInv, [SerialNext]_vars,
           NEW i \in Slots, seq[i] < 0,
           \A r \in Readers : \A h \in rd[r].held : h.index # i
    PROVE  seq'[i] = seq[i] /\ payload'[i] = payload[i]
<1>1. CASE WriterNext /\ SerialWriter /\ UNCHANGED rd
  BY <1>1, SerialWriterStep DEF SparesHeld
<1>2. ASSUME NEW r \in Readers, ReaderNext(r)
      PROVE  seq'[i] = seq[i] /\ payload'[i] = payload[i]
  <2>1. /\ payload' = payload
        /\ \/ seq' = seq /\ rd'[r].held \subseteq rd[r].held
           \/ Holds(r)
           \/ GivesBack(r)
    BY <1>2, ReaderEffect DEF SerialInv
  <2>2. seq \in [Slots -> Int] /\ rd[r].idx \in Slots
    BY SerialTypes DEF SerialInv, TypeOK, SegTypeOK
  <2>3. CASE Holds(r)
    <3>1. rd[r].seq \in Nat
      BY SerialTypes DEF SerialInv
    <3>2. i # rd[r].idx
      BY <2>2, <2>3, <3>1 DEF Holds
    <3> QED
      BY <2>1, <2>2, <2>3, <3>2 DEF Holds
  <2>4. CASE GivesBack(r)
    BY <2>1, <2>2, <2>4 DEF GivesBack
  <2> QED
    BY <2>1, <2>3, <2>4
<1>3. CASE UNCHANGED vars
  BY <1>3 DEF vars, segVars
<1> QED
  BY <1>1, <1>2, <1>3 DEF SerialNext

(* A slot whose read handle is lost stays as it is for good: recover_state *)
(* and claim_slot leave it negative, and nobody else can release it.       *)
THEOREM SerialRetiredForGood ==
    ASSUME OneWriteHandle
    PROVE  SerialSpec => RetiredForGood
<1>1. SerialInv /\ [SerialNext]_vars => SerialInv'
  BY SerialStep
<1>2. SerialInv /\ [SerialNext]_vars =>
        [\A i \in Slots :
            /\ seq[i] < 0
            /\ \A r \in Readers : \A h \in rd[r].held : h.index # i
            => seq'[i] = seq[i] /\ payload'[i] = payload[i]]_vars
  BY RetiredStep
<1> QED
  BY <1>1, <1>2, SerialInit, PTL DEF SerialSpec, RetiredForGood

(* claim_slot reports Busy only when every slot of the ring is held: its   *)
(* rounds cover the ring from the cursor on, once.                         *)
THEOREM SerialBusyMeansAllHeld ==
    ASSUME OneWriteHandle
    PROVE  SerialSpec => BusyMeansAllHeld
<1>1. SerialInv /\ [SerialNext]_vars => SerialInv'
  BY SerialStep
<1>2. ASSUME SerialInv, ProbeBusy PROVE \A i \in Slots : seq[i] < 0
  <2>1. /\ wpc = "probe" /\ seq[wIndex] < 0 /\ probed + 1 = EntryCount
    BY <1>2 DEF ProbeBusy, Held, LastProbe
  <2>2. /\ Rounds(wIndex) = probed
        /\ \A i \in Slots : Rounds(i) < probed => seq[i] < 0
    BY <1>2, <2>1 DEF SerialInv, ClaimSound
  <2>3. wIndex \in Slots /\ currentIndex \in Slots
    BY <1>2, SerialTypes DEF SerialInv
  <2>4. \A j \in Slots : Rounds(j) < Rounds(wIndex) \/ j = wIndex
    BY <2>1, <2>2, <2>3, LastRound
  <2> QED
    BY <2>1, <2>2, <2>4
<1>3. SerialInv /\ [SerialNext]_vars =>
        [ProbeBusy => \A i \in Slots : seq[i] < 0]_vars
  BY <1>2
<1> QED
  BY <1>1, <1>3, SerialInit, PTL DEF SerialSpec, BusyMeansAllHeld
=============================================================================
