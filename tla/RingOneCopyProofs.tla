-------------------------- MODULE RingOneCopyProofs --------------------------
(***************************************************************************)
(* One-copy use of the ring: more than one slot, no zero-copy reader, one  *)
(* write handle at a time.  The writer may crash at any step, any number   *)
(* of times, and so may the readers.  Then no read is torn, no sequence    *)
(* number is reused, the watermark is a promise the ring can fulfil, and   *)
(* locate returns the oldest entry it could.                               *)
(***************************************************************************)
EXTENDS RingProofs

OneCopyUse == EntryCount > 1 /\ ZcReaders = {} /\ OverlapHandles = FALSE

(* A slot with a number holds the entry published under that number. *)
SlotsSound ==
    \A i \in Slots :
        /\ 0 <= seq[i] /\ seq[i] <= Len(published)
        /\ seq[i] > 0 => payload[i] = published[seq[i]]

(* The newest entry is in exactly one slot, even while the writer is down. *)
NewestKept ==
    Len(published) > 0 =>
        \E i \in Slots : \A j \in Slots : seq[j] = Len(published) <=> j = i

(* The writer's counter is exact and its cursor is not at the newest entry,*)
(* so that claiming a slot never removes it; the slot it is filling, or    *)
(* has handed out, is marked in-progress.                                  *)
WriterSound ==
    /\ highWatermark <= Len(published)
    /\ wpc # "down" =>
           /\ lastEntrySeq = Len(published)
           /\ seq[currentIndex] = Len(published) => Len(published) = 0
    /\ wpc \in {"probe", "zero"} => wIndex = currentIndex
    /\ wpc = "copy" => seq[wIndex] = 0
    /\ wpc # "idle" => handles = {}
    /\ \A h \in handles : seq[h.index] = 0
    /\ \A h, k \in handles : h = k

(* The locals of a call are those of read_into; what it has located so far *)
(* is newer than the watermark it reads from.                              *)
CallSound(rec) ==
    /\ rec.call = "read" /\ rec.pc # "cas" /\ rec.held = {}
    /\ rec.seq <= Len(published) /\ rec.since <= Len(published)
    /\ rec.pc # "idle" => rec.got = 0 /\ rec.mark \in {rec.lastSeq} \cup FromSeqs
    /\ rec.pc \in {"idle", "fast"} => rec.seq = 0
    /\ rec.pc # "scan" => rec.scan = 0
    /\ rec.seq # 0 => rec.mark < rec.seq
    /\ rec.pc = "copy" => rec.seq # 0
    /\ rec.pc # "copy" => rec.copied = {}

(* As long as the slot a reader copies from has not changed its number,    *)
(* the words copied so far are those of the entry.                         *)
CopySound(rec) ==
    /\ rec.pc = "copy" /\ seq[rec.idx] = rec.seq =>
           \A w \in rec.copied : rec.dst[w] = published[rec.seq][w]
    /\ rec.got > 0 => /\ rec.got <= Len(published)
                      /\ rec.dst = published[rec.got]

(* No entry that was in the ring when locate started and is newer than the *)
(* watermark beats the one found, among the slots it has looked at.        *)
LocateSound(rec) ==
    \A j \in Slots :
        /\ rec.pc = "copy" \/ (rec.pc = "scan" /\ j < rec.scan)
        /\ rec.mark < seq[j] /\ seq[j] <= rec.since
        => rec.seq # 0 /\ rec.seq <= seq[j]

ReaderSound(rec) == CallSound(rec) /\ CopySound(rec) /\ LocateSound(rec)

ReadersSound == \A r \in Readers : ReaderSound(rd[r])

OneCopyInv ==
    TypeOK /\ SlotsSound /\ NewestKept /\ WriterSound /\ ReadersSound

-----------------------------------------------------------------------------

(* In a ring of more than one slot the next slot is another one. *)
LEMMA SlotAfterOther ==
    ASSUME OneCopyUse, NEW i \in Slots
    PROVE  SlotAfter(i) \in Slots /\ SlotAfter(i) # i
BY SlotFacts DEF OneCopyUse

(* A step of the writer leaves the readers sound when it only empties      *)
(* slots or gives them a new number.                                       *)
LEMMA WriterKeepsReaders ==
    ASSUME TypeOK, ReadersSound, UNCHANGED rd,
           Len(published') \in Nat, Len(published) <= Len(published'),
           \A k \in 1 .. Len(published) : published'[k] = published[k],
           \A i \in Slots : \/ seq'[i] = seq[i]
                            \/ seq'[i] = 0
                            \/ seq'[i] = Len(published) + 1
    PROVE  ReadersSound'
<1> SUFFICES ASSUME NEW r \in Readers PROVE ReaderSound(rd[r])'
  BY DEF ReadersSound
<1> DEFINE rec == rd[r]
<1>0. /\ rec \in Reader /\ rec' = rec /\ Len(published) \in Nat
      /\ \A i \in Slots : seq[i] \in Int
  BY DEF TypeOK, SegTypeOK, ReaderTypeOK
<1>1. /\ rec.seq \in Nat /\ rec.since \in Nat /\ rec.mark \in Nat
      /\ rec.got \in Nat /\ rec.idx \in Slots
  BY <1>0 DEF Reader
<1>2. CallSound(rec) /\ CopySound(rec) /\ LocateSound(rec)
  BY DEF ReadersSound, ReaderSound
<1> HIDE DEF rec
<1>3. CallSound(rec)'
  BY <1>0, <1>1, <1>2 DEF CallSound
<1>4. CopySound(rec)'
  <2>1. rec.pc = "copy" => rec.seq \in 1 .. Len(published)
    BY <1>1, <1>2 DEF CallSound
  <2>2. rec.got > 0 => rec.got \in 1 .. Len(published)
    BY <1>1, <1>2 DEF CopySound
  <2>3. rec.pc = "copy" /\ seq'[rec.idx] = rec.seq => seq[rec.idx] = rec.seq
    BY <1>0, <1>1, <2>1
  <2> QED
    BY <1>0, <1>1, <1>2, <2>1, <2>2, <2>3 DEF CopySound
<1>5. LocateSound(rec)'
  <2>1. rec.since <= Len(published)
    BY <1>2 DEF CallSound
  <2>2. \A j \in Slots : rec.mark < seq'[j] /\ seq'[j] <= rec.since
                         => seq'[j] = seq[j]
    BY <1>0, <1>1, <2>1
  <2> QED
    BY <1>0, <1>2, <2>2 DEF LocateSound
<1> QED
  BY <1>3, <1>4, <1>5 DEF ReaderSound, rec

(* Steps of the writer that touch neither control words nor payloads.      *)
LEMMA OneCopyQuiet ==
    ASSUME OneCopyInv, WriterSound', UNCHANGED <<seq, payload, published, rd>>
    PROVE  SlotsSound' /\ NewestKept' /\ WriterSound' /\ ReadersSound'
<1>1. SlotsSound' /\ NewestKept'
  BY DEF OneCopyInv, SlotsSound, NewestKept
<1>2. Len(published) \in Nat
  BY DEF OneCopyInv, TypeOK, SegTypeOK
<1>3. ReadersSound'
  BY <1>2, WriterKeepsReaders DEF OneCopyInv
<1> QED
  BY <1>1, <1>3

(* Writing into a slot that is marked in-progress. *)
LEMMA OneCopyFill ==
    ASSUME OneCopyInv, NEW i \in Slots, NEW p, seq[i] = 0,
           payload' = [payload EXCEPT ![i] = p],
           WriterSound', UNCHANGED <<seq, published, rd>>
    PROVE  SlotsSound' /\ NewestKept' /\ WriterSound' /\ ReadersSound'
<1>1. NewestKept'
  BY DEF OneCopyInv, NewestKept
<1>2. \A j \in Slots : seq[j] > 0 => payload'[j] = payload[j]
  BY DEF OneCopyInv, TypeOK, SegTypeOK
<1>3. SlotsSound'
  BY <1>2 DEF OneCopyInv, SlotsSound
<1>4. Len(published) \in Nat
  BY DEF OneCopyInv, TypeOK, SegTypeOK
<1>5. ReadersSound'
  BY <1>4, WriterKeepsReaders DEF OneCopyInv
<1> QED
  BY <1>1, <1>3, <1>5

(* Appending an entry keeps the others in place. *)
LEMMA AppendFacts ==
    ASSUME NEW S, NEW s \in Seq(S), NEW e \in S
    PROVE  /\ Len(s) \in Nat
           /\ Len(Append(s, e)) = Len(s) + 1
           /\ \A k \in 1 .. Len(s) : Append(s, e)[k] = s[k]
           /\ Append(s, e)[Len(s) + 1] = e
OBVIOUS

(* publish, on a slot that is marked in-progress. *)
LEMMA OneCopyStore ==
    ASSUME OneCopyUse, OneCopyInv, NEW i \in Slots, seq[i] = 0,
           wpc # "down", StoreSeq(i), handles' = {},
           UNCHANGED <<payload, highWatermark, rd>>
    PROVE  SlotsSound' /\ NewestKept' /\ WriterSound' /\ ReadersSound'
<1> DEFINE n == Len(published)
<1>0. /\ published \in Seq(Payload) /\ payload[i] \in Payload
      /\ \A j \in Slots : seq[j] \in Int
      /\ highWatermark \in Nat
      /\ lastEntrySeq = n /\ seq \in [Slots -> Int]
  BY DEF OneCopyInv, TypeOK, SegTypeOK, WriterSound
<1>1. /\ published' = Append(published, payload[i])
      /\ seq' = [seq EXCEPT ![i] = n + 1]
      /\ lastEntrySeq' = n + 1 /\ currentIndex' = SlotAfter(i)
      /\ wpc' = "index"
  BY <1>0 DEF StoreSeq
<1>2. /\ n \in Nat /\ Len(published') = n + 1
      /\ \A k \in 1 .. n : published'[k] = published[k]
      /\ published'[n + 1] = payload[i]
  BY <1>0, <1>1, AppendFacts
<1>3. \A j \in Slots : seq'[j] = IF j = i THEN n + 1 ELSE seq[j]
  BY <1>0, <1>1
<1>4. \A j \in Slots : 0 <= seq[j] /\ seq[j] <= n
  BY DEF OneCopyInv, SlotsSound
<1> HIDE DEF n
<1>5. SlotsSound'
  <2> SUFFICES ASSUME NEW j \in Slots
               PROVE  /\ 0 <= seq'[j] /\ seq'[j] <= n + 1
                      /\ seq'[j] > 0 => payload[j] = published'[seq'[j]]
    BY <1>2 DEF SlotsSound
  <2>1. CASE j = i
    BY <1>0, <1>2, <1>3, <2>1
  <2>2. CASE j # i
    <3>1. seq[j] > 0 => payload[j] = published[seq[j]]
      BY DEF OneCopyInv, SlotsSound
    <3> QED
      BY <1>0, <1>2, <1>3, <1>4, <2>2, <3>1
  <2> QED
    BY <2>1, <2>2
<1>6. NewestKept'
  <2>1. \A j \in Slots : seq'[j] = n + 1 <=> j = i
    BY <1>0, <1>2, <1>3, <1>4
  <2> QED
    BY <1>2, <2>1 DEF NewestKept
<1>7. WriterSound'
  <2>1. SlotAfter(i) \in Slots /\ SlotAfter(i) # i
    BY SlotAfterOther
  <2>2. seq'[currentIndex'] # n + 1
    BY <1>0, <1>1, <1>2, <1>3, <1>4, <2>1
  <2>3. highWatermark' <= n + 1
    BY <1>0, <1>2 DEF OneCopyInv, WriterSound, n
  <2> QED
    BY <1>1, <1>2, <2>2, <2>3 DEF WriterSound
<1>8. ReadersSound'
  <2>1. TypeOK /\ ReadersSound
    BY DEF OneCopyInv
  <2> QED
    BY <1>0, <1>2, <1>3, <2>1, WriterKeepsReaders DEF n
<1> QED
  BY <1>5, <1>6, <1>7, <1>8

(* recover_state finds the newest number and a slot that does not hold it, *)
(* whatever index and however old a watermark the header gave it.          *)
LEMMA OneCopyAttach ==
    ASSUME OneCopyUse, OneCopyInv, NEW index \in Slots, NEW mark \in Nat,
           mark <= Len(published), AttachFrom(index, mark)
    PROVE  WriterSound'
<1> DEFINE n == Len(published)
<1>0. /\ n \in Nat /\ highWatermark \in Nat /\ highWatermark <= n
      /\ seq \in [Slots -> Int]
  BY DEF OneCopyInv, TypeOK, SegTypeOK, WriterSound
<1>1. \A j \in Slots : seq[j] \in Int /\ 0 <= seq[j] /\ seq[j] <= n
  BY <1>0 DEF OneCopyInv, SlotsSound
<1>2. \A j \in Slots : Abs(seq[j]) = seq[j]
  BY <1>1 DEF Abs
<1>3. PICK newest \in RingSeqs(mark) :
         /\ \A s \in RingSeqs(mark) : s <= newest
         /\ lastEntrySeq' = newest
         /\ currentIndex' = RecoveredIndex(index, newest)
  BY DEF AttachFrom
<1>4. newest \in Nat /\ newest <= n
  <2>1. CASE newest = mark
    BY <1>0, <2>1
  <2>2. CASE newest # mark
    <3>1. PICK j \in Slots : newest = seq[j]
      BY <1>2, <1>3, <2>2 DEF RingSeqs
    <3> QED
      BY <1>1, <3>1
  <2> QED
    BY <2>1, <2>2
<1>5. newest = n
  <2>1. CASE n = 0
    BY <1>0, <1>4, <2>1
  <2>2. CASE n > 0
    <3>1. PICK i \in Slots : seq[i] = n
      BY <2>2 DEF OneCopyInv, NewestKept
    <3>2. seq[i] \in RingSeqs(mark)
      BY <1>2 DEF RingSeqs
    <3> QED
      BY <1>0, <1>3, <1>4, <3>1, <3>2
  <2> QED
    BY <1>0, <2>1, <2>2
<1>6. currentIndex' \in Slots /\ (seq[currentIndex'] = n => n = 0)
  <2> HIDE DEF n
  <2>1. CASE seq[index] # 0 /\ seq[index] = n
    <3>1. currentIndex' = SlotAfter(index)
      BY <1>0, <1>2, <1>3, <1>5, <2>1 DEF RecoveredIndex
    <3>2. SlotAfter(index) \in Slots /\ SlotAfter(index) # index
      BY <1>0, SlotAfterOther
    <3>3. n > 0
      BY <1>0, <2>1
    <3>4. PICK i \in Slots : \A j \in Slots : seq[j] = n <=> j = i
      BY <3>3 DEF OneCopyInv, NewestKept, n
    <3> QED
      BY <1>0, <2>1, <3>1, <3>2, <3>4
  <2>2. CASE ~(seq[index] # 0 /\ seq[index] = n)
    <3>1. currentIndex' = index
      BY <1>0, <1>2, <1>3, <1>5, <2>2 DEF RecoveredIndex
    <3> QED
      BY <1>0, <2>2, <3>1
  <2> QED
    BY <2>1, <2>2
<1>7. /\ UNCHANGED <<seq, published, highWatermark, handles>>
      /\ handles = {} /\ wpc' = "idle"
  BY DEF AttachFrom, OneCopyInv, WriterSound, segVars
<1> QED
  BY <1>0, <1>3, <1>5, <1>6, <1>7 DEF WriterSound

(* claim_slot empties the slot at the cursor, which is not the newest.     *)
LEMMA OneCopyClaim ==
    ASSUME OneCopyUse, OneCopyInv, Claim, UNCHANGED rd
    PROVE  SlotsSound' /\ NewestKept' /\ WriterSound' /\ ReadersSound'
<1> DEFINE n == Len(published)
<1>0. /\ n \in Nat /\ seq \in [Slots -> Int] /\ wIndex \in Slots
      /\ \A j \in Slots : seq[j] \in Int
  BY DEF OneCopyInv, TypeOK, SegTypeOK, WriterTypeOK
<1>1. /\ wIndex = currentIndex /\ handles = {} /\ lastEntrySeq = n
      /\ seq[wIndex] = n => n = 0
      /\ highWatermark <= n
  BY DEF OneCopyInv, WriterSound, Claim
<1>2. /\ seq' = [seq EXCEPT ![wIndex] = 0]
      /\ UNCHANGED <<payload, published, highWatermark, currentIndex,
                     lastEntrySeq>>
      /\ \/ wpc' = "copy" /\ wIndex' = wIndex /\ handles' = handles
         \/ /\ wpc' = "idle"
            /\ handles' = handles \cup
                            {[index |-> wIndex, stamp |-> claims + 1]}
  BY DEF Claim, MarkInProgress, cursor
<1>3. \A j \in Slots : seq'[j] = IF j = wIndex THEN 0 ELSE seq[j]
  BY <1>0, <1>2
<1>4. SlotsSound'
  <2>1. \A j \in Slots : /\ 0 <= seq[j] /\ seq[j] <= n
                         /\ seq[j] > 0 => payload[j] = published[seq[j]]
    BY DEF OneCopyInv, SlotsSound
  <2> QED
    BY <1>0, <1>2, <1>3, <2>1 DEF SlotsSound
<1>5. NewestKept'
  <2> SUFFICES ASSUME n > 0
               PROVE  \E i \in Slots : \A j \in Slots : seq'[j] = n <=> j = i
    BY <1>2 DEF NewestKept
  <2>1. PICK i \in Slots : \A j \in Slots : seq[j] = n <=> j = i
    BY DEF OneCopyInv, NewestKept
  <2>2. \A j \in Slots : seq'[j] = n <=> j = i
    BY <1>0, <1>1, <1>3, <2>1
  <2> QED
    BY <2>2
<1>6. WriterSound'
  <2>1. \A h \in handles' : h.index = wIndex
    BY <1>1, <1>2
  <2>2. \A h, k \in handles' : h = k
    BY <1>1, <1>2
  <2>3. wpc' = "copy" => wIndex' = wIndex /\ handles' = {}
    BY <1>1, <1>2
  <2>4. wpc' \in {"copy", "idle"}
    BY <1>2
  <2>5. seq'[wIndex] = 0
    BY <1>0, <1>3
  <2> QED
    BY <1>1, <1>2, <2>1, <2>2, <2>3, <2>4, <2>5 DEF WriterSound
<1>7. ReadersSound'
  <2>1. TypeOK /\ ReadersSound
    BY DEF OneCopyInv
  <2> QED
    BY <1>0, <1>2, <1>3, <2>1, WriterKeepsReaders
<1> QED
  BY <1>4, <1>5, <1>6, <1>7

(* Every step of the writer, crash and recovery too, keeps OneCopyInv. *)
LEMMA OneCopyWriter ==
    ASSUME OneCopyUse, OneCopyInv, WriterNext, UNCHANGED rd
    PROVE  SlotsSound' /\ NewestKept' /\ WriterSound' /\ ReadersSound'
<1> USE DEF segVars, callVars, cursor, writerVars
<1>0. WriterSound /\ TypeOK /\ \A i \in Slots : seq[i] \in Int /\ 0 <= seq[i]
  BY DEF OneCopyInv, TypeOK, SegTypeOK, SlotsSound
<1>1. \A i \in Slots : ~Held(i)
  BY <1>0 DEF Held
<1>2. CASE Attach
  <2>1. UNCHANGED <<seq, payload, published>>
    BY <1>2 DEF Attach, AttachFrom
  <2>2. /\ writeIndex \in Slots /\ highWatermark \in Nat
        /\ highWatermark <= Len(published)
    BY <1>0 DEF TypeOK, SegTypeOK, WriterSound
  <2>3. WriterSound'
    BY <1>2, <2>2, OneCopyAttach DEF Attach
  <2> QED
    BY <2>1, <2>3, OneCopyQuiet
<1>3. CASE Write \/ TryAcquire
  <2>1. PICK call : Call(call)
    BY <1>3 DEF Write, TryAcquire
  <2>2. WriterSound'
    BY <1>0, <2>1 DEF Call, WriterSound, OneCopyUse
  <2>3. UNCHANGED <<seq, payload, published>>
    BY <2>1 DEF Call
  <2> QED
    BY <2>2, <2>3, OneCopyQuiet
<1>4. CASE ProbeHeld \/ ProbeBusy
  BY <1>0, <1>1, <1>4 DEF ProbeHeld, ProbeBusy, TypeOK, WriterTypeOK
<1>5. CASE ProbeFree
  <2>1. WriterSound' /\ UNCHANGED <<seq, payload, published>>
    BY <1>0, <1>5 DEF ProbeFree, WriterSound
  <2> QED
    BY <2>1, OneCopyQuiet
<1>6. CASE Claim
  BY <1>6, OneCopyClaim
<1>7. ASSUME NEW w \in Words, CopyIn(w)
      PROVE  SlotsSound' /\ NewestKept' /\ WriterSound' /\ ReadersSound'
  <2>1. WriterSound' /\ UNCHANGED <<seq, published>>
    BY <1>0, <1>7 DEF CopyIn, WriterSound
  <2>2. wIndex \in Slots /\ seq[wIndex] = 0
    BY <1>0, <1>7 DEF CopyIn, WriterSound, TypeOK, WriterTypeOK
  <2>3. \E p : payload' = [payload EXCEPT ![wIndex] = p]
    BY <1>7 DEF CopyIn
  <2> QED
    BY <2>1, <2>2, <2>3, OneCopyFill
<1>8. ASSUME NEW h \in handles, NEW w \in Words, Fill(h, w)
      PROVE  SlotsSound' /\ NewestKept' /\ WriterSound' /\ ReadersSound'
  <2>1. WriterSound' /\ UNCHANGED <<seq, published>>
    BY <1>0, <1>8 DEF Fill, WriterSound
  <2>2. h.index \in Slots /\ seq[h.index] = 0
    BY <1>0 DEF WriterSound, TypeOK, WriterTypeOK, Handle
  <2>3. \E p : payload' = [payload EXCEPT ![h.index] = p]
    BY <1>8 DEF Fill
  <2> QED
    BY <2>1, <2>2, <2>3, OneCopyFill
<1>9. CASE PublishWrite
  <2>1. /\ wIndex \in Slots /\ seq[wIndex] = 0 /\ wpc # "down"
        /\ StoreSeq(wIndex) /\ handles' = {}
        /\ UNCHANGED <<payload, highWatermark>>
    BY <1>0, <1>9 DEF PublishWrite, WriterSound, TypeOK, WriterTypeOK
  <2> QED
    BY <2>1, OneCopyStore
<1>10. ASSUME NEW h \in handles, Commit(h)
       PROVE  SlotsSound' /\ NewestKept' /\ WriterSound' /\ ReadersSound'
  <2>1. h.index \in Slots /\ seq[h.index] = 0
    BY <1>0 DEF WriterSound, TypeOK, WriterTypeOK, Handle
  <2>2. handles' = {}
    BY <1>0, <1>10 DEF Commit, WriterSound
  <2>3. wpc # "down" /\ StoreSeq(h.index) /\ UNCHANGED <<payload, highWatermark>>
    BY <1>10 DEF Commit
  <2> QED
    BY <2>1, <2>2, <2>3, OneCopyStore
<1>11. ASSUME NEW h \in handles, DropHandle(h)
       PROVE  SlotsSound' /\ NewestKept' /\ WriterSound' /\ ReadersSound'
  <2>1. WriterSound' /\ UNCHANGED <<seq, payload, published>>
    BY <1>0, <1>11 DEF DropHandle, WriterSound
  <2> QED
    BY <2>1, OneCopyQuiet
<1>12. CASE PersistIndex
  <2>1. WriterSound' /\ UNCHANGED <<seq, payload, published>>
    BY <1>0, <1>12 DEF PersistIndex, WriterSound
  <2> QED
    BY <2>1, OneCopyQuiet
<1>13. CASE PersistMark
  <2>1. WriterSound' /\ UNCHANGED <<seq, payload, published>>
    BY <1>0, <1>13 DEF PersistMark, Advertised, WriterSound, TypeOK, SegTypeOK
  <2> QED
    BY <2>1, OneCopyQuiet
<1>14. CASE WriterGone
  <2>1. WriterSound' /\ UNCHANGED <<seq, payload, published>>
    BY <1>0, <1>14 DEF WriterGone, WriterSound
  <2> QED
    BY <2>1, OneCopyQuiet
<1> QED
  BY <1>2, <1>3, <1>4, <1>5, <1>6, <1>7, <1>8, <1>9, <1>10, <1>11, <1>12,
     <1>13, <1>14 DEF WriterNext

-----------------------------------------------------------------------------

(* A reader's step that leaves the segment alone, given that the reader's  *)
(* new record is sound.                                                    *)
LEMMA OneCopyRecord ==
    ASSUME OneCopyInv, NEW r \in Readers, NEW new, ReaderSound(new),
           rd' = [rd EXCEPT ![r] = new], UNCHANGED <<segVars, writerVars>>
    PROVE  SlotsSound' /\ NewestKept' /\ WriterSound' /\ ReadersSound'
<1> USE DEF segVars, writerVars, callVars, cursor
<1>1. SlotsSound' /\ NewestKept' /\ WriterSound'
  BY DEF OneCopyInv, SlotsSound, NewestKept, WriterSound
<1>2. \A q \in Readers : rd'[q] = new \/ rd'[q] = rd[q]
  BY DEF OneCopyInv, TypeOK, ReaderTypeOK
<1>3. \A q \in Readers : ReaderSound(rd'[q])
  BY <1>2 DEF OneCopyInv, ReadersSound
<1>4. ASSUME NEW q \in Readers PROVE ReaderSound(rd[q])'
  <2>1. ReaderSound(rd'[q])
    BY <1>3
  <2> QED
    BY <2>1 DEF ReaderSound, CallSound, CopySound, LocateSound
<1> QED
  BY <1>1, <1>4 DEF ReadersSound

(* A record between calls is sound when it has no result, or the result is *)
(* an entry.                                                               *)
LEMMA IdleSound ==
    ASSUME NEW new \in Reader, Len(published) \in Nat,
           new.pc = "idle", new.call = "read", new.held = {},
           new.seq = 0, new.since = 0, new.scan = 0, new.copied = {},
           new.got > 0 => /\ new.got <= Len(published)
                          /\ new.dst = published[new.got]
    PROVE  ReaderSound(new)
<1>1. CallSound(new)
  BY DEF CallSound
<1>2. CopySound(new)
  BY DEF CopySound
<1>3. LocateSound(new)
  BY DEF LocateSound
<1> QED
  BY <1>1, <1>2, <1>3 DEF ReaderSound

(* One round of locate's scan covers one more slot. *)
LEMMA ScanRound ==
    ASSUME TypeOK, SlotsSound, NEW rec \in Reader, ReaderSound(rec),
           rec.pc = "scan"
    PROVE  LET new == Scanned(rec) IN
           /\ new \in Reader
           /\ \A f \in {"pc", "call", "mark", "scan", "since", "copied", "dst",
                        "got", "lastSeq", "held", "tries", "lastIdx"} :
                  new[f] = rec[f]
           /\ new.seq <= Len(published)
           /\ new.seq # 0 => rec.mark < new.seq
           /\ \A j \in Slots :
                  /\ j <= rec.scan
                  /\ rec.mark < seq[j] /\ seq[j] <= rec.since
                  => new.seq # 0 /\ new.seq <= seq[j]
<1>0. /\ \A i \in Slots : seq[i] \in Int /\ 0 <= seq[i]
      /\ \A i \in Slots : seq[i] <= Len(published)
      /\ Len(published) \in Nat /\ rec.scan \in Slots /\ rec.mark \in Nat
      /\ rec.seq \in Nat /\ rec.since \in Nat
  BY DEF TypeOK, SegTypeOK, SlotsSound, Reader
<1>1. /\ rec.seq <= Len(published) /\ (rec.seq # 0 => rec.mark < rec.seq)
      /\ \A j \in Slots : /\ j < rec.scan
                          /\ rec.mark < seq[j] /\ seq[j] <= rec.since
                          => rec.seq # 0 /\ rec.seq <= seq[j]
  BY DEF ReaderSound, CallSound, LocateSound
<1>2. \A j \in Slots : j <= rec.scan => j < rec.scan \/ j = rec.scan
  BY <1>0 DEF Slots
<1>3. CASE Improves(rec, seq[rec.scan])
  <2> DEFINE s == seq[rec.scan]
             new == [rec EXCEPT !.idx = rec.scan, !.seq = s]
  <2>1. s > rec.mark /\ (rec.seq = 0 \/ s < rec.seq)
    BY <1>3 DEF Improves
  <2>2. s \in Nat /\ s <= Len(published)
    BY <1>0
  <2>3. Scanned(rec) = new
    BY <1>3 DEF Scanned
  <2>4. new.seq = s /\ new \in Reader
    BY <1>0, <2>2 DEF Reader
  <2>5. \A f \in {"pc", "call", "mark", "scan", "since", "copied", "dst",
                  "got", "lastSeq", "held", "tries", "lastIdx"} :
            new[f] = rec[f]
    BY DEF Reader
  <2> HIDE DEF new
  <2>6. ASSUME NEW j \in Slots, j <= rec.scan, rec.mark < seq[j],
               seq[j] <= rec.since
        PROVE  s # 0 /\ s <= seq[j]
    <3>1. CASE j = rec.scan
      BY <1>0, <2>1, <2>2, <3>1
    <3>2. CASE j < rec.scan
      BY <1>0, <1>1, <2>1, <2>2, <2>6, <3>2
    <3> QED
      BY <1>2, <2>6, <3>1, <3>2
  <2> QED
    BY <1>0, <2>1, <2>2, <2>3, <2>4, <2>5, <2>6
<1>4. CASE ~Improves(rec, seq[rec.scan])
  <2>1. Scanned(rec) = rec
    BY <1>4 DEF Scanned
  <2>2. ASSUME NEW j \in Slots, j <= rec.scan, rec.mark < seq[j],
               seq[j] <= rec.since
        PROVE  rec.seq # 0 /\ rec.seq <= seq[j]
    <3>1. CASE j = rec.scan
      BY <1>0, <1>4, <2>2, <3>1 DEF Improves
    <3>2. CASE j < rec.scan
      BY <1>1, <2>2, <3>2
    <3> QED
      BY <1>2, <2>2, <3>1, <3>2
  <2> QED
    BY <1>1, <2>1, <2>2
<1> QED
  BY <1>3, <1>4

(* What is left of a call that returns. *)
LEMMA ReturnedFields ==
    ASSUME NEW rec \in Reader
    PROVE  /\ Returned(rec).pc = "idle" /\ Returned(rec).call = "read"
           /\ Returned(rec).held = rec.held /\ Returned(rec).seq = 0
           /\ Returned(rec).since = 0 /\ Returned(rec).scan = 0
           /\ Returned(rec).copied = {} /\ Returned(rec).got = rec.got
           /\ Returned(rec).dst = rec.dst /\ Returned(rec) \in Reader
<1>1. Returned(rec) \in Reader
  BY ReturnedType
<1> QED
  BY <1>1 DEF Returned, Reader

(* Every step of a one-copy reader keeps OneCopyInv. *)
LEMMA OneCopyReader ==
    ASSUME OneCopyUse, OneCopyInv, TypeOK', NEW r \in Readers, ReaderNext(r),
           UNCHANGED writerVars
    PROVE  SlotsSound' /\ NewestKept' /\ WriterSound' /\ ReadersSound'
<1> DEFINE rec == rd[r]
           n == Len(published)
<1>0. /\ rec \in Reader /\ n \in Nat /\ 0 \in Slots
      /\ SlotsSound /\ TypeOK /\ ReaderSound(rec)
      /\ \A i \in Slots : seq[i] \in Int /\ 0 <= seq[i] /\ seq[i] <= n
  BY SlotFacts DEF OneCopyInv, TypeOK, SegTypeOK, ReaderTypeOK, SlotsSound,
     ReadersSound
<1>1. CallSound(rec) /\ CopySound(rec) /\ LocateSound(rec)
  BY <1>0 DEF ReaderSound
<1>2. /\ rec.seq \in Nat /\ rec.since \in Nat /\ rec.mark \in Nat
      /\ rec.got \in Nat /\ rec.idx \in Slots /\ rec.scan \in Slots
      /\ rec.lastIdx \in Slots /\ rec.lastSeq \in Nat
      /\ rec.copied \in SUBSET Words /\ rec.dst \in Payload
  BY <1>0 DEF Reader
<1>3. \A new : rd' = [rd EXCEPT ![r] = new] => new \in Reader
  BY DEF TypeOK, ReaderTypeOK, OneCopyInv
<1>4. \A new : ReaderSound(new) /\ rd' = [rd EXCEPT ![r] = new] /\ UNCHANGED segVars
               => SlotsSound' /\ NewestKept' /\ WriterSound' /\ ReadersSound'
  BY OneCopyRecord
<1>5. /\ Returned(rec).pc = "idle" /\ Returned(rec).call = "read"
      /\ Returned(rec).held = rec.held /\ Returned(rec).seq = 0
      /\ Returned(rec).since = 0 /\ Returned(rec).scan = 0
      /\ Returned(rec).copied = {} /\ Returned(rec).got = rec.got
      /\ Returned(rec).dst = rec.dst /\ Returned(rec) \in Reader
  BY <1>0, ReturnedFields
<1>6. CASE UpToDate(r)
  <2> DEFINE new == [rec EXCEPT !.dst = Blank, !.got = 0]
  <2>1. rd' = [rd EXCEPT ![r] = new] /\ UNCHANGED segVars /\ rec.pc = "idle"
    BY <1>6 DEF UpToDate
  <2>2. /\ new.pc = rec.pc /\ new.call = rec.call /\ new.held = rec.held
        /\ new.seq = rec.seq /\ new.since = rec.since /\ new.scan = rec.scan
        /\ new.copied = rec.copied /\ new.got = 0 /\ new.mark = rec.mark
    BY <1>0 DEF Reader
  <2> HIDE DEF new
  <2>3. ReaderSound(new)
    BY <1>0, <1>1, <2>1, <2>2 DEF ReaderSound, CallSound, CopySound, LocateSound
  <2> QED
    BY <1>4, <2>1, <2>3
<1>7. CASE ReadInto(r)
  <2>1. PICK m \in Watermarks(r) : rd' = [rd EXCEPT ![r] =
                 [rec EXCEPT !.pc = "fast", !.call = "read", !.mark = m,
                             !.dst = Blank, !.got = 0]]
    BY <1>7 DEF ReadInto, Begin
  <2>2. UNCHANGED segVars /\ rec.pc = "idle"
    BY <1>7 DEF ReadInto, Begin
  <2> DEFINE new == [rec EXCEPT !.pc = "fast", !.call = "read", !.mark = m,
                                !.dst = Blank, !.got = 0]
  <2>3. /\ new.pc = "fast" /\ new.call = "read" /\ new.held = rec.held
        /\ new.seq = rec.seq /\ new.since = rec.since /\ new.scan = rec.scan
        /\ new.copied = rec.copied /\ new.got = 0 /\ new.mark = m
        /\ new.lastSeq = rec.lastSeq
    BY <1>0 DEF Reader
  <2>4. m \in {rec.lastSeq} \cup FromSeqs
    BY DEF Watermarks
  <2> HIDE DEF new
  <2>5. ReaderSound(new)
    BY <1>0, <1>1, <2>2, <2>3, <2>4
       DEF ReaderSound, CallSound, CopySound, LocateSound
  <2>6. rd' = [rd EXCEPT ![r] = new]
    BY <2>1 DEF new
  <2> QED
    BY <1>4, <2>2, <2>5, <2>6
<1>8. CASE TryAcquireRead(r) \/ CasOk(r)
  BY <1>1, <1>8 DEF TryAcquireRead, CasOk, OneCopyUse, CallSound
<1>9. CASE FastHit(r)
  <2> DEFINE next == SlotAfter(rec.lastIdx)
             new == [rec EXCEPT !.pc = AfterLocate(rec), !.idx = next,
                                !.seq = seq[next], !.since = Len(published)]
  <2>1. /\ rd' = [rd EXCEPT ![r] = new] /\ UNCHANGED segVars
        /\ rec.pc = "fast" /\ seq[next] = rec.mark + 1
    BY <1>9 DEF FastHit
  <2>2. /\ new.pc = "copy" /\ new.call = rec.call /\ new.held = rec.held
        /\ new.seq = seq[next] /\ new.since = n /\ new.scan = rec.scan
        /\ new.copied = rec.copied /\ new.got = rec.got
        /\ new.mark = rec.mark /\ new.lastSeq = rec.lastSeq
    BY <1>0, <1>1 DEF Reader, AfterLocate, CallSound
  <2>3. next \in Slots
    BY <1>2, SlotFacts
  <2> HIDE DEF new, next
  <2>4. CallSound(new)
    BY <1>0, <1>1, <1>2, <2>1, <2>2, <2>3 DEF CallSound
  <2>5. CopySound(new)
    BY <1>0, <1>1, <2>1, <2>2 DEF CopySound, CallSound
  <2>6. LocateSound(new)
    BY <1>0, <1>2, <2>1, <2>2, <2>3 DEF LocateSound
  <2> QED
    BY <1>4, <2>1, <2>4, <2>5, <2>6 DEF ReaderSound
<1>10. CASE FastMiss(r)
  <2> DEFINE new == [rec EXCEPT !.pc = "scan", !.since = Len(published)]
  <2>1. /\ rd' = [rd EXCEPT ![r] = new] /\ UNCHANGED segVars
        /\ rec.pc = "fast"
    BY <1>10 DEF FastMiss
  <2>2. /\ new.pc = "scan" /\ new.call = rec.call /\ new.held = rec.held
        /\ new.seq = rec.seq /\ new.since = n /\ new.scan = rec.scan
        /\ new.copied = rec.copied /\ new.got = rec.got
        /\ new.mark = rec.mark /\ new.lastSeq = rec.lastSeq
    BY <1>0 DEF Reader
  <2> HIDE DEF new
  <2>4. CallSound(new)
    BY <1>0, <1>1, <1>2, <2>1, <2>2 DEF CallSound
  <2>5. CopySound(new)
    BY <1>0, <1>1, <2>1, <2>2 DEF CopySound, CallSound
  <2>6. LocateSound(new)
    <3>1. \A j \in Slots : ~(j < new.scan)
      BY <1>1, <2>1, <2>2 DEF CallSound, Slots
    <3> QED
      BY <2>2, <3>1 DEF LocateSound
  <2> QED
    BY <1>4, <2>1, <2>4, <2>5, <2>6 DEF ReaderSound
<1>11. CASE ScanSlot(r) \/ ScanFound(r)
  <2> DEFINE sc == Scanned(rec)
  <2>0. rec.pc = "scan" /\ UNCHANGED segVars
    BY <1>11 DEF ScanSlot, ScanFound
  <2>1. /\ sc \in Reader
        /\ \A f \in {"pc", "call", "mark", "scan", "since", "copied", "dst",
                     "got", "lastSeq", "held", "tries", "lastIdx"} :
               sc[f] = rec[f]
        /\ sc.seq <= n
        /\ sc.seq # 0 => rec.mark < sc.seq
        /\ \A j \in Slots :
               /\ j <= rec.scan
               /\ rec.mark < seq[j] /\ seq[j] <= rec.since
               => sc.seq # 0 /\ sc.seq <= seq[j]
    BY <1>0, <2>0, ScanRound
  <2>2. CASE ScanSlot(r)
    <3> DEFINE new == [sc EXCEPT !.scan = rec.scan + 1]
    <3>1. rd' = [rd EXCEPT ![r] = new]
      BY <2>2 DEF ScanSlot
    <3> HIDE DEF sc
    <3>2. /\ new.pc = "scan" /\ new.call = rec.call /\ new.held = rec.held
          /\ new.seq = sc.seq /\ new.since = rec.since
          /\ new.scan = rec.scan + 1
          /\ new.copied = rec.copied /\ new.got = rec.got
          /\ new.mark = rec.mark /\ new.lastSeq = rec.lastSeq
      BY <2>0, <2>1 DEF Reader
    <3> HIDE DEF new
    <3>3. CallSound(new)
      BY <1>0, <1>1, <1>2, <2>0, <2>1, <3>2 DEF CallSound
    <3>4. CopySound(new)
      BY <1>0, <1>1, <2>0, <3>2 DEF CopySound, CallSound
    <3>5. \A j \in Slots : j < rec.scan + 1 => j <= rec.scan
      BY <1>2 DEF Slots
    <3>6. LocateSound(new)
      BY <2>1, <3>2, <3>5 DEF LocateSound
    <3> QED
      BY <1>4, <2>0, <3>1, <3>3, <3>4, <3>6 DEF ReaderSound
  <2>3. CASE ScanFound(r)
    <3> DEFINE new == [sc EXCEPT !.pc = AfterLocate(rec), !.scan = 0]
    <3>1. /\ rd' = [rd EXCEPT ![r] = new] /\ sc.seq # 0
          /\ rec.scan + 1 = EntryCount
      BY <2>3 DEF ScanFound, ScanEnds
    <3> HIDE DEF sc
    <3>2. /\ new.pc = "copy" /\ new.call = rec.call /\ new.held = rec.held
          /\ new.seq = sc.seq /\ new.since = rec.since /\ new.scan = 0
          /\ new.copied = rec.copied /\ new.got = rec.got
          /\ new.mark = rec.mark /\ new.lastSeq = rec.lastSeq
      BY <1>1, <2>1 DEF Reader, AfterLocate, CallSound
    <3> HIDE DEF new
    <3>3. CallSound(new)
      BY <1>0, <1>1, <1>2, <2>0, <2>1, <3>1, <3>2 DEF CallSound
    <3>4. CopySound(new)
      BY <1>0, <1>1, <2>0, <3>2 DEF CopySound, CallSound
    <3>5. \A j \in Slots : j <= rec.scan
      BY <1>2, <3>1, GeometryAssumption DEF Slots
    <3>6. LocateSound(new)
      BY <2>1, <3>2, <3>5 DEF LocateSound
    <3> QED
      BY <1>4, <2>0, <3>1, <3>3, <3>4, <3>6 DEF ReaderSound
  <2> QED
    BY <1>11, <2>2, <2>3
<1>12. CASE ScanEmpty(r) \/ GiveUp(r)
  <2>1. rd' = [rd EXCEPT ![r] = Returned(rec)] /\ UNCHANGED segVars
    BY <1>12 DEF ScanEmpty, GiveUp
  <2>2. rec.got = 0 /\ rec.held = {}
    BY <1>1, <1>12 DEF CallSound, ScanEmpty, GiveUp, Recycled
  <2>3. ReaderSound(Returned(rec))
    BY <1>0, <1>5, <2>2, IdleSound
  <2> QED
    BY <1>4, <2>1, <2>3
<1>13. ASSUME NEW w \in Words, CopyOut(r, w)
       PROVE  SlotsSound' /\ NewestKept' /\ WriterSound' /\ ReadersSound'
  <2> DEFINE dst == [rec.dst EXCEPT ![w] = payload[rec.idx][w]]
             new == [rec EXCEPT !.dst = dst, !.copied = rec.copied \cup {w}]
  <2>1. /\ rd' = [rd EXCEPT ![r] = new] /\ UNCHANGED segVars
        /\ rec.pc = "copy"
    BY <1>13 DEF CopyOut
  <2>2. /\ new.pc = "copy" /\ new.call = rec.call /\ new.held = rec.held
        /\ new.seq = rec.seq /\ new.since = rec.since /\ new.scan = rec.scan
        /\ new.idx = rec.idx /\ new.mark = rec.mark
        /\ new.copied = rec.copied \cup {w} /\ new.got = rec.got
        /\ new.lastSeq = rec.lastSeq /\ new.dst = dst
    BY <1>0, <2>1 DEF Reader
  <2>3. \A v \in rec.copied \cup {w} :
            dst[v] = IF v = w THEN payload[rec.idx][w] ELSE rec.dst[v]
    BY <1>2 DEF Payload
  <2> HIDE DEF new, dst
  <2>4. CallSound(new)
    BY <1>0, <1>1, <1>2, <2>1, <2>2 DEF CallSound
  <2>5. CopySound(new)
    <3>1. rec.seq > 0 /\ rec.got = 0
      BY <1>1, <1>2, <2>1 DEF CallSound
    <3>2. seq[rec.idx] = rec.seq => payload[rec.idx] = published[rec.seq]
      BY <1>0, <1>2, <3>1 DEF SlotsSound
    <3> QED
      BY <1>1, <2>1, <2>2, <2>3, <3>1, <3>2 DEF CopySound
  <2>6. LocateSound(new)
    BY <1>1, <2>1, <2>2 DEF LocateSound
  <2> QED
    BY <1>4, <2>1, <2>4, <2>5, <2>6 DEF ReaderSound
<1>14. CASE RecheckOk(r)
  <2> DEFINE new == [Returned(rec) EXCEPT !.got = rec.seq, !.lastSeq = rec.seq,
                                          !.lastIdx = rec.idx]
  <2>1. /\ rd' = [rd EXCEPT ![r] = new] /\ UNCHANGED segVars
        /\ rec.pc = "copy" /\ rec.copied = Words /\ seq[rec.idx] = rec.seq
    BY <1>14 DEF RecheckOk, StillThere
  <2>2. /\ new.pc = "idle" /\ new.call = "read" /\ new.held = rec.held
        /\ new.seq = 0 /\ new.since = 0 /\ new.scan = 0
        /\ new.copied = {} /\ new.got = rec.seq /\ new.dst = rec.dst
    BY <1>5 DEF Reader
  <2> HIDE DEF new
  <2>3. new \in Reader
    BY <1>3, <2>1
  <2>4. rec.seq \in 1 .. n
    BY <1>0, <1>1, <1>2, <2>1 DEF CallSound
  <2>5. rec.dst = published[rec.seq]
    <3>1. published[rec.seq] \in Payload
      BY <1>0, <2>4 DEF TypeOK, SegTypeOK
    <3>2. \A w \in Words : rec.dst[w] = published[rec.seq][w]
      BY <1>1, <2>1 DEF CopySound
    <3> QED
      BY <1>2, <3>1, <3>2 DEF Payload
  <2>6. ReaderSound(new)
    BY <1>0, <1>1, <2>2, <2>3, <2>4, <2>5, IdleSound DEF CallSound
  <2> QED
    BY <1>4, <2>1, <2>6
<1>15. CASE Retry(r)
  <2> DEFINE new == [rec EXCEPT !.pc = "fast", !.tries = rec.tries + 1,
                                !.idx = 0, !.seq = 0, !.since = 0,
                                !.copied = {}]
  <2>1. /\ rd' = [rd EXCEPT ![r] = new] /\ UNCHANGED segVars
        /\ rec.pc \in {"copy", "cas"}
    BY <1>15 DEF Retry, Recycled
  <2>2. /\ new.pc = "fast" /\ new.call = rec.call /\ new.held = rec.held
        /\ new.seq = 0 /\ new.since = 0 /\ new.scan = rec.scan
        /\ new.copied = {} /\ new.got = rec.got
        /\ new.mark = rec.mark /\ new.lastSeq = rec.lastSeq
    BY <1>0 DEF Reader
  <2> HIDE DEF new
  <2>3. ReaderSound(new)
    BY <1>0, <1>1, <2>1, <2>2 DEF ReaderSound, CallSound, CopySound, LocateSound
  <2> QED
    BY <1>4, <2>1, <2>3
<1>16. ASSUME NEW h \in rec.held, Release(r, h)
       PROVE  SlotsSound' /\ NewestKept' /\ WriterSound' /\ ReadersSound'
  BY <1>1 DEF CallSound
<1>17. ASSUME NEW h \in rec.held, Forget(r, h)
       PROVE  SlotsSound' /\ NewestKept' /\ WriterSound' /\ ReadersSound'
  BY <1>1 DEF CallSound
<1>18. CASE ReaderGone(r)
  <2>1. rd' = [rd EXCEPT ![r] = Fresh] /\ UNCHANGED segVars
    BY <1>18 DEF ReaderGone
  <2>2. ReaderSound(Fresh)
    BY <1>0, FreshType, IdleSound DEF Fresh
  <2> QED
    BY <1>4, <2>1, <2>2
<1> QED
  BY <1>6, <1>7, <1>8, <1>9, <1>10, <1>11, <1>12, <1>13, <1>14, <1>15,
     <1>16, <1>17, <1>18 DEF ReaderNext

(* OneCopyInv holds initially. *)
LEMMA OneCopyInit == Init => OneCopyInv
<1> SUFFICES ASSUME Init PROVE OneCopyInv
  OBVIOUS
<1>1. TypeOK /\ published = <<>> /\ Len(published) = 0 /\ seq = [i \in Slots |-> 0]
  BY TypeInit DEF Init, SegInit
<1>2. SlotsSound /\ NewestKept
  BY <1>1 DEF SlotsSound, NewestKept
<1>3. WriterSound
  BY <1>1 DEF Init, SegInit, WriterInit, WriterSound
<1>4. ReaderSound(Fresh)
  BY <1>1, FreshType, IdleSound DEF Fresh
<1>5. ReadersSound
  BY <1>4 DEF Init, ReaderInit, ReadersSound
<1> QED
  BY <1>1, <1>2, <1>3, <1>5 DEF OneCopyInv

(* OneCopyInv is inductive. *)
LEMMA OneCopyStep ==
    ASSUME OneCopyUse, OneCopyInv, [Next]_vars
    PROVE  OneCopyInv'
<1>1. CASE WriterNext /\ UNCHANGED rd
  <2>1. TypeOK'
    BY <1>1, TypeWriter DEF OneCopyInv
  <2> QED
    BY <1>1, <2>1, OneCopyWriter DEF OneCopyInv
<1>2. ASSUME NEW r \in Readers, ReaderNext(r), UNCHANGED writerVars
      PROVE  OneCopyInv'
  <2>1. TypeOK'
    BY <1>2, TypeReader DEF OneCopyInv
  <2> QED
    BY <1>2, <2>1, OneCopyReader DEF OneCopyInv
<1>3. CASE UNCHANGED vars
  <2>1. WriterSound'
    BY <1>3 DEF vars, segVars, writerVars, callVars, cursor, OneCopyInv,
       WriterSound
  <2>2. TypeOK'
    BY <1>3 DEF vars, segVars, writerVars, callVars, cursor, OneCopyInv,
       TypeOK, SegTypeOK, WriterTypeOK, ReaderTypeOK
  <2>3. UNCHANGED <<seq, payload, published, rd>>
    BY <1>3 DEF vars, segVars
  <2> QED
    BY <2>1, <2>2, <2>3, OneCopyQuiet DEF OneCopyInv
<1> QED
  BY <1>1, <1>2, <1>3, NextSplit

(* In one-copy use the inductive invariant holds in every reachable state. *)
THEOREM OneCopyInvariant ==
    ASSUME OneCopyUse PROVE Spec => []OneCopyInv
<1>1. OneCopyInv /\ [Next]_vars => OneCopyInv'
  BY OneCopyStep
<1> QED
  BY OneCopyInit, <1>1, PTL DEF Spec

(* read_into never returns a mixture of two entries, nor an entry under a  *)
(* number that is not its own: for every ring of more than one slot, every *)
(* payload size, any number of readers, any number of crashes.             *)
THEOREM OneCopyUntornRead ==
    ASSUME OneCopyUse PROVE Spec => []UntornRead
<1>1. OneCopyInv => UntornRead
  BY DEF OneCopyInv, ReadersSound, ReaderSound, CopySound, UntornRead
<1> QED
  BY OneCopyInvariant, <1>1, PTL

(* locate settles on the oldest entry newer than the reader's watermark    *)
(* among those that stayed in the ring while it looked.                    *)
THEOREM OneCopyOldestFirst ==
    ASSUME OneCopyUse PROVE Spec => []OldestFirst
<1>1. OneCopyInv => OldestFirst
  BY DEF OneCopyInv, ReadersSound, ReaderSound, LocateSound, OldestFirst
<1> QED
  BY OneCopyInvariant, <1>1, PTL

(* recover_state resumes from the number of entries ever committed, after  *)
(* any number of crashes at any step of claim_slot, write or publish.      *)
THEOREM OneCopyResumeExact ==
    ASSUME OneCopyUse PROVE Spec => []ResumeExact
<1>1. OneCopyInv => ResumeExact
  BY DEF OneCopyInv, WriterSound, ResumeExact
<1> QED
  BY OneCopyInvariant, <1>1, PTL

(* The newest entry is never overwritten, so the header's watermark never  *)
(* promises a reader more than the ring holds.                             *)
THEOREM OneCopyPromiseKept ==
    ASSUME OneCopyUse PROVE Spec => []PromiseKept
<1>1. ASSUME OneCopyInv, highWatermark > 0
      PROVE  \E i \in Slots : seq[i] >= highWatermark
  <2>1. /\ Len(published) \in Nat /\ highWatermark \in Nat
        /\ highWatermark <= Len(published)
    BY <1>1 DEF OneCopyInv, TypeOK, SegTypeOK, WriterSound
  <2>2. Len(published) > 0
    BY <1>1, <2>1
  <2>3. PICK i \in Slots : seq[i] = Len(published)
    BY <1>1, <2>2 DEF OneCopyInv, NewestKept
  <2> QED
    BY <2>1, <2>3
<1>2. OneCopyInv => PromiseKept
  BY <1>1 DEF PromiseKept
<1> QED
  BY OneCopyInvariant, <1>2, PTL

(* locate comes back empty-handed only when every entry newer than the     *)
(* reader's watermark that was in the ring at its start was overwritten.   *)
THEOREM OneCopyEmptyMeansLapped ==
    ASSUME OneCopyUse PROVE Spec => EmptyMeansLapped
<1> DEFINE Lapped == \A r \in Readers : ScanEmpty(r) =>
          \A i \in Slots : ~(rd[r].mark < seq[i] /\ seq[i] <= rd[r].since)
<1>1. ASSUME OneCopyInv, NEW r \in Readers, ScanEmpty(r), NEW i \in Slots
      PROVE  ~(rd[r].mark < seq[i] /\ seq[i] <= rd[r].since)
  <2>1. /\ rd[r] \in Reader /\ ReaderSound(rd[r]) /\ TypeOK /\ SlotsSound
    BY <1>1 DEF OneCopyInv, TypeOK, ReaderTypeOK, ReadersSound
  <2>2. /\ rd[r].pc = "scan" /\ Scanned(rd[r]).seq = 0
        /\ rd[r].scan + 1 = EntryCount
    BY <1>1 DEF ScanEmpty, ScanEnds
  <2>3. i <= rd[r].scan
    BY <2>1, <2>2, GeometryAssumption DEF Slots, Reader
  <2> QED
    BY <2>1, <2>2, <2>3, ScanRound
<1>2. OneCopyInv => Lapped
  BY <1>1
<1>3. OneCopyInv /\ [Next]_vars => [Lapped]_vars
  BY <1>2
<1> QED
  BY OneCopyInvariant, <1>3, PTL DEF Spec, EmptyMeansLapped

-----------------------------------------------------------------------------
(* The order of the slots, when at most one writer is gone.                *)

(* How many steps before the cursor c a slot lies: 1 is the slot just      *)
(* behind it, EntryCount the slot at the cursor itself.                    *)
Age(i, c) == IF i < c THEN c - i ELSE c + EntryCount - i

(* The number of the entry of that age, if there ever was one. *)
NumberOfAge(a) == IF a <= Len(published) THEN Len(published) + 1 - a ELSE 0

(* The ring in order: going back from c the slots hold the newest entry,   *)
(* the one before it, and so on; the slot at c, which is overwritten next, *)
(* may have been emptied already.                                          *)
Chain(c) ==
    \A i \in Slots : \/ seq[i] = NumberOfAge(Age(i, c))
                     \/ i = c /\ seq[i] = 0

(* The ring is in order behind the cursor, and the slot being written, or  *)
(* handed out, is the one at the cursor.                                   *)
CursorPlace ==
    wpc # "down" =>
        /\ Chain(currentIndex)
        /\ wpc \in {"probe", "zero", "copy"} => wIndex = currentIndex
        /\ \A h \in handles : h.index = currentIndex

(* The index in the header lags the first writer's cursor by the one step  *)
(* of publish between the two stores, and by no more.                      *)
IndexPlace ==
    wpc # "down" /\ restarts = 0 =>
        IF wpc = "index"
        THEN SlotAfter(writeIndex) = currentIndex /\ Len(published) > 0
        ELSE writeIndex = currentIndex

(* The index that a writer which is gone leaves behind is its cursor or    *)
(* one slot short of it.                                                   *)
DownPlace ==
    wpc = "down" =>
        \/ Chain(writeIndex)
        \/ /\ restarts > 0 /\ Len(published) > 0
           /\ Chain(SlotAfter(writeIndex))

PlaceInv == CursorPlace /\ IndexPlace /\ DownPlace

(* Moving the cursor on by one slot makes every other slot one step older. *)
LEMMA AgeFacts ==
    ASSUME EntryCount > 1, NEW c \in Slots
    PROVE  /\ \A i \in Slots : Age(i, c) \in 1 .. EntryCount
           /\ Age(c, c) = EntryCount
           /\ Age(c, SlotAfter(c)) = 1
           /\ \A i \in Slots \ {c} : /\ Age(i, c) < EntryCount
                                     /\ Age(i, SlotAfter(c)) = Age(i, c) + 1
BY GeometryAssumption DEF Slots, SlotAfter, Age

(* Every age up to the number of slots is the age of a slot. *)
LEMMA AgeOnto ==
    ASSUME NEW c \in Slots, NEW a \in 1 .. EntryCount
    PROVE  \E i \in Slots : Age(i, c) = a
<1> DEFINE i == IF a <= c THEN c - a ELSE c + EntryCount - a
<1>1. i \in Slots /\ Age(i, c) = a
  BY GeometryAssumption DEF Slots, Age
<1> QED
  BY <1>1

(* The slot at c never holds the newest entry; the one before it does. *)
LEMMA ChainEnds ==
    ASSUME OneCopyUse, NEW c \in Slots, Chain(c), Len(published) \in Nat
    PROVE  /\ Len(published) > 0 => seq[c] # Len(published)
           /\ \A i \in Slots :
                 SlotAfter(i) = c /\ Len(published) > 0
                     => seq[i] = Len(published)
<1> DEFINE n == Len(published)
<1>1. EntryCount > 1 /\ EntryCount \in Nat
  BY GeometryAssumption DEF OneCopyUse
<1>2. n > 0 => seq[c] # n
  <2>1. seq[c] = NumberOfAge(EntryCount) \/ seq[c] = 0
    BY <1>1, AgeFacts DEF Chain
  <2> QED
    BY <1>1, <2>1 DEF NumberOfAge
<1>3. ASSUME NEW i \in Slots, SlotAfter(i) = c, n > 0 PROVE seq[i] = n
  <2>1. Age(i, c) = 1 /\ i # c
    BY <1>1, <1>3, AgeFacts, SlotAfterOther
  <2>2. seq[i] = NumberOfAge(1)
    BY <2>1 DEF Chain
  <2> QED
    BY <1>3, <2>2 DEF NumberOfAge
<1> QED
  BY <1>2, <1>3

(* publish moves the cursor to the next slot and keeps the ring in order.  *)
LEMMA ChainStore ==
    ASSUME OneCopyUse, OneCopyInv, NEW c \in Slots, Chain(c),
           wpc # "down", StoreSeq(c)
    PROVE  Chain(SlotAfter(c))' /\ Len(published') > 0
<1> DEFINE n == Len(published)
<1>1. /\ EntryCount > 1 /\ EntryCount \in Nat /\ n \in Nat
      /\ published \in Seq(Payload) /\ payload[c] \in Payload
      /\ seq \in [Slots -> Int] /\ lastEntrySeq = n
  BY GeometryAssumption
     DEF OneCopyUse, OneCopyInv, TypeOK, SegTypeOK, WriterSound
<1>2. /\ seq' = [seq EXCEPT ![c] = n + 1]
      /\ published' = Append(published, payload[c])
  BY <1>1 DEF StoreSeq
<1>3. Len(published') = n + 1
  BY <1>1, <1>2, AppendFacts
<1>4. \A i \in Slots : seq'[i] = IF i = c THEN n + 1 ELSE seq[i]
  BY <1>1, <1>2
<1> HIDE DEF n
<1>5. ASSUME NEW i \in Slots
      PROVE  seq'[i] = IF Age(i, SlotAfter(c)) <= n + 1
                       THEN n + 1 + 1 - Age(i, SlotAfter(c)) ELSE 0
  <2>1. CASE i = c
    BY <1>1, <1>4, <2>1, AgeFacts
  <2>2. CASE i # c
    <3>1. /\ Age(i, SlotAfter(c)) = Age(i, c) + 1
          /\ Age(i, c) \in 1 .. EntryCount
      BY <1>1, <2>2, AgeFacts
    <3>2. seq[i] = IF Age(i, c) <= n THEN n + 1 - Age(i, c) ELSE 0
      BY <2>2 DEF Chain, NumberOfAge, n
    <3> HIDE DEF Age
    <3> QED
      BY <1>1, <1>4, <2>2, <3>1, <3>2
  <2> QED
    BY <2>1, <2>2
<1>6. Chain(SlotAfter(c))'
  BY <1>3, <1>5 DEF Chain, NumberOfAge, Age, SlotAfter
<1> QED
  BY <1>1, <1>3, <1>6

(* recover_state puts the cursor where the ring is in order, whether or    *)
(* not the dead writer had persisted its index.                            *)
LEMMA PlaceAttach ==
    ASSUME OneCopyUse, OneCopyInv, DownPlace, Attach
    PROVE  /\ Chain(currentIndex')
           /\ restarts = 0 => currentIndex' = writeIndex
<1> DEFINE n == Len(published)
<1>1. /\ n \in Nat /\ writeIndex \in Slots /\ highWatermark \in Nat
      /\ highWatermark <= n /\ wpc = "down"
      /\ restarts \in Nat
  BY DEF OneCopyInv, TypeOK, SegTypeOK, WriterTypeOK, WriterSound, Attach,
     AttachFrom
<1>2. WriterSound' /\ wpc' = "idle" /\ UNCHANGED <<seq, published>>
  BY <1>1, OneCopyAttach DEF Attach, AttachFrom, segVars
<1>3. lastEntrySeq' = n
  BY <1>2 DEF WriterSound
<1>4. currentIndex' = RecoveredIndex(writeIndex, n)
  BY <1>3 DEF Attach, AttachFrom
<1>5. Abs(seq[writeIndex]) = seq[writeIndex]
  BY <1>1 DEF OneCopyInv, TypeOK, SegTypeOK, SlotsSound, Abs
<1>6. CASE Chain(writeIndex)
  <2>1. n > 0 => seq[writeIndex] # n
    BY <1>1, <1>6, ChainEnds
  <2>2. currentIndex' = writeIndex
    BY <1>1, <1>4, <1>5, <2>1 DEF RecoveredIndex
  <2> QED
    BY <1>6, <2>2
<1>7. CASE restarts > 0 /\ n > 0 /\ Chain(SlotAfter(writeIndex))
  <2>1. SlotAfter(writeIndex) \in Slots
    BY <1>1, SlotAfterOther
  <2>2. seq[writeIndex] = n
    BY <1>1, <1>7, <2>1, ChainEnds
  <2>3. currentIndex' = SlotAfter(writeIndex)
    BY <1>1, <1>4, <1>5, <1>7, <2>2 DEF RecoveredIndex
  <2> QED
    BY <1>1, <1>7, <2>3
<1> QED
  BY <1>1, <1>6, <1>7 DEF DownPlace

(* Steps of the writer that leave the control words, its cursor and the    *)
(* header's index alone, and do not end it.                                *)
LEMMA PlaceQuiet ==
    ASSUME PlaceInv, wpc # "down", wpc' # "down",
           wpc' = "index" <=> wpc = "index",
           wpc' \in {"probe", "zero", "copy"} => wIndex' = currentIndex,
           handles' \subseteq handles,
           UNCHANGED <<seq, published, currentIndex, writeIndex, restarts>>
    PROVE  PlaceInv'
<1>1. CursorPlace'
  BY DEF PlaceInv, CursorPlace, Chain, NumberOfAge, Age
<1>2. IndexPlace'
  BY DEF PlaceInv, IndexPlace, SlotAfter
<1>3. DownPlace'
  BY DEF DownPlace
<1> QED
  BY <1>1, <1>2, <1>3 DEF PlaceInv

(* publish's first store, on the slot at the cursor. *)
LEMMA PlaceStore ==
    ASSUME OneCopyUse, OneCopyInv, PlaceInv, wpc \in {"idle", "copy"},
           StoreSeq(currentIndex), handles' = {},
           UNCHANGED <<writeIndex, restarts>>
    PROVE  PlaceInv'
<1>1. PICK c \in Slots : c = currentIndex /\ Chain(c)
  BY DEF OneCopyInv, TypeOK, WriterTypeOK, PlaceInv, CursorPlace
<1>2. wpc' = "index" /\ currentIndex' = SlotAfter(c) /\ StoreSeq(c)
  BY <1>1 DEF StoreSeq
<1>3. Chain(SlotAfter(c))' /\ Len(published') > 0
  BY <1>1, <1>2, ChainStore
<1>4. CursorPlace'
  BY <1>2, <1>3 DEF CursorPlace, Chain, NumberOfAge, Age, SlotAfter
<1>5. IndexPlace'
  BY <1>1, <1>2, <1>3 DEF PlaceInv, IndexPlace, SlotAfter
<1>6. DownPlace'
  BY <1>2 DEF DownPlace
<1> QED
  BY <1>4, <1>5, <1>6 DEF PlaceInv

(* Every step of the writer keeps PlaceInv, as long as the writer that is  *)
(* gone is the first.                                                      *)
LEMMA PlaceWriter ==
    ASSUME OneCopyUse, MaxRestarts <= 1, OneCopyInv, PlaceInv, WriterNext
    PROVE  PlaceInv'
<1> USE DEF segVars, callVars, cursor, writerVars
<1>0. /\ WriterSound /\ MaxRestarts \in Nat /\ restarts \in Nat
      /\ seq \in [Slots -> Int] /\ wpc \in WriterPc
      /\ currentIndex \in Slots /\ writeIndex \in Slots
      /\ \A i \in Slots : ~Held(i)
  BY WriterAssumption
     DEF OneCopyInv, TypeOK, SegTypeOK, WriterTypeOK, SlotsSound, Held
<1>1. \A h \in handles : wpc = "idle"
  BY <1>0 DEF WriterSound
<1>2. CASE Attach
  <2>1. /\ Chain(currentIndex')
        /\ restarts = 0 => currentIndex' = writeIndex
    BY <1>2, PlaceAttach DEF PlaceInv
  <2>2. /\ wpc = "down" /\ wpc' = "idle" /\ handles = {} /\ handles' = {}
        /\ UNCHANGED <<seq, published, writeIndex, restarts>>
    BY <1>0, <1>2 DEF Attach, AttachFrom, WriterSound
  <2>3. CursorPlace'
    BY <2>1, <2>2 DEF CursorPlace, Chain, NumberOfAge, Age
  <2>4. IndexPlace' /\ DownPlace'
    BY <2>1, <2>2 DEF IndexPlace, DownPlace
  <2> QED
    BY <2>3, <2>4 DEF PlaceInv
<1>3. CASE Write \/ TryAcquire
  <2>1. PICK call : Call(call)
    BY <1>3 DEF Write, TryAcquire
  <2> QED
    BY <2>1, PlaceQuiet DEF Call
<1>4. CASE ProbeHeld \/ ProbeBusy
  BY <1>0, <1>4 DEF ProbeHeld, ProbeBusy, OneCopyInv, TypeOK, WriterTypeOK
<1>5. CASE ProbeFree
  BY <1>5, PlaceQuiet DEF ProbeFree, PlaceInv, CursorPlace
<1>6. CASE Claim
  <2>1. /\ wpc = "zero" /\ wIndex = currentIndex /\ handles = {}
        /\ seq' = [seq EXCEPT ![wIndex] = 0]
        /\ UNCHANGED <<published, writeIndex, currentIndex, restarts>>
        /\ \/ wpc' = "copy" /\ wIndex' = wIndex /\ handles' = {}
           \/ /\ wpc' = "idle"
              /\ handles' = {[index |-> wIndex, stamp |-> claims + 1]}
    BY <1>0, <1>6 DEF Claim, MarkInProgress, WriterSound
  <2>2. \A i \in Slots : seq'[i] = IF i = currentIndex THEN 0 ELSE seq[i]
    BY <1>0, <2>1
  <2>3. Chain(currentIndex)
    BY <2>1 DEF PlaceInv, CursorPlace
  <2>4. Chain(currentIndex)'
    BY <2>1, <2>2, <2>3 DEF Chain, NumberOfAge, Age
  <2>5. \A h \in handles' : h.index = currentIndex
    BY <2>1
  <2>6. CursorPlace'
    BY <2>1, <2>4, <2>5 DEF CursorPlace
  <2>7. IndexPlace' /\ DownPlace'
    BY <2>1 DEF PlaceInv, IndexPlace, DownPlace
  <2> QED
    BY <2>6, <2>7 DEF PlaceInv
<1>7. ASSUME NEW w \in Words, CopyIn(w) PROVE PlaceInv'
  BY <1>7, PlaceQuiet DEF CopyIn, PlaceInv, CursorPlace
<1>8. ASSUME NEW h \in handles, NEW w \in Words, Fill(h, w) PROVE PlaceInv'
  BY <1>1, <1>8, PlaceQuiet DEF Fill
<1>9. CASE PublishWrite
  <2>1. wIndex = currentIndex /\ handles' = {}
    BY <1>0, <1>9 DEF PublishWrite, PlaceInv, CursorPlace, WriterSound
  <2> QED
    BY <1>9, <2>1, PlaceStore DEF PublishWrite
<1>10. ASSUME NEW h \in handles, Commit(h) PROVE PlaceInv'
  <2>1. h.index = currentIndex /\ handles' = {}
    BY <1>0, <1>10 DEF Commit, PlaceInv, CursorPlace, WriterSound
  <2> QED
    BY <1>10, <2>1, PlaceStore DEF Commit
<1>11. ASSUME NEW h \in handles, DropHandle(h) PROVE PlaceInv'
  BY <1>1, <1>11, PlaceQuiet DEF DropHandle
<1>12. CASE PersistIndex
  <2>1. /\ wpc = "index" /\ wpc' = "mark" /\ writeIndex' = currentIndex
        /\ UNCHANGED <<seq, published, currentIndex, wIndex, handles, restarts>>
    BY <1>12 DEF PersistIndex
  <2>2. CursorPlace'
    BY <2>1 DEF PlaceInv, CursorPlace, Chain, NumberOfAge, Age
  <2>3. IndexPlace' /\ DownPlace'
    BY <2>1 DEF IndexPlace, DownPlace
  <2> QED
    BY <2>2, <2>3 DEF PlaceInv
<1>13. CASE PersistMark
  BY <1>13, PlaceQuiet DEF PersistMark
<1>14. CASE WriterGone
  <2>1. /\ wpc # "down" /\ wpc' = "down" /\ restarts = 0 /\ restarts' = 1
        /\ UNCHANGED <<seq, published, writeIndex>>
    BY <1>0, <1>14 DEF WriterGone
  <2>2. Chain(currentIndex)
    BY <2>1 DEF PlaceInv, CursorPlace
  <2>3. \/ writeIndex = currentIndex
        \/ SlotAfter(writeIndex) = currentIndex /\ Len(published) > 0
    BY <2>1 DEF PlaceInv, IndexPlace
  <2>4. \/ Chain(writeIndex)
        \/ Len(published) > 0 /\ Chain(SlotAfter(writeIndex))
    BY <2>2, <2>3
  <2>5. DownPlace'
    BY <2>1, <2>4 DEF DownPlace, Chain, NumberOfAge, Age, SlotAfter
  <2>6. CursorPlace' /\ IndexPlace'
    BY <2>1 DEF CursorPlace, IndexPlace
  <2> QED
    BY <2>5, <2>6 DEF PlaceInv
<1> QED
  BY <1>2, <1>3, <1>4, <1>5, <1>6, <1>7, <1>8, <1>9, <1>10, <1>11, <1>12,
     <1>13, <1>14 DEF WriterNext

(* PlaceInv speaks of the writer and of the control words only. *)
LEMMA PlaceStutter ==
    ASSUME PlaceInv, UNCHANGED <<seq, published, writeIndex, writerVars>>
    PROVE  PlaceInv'
BY DEF writerVars, callVars, cursor, PlaceInv, CursorPlace, IndexPlace,
   DownPlace, Chain, NumberOfAge, Age, SlotAfter

(* A one-copy reader never stores to the segment. *)
LEMMA OneCopyReaderPassive ==
    ASSUME OneCopyUse, OneCopyInv, NEW r \in Readers, ReaderNext(r)
    PROVE  UNCHANGED segVars
<1>1. CallSound(rd[r])
  BY DEF OneCopyInv, ReadersSound, ReaderSound
<1>2. rd[r].pc # "cas" /\ rd[r].held = {}
  BY <1>1 DEF CallSound
<1> QED
  BY <1>2 DEF ReaderNext, UpToDate, ReadInto, TryAcquireRead, FastHit,
     FastMiss, ScanSlot, ScanFound, ScanEmpty, CopyOut, RecheckOk, CasOk,
     Retry, GiveUp, ReaderGone, Begin

(* With at most one writer gone, the ring stays in order. *)
THEOREM OneCopyPlaceInvariant ==
    ASSUME OneCopyUse, MaxRestarts <= 1
    PROVE  Spec => [](OneCopyInv /\ PlaceInv)
<1>1. ASSUME Init PROVE PlaceInv
  <2>1. /\ wpc = "down" /\ writeIndex = 0 /\ Len(published) = 0
        /\ seq = [i \in Slots |-> 0]
    BY <1>1 DEF Init, SegInit, WriterInit
  <2>2. \A i \in Slots : Age(i, 0) \in Nat \ {0}
    BY GeometryAssumption DEF Slots, Age
  <2>3. Chain(0)
    BY <2>1, <2>2 DEF Chain, NumberOfAge
  <2> QED
    BY <2>1, <2>3 DEF PlaceInv, CursorPlace, IndexPlace, DownPlace
<1>2. ASSUME OneCopyInv, PlaceInv, [Next]_vars PROVE PlaceInv'
  <2>1. CASE WriterNext /\ UNCHANGED rd
    BY <1>2, <2>1, PlaceWriter
  <2>2. ASSUME NEW r \in Readers, ReaderNext(r), UNCHANGED writerVars
        PROVE  PlaceInv'
    BY <1>2, <2>2, OneCopyReaderPassive, PlaceStutter DEF segVars
  <2>3. CASE UNCHANGED vars
    BY <1>2, <2>3, PlaceStutter DEF vars, segVars
  <2> QED
    BY <1>2, <2>1, <2>2, <2>3, NextSplit
<1>3. OneCopyInv /\ PlaceInv /\ [Next]_vars => (OneCopyInv /\ PlaceInv)'
  BY <1>2, OneCopyStep
<1> QED
  BY <1>1, <1>3, OneCopyInit, PTL DEF Spec

(* A writer's cursor is at the slot after the newest entry, under way and  *)
(* after recover_state, wherever the one writer before it died; a second   *)
(* death before current_write_index is persisted can leave it behind.      *)
THEOREM OneCopyResumePlace ==
    ASSUME OneCopyUse, MaxRestarts <= 1
    PROVE  Spec => []ResumePlace
<1>1. ASSUME OneCopyInv, PlaceInv, wpc # "down", published # <<>>
      PROVE  \E i \in Slots : /\ seq[i] = Len(published)
                              /\ currentIndex = SlotAfter(i)
  <2>1. /\ currentIndex \in Slots /\ Chain(currentIndex)
        /\ published \in Seq(Payload)
    BY <1>1 DEF OneCopyInv, TypeOK, SegTypeOK, WriterTypeOK, PlaceInv,
       CursorPlace
  <2>2. Len(published) \in Nat /\ Len(published) > 0
    BY <1>1, <2>1
  <2>3. PICK i \in Slots : currentIndex = SlotAfter(i)
    <3> DEFINE i == IF currentIndex = 0 THEN EntryCount - 1
                    ELSE currentIndex - 1
    <3>1. i \in Slots /\ currentIndex = SlotAfter(i)
      BY <2>1, GeometryAssumption DEF Slots, SlotAfter
    <3> QED
      BY <3>1
  <2>4. seq[i] = Len(published)
    BY <2>1, <2>2, <2>3, ChainEnds
  <2> QED
    BY <2>3, <2>4
<1>2. OneCopyInv /\ PlaceInv => ResumePlace
  BY <1>1 DEF ResumePlace
<1> QED
  BY OneCopyPlaceInvariant, <1>2, PTL

(* In order, the ring holds the EntryCount - 1 newest entries. *)
LEMMA ChainRetains ==
    ASSUME NEW c \in Slots, Chain(c), Len(published) \in Nat,
           NEW s \in 1 .. Len(published),
           s + EntryCount > Len(published) + 1
    PROVE  \E i \in Slots : seq[i] = s
<1> DEFINE a == Len(published) + 1 - s
<1>1. a \in 1 .. EntryCount /\ a < EntryCount /\ a <= Len(published)
  BY GeometryAssumption
<1>2. PICK i \in Slots : Age(i, c) = a
  BY <1>1, AgeOnto
<1>3. i # c
  BY <1>1, <1>2, GeometryAssumption DEF Age, Slots
<1>4. seq[i] = NumberOfAge(a)
  BY <1>2, <1>3 DEF Chain
<1> QED
  BY <1>1, <1>4 DEF NumberOfAge

(* The oldest entry is overwritten first: in every state, with a writer or *)
(* without one, the ring holds the EntryCount - 1 newest entries, whatever *)
(* step of its call the one writer that is gone died in.                   *)
THEOREM OneCopyRetention ==
    ASSUME OneCopyUse, MaxRestarts <= 1
    PROVE  Spec => []Retention
<1>1. ASSUME OneCopyInv, PlaceInv PROVE \E c \in Slots : Chain(c)
  <2>1. currentIndex \in Slots /\ writeIndex \in Slots
    BY <1>1 DEF OneCopyInv, TypeOK, SegTypeOK, WriterTypeOK
  <2>2. SlotAfter(writeIndex) \in Slots
    BY <2>1, SlotFacts
  <2> QED
    BY <1>1, <2>1, <2>2 DEF PlaceInv, CursorPlace, DownPlace
<1>2. ASSUME OneCopyInv, PlaceInv PROVE Retention
  <2>1. Len(published) \in Nat
    BY <1>2 DEF OneCopyInv, TypeOK, SegTypeOK
  <2> QED
    BY <1>1, <1>2, <2>1, ChainRetains DEF Retention
<1> QED
  BY OneCopyPlaceInvariant, <1>2, PTL
=============================================================================
