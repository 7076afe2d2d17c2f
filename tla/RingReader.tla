----------------------------- MODULE RingReader ------------------------------
(***************************************************************************)
(* RawReader: a reader's end of the ring, one-copy (read_into) and         *)
(* zero-copy (try_acquire, release).  Each load of a control word, each    *)
(* copied word and the compare-and-swap is a step of its own.              *)
(***************************************************************************)
EXTENDS Segment

CONSTANTS
    Readers,       \* every reader of the channel
    ZcReaders,     \* the ones opened for zero-copy: at most one by the role
    ReadRetries,   \* READ_RETRIES
    FromSeqs,      \* values of from_entry_seq callers pass, if any
    ReadersCrash   \* may readers die and be replaced, or lose handles?

ASSUME ReaderAssumption ==
    /\ ZcReaders \subseteq Readers
    /\ \A p, q \in ZcReaders : p = q
    /\ ReadRetries \in Nat \ {0}
    /\ FromSeqs \subseteq Nat
    /\ ReadersCrash \in BOOLEAN

VARIABLE rd  \* the private state of every reader

(* A read handle; data is the payload at the moment it was acquired.       *)
ReadHandle == [index : Slots, seq : Nat, data : Payload]

(* lastSeq and lastIdx are RawReader's fields, got and dst the result of   *)
(* the last call (got = 0 for None), held the handles taken and not yet    *)
(* released; the rest are locals of a call in progress.  since is history: *)
(* how many entries were published when locate started.                    *)
Reader ==
    [pc : {"idle", "fast", "scan", "copy", "cas"},
     call : {"read", "acquire"},
     mark : Nat, tries : Nat, scan : Slots, idx : Slots, seq : Nat,
     since : Nat, copied : SUBSET Words,
     dst : Payload, got : Nat, lastSeq : Nat, lastIdx : Slots,
     held : SUBSET ReadHandle]

ReaderTypeOK == rd \in [Readers -> Reader]

(* RawReader::attach. *)
Fresh ==
    [pc |-> "idle", call |-> "read",
     mark |-> 0, tries |-> 0, scan |-> 0, idx |-> 0, seq |-> 0,
     since |-> 0, copied |-> {},
     dst |-> Blank, got |-> 0, lastSeq |-> 0, lastIdx |-> 0,
     held |-> {}]

ReaderInit == rd = [r \in Readers |-> Fresh]

-----------------------------------------------------------------------------

(* A call is over: its locals are gone. *)
Returned(rec) ==
    [rec EXCEPT !.pc = "idle", !.call = "read", !.mark = 0, !.tries = 0,
                !.scan = 0, !.idx = 0, !.seq = 0, !.since = 0, !.copied = {}]

(* from_entry_seq.unwrap_or(last_entry_seq) *)
Watermarks(r) == {rd[r].lastSeq} \cup FromSeqs

(* watermark: the header says there is something newer than m. *)
NewerThan(m) == highWatermark > m

(* read_into and try_acquire when nothing is newer: None.  dst is the      *)
(* caller's buffer, Blank standing for what the caller left in it.         *)
UpToDate(r) ==
    /\ rd[r].pc = "idle"
    /\ \E m \in Watermarks(r) : ~NewerThan(m)
    /\ rd' = [rd EXCEPT ![r] = [@ EXCEPT !.dst = Blank, !.got = 0]]
    /\ UNCHANGED segVars

Begin(r, call) ==
    /\ rd[r].pc = "idle"
    /\ \E m \in Watermarks(r) :
         /\ NewerThan(m)
         /\ rd' = [rd EXCEPT ![r] = [@ EXCEPT !.pc = "fast", !.call = call,
                                              !.mark = m, !.dst = Blank,
                                              !.got = 0]]
    /\ UNCHANGED segVars

ReadInto(r) == Begin(r, "read")
TryAcquireRead(r) == r \in ZcReaders /\ Begin(r, "acquire")

-----------------------------------------------------------------------------

(* What read_into and try_acquire do with the slot that locate found. *)
AfterLocate(rec) == IF rec.call = "read" THEN "copy" ELSE "cas"

(* locate: the slot after the one read last holds the very next entry ... *)
FastHit(r) ==
    LET next == SlotAfter(rd[r].lastIdx) IN
    /\ rd[r].pc = "fast"
    /\ seq[next] = rd[r].mark + 1
    /\ rd' = [rd EXCEPT ![r] = [@ EXCEPT !.pc = AfterLocate(rd[r]),
                                         !.idx = next,
                                         !.seq = seq[next],
                                         !.since = Len(published)]]
    /\ UNCHANGED segVars

(* ... or the whole ring is scanned. *)
FastMiss(r) ==
    /\ rd[r].pc = "fast"
    /\ seq[SlotAfter(rd[r].lastIdx)] # rd[r].mark + 1
    /\ rd' = [rd EXCEPT ![r] = [@ EXCEPT !.pc = "scan",
                                         !.since = Len(published)]]
    /\ UNCHANGED segVars

(* locate: the slot beats the best one found so far (rec.seq = 0: none).   *)
(* Faulty variant: the first newer entry in slot order is taken.           *)
ImprovesFirst(rec, raw) == raw > rec.mark /\ rec.seq = 0
Improves(rec, raw) == raw > rec.mark /\ (rec.seq = 0 \/ raw < rec.seq)

(* One round of locate's scan. *)
Scanned(rec) ==
    IF Improves(rec, seq[rec.scan])
    THEN [rec EXCEPT !.idx = rec.scan, !.seq = seq[rec.scan]]
    ELSE rec

(* The scan's last round.  Faulty variant: it stops one slot short. *)
ScanSkipsLast(rec) == rec.scan + 1 >= EntryCount - 1
ScanEnds(rec) == rec.scan + 1 = EntryCount

ScanSlot(r) ==
    /\ rd[r].pc = "scan"
    /\ ~ScanEnds(rd[r])
    /\ rd' = [rd EXCEPT ![r] = [Scanned(@) EXCEPT !.scan = rd[r].scan + 1]]
    /\ UNCHANGED segVars

ScanFound(r) ==
    /\ rd[r].pc = "scan"
    /\ ScanEnds(rd[r])
    /\ Scanned(rd[r]).seq # 0
    /\ rd' = [rd EXCEPT ![r] = [Scanned(@) EXCEPT !.pc = AfterLocate(rd[r]),
                                                  !.scan = 0]]
    /\ UNCHANGED segVars

(* locate finds nothing: the call returns None. *)
ScanEmpty(r) ==
    /\ rd[r].pc = "scan"
    /\ ScanEnds(rd[r])
    /\ Scanned(rd[r]).seq = 0
    /\ rd' = [rd EXCEPT ![r] = Returned(@)]
    /\ UNCHANGED segVars

-----------------------------------------------------------------------------

(* read_into: copy_nonoverlapping, one word at a time. *)
CopyOut(r, w) ==
    /\ rd[r].pc = "copy"
    /\ w \notin rd[r].copied
    /\ LET dst == [rd[r].dst EXCEPT ![w] = payload[rd[r].idx][w]]
       IN  rd' = [rd EXCEPT ![r] = [@ EXCEPT !.dst = dst,
                                             !.copied = rd[r].copied \cup {w}]]
    /\ UNCHANGED segVars

(* The slot still holds the entry that locate found.  Faulty variant: the  *)
(* double read is left out.                                                *)
StillThereAssumed(rec) == TRUE
StillThere(rec) == seq[rec.idx] = rec.seq

(* read_into: the double read succeeds, the entry is returned. *)
RecheckOk(r) ==
    /\ rd[r].pc = "copy"
    /\ rd[r].copied = Words
    /\ StillThere(rd[r])
    /\ rd' = [rd EXCEPT ![r] = [Returned(@) EXCEPT !.got = rd[r].seq,
                                                   !.lastSeq = rd[r].seq,
                                                   !.lastIdx = rd[r].idx]]
    /\ UNCHANGED segVars

(* try_acquire: the compare-and-swap succeeds. *)
CasOk(r) ==
    /\ rd[r].pc = "cas"
    /\ StillThere(rd[r])
    /\ seq' = [seq EXCEPT ![rd[r].idx] = -rd[r].seq]
    /\ rd' = [rd EXCEPT ![r] =
                [Returned(@) EXCEPT
                   !.lastSeq = rd[r].seq,
                   !.lastIdx = rd[r].idx,
                   !.held = rd[r].held \cup
                              {[index |-> rd[r].idx, seq |-> rd[r].seq,
                                data |-> payload[rd[r].idx]]}]]
    /\ UNCHANGED <<payload, writeIndex, highWatermark, published, claims>>

(* The check fails: locate again ... *)
Recycled(r) ==
    /\ ~StillThere(rd[r])
    /\ \/ rd[r].pc = "copy" /\ rd[r].copied = Words
       \/ rd[r].pc = "cas"

Retry(r) ==
    /\ Recycled(r)
    /\ rd[r].tries + 1 < ReadRetries
    /\ rd' = [rd EXCEPT ![r] = [@ EXCEPT !.pc = "fast", !.tries = rd[r].tries + 1,
                                         !.idx = 0, !.seq = 0, !.since = 0,
                                         !.copied = {}]]
    /\ UNCHANGED segVars

(* ... or, after ReadRetries attempts, return None. *)
GiveUp(r) ==
    /\ Recycled(r)
    /\ rd[r].tries + 1 >= ReadRetries
    /\ rd' = [rd EXCEPT ![r] = Returned(@)]
    /\ UNCHANGED segVars

(* release: a plain store of the positive number.  Faulty variant: the     *)
(* number is put back as it was found, with its sign.                      *)
ReturnedSeqSigned(h) == -h.seq
ReturnedSeq(h) == h.seq

Release(r, h) ==
    /\ rd[r].pc = "idle"
    /\ seq' = [seq EXCEPT ![h.index] = ReturnedSeq(h)]
    /\ rd' = [rd EXCEPT ![r] = [@ EXCEPT !.held = rd[r].held \ {h}]]
    /\ UNCHANGED <<payload, writeIndex, highWatermark, published, claims>>

(* A read handle dropped without a release, from any thread: it has no     *)
(* destructor, and nobody can name the slot any more.                      *)
Forget(r, h) ==
    /\ ReadersCrash
    /\ rd' = [rd EXCEPT ![r] = [@ EXCEPT !.held = rd[r].held \ {h}]]
    /\ UNCHANGED segVars

(* The reader's process dies and another takes its place.  The slots it    *)
(* held stay negative.                                                     *)
ReaderGone(r) ==
    /\ ReadersCrash
    /\ rd[r] # Fresh
    /\ rd' = [rd EXCEPT ![r] = Fresh]
    /\ UNCHANGED segVars

ReaderNext(r) ==
    \/ UpToDate(r)
    \/ ReadInto(r)
    \/ TryAcquireRead(r)
    \/ FastHit(r)
    \/ FastMiss(r)
    \/ ScanSlot(r)
    \/ ScanFound(r)
    \/ ScanEmpty(r)
    \/ \E w \in Words : CopyOut(r, w)
    \/ RecheckOk(r)
    \/ CasOk(r)
    \/ Retry(r)
    \/ GiveUp(r)
    \/ \E h \in rd[r].held : Release(r, h)
    \/ \E h \in rd[r].held : Forget(r, h)
    \/ ReaderGone(r)
=============================================================================
