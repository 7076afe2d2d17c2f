-------------------------------- MODULE Ring ---------------------------------
(***************************************************************************)
(* The ring protocol of zerochannel-core: one RawWriter and any number of  *)
(* RawReaders over one segment.                                            *)
(***************************************************************************)
EXTENDS RingWriter, RingReader

vars == <<segVars, writerVars, rd>>

Init == SegInit /\ WriterInit /\ ReaderInit

(* Every step but the arrival of a writer. *)
Operate ==
    \/ Write /\ UNCHANGED rd
    \/ TryAcquire /\ UNCHANGED rd
    \/ ProbeHeld /\ UNCHANGED rd
    \/ ProbeBusy /\ UNCHANGED rd
    \/ ProbeFree /\ UNCHANGED rd
    \/ Claim /\ UNCHANGED rd
    \/ \E w \in Words : CopyIn(w) /\ UNCHANGED rd
    \/ PublishWrite /\ UNCHANGED rd
    \/ \E h \in handles, w \in Words : Fill(h, w) /\ UNCHANGED rd
    \/ \E h \in handles : Commit(h) /\ UNCHANGED rd
    \/ \E h \in handles : DropHandle(h) /\ UNCHANGED rd
    \/ PersistIndex /\ UNCHANGED rd
    \/ PersistMark /\ UNCHANGED rd
    \/ WriterGone /\ UNCHANGED rd
    \/ \E r \in Readers : UpToDate(r) /\ UNCHANGED writerVars
    \/ \E r \in Readers : ReadInto(r) /\ UNCHANGED writerVars
    \/ \E r \in Readers : TryAcquireRead(r) /\ UNCHANGED writerVars
    \/ \E r \in Readers : FastHit(r) /\ UNCHANGED writerVars
    \/ \E r \in Readers : FastMiss(r) /\ UNCHANGED writerVars
    \/ \E r \in Readers : ScanSlot(r) /\ UNCHANGED writerVars
    \/ \E r \in Readers : ScanFound(r) /\ UNCHANGED writerVars
    \/ \E r \in Readers : ScanEmpty(r) /\ UNCHANGED writerVars
    \/ \E r \in Readers, w \in Words : CopyOut(r, w) /\ UNCHANGED writerVars
    \/ \E r \in Readers : RecheckOk(r) /\ UNCHANGED writerVars
    \/ \E r \in Readers : CasOk(r) /\ UNCHANGED writerVars
    \/ \E r \in Readers : Retry(r) /\ UNCHANGED writerVars
    \/ \E r \in Readers : GiveUp(r) /\ UNCHANGED writerVars
    \/ \E r \in Readers : \E h \in rd[r].held :
           Release(r, h) /\ UNCHANGED writerVars
    \/ \E r \in Readers : \E h \in rd[r].held :
           Forget(r, h) /\ UNCHANGED writerVars
    \/ \E r \in Readers : ReaderGone(r) /\ UNCHANGED writerVars

Next ==
    \/ Attach /\ UNCHANGED rd
    \/ Operate

Spec == Init /\ [][Next]_vars

TypeOK == SegTypeOK /\ WriterTypeOK /\ ReaderTypeOK

-----------------------------------------------------------------------------
(* Concurrent one-copy use. *)

(* A one-copy read returns exactly the payload committed under the number  *)
(* it reports, never a mixture of two entries (read_into's double read).   *)
UntornRead ==
    \A r \in Readers :
        rd[r].got > 0 => /\ rd[r].got <= Len(published)
                         /\ rd[r].dst = published[rd[r].got]

(* locate settles on the oldest entry newer than the watermark among those *)
(* that were in the ring when it started and still are.                    *)
OldestFirst ==
    \A r \in Readers : rd[r].pc = "copy" =>
        \A i \in Slots :
            rd[r].mark < seq[i] /\ seq[i] <= rd[r].since => rd[r].seq <= seq[i]

(* When locate finds nothing although the header promised something, every *)
(* entry newer than the watermark that was in the ring when it started has *)
(* been overwritten since.                                                 *)
EmptyMeansLapped ==
    [][\A r \in Readers : ScanEmpty(r) =>
          \A i \in Slots : ~(rd[r].mark < seq[i] /\ seq[i] <= rd[r].since)]_vars

(* A writer numbers its entries 1, 2, 3, ... across crashes: what          *)
(* recover_state resumes from is the number of entries ever committed.     *)
ResumeExact == wpc # "down" => lastEntrySeq = Len(published)

(* The watermark in the header is a promise the ring can fulfil: some slot *)
(* holds a committed entry at least as new (publish advertises last).      *)
PromiseKept == highWatermark > 0 => \E i \in Slots : seq[i] >= highWatermark

(* A writer resumes in the right place: its cursor is at the slot after    *)
(* the newest entry, whether it has just recovered or is under way.        *)
ResumePlace ==
    wpc # "down" /\ published # <<>> =>
        \E i \in Slots : /\ seq[i] = Len(published)
                         /\ currentIndex = SlotAfter(i)

(* A writer that crashed at most once overwrites the oldest entry first:   *)
(* the ring always holds the EntryCount - 1 newest entries.                *)
Retention ==
    \A s \in 1 .. Len(published) :
        s + EntryCount > Len(published) + 1 => \E i \in Slots : seq[i] = s

(* The high watermark never goes back when one writer takes over from      *)
(* another: a reader that has read up to it is not left ahead of it for    *)
(* good (publish and recover_state).  In zero-copy use this takes a header *)
(* as new as the role: see Channel and ChannelMarkBack.cfg.                *)
WatermarkMonotone == [][highWatermark' >= highWatermark]_vars

(* The ring as a log: log is what was committed, a reader's position is    *)
(* RawReader.last_entry_seq, and its result is its buffer once the double  *)
(* read has accepted it.                                                   *)
LogPos == [r \in Readers |-> rd[r].lastSeq]
Result(rec) ==
    IF rec.got = 0 THEN <<>> ELSE <<[seq |-> rec.got, data |-> rec.dst]>>
LogOut == [r \in Readers |-> Result(rd[r])]

Log == INSTANCE ChannelLog WITH
    Entries <- [Words -> 0 .. MaxClaims],
    log <- published,
    pos <- LogPos,
    out <- LogOut

(* One-copy use of the ring implements ChannelLog: entries are appended    *)
(* whole, and every successful read moves its reader forward to an entry   *)
(* of the log and returns it unaltered.                                    *)
ImplementsLog == Log!Spec

-----------------------------------------------------------------------------
(* Every use, zero-copy and overlapping handles included. *)

(* Neither the header nor a slot ever carries a number that was not        *)
(* committed.                                                              *)
NoPhantom ==
    /\ highWatermark <= Len(published)
    /\ \A i \in Slots : Abs(seq[i]) <= Len(published)

-----------------------------------------------------------------------------
(* Zero-copy use in which the calls of the two ends do not overlap, as in  *)
(* a program that drives both from one thread; handles are held across     *)
(* calls of the other end.                                                 *)

SerialWriter == \A r \in Readers : rd[r].pc = "idle"
SerialReader(r) ==
    /\ wpc \in {"down", "idle"}
    /\ \A q \in Readers \ {r} : rd[q].pc = "idle"

SerialNext ==
    \/ WriterNext /\ SerialWriter /\ UNCHANGED rd
    \/ \E r \in Readers :
           ReaderNext(r) /\ SerialReader(r) /\ UNCHANGED writerVars

SerialSpec == Init /\ [][SerialNext]_vars

(* While a read handle is held its slot stays pinned under its number and  *)
(* the payload it shows does not change (claim_slot skips held slots).     *)
PinnedStable ==
    \A r \in Readers : \A h \in rd[r].held :
        seq[h.index] = -h.seq /\ payload[h.index] = h.data

(* A slot whose handle is lost, with its reader or without it, is never    *)
(* written again, by this writer or a later one: the views that may still  *)
(* exist of it stay valid, at the price of the slot.                       *)
RetiredForGood ==
    [][\A i \in Slots :
          /\ seq[i] < 0
          /\ \A r \in Readers : \A h \in rd[r].held : h.index # i
          => seq'[i] = seq[i] /\ payload'[i] = payload[i]]_vars

(* A call fails with Busy only when every slot is held. *)
BusyMeansAllHeld == [][ProbeBusy => \A i \in Slots : seq[i] < 0]_vars

-----------------------------------------------------------------------------

(* read_into that returns None leaves the caller's buffer alone. *)
OutUntouched ==
    \A r \in Readers :
        rd[r].pc = "idle" /\ rd[r].got = 0 => rd[r].dst = Blank

(* While a write handle is outstanding its slot reads as in progress, so   *)
(* that readers skip it (try_acquire).                                     *)
HandleSlotHidden == \A h \in handles : seq[h.index] = 0

-----------------------------------------------------------------------------
(* A reader that keeps polling, and a writer that finishes the call it is  *)
(* in: no step of theirs waits for the other end.                          *)

WriterProgress ==
    \/ ProbeHeld \/ ProbeBusy \/ ProbeFree \/ Claim
    \/ (\E w \in Words : CopyIn(w))
    \/ PublishWrite \/ PersistIndex \/ PersistMark

Polling(r) ==
    \/ ReadInto(r) \/ FastHit(r) \/ FastMiss(r)
    \/ ScanSlot(r) \/ ScanFound(r) \/ ScanEmpty(r)
    \/ (\E w \in Words : CopyOut(r, w))
    \/ RecheckOk(r) \/ Retry(r) \/ GiveUp(r)

FairSpec ==
    /\ Spec
    /\ WF_vars(WriterProgress /\ UNCHANGED rd)
    /\ \A r \in Readers : WF_vars(Polling(r) /\ UNCHANGED writerVars)

(* Once an entry is advertised, a polling reader eventually returns it or  *)
(* a newer one, whether or not the writer crashes or laps it.              *)
Drain ==
    \A r \in Readers : \A s \in 1 .. MaxClaims :
        highWatermark >= s ~> rd[r].lastSeq >= s

(* A writer that repeats a call that failed with Busy, and readers that    *)
(* sooner or later release what they hold, between polls.                  *)
RetrySpec ==
    /\ FairSpec
    /\ WF_vars(Write /\ UNCHANGED rd)
    /\ \A r \in Readers :
         /\ WF_vars(CasOk(r) /\ UNCHANGED writerVars)
         /\ SF_vars(\E h \in rd[r].held :
                       Release(r, h) /\ UNCHANGED writerVars)

(* Busy is transient: once there is a writer, it gets every one of its     *)
(* entries through.                                                        *)
BusyPasses == wpc # "down" ~> Len(published) = MaxClaims
=============================================================================
