---------------------------- MODULE ChannelProofs ----------------------------
(***************************************************************************)
(* A channel whose writers bind with a header they decoded before they     *)
(* held the role, for any number of writers, crashes and openers.          *)
(*                                                                         *)
(* In one-copy use the stale index costs retention (ChannelStaleHeader);   *)
(* it costs neither the numbering, nor the promise in the header, nor the  *)
(* integrity of a read, nor the order of the watermark.  In every use no   *)
(* number appears that was not committed; but with a zero-copy reader a    *)
(* stale watermark can come back (ChannelMarkBack), and only a fresh one   *)
(* cannot.                                                                 *)
(***************************************************************************)
EXTENDS Channel, RingOneCopyProofs

(* What an opener has decoded was true of the header once.                 *)
SeenSound ==
    /\ seen \in [Openers -> Opening]
    /\ \A c \in Openers : seen[c].mark <= Len(published)

ChannelInv == OneCopyInv /\ SeenSound

(* ChannelInv holds initially. *)
LEMMA ChannelInvInit ==
    ASSUME OneCopyUse, ChannelInit
    PROVE  ChannelInv
<1>1. OneCopyInv /\ published = <<>>
  BY OneCopyInit DEF ChannelInit, Init, SegInit
<1>2. SeenSound
  BY <1>1 DEF ChannelInit, SeenSound, NotOpening, Opening, Unread
<1> QED
  BY <1>1, <1>2 DEF ChannelInv

(* The log of committed entries only grows. *)
LEMMA LogGrows ==
    ASSUME TypeOK, Operate
    PROVE  Len(published') \in Nat /\ Len(published) <= Len(published')
<1>1. Len(published) \in Nat /\ published \in Seq(Payload)
  BY DEF TypeOK, SegTypeOK
<1>2. ASSUME NEW i, StoreSeq(i)
      PROVE  Len(published') = Len(published) + 1
  BY <1>1, <1>2 DEF StoreSeq
<1>3. ASSUME NEW r \in Readers, ReaderNext(r) PROVE UNCHANGED published
  BY <1>3 DEF ReaderNext, UpToDate, ReadInto, TryAcquireRead, Begin, FastHit,
     FastMiss, ScanSlot, ScanFound, ScanEmpty, CopyOut, RecheckOk, CasOk,
     Retry, GiveUp, Release, Forget, ReaderGone, segVars
<1>4. ASSUME WriterNext
      PROVE  UNCHANGED published \/ PublishWrite \/ \E h \in handles : Commit(h)
  BY <1>4 DEF WriterNext, Attach, AttachFrom, Write, TryAcquire, Call,
     ProbeHeld, ProbeBusy, ProbeFree, Claim, CopyIn, Fill, DropHandle,
     PersistIndex, PersistMark, WriterGone, segVars
<1>5. \/ UNCHANGED published
      \/ \E i : StoreSeq(i)
  <2>1. \/ WriterNext
        \/ \E r \in Readers : ReaderNext(r)
    BY NextSplit DEF Next
  <2> QED
    BY <1>3, <1>4, <2>1 DEF PublishWrite, Commit
<1> QED
  BY <1>1, <1>2, <1>5

(* Only publish's last store moves the watermark. *)
LEMMA MarkMoves ==
    ASSUME Operate
    PROVE  UNCHANGED highWatermark \/ PersistMark
<1>1. ASSUME NEW r \in Readers, ReaderNext(r) PROVE UNCHANGED highWatermark
  BY <1>1 DEF ReaderNext, UpToDate, ReadInto, TryAcquireRead, Begin, FastHit,
     FastMiss, ScanSlot, ScanFound, ScanEmpty, CopyOut, RecheckOk, CasOk,
     Retry, GiveUp, Release, Forget, ReaderGone, segVars
<1>2. ASSUME WriterNext PROVE UNCHANGED highWatermark \/ PersistMark
  BY <1>2 DEF WriterNext, Attach, AttachFrom, Write, TryAcquire, Call,
     ProbeHeld, ProbeBusy, ProbeFree, Claim, CopyIn, PublishWrite, Fill,
     Commit, DropHandle, PersistIndex, WriterGone, segVars
<1>3. \/ WriterNext
      \/ \E r \in Readers : ReaderNext(r)
  BY NextSplit DEF Next
<1> QED
  BY <1>1, <1>2, <1>3

(* The counter of a running writer is not behind the header.               *)
MarkBehind == wpc # "down" => highWatermark <= lastEntrySeq

(* A writer that is not behind the header does not move the watermark back.*)
LEMMA MarkForward ==
    ASSUME TypeOK, MarkBehind, [ChannelNext]_channelVars
    PROVE  highWatermark' >= highWatermark
<1>0. highWatermark \in Nat
  BY DEF TypeOK, SegTypeOK
<1>1. UNCHANGED highWatermark \/ PersistMark
  BY MarkMoves DEF ChannelNext, ReadIndex, ReadMark, Bind, AttachFrom,
     RoleConflict, channelVars, vars, segVars
<1> QED
  BY <1>0, <1>1 DEF PersistMark, Advertised, MarkBehind

(* ChannelInv is inductive: a bind with a stale header is as good as any   *)
(* to recover_state, and an opener changes nothing but what it has seen.   *)
LEMMA ChannelStep ==
    ASSUME OneCopyUse, ChannelInv, [ChannelNext]_channelVars
    PROVE  ChannelInv'
<1>0. /\ OneCopyInv /\ TypeOK /\ SeenSound
      /\ writeIndex \in Slots /\ highWatermark \in Nat
      /\ Len(published) \in Nat /\ highWatermark <= Len(published)
  BY DEF ChannelInv, OneCopyInv, WriterSound, TypeOK, SegTypeOK
<1>1. ASSUME UNCHANGED vars PROVE OneCopyInv'
  BY <1>0, <1>1, OneCopyStep
<1>2. ASSUME NEW c \in Openers, ReadIndex(c) PROVE ChannelInv'
  <2>1. SeenSound'
    BY <1>0, <1>2 DEF ReadIndex, SeenSound, Opening, vars, segVars
  <2> QED
    BY <1>1, <1>2, <2>1 DEF ReadIndex, ChannelInv
<1>3. ASSUME NEW c \in Openers, ReadMark(c) PROVE ChannelInv'
  <2>1. SeenSound'
    BY <1>0, <1>3 DEF ReadMark, SeenSound, Opening, vars, segVars
  <2> QED
    BY <1>1, <1>3, <2>1 DEF ReadMark, ChannelInv
<1>4. ASSUME NEW c \in Openers, RoleConflict(c) PROVE ChannelInv'
  <2>1. SeenSound'
    BY <1>0, <1>4 DEF RoleConflict, SeenSound, Opening, NotOpening, Unread,
       vars, segVars
  <2> QED
    BY <1>1, <1>4, <2>1 DEF RoleConflict, ChannelInv
<1>5. ASSUME NEW c \in Openers, Bind(c) PROVE ChannelInv'
  <2> DEFINE index == seen[c].index
             mark == seen[c].mark
  <2>1. /\ index \in Slots /\ mark \in Nat /\ mark <= Len(published)
        /\ AttachFrom(index, mark) /\ UNCHANGED rd
    BY <1>0, <1>5 DEF Bind, Decoded, SeenSound, Opening, Unread
  <2> HIDE DEF index, mark
  <2>2. UNCHANGED <<seq, payload, published>>
    BY <2>1 DEF AttachFrom, segVars
  <2>3. WriterSound'
    BY <1>0, <2>1, OneCopyAttach
  <2>4. TypeOK'
    BY <1>0, <2>1, TypeAttach
  <2>5. OneCopyInv'
    BY <1>0, <2>1, <2>2, <2>3, <2>4, OneCopyQuiet DEF OneCopyInv
  <2>6. SeenSound'
    BY <1>0, <1>5, <2>2 DEF Bind, SeenSound, Opening, NotOpening, Unread
  <2> QED
    BY <2>5, <2>6 DEF ChannelInv
<1>6. CASE Operate /\ UNCHANGED seen
  <2>1. OneCopyInv'
    BY <1>0, <1>6, OneCopyStep DEF Next
  <2>2. SeenSound'
    <3>1. Len(published') \in Nat /\ Len(published) <= Len(published')
      BY <1>0, <1>6, LogGrows
    <3>2. \A c \in Openers : seen[c].mark \in Int
      BY <1>0 DEF SeenSound, Opening, Unread
    <3> QED
      BY <1>0, <1>6, <3>1, <3>2 DEF SeenSound
  <2> QED
    BY <2>1, <2>2 DEF ChannelInv
<1>7. CASE UNCHANGED channelVars
  <2>1. UNCHANGED vars /\ UNCHANGED <<seen, published>>
    BY <1>7 DEF channelVars, vars, segVars
  <2> QED
    BY <1>0, <1>1, <2>1 DEF ChannelInv, SeenSound
<1> QED
  BY <1>2, <1>3, <1>4, <1>5, <1>6, <1>7 DEF ChannelNext

(* ChannelInv holds throughout every one-copy use of the channel. *)
THEOREM ChannelInvariant ==
    ASSUME OneCopyUse
    PROVE  ChannelSpec => []ChannelInv
<1>1. ChannelInit => ChannelInv
  BY ChannelInvInit
<1>2. ChannelInv /\ [ChannelNext]_channelVars => ChannelInv'
  BY ChannelStep
<1> QED
  BY <1>1, <1>2, PTL DEF ChannelSpec

(* However stale the header a writer binds with, and however often writers *)
(* die, the next number is that of the next entry.                         *)
THEOREM ChannelResumeExact ==
    ASSUME OneCopyUse
    PROVE  ChannelSpec => []ResumeExact
<1>1. ChannelInv => ResumeExact
  BY DEF ChannelInv, OneCopyInv, WriterSound, ResumeExact
<1> QED
  BY <1>1, ChannelInvariant, PTL

(* A writer that binds with a stale header never overwrites the entry the  *)
(* watermark stands for first: the header's promise survives.              *)
THEOREM ChannelPromiseKept ==
    ASSUME OneCopyUse
    PROVE  ChannelSpec => []PromiseKept
<1>1. ChannelInv => PromiseKept
  <2> SUFFICES ASSUME ChannelInv, highWatermark > 0
               PROVE  \E i \in Slots : seq[i] >= highWatermark
    BY DEF PromiseKept
  <2>1. /\ Len(published) \in Nat /\ highWatermark \in Nat
        /\ highWatermark <= Len(published) /\ NewestKept
    BY DEF ChannelInv, OneCopyInv, WriterSound, TypeOK, SegTypeOK
  <2>2. PICK i \in Slots : seq[i] = Len(published)
    BY <2>1 DEF NewestKept
  <2> QED
    BY <2>1, <2>2
<1> QED
  BY <1>1, ChannelInvariant, PTL

(* A read stays whole and says what was committed under its number, even   *)
(* while a stale writer recycles recent slots.                             *)
THEOREM ChannelUntornRead ==
    ASSUME OneCopyUse
    PROVE  ChannelSpec => []UntornRead
<1>1. ChannelInv => UntornRead
  BY DEF ChannelInv, OneCopyInv, ReadersSound, ReaderSound, CopySound,
     UntornRead
<1> QED
  BY <1>1, ChannelInvariant, PTL

(* One-copy readers never see the watermark move back, however stale the   *)
(* header the next writer binds with.                                      *)
THEOREM ChannelWatermarkMonotone ==
    ASSUME OneCopyUse
    PROVE  ChannelSpec => WatermarkMonotone
<1>1. ASSUME ChannelInv, [ChannelNext]_channelVars
      PROVE  [highWatermark' >= highWatermark]_vars
  <2>1. TypeOK /\ MarkBehind
    BY <1>1 DEF ChannelInv, OneCopyInv, WriterSound, MarkBehind
  <2> QED
    BY <1>1, <2>1, MarkForward
<1> QED
  BY <1>1, ChannelInvariant, PTL DEF ChannelSpec, WatermarkMonotone

-----------------------------------------------------------------------------
(* Every use: zero-copy readers, overlapping write handles, one slot. *)

AnyUseInv == PhantomInv /\ SeenSound

(* AnyUseInv holds initially. *)
LEMMA AnyUseInit == ChannelInit => AnyUseInv
<1> SUFFICES ASSUME ChannelInit PROVE AnyUseInv
  OBVIOUS
<1>1. PhantomInv /\ published = <<>>
  BY PhantomInit DEF ChannelInit, Init, SegInit
<1>2. SeenSound
  BY <1>1 DEF ChannelInit, SeenSound, NotOpening, Opening, Unread
<1> QED
  BY <1>1, <1>2 DEF AnyUseInv

(* What openers decode, and when they bind, is all the same to AnyUseInv.  *)
LEMMA AnyUseStep ==
    ASSUME AnyUseInv, [ChannelNext]_channelVars
    PROVE  AnyUseInv'
<1>0. /\ PhantomInv /\ TypeOK /\ SeenSound
      /\ writeIndex \in Slots /\ highWatermark \in Nat
      /\ Len(published) \in Nat /\ highWatermark <= Len(published)
  BY DEF AnyUseInv, PhantomInv, NoPhantom, TypeOK, SegTypeOK
<1>1. ASSUME UNCHANGED vars PROVE PhantomInv'
  BY <1>0, <1>1, PhantomStep
<1>2. ASSUME NEW c \in Openers, ReadIndex(c) PROVE AnyUseInv'
  <2>1. SeenSound'
    BY <1>0, <1>2 DEF ReadIndex, SeenSound, Opening, vars, segVars
  <2> QED
    BY <1>1, <1>2, <2>1 DEF ReadIndex, AnyUseInv
<1>3. ASSUME NEW c \in Openers, ReadMark(c) PROVE AnyUseInv'
  <2>1. SeenSound'
    BY <1>0, <1>3 DEF ReadMark, SeenSound, Opening, vars, segVars
  <2> QED
    BY <1>1, <1>3, <2>1 DEF ReadMark, AnyUseInv
<1>4. ASSUME NEW c \in Openers, RoleConflict(c) PROVE AnyUseInv'
  <2>1. SeenSound'
    BY <1>0, <1>4 DEF RoleConflict, SeenSound, Opening, NotOpening, Unread,
       vars, segVars
  <2> QED
    BY <1>1, <1>4, <2>1 DEF RoleConflict, AnyUseInv
<1>5. ASSUME NEW c \in Openers, Bind(c) PROVE AnyUseInv'
  <2> DEFINE index == seen[c].index
             mark == seen[c].mark
  <2>1. /\ index \in Slots /\ mark \in Nat /\ mark <= Len(published)
        /\ AttachFrom(index, mark) /\ UNCHANGED rd
    BY <1>0, <1>5 DEF Bind, Decoded, SeenSound, Opening, Unread
  <2> HIDE DEF index, mark
  <2>2. PhantomInv'
    BY <1>0, <2>1, TypeAttach, PhantomAttach DEF PhantomInv
  <2>3. SeenSound'
    BY <1>0, <1>5, <2>1 DEF Bind, AttachFrom, segVars, SeenSound, Opening,
       NotOpening, Unread
  <2> QED
    BY <2>2, <2>3 DEF AnyUseInv
<1>6. CASE Operate /\ UNCHANGED seen
  <2>1. PhantomInv'
    BY <1>0, <1>6, PhantomStep DEF Next
  <2>2. SeenSound'
    <3>1. Len(published') \in Nat /\ Len(published) <= Len(published')
      BY <1>0, <1>6, LogGrows
    <3>2. \A c \in Openers : seen[c].mark \in Int
      BY <1>0 DEF SeenSound, Opening, Unread
    <3> QED
      BY <1>0, <1>6, <3>1, <3>2 DEF SeenSound
  <2> QED
    BY <2>1, <2>2 DEF AnyUseInv
<1>7. CASE UNCHANGED channelVars
  <2>1. UNCHANGED vars /\ UNCHANGED <<seen, published>>
    BY <1>7 DEF channelVars, vars, segVars
  <2> QED
    BY <1>0, <1>1, <2>1 DEF AnyUseInv, SeenSound
<1> QED
  BY <1>2, <1>3, <1>4, <1>5, <1>6, <1>7 DEF ChannelNext

(* Every variable of the ring keeps its type when writers bind with        *)
(* headers of any age.                                                     *)
THEOREM ChannelTypeOK == ChannelSpec => []TypeOK
<1>1. AnyUseInv => TypeOK
  BY DEF AnyUseInv, PhantomInv
<1> QED
  BY <1>1, AnyUseInit, AnyUseStep, PTL DEF ChannelSpec

(* Whatever the two ends do, and however stale the header a writer binds   *)
(* with, no control word and no header shows a number that was not         *)
(* committed.                                                              *)
THEOREM ChannelNoPhantom == ChannelSpec => []NoPhantom
<1>1. AnyUseInv => NoPhantom
  BY DEF AnyUseInv, PhantomInv
<1> QED
  BY <1>1, AnyUseInit, AnyUseStep, PTL DEF ChannelSpec

(* A writer that binds with the header's current watermark is not behind   *)
(* it, and stays so.                                                       *)
LEMMA MarkBehindStep ==
    ASSUME AnyUseInv, MarkBehind, [ChannelNext /\ FreshBind]_channelVars
    PROVE  MarkBehind'
<1>0. /\ highWatermark \in Nat /\ lastEntrySeq \in Nat
      /\ \A i \in Slots : Abs(seq[i]) \in Nat
  BY DEF AnyUseInv, PhantomInv, TypeOK, SegTypeOK, WriterTypeOK, Abs
<1>1. ASSUME UNCHANGED vars PROVE MarkBehind'
  BY <1>1 DEF MarkBehind, vars, segVars, writerVars, cursor
<1>2. ASSUME NEW c \in Openers, Bind(c), FreshBind PROVE MarkBehind'
  <2>1. AttachFrom(seen[c].index, highWatermark)
    BY <1>2 DEF Bind, FreshBind
  <2>2. highWatermark \in RingSeqs(highWatermark)
    BY DEF RingSeqs
  <2> QED
    BY <2>1, <2>2 DEF AttachFrom, MarkBehind, segVars
<1>3. CASE Operate
  <2>1. ASSUME NEW r \in Readers, ReaderNext(r), UNCHANGED writerVars
        PROVE  MarkBehind'
    <3>1. UNCHANGED highWatermark
      BY <2>1 DEF ReaderNext, UpToDate, ReadInto, TryAcquireRead, Begin,
         FastHit, FastMiss, ScanSlot, ScanFound, ScanEmpty, CopyOut, RecheckOk,
         CasOk, Retry, GiveUp, Release, Forget, ReaderGone, segVars
    <3> QED
      BY <2>1, <3>1 DEF MarkBehind, writerVars, cursor
  <2>2. ASSUME NEW i, StoreSeq(i), UNCHANGED highWatermark, wpc # "down"
        PROVE  MarkBehind'
    BY <1>0, <2>2 DEF StoreSeq, MarkBehind
  <2>3. ASSUME PublishWrite \/ \E h \in handles : Commit(h) PROVE MarkBehind'
    BY <2>2, <2>3 DEF PublishWrite, Commit
  <2>4. ASSUME PersistMark PROVE MarkBehind'
    BY <1>0, <2>4 DEF PersistMark, Advertised, MarkBehind, cursor
  <2>5. ASSUME WriterGone PROVE MarkBehind'
    BY <2>5 DEF WriterGone, MarkBehind
  <2>6. ASSUME UNCHANGED <<highWatermark, lastEntrySeq>>, wpc # "down"
        PROVE  MarkBehind'
    BY <2>6 DEF MarkBehind
  <2>7. ASSUME NEW h \in handles, DropHandle(h) PROVE MarkBehind'
    BY <2>7 DEF DropHandle, MarkBehind, segVars, cursor
  <2>8. ASSUME NEW h \in handles, NEW w \in Words, Fill(h, w)
        PROVE  MarkBehind'
    BY <2>8 DEF Fill, MarkBehind, writerVars, cursor
  <2>9. ASSUME \/ Write \/ TryAcquire \/ ProbeHeld \/ ProbeBusy \/ ProbeFree
               \/ Claim \/ PersistIndex \/ \E w \in Words : CopyIn(w)
        PROVE  MarkBehind'
    BY <2>6, <2>9 DEF Write, TryAcquire, Call, ProbeHeld, ProbeBusy,
       ProbeFree, Claim, PersistIndex, CopyIn, segVars, cursor
  <2> QED
    BY <1>3, <2>1, <2>3, <2>4, <2>5, <2>7, <2>8, <2>9
       DEF Operate, ReaderNext
<1> QED
  BY <1>1, <1>2, <1>3 DEF ChannelNext, ReadIndex, ReadMark, RoleConflict,
     channelVars

(* In every use, zero-copy included, the watermark does not go back as     *)
(* long as writers bind with its current value.  Without this it does:     *)
(* ChannelMarkBack.cfg.                                                    *)
THEOREM FreshWatermarkMonotone == FreshSpec => WatermarkMonotone
<1> DEFINE Inv == AnyUseInv /\ MarkBehind
<1>1. ChannelInit => Inv
  BY AnyUseInit DEF ChannelInit, Init, WriterInit, MarkBehind
<1>2. ASSUME Inv, [ChannelNext /\ FreshBind]_channelVars PROVE Inv'
  <2>1. AnyUseInv'
    BY <1>2, AnyUseStep
  <2>2. MarkBehind'
    BY <1>2, MarkBehindStep
  <2> QED
    BY <2>1, <2>2
<1>3. ASSUME Inv, [ChannelNext /\ FreshBind]_channelVars
      PROVE  [highWatermark' >= highWatermark]_vars
  BY <1>3, MarkForward DEF AnyUseInv, PhantomInv
<1> HIDE DEF Inv
<1> QED
  BY <1>1, <1>2, <1>3, PTL DEF FreshSpec, WatermarkMonotone
=============================================================================
