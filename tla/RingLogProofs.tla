----------------------------- MODULE RingLogProofs ----------------------------
(***************************************************************************)
(* One-copy use of the ring implements ChannelLog.  The refinement mapping *)
(* is Ring's Log; its steps need the one-copy invariant and, for Publish,  *)
(* that what a slot holds was written by some claim.                       *)
(***************************************************************************)
EXTENDS RingOneCopyProofs

(* Every word of every slot carries the stamp of a claim already made, and *)
(* claims stay within the bound.                                           *)
StampsBounded ==
    /\ claims <= MaxClaims
    /\ \A i \in Slots : \A w \in Words : payload[i][w] <= claims
    /\ \A h \in handles : h.stamp <= claims
    /\ wpc \in {"probe", "zero"} => claims < MaxClaims

StampInv == TypeOK /\ StampsBounded

(* Storing a stamp that was handed out keeps the payloads bounded. *)
LEMMA StampPayload ==
    ASSUME TypeOK, NEW i \in Slots, NEW w \in Words, NEW s \in Nat,
           s <= claims,
           \A j \in Slots : \A v \in Words : payload[j][v] <= claims,
           payload' = [payload EXCEPT ![i][w] = s]
    PROVE  \A j \in Slots : \A v \in Words : payload'[j][v] <= claims
<1>1. payload \in [Slots -> [Words -> Nat]]
  BY DEF TypeOK, SegTypeOK, Payload
<1>2. \A j \in Slots : \A v \in Words :
          payload'[j][v] = s \/ payload'[j][v] = payload[j][v]
  BY <1>1
<1> QED
  BY <1>2

(* The writer keeps the stamps bounded. *)
LEMMA StampWriter ==
    ASSUME StampInv, WriterNext
    PROVE  StampsBounded'
<1> USE DEF segVars, callVars, cursor, writerVars
<1>0. /\ TypeOK /\ StampsBounded /\ claims \in Nat /\ MaxClaims \in Nat
      /\ wIndex \in Slots
      /\ \A h \in handles : h.index \in Slots /\ h.stamp \in Nat
      /\ \A i \in Slots : \A w \in Words : payload[i][w] \in Nat
  BY WriterAssumption
     DEF StampInv, TypeOK, SegTypeOK, WriterTypeOK, Handle, Payload
<1>1. ASSUME UNCHANGED <<payload, claims>>, handles' \subseteq handles,
             wpc' \in {"probe", "zero"} => claims < MaxClaims
      PROVE  StampsBounded'
  BY <1>0, <1>1 DEF StampsBounded
<1>2. CASE Attach
  BY <1>1, <1>2 DEF Attach, AttachFrom
<1>3. CASE Write \/ TryAcquire
  BY <1>1, <1>3 DEF Write, TryAcquire, Call
<1>4. CASE ProbeHeld \/ ProbeBusy \/ ProbeFree
  BY <1>0, <1>1, <1>4 DEF ProbeHeld, ProbeBusy, ProbeFree, StampsBounded
<1>5. CASE Claim
  <2>1. /\ claims' = claims + 1 /\ claims < MaxClaims
        /\ UNCHANGED payload /\ wpc' \in {"copy", "idle"}
        /\ \A h \in handles' : h \in handles \/ h.stamp = claims + 1
    BY <1>0, <1>5 DEF Claim, StampsBounded
  <2> QED
    BY <1>0, <2>1 DEF StampsBounded
<1>6. ASSUME NEW w \in Words, CopyIn(w)
      PROVE  StampsBounded'
  <2>1. /\ payload' = [payload EXCEPT ![wIndex][w] = claims]
        /\ UNCHANGED <<claims, wpc, handles>>
    BY <1>6 DEF CopyIn
  <2>2. \A j \in Slots : \A v \in Words : payload'[j][v] <= claims
    BY <1>0, <2>1, StampPayload DEF StampsBounded
  <2> QED
    BY <1>0, <2>1, <2>2 DEF StampsBounded
<1>7. ASSUME NEW h \in handles, NEW w \in Words, Fill(h, w)
      PROVE  StampsBounded'
  <2>1. /\ payload' = [payload EXCEPT ![h.index][w] = h.stamp]
        /\ UNCHANGED <<claims, wpc, handles>>
    BY <1>7 DEF Fill
  <2>2. \A j \in Slots : \A v \in Words : payload'[j][v] <= claims
    BY <1>0, <2>1, StampPayload DEF StampsBounded
  <2> QED
    BY <1>0, <2>1, <2>2 DEF StampsBounded
<1>8. CASE PublishWrite
  BY <1>1, <1>8 DEF PublishWrite, StoreSeq
<1>9. ASSUME NEW h \in handles, Commit(h)
      PROVE  StampsBounded'
  BY <1>1, <1>9 DEF Commit, StoreSeq
<1>10. ASSUME NEW h \in handles, DropHandle(h)
       PROVE  StampsBounded'
  BY <1>0, <1>1, <1>10 DEF DropHandle, StampsBounded
<1>11. CASE PersistIndex
  BY <1>1, <1>11 DEF PersistIndex
<1>12. CASE PersistMark
  BY <1>1, <1>12 DEF PersistMark
<1>13. CASE WriterGone
  BY <1>1, <1>13 DEF WriterGone
<1> QED
  BY <1>2, <1>3, <1>4, <1>5, <1>6, <1>7, <1>8, <1>9, <1>10, <1>11, <1>12,
     <1>13 DEF WriterNext

(* A reader writes no payload, so it keeps the stamps bounded. *)
LEMMA StampReader ==
    ASSUME StampInv, NEW r \in Readers, ReaderNext(r), UNCHANGED writerVars
    PROVE  StampsBounded'
<1>1. UNCHANGED <<payload, claims>>
  BY DEF ReaderNext, UpToDate, ReadInto, TryAcquireRead, Begin, FastHit,
     FastMiss, ScanSlot, ScanFound, ScanEmpty, CopyOut, RecheckOk, CasOk,
     Retry, GiveUp, Release, Forget, ReaderGone, segVars
<1> QED
  BY <1>1 DEF StampInv, StampsBounded, writerVars

(* StampInv holds initially. *)
LEMMA StampInit == Init => StampInv
<1> SUFFICES ASSUME Init PROVE StampInv
  OBVIOUS
<1>1. StampsBounded
  BY WriterAssumption DEF Init, SegInit, WriterInit, StampsBounded, Blank
<1> QED
  BY <1>1, TypeInit DEF StampInv

(* StampInv is inductive. *)
LEMMA StampStep == StampInv /\ [Next]_vars => StampInv'
<1> SUFFICES ASSUME StampInv, [Next]_vars PROVE StampInv'
  OBVIOUS
<1>1. CASE WriterNext /\ UNCHANGED rd
  BY <1>1, TypeWriter, StampWriter DEF StampInv
<1>2. ASSUME NEW r \in Readers, ReaderNext(r), UNCHANGED writerVars
      PROVE  StampInv'
  BY <1>2, TypeReader, StampReader DEF StampInv
<1>3. CASE UNCHANGED vars
  <2>1. TypeOK'
    BY <1>3 DEF vars, segVars, writerVars, callVars, cursor, StampInv,
       TypeOK, SegTypeOK, WriterTypeOK, ReaderTypeOK
  <2>2. StampsBounded'
    BY <1>3 DEF vars, segVars, writerVars, StampInv, StampsBounded
  <2> QED
    BY <2>1, <2>2 DEF StampInv
<1> QED
  BY <1>1, <1>2, <1>3, NextSplit

-----------------------------------------------------------------------------

(* How a reader's new record shows in the log's variables. *)
LEMMA LogRecord ==
    ASSUME TypeOK, NEW r \in Readers, NEW new, rd' = [rd EXCEPT ![r] = new]
    PROVE  /\ LogPos' = [LogPos EXCEPT ![r] = new.lastSeq]
           /\ LogOut' = [LogOut EXCEPT ![r] = Result(new)]
<1>1. rd \in [Readers -> Reader]
  BY DEF TypeOK, ReaderTypeOK
<1>2. \A q \in Readers : rd'[q] = IF q = r THEN new ELSE rd[q]
  BY <1>1
<1>3. LogPos' = [LogPos EXCEPT ![r] = new.lastSeq]
  <2>1. LogPos' = [q \in Readers |-> rd'[q].lastSeq]
    BY DEF LogPos
  <2>2. \A q \in Readers :
            rd'[q].lastSeq = IF q = r THEN new.lastSeq ELSE rd[q].lastSeq
    BY <1>2
  <2>3. LogPos' = [q \in Readers |->
                      IF q = r THEN new.lastSeq ELSE rd[q].lastSeq]
    BY <2>1, <2>2, Zenon
  <2>4. [LogPos EXCEPT ![r] = new.lastSeq] =
            [q \in Readers |-> IF q = r THEN new.lastSeq ELSE rd[q].lastSeq]
    BY DEF LogPos
  <2> QED
    BY <2>3, <2>4
<1>4. LogOut' = [LogOut EXCEPT ![r] = Result(new)]
  <2>1. LogOut' = [q \in Readers |-> Result(rd'[q])]
    BY DEF LogOut, Result
  <2>2. \A q \in Readers :
            Result(rd'[q]) = IF q = r THEN Result(new) ELSE Result(rd[q])
    BY <1>2
  <2>3. LogOut' = [q \in Readers |->
                      IF q = r THEN Result(new) ELSE Result(rd[q])]
    BY <2>1, <2>2, Zenon
  <2>4. [LogOut EXCEPT ![r] = Result(new)] =
            [q \in Readers |-> IF q = r THEN Result(new) ELSE Result(rd[q])]
    BY DEF LogOut
  <2> QED
    BY <2>3, <2>4
<1> QED
  BY <1>3, <1>4

(* A record with the same position and result is a stuttering step. *)
LEMMA LogStutter ==
    ASSUME TypeOK, NEW r \in Readers, NEW new, rd' = [rd EXCEPT ![r] = new],
           new.lastSeq = rd[r].lastSeq, Result(new) = Result(rd[r]),
           UNCHANGED published
    PROVE  UNCHANGED Log!vars
<1>1. LogPos[r] = rd[r].lastSeq /\ LogOut[r] = Result(rd[r])
  BY DEF LogPos, LogOut
<1>2. LogPos' = LogPos
  BY <1>1, LogRecord DEF LogPos
<1>3. LogOut' = LogOut
  BY <1>1, LogRecord DEF LogOut
<1> QED
  BY <1>2, <1>3 DEF Log!vars

(* A step of the writer publishes one whole entry or stutters in the log. *)
LEMMA LogWriter ==
    ASSUME StampInv, WriterNext, UNCHANGED rd
    PROVE  [Log!Next]_(Log!vars)
<1> USE DEF segVars, callVars, cursor, writerVars
<1>0. UNCHANGED <<LogPos, LogOut>>
  BY DEF LogPos, LogOut, Result
<1>1. ASSUME UNCHANGED published PROVE UNCHANGED Log!vars
  BY <1>0, <1>1 DEF Log!vars
<1>2. ASSUME NEW i \in Slots, StoreSeq(i) PROVE Log!Next
  <2>1. payload[i] \in [Words -> 0 .. MaxClaims]
    <3>1. payload[i] \in [Words -> Nat] /\ claims \in Nat /\ MaxClaims \in Nat
      BY WriterAssumption DEF StampInv, TypeOK, SegTypeOK, Payload
    <3>2. \A w \in Words : payload[i][w] \in 0 .. MaxClaims
      BY <3>1 DEF StampInv, StampsBounded
    <3> QED
      BY <3>1, <3>2
  <2>2. published' = Append(published, payload[i])
    BY <1>2 DEF StoreSeq
  <2>3. Log!Publish
    BY <1>0, <2>1, <2>2 DEF Log!Publish
  <2> QED
    BY <2>3 DEF Log!Next
<1>3. CASE PublishWrite
  <2>1. wIndex \in Slots /\ StoreSeq(wIndex)
    BY <1>3 DEF PublishWrite, StampInv, TypeOK, WriterTypeOK
  <2> QED
    BY <1>2, <2>1
<1>4. ASSUME NEW h \in handles, Commit(h) PROVE Log!Next
  <2>1. h.index \in Slots /\ StoreSeq(h.index)
    BY <1>4 DEF Commit, StampInv, TypeOK, WriterTypeOK, Handle
  <2> QED
    BY <1>2, <2>1
<1>5. \/ UNCHANGED published \/ PublishWrite \/ \E h \in handles : Commit(h)
  BY DEF WriterNext, Attach, AttachFrom, Write, TryAcquire, Call, ProbeHeld, ProbeBusy,
     ProbeFree, Claim, CopyIn, Fill, DropHandle, PersistIndex, PersistMark,
     WriterGone
<1> QED
  BY <1>1, <1>3, <1>4, <1>5

(* A step of a reader is Ask, Deliver, Restart or a stutter in the log. *)
LEMMA LogReader ==
    ASSUME OneCopyUse, OneCopyInv, NEW r \in Readers, ReaderNext(r)
    PROVE  [Log!Next]_(Log!vars)
<1> DEFINE rec == rd[r]
<1>0. /\ rec \in Reader /\ TypeOK /\ ReaderSound(rec) /\ CallSound(rec)
      /\ LogPos[r] = rec.lastSeq
  BY DEF OneCopyInv, TypeOK, ReaderTypeOK, ReadersSound, ReaderSound, LogPos
<1>1. \A new : /\ rd' = [rd EXCEPT ![r] = new] /\ UNCHANGED segVars
               /\ new.lastSeq = rec.lastSeq /\ Result(new) = Result(rec)
               => UNCHANGED Log!vars
  BY <1>0, LogStutter DEF segVars
<1>2. \A new : /\ rd' = [rd EXCEPT ![r] = new] /\ UNCHANGED segVars
               /\ new.lastSeq = rec.lastSeq /\ new.got = 0
               => Log!Next
  <2> SUFFICES ASSUME NEW new, rd' = [rd EXCEPT ![r] = new],
                      UNCHANGED segVars, new.lastSeq = rec.lastSeq,
                      new.got = 0
               PROVE  Log!Next
    OBVIOUS
  <2>1. LogPos' = LogPos
    BY <1>0, LogRecord DEF LogPos
  <2>2. LogOut' = [LogOut EXCEPT ![r] = <<>>]
    BY <1>0, LogRecord DEF Result
  <2>3. Log!Ask(r)
    BY <2>1, <2>2 DEF Log!Ask, segVars
  <2> QED
    BY <2>3 DEF Log!Next
<1>3. CASE UpToDate(r)
  <2> DEFINE new == [rec EXCEPT !.dst = Blank, !.got = 0]
  <2>1. rd' = [rd EXCEPT ![r] = new] /\ UNCHANGED segVars
    BY <1>3 DEF UpToDate
  <2>2. new.lastSeq = rec.lastSeq /\ new.got = 0
    BY <1>0 DEF Reader
  <2> HIDE DEF new
  <2> QED
    BY <1>2, <2>1, <2>2
<1>4. CASE ReadInto(r)
  <2>1. PICK m : rd' = [rd EXCEPT ![r] =
                 [rec EXCEPT !.pc = "fast", !.call = "read", !.mark = m,
                             !.dst = Blank, !.got = 0]]
    BY <1>4 DEF ReadInto, Begin
  <2> DEFINE new == [rec EXCEPT !.pc = "fast", !.call = "read", !.mark = m,
                                !.dst = Blank, !.got = 0]
  <2>2. new.lastSeq = rec.lastSeq /\ new.got = 0
    BY <1>0 DEF Reader
  <2>3. rd' = [rd EXCEPT ![r] = new] /\ UNCHANGED segVars
    BY <1>4, <2>1 DEF ReadInto, Begin
  <2> HIDE DEF new
  <2> QED
    BY <1>2, <2>2, <2>3
<1>5. CASE TryAcquireRead(r) \/ CasOk(r)
  BY <1>0, <1>5 DEF TryAcquireRead, CasOk, OneCopyUse, CallSound
<1>6. CASE FastHit(r)
  <2> DEFINE next == SlotAfter(rec.lastIdx)
             new == [rec EXCEPT !.pc = AfterLocate(rec), !.idx = next,
                                !.seq = seq[next], !.since = Len(published)]
  <2>1. rd' = [rd EXCEPT ![r] = new] /\ UNCHANGED segVars
    BY <1>6 DEF FastHit
  <2>2. new.lastSeq = rec.lastSeq /\ Result(new) = Result(rec)
    BY <1>0 DEF Reader, Result
  <2> HIDE DEF new
  <2> QED
    BY <1>1, <2>1, <2>2
<1>7. CASE FastMiss(r)
  <2> DEFINE new == [rec EXCEPT !.pc = "scan", !.since = Len(published)]
  <2>1. rd' = [rd EXCEPT ![r] = new] /\ UNCHANGED segVars
    BY <1>7 DEF FastMiss
  <2>2. new.lastSeq = rec.lastSeq /\ Result(new) = Result(rec)
    BY <1>0 DEF Reader, Result
  <2> HIDE DEF new
  <2> QED
    BY <1>1, <2>1, <2>2
<1>8. CASE ScanSlot(r) \/ ScanFound(r)
  <2> DEFINE sc == Scanned(rec)
  <2>0. rec.pc = "scan" /\ UNCHANGED segVars
    BY <1>8 DEF ScanSlot, ScanFound
  <2>1. /\ sc \in Reader /\ sc.lastSeq = rec.lastSeq
        /\ sc.got = rec.got /\ sc.dst = rec.dst
    BY <1>0, <2>0, ScanRound DEF OneCopyInv
  <2>2. PICK new : /\ rd' = [rd EXCEPT ![r] = new]
                   /\ \/ new = [sc EXCEPT !.scan = rec.scan + 1]
                      \/ new = [sc EXCEPT !.pc = AfterLocate(rec), !.scan = 0]
    BY <1>8 DEF ScanSlot, ScanFound
  <2> HIDE DEF sc
  <2>3. new.lastSeq = sc.lastSeq /\ new.got = sc.got /\ new.dst = sc.dst
    BY <2>1, <2>2 DEF Reader
  <2>4. Result(new) = Result(rec)
    BY <2>1, <2>3 DEF Result
  <2> QED
    BY <1>1, <2>0, <2>1, <2>2, <2>3, <2>4
<1>9. CASE ScanEmpty(r) \/ GiveUp(r)
  <2>1. rd' = [rd EXCEPT ![r] = Returned(rec)] /\ UNCHANGED segVars
    BY <1>9 DEF ScanEmpty, GiveUp
  <2>2. /\ Returned(rec).lastSeq = rec.lastSeq
        /\ Returned(rec).got = rec.got /\ Returned(rec).dst = rec.dst
    BY <1>0 DEF Returned, Reader
  <2>3. Result(Returned(rec)) = Result(rec)
    BY <2>2 DEF Result
  <2> QED
    BY <1>1, <2>1, <2>2, <2>3
<1>10. ASSUME NEW w \in Words, CopyOut(r, w)
       PROVE  [Log!Next]_(Log!vars)
  <2> DEFINE dst == [rec.dst EXCEPT ![w] = payload[rec.idx][w]]
             new == [rec EXCEPT !.dst = dst, !.copied = rec.copied \cup {w}]
  <2>1. rd' = [rd EXCEPT ![r] = new] /\ UNCHANGED segVars /\ rec.pc = "copy"
    BY <1>10 DEF CopyOut
  <2>2. new.lastSeq = rec.lastSeq /\ new.got = rec.got
    BY <1>0 DEF Reader
  <2>3. rec.got = 0
    BY <1>0, <2>1 DEF CallSound
  <2> HIDE DEF new
  <2>4. Result(new) = Result(rec)
    BY <2>2, <2>3 DEF Result
  <2> QED
    BY <1>1, <2>1, <2>2, <2>4
<1>11. CASE RecheckOk(r)
  <2> DEFINE new == [Returned(rec) EXCEPT !.got = rec.seq, !.lastSeq = rec.seq,
                                          !.lastIdx = rec.idx]
  <2>1. /\ rd' = [rd EXCEPT ![r] = new] /\ UNCHANGED segVars
        /\ rec.pc = "copy" /\ rec.copied = Words /\ seq[rec.idx] = rec.seq
    BY <1>11 DEF RecheckOk, StillThere
  <2>2. Returned(rec) \in Reader /\ Returned(rec).dst = rec.dst
    BY <1>0, ReturnedType DEF Returned, Reader
  <2>3. new.got = rec.seq /\ new.dst = rec.dst /\ new.lastSeq = rec.seq
    BY <2>2 DEF Reader
  <2> HIDE DEF new
  <2>4. /\ rec.seq \in 1 .. Len(published) /\ rec.seq # 0
        /\ \E m \in {LogPos[r]} \cup FromSeqs : rec.seq > m
    BY <1>0, <2>1 DEF CallSound, Reader
  <2>5. rec.dst = published[rec.seq]
    <3>1. published[rec.seq] \in Payload /\ rec.dst \in Payload
      BY <1>0, <2>4 DEF TypeOK, SegTypeOK, Reader
    <3>2. \A w \in Words : rec.dst[w] = published[rec.seq][w]
      BY <1>0, <2>1 DEF ReaderSound, CopySound
    <3> QED
      BY <3>1, <3>2 DEF Payload
  <2>6. Result(new) = <<[seq |-> rec.seq, data |-> published[rec.seq]]>>
    BY <2>3, <2>4, <2>5 DEF Result
  <2>7. /\ LogPos' = [LogPos EXCEPT ![r] = new.lastSeq]
        /\ LogOut' = [LogOut EXCEPT ![r] = Result(new)]
    BY <1>0, <2>1, LogRecord, Zenon
  <2>8. LogPos' = [LogPos EXCEPT ![r] = rec.seq]
    BY <2>3, <2>7, Zenon
  <2>9. LogOut' = [LogOut EXCEPT
                     ![r] = <<[seq |-> rec.seq, data |-> published[rec.seq]]>>]
    BY <2>6, <2>7, Zenon
  <2>10. Log!Deliver(r, rec.seq)
    BY <2>1, <2>4, <2>8, <2>9 DEF Log!Deliver, segVars
  <2> QED
    BY <2>4, <2>10 DEF Log!Next
<1>12. CASE Retry(r)
  <2> DEFINE new == [rec EXCEPT !.pc = "fast", !.tries = rec.tries + 1,
                                !.idx = 0, !.seq = 0, !.since = 0,
                                !.copied = {}]
  <2>1. rd' = [rd EXCEPT ![r] = new] /\ UNCHANGED segVars
    BY <1>12 DEF Retry
  <2>2. new.lastSeq = rec.lastSeq /\ Result(new) = Result(rec)
    BY <1>0 DEF Reader, Result
  <2> HIDE DEF new
  <2> QED
    BY <1>1, <2>1, <2>2
<1>13. ASSUME NEW h \in rec.held, Release(r, h)
       PROVE  [Log!Next]_(Log!vars)
  BY <1>0 DEF CallSound
<1>14. ASSUME NEW h \in rec.held, Forget(r, h)
       PROVE  [Log!Next]_(Log!vars)
  BY <1>0 DEF CallSound
<1>15. CASE ReaderGone(r)
  <2>1. rd' = [rd EXCEPT ![r] = Fresh] /\ UNCHANGED published
    BY <1>15 DEF ReaderGone, segVars
  <2>2. Fresh.lastSeq = 0 /\ Result(Fresh) = <<>>
    BY DEF Fresh, Result
  <2>3. /\ LogPos' = [LogPos EXCEPT ![r] = Fresh.lastSeq]
        /\ LogOut' = [LogOut EXCEPT ![r] = Result(Fresh)]
    BY <1>0, <2>1, LogRecord, Zenon
  <2>4. LogPos' = [LogPos EXCEPT ![r] = 0] /\ LogOut' = [LogOut EXCEPT ![r] = <<>>]
    BY <2>2, <2>3, Zenon
  <2>5. Log!Restart(r)
    BY <2>1, <2>4 DEF Log!Restart
  <2> QED
    BY <2>5 DEF Log!Next
<1> QED
  BY <1>3, <1>4, <1>5, <1>6, <1>7, <1>8, <1>9, <1>10, <1>11, <1>12, <1>13,
     <1>14, <1>15 DEF ReaderNext

(* The initial states of the ring map to the empty log. *)
LEMMA LogInit == Init => Log!Init
<1> SUFFICES ASSUME Init PROVE Log!Init
  OBVIOUS
<1>1. Fresh.lastSeq = 0 /\ Result(Fresh) = <<>>
  BY DEF Fresh, Result
<1>2. \A r \in Readers : rd[r] = Fresh
  BY DEF Init, ReaderInit
<1>3. LogPos = [r \in Readers |-> 0] /\ LogOut = [r \in Readers |-> <<>>]
  BY <1>1, <1>2 DEF LogPos, LogOut
<1> QED
  BY <1>3 DEF Init, SegInit, Log!Init

(* Every step of one-copy use is a step of the log or a stutter. *)
LEMMA LogStep ==
    ASSUME OneCopyUse, OneCopyInv, StampInv, [Next]_vars
    PROVE  [Log!Next]_(Log!vars)
<1>1. CASE WriterNext /\ UNCHANGED rd
  BY <1>1, LogWriter
<1>2. ASSUME NEW r \in Readers, ReaderNext(r), UNCHANGED writerVars
      PROVE  [Log!Next]_(Log!vars)
  BY <1>2, LogReader
<1>3. CASE UNCHANGED vars
  BY <1>3 DEF vars, segVars, Log!vars, LogPos, LogOut, Result
<1> QED
  BY <1>1, <1>2, <1>3, NextSplit

(* One-copy use of the ring implements the log: entries are appended whole *)
(* and once, and every successful read moves its reader forward to an      *)
(* entry of the log and returns that entry unaltered.                      *)
THEOREM OneCopyImplementsLog ==
    ASSUME OneCopyUse PROVE Spec => ImplementsLog
<1>1. OneCopyInv /\ StampInv /\ [Next]_vars => [Log!Next]_(Log!vars)
  BY LogStep
<1>2. Spec => []StampInv
  BY StampInit, StampStep, PTL DEF Spec
<1> QED
  BY <1>1, <1>2, LogInit, OneCopyInvariant, PTL
     DEF Spec, ImplementsLog, Log!Spec
=============================================================================
