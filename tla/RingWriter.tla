----------------------------- MODULE RingWriter ------------------------------
(***************************************************************************)
(* RawWriter: the single-writer end of the ring.  claim_slot, the payload  *)
(* copy and publish are split at every access to the segment; a crash may  *)
(* fall between any two of them, and the next writer resumes with          *)
(* recover_state.                                                          *)
(***************************************************************************)
EXTENDS Segment

CONSTANTS
    MaxClaims,      \* bound: slots claimed in a behaviour
    MaxRestarts,    \* bound: writers that crash or exit
    WriteCalls,     \* the calls the application makes: "write", "acquire"
    OverlapHandles  \* may a call start while a write handle is outstanding?

ASSUME WriterAssumption ==
    /\ MaxClaims \in Nat
    /\ MaxRestarts \in Nat
    /\ WriteCalls \subseteq {"write", "acquire"}
    /\ OverlapHandles \in BOOLEAN

VARIABLES
    wpc,          \* where the writer is in its call
    wcall,        \* the call: "write" or "acquire"
    wIndex,       \* claim_slot's and publish's index
    probed,       \* claim_slot's n: slots found held so far
    filled,       \* words write() has copied
    currentIndex, \* RawWriter.current_index
    lastEntrySeq, \* RawWriter.last_entry_seq
    handles,      \* write handles taken and neither committed nor dropped
    restarts      \* writers gone so far

callVars == <<wcall, wIndex, probed, filled>>
cursor == <<currentIndex, lastEntrySeq>>
writerVars == <<wpc, callVars, cursor, handles, restarts>>

WriterPc == {"down", "idle", "probe", "zero", "copy", "index", "mark"}
Handle == [index : Slots, stamp : Nat]

WriterTypeOK ==
    /\ wpc \in WriterPc
    /\ wcall \in {"write", "acquire"}
    /\ wIndex \in Slots
    /\ probed \in Slots
    /\ filled \in SUBSET Words
    /\ currentIndex \in Slots
    /\ lastEntrySeq \in Nat
    /\ handles \in SUBSET Handle
    /\ restarts \in Nat

WriterInit ==
    /\ wpc = "down"
    /\ wcall = "write"
    /\ wIndex = 0
    /\ probed = 0
    /\ filled = {}
    /\ currentIndex = 0
    /\ lastEntrySeq = 0
    /\ handles = {}
    /\ restarts = 0

-----------------------------------------------------------------------------

(* recover_state: the sequence numbers it takes the maximum of, given the  *)
(* header's.  Faulty variants: the header is trusted without a scan;       *)
(* numbering starts anew.                                                  *)
RingSeqsNoScan(mark) == {mark}
RingSeqsAnew(mark) == {0}
RingSeqs(mark) == {mark} \cup {Abs(seq[i]) : i \in Slots}

(* recover_state: the header's index, or the slot after it when the slot   *)
(* it points at already holds the newest entry.  Faulty variant: the       *)
(* header's index is trusted.                                              *)
RecoveredIndexAsIs(index, newest) == index
RecoveredIndex(index, newest) ==
    IF Abs(seq[index]) # 0 /\ Abs(seq[index]) = newest
    THEN SlotAfter(index)
    ELSE index

(* RawWriter::attach, with the write index and the watermark of a decoded  *)
(* header.  The scan is one step: while no writer runs, readers change the *)
(* sign of a control word and nothing else of it, unless they release a    *)
(* slot that was zeroed under them.                                        *)
AttachFrom(index, mark) ==
    /\ wpc = "down"
    /\ \E newest \in RingSeqs(mark) :
         /\ \A s \in RingSeqs(mark) : s <= newest
         /\ lastEntrySeq' = newest
         /\ currentIndex' = RecoveredIndex(index, newest)
    /\ wpc' = "idle"
    /\ UNCHANGED <<segVars, callVars, handles, restarts>>

(* open and bind with no writer at work in between: the header is as new   *)
(* as the role, as when a writer is restarted after its predecessor died.  *)
(* Channel's Bind is the general case, with a header of any age.           *)
Attach == AttachFrom(writeIndex, highWatermark)

(* write and try_acquire enter claim_slot.  A write of the wrong length    *)
(* returns before that and changes nothing.                                *)
Call(call) ==
    /\ wpc = "idle"
    /\ call \in WriteCalls
    /\ claims < MaxClaims
    /\ handles = {} \/ OverlapHandles
    /\ wpc' = "probe"
    /\ wcall' = call
    /\ wIndex' = currentIndex
    /\ UNCHANGED <<segVars, probed, filled, cursor, handles, restarts>>

Write == Call("write")
TryAcquire == Call("acquire")

(* claim_slot: what it takes for a held slot, and its last round.  Faulty  *)
(* variants: the sign is not looked at; it gives up at the first held slot.*)
HeldNever(i) == FALSE
Held(i) == seq[i] < 0

LastProbeEarly == TRUE
LastProbe == probed + 1 = EntryCount

(* claim_slot: the slot is held, look at the next one. *)
ProbeHeld ==
    /\ wpc = "probe"
    /\ Held(wIndex)
    /\ ~LastProbe
    /\ probed' = probed + 1
    /\ wIndex' = SlotAfter(wIndex)
    /\ UNCHANGED <<segVars, wpc, wcall, filled, cursor, handles, restarts>>

(* claim_slot: no slot is left; the call fails with Busy. *)
ProbeBusy ==
    /\ wpc = "probe"
    /\ Held(wIndex)
    /\ LastProbe
    /\ wpc' = "idle"
    /\ wcall' = "write"
    /\ wIndex' = 0
    /\ probed' = 0
    /\ UNCHANGED <<segVars, filled, cursor, handles, restarts>>

(* claim_slot: the slot is not held when it is loaded ... *)
ProbeFree ==
    /\ wpc = "probe"
    /\ ~Held(wIndex)
    /\ wpc' = "zero"
    /\ UNCHANGED <<segVars, callVars, cursor, handles, restarts>>

(* ... and the store that marks it in-progress comes after that load.      *)
(* Faulty variant: the slot keeps its old number while it is rewritten.    *)
MarkInProgressSkipped(i) == seq' = seq
MarkInProgress(i) == seq' = [seq EXCEPT ![i] = 0]

(* claim_slot returns: write goes on to the copy, try_acquire hands out a  *)
(* handle on the slot.                                                     *)
Claim ==
    /\ wpc = "zero"
    /\ MarkInProgress(wIndex)
    /\ claims' = claims + 1
    /\ wcall' = "write"
    /\ probed' = 0
    /\ \/ /\ wcall = "write"
          /\ wpc' = "copy"
          /\ UNCHANGED <<wIndex, handles>>
       \/ /\ wcall = "acquire"
          /\ wpc' = "idle"
          /\ wIndex' = 0
          /\ handles' = handles \cup {[index |-> wIndex, stamp |-> claims + 1]}
    /\ UNCHANGED <<payload, writeIndex, highWatermark, published, filled,
                   cursor, restarts>>

(* write: copy_nonoverlapping, one word at a time. *)
CopyIn(w) ==
    /\ wpc = "copy"
    /\ w \notin filled
    /\ payload' = [payload EXCEPT ![wIndex][w] = claims]
    /\ filled' = filled \cup {w}
    /\ UNCHANGED <<seq, writeIndex, highWatermark, published, claims, wpc,
                   wcall, wIndex, probed, cursor, handles, restarts>>

(* The holder of a write handle stores to the slot in place, from any      *)
(* thread: the handle is Send.                                             *)
Fill(h, w) ==
    /\ payload[h.index][w] # h.stamp
    /\ payload' = [payload EXCEPT ![h.index][w] = h.stamp]
    /\ UNCHANGED <<seq, writeIndex, highWatermark, published, claims,
                   writerVars>>

-----------------------------------------------------------------------------

(* publish: the slot gets the next number and the cursor moves past it. *)
StoreSeq(index) ==
    /\ seq' = [seq EXCEPT ![index] = lastEntrySeq + 1]
    /\ published' = Append(published, payload[index])
    /\ lastEntrySeq' = lastEntrySeq + 1
    /\ currentIndex' = SlotAfter(index)
    /\ wpc' = "index"
    /\ wIndex' = 0
    /\ filled' = {}

(* write: the copy is complete, publish(index). *)
PublishWrite ==
    /\ wpc = "copy"
    /\ filled = Words
    /\ StoreSeq(wIndex)
    /\ UNCHANGED <<payload, writeIndex, highWatermark, claims, wcall, probed,
                   handles, restarts>>

(* commit(handle): publish(handle.index).  The handle is consumed. *)
Commit(h) ==
    /\ wpc = "idle"
    /\ StoreSeq(h.index)
    /\ handles' = handles \ {h}
    /\ UNCHANGED <<payload, writeIndex, highWatermark, claims, wcall, probed,
                   restarts>>

(* A write handle dropped without a commit: the slot stays empty. *)
DropHandle(h) ==
    /\ handles' = handles \ {h}
    /\ UNCHANGED <<segVars, wpc, callVars, cursor, restarts>>

(* publish: current_write_index is persisted ... *)
PersistIndex ==
    /\ wpc = "index"
    /\ writeIndex' = currentIndex
    /\ wpc' = "mark"
    /\ UNCHANGED <<seq, payload, highWatermark, published, claims, callVars,
                   cursor, handles, restarts>>

(* ... and the high watermark last.  Faulty variant: off by one. *)
AdvertisedAhead == lastEntrySeq + 1
Advertised == lastEntrySeq

PersistMark ==
    /\ wpc = "mark"
    /\ highWatermark' = Advertised
    /\ wpc' = "idle"
    /\ UNCHANGED <<seq, payload, writeIndex, published, claims, callVars,
                   cursor, handles, restarts>>

(* The writer's process dies, at any point, or the writer is dropped       *)
(* between calls.  Its private state is gone; the segment stays as it is.  *)
WriterGone ==
    /\ wpc # "down"
    /\ restarts < MaxRestarts
    /\ restarts' = restarts + 1
    /\ wpc' = "down"
    /\ wcall' = "write"
    /\ wIndex' = 0
    /\ probed' = 0
    /\ filled' = {}
    /\ currentIndex' = 0
    /\ lastEntrySeq' = 0
    /\ handles' = {}
    /\ UNCHANGED segVars

WriterNext ==
    \/ Attach
    \/ Write
    \/ TryAcquire
    \/ ProbeHeld
    \/ ProbeBusy
    \/ ProbeFree
    \/ Claim
    \/ \E w \in Words : CopyIn(w)
    \/ PublishWrite
    \/ \E h \in handles, w \in Words : Fill(h, w)
    \/ \E h \in handles : Commit(h)
    \/ \E h \in handles : DropHandle(h)
    \/ PersistIndex
    \/ PersistMark
    \/ WriterGone
=============================================================================
