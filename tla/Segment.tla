------------------------------- MODULE Segment -------------------------------
(***************************************************************************)
(* The mapped shared-memory segment the two ends of a ZeroChannel ring     *)
(* meet in: the ring slots (an entry_seq control word and a payload each)  *)
(* and the two header words the writer persists, its next slot index and   *)
(* its high watermark.  The geometry and role words are in Lifecycle.      *)
(*                                                                         *)
(* A payload is a function from Words to stamps.  The stamp of a word is   *)
(* the number of the claim (claim_slot) that last wrote it, so two         *)
(* payloads are equal exactly when no write separates them.                *)
(*                                                                         *)
(* Every access to a control word, a header word or a payload word is one  *)
(* step, and steps are sequentially consistent.                            *)
(***************************************************************************)
EXTENDS Integers, Sequences

CONSTANTS
    EntryCount,  \* ring slots
    Words        \* payload words of a slot, copied in any order

ASSUME GeometryAssumption == EntryCount \in Nat \ {0} /\ Words # {}

VARIABLES
    seq,           \* entry_seq of each slot: 0 empty or mid-write, < 0 held
    payload,       \* payload of each slot
    writeIndex,    \* header: current_write_index
    highWatermark, \* header: last_entry_seq
    published,     \* history: payloads committed so far, oldest first
    claims         \* history: slots claimed so far, the next stamp less one

segVars == <<seq, payload, writeIndex, highWatermark, published, claims>>

-----------------------------------------------------------------------------

Slots == 0 .. EntryCount - 1
Payload == [Words -> Nat]
Blank == [w \in Words |-> 0]

(* (i + 1) % entry_count.  Faulty variant: the wrap-around is forgotten. *)
SlotAfterNoWrap(i) == i + 1
SlotAfter(i) == IF i + 1 = EntryCount THEN 0 ELSE i + 1

Abs(n) == IF n < 0 THEN -n ELSE n

SegTypeOK ==
    /\ seq \in [Slots -> Int]
    /\ payload \in [Slots -> Payload]
    /\ writeIndex \in Slots
    /\ highWatermark \in Nat
    /\ published \in Seq(Payload)
    /\ claims \in Nat

(* init_header: everything is zero. *)
SegInit ==
    /\ seq = [i \in Slots |-> 0]
    /\ payload = [i \in Slots |-> Blank]
    /\ writeIndex = 0
    /\ highWatermark = 0
    /\ published = <<>>
    /\ claims = 0
=============================================================================
