----------------------------- MODULE ChannelLog ------------------------------
(***************************************************************************)
(* What a channel promises its one-copy readers, without the ring: one log *)
(* of whole entries that only grows, numbered from 1, and readers that     *)
(* move forward through it, skipping what they were too slow for.          *)
(***************************************************************************)
EXTENDS Naturals, Sequences

CONSTANTS
    Readers,
    Entries,   \* whole payloads
    FromSeqs   \* positions a reader may ask to read from

VARIABLES
    log,  \* entries published, oldest first
    pos,  \* number of the entry each reader returned last
    out   \* what its last call returned: <<>> for None, or one entry

vars == <<log, pos, out>>

Init ==
    /\ log = <<>>
    /\ pos = [r \in Readers |-> 0]
    /\ out = [r \in Readers |-> <<>>]

Publish ==
    /\ \E e \in Entries : log' = Append(log, e)
    /\ UNCHANGED <<pos, out>>

(* A call starts, or ends with None. *)
Ask(r) ==
    /\ out' = [out EXCEPT ![r] = <<>>]
    /\ UNCHANGED <<log, pos>>

(* A call returns the entry numbered s, newer than where it read from. *)
Deliver(r, s) ==
    /\ \E m \in {pos[r]} \cup FromSeqs : s > m
    /\ pos' = [pos EXCEPT ![r] = s]
    /\ out' = [out EXCEPT ![r] = <<[seq |-> s, data |-> log[s]]>>]
    /\ UNCHANGED log

(* A new reader takes the place of r. *)
Restart(r) ==
    /\ pos' = [pos EXCEPT ![r] = 0]
    /\ out' = [out EXCEPT ![r] = <<>>]
    /\ UNCHANGED log

Next ==
    \/ Publish
    \/ \E r \in Readers : Ask(r) \/ Restart(r)
    \/ \E r \in Readers : \E s \in 1 .. Len(log) : Deliver(r, s)

Spec == Init /\ [][Next]_vars
=============================================================================
