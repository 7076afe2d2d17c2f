------------------------------- MODULE Channel -------------------------------
(***************************************************************************)
(* The endpoint's RawWriter around the ring's: a writer opens the segment  *)
(* and decodes its header (open_or_create, try_attach) before it claims    *)
(* the writer role, and binds with the header it decoded (bind).  In       *)
(* between, the writer that holds the role may write, exit or die.         *)
(*                                                                         *)
(* The role is held exactly while a writer runs: wpc is "down" when the    *)
(* last holder has dropped the role or is dead, and claim_role succeeds in *)
(* both cases (see Lifecycle for the role words themselves).               *)
(***************************************************************************)
EXTENDS Ring

CONSTANT Openers  \* writers that may be opening the channel at a time

VARIABLE seen     \* the header words an opener has decoded so far

channelVars == <<vars, seen>>

Unread == -1
Opening == [index : Slots \cup {Unread}, mark : Nat \cup {Unread}]

NotOpening == [index |-> Unread, mark |-> Unread]

Decoded(c) == seen[c].index # Unread /\ seen[c].mark # Unread

ChannelInit == Init /\ seen = [c \in Openers |-> NotOpening]

-----------------------------------------------------------------------------

(* read_header: the write index is a plain load, which the watermark's     *)
(* acquire load does not hold back, so the two happen in either order.     *)
ReadIndex(c) ==
    /\ seen[c].index = Unread
    /\ seen' = [seen EXCEPT ![c].index = writeIndex]
    /\ UNCHANGED vars

ReadMark(c) ==
    /\ seen[c].mark = Unread
    /\ seen' = [seen EXCEPT ![c].mark = highWatermark]
    /\ UNCHANGED vars

(* bind: the role is free, the ring writer attaches with the decoded       *)
(* header, however old.                                                    *)
Bind(c) ==
    /\ Decoded(c)
    /\ AttachFrom(seen[c].index, seen[c].mark)
    /\ seen' = [seen EXCEPT ![c] = NotOpening]
    /\ UNCHANGED rd

(* bind: a live writer holds the role.  A deferred writer, and a           *)
(* constructor called again, decode the header anew.                       *)
RoleConflict(c) ==
    /\ Decoded(c)
    /\ wpc # "down"
    /\ seen' = [seen EXCEPT ![c] = NotOpening]
    /\ UNCHANGED vars

ChannelNext ==
    \/ \E c \in Openers : ReadIndex(c)
    \/ \E c \in Openers : ReadMark(c)
    \/ \E c \in Openers : Bind(c)
    \/ \E c \in Openers : RoleConflict(c)
    \/ Operate /\ UNCHANGED seen

ChannelSpec == ChannelInit /\ [][ChannelNext]_channelVars

(* Writers that bind with a watermark nobody has moved since they decoded  *)
(* it, as when the predecessor was gone before the header was read.        *)
FreshBind == \A c \in Openers : Bind(c) => seen[c].mark = highWatermark
FreshSpec == ChannelInit /\ [][ChannelNext /\ FreshBind]_channelVars
=============================================================================
