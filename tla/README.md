# ZeroChannel in TLA+

ZeroChannel is a shared-memory ring between one writer and several readers on
one machine. `zerochannel-core` is the lock-free ring protocol over a mapped
segment; `zerochannel` names, creates, adopts and unlinks that segment, hands
out its exclusive roles, and binds the result to Rust and Python. This
directory models both, checks them with TLC and proves the central results with
TLAPS.

## The system

| Component | Source | State | Operations |
|---|---|---|---|
| segment layout and header | `zerochannel-core/src/metadata.rs` | magic, geometry, deed, roles, write index, high watermark; per slot a signed `entry_seq` and a payload | `init_header`, `read_header`, `check_geometry`, `check_dtype`, `required_bytes` |
| ring writer | `zerochannel-core/src/writer.rs` | `current_index`, `last_entry_seq` | `attach`/`recover_state`, `write`, `try_acquire`, `commit`, `claim_slot`, `publish` |
| ring reader | `zerochannel-core/src/reader.rs` | `last_entry_seq`, `last_read_idx` | `attach`, `read_into`, `try_acquire`, `release`, `locate`, `watermark` |
| zero-copy handles | `zerochannel-core/src/zerocopy.rs` | slot index, sequence number, view of the slot | in-place access, drop |
| segment lifecycle and roles | `zerochannel/src/lifecycle.rs` | the name, the `Shmem` owner flag, PIDs in the header | `open_or_create`, `create_segment`, `init_segment`, `claim_segment`, `claim_role`, `release_role`, `try_attach`, `unlink` |
| channel endpoints | `zerochannel/src/{reader,writer}.rs` | bound or deferred, mapping, role | constructors, `bind`, `ensure_connected`, `Drop`, forwarded ring calls |
| typed wrappers | `zerochannel/src/lib.rs` | none | constructors, `entry_length`, forwarding |
| Python handles | `zerochannel/src/python/zerocopy.rs` | the loan, the export counter | `__getbuffer__`, `__releasebuffer__`, `release`, `commit`, `__exit__`, finalisation |
| Python readers and writers | `zerochannel/src/python/{reader,writer}.rs` | a reference to the endpoint | constructors, `try_acquire`, `read`, `write` |
| errors | `error.rs`, `python/errors.rs` | none | conversion |

**How the parts meet.** The ends of a ring never call each other; they share
the segment. The writer moves a slot through `entry_seq = 0` (being written)
to `+s` (committed), then persists its index and finally the high watermark
`s`. A one-copy reader compares its position with the watermark, looks for the
oldest newer slot, copies it and reads `entry_seq` again. A zero-copy reader
swaps `+s` for `-s` instead and stores `+s` back on release; the writer skips
negative slots and reports `Busy` when there are no others. A writer that dies
leaves only the segment, from which `recover_state` rebuilds the numbering and
the cursor. Below that, an opener that brings a geometry creates the segment,
or opens it and bids for the deed (the duty to unlink); every writer and
zero-copy reader claims its role by compare-and-swap of its PID, adopting words
left by dead processes. Above it, a Python handle lends a slot to memoryviews
and numpy arrays, and counts them, so that the slot is not handed on under them.

**What is hard.** Every access of one end can fall between any two of the
other's. Any process can die between any two accesses, and its PID can come
back. Cached positions and decoded headers go stale when the other end laps,
skips or restarts. A segment without a magic may be abandoned or merely young.
Python objects die in any order and on any thread. Sizes are multiplied in
`usize`. `hazards` in `PROJECT.json` lists these, line by line, with the
property that covers each.

**What makes each part correct.**

- Ring, one-copy: no torn read; oldest first; a promise in the header can be
  fulfilled; numbering is exact across crashes; a polling reader gets through.
- Ring, zero-copy: a held slot does not change; a lost one is never reused;
  `Busy` only when all are held.
- Ring, any use: no number appears that was not committed.
- Channel: a header decoded too early does no harm to what one-copy readers
  rely on: numbering, whole reads, the watermark's promise and its order. With a
  zero-copy reader it can (`ChannelMarkBack.cfg`).
- Lifecycle: at most one holder of a role and of the deed per segment; nobody's
  drop evicts a holder; nobody is bound to a geometry it did not ask for; an
  owner unlinks its own segment; nobody is kept out by what a dead process left.
- Python handles: a live view points into a mapped slot that is neither
  recycled nor published; no slot is lost.
- Geometry: slots lie inside the mapping; endpoints of one segment agree on
  what an entry is; a length too large is refused and not replaced.

## Modules

| Module | What it is |
|---|---|
| `Segment` | control words, payloads, the two persisted header words; histories `published` and `claims` |
| `RingWriter` | RawWriter of the core, one action per access to the segment |
| `RingReader` | RawReader of the core, likewise, for every reader |
| `Ring` | their composition, `Spec`, `SerialSpec`, `FairSpec`, `RetrySpec`, and the properties |
| `ChannelLog` | abstract specification: a growing log of whole entries, readers that move forward in it |
| `Channel` | the endpoint's `bind` around `Ring`: headers decoded before the role is held |
| `Lifecycle` | segments, names, deeds, roles, endpoints, process death, reuse of PIDs |
| `PyHandles` | Python handles, views and endpoints, and the threads they die on |
| `Geometry` | sizes, offsets, element types and the constructors that supply them |
| `MCRing`, `MCChannel`, `MCLifecycle`, `MCPyHandles`, `MCGeometry` | instances for TLC |
| `RingProofs` | theorems for every use of the ring |
| `RingOneCopyProofs` | theorems for one-copy use |
| `RingSerialProofs` | theorems for zero-copy use with calls that do not overlap |
| `RingLogProofs` | the refinement of `ChannelLog` |
| `ChannelProofs` | theorems for writers that bind with stale headers: one-copy use, and what is left in every use |
| `LifecycleProofs` | theorems for opening, claiming, dropping and dying |
| `PyHandlesProofs` | theorems for the Python handles |
| `GeometryProofs` | theorems for sizes, offsets and element types |

`Channel` extends `Ring`, and its properties are `Ring`'s. `Lifecycle`,
`PyHandles` and `Geometry` each abstract the ring to what they need: role words,
the sign of a control word, a length.

An operator described as a *faulty variant*, just before the definition it
varies, is not part of the model. It is a plausible mistake in the same code,
and substituting it makes the property that guards against it fail;
`mutants` in `PROJECT.json` pairs them.

### Correspondence for the ring

- `seq`, `payload`, `writeIndex`, `highWatermark` are the shared words.
  `currentIndex`, `lastEntrySeq` and `rd[r].lastSeq`, `rd[r].lastIdx` are the
  fields of `RawWriter` and `RawReader`. `wpc`, `rd[r].pc` and the remaining
  fields are program counters and locals; a call that returns resets its locals.
- A payload maps `Words` to stamps, the number of the claim that wrote the
  word. Equal stamps in all words mean one whole entry. `write` and `read_into`
  copy in any word order, as `memcpy` may.
- `write` is `Write`, `ProbeHeld`* , `ProbeFree`, `Claim`, `CopyIn`*,
  `PublishWrite`, `PersistIndex`, `PersistMark`; `try_acquire` stops after
  `Claim` with a handle; `Fill`, `Commit` and `DropHandle` are what is done
  with the handle. `ProbeBusy` is the `Busy` return.
- `read_into` is `UpToDate`, or `ReadInto`, `FastHit` or `FastMiss` with
  `ScanSlot`* and `ScanFound` or `ScanEmpty`, `CopyOut`*, and `RecheckOk`,
  `Retry` or `GiveUp`. `try_acquire` of a reader replaces the copy by `CasOk`.
  `Release` gives a held slot back, `Forget` loses the handle without it.
- `WriterGone` and `ReaderGone` are the death or the drop of an end.
- `Attach` is an open and bind that no other writer disturbs: its header is as
  new as the role. That is the restart after a crash which the ring's own runs
  are about. The code does not ensure it, and the general case, a header of any
  age, is `Channel`'s; properties that depend on the difference are checked
  there.
- `published` is history: the payload at the moment its number was stored.
  With overlapping handles, a holder may still change a committed slot.

### Correspondence for the channel

`seen[c]` holds the header words an opener has decoded (`ReadIndex`,
`ReadMark`, in either order: `read_header` loads the index plainly and the
watermark atomically, and nothing keeps the first before the second). `Bind` is
`claim_role` succeeding, then the core's `attach` with the decoded words;
`RoleConflict` throws them away. The ring runs on between these steps.
`FreshSpec` restricts `Bind` to watermarks nobody has moved since.

### Correspondence for the lifecycle

`linked` is the directory entry of the name, `seg` the segments, which live on
without a name while somebody maps them. `ep[e].own` is the owner flag of the
`shared_memory` crate's `Shmem`, whose destructor unlinks *by name*.
`Create`, `CreateExists`, `TryOpen`, `HeaderFound`, `HeaderMissing`,
`InitZero`, `InitStamp`, `InitMagic`, `InitCheck` are the steps of
`open_or_create`. A word is claimed as in the code: free, it is taken by the
first compare-and-swap (`ClaimSegment`, `ClaimRole`); held by a dead process,
the holder is looked up (`DeedStale`, `RoleStale`) and replaced by a second
swap if it is still there (`AdoptDeed`, `AdoptRole`), else the loop starts
again; held by a live one, the bidder becomes a tenant (`ClaimSegment`) or
fails (`RoleConflict`). `DropBound` and `Unmap` are the steps of `Drop`; an
open that fails goes through `Unmap` as well. `Crash` is the death of a
process, `Reuse` a new process with its PID.

### Correspondence for the Python handles

`hd[h]` is a handle object: `loan` is whether its `Option` is `Some`,
`exports` its counter, `named` whether anything but a view refers to it.
`views[v]` is `view.obj`. `GetBuffer` is `__getbuffer__`; `ReleaseBuffer` is a
view's death, which runs `__releasebuffer__` and then drops the reference in
`view.obj`; `Forget` and `ForgetEndpoint` drop the program's own references.
Each of the last three may be the last reference, and then the finaliser runs
in the same step (`Dereferenced`, `DropEndpoint`). The classes are `unsendable`:
off the thread that created the object (`Home`) PyO3 panics before the body of
a method runs, so the counter is not lowered, and does not run the destructor,
so the object is `leaked`. On the home thread a collector may run the finaliser
inside the reader's `read`; then `drop` finds the reader borrowed, ignores the
error, and the slot stays held (`DroppedInCall`). `astray` records that one of
the two has happened. A `release` or `commit` that finds its endpoint borrowed
raises and changes nothing.
`Write`, `ReaderTryAcquire` and `WriterTryAcquire` are whole calls; which entry
a reader gets is left open.

### Correspondence for the geometry

`Wrap` is `usize` arithmetic of a release build at width `Modulus`.
`OpenTyped` and `OpenPy` are the constructors with a geometry and the element
count they convert to bytes; `Supply` is `open_or_create`, with `Create`,
`Adopt` and `Reinitialise` as the three ways it succeeds and `Abandon` as the
death of a creator before the header. `Attach` is an endpoint that supplies no
geometry. `Close` leaves the segment: unlinking is `Lifecycle`'s.

## Assumptions

- Steps are sequentially consistent. The ring's fences and orderings force the
  order in which the modelled accesses happen, except in `read_header`, where
  both orders are modelled; weaker behaviours of a single access are not.
- Sequence numbers do not overflow (`i64`).
- `recover_state`'s scan is one step. While no writer runs, a reader can only
  change the sign of a word, which the scan ignores, or release a slot that was
  zeroed under its handle. That last case exists only where the pin race below
  has already happened.
- Creating a name is atomic. Creator and size of a segment are known at once.
- All Python objects of an instance belong to one process and one home thread.
  The interpreter lock makes a call one step; `write` releases it while it
  copies, but its endpoint is mutably borrowed meanwhile, and what other threads
  can do then (drop references) does not touch the slot being copied to. A
  finaliser that runs inside `read` is part of the step (`DroppedInCall`).
- The specification gives the header 64 bytes in one place and 72 in another;
  `Geometry` uses the code's 72.

## Runs

| Run | Instance | Result |
|---|---|---|
| `ring_one_copy` | 3 slots, 2 words, 7 claims, 1 writer crash, 1 reader that may crash and may pass `from_entry_seq = 1` | passes; about 250,000 states |
| `ring_all` | 2 slots, 3 claims, both write calls, overlapping handles, a zero-copy reader, crashes of both ends | passes; about 540,000 states |
| `ring_serial` | 2 slots, 4 claims, a zero-copy and a one-copy reader, handles lost; calls do not overlap, handles do | passes; about 1.5 million states |
| `ring_live` | 2 slots, 2 words, 4 claims, 1 writer crash, fairness | passes; about 16,000 states |
| `channel_one_copy` | 2 slots, 4 claims, 2 openers, 2 exits or crashes of the writer | passes; about 730,000 states |
| `lifecycle` | 2 processes, 3 writers (one of another geometry, one deferred), a zero-copy reader, 1 process death, its PID reused; suppliers open one at a time | passes; about 500,000 states |
| `lifecycle_takeover` | a supplying and two deferred writers, 1 death, `unlink` at any time, fairness | passes; about 18,000 states |
| `py_threads` | 3 slots, 2 handles and 2 views alive at a time, endpoints, 2 threads | passes; about 340,000 states |
| `geometry` | 10-bit `usize`, 3 endpoints, 8 lengths (two too large for 8-byte elements), 3 counts | passes; about 3,400 states |
| `ring_pin_race` | 2 slots, 3 claims, no crash | `PinnedStable` violated |
| `ring_seq_reuse` | 2 slots, 3 claims, 2 crashes, calls do not overlap | `ResumeExact` violated |
| `lifecycle_init_race` | 2 suppliers that open at once, no crash | `RolesExclusive` violated |

*Why the bounds suffice.* Seven claims turn a ring of three slots over twice, so
a reader is lapped, its cached index points at a recycled slot, and a successor
writer takes over in every phase of the wrap. Two words are the least that can
tear. Passing runs that retry use `ReadRetries = 2`, which already takes both
branches of the retry loop (`ring_serial` uses 1: without overlap nothing is
ever recycled under a call; `channel_one_copy` does too, because it is about
what a stale header does to the ring). `FromSeqs = {1}` lets a reader go back and forth over its first
entries; how a read moves its reader forward in general is left to
`OneCopyImplementsLog`. Two openers let one decode, wait through the whole
tenure of the other, and bind. Two processes and one death already put a crash
into every stage of opening, adopting and dropping. Handles and views of
`py_threads` are reused once dead, so two of each stand for any number one after
another. Ten bits hold the header, three slots and every length that fits. The
theorems remove the bounds from what they cover.

*Fairness.* `ring_live`: weak fairness of the writer's current call and of each
polling reader. No step of either waits for the other: `claim_slot` and
`locate` are bounded loops, the retry loop is bounded, and nothing blocks. The
writer is not required to start calls, nor to be restarted. `Drain` relies on
the writer's calls being finite in number: a reader that is overtaken for ever
may return `None` for ever, and the code does not claim otherwise.
`lifecycle_takeover`: weak fairness of an endpoint's current call (no step
blocks) and of the next call of a deferred endpoint, which its owner makes by
reading or writing. `Takeover` asks for the channel to *stay* available from
some point on; a role that others keep taking is not.

`ring_serial` restricts the ring to programs whose calls of the two ends do not
overlap, while handles stay out across calls. That is the use for which the
zero-copy guarantees hold; `ring_pin_race` shows what overlap does to them.

`lifecycle` assumes that suppliers of a geometry open one after the other
(`Orderly`); attachers, drops and deaths interleave freely.
`lifecycle_init_race` drops the assumption. `UnlinksOwn` speaks of the time
before the first death, `SlotReturned` and `DropSeesNoExports` of the time
before the first reference that dies off its thread or inside a call of the
reader.

## What the violated runs show

1. **A claim can take a slot from a zero-copy reader** (`ring_pin_race`,
   `writer.rs:89`). `claim_slot` loads `entry_seq`, finds it positive and stores
   0. A reader's successful compare-and-swap between the two is lost, and the
   reader holds a handle on a slot that is rewritten.
2. **A sequence number can be used twice** (`ring_seq_reuse`, `writer.rs:189`).
   A writer dies before its watermark is persisted, so the newest number is in
   its slot only. The other slot is held; the successor claims the slot with
   the newest number and dies as well. The third writer resumes one too low.
   This needs no overlap of calls. Without a zero-copy reader it cannot happen
   (`OneCopyResumeExact`).
3. **Two live writers after a racing open** (`lifecycle_init_race`,
   `lifecycle.rs:275`). The second opener sees no magic, concludes that the
   creator died, and initialises again under it.

### Further limits

These lie outside the assumptions of the runs above. Each has a configuration
to reproduce it with (`tlc -config X.cfg M`) or a change to one. Two of them hold.

| Configuration | Module | What it shows |
|---|---|---|
| `RingIndexLag.cfg` | `MCRing` | `ResumePlace` fails with two crashes: two writers in a row that die before the index is persisted leave it two slots behind, and `recover_state` (`writer.rs:205`) corrects it by one. The third writer overwrites recent entries first, against "resume in the right place" (`docs/specs/zero_channel.md:364`). |
| `ChannelStaleHeader.cfg` | `MCChannel` | `ResumePlace` fails without a crash: the predecessor writes between a writer's decoding of the header and its `bind` (`zerochannel/src/writer.rs:74`). |
| `ChannelAll.cfg` | `MCChannel` | `TypeOK` and `NoPhantom` hold: the instance of `ring_all` with a writer that binds with a header of any age. `ChannelTypeOK` and `ChannelNoPhantom` prove them. |
| `ChannelMarkBack.cfg` | `MCChannel` | `WatermarkMonotone` fails with a zero-copy reader. A writer decodes the header; the reader holds one of two slots; the predecessor publishes 2 and 3 in the other, claims it once more and is gone, by a crash or with a write handle dropped. `bind` (`zerochannel/src/writer.rs:74`) attaches with the old mark, `recover_state` finds nothing newer in the ring, and the watermark goes from 3 back to 2: numbers are used twice, and a reader that has seen 3 hears nothing until they catch up. Against "dense and strictly increasing" (`docs/specs/zero_channel.md:363`) and "increase strictly by one" (`zerochannel-core/src/lib.rs:22`). Decoding the header again after `claim_role` would rule it out (`FreshWatermarkMonotone`). |
| `RingTwoHandles.cfg` | `MCRing` | `HandleSlotHidden` fails: `try_acquire` (`zerochannel-core/src/writer.rs:150`) does not advance the cursor, so a second call publishes the slot an outstanding handle can still write to. |
| `RingTornNone.cfg` | `MCRing` | `OutUntouched` fails: `read_into` that is overtaken four times returns `None` (`reader.rs:180`) with the buffer overwritten, against "left untouched" (`docs/specs/zero_channel.md:577`). |
| `RingBusy.cfg` | `MCRing` | `BusyPasses` holds: a writer that repeats a call that failed with `Busy`, and a reader that sooner or later releases, get every entry through. Retrying and releasing are the program's part, so this fairness is not the code's to guarantee. |
| `LifecycleReject.cfg` | `MCLifecycle` | `RejectedOpenKeepsName` fails: the creator is overtaken between the magic and `claim_role` by an attaching writer, fails with `RoleConflict`, and its owning `Shmem` removes the name of a healthy channel (`zerochannel/src/writer.rs:73`), the harm that `lifecycle.rs:252` avoids when the geometry is rejected. |
| `LifecyclePidReuse.cfg` | `MCLifecycle` | `RolesExclusive` fails with two bidders for a dead holder's role: one adopts it and gives it back, the PID comes back and its new process takes the role, and the other bidder's swap (`lifecycle.rs:102`) replaces the live holder. `docs/specs/zero_channel.md:238-240` says a recycled PID "fails closed". |
| `Lifecycle.cfg`, without `deaths = 0` in `UnlinksOwn` | `MCLifecycle` | A supplier maps a segment just before its owner unlinks the name, adopts the deed after the owner's process has ended (`lifecycle.rs:260`), and on its way out removes the name of a segment created since. |
| `PyOverlap.cfg` | `MCPyHandles` | `ViewsPrivate` fails: after a `with` block that raised, the write handle and its views are alive, and the next call of the writer (`python/writer.rs:77`) publishes the slot under them. |
| `PyThreads.cfg`, without `~astray` | `MCPyHandles` | `SlotReturned` and `DropSeesNoExports` fail once a read handle or a view dies off its thread (`python/zerocopy.rs:218`, `:331`), or `SlotReturned` once a handle is finalised inside a `read` (`:172`, `:348`): the slot is never given back. The views stay safe. |
| `GeometryWrap.cfg` | `MCGeometry` | `SlotsInside` fails: `required_bytes` (`metadata.rs:184`) wraps around, and the mapping is smaller than the ring. |

## Proofs

All hold for every ring size, payload, width of `usize`, number of readers,
openers, processes, segments, handles, views and threads, and every value of the
bounds that a theorem does not name. Every inductive invariant below was checked
with TLC on the instance of its run before it was proved.

| Theorems | Assume | Without it |
|---|---|---|
| `RingProofs` | nothing | |
| `RingOneCopyProofs`, `RingLogProofs`; of `ChannelProofs` all but the next two rows | `OneCopyUse` | `ring_pin_race`, `ring_seq_reuse`, `ChannelMarkBack.cfg` |
| `ChannelTypeOK`, `ChannelNoPhantom` | nothing | |
| `FreshWatermarkMonotone` | `FreshSpec`: writers bind with the current watermark | `ChannelMarkBack.cfg` |
| `OneCopyResumePlace`, `OneCopyRetention` | also `MaxRestarts <= 1` | `RingIndexLag.cfg` |
| `RingSerialProofs` | `SerialSpec`, one write handle at a time | `ring_pin_race`, `RingTwoHandles.cfg` |
| `LifecycleProofs` | `OpenInTurn` | `lifecycle_init_race` |
| `LifecycleRolesExclusive`, `LifecycleRoleHeld`, `LifecycleDeedExclusive` | also `~ReusePids` | `LifecyclePidReuse.cfg` |
| `PyHandlesProofs` | one write handle at a time | `PyOverlap.cfg` |
| `GeometryProofs` | nothing; for `GeometrySlotsInside`, `SizesFit` | `GeometryWrap.cfg` |

`RingProofs` needs only the assumptions of the modules:

- `RingTypeOK`, `RingNoPhantom`. The inductive invariant `PhantomInv` adds to
  the type invariant that the writer's counter, the numbers locate has found and
  the numbers in handles are all at most the number of committed entries.
  Without this, a release, whose store is unconditional, could bring in any
  number.

`RingOneCopyProofs` and `RingLogProofs` assume `OneCopyUse`: more than one slot,
no zero-copy reader, one write handle at a time. Findings 1 and 2 are why. With
one slot, claiming it removes the entry the watermark promises.

- `OneCopyInvariant`: `OneCopyInv` is inductive. Its parts are
  `SlotsSound` (a slot with a number holds what was committed under it),
  `NewestKept` (the newest entry is in exactly one slot, writer or no writer),
  `WriterSound` (the counter is the number of committed entries, the cursor is
  not at the newest entry, and the slot being filled is marked in-progress) and
  `ReadersSound` (the words copied so far are those of the entry sought *if the
  slot still has its number*; the slots scanned so far contain nothing better
  *that is still there*). The two conditionals are the heart of it: a partial
  copy or a partial scan has no unconditional meaning, and the double read
  supplies the condition at the end. They are stable because the writer only
  empties slots or gives them a number that was never used before. That the
  cursor avoids the newest entry is what makes `recover_state` exact: were the
  newest entry claimed before the watermark is persisted, a crash would lose
  its number, which is finding 2.
- From it: `OneCopyUntornRead`, `OneCopyOldestFirst`, `OneCopyResumeExact`,
  `OneCopyPromiseKept`, `OneCopyEmptyMeansLapped`.
- `OneCopyPlaceInvariant`: when at most one writer is gone (`MaxRestarts <= 1`),
  `PlaceInv` holds beside `OneCopyInv`. `Chain(c)` says that the ring is in
  order: the slot one step behind `c` holds the newest entry, the next the one
  before it, and so on round the ring; the slot at `c` alone may have been
  emptied already. `CursorPlace` has the ring in order behind the cursor,
  `IndexPlace` has the first writer's persisted index at its cursor, or one slot
  short of it between the two stores of `publish`, and `DownPlace` is what
  remains of that when it dies. `recover_state` repairs exactly one slot of
  lag, which is why the successor, whose own index may lag from a lagging start,
  must be the last. `OneCopyResumePlace` and `OneCopyRetention` follow: the
  entry of age `a` is found `a` slots behind the cursor.
- `OneCopyImplementsLog`: every step of the ring is a step of `ChannelLog` or
  a stutter under `Log` (log = `published`, position = `last_entry_seq`,
  result = the buffer once accepted). `PublishWrite` and `Commit` map to
  `Publish`, `RecheckOk` to `Deliver`.

`ChannelProofs`, in one-copy use (`OneCopyUse` again): `ChannelInv` adds
`SeenSound` to `OneCopyInv`: a decoded watermark is at most the number of
committed entries. That was true when it was decoded and stays true, because the
log only grows; and no more is needed, because the scan of `recover_state` finds
the newest entry in the ring (`NewestKept`) whatever the header said, and moves
the cursor off it. So `ChannelResumeExact`, `ChannelPromiseKept`,
`ChannelUntornRead` and `ChannelWatermarkMonotone` hold with headers of any age;
the last because a counter that is exact is not behind the header (`MarkBehind`)
and only `publish` moves the watermark, to that counter.

In every use `PhantomInv` with `SeenSound` is inductive and gives
`ChannelTypeOK` and `ChannelNoPhantom`. `MarkBehind` is not: with a zero-copy
reader the newest entry need not be in the ring when a writer binds, and all
that keeps the counter from falling behind is the watermark it binds with.
`FreshWatermarkMonotone` shows that the current one suffices,
`ChannelMarkBack.cfg` that an old one does not.

`RingSerialProofs` is about `SerialSpec`: zero-copy readers, but no call of one
end during a call of the other, and one write handle at a time. `SerialInv` is
inductive; besides `PinnedStable` it says that held slots carry numbers and are
held once (`HandlesSound`), that readers are idle and no write handle is out
during a writer's call (`CallsApart`), and that the slot between `claim_slot`'s
load and its store is not held, that the slots it passed are, and that it has
gone round from the cursor without leaving one out (`ClaimSound`). The first of
these is what fails when calls overlap. `SerialPinnedStable`,
`SerialRetiredForGood` (an action property: a slot nobody can release is left
alone by every step, `recover_state` included) and `SerialBusyMeansAllHeld`
follow.

`LifecycleProofs` assumes `OpenInTurn`: suppliers of a geometry wait for one
another's open. Attachers, deferred endpoints, drops, deaths and `unlink`
interleave freely. `LifecycleInv` comes in three layers, each with the condition
under which it holds:

- `HeaderInv`, always: an endpoint maps a segment exactly while its call needs
  one; there is no magic while a header is laid down, and there is one under
  everybody who went past the check (`AllPlaced`); one supplier at a time is on
  its way (`InTurn`), so nobody bids for the deed its initialiser is about to
  take (`CheckAlone`). It gives `LifecycleTypeOK` and `LifecycleHeaderStable`,
  and holds with reused PIDs as well.
- `Claims`, while PIDs name the processes they always named: who was looked up
  as dead is still dead when the second swap is tried, and the deed and role
  words name their holders. This is why a swap that finds the dead holder's PID
  cannot hit a live one. It gives `LifecycleRolesExclusive`,
  `LifecycleRoleHeld` and `LifecycleDeedExclusive`.
- `Names`, until somebody dies or unlinks: the name goes with the deed, and a
  segment without magic is being initialised by its creator. It gives
  `LifecycleUnlinksOwn`.

The run `lifecycle` checks these with a reused PID on an instance in which a dead
holder's role has one other bidder; the theorems have any number of bidders, and
need `~ReusePids`.

`PyHandlesProofs` assumes `OneWriteHandle`: the writer is not used while a write
handle is out (the limit of `PyOverlap.cfg`).

- `PyInvariant`: `PyInv` is inductive. `ExportsCover` says that the counter of a
  handle is at least the number of its live views, `ViewsLoaned` that a live
  view's handle is alive with its loan, `EndsKept` that an endpoint with a name
  or a handle is alive, `PinsHeld` and `WriteAlone` that loans are of distinct
  slots in the state the loan needs. A view that dies off its thread leaves the
  counter too high, never too low, which is why the views' safety does not
  depend on threads. The parts take the state as parameters because a dying
  reference and the finaliser it sets off are one step, and the invariant is
  needed in between. `PyTypeCorrect`, `PyViewsPinned`, `PyViewsPrivate` and
  `PyViewsMapped` follow.
- `HomeInv` adds that until something goes `astray` the counter is exact and every
  held slot is on loan; then the destructor always finds zero, and
  `PySlotReturned` and `PyDropSeesNoExports` follow.

`GeometryProofs` needs no assumption for `GeometryElementsAgree` and
`GeometryLengthHonoured`. `GeometryInv` says that a
header which is there passed `check_geometry`, that the mapping is not smaller
than what `required_bytes` came to (wrapped or not), and that a bound endpoint
has the header's geometry, as an element type that may share it, and the bytes
its elements take. A length that is too large saturates to `usize::MAX`, which
is no multiple of eight, so `check_geometry` refuses it. `GeometrySlotsInside`
assumes `SizesFit`: header and slots of every geometry that passes
`check_geometry` add up to less than the modulus, which the code does not check.
Then no sum or product in an offset wraps, and the last slot ends where the
required bytes end.

*Model-checked only:* `Drain`, `Takeover` and `BusyPasses`. They are liveness
properties under fairness, out of the prover's reach. `RolesExclusive`,
`RoleHeld` and `DeedExclusive` with a reused PID are checked on the instance of
`lifecycle` only: with more bidders `RolesExclusive` does not hold. Every other property of a passing
run is stated by a theorem.

## Not modelled

- Error values and their conversion to Python exceptions: they keep no state.
- Length checks of callers' buffers (`check_out`) and the shape, strides and
  format of exported views.
- That the interpreter lock is released while a caller's array is copied: the
  array is the program's, and the channel keeps no state about it.
- Memory orderings weaker than the order of accesses described above.
- A magic or layout version of another program: an error return.
- Truncation of the 64-bit header fields on a 32-bit machine.

## Plan

1. *Lifecycle with reused PIDs*: a condition weaker than `~ReusePids` that still
   excludes `LifecyclePidReuse.cfg` (no PID comes back while a bidder has it
   looked up), and the roles under it.
2. *Order with stale headers*: what of `PlaceInv` survives in `Channel`, where a
   header can be decoded any number of entries before it is used.
3. *Zero-copy numbering*: the condition on held slots under which `ResumeExact`
   holds in serial use, between `OneCopyResumeExact` and `ring_seq_reuse`.
