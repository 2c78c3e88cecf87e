------------------------------ MODULE Journal ------------------------------
(***************************************************************************)
(* The pane journal of makimono (makimono/src/journal.rs) driven by the    *)
(* pump of its holder (Holder::ingest, tamotsu/src/holder.rs): a byte      *)
(* stream numbered by absolute offsets, kept in segment files of which the *)
(* oldest are evicted.                                                     *)
(*                                                                         *)
(* Every system call of an append is a step of its own, because the holder *)
(* can be killed between any two of them and each of them can fail.  A     *)
(* byte is the number under which the pump read it, so that a file that    *)
(* gives a wrong byte for an offset can be told from one that gives the    *)
(* right one.  Times are left out: whether the fsync interval has elapsed  *)
(* is a choice.                                                            *)
(***************************************************************************)
EXTENDS Integers, FiniteSets, SequencesExt

CONSTANTS
    SegmentBytes,   \* JournalBounds::segment_bytes
    MaxBytes,       \* JournalBounds::max_bytes
    SyncBytes,      \* the unsynced bytes that force a sync (1 MiB)
    MaxChunk,       \* the size of the pump's read buffer (64 KiB)
    MaxFed,         \* bound: bytes the child writes in a behaviour
    MaxFaults,      \* bound: system calls that fail
    MaxCrashes      \* bound: deaths of the holder or of the machine

\* normalized() raises max_bytes to at least one segment.
ASSUME BoundsAreNormalized ==
    /\ SegmentBytes \in Nat \ {0}
    /\ MaxBytes \in Nat /\ MaxBytes >= SegmentBytes
    /\ SyncBytes \in Nat \ {0}
    /\ MaxChunk \in Nat \ {0}
    /\ MaxFed \in Nat /\ MaxFaults \in Nat /\ MaxCrashes \in Nat

VARIABLES
    segments,   \* the holder's list of segments: [start, len]
    lost,       \* bytes counted past the last segment that no file holds
    unsynced,   \* bytes appended since the last sync
    files,      \* segment files on disk: start offset -> bytes
    durable,    \* segment files on disk: start offset -> length on stable storage
    pc,         \* where the holder's pump stands in an append; "down": no holder
    chunk,      \* the bytes the pump has in hand
    at,         \* the offset it gives them
    origin,     \* history: offset -> the byte last read for that offset
    announced,  \* history: offset -> the byte last sent to a daemon under it
    fed, faults, crashes

memory == <<segments, lost, unsynced>>
disk   == <<files, durable>>
hand   == <<chunk, at>>
bounds == <<fed, faults, crashes>>
vars   == <<memory, disk, pc, hand, origin, announced, bounds>>

Byte == 1..MaxFed
Segment == [start : Nat, len : Nat]

SegEnd(seg) == seg.start + seg.len
End == (IF segments = <<>> THEN 0 ELSE SegEnd(Last(segments))) + lost
Start == IF segments = <<>> THEN 0 ELSE Head(segments).start
Retained == FoldLeft(LAMBDA total, seg : total + seg.len, 0, segments)

\* f, where the bytes of s now stand at the offsets from o on
Overwrite(f, o, s) ==
    [x \in DOMAIN f \cup o .. (o + Len(s) - 1) |->
        IF x \in o .. (o + Len(s) - 1) THEN s[x - o + 1] ELSE f[x]]

Put(f, x, v) == [y \in DOMAIN f \cup {x} |-> IF y = x THEN v ELSE f[y]]

Init ==
    /\ segments = <<>> /\ lost = 0 /\ unsynced = 0
    /\ files = <<>> /\ durable = <<>>
    /\ pc = "down" /\ chunk = <<>> /\ at = 0
    /\ origin = <<>> /\ announced = <<>>
    /\ fed = 0 /\ faults = 0 /\ crashes = 0

----------------------------------------------------------------------------
(* Opening: the directory is listed in any order and sorted by start.      *)

\* Mutant: open() does not sort what read_dir lists.
ListingsAsRead ==
    {s \in [1 .. Cardinality(DOMAIN files) -> DOMAIN files] :
        \A f \in DOMAIN files : \E i \in DOMAIN s : s[i] = f}
Listings ==
    {s \in [1 .. Cardinality(DOMAIN files) -> DOMAIN files] :
        /\ \A i, j \in DOMAIN s : i < j => s[i] < s[j]
        /\ \A f \in DOMAIN files : \E i \in DOMAIN s : s[i] = f}

Open ==
    /\ pc = "down"
    /\ \E starts \in Listings :
          segments' = [i \in DOMAIN starts |->
                          [start |-> starts[i], len |-> Len(files[starts[i]])]]
    /\ lost' = 0 /\ unsynced' = 0
    /\ pc' = "idle"
    /\ UNCHANGED <<disk, hand, origin, announced, bounds>>

----------------------------------------------------------------------------
(* Appending.  ingest() takes at = end() and calls append(); when that     *)
(* fails the bytes are counted as lost, and they are sent either way.      *)

\* Mutant: append() does not rotate past a gap.
MustRotateBySize == segments = <<>> \/ Last(segments).len >= SegmentBytes
MustRotate ==
    \/ lost > 0
    \/ segments = <<>>
    \/ Last(segments).len >= SegmentBytes

Ingest(n) ==
    /\ pc = "idle"
    /\ fed + n <= MaxFed
    /\ chunk' = [i \in 1 .. n |-> fed + i]
    /\ at' = End
    /\ origin' = Overwrite(origin, End, chunk')
    /\ fed' = fed + n
    /\ pc' = IF MustRotate THEN "rotate" ELSE "write"
    /\ UNCHANGED <<memory, disk, announced, faults, crashes>>

\* fdatasync of the last segment's file, which is the open one
SyncLast ==
    durable' = IF segments = <<>> THEN durable
               ELSE LET f == Last(segments).start
                    IN Put(durable, f, Len(files[f]))

Announce ==
    /\ announced' = Overwrite(announced, at, chunk)
    /\ chunk' = <<>>
    /\ pc' = "idle"
    /\ UNCHANGED <<at, origin, fed, crashes>>

\* append() returned an error
Lose ==
    /\ faults < MaxFaults
    /\ faults' = faults + 1
    /\ lost' = lost + Len(chunk)
    /\ Announce

\* open_append creates the file, and keeps what a file of that name holds.
Rotate ==
    /\ pc = "rotate"
    /\ SyncLast
    /\ segments' = Append(segments, [start |-> End, len |-> 0])
    /\ files' = IF End \in DOMAIN files THEN files ELSE Put(files, End, <<>>)
    /\ lost' = 0
    /\ pc' = "write"
    /\ UNCHANGED <<unsynced, hand, origin, announced, bounds>>

\* The old file's sync fails, or it succeeds and the new file cannot be opened.
RotateFails ==
    /\ pc = "rotate"
    /\ Lose
    /\ durable' = durable \/ SyncLast
    /\ UNCHANGED <<segments, unsynced, files>>

Write ==
    /\ pc = "write"
    /\ LET last == Last(segments)
       IN /\ files' = [files EXCEPT ![last.start] = @ \o chunk]
          /\ segments' = [segments EXCEPT ![Len(segments)].len = @ + Len(chunk)]
    /\ unsynced' = unsynced + Len(chunk)
    /\ pc' = "evict"
    /\ UNCHANGED <<lost, durable, hand, origin, announced, bounds>>

\* write_all fails after a prefix of the chunk reached the file.
WriteFails ==
    /\ pc = "write"
    /\ Lose
    /\ \E k \in 0 .. Len(chunk) - 1 :
          files' = [files EXCEPT ![Last(segments).start] = @ \o SubSeq(chunk, 1, k)]
    /\ UNCHANGED <<segments, unsynced, durable>>

MustEvict == Len(segments) > 1 /\ Retained > MaxBytes

\* Mutant: evict() drops a segment from the list and leaves its file.
EvictListOnly ==
    /\ pc = "evict" /\ MustEvict
    /\ segments' = Tail(segments)
    /\ UNCHANGED <<lost, unsynced, disk, pc, hand, origin, announced, bounds>>
Evict ==
    /\ pc = "evict" /\ MustEvict
    /\ segments' = Tail(segments)
    /\ files' = [f \in DOMAIN files \ {Start} |-> files[f]]
    /\ durable' = [f \in DOMAIN durable \ {Start} |-> durable[f]]
    /\ UNCHANGED <<lost, unsynced, pc, hand, origin, announced, bounds>>

\* The segment has left the list when unlinking its file fails.
EvictFails ==
    /\ pc = "evict" /\ MustEvict
    /\ Lose
    /\ segments' = Tail(segments)
    /\ UNCHANGED <<unsynced, disk>>

EvictDone ==
    /\ pc = "evict" /\ ~MustEvict
    /\ pc' = "sync"
    /\ UNCHANGED <<memory, disk, hand, origin, announced, bounds>>

\* sync_due(), where `elapsed` says whether the fsync interval has passed
SyncDue(elapsed) == unsynced > 0 /\ (unsynced >= SyncBytes \/ elapsed)

FinishAppend ==
    /\ pc = "sync"
    /\ Announce
    /\ \E elapsed \in BOOLEAN :
          IF SyncDue(elapsed) THEN SyncLast /\ unsynced' = 0
                              ELSE UNCHANGED <<durable, unsynced>>
    /\ UNCHANGED <<segments, lost, files, faults>>

SyncFails ==
    /\ pc = "sync" /\ SyncDue(TRUE)
    /\ Lose
    /\ UNCHANGED <<segments, unsynced, disk>>

\* The tick thread's sync_if_due and the sync at an attach: between appends.
Sync ==
    /\ pc = "idle"
    /\ SyncLast
    /\ unsynced' = 0
    /\ UNCHANGED <<segments, lost, files, pc, hand, origin, announced, bounds>>

----------------------------------------------------------------------------
(* Deaths.  What a killed holder wrote is in its files; a dead machine     *)
(* keeps of each file what was synced and any part of what was not.        *)

Die ==
    /\ pc # "down" /\ crashes < MaxCrashes
    /\ crashes' = crashes + 1
    /\ pc' = "down"
    /\ segments' = <<>> /\ lost' = 0 /\ unsynced' = 0
    /\ chunk' = <<>> /\ at' = 0
    /\ UNCHANGED <<origin, fed, faults>>

DurableLength(f) == IF f \in DOMAIN durable THEN durable[f] ELSE 0

\* Mutant: the holder buffers its writes, and only sync() hands them to the kernel.
HolderDiesBuffered ==
    /\ Die
    /\ files' = [f \in DOMAIN files |-> SubSeq(files[f], 1, DurableLength(f))]
    /\ UNCHANGED <<durable, announced>>
HolderDies == Die /\ UNCHANGED <<disk, announced>>

\* The daemon dies with the machine: nothing is left that remembers an offset.
MachineDies ==
    /\ Die
    /\ \E kept \in [DOMAIN files -> 0 .. MaxFed] :
          /\ \A f \in DOMAIN files : kept[f] \in DurableLength(f) .. Len(files[f])
          /\ files' = [f \in DOMAIN files |-> SubSeq(files[f], 1, kept[f])]
          /\ durable' = kept
    /\ announced' = <<>>

----------------------------------------------------------------------------
Next ==
    \/ Open
    \/ \E n \in 1 .. MaxChunk : Ingest(n)
    \/ Rotate \/ RotateFails
    \/ Write \/ WriteFails
    \/ Evict \/ EvictFails \/ EvictDone
    \/ FinishAppend \/ SyncFails
    \/ Sync
    \/ HolderDies \/ MachineDies

Spec == Init /\ [][Next]_vars
----------------------------------------------------------------------------
(* Reading: Journal::read_from, and the replay that a holder sends to a    *)
(* daemon that attaches (Holder::replay calls it until it returns None).   *)

Nothing == [at |-> 0, data |-> <<>>]

\* Mutant: read_from() stops at a segment that is still empty.
HasPastEvenEmpty(seg, wanted) == wanted < SegEnd(seg)
HasPast(seg, wanted) == wanted < SegEnd(seg) /\ seg.len > 0

\* read_from(from, max): at most max bytes of the first segment that ends past
\* `from` and is not empty
ReadFrom(from, max) ==
    LET wanted == IF from >= Start THEN from ELSE Start
        holds(seg) == HasPast(seg, wanted)
    IN IF wanted >= End \/ ~ \E i \in DOMAIN segments : holds(segments[i])
       THEN Nothing
       ELSE LET seg == segments[SelectInSeq(segments, holds)]
                first == IF wanted >= seg.start THEN wanted ELSE seg.start
                upto == IF SegEnd(seg) - first <= max THEN SegEnd(seg) ELSE first + max
            IN [at |-> first,
                data |-> SubSeq(files[seg.start], first - seg.start + 1, upto - seg.start)]

\* the chunks that a replay from offset `from` sends, each of at most max bytes
Replay(max) ==
    LET chunks[from \in 0 .. End] ==
          LET c == ReadFrom(from, max)
          IN IF c.data = <<>> THEN <<>> ELSE <<c>> \o chunks[c.at + Len(c.data)]
    IN chunks

\* the offsets of the bytes that a chunk carries
Offsets(c) == c.at .. c.at + Len(c.data) - 1

----------------------------------------------------------------------------
(* Properties.                                                             *)

TypeOK ==
    /\ segments \in Seq(Segment)
    /\ lost \in Nat /\ unsynced \in Nat
    /\ DOMAIN files \subseteq Nat
    /\ files \in [DOMAIN files -> Seq(Nat)]
    /\ DOMAIN durable \subseteq DOMAIN files
    /\ durable \in [DOMAIN durable -> Nat]
    /\ pc \in {"down", "idle", "rotate", "write", "evict", "sync"}
    /\ chunk \in Seq(Nat) /\ at \in Nat
    /\ DOMAIN origin \subseteq Nat /\ origin \in [DOMAIN origin -> Nat]
    /\ DOMAIN announced \subseteq Nat /\ announced \in [DOMAIN announced -> Nat]
    /\ fed \in Nat /\ faults \in Nat /\ crashes \in Nat

\* Segment files never overlap: each offset is held by one file at most,
\* whatever failed or died before (rotate() starts past what was lost).
FilesAreDisjoint ==
    \A f, g \in DOMAIN files : f < g => f + Len(files[f]) <= g

\* Every byte a file holds for an offset is the byte last read for that offset:
\* absolute offsets keep their meaning over partial writes, lost chunks,
\* evictions whose unlink failed, and reopening.
FilesAreFaithful ==
    \A f \in DOMAIN files : \A i \in DOMAIN files[f] :
        /\ f + i - 1 \in DOMAIN origin
        /\ origin[f + i - 1] = files[f][i]

\* The list in memory stays in step with the directory: a segment's file exists
\* and holds at least len bytes, and exactly len unless a write to it failed half
\* way, after which nothing is appended to it: the file, opened with O_APPEND,
\* would put the bytes at an offset that is not theirs.
ListMatchesDirectory ==
    \A i \in DOMAIN segments :
        LET f == segments[i].start
        IN /\ f \in DOMAIN files
           /\ segments[i].len <= Len(files[f])
           /\ segments[i].len < Len(files[f]) => i < Len(segments) \/ lost > 0

\* Only the newest file can lose bytes to a dead machine, because rotate() syncs
\* the old file before it opens the next: what survives of the stream has no
\* hole in it that the journal did not count.
OnlyTheNewestFileIsAtRisk ==
    \A f, g \in DOMAIN files : f < g => DurableLength(f) = Len(files[f])

\* The files are the log: whatever failed or died, they and the list in memory hold
\* each offset once, under the byte that was read for it, and what a dead machine
\* takes away is the end of the log and no part of its middle.
FilesAreTheLog ==
    /\ FilesAreDisjoint
    /\ FilesAreFaithful
    /\ ListMatchesDirectory
    /\ OnlyTheNewestFileIsAtRisk

\* What ties the pump's place in an append to the list and the files.  With the
\* invariants above it is inductive: a file is written only at its end, which is
\* then the journal's end, past every offset a file holds.
AppendInProgress == pc \in {"rotate", "write", "evict", "sync"}

HandIsConsistent ==
    /\ pc = "down" => segments = <<>> /\ lost = 0
    /\ pc = "rotate" => at = End /\ MustRotate
    /\ pc = "write" => segments # <<>> /\ lost = 0 /\ at = End
    /\ pc \in {"evict", "sync"} =>
          segments # <<>> /\ lost = 0 /\ at + Len(chunk) = End
    /\ AppendInProgress => \A i \in DOMAIN chunk :
          at + i - 1 \in DOMAIN origin /\ origin[at + i - 1] = chunk[i]

ListIsSorted ==
    \A i, j \in DOMAIN segments : i < j =>
        /\ segments[i].start < segments[j].start
        /\ SegEnd(segments[i]) <= segments[j].start

NewestFileIsListed ==
    pc # "down" => \A f \in DOMAIN files :
        /\ segments # <<>>
        /\ f <= Last(segments).start
        /\ f + Len(files[f]) <= End

IndInv ==
    /\ TypeOK
    /\ IsFiniteSet(DOMAIN files)
    /\ \A f \in DOMAIN durable : durable[f] <= Len(files[f])
    /\ FilesAreDisjoint
    /\ FilesAreFaithful
    /\ ListMatchesDirectory
    /\ OnlyTheNewestFileIsAtRisk
    /\ HandIsConsistent
    /\ ListIsSorted
    /\ NewestFileIsListed

\* While no call fails, what was sent to a daemon lies below the end of some file, and
\* the pump writes past it: the newest file is never evicted.
AnnouncedIsBehind ==
    faults = 0 =>
        /\ lost = 0
        /\ \A o \in DOMAIN announced : \E f \in DOMAIN files : o < f + Len(files[f])
        /\ AppendInProgress => \A o \in DOMAIN announced : o < at

\* read_from, iterated as the replay does, sends each byte the list still holds
\* past `from` exactly once, in order and under its own offset, whatever gaps, empty
\* segments, half-written files and chunk boundaries lie between.
Listed == {o \in 0 .. End : \E i \in DOMAIN segments :
              segments[i].start <= o /\ o < SegEnd(segments[i])}

Completes(chunks, from) ==
    /\ UNION {Offsets(chunks[i]) : i \in DOMAIN chunks} = {o \in Listed : o >= from}
    /\ \A i, j \in DOMAIN chunks : i < j =>
          \A o \in Offsets(chunks[i]), p \in Offsets(chunks[j]) : o < p
    /\ \A i \in DOMAIN chunks : \A k \in DOMAIN chunks[i].data :
          chunks[i].data[k] = origin[chunks[i].at + k - 1]

ReplayCompletes(max) ==
    LET replay == Replay(max) IN \A from \in 0 .. End : Completes(replay[from], from)

ReplayIsComplete == \A max \in 1 .. 2 : ReplayCompletes(max)

\* While no call fails, the directory stays within the bound that the eviction
\* promises, plus the chunk being written, plus one chunk for each holder that
\* died between a write and the eviction that follows it.
Stored == FoldFunction(LAMBDA file, total : total + Len(file), 0, files)
Limit  == IF MaxBytes >= SegmentBytes - 1 + MaxChunk
          THEN MaxBytes ELSE SegmentBytes - 1 + MaxChunk

Allowed(deaths) == Limit + MaxChunk * deaths

DiskIsBounded == faults = 0 => Stored <= Allowed(1 + crashes)

\* ... because the list is the directory, a segment that is written to was not full,
\* and what a death leaves over is evicted by the next append.
DirectoryIsListed ==
    pc # "down" => \A f \in DOMAIN files :
        \E i \in DOMAIN segments : segments[i] = [start |-> f, len |-> Len(files[f])]

EvictionKeepsUp ==
    faults = 0 =>
        /\ lost = 0 /\ Len(chunk) <= MaxChunk
        /\ DirectoryIsListed
        /\ \A f \in DOMAIN files : Len(files[f]) < SegmentBytes + MaxChunk
        /\ pc = "write" => Last(segments).len < SegmentBytes
        /\ pc = "evict" => Stored <= Allowed(1 + crashes)
        /\ pc = "sync"  => Stored <= Limit
        /\ pc \notin {"evict", "sync"} => Stored <= Allowed(crashes)

\* A holder's end offset never goes back while it lives: what Status answers and
\* what the next chunk is sent under only grows.
EndNeverGoesBack ==
    [][pc # "down" /\ pc' # "down" => End' >= End]_vars

\* While no call fails, an offset sent to a daemon never comes to name another
\* byte, whoever dies (a_lost_write_leaves_a_gap_that_reads_skip_and_offsets_never_reuse;
\* a lost write and a death together do reuse them).
OffsetsAreNeverReused ==
    [][faults' = 0 =>
          \A o \in DOMAIN announced \cap DOMAIN announced' : announced'[o] = announced[o]]_vars
----------------------------------------------------------------------------
(* The journal implements the byte log: its log is what the files hold.    *)

Holding(o) == {f \in DOMAIN files : f <= o /\ o < f + Len(files[f])}
Held == UNION {f .. f + Len(files[f]) - 1 : f \in DOMAIN files}
Log == [o \in Held |-> LET f == CHOOSE f \in Holding(o) : TRUE IN files[f][o - f + 1]]

Contract == INSTANCE ByteLog WITH log <- Log, top <- End, up <- (pc # "down")

\* Through every failure and death the journal is an append-only log: no offset
\* below its end is ever written, and a death takes at most a suffix of it.
ImplementsByteLog == Contract!Spec
=============================================================================
