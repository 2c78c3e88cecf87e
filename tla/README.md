# tear in TLA+

tear is a terminal multiplexer: a daemon keeps sessions of windows and panes,
clients attach to them over a socket, and, when sessions are durable, each pane
runs in a process of its own, a *holder*, that outlives the daemon and journals
what the pane writes.  A daemon that starts finds the holders of the one before
it and adopts their panes; a pane whose holder is gone is resurrected.  This
directory models the part of tear where that promise is kept or lost: the
journal, the lease that decides which daemon owns the panes, the way of a
pane's bytes from the pty to the daemon's screen, the life and the end of a held
pane, the store that a restart goes by, the threads that meet in the daemon over
a session and over a window's geometry, the memory of places, the calls of
clients, and the screen with its replay.

## 1. The system

| Component | State it keeps | Operations | Hard behaviour | What makes it correct |
|---|---|---|---|---|
| Pane journal, `makimono/src/journal.rs` | segment files, the list of them, the count of lost and of unsynced bytes | open, append (rotate, write, evict, sync), note_lost, read_from | a call that fails halfway, the death of the process or of the machine between two calls | offsets are absolute, never reused, and a replay gives what is held |
| Lease and authority, `makimono/src/lease.rs`, `tamotsu/src/authority.rs` | the number in the lease document, the number in each daemon's memory | take, held, raise_above, current; holds, require, displaced, lose | two daemons on one store, the threads of one daemon, a lost or unreadable document | one daemon ends up with the panes, and none is left attached and mute |
| Holder, `tamotsu/src/holder.rs` | pty, shell, journal, the attached daemon, the highest incarnation seen | pump/ingest, accept/serve, attach/replay, end, tick, finalize | pump, connections, timers and the main thread interleave; it may be killed at any step | every byte is journaled and sent once, in order; an end is recorded before it is told |
| Held pane, `tamotsu/src/held.rs` | connection, next offset, revivals | launch, adopt, follow, repair, check, end, drop | cut and mute links, a holder that dies or answers late | the screen gets the bytes in order, a pane never looks alive for ever without a shell |
| Store, `makimono/src/store.rs` | session documents, metadata, tombstones, the archive | write/read, write_tombstone, archive | several processes write; check-then-write | the first ending wins, nothing but a shell or a human ends a pane |
| Durability, `tear-core/src/inproc/durable.rs` | the store in use, the persister's snapshots | enable, launch_held, restore, persist_pass, release, record_human_end | restart between two writes, a stale snapshot | what runs is in the documents, what ended is not revived |
| In-process multiplexer, `tear-core/src/inproc.rs` | registry, ptys, grids, subscribers, recordings, each under a lock | new session/window, split, kill, subscribe, on_bytes, on_exit, reap | reader threads, callers and subscribers interleave | no pane without an owner, no subscriber that waits on a stream nothing ends |
| Layout, `kukaku` | a window's tree of panes | split_leaf, remove_leaf, resize_leaf, from_kind, compute_rects | rounding, windows smaller than their panes | every pane is in the tree once, the panes tile the window |
| Screen model, `tear-core/src/pane_grid.rs`, `tear-types/src/pane_snapshot.rs` | two pages of cells, scrollback, cursor, region, modes | print, control and escape sequences, resize, snapshot and its replay | wide glyphs at the margin, deferred wrap, regions | a fresh screen that is fed the replay shows the same |
| Feeder, blocks, recordings, `tear-core` | prompt marks, rings | feed | chunk boundaries | the result does not depend on the chunking |
| Daemon server and client, `tear-daemon`, `tear-client` | connections, subscriptions | requests, subscribe with replay, reconnect | a connection lost within a call, a daemon of another build, threads that outlive their client | nothing that must not be done twice is, answers are those of the call |
| Places, `praca`, `tear-daemon/src/praca_store.rs` | records and bindings, one document | create, rename, kill, reload | requests overlap, power is lost | the memory survives a restart, no place is bound to what is gone |
| Attached terminal, picker (`tear-attach`, `tear-picker`) | view models | key handling, reconcile | stale rows | the row shown is the session acted on |
| Configuration, bridges, command line, bench | none that lasts | | | |

How they interact.  The daemon spawns a holder with one `Command::spawn` and
talks to it over the pane's unix socket; the holder writes journal and tombstone
itself.  Daemon and holder share the file system: documents, metadata,
tombstones, sockets.  Two daemons meet only in the lease document and at the
holders.  Within the daemon a pane's follow thread calls `on_bytes`, which feeds
the grid and the subscribers, and `on_exit`, which marks the pane and may reap
the session; callers' threads kill, spawn and subscribe at the same time.

## 2. The modules

| Module | What it is | Source |
|---|---|---|
| `ByteLog` | what a pane's log promises: it grows at its end, a death takes a suffix | abstract |
| `Journal` | the journal, one action per system call | `journal.rs`, called as `holder.rs` does |
| `JournalProofs` | its inductive invariant and what follows, proved | |
| `Authority` | lease, daemons, connections and holders | `lease.rs`, `authority.rs`, `held.rs`, `holder.rs`, `durable.rs` |
| `AuthorityProofs` | its inductive invariant and what follows, proved | |
| `Delivery` | the way of the bytes: pty, journal, wire, screen | `holder.rs`, `held.rs` |
| `DeliveryProofs` | its inductive invariant and what follows, proved | |
| `HeldPane` | holders, socket, tombstone, daemon and kill of one pane | `holder.rs`, `held.rs`, `store.rs`, `durable.rs`, `inproc.rs` |
| `InProcess` | one session: registry, maps, readers, callers that open, kill and subscribe | `inproc.rs`, `registry.rs`, `reap.rs`, `pty.rs` |
| `InProcessProofs` | its two inductive invariants and what follows, proved | |
| `Store` | the session store and the daemons over it: spawn, kill, persister, archive, restart, overlap | `store.rs`, `durable.rs`, `ending.rs`, `tear/src/main.rs`, `tear-daemon/src/lib.rs` |
| `StoreProofs` | its inductive invariant and what follows, proved | |
| `Layout` | trees of splits, their operations and their rectangles, as operators | `kukaku/src/*.rs` |
| `Reflow` | one window: callers that change its tree and then resize its panes one by one | `inproc.rs`, over `Layout` |
| `Places` | the memory of places, its hooks and its document | `praca_store.rs`, `praca/src/*.rs`, `atomic.rs`, `tear-daemon/src/lib.rs` |
| `PlacesProofs` | its inductive invariant and what follows, proved | |
| `Rpc` | calls of clients over connections that are lost, on daemons that are replaced | `tear-client/src/lib.rs`, `tear-daemon/src/lib.rs` |
| `RpcProofs` | its inductive invariant and what follows, proved | |
| `Screen` | a pane's screen under control sequences, and the replay of its snapshot | `pane_grid.rs`, `pane_snapshot.rs` |
| `PaneProofs` | the inductive invariants of `HeldPane`, of `Screen` and of `Reflow`, and what follows, proved: a pane's life, what it shows and its place in a window | |
| `MC*` | the instances TLC checks | |

`Reflow` EXTENDS `Layout`; `Journal` and `Delivery` each INSTANCE `ByteLog`; the
other models meet in what they assume of each other and are not composed: the
product of two of them is beyond TLC.  What `HeldPane` says of one pane's end is
what `Store` takes for an end, what `Authority` says of the lease is what `Store`
takes for `Requires`, and the temporary file of `Places` is the one that `Store`
takes to be written at once.

### Journal and ByteLog

A holder has one journal.  `append` is not atomic: it may rotate (create a
segment), write, drop old segments one by one, and sync, and each of these may
fail; `pc` says where an append is.  `segments` is the list in memory, `files`
the directory, `disk` what of it survives the machine's death, `lost` the bytes
that an append failed to write.  The value of a byte is its number in the order
in which the holder got them, so that a reused offset shows.  `announced` is what
was sent to the daemon for each offset.  `Journal` is shown to implement
`ByteLog` with the refinement mapping at its end; `Delivery` uses a log that is
only assumed to keep that contract, and is shown to stay within it
(`LogIsByteLog`).  Both are theorems.

### Authority

A daemon takes the lease at start by writing a higher number; what it attaches
declares that number.  A holder refuses a lower number and tells the one it
displaces.  A daemon told so raises the lease above what the holder saw, or
finds it lost.  The document read, the lock, the write and the store of the new
number are steps of their own, because other threads of the daemon read between
them.  Connections may stall (the holder's write times out) and the daemon may
cut them; the document may be lost.  Bytes are left out.

### Delivery

`pty`, `log`, `wire` and `shown` are the places a byte passes.  Each byte is its
number.  The holder's pump reads a chunk, journals it (or counts it as lost) and
sends it under one lock; `Attach` replays from an offset under the same lock, one
byte to a message, since a replay may fail after any part of it (`Replays`);
the daemon's follow loop skips what it has, steps back after a revival, and
reports the exit.  A link may be shut by the holder or cut by the check.  A
holder may be killed, a daemon may stop and another start.

A call to the file system may fail wherever the code makes one.  An append fails
at its rotation, after it has written part of the chunk, or after the write, at
the eviction or the fsync (`AppendFails`): the part is in the file and not in the
list, or the list has dropped a segment whose file stays.  `unlisted` are the
offsets of such bytes, which this holder does not replay and the next one, which
lists what it finds, does; `reach` is where the newest file ends.  A replay that
cannot read on ends as if all had been read, and the connection goes live.
`skipped`, a history variable, are the offsets that a replay passed over for
either reason.  A tombstone that cannot be written or read is taken for none.

### HeldPane

One pane, every holder ever spawned for it, the socket path, the tombstone, the
daemon's thread for it and one human's kill.  `write_tombstone` is two steps, a
look and a write, wherever it is called, since holders and daemon are different
processes.  A holder finalizes on its main thread or on the thread that `end()`
leaves.  A daemon that gives up on a holder does so by right, when nothing is
there to answer, or because the holder is slow (`MaxSlow`).

Every call on the tombstone may fail, a look, a write or a read, of the daemon
or of a holder, and whoever makes it goes on: a holder that could not record its
ending tells it all the same, and a tombstone that cannot be read is taken for
none.  `failed` counts these calls.  The launch of a holder may fail, too
(`NotHeld`): a new pane then runs in the daemon, one that is restored is marked
as failed.

### InProcess

One session, with its panes and windows; sessions share nothing but the maps'
locks.  An action is one critical section: the registry's lock, the locks of the
maps together where the code takes them together, or one of them.  The grid's
lock is the one that is held across two sections, which is what makes a replay
meet the stream: `reader[p] = "feeds"` stands for it.  A pane is opened by a
caller in seven steps (`spawner`), ends in up to five of its reader (`reader`),
and is killed in four (`kill`).  A pane in `Held` has its shell in a holder: to
drop its handle lets the shell go, to `End` it ends the shell, and the thread that
follows it stops without `on_exit`; a pane that is not held loses its shell with
its handle.  `missed` is a history variable: the panes that a kill detached before
they had a handle, or took out of the registry without having listed them.

### Store

One or more daemons over one store.  A daemon is named by the incarnation that
the lease gave it.  The opening of a pane is a sequence of steps (the session's
directory, the pane's directory and meta, the holder, the handle, a copy of the
session under the registry's lock, and its writing without it); a kill is the
detachment, a tombstone for each pane, and the end; the persister copies,
writes, lists the directory, judges each session and moves what is over; a start
takes the lease, restores what the documents name, and only then asks for the
socket, as `cmd_daemon` does.  The disk may refuse a document, a tombstone, an
archive, the listing of a directory or the read of a file (`Refuses`, bounded by
`MaxUpsets`); the code logs it, if that, and goes on.  A call that is refused is
taken to leave no directory behind that it made on its way.

`past` is history: `late` are the sessions that a displaced daemon wrote or
archived, `stale` those whose document an older copy has replaced, or whose
document the disk refused at the opening of a pane or could not be read at a
start, `early` those that were judged over and then had a pane's directory made,
by the daemon or by the holder that makes it again, before the move, or that
could not be read for the verdict; `raced` are the panes that ended while a
restore that had planned to attach them was under way, or whose tombstone it
could not read, and `cut` those whose opening a crash cut off, or whose kill was
not recorded.  They are the exceptions of the properties, each of them a race or
a refusal that the code has (section 5).

### Layout and Reflow

A tree is the function that gives each leaf the way from the root to it, one
step for every split on the way: its orientation, its ratio, and the side that
is taken.  The code's recursion over nodes becomes one expression for all ways:
a pane that is split lengthens its own, a collapse takes a step out of those
under the sibling, a divider is one step in the ways of the leaves under it, and
`compute_rects` folds `Enter` over a way.  The prover cannot take recursive
operators, but it can take functions and folds.  A split that several ways share
is written once for each; that they agree on it is part of what is proved
(`IsTree`).  A leaf that the code's tree had twice has no such function: of ids
that are minted once, `split_leaf` makes none.  A ratio is a number of
sixtieths, which makes halves, thirds, quarters and fifths exact.  `Reflow` has
one window: a caller changes the tree in one critical section, computes the
rectangles and stamps the records in another, and then resizes one pane after
the other, pty, grid and record each under a lock of its own.  The call is
`clean` as long as nobody else has acted since it began.  The resize of a pty
may fail (`ResizeFails`): then the grid and the record stay, and the reflow goes
on to the next pane; or it fails in a holder, that is, behind the daemon's back,
and grid and record go on.  `unsized` are the panes whose pty did not take the
last size it was sent.  A client may ask for a size of zero, which goes to pty
and grid as it is and is recorded as one cell; `pty` is the size that was sent,
which a holder makes one cell, too (`holder.rs:335-337`).

### Places

A request changes the multiplexer, then the memory under the store's lock, and
then writes a copy of the memory without it: open, write, sync and rename are
steps, a disk may be full, the daemon may be killed and power may be lost, which
loses what was not synced.  All connections use one temporary name, so that
`tmp` is an inode that two of them may hold.

### Rpc

A client holds its lock over a call: it takes the connection from the link, or
dials, probes and identifies itself, sends, waits, and sends again at most once,
if the request may be replayed and the connection was lost.  The daemon's thread
goes on with a request whose client has left.  There are five kinds of request:
a read, a write of absolute state, a spawn, a long input in chunks, and a brake
that an older daemon does not know and hangs up on.  `ran` counts how often each
part of each call was done.  The write of a chunk may fail after some of it was
typed, which is answered as an error: `torn` are the chunks this happened to.

### Screen

Every control sequence is a function from screens to screens, and so is the
replay: `Replay(g, newest, t)` feeds the control sequences that `write_ansi` makes of
`g` to `t`.  A glyph is one or two columns wide, and a cell may carry a mark;
colours and other attributes are left out, and a counted sequence has the count
1.

## 3. What is checked

| Run | Module | Kind | Shows |
|---|---|---|---|
| `journal_faults` | MCJournal | pass | the files are the log (disjoint, faithful, in step with the list, at risk at the end only), a replay is complete, the directory bounded, offsets reused only after a failed call, ByteLog implemented |
| `authority` | MCAuthority | pass, safety and liveness | no declaring daemon left mute, the newest served, the lease above all, panes pass forward, a daemon does not lose to itself while the document survives, every pane comes to be served by one daemon for good |
| `delivery` | MCDelivery | pass, safety and liveness | bytes in order, once, no hole but for what a failed call left, final output shown, the log keeps ByteLog's contract, the screen comes to have what the journal has |
| `held_pane` | MCHeldPane | pass, safety and liveness | endings only from shells and humans, recorded before reported if they can be, one shell that can be reached, no pane left dead, a holder that is asked to end does |
| `inprocess` | MCInProcess | pass | a replay meets its stream, running shells are served, trees and records agree, and when all threads are through no handle is stranded, killed shells have ended, unwatched sessions are reaped |
| `store` | MCStore | pass | only what is over is archived, what is ended gets no shell again, a running shell is in the document that a restart goes by |
| `store_refused` | MCStore | violation | a daemon that is refused the socket has taken the store from the one that serves |
| `reflow` | MCReflow | pass | a layout tiles its window, an undisturbed call gives every pane whose pty takes it its size, whatever came before, the focus is on a pane, a kill or a divider takes no room from a pane that should keep it |
| `places` | MCPlaces | pass | bindings and records agree, a killed session is forgotten, a restart finds the memory, the document goes from old to new |
| `rpc` | MCRpc | pass | nothing is done twice that must not be, answers are those of the call, a long input arrives from its beginning, also where a chunk is typed in part, the handshake's result goes with the link |
| `screen` | MCScreen | pass | glyphs stay whole, lines outside the region stay and none is lost, a snapshot's replay shows the screen and its history |
| `screen_region` | MCScreen | violation | a region of the primary screen takes in the line below it when it scrolls |

Where a property is a conjunction its parts are named and stated one by one
beside it (`FilesAreTheLog`, `PanesAreServed`, `NoHole`, `EndingsAreTrue`,
`QuietIsClean`, `IndexIsSound`, `LinkIsKnown`, `LinesAreKept`, `ReplayIsFaithful`,
`NoneIsSqueezed`): TLC says which one fails when it is named in the
configuration instead.

**Bounds.**  The journal's instance has segments of two bytes, chunks of one and
two, and a directory bound of one segment, so that every append of the second
chunk rotates and evicts; two failing calls and one death reach every pair of
failure and crash.  Authority has two daemons' worth of names, three starts,
three connections, one loss of the document, one failing lock and one stall: a
daemon restarts under the name of one that stopped, and a pane has at most two
live connections beside the one being made.  Delivery has three bytes in chunks
of up to two, two deaths of holders, one failed call, one stall and two daemons:
enough for a revival that is itself revived, and for a replay that meets live
bytes.  HeldPane has three holders, two faults (deaths, cuts and calls on the
tombstone that fail) and two daemons: a holder, the one that replaces it and the
one of a second daemon; or a revival and a second death, which finds the budget
of one revival spent.  Its holders answer in time (`MaxSlow` is 0); the theorems
about it have no such bound.  InProcess has a pane that is its session's first
and a second, held one, which is a split or a window of its own; one kill of any
kind, and one subscription, with or without replay, and one chunk of output of
the second pane: whatever a kill, a reap, an exit and a subscription can do to
each other while a pane is opened happens with these (2.9 million states; the
theorems about InProcess have no such bound).  Store has one session with two
panes and two starts, one kill and one upset (an exit, a holder that does not
start, a call that the disk refuses, a stop, or an overlapping start): every
pair of an opening and a kill, a pass of the persister, a restart or a second
daemon.  Reflow has three panes, two callers and three calls in a window of six
by four cells, whose halves and thirds leave a cell over, a client's size of
five by zero, which a window of one pane becomes as five by one, with no room
for panes one above the other, and one pane at a time whose pty did not take its
size.  Places has two sessions, two places, two connections and two starts, and
an inode more than there can be in use.  Rpc has two clients, two calls, and one
cut or two starts of either build: a retried call meets the thread that still
has it, and a third call would only follow.  Screen has every sequence of five
characters and controls (and `WritingKeepsGlyphsWhole` and `LinesAreKept` ask of
the one that may follow) on screens of two by three and three by two, with
resizes between them and two rows of history: a glyph of two columns fills or
splits every margin, and a history overflows.  Every bound is a constant named
`Max…` with its meaning beside it, and is a guard of the action it bounds.

Some runs also have a constraint, which only says where TLC stops looking; none of
them checks liveness.  It is a definition of the `MC` module: in Store `Promised`
(a state whose only session is `late`; it stays late, and every property of the
run leaves a late session out, so no violation can follow), in InProcess
`OneIsHeard` (output and subscriptions are those of one pane), in Places
`OneAtATimeOnceTorn` (the last daemon serves one request at a time after two
requests had persisted at once: `Remembers` and `OldOrNew` say nothing then), in
Rpc `FewFaults` (a cut or a second start) and in Reflow `LastOverlapIsShort` (a
third call that overlaps the second is followed until both reflow the window).

**Fairness.**  Weak fairness is assumed of the threads of the program: the
holder's pump, connection and finalizing threads, the daemon's follow thread and
the thread of a kill.  These block only on what the models make a
guard.  `Store`, `Places`, `Rpc`, `Reflow`, `Screen`, `InProcess` and `Journal`
state safety only, and no fairness.  Nothing is assumed of shells, of deaths, of
restarts, of cut links, of lost documents or of humans.  The operating system
does not starve a runnable thread for ever, which is all that is used.

**Conditions.**  Some properties say under what they hold, because the code
breaks them otherwise:

* `OffsetsAreNeverReused`: `faults' = 0`.  A failed write and a death together
  reuse offsets (section 5); `CatchesUp`, `FinalOutputIsShown` and the part of
  `NoHole` about what is already passed leave out what follows (`forgot`).
* The same three: not of the bytes that a replay passed over (`skipped`), the part of
  a failed write, the file of a failed eviction, and what a replay could not read.
  `FinalOutputIsShown`: unless a wait or a write timed out.
* `PanesSettle`: `losses = 0 /\ refusals = 0`.  Daemons with one number, or with
  none, displace each other without end (section 5).
* `NeverLosesToItself`: `losses = 0`.  When the document is lost and a daemon
  raises the number, it writes the document before it stores the number
  (`lease.rs:75`), and another thread of its own that looks in between finds the
  lease held by another.  While it survives, `raise_above` is not reached at all: a
  daemon that is displaced finds that a newer one took the lease, which is how the
  proof goes.
* `EndingsAreTrue`: that what is reported is recorded holds unless a call on the
  tombstone failed (`ReportedIsRecorded`); what is recorded and what is reported is true
  in any case.
* `OneShell`: one daemon, and holders that answer in time.
  A daemon that restarts while a holder opens, or gives up on a slow one, starts
  a second holder over the first one's socket (`durable.rs:373`, `held.rs:411`),
  and the first to finalize removes the other's socket (`holder.rs:498`).
* `RunningIsServed`, `TreesAgreeWithPanes` and the parts of `QuietIsClean`: not
  of the panes in `missed`.  The kills detach before they unregister, and look
  only once at what to kill.  A pane that is being opened is stranded; a pane
  that is split off while its window is killed keeps its record and its shell
  and has no window, so that no kill but the session's finds it
  (`inproc.rs:1226`); a pane that is added while the session is killed, or while
  its creation is rolled back (`inproc.rs:3341`), loses its record and keeps its
  shell.
* `RunningIsFound`, `ArchivedAreOver`, `EndedStaysEnded`: not of the sessions and
  panes that `past` names (see Store above and section 5): `late` in all three,
  `early` in the first two, `stale` and `cut` in the first, `raced` in the third; and
  not of a pane whose opening is on its way to its document.
* `Remembers` and `OldOrNew`: unless two requests have persisted at once
  (`overlapped`), or the last could not write.
* `DisplayMatchesLayout`: after a call that nobody disturbed, not of the ptys and
  grids of the panes in `unsized` or without a cell in the layout, and up to the one
  cell that a record has where pty and grid have none.  `FocusIsALeaf`:
  unless the pane was killed while the call that selects it held no lock.
* `InputIsAPrefix`: the chunk after what was acknowledged may have been typed, in whole
  or in part, if it was lost or its write failed.
* `LinesBelowRegionStay`: not of the primary screen's scroll (`screen_region`).
  `WritingKeepsGlyphsWhole` and `ReplayIsFaithful`: of screens whose glyphs are whole,
  and, for the history, of rows that have the screen's width.
* That the first ending stays is not stated at all: two processes may both see
  no tombstone, and the second write replaces the first (`store.rs:254`).

## 4. What is proved

Eight proof modules prove, for every value of the constants, every safety
invariant and action property of the passing runs.  Each has one or two inductive
invariants, a lemma for every action that it is kept, and a theorem for each
property.  `Inductive` (and `ThreadsInductive` of InProcess) state the invariants
themselves; the parts named below are defined in the model or at the head of its
proof module, each with a comment that says what it is.

The only assumptions are those named in the modules that declare the constants.
Bounds are naturals; a segment, a chunk, a sync and the parts of an input are at
least one; `None` is no daemon, pane, connection, holder or record; every pane
of `Store` is of a session; the leader of `Rpc` is a client.  `Places` takes
sessions, anchors, calls and inodes to be finite, and one inode more than the
document and the calls can hold: the file system does not run out of names.
`Reflow` takes the panes to be finitely many, and the window's first size and that of a
pane that is split off to have cells in both directions; the sizes that clients ask for
may be zero.

* **Journal.**  `Inductive` (`IndInv`), `TypeCorrect` (`TypeOK`), `Disjointness`,
  `Faithfulness`, `Agreement`, `RiskIsConfined`, `EndMonotone`, and `LogIsKept`
  (`FilesAreTheLog`), which puts the four together.  None of the four
  safety invariants is inductive alone: that two files are disjoint needs that
  the list is sorted and that the newest file is in it, since a rotation names
  the new file by the list's end; that the list matches the directory needs what
  is known at each point of an append that is under way (`HandIsConsistent`,
  `AppendInProgress`).  `IndInv` is their conjunction.

  `JournalImplementsByteLog` (`ImplementsByteLog`) is the refinement: with the log
  taken to be what the files hold, every step of the journal is one of `ByteLog` or
  leaves it alone.  It rests on the three parts of `FilesAreTheLog`.  Disjoint
  files give each offset one holder, so that a write changes the log at one place
  (`GrowsLog`); `EndGrows` says the log grows beyond its end only; and that only
  the newest file is at risk makes the death of the machine the loss of a suffix
  (`MachineShortens`).  `NoOffsetIsReused` (`OffsetsAreNeverReused`) needs that what
  was sent lies below the end of a file that stays (`AnnouncedIsBehind`): an
  eviction never takes the newest.

  `DirectoryStaysSmall` (`DiskIsBounded`): the bytes in the directory are a sum
  over the files, and the same sum over the list as long as no call has failed
  (`DirectoryIsListed`).  Both are taken place by place, so that a write, a
  rotation and the removal of a file each change one summand, and
  `EvictionKeepsUp` says how much an append that is under way may be above the
  limit.  `EveryReplayIsComplete` says of every chunk size that `read_from`
  gives all that the list holds from an offset on, each byte once and in order,
  and `ReplayLosesNothing` (`ReplayIsComplete`) is its instance at the chunk
  sizes of the run.  The read is a fold over the list.  It is unrolled into a
  function on the places of the list, and that a fact about one place carries to
  the next and so to the last is an induction by the least place at which it
  would fail.
* **Authority.**  `Inductive`, `TypeCorrect`, `NoPaneIsMute` (`NeverMute`),
  `NewestIsServed` (`ServesTheNewest`), `ServedByNewest` (`PanesAreServed`),
  `LeaseIsAbove` (`LeaseIsNewest`), `PanesPassForward` (`HandsOverForward`).  The
  strengthening (`ThreadsAreLinked` and its neighbours) says that a follow thread
  has a link, that the thread that raises the lease holds the lock, and that the
  number it has written is above every daemon's.  `TheNewestNeverLoses`
  (`NeverLosesToItself`) needs a second invariant, proved over the first:
  `NumbersStayCurrent` (`NumbersAreCurrent`), that while the document survives
  no thread raises the number, a daemon that owns the lease has the lease's number
  or none yet, its links are its own and carry its number, and a connection is
  only displaced by a higher one.
* **Delivery.**  `Inductive`, `TypeCorrect`, `TheShownRises` (`ShownInOrder`),
  `NothingIsPassedOver` (`NoHole`), `TheExitIsLast` (`FinalOutputIsShown`).  Bytes
  are numbered in the order of their writing, and the invariant says that the
  numbers rise with the offsets of the log (`LogRises`), along the screen, and
  along the wire (`WireRises`), and that the pty is ahead of all (`PtyIsAhead`).
  To show nothing twice and skip nothing: a message carries what the log has at
  its offsets, and nothing older than what was shown (`WireIsSound`); a later one
  starts beyond an earlier one, and what the journal holds between them is in one
  before it (`WireIsContiguous`); what the journal holds beyond the loop is on a
  live wire (`WireIsGapless`); `ExitedIsLast` says that after the exit nothing
  follows.
  All but the last leave out what a replay passed over.  That numbers rise with the
  offsets through failed appends needs that a holder counts on beyond the newest file
  (`LogRises`: `reach <= end`), and one that opens it begins there.
  `LogImplementsByteLog` (`LogIsByteLog`) is the second refinement.
* **HeldPane.**  `Inductive`, `TypeCorrect`, `TheEndingsAreTrue`
  (`EndingsAreTrue`), `ThereIsOneShell` (`OneShell`).  Two invariants.
  `EndInv`: a holder finalizes with what happened to its shell or with a human's
  kill, and has recorded it before it tells, unless a call failed
  (`HoldersAreTrue`), the pane is the daemon's own child only after its first
  start (`OwnIsFirst`), and an ending on the link is what happened and has been
  recorded, with the same exception (`ToldIsRecorded`).  `ShellInv`, for one
  daemon and no slow holder: at most one holder is opening or serving, the
  socket is its own (`OneHolder`), and who has a shell serves
  (`ShellsAreServed`).
* **Screen.**  `ScreenInv`, `ScreenTypeCorrect`, `LinesAreNeverLost`
  (`LinesAreKept`), `GlyphsStayWhole` (`WritingKeepsGlyphsWhole`),
  `ReplaysAreFaithful` (`ReplayIsFaithful`).  The invariant (`ScreenIInv`) says
  that the screen is one of its size: both pages are rows of lines of that size,
  every cell is a proper one (`ProperCells`: a glyph with its own width, or the
  second half of one), and cursor and region are on the page.  Every control
  sequence is a chain of screens, each with one field or one line changed, and
  has a lemma.  `LinesAreKept` follows from what each shift does to a line that
  is not between the margins.  `WritingKeepsGlyphsWhole` is cell by cell: a
  write changes the cells of the glyph and, where it cuts another glyph in half,
  the one cell beside them (`OverwriteKeepsWhole`), after a wrap or not.

  `ReplayIsFaithful` follows the bytes that `write_ansi` produces.  Each fold
  over cells, rows and lines is unrolled into a function on its places.  A row
  is painted from the left, and what is left of the cursor is what the snapshot
  has (`IsPainted`); a page is painted row by row, and the rows above are done;
  a line of the history is laid on the row it comes to, and pushed off the top
  in its turn, so that after `r` line feeds the first `Off(r)` lines are history
  and the rest are on the page (`IsLaid`).  The replay starts from a reset
  screen (`IsReset`), on the primary page or on the alternate one.
* **InProcess.**  `Inductive`, `TypeCorrect` (`TypeOK`), `ReplayIsExact`
  (`ReplayMeetsStream`), `TreesAgree` (`TreesAgreeWithPanes`).  That a replay
  meets the stream needs that a sender is in the entry of its receiver's own
  pane, and only after registration (`SendersAreTheirs`), and that a reader is
  started once (`NotYetReading`).  That trees and records agree while
  `kill_window` removes the records it listed and the leaves it finds needs that
  what was listed is in no other window (`ListsStayInWindows`), and thus that
  windows are disjoint and that a new pane is nobody's.  `RunningIsKept`
  (`RunningIsServed`) and `ThreadsLeaveNothing` (`QuietIsClean`) are about what is
  left when all threads are through, and their invariant, `ThreadsInv`, says what
  each thread still owes: a shell starts once and exits once, before its pane is
  marked (`ShellsInv`); a pane that no kill has got to is registered and in the
  maps (`LivesInv`), and one that a kill has got to is out of them (`DoomedInv`);
  the handle of a running shell is in the map or in a kill's hand (`HandInv`); a
  handle in the map is of a registered pane, or somebody is about to take it out
  (`KnownInv`); and a session that is over has a reader that will reap it
  (`GhostInv`).  The exception of them all is `missed`.
* **Store.**  `Inductive`, `TypeCorrect`, `TheArchivedAreOver`
  (`ArchivedAreOver`), `TheEndedStayEnded` (`EndedStaysEnded`),
  `TheRunningAreFound` (`RunningIsFound`).  The proof follows the copies: what
  the persister has copied, judged over and not yet moved (`OverInv`), what a
  start still plans to attach (`RestoreInv`, `PlannedInv`), what an opening has
  written (`OpenInv`, `UnbornInv`), what a kill has left to do (`KillInv`).
  `RegistryInv` ties the running shells to the registry of the daemon that has
  the store and to the copies that are under way, also where the disk refused a
  document, and `FoundInv` ties them to the document.  Every exception of a
  property is one that the proof used; one that it did not use was dropped, and
  one that it lacked was found by it: a holder that makes its pane's directory
  again (`MadeLate` in `Launch`).
* **Places.**  `Inductive`, `TypeCorrect`, `TheIndexIsSound` (`IndexIsSound`),
  `RestartsRemember` (`Remembers`), `DocumentIsAtomic` (`OldOrNew`).  `IndexInv`:
  bindings and records agree in the memory, in every copy that a request carries and
  in every file (`DocsAreSound`), and while the daemon is down its document has a
  killed session only if the kill overtook the hook (`KillsAreMissed`).
  `DiskInv`: the temporary file is not the document,
  and as long as no two requests have persisted at once there is at most one
  that writes (`OneAtATime`); `WriterInv` says what its file holds at each of its
  steps, and what would be left of it if power were lost.
* **Layout and Reflow.**  `WindowIsTyped`, `CellsAreShared` (`RectsTile`),
  `FocusStaysInWindow` (`FocusIsALeaf`), `DisplayIsTheLayout`
  (`DisplayMatchesLayout`), `RoomIsNotLost` (`NoneIsSqueezed`), for any number of
  panes and callers and any window.  `WindowTyped`: the layout is a tree, that is,
  the ways of two leaves have the same splits as far as the one that parts them,
  where they take different sides, and behind every step there are leaves on both
  sides (`IsTree`).  Every operation of `Layout` keeps that: splitting, removing,
  moving a divider, and the presets, for which `RowSteps` and `RowsAreFilled` show
  that the rows of `tiled` share out the panes, and `OrderIsThere` that
  they have an order of display, each at its rank among the panes before it.

  The rooms along a way are the rectangles that `Enter` makes one of the other;
  each step shares its room between its two sides (`EnterHalves`).  So two
  leaves have no cell in common, that of the split that parts them
  (`NoOverlap`), and every cell is some leaf's: of all the rooms that have the
  cell, one with the fewest leaves under it can only be a leaf's, or a side of
  it would have the cell (`NoGap`).  For `NoneIsSqueezed` rounding is monotone:
  more extent (`ExtentGrows`) and a larger ratio (`RatioGrows`) give a side no
  fewer cells, and the rest none the less, so what one step leaves a way the
  steps after it keep (`RoomGrows`).

  `FocusInv` adds to `FocusIsALeaf` that the pane a `select_pane` has located is a
  leaf or has been overtaken.  `DisplayInv` says what a call that nobody has
  disturbed still owes the window: every pane has its size or a job, unless its pty
  did not take the last one it was sent (`Applied`), a pty and its
  grid agree but for the job under way, and a call that has company has lost its
  claim (`Company`, `Owed`, `Begun`); when nothing is owed the window shows its
  layout.
* **Rpc.**  `Inductive`, `TypeCorrect`, `NothingIsDoneTwice` (`NeverTwice`),
  `EveryAnswerIsOwn` (`AnswersAreOwn`), `InputArrivesInOrder` (`InputIsAPrefix`),
  `TheLinkIsKnown` (`LinkIsKnown`).  A connection has at most one client and one
  request (`ConnsInv`, `IdsInv`); a request that must not be done twice and waits
  somewhere has not been done, and there is one copy of it (`OnceInv`); who waits
  for an answer waits for that of its request (`WaitInv`); a client's last call
  says how much of it was done (`LastInv`); a chunk follows whole ones only, and what
  was acknowledged is whole (`TornInv`); what a client takes its daemon to
  understand is what that daemon does (`ViewsInv`).

**Model-checked only.**

* Liveness, which is out of the prover's reach: `PanesSettle`, `CatchesUp`,
  `NeverLeftDead`, `AskedHolderEnds`.
* That a window comes to show its layout: `DisplayMatchesLayout` says that a call
  that has ended undisturbed left it so, not that calls end.

## 5. Disagreements between the code and its documents

Two of them are runs of their own, which TLC finds violated:

* `store_refused`: `cmd_daemon` takes the lease and adopts every held pane before
  it finds that another daemon answers on the socket (`tear/src/main.rs:1951`);
  it then exits, and the one that goes on serving has lost the store.
  `tear-bench/src/matrix.rs:421` says that none is as red as two.
* `screen_region`: `scroll_region_up` on the primary screen puts the blank line
  below the region instead of at its bottom (`pane_grid.rs:384`, against `:357`).

The others were found while modelling, most of them as counterexamples to a
property without its exception; the exception is in the model, and in the list
of conditions above.

Journal, lease and holders:

* `note_lost` counts lost bytes in memory only, so that a revived holder gives
  their offsets to other bytes, and a daemon that is past them skips these
  (`holder.rs:271`, `held.rs:413`; `tamotsu/tests/never_mute.rs:125`,
  `tamotsu/tests/holder.rs:77`).
* Part of an append that fails stays in the file and not in the list
  (`journal.rs:140`), until the next holder lists the directory (`journal.rs:78-88`):
  a daemon that is past it by then never shows it.  A segment whose removal
  failed is dropped from the list and back in the next holder's (`journal.rs:237-245`).
* A replay ends silently when it cannot read (`holder.rs:118`), the connection goes
  live, and the daemon is told nothing of the hole
  (against `docs/SESSION-DURABILITY.md:96-99`).
* A holder that cannot write its tombstone tells its daemon the ending all the same
  (`holder.rs:489-490`), so that the next daemon revives a pane whose end was
  reported; a tombstone that cannot be read is taken for none, with the same effect
  (`durable.rs:372`, `held.rs:335`).
* A lost lease document restarts the count, two daemons get equal numbers, and
  displace each other for ever (`lease.rs:45`; `docs/PERFORMANCE.md:728-730`,
  `:772-776`).
* `restore_session` reads the tombstone before it probes the holder, and not
  again, so that a shell that exits in between is revived (`durable.rs:372`;
  `docs/SESSION-DURABILITY.md:163`).  A link cut just before the shell exits leaves
  neither tombstone nor holder to be found, with the same effect (`held.rs:333`).
* A kill while the link is repaired is dropped, and the repair does not look for
  it: the shell lives on (`held.rs:273`; `docs/SESSION-DURABILITY.md:66`).

In-process multiplexer:

* The guard of `spawn_pty_with` is to keep a dead session from stranding a handle
  (`inproc.rs:564`); it does against the reap, which unregisters first and detaches
  then, and does not against the kills, which do it the other way round
  (`inproc.rs:1196`, `:1224`, `:1269`).
* A subscriber that has found the handle just before the pane is reaped or killed,
  and registers after, makes a new entry that nothing ever closes (`inproc.rs:365`,
  `:409`), which the comment at `inproc.rs:349` says cannot be.
* Two reflows that overlap leave panes at the sizes of an older layout, or a pty at
  another size than its grid, until the next call (`inproc.rs:1586`); the comment
  at `:1555-1558` says that what a window displays always matches its layout.  A
  resize that is late, after a kill has left one pane, shrinks the window to that
  pane's old size (`record_absolute_size`).
* A pty that cannot be resized, as that of a held pane cannot while its link is
  repaired (`held.rs:270-274`), is left at the old size with its grid, while its
  record has the new one; the reflow drops the error (`inproc.rs:1591`, against
  `:1555-1558`).  A size of zero, which the daemon does not refuse
  (`tear-daemon/src/lib.rs:1227-1229`), goes to pty and grid as it is and is
  recorded as one (`inproc.rs:1540`, `:1545`).
* A spawn that fails in `split_pane` returns before the reflow and leaves the pane
  in the tree, with no shell (`inproc.rs:3454`).
* `select_pane` may leave the focus on a pane that was killed meanwhile
  (`inproc.rs:1343`; `tear-types/src/window.rs:22-23`).
* "Every leaf ends with exactly 1/n" (`even_chain`) does not hold of more than 20
  panes, whose ratios `MIN_RATIO` clamps.

Store:

* A document that the disk refuses at the opening of a pane is logged, and the
  pane runs on in no document until the session is written again
  (`durable.rs:269-271`).  A document that a start cannot read is left in place
  and its panes are not looked for (`durable.rs:338`), and a session whose files
  cannot be read may be judged over (`durable.rs:583`, `:593`).
* A persister may write a copy of a session that a spawn has changed and written
  since (`durable.rs:530`); the next pass writes the newer one, unless the daemon dies
  first.
* A session is judged over before it is moved, and a pane may be opened in it in
  between: its directory is archived while it runs (`durable.rs:579-587`).
* A kill that overtakes the opening of a pane, or comes while the persister
  writes, leaves a document of an archived session, which the next start takes up.
* A displaced daemon's persister asks only whether it knows that it lost, and writes
  and archives on until it does (`durable.rs:527`).
* A restore archives by a document that is behind, although a holder runs in a pane
  directory that the document does not name (`docs/SESSION-DURABILITY.md:103`).
* A kill that a crash interrupts between the tombstone and the end leaves a
  running shell that no start looks for; a kill served by a daemon that has
  released the store neither records nor ends.  A `new_session` whose holder does not
  start leaves a pane directory that keeps the session from being archived.

Places and clients:

* Two connections that persist at once use one temporary file, and a
  half-written one can become the document (`atomic.rs:56`,
  `praca_store.rs:27-32`, which says that a reload never finds one); the same
  holds of two writers of a session's document.
* A session that ends by itself keeps its binding, and one whose creation hook is
  overtaken by its kill keeps its record.  The hook binds the daemon's working
  directory although a request may carry its own (`tear-daemon/src/lib.rs:1441-1450`,
  `:1562-1566`).  `decide` never uses the index by project (`praca/src/index.rs:11-12`).
* `require_spawn_args` asks the view of the last handshake before the call dials
  another, older daemon, which drops the arguments without a word
  (`tear-client/src/lib.rs:887`, against `:872`).
* A chunk of input whose write fails is answered as an error although part of it
  may have been typed (`inproc.rs:1453-1454`, `tear-core/src/pty.rs:178-181`).
* A write of absolute state that is replayed may undo another client's write that was
  acknowledged since (`tear-client/src/lib.rs:33-38`).  The brake is acknowledged
  before it is persisted.

Screen:

* Rows of history keep the width they had before a resize, wrap on a narrower screen,
  and become two (`pane_snapshot.rs:542`).  Half a glyph, which erasing, shifting,
  the insert mode and a resize leave behind, shifts the rest of its row in the replay
  (`pane_snapshot.rs:449-451`, `:571-574`).
* The replay carries neither the region, nor the insert mode, a pending wrap, the
  saved cursor or the pen; a second replay into one screen doubles its history.
* Sequences introduced by ESC alone, and resizes, leave a pending wrap standing.
  `1047l` and `1049l` on the primary screen erase it; RIS keeps the insert mode.

## 6. What is not modelled

Keys and resizes of holders, the polled working directory and metadata carry no
state that the properties read.  The clock of the link check is abstracted: a
link may be cut at any time, so that a wrong cut is allowed, not found.  A kill
of a pane that is just being opened is left out of HeldPane, and is in Store.
InProcess leaves out recordings and input, and takes an end of a held shell to
reach its holder, which HeldPane does not.  Its locks are not state, so that a
deadlock over them is not found.  `neighbor` of the layout is called by nothing in
the program.  Layout has no ratio that is not a number, and Reflow no cell
origin.  Rpc leaves out subscriptions and events.  The order of
`SetConfig`, `ReloadConfig` and the fan-out of a configuration (`tear-config`) and the
limit of the archive are left out.  The attached terminal and the picker are one
thread each over the client; feeder, blocks and recordings are rings behind one
lock; configuration, bridges, the command line and the benchmarks keep no state
of the kind modelled here.  `PROJECT.json` lists every component with its status.

## 7. Plan

1. Journal, ByteLog and their proofs, the refinement among them. *Done.*
2. Authority and its proofs. *Done.*
3. Delivery, HeldPane, InProcess, Store, Places, Rpc and their proofs. *Done.*
4. Screen, Layout with Reflow, and their proofs. *Done.*
5. Left of the proofs: abstract specifications of what a caller relies on, and
   their refinement: a request that is done at most once (Rpc), a memory that is
   replaced as a whole (Places), a pane that lives, ends once and stays ended
   (HeldPane and Store).
6. Left of the models: subscriptions with replay and reconnection, as an
   implementation of an abstract stream; recordings and locks as state in
   InProcess; the feeder's chunking and the rings of blocks and recordings; the
   picker's reconciliation.
