------------------------------ MODULE Delivery ------------------------------
(***************************************************************************)
(* The bytes of one held pane, from the shell to the grid of a daemon: the *)
(* pump, the journal and the replay of the pane's holder                   *)
(* (tamotsu/src/holder.rs) and the follow loop of the daemon               *)
(* (tamotsu/src/held.rs), over stalled links, dead holders and daemons     *)
(* that restart.                                                           *)
(*                                                                         *)
(* The journal is what ByteLog promises of it.  Every byte has a number of *)
(* its own, so that the bytes a shell writes are counted 1, 2, 3, ...; the *)
(* banner of a resurrection takes a number too.  A daemon reads one        *)
(* connection at a time, and what a holder sends to an older one is lost:  *)
(* only the newest is modelled.  Authority has several daemons, HeldPane   *)
(* has several holders and the ways in which a pane ends.                  *)
(***************************************************************************)
EXTENDS Integers, Sequences, FiniteSetsExt

CONSTANTS
    MaxChunk,       \* bound: bytes that one read from the pty returns
    ReviveBudget,   \* REVIVE_BUDGET, of one follow loop
    MaxBytes,       \* bound: bytes that the shells write
    MaxDeaths,      \* bound: holders that are killed
    MaxFaults,      \* bound: calls to the file system that fail
    MaxStalls,      \* bound: writes to a daemon and waits of a daemon that time out
    MaxStarts       \* bound: daemon starts

ASSUME BoundsAreNatural ==
    /\ MaxChunk \in Nat \ {0} /\ ReviveBudget \in Nat
    /\ MaxBytes \in Nat /\ MaxDeaths \in Nat /\ MaxFaults \in Nat
    /\ MaxStalls \in Nat /\ MaxStarts \in Nat

VARIABLES
    holder,     \* "new", "dead", "up", a step of run: "opening", "resurrecting",
                \* "failed", or a step of finalize: "tombed", "told", "gone"
    shell,      \* the shell of the holder runs
    pty,        \* the bytes that it wrote and the pump has not read
    written,    \* the number of the last byte
    log,        \* offset -> byte, what the journal's files hold
    unlisted,   \* the offsets of log that the holder's list of segments misses
    reach,      \* the offset past the newest file
    end,        \* Journal::end of the holder
    tomb,       \* the pane has a tombstone
    forgot,     \* history: a holder ended that had counted bytes past its files
    skipped,    \* history: the offsets of log that a replay passed over
    link,       \* the connection: "none", "asked", "live", "shut" by either side
    from,       \* the offset of the Attach on its way
    wire,       \* what the holder has sent and the daemon has not read
    thread,     \* where the daemon stands with the pane
    next,       \* follow's next: the offset it wants
    shown,      \* the bytes that this follow loop has handed to the grid
    exit,       \* how the loop called on_exit
    revivals,
    deaths, faults, stalls, starts

files   == <<log, unlisted, reach>>
holders == <<holder, shell, pty, written, files, end, tomb, forgot, skipped>>
conn    == <<link, from, wire>>
daemon  == <<thread, next, shown, exit, revivals>>
bounds  == <<deaths, faults, stalls, starts>>
vars    == <<holders, conn, daemon, bounds>>

Init ==
    /\ holder = "new" /\ shell = FALSE /\ pty = <<>> /\ written = 0
    /\ log = <<>> /\ unlisted = {} /\ reach = 0 /\ end = 0
    /\ tomb = FALSE /\ forgot = FALSE /\ skipped = {}
    /\ link = "none" /\ from = 0 /\ wire = <<>>
    /\ thread = "off" /\ next = 0 /\ shown = <<>> /\ exit = "no" /\ revivals = 0
    /\ deaths = 0 /\ faults = 0 /\ stalls = 0 /\ starts = 0

Opening == holder \in {"opening", "resurrecting", "failed"}
\* the holder listens on its socket
Alive == holder \in {"up", "tombed", "told"}
Bytes(at, data) == [at |-> at, data |-> data]
\* FromHolder::Exited, the last message of a connection
Exited == Bytes(0, <<>>)

\* Mutant: a sink whose write failed is dropped with its connection open.
RetiredMute == "mute"
\* retire_failed: the connection is shut down both ways
Retired == "shut"

Stall == stalls < MaxStalls /\ stalls' = stalls + 1
Fault == faults < MaxFaults /\ faults' = faults + 1
Sets(data) == {data[i] : i \in DOMAIN data}

----------------------------------------------------------------------------
(* The holder.                                                             *)

\* a shell writes to its pty
Write ==
    /\ holder = "up" /\ shell /\ written < MaxBytes
    /\ written' = written + 1
    /\ pty' = Append(pty, written + 1)
    /\ UNCHANGED <<holder, shell, files, end, tomb, forgot, skipped, conn, daemon, bounds>>

\* Sink::send of what the pump read: it goes on the wire, or times out half way
\* and retire_failed shuts the connection both ways.
Send(message) ==
    \/ /\ link = "live"
       /\ \/ wire' = Append(wire, message) /\ UNCHANGED <<link, stalls>>
          \/ Stall /\ link' = Retired /\ UNCHANGED wire
    \/ link # "live" /\ UNCHANGED <<link, wire, stalls>>

\* the files with these bytes behind the last offset
Stored(data) ==
    [o \in DOMAIN log \cup (end .. end + Len(data) - 1) |->
        IF o >= end THEN data[o - end + 1] ELSE log[o]]

\* The bytes are written, and evict takes the segments before one from the list
\* and removes their files, up to the one that it fails on.  A file that is not
\* in the list stays, or goes with the segment that it is the tail of.
StoreAndEvict(data, removed, listed) ==
    \E kept \in SUBSET {o \in unlisted : o < removed} :
        /\ log' = [o \in kept \cup {o \in DOMAIN Stored(data) : o >= removed} |-> Stored(data)[o]]
        /\ unlisted' = {o \in DOMAIN log' : o \in unlisted \cup (removed .. listed - 1)}
        /\ reach' = end + Len(data)

\* Journal::append: the segment that is written is never evicted.
Appends(data) ==
    \E first \in DOMAIN Stored(data) : first <= end /\ StoreAndEvict(data, first, first)

\* Journal::append fails: at the rotation; after write_all has put some of the
\* bytes into the file and none into the list; or at the eviction or the fsync
\* after the write.  What the list counts then is stored.
AppendFails(data, counted) ==
    \/ counted = 0 /\ UNCHANGED files
    \/ /\ counted = 0
       /\ \E n \in 0 .. Len(data) - 1 :
             LET part == SubSeq(data, 1, n)
             IN /\ log' = Stored(part)
                /\ unlisted' = unlisted \cup (end .. end + n - 1)
                /\ reach' = end + n
    \/ /\ counted = Len(data)
       /\ \E removed, listed \in DOMAIN Stored(data) :
             removed <= listed /\ listed <= end /\ StoreAndEvict(data, removed, listed)

\* ingest: after a failure note_lost counts the chunk past all that is listed
Store(data) ==
    \/ Appends(data) /\ end' = end + Len(data) /\ UNCHANGED faults
    \/ /\ Fault
       /\ \E counted \in {0, Len(data)} :
             AppendFails(data, counted) /\ end' = end + counted + Len(data)

\* Holder::pump and ingest.  The pump lives until exit().
Pump ==
    /\ Alive /\ pty # <<>>
    /\ \E n \in 1 .. MaxChunk :
          LET data == SubSeq(pty, 1, n)
          IN /\ n <= Len(pty)
             /\ pty' = SubSeq(pty, n + 1, Len(pty))
             /\ Store(data)
             /\ Send(Bytes(end, data))
    /\ UNCHANGED <<holder, shell, written, tomb, forgot, skipped, from, daemon, deaths, starts>>

\* the replays of the bytes at these offsets: in order, one to a message, because
\* a replay may fail after any part of it
ReplaysOf(offsets) ==
    {[i \in DOMAIN order |-> Bytes(order[i], <<log[order[i]]>>)] : order \in
        {s \in [1 .. Cardinality(offsets) -> offsets] :
            /\ \A i, j \in DOMAIN s : i < j => s[i] < s[j]
            /\ \A o \in offsets : \E i \in DOMAIN s : s[i] = o}}
\* Mutant: the replay starts one byte late.
ReplaysPast(offset) == ReplaysOf({o \in DOMAIN log \ unlisted : o > offset /\ o < end})
\* replay: what the journal lists from the offset on
Replays(offset) == ReplaysOf({o \in DOMAIN log \ unlisted : o >= offset /\ o < end})

\* Holder::attach, in one step because the state lock is held throughout.  A
\* replay that cannot read on ends as if all had been read.
Attach ==
    /\ Alive /\ link = "asked"
    /\ \E replay \in Replays(from) : \E n \in 0 .. Len(replay) :
          LET passed == {o \in unlisted : o >= from}
              unread == {replay[i].at : i \in n + 1 .. Len(replay)}
          IN /\ wire' = wire \o SubSeq(replay, 1, n)
             /\ \/ /\ n = Len(replay)
                   /\ link' = "live" /\ skipped' = skipped \cup passed
                   /\ UNCHANGED <<faults, stalls>>
                \/ /\ Fault
                   /\ link' = "live" /\ skipped' = skipped \cup passed \cup unread
                   /\ UNCHANGED stalls
                \/ /\ Stall
                   /\ link' = "shut" /\ skipped' = skipped \cup passed
                   /\ UNCHANGED faults
    /\ UNCHANGED <<holder, shell, pty, written, files, end, tomb, forgot>>
    /\ UNCHANGED <<from, daemon, deaths, starts>>

ShellExits ==
    /\ holder = "up" /\ shell
    /\ shell' = FALSE
    /\ UNCHANGED <<holder, pty, written, files, end, tomb, forgot, skipped, conn, daemon, bounds>>

\* Mutant: the holder finalizes as soon as the shell is gone.
DrainedNever == TRUE
\* run: the pump has read the end of the pty; DRAIN_GRACE may pass before that
Drained == pty = <<>>

\* finalize writes the tombstone, if it can ...
Finalize ==
    /\ holder = "up" /\ ~shell
    /\ IF Drained THEN UNCHANGED stalls ELSE Stall
    /\ holder' = "tombed"
    /\ \/ tomb' = TRUE /\ UNCHANGED faults
       \/ tomb' = tomb /\ Fault
    /\ UNCHANGED <<shell, pty, written, files, end, forgot, skipped, conn, daemon, deaths, starts>>

\* ... tells the daemon that is attached ...
TellExited ==
    /\ holder = "tombed" /\ holder' = "told"
    /\ Send(Exited)
    /\ UNCHANGED <<shell, pty, written, files, end, tomb, forgot, skipped>>
    /\ UNCHANGED <<from, daemon, deaths, faults, starts>>

\* Mutant: the last byte of the files is written over.
TopReused == IF reach = 0 THEN 0 ELSE reach - 1
\* where a holder that opens the files puts its first byte
Top == reach
\* what the holder counted past its files goes with its memory
Forget == end' = 0 /\ forgot' = (forgot \/ end > reach)
Hangup == link' = IF link \in {"asked", "live"} THEN "shut" ELSE link

\* ... and exits.  So does a holder whose banner was not stored.
ExitHolder ==
    /\ \/ holder = "told" /\ holder' = "gone"
       \/ holder = "failed" /\ holder' = "dead"
    /\ pty' = <<>> /\ Forget
    /\ Hangup
    /\ UNCHANGED <<shell, written, files, tomb, skipped, from, wire, daemon, bounds>>

\* The holder is killed: its pty and its shell go with it, the files do not.
Die ==
    /\ Alive \/ Opening
    /\ deaths < MaxDeaths /\ deaths' = deaths + 1
    /\ holder' = "dead" /\ shell' = FALSE /\ pty' = <<>> /\ Forget
    /\ Hangup
    /\ UNCHANGED <<written, files, tomb, skipped, from, wire, daemon, faults, stalls, starts>>

\* spawn_holder: the journal is opened past its newest file, and lists them all.
SpawnHolder(step) ==
    /\ holder' = step /\ end' = Top /\ unlisted' = {}
    /\ UNCHANGED <<shell, pty, written, log, reach, tomb, forgot, skipped>>

\* run: a resurrection appends its banner, then the socket is bound and the shell
\* spawned.  A failed append ends the holder.
Bind ==
    /\ \/ /\ holder = "opening"
          /\ holder' = "up" /\ shell' = TRUE
          /\ UNCHANGED <<written, files, end, faults>>
       \/ /\ holder = "resurrecting"
          /\ written' = written + 1
          /\ \/ /\ Appends(<<written + 1>>) /\ end' = end + 1
                /\ holder' = "up" /\ shell' = TRUE
                /\ UNCHANGED faults
             \/ /\ Fault
                /\ \E counted \in 0 .. 1 :
                      AppendFails(<<written + 1>>, counted) /\ end' = end + counted
                /\ holder' = "failed"
                /\ UNCHANGED shell
    /\ UNCHANGED <<pty, tomb, forgot, skipped, conn, daemon, deaths, stalls, starts>>
----------------------------------------------------------------------------
(* The daemon.                                                             *)

\* A daemon starts and has the pane to restore, or to open for the first time.
Start ==
    /\ thread = "off" /\ starts < MaxStarts /\ starts' = starts + 1
    /\ thread' = "restore"
    /\ next' = 0 /\ shown' = <<>> /\ exit' = "no" /\ revivals' = 0
    /\ UNCHANGED <<holders, conn, deaths, faults, stalls>>

\* The daemon stops, by its own stop or by a crash.
Stop ==
    /\ thread # "off"
    /\ thread' = "off" /\ link' = "none" /\ wire' = <<>>
    /\ UNCHANGED <<holders, from, next, shown, exit, revivals, bounds>>

Leave == link' = "none" /\ wire' = <<>> /\ UNCHANGED from
OnExit(how) == thread' = "done" /\ exit' = how
\* handshake on a new connection
Ask(offset) == link' = "asked" /\ from' = offset /\ wire' = <<>>

\* restore_session and attach_restored, or launch_held for a new pane
Restore ==
    /\ thread = "restore"
    /\ \/ /\ tomb
          /\ OnExit("recorded")
          /\ UNCHANGED <<holders, conn>>
       \/ /\ ~tomb /\ Alive
          /\ Ask(0) /\ thread' = "follow"
          /\ UNCHANGED <<holders, exit>>
       \/ /\ ~tomb /\ ~Alive /\ ~Opening
          /\ SpawnHolder(IF holder = "new" THEN "opening" ELSE "resurrecting")
          /\ thread' = "launched"
          /\ UNCHANGED <<conn, exit>>
    /\ UNCHANGED <<next, shown, revivals, bounds>>

\* HeldPty::launch connects to the holder it spawned, or gives the pane up.
Launched ==
    /\ thread = "launched" /\ ~Opening
    /\ IF Alive THEN Ask(0) /\ thread' = "follow" /\ UNCHANGED exit
                ELSE OnExit("failed") /\ UNCHANGED conn
    /\ UNCHANGED <<holders, next, shown, revivals, bounds>>

\* follow: the part of a chunk that the loop has not had yet
Fresh(message) ==
    IF message.at >= next THEN message.data
    ELSE SubSeq(message.data, next - message.at + 1, Len(message.data))

ReadBytes ==
    /\ thread = "follow" /\ wire # <<>> /\ Head(wire) # Exited
    /\ wire' = Tail(wire)
    /\ LET ends == Head(wire).at + Len(Head(wire).data)
       IN IF ends <= next THEN UNCHANGED <<next, shown>>
          ELSE next' = ends /\ shown' = shown \o Fresh(Head(wire))
    /\ UNCHANGED <<holders, link, from, thread, exit, revivals, bounds>>

ReadExited ==
    /\ thread = "follow" /\ wire # <<>> /\ Head(wire) = Exited
    /\ OnExit("told") /\ Leave
    /\ UNCHANGED <<holders, next, shown, revivals, bounds>>

HasEnded == tomb

\* The end of the stream: the tombstone says whether the pane ended.  One that
\* cannot be read says nothing.
ReadEnd ==
    /\ thread = "follow" /\ wire = <<>> /\ link = "shut"
    /\ \/ HasEnded /\ OnExit("recorded") /\ UNCHANGED faults
       \/ /\ thread' = "repair" /\ UNCHANGED exit
          /\ IF HasEnded THEN Fault ELSE UNCHANGED faults
    /\ Leave
    /\ UNCHANGED <<holders, next, shown, revivals, deaths, stalls, starts>>

\* repair finds a holder on the socket
Reconnect ==
    /\ thread = "repair" /\ Alive
    /\ Ask(next) /\ thread' = "follow"
    /\ UNCHANGED <<holders, next, shown, exit, revivals, bounds>>

HasBudget == revivals < ReviveBudget

\* repair finds none in three tries, and never looks for a tombstone again
Revive ==
    /\ thread = "repair" /\ ~Alive /\ ~Opening
    /\ IF HasBudget
       THEN /\ SpawnHolder("resurrecting")
            /\ revivals' = revivals + 1 /\ thread' = "revived"
            /\ UNCHANGED exit
       ELSE OnExit("failed") /\ UNCHANGED <<holders, revivals>>
    /\ UNCHANGED <<conn, next, shown, bounds>>

\* Mutant: a revival is followed from its first byte.
ResumedFromStart == 0
\* repair: next goes down to the new holder's end, never up and never further
Resumed == IF end < next THEN end ELSE next

\* status_end and the handshake on the same connection
Revived ==
    /\ thread = "revived" /\ ~Opening
    /\ IF Alive
       THEN /\ next' = Resumed /\ Ask(Resumed)
            /\ thread' = "follow" /\ UNCHANGED exit
       ELSE OnExit("failed") /\ UNCHANGED <<conn, next>>
    /\ UNCHANGED <<holders, shown, revivals, bounds>>

\* The check thread takes a slow link for a mute one and cuts it; what has
\* arrived can still be read.
Cut ==
    /\ thread = "follow" /\ link \in {"asked", "live"} /\ Alive /\ next < end
    /\ Stall /\ link' = "shut"
    /\ UNCHANGED <<holders, from, wire, daemon, deaths, faults, starts>>
----------------------------------------------------------------------------
HolderStep == Bind \/ Pump \/ Attach \/ Finalize \/ TellExited \/ ExitHolder

DaemonStep ==
    \/ Restore \/ Launched \/ ReadBytes \/ ReadExited \/ ReadEnd
    \/ Reconnect \/ Revive \/ Revived

Environment == Write \/ ShellExits \/ Die \/ Start \/ Stop \/ Cut

Next == HolderStep \/ DaemonStep \/ Environment

Spec == Init /\ [][Next]_vars

(* The threads of the holder and of the daemon run.  Shells, deaths,       *)
(* restarts and cuts owe nothing.                                          *)
FairSpec == Spec /\ WF_vars(HolderStep) /\ WF_vars(DaemonStep)
----------------------------------------------------------------------------
(* Properties.                                                             *)

Message == [at : Nat, data : Seq(Nat)]

TypeOK ==
    /\ holder \in {"new", "opening", "resurrecting", "failed", "dead",
                   "up", "tombed", "told", "gone"}
    /\ shell \in BOOLEAN /\ tomb \in BOOLEAN /\ forgot \in BOOLEAN
    /\ pty \in Seq(Nat) /\ written \in Nat
    /\ DOMAIN log \subseteq Nat /\ log \in [DOMAIN log -> Nat]
    /\ unlisted \subseteq DOMAIN log /\ skipped \subseteq Nat
    /\ reach \in Nat /\ end \in Nat
    /\ link \in {"none", "asked", "live", "shut"}
    /\ from \in Nat /\ wire \in Seq(Message)
    /\ thread \in {"off", "restore", "launched", "follow", "repair", "revived", "done"}
    /\ next \in Nat /\ shown \in Seq(Nat)
    /\ exit \in {"no", "told", "recorded", "failed"}
    /\ revivals \in 0 .. ReviveBudget
    /\ deaths \in Nat /\ faults \in Nat /\ stalls \in Nat /\ starts \in Nat

\* The grid of a daemon gets the bytes of the pane in the order in which they
\* were written, none twice, over every reconnection and revival of its loop.
ShownInOrder == \A i, j \in DOMAIN shown : i < j => shown[i] < shown[j]

\* Whatever was cut, replayed and revived: a byte that the journal holds and that
\* the loop has passed was shown, unless a replay passed over it: the part of a
\* failed write and the file of a failed eviction are read again only by the next
\* holder, and a replay that cannot read leaves the rest out.
NothingIsSkipped ==
    \A o \in DOMAIN log :
        thread = "follow" /\ o < next => log[o] \in Sets(shown) \/ o \in skipped

\* ... as long as no holder that lost bytes to a failing journal is followed by
\* another, which gives the offsets of the lost bytes to its own.
NothingIsSkippedUnlessLost == forgot \/ NothingIsSkipped

\* A loop that is told of the exit has been given all of the output before it,
\* the last of it included, if the pump had read it in time, but for what a replay
\* passed over.
FinalOutputIsShown ==
    exit = "told" /\ ~forgot /\ stalls = 0 =>
        \A o \in DOMAIN log : log[o] \in Sets(shown) \/ o \in skipped

\* a message carries the byte of an offset
Covers(message, o) == message.at <= o /\ o < message.at + Len(message.data)

\* What waits on a live connection continues what was shown, without a hole but
\* for what the replay passed over: what the replay and the live bytes have in
\* common is the lock under which one follows the other.
WireIsGapless ==
    link = "live" =>
        \A o \in DOMAIN log \ skipped : o >= next /\ o < end =>
            \E i \in DOMAIN wire : Covers(wire[i], o)

\* Between the grid, the wire and the journal there is no hole but for what a replay
\* passed over: what the loop has passed was shown, and what it has not passed waits
\* on the wire or will be replayed.
NoHole == NothingIsSkippedUnlessLost /\ WireIsGapless

\* When links stop stalling, a daemon that follows a pane comes to have shown all
\* that the journal holds of it and no replay passed over, and stays so; or its loop
\* has ended.
CatchesUp ==
    \/ <>forgot
    \/ <>[](thread = "follow" /\ \A o \in DOMAIN log \ skipped : log[o] \in Sets(shown))
    \/ <>[](thread \in {"done", "off"})
----------------------------------------------------------------------------
(* The inductive invariant: bytes rise with their offsets in the journal   *)
(* and along shown, wire and pty, and each of the three is ahead of the    *)
(* one before it.                                                          *)

\* where the journal's next byte goes, or would go if the files were opened
Edge == IF Alive \/ Opening THEN end ELSE reach

LogRises ==
    /\ IsFiniteSet(DOMAIN log)
    /\ \A o, p \in DOMAIN log : o < p => log[o] < log[p]
    /\ \A o \in DOMAIN log : log[o] <= written /\ o < reach
    /\ Alive \/ Opening => reach <= end
    /\ ~(Alive \/ Opening) => end = 0
    /\ Opening => end = reach

PtyIsAhead ==
    /\ ~Alive => pty = <<>>
    /\ \A i, j \in DOMAIN pty : i < j => pty[i] < pty[j]
    /\ \A i \in DOMAIN pty :
          /\ pty[i] <= written
          /\ \A o \in DOMAIN log : log[o] < pty[i]
          /\ \A j \in DOMAIN shown : shown[j] < pty[i]

\* The loop, its connection and the holder go together.
LinkIsOwn ==
    /\ thread \in {"restore", "launched"} => next = 0 /\ shown = <<>>
    /\ thread = "follow" <=> link # "none"
    /\ thread \in {"follow", "repair"} => ~Opening
    /\ link \in {"asked", "live"} => Alive
    /\ link = "asked" => from = next
    /\ link \in {"none", "asked"} => wire = <<>>
    /\ exit # "no" => thread \in {"done", "off"}

\* What is shown comes before what the loop may still be given.
ShownIsBehind ==
    /\ ShownInOrder
    /\ \A j \in DOMAIN shown :
          /\ shown[j] <= written
          /\ \A o \in DOMAIN log : o >= next => shown[j] < log[o]

MessageIsSound(m) ==
    /\ m.data = <<>> => m.at = 0
    /\ \A k, l \in DOMAIN m.data : k < l => m.data[k] < m.data[l]
    /\ \A k \in DOMAIN m.data :
          /\ m.data[k] <= written
          /\ \A i \in DOMAIN pty : m.data[k] < pty[i]
          /\ m.at + k > next => \A j \in DOMAIN shown : shown[j] < m.data[k]
          /\ \A o \in DOMAIN log :
                /\ o >= m.at + Len(m.data) => m.data[k] < log[o]
                /\ o = m.at + k - 1 => log[o] = m.data[k]
    /\ Alive \/ ~forgot => m.at + Len(m.data) <= Edge

WireIsSound == \A i \in DOMAIN wire : MessageIsSound(wire[i])

WireRises ==
    \A i, j \in DOMAIN wire : i < j =>
        /\ wire[j].data # <<>> => wire[i].at + Len(wire[i].data) <= wire[j].at
        /\ \A k \in DOMAIN wire[i].data, l \in DOMAIN wire[j].data :
              wire[i].data[k] < wire[j].data[l]

\* A byte that the journal holds is not passed over by a later message.
WireIsContiguous ==
    \A i \in DOMAIN wire, o \in DOMAIN log \ skipped :
        o >= next /\ o < wire[i].at => \E j \in 1 .. i - 1 : Covers(wire[j], o)

NothingPassedIsLost ==
    forgot \/ /\ next <= Edge
              /\ \A o \in DOMAIN log \ skipped : o < next => log[o] \in Sets(shown)

\* When the pump was in time, the Exited of a holder is the end of all.
ExitedIsLast ==
    stalls = 0 =>
        /\ holder \in {"tombed", "told", "gone"} => pty = <<>>
        /\ \A i \in DOMAIN wire : wire[i] = Exited =>
              /\ i = Len(wire) /\ holder \in {"told", "gone", "dead"}
              /\ \A o \in DOMAIN log \ skipped : o >= next => \E j \in DOMAIN wire : Covers(wire[j], o)
        /\ exit = "told" => holder \in {"told", "gone", "dead"}

IndInv ==
    /\ TypeOK /\ LogRises /\ PtyIsAhead /\ LinkIsOwn /\ ShownIsBehind
    /\ WireIsSound /\ WireRises /\ WireIsContiguous /\ WireIsGapless
    /\ NothingPassedIsLost /\ ExitedIsLast /\ FinalOutputIsShown

----------------------------------------------------------------------------
(* The log that this module assumes is the one that the journal promises.  *)

Contract == INSTANCE ByteLog WITH log <- log, top <- end, up <- (Alive \/ Opening)

\* Every step of the holder's log is one that ByteLog allows.
LogIsByteLog == Contract!Spec
=============================================================================
