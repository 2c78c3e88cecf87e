----------------------------- MODULE InProcess -----------------------------
(***************************************************************************)
(* The multiplexer backend of the daemon (tear-core/src/inproc.rs): one    *)
(* session, its registry of windows and panes, the maps of pty handles,    *)
(* grids and subscribers beside it, and the threads that meet there: a     *)
(* caller that opens a pane, the reader of every pane, callers that kill,  *)
(* and callers that subscribe.                                             *)
(*                                                                         *)
(* Every step is one critical section.  Registry and maps are under locks  *)
(* of their own, so that a call is several steps, and what it has read     *)
(* may be over when it acts.  The grid's lock is held over two of them:    *)
(* it is held while the pane's reader "feeds".                             *)
(*                                                                         *)
(* Sessions share no pane and no window, so that one is modelled.  Ids are *)
(* minted: a pane of the registry is new, and a window is named here after *)
(* the pane it is born with.  The layout tree is the set of its leaves.    *)
(* Recordings, geometry, focus and tombstones are left out.                *)
(***************************************************************************)
EXTENDS Naturals, FiniteSets

CONSTANTS
    Panes,          \* every pane that the session ever has
    Seed,           \* the pane it is created with
    Held,           \* the panes whose shell runs in a holder process
    Kills,          \* calls of kill_pane, kill_window and kill_session
    Subs,           \* calls of subscribe_pane_bytes
    None,           \* no subscriber entry, no pane, no position
    MaxChunks       \* bound: chunks of output of a pane

ASSUME ConstantsAssumption ==
    /\ Seed \in Panes /\ Held \subseteq Panes
    /\ MaxChunks \in Nat
    /\ None \notin Panes /\ None \notin Nat

VARIABLES
    session,        \* the registry's entry of the session
    state,          \* its panes, by pane: the registry's flat map
    leaves,         \* its windows: the leaves of each one's tree
    ptys, grids,    \* the panes that have a handle, a grid
    entry,          \* the subscribers' map: [closed, senders] by pane
    spawner,        \* how far the caller that opens a pane is
    child,          \* the pane's shell
    reader,         \* its reader thread, from the first byte to the end of on_exit
    fed,            \* chunks of output its grid has had
    reaped,         \* the panes of the session that a reader took out of the registry
    kill,           \* how far a kill is: [at, of, id, panes]
    hand,           \* the handles it has taken out of the map
    sub,            \* how far a subscription is: [at, pane, replay, seen]
    missed          \* panes that a kill did not see as they were: a history variable

registry == <<session, state, leaves>>
maps     == <<ptys, grids, entry>>
shells   == <<child, reader, fed, reaped>>
killers  == <<kill, hand, missed>>
vars     == <<registry, maps, spawner, shells, killers, sub>>

Registered == {p \in Panes : state[p] # "no"}
Free       == {p \in Panes \ {Seed} : spawner[p] = "no"}

NewEntry   == [closed |-> FALSE, senders |-> {}]
NoSub(at)  == [at |-> at, pane |-> None, replay |-> FALSE, seen |-> None]
EntryOf(p) == IF entry[p] = None THEN NewEntry ELSE entry[p]

Init ==
    /\ session = "no"
    /\ state = [p \in Panes |-> "no"] /\ leaves = [p \in Panes |-> {}]
    /\ ptys = {} /\ grids = {} /\ entry = [p \in Panes |-> None]
    /\ spawner = [p \in Panes |-> "no"]
    /\ child = [p \in Panes |-> "no"] /\ reader = [p \in Panes |-> "no"]
    /\ fed = [p \in Panes |-> 0] /\ reaped = {}
    /\ kill = [k \in Kills |-> [at |-> "idle", of |-> None, id |-> None, panes |-> {}]]
    /\ hand = [k \in Kills |-> {}]
    /\ sub = [s \in Subs |-> NoSub("idle")]
    /\ missed = {}
-----------------------------------------------------------------------------
(* A caller opens a pane: the registry first, then spawn_pty_with.         *)

\* The pane is in the registry, running, before it has a shell.
Enter(p, w) ==
    /\ state' = [state EXCEPT ![p] = "running"]
    /\ leaves' = [leaves EXCEPT ![w] = @ \cup {p}]
    /\ spawner' = [spawner EXCEPT ![p] = "grid"]
    /\ UNCHANGED <<maps, shells, killers, sub>>

NewSession == session = "no" /\ session' = "open" /\ Enter(Seed, Seed)

NewWindow ==
    /\ session = "open" /\ Free # {}
    /\ LET p == CHOOSE q \in Free : TRUE IN Enter(p, p)
    /\ UNCHANGED session

\* split_pane looks the origin up again under the write lock, and rolls back without it.
SplitPane(w) ==
    /\ session = "open" /\ Free # {} /\ leaves[w] # {}
    /\ Enter(CHOOSE q \in Free : TRUE, w)
    /\ UNCHANGED session

InsertGrid(p) ==
    /\ spawner[p] = "grid" /\ spawner' = [spawner EXCEPT ![p] = "open"]
    /\ grids' = grids \cup {p}
    /\ UNCHANGED <<registry, ptys, entry, shells, killers, sub>>

\* open_pane_io: the shell runs and its reader reads before the handle is in the map.
OpenPaneIo(p) ==
    /\ spawner[p] = "open" /\ spawner' = [spawner EXCEPT ![p] = "insert"]
    /\ child' = [child EXCEPT ![p] = "runs"]
    /\ reader' = [reader EXCEPT ![p] = "reads"]
    /\ UNCHANGED <<registry, maps, fed, reaped, killers, sub>>

\* The session leaves the registry with all that it has.
RemoveSession ==
    /\ session' = "gone"
    /\ state' = [p \in Panes |-> "no"] /\ leaves' = [p \in Panes |-> {}]

\* Only new_session rolls back: it removes the session, and whatever it has by now.
OpenFails(p) ==
    /\ spawner[p] = "open" /\ spawner' = [spawner EXCEPT ![p] = "failed"]
    /\ IF p = Seed
       THEN RemoveSession /\ missed' = missed \cup (Registered \ {p})
       ELSE UNCHANGED <<registry, missed>>
    /\ UNCHANGED <<maps, shells, kill, hand, sub>>

InsertPty(p) ==
    /\ spawner[p] = "insert" /\ spawner' = [spawner EXCEPT ![p] = "check"]
    /\ ptys' = ptys \cup {p}
    /\ UNCHANGED <<registry, grids, entry, shells, killers, sub>>

InRegistry(p) == p \in Registered

\* Mutant: the guard that follows the insertion is missing.
CheckNothing(p) ==
    /\ spawner[p] = "check" /\ spawner' = [spawner EXCEPT ![p] = "done"]
    /\ UNCHANGED <<registry, maps, shells, killers, sub>>
\* The reap-race guard: a pane that has left the registry in the meantime ...
CheckRegistry(p) ==
    /\ spawner[p] = "check"
    /\ spawner' = [spawner EXCEPT ![p] = IF InRegistry(p) THEN "done" ELSE "pull"]
    /\ UNCHANGED <<registry, maps, shells, killers, sub>>

\* The handles of some panes are dropped: a pty's shell is killed, a holder's let go.
Dropped(ps) ==
    child' = [p \in Panes |-> IF p \in ps \ Held /\ child[p] = "runs" THEN "exited" ELSE child[p]]

\* ... gets its grid, its subscribers, and then its handle pulled out.
PullEntries(p) ==
    /\ spawner[p] = "pull" /\ spawner' = [spawner EXCEPT ![p] = "drop"]
    /\ grids' = grids \ {p} /\ entry' = [entry EXCEPT ![p] = None]
    /\ UNCHANGED <<registry, ptys, shells, killers, sub>>

PullPty(p) ==
    /\ spawner[p] = "drop" /\ spawner' = [spawner EXCEPT ![p] = "done"]
    /\ ptys' = ptys \ {p} /\ Dropped({p} \cap ptys)
    /\ UNCHANGED <<registry, grids, entry, reader, fed, reaped, killers, sub>>
-----------------------------------------------------------------------------
(* The reader of a pane.                                                   *)

\* on_bytes locks the grid and feeds it ...
Feed(p) ==
    /\ reader[p] = "reads" /\ child[p] = "runs" /\ fed[p] < MaxChunks
    /\ reader' = [reader EXCEPT ![p] = "feeds"]
    /\ fed' = [fed EXCEPT ![p] = @ + 1]
    /\ UNCHANGED <<registry, maps, spawner, child, reaped, killers, sub>>

\* ... and, under that lock, gives the chunk to the senders; a dead one goes.
FanOut(p) ==
    /\ reader[p] = "feeds" /\ reader' = [reader EXCEPT ![p] = "reads"]
    /\ IF entry[p] = None THEN UNCHANGED <<entry, sub>>
       ELSE LET heard == {s \in entry[p].senders : sub[s].at = "open"} IN
            /\ entry' = [entry EXCEPT ![p].senders = heard]
            /\ sub' = [s \in Subs |-> IF s \in heard /\ sub[s].replay
                                      THEN [sub[s] EXCEPT !.seen = @ + 1] ELSE sub[s]]
    /\ UNCHANGED <<registry, ptys, grids, spawner, child, fed, reaped, killers>>

ShellExits(p) ==
    /\ child[p] = "runs" /\ child' = [child EXCEPT ![p] = "exited"]
    /\ UNCHANGED <<registry, maps, spawner, reader, fed, reaped, killers, sub>>

Eof(p) ==
    /\ reader[p] = "reads" /\ child[p] = "exited"
    /\ reader' = [reader EXCEPT ![p] = "exits"]
    /\ UNCHANGED <<registry, maps, spawner, child, fed, reaped, killers, sub>>

\* The follow thread of a held pane ends without on_exit once its handle is dropped.
LetGo(p) ==
    /\ p \in Held /\ reader[p] = "reads" /\ spawner[p] = "done"
    /\ p \notin ptys /\ \A k \in Kills : p \notin hand[k]
    /\ reader' = [reader EXCEPT ![p] = "done"]
    /\ UNCHANGED <<registry, maps, spawner, child, fed, reaped, killers, sub>>

LastToExit(p) == \A q \in Registered \ {p} : state[q] = "exited"

\* on_exit marks the pane, if it is still there, and sees whether it was the last.
Mark(p) ==
    /\ reader[p] = "exits"
    /\ IF InRegistry(p)
       THEN /\ state' = [state EXCEPT ![p] = "exited"]
            /\ reader' = [reader EXCEPT ![p] = IF LastToExit(p) THEN "last" ELSE "marked"]
       ELSE reader' = [reader EXCEPT ![p] = "removed"] /\ UNCHANGED state
    /\ UNCHANGED <<session, leaves, maps, spawner, child, fed, reaped, killers, sub>>

Closed(p) == [closed |-> TRUE, senders |-> {}]

Watched == \E q \in Registered : entry[q] # None /\ entry[q].senders # {}

\* Then the stream is closed, or removed with its pane.  A session that is over, and
\* that nobody watched, is to be reaped.
Close(p) ==
    /\ reader[p] \in {"last", "marked", "removed"}
    /\ entry' = [entry EXCEPT ![p] = IF reader[p] = "removed" THEN None ELSE Closed(p)]
    /\ reader' = [reader EXCEPT ![p] =
         IF reader[p] = "last" /\ EntryOf(p).senders = {} /\ ~Watched THEN "reaps" ELSE "done"]
    /\ UNCHANGED <<registry, ptys, grids, spawner, child, fed, reaped, killers, sub>>

\* Mutant: the proof of a moment ago is taken for good.
WitnessedBefore == session = "open"
\* AllPanesExited: there are panes, and all have exited.
Witness == Registered # {} /\ \A p \in Registered : state[p] = "exited"

\* reap_proven_dead: the proof is taken again under the write lock, ...
Reap(p) ==
    /\ reader[p] = "reaps"
    /\ IF Witness
       THEN RemoveSession /\ reaped' = Registered /\ reader' = [reader EXCEPT ![p] = "clears"]
       ELSE reader' = [reader EXCEPT ![p] = "done"] /\ UNCHANGED <<registry, reaped>>
    /\ UNCHANGED <<maps, spawner, child, fed, killers, sub>>

\* What the maps have of some panes is taken out, under the three locks.
Detach(ps) ==
    /\ ptys' = ptys \ ps /\ grids' = grids \ ps
    /\ entry' = [p \in Panes |-> IF p \in ps THEN None ELSE entry[p]]

\* ... the maps are cleared after the registry, and the handles dropped.
Clear(p) ==
    /\ reader[p] = "clears" /\ reader' = [reader EXCEPT ![p] = "done"]
    /\ Detach(reaped) /\ Dropped(reaped \cap ptys) /\ reaped' = {}
    /\ UNCHANGED <<registry, spawner, fed, killers, sub>>
-----------------------------------------------------------------------------
(* A human kills a pane, a window or the session.                          *)

At(k, stage) == kill[k].at = stage

\* The panes to kill are read, ...
List(k, of, id, ps) ==
    /\ At(k, "idle") /\ ps # {}
    /\ kill' = [kill EXCEPT ![k] = [at |-> "listed", of |-> of, id |-> id, panes |-> ps]]
    /\ UNCHANGED <<registry, maps, spawner, shells, hand, sub, missed>>

ListPane(k)    == \E p \in UNION {leaves[w] : w \in Panes} : List(k, "pane", p, {p})
ListWindow(k)  == \E w \in Panes : List(k, "window", w, leaves[w])
ListSession(k) == session = "open" /\ List(k, "session", None, Registered)

\* ... then detached from the maps, their handles kept.  A pane that is still being
\* opened has none there yet.
DetachPanes(k) ==
    /\ At(k, "listed") /\ kill' = [kill EXCEPT ![k].at = "detached"]
    /\ hand' = [hand EXCEPT ![k] = kill[k].panes \cap ptys]
    /\ Detach(kill[k].panes)
    /\ missed' = missed \cup {p \in kill[k].panes : spawner[p] \in {"grid", "open", "insert"}}
    /\ UNCHANGED <<registry, spawner, shells, sub>>

\* Mutant: the tree forgets the pane, the flat map does not.
RemoveLeafOnly(ps) ==
    /\ state' = state
    /\ leaves' = [w \in Panes |-> leaves[w] \ ps]
\* kill_pane: the leaf and the record; a window without leaves closes.
RemoveLeaf(ps) ==
    /\ state' = [p \in Panes |-> IF p \in ps THEN "no" ELSE state[p]]
    /\ leaves' = [w \in Panes |-> leaves[w] \ ps]

\* kill_window: the window with the leaves it has by now, the records that were listed.
RemoveWindow(w, ps) ==
    IF leaves[w] = {} THEN UNCHANGED <<state, leaves>>
    ELSE /\ state' = [p \in Panes |-> IF p \in ps THEN "no" ELSE state[p]]
         /\ leaves' = [leaves EXCEPT ![w] = {}]

\* They leave the registry after the maps.
Unregister(k) ==
    LET K == kill[k] IN
    /\ At(k, "detached")
    /\ kill' = [kill EXCEPT ![k] = [K EXCEPT !.at = "unlisted", !.of = None, !.id = None]]
    /\ \/ K.of = "pane"    /\ RemoveLeaf(K.panes \cap UNION {leaves[w] : w \in Panes})
                           /\ UNCHANGED <<session, missed>>
       \/ K.of = "window"  /\ RemoveWindow(K.id, K.panes)
                           /\ missed' = missed \cup (leaves[K.id] \ K.panes)
                           /\ UNCHANGED session
       \/ K.of = "session" /\ RemoveSession
                           /\ missed' = missed \cup (Registered \ K.panes)
    /\ UNCHANGED <<maps, spawner, shells, hand, sub>>

\* PaneIo::end: a holder is told to end its shell, a pty's shell is killed.
End(ps) == child' = [p \in Panes |-> IF p \in ps /\ child[p] = "runs" THEN "exited" ELSE child[p]]

\* end_all, with no lock held
EndAll(k) ==
    /\ At(k, "unlisted") /\ kill' = [kill EXCEPT ![k].at = "done"]
    /\ End(hand[k]) /\ hand' = [hand EXCEPT ![k] = {}]
    /\ UNCHANGED <<registry, maps, spawner, reader, fed, reaped, missed, sub>>
-----------------------------------------------------------------------------
(* A client subscribes to a pane's bytes, with or without a replay.        *)

\* The pane has a handle, or is refused.
Ask(s) ==
    /\ sub[s].at = "idle"
    /\ \E p \in ptys, replay \in BOOLEAN :
          sub' = [sub EXCEPT ![s] = [at |-> IF replay THEN "looks" ELSE "asked",
                                     pane |-> p, replay |-> replay, seen |-> None]]
    /\ UNCHANGED <<registry, maps, spawner, shells, killers>>

\* read_pane: the grid is looked up, ...
FindGrid(s) ==
    /\ sub[s].at = "looks"
    /\ sub' = [sub EXCEPT ![s] = IF @.pane \in grids THEN [@ EXCEPT !.at = "asked"]
                                 ELSE NoSub("over")]
    /\ UNCHANGED <<registry, maps, spawner, shells, killers>>

\* Mutant: the snapshot is taken without the grid's lock.
GridIgnored(p) == TRUE
GridUnlocked(p) == reader[p] # "feeds"

Joinable(p) == ~EntryOf(p).closed

\* ... and locked while the subscriber is registered and the snapshot is taken.
Register(s) ==
    LET p == sub[s].pane IN
    /\ sub[s].at = "asked"
    /\ sub[s].replay => GridUnlocked(p)
    /\ entry' = [entry EXCEPT ![p] =
         IF Joinable(p) THEN [EntryOf(p) EXCEPT !.senders = @ \cup {s}] ELSE EntryOf(p)]
    /\ sub' = [sub EXCEPT ![s].at = "open",
                          ![s].seen = IF sub[s].replay THEN fed[p] ELSE None]
    /\ UNCHANGED <<registry, ptys, grids, spawner, shells, killers>>

\* The receiver is dropped; its sender stays until the next chunk.
Unsubscribe(s) ==
    /\ sub[s].at = "open" /\ sub' = [sub EXCEPT ![s] = NoSub("over")]
    /\ UNCHANGED <<registry, maps, spawner, shells, killers>>
-----------------------------------------------------------------------------
SpawnStep(p) ==
    \/ InsertGrid(p) \/ OpenPaneIo(p) \/ OpenFails(p) \/ InsertPty(p) \/ CheckRegistry(p)
    \/ PullEntries(p) \/ PullPty(p)

ReaderStep(p) ==
    \/ FanOut(p) \/ Eof(p) \/ LetGo(p) \/ Mark(p) \/ Close(p) \/ Reap(p) \/ Clear(p)

KillStep(k) == DetachPanes(k) \/ Unregister(k) \/ EndAll(k)

SubStep(s) == FindGrid(s) \/ Register(s)

Next ==
    \/ NewSession \/ NewWindow \/ \E w \in Panes : SplitPane(w)
    \/ \E p \in Panes : SpawnStep(p) \/ ReaderStep(p) \/ Feed(p) \/ ShellExits(p)
    \/ \E k \in Kills : ListPane(k) \/ ListWindow(k) \/ ListSession(k) \/ KillStep(k)
    \/ \E s \in Subs : Ask(s) \/ SubStep(s) \/ Unsubscribe(s)

Spec == Init /\ [][Next]_vars
-----------------------------------------------------------------------------
(* Properties.                                                             *)

Entry == [closed : {FALSE}, senders : SUBSET Subs] \cup [closed : {TRUE}, senders : {{}}]

\* Every variable has its type; a closed stream has no senders.
TypeOK ==
    /\ session \in {"no", "open", "gone"}
    /\ state \in [Panes -> {"no", "running", "exited"}]
    /\ leaves \in [Panes -> SUBSET Panes]
    /\ ptys \subseteq Panes /\ grids \subseteq Panes
    /\ entry \in [Panes -> Entry \cup {None}]
    /\ spawner \in [Panes -> {"no", "grid", "open", "insert", "check", "pull", "drop",
                              "done", "failed"}]
    /\ child \in [Panes -> {"no", "runs", "exited"}]
    /\ reader \in [Panes -> {"no", "reads", "feeds", "exits", "last", "marked", "removed",
                             "reaps", "clears", "done"}]
    /\ fed \in [Panes -> 0..MaxChunks] /\ reaped \subseteq Panes
    /\ kill \in [Kills -> [at : {"idle", "listed", "detached", "unlisted", "done"},
                           of : {"pane", "window", "session", None},
                           id : Panes \cup {None}, panes : SUBSET Panes]]
    /\ hand \in [Kills -> SUBSET Panes] /\ missed \subseteq Panes
    /\ sub \in [Subs -> [at : {"idle", "looks", "asked", "open", "over"},
                         pane : Panes \cup {None}, replay : BOOLEAN,
                         seen : (0..MaxChunks) \cup {None}]]

\* subscribe_pane_bytes_with_replay: the snapshot and the chunks that follow it are
\* all of the pane's output, each chunk once.  A receiver that still has its sender
\* has had what the grid has, but for the chunk that is just being given out.
ReplayMeetsStream ==
    \A s \in Subs : LET p == sub[s].pane IN
        (sub[s].at = "open" /\ sub[s].replay /\ entry[p] # None /\ s \in EntryOf(p).senders)
            => sub[s].seen + (IF reader[p] = "feeds" THEN 1 ELSE 0) = fed[p]

Targets == UNION {kill[k].panes : k \in Kills}

\* The daemon never loses a running shell on its own: one that nobody has killed is in
\* the registry, has its handle and its grid, and is in a window.
RunningIsServed ==
    \A p \in Panes \ (Targets \cup missed) :
        (child[p] = "runs" /\ spawner[p] = "done")
            => state[p] = "running" /\ p \in ptys /\ p \in grids /\ \E w \in Panes : p \in leaves[w]

\* The flat map of panes and the trees of the windows agree (registry.rs), but for a
\* pane that is split off while its window is killed.
TreesAgreeWithPanes ==
    Registered \ missed = (UNION {leaves[w] : w \in Panes}) \ missed

Quiet ==
    /\ \A p \in Panes : /\ spawner[p] \in {"no", "done", "failed"}
                        /\ reader[p] \in {"no", "reads", "feeds", "done"}
    /\ \A k \in Kills : kill[k].at \in {"idle", "done"}

\* spawn_pty_with's guard and the order of the reap: when all threads are through, no
\* handle is left of a pane that the registry does not know, unless a kill missed it.
NothingIsStranded == Quiet => ptys \subseteq Registered \cup missed

\* A shell that a kill lists ends, in the daemon or in its holder, unless it was missed.
KilledShellEnds == Quiet => \A p \in Targets \ missed : child[p] # "runs"

Untouched == (\A k \in Kills : At(k, "idle")) /\ \A s \in Subs : sub[s].at = "idle"

\* Reap on exit: a session whose panes have all exited, and that nobody watched or
\* killed, has left the registry when all threads are through.
NoGhostSession == (Quiet /\ Untouched) => ~Witness

\* When all threads are through they leave nothing behind: no stranded handle, no shell
\* that a kill was to end, no session that is over.
QuietIsClean == NothingIsStranded /\ KilledShellEnds /\ NoGhostSession
=============================================================================
