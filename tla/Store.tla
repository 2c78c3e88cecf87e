------------------------------- MODULE Store -------------------------------
(***************************************************************************)
(* The session store of held sessions (makimono/src/store.rs) and the      *)
(* daemons that use it (tear-core/src/inproc/durable.rs, and the order in  *)
(* which tear/src/main.rs starts one): a directory for each session, with  *)
(* a document that says which panes it has and a directory for each pane   *)
(* that is ended, once and for all, by its tombstone.                      *)
(*                                                                         *)
(* In a daemon the threads of its clients spawn and kill panes, a          *)
(* persister copies the registry to the documents and archives what is     *)
(* over, and a start restores what the documents name.  Daemons may        *)
(* overlap: the store's lease belongs to the one that took it last, and an *)
(* earlier one finds out when it next asks or is told by a holder.         *)
(*                                                                         *)
(* A holder process and its shell are one thing here, and a holder that    *)
(* dies alone is repaired (HeldPane); journals are in Journal, the lease   *)
(* and what it means for the holders in Authority.  A document is written  *)
(* at once: that two writers of a daemon share a temporary file is the     *)
(* subject of Places.                                                      *)
(***************************************************************************)
EXTENDS Naturals, FiniteSets

CONSTANTS
    Sessions,
    Panes,          \* every pane that is ever opened
    Of,             \* the session that a pane is opened in
    MaxStarts,      \* bound: starts of a daemon
    MaxKills,       \* bound: requests to kill a session or a pane
    MaxUpsets,      \* bound: shells that exit by themselves, holders that do not start, what
                    \* the disk refuses, stops of a daemon, starts of one while another runs
    Overlap         \* bound: panes that are opened if a daemon is started while another runs

ASSUME ConstantsAssumption ==
    /\ Of \in [Panes -> Sessions]
    /\ {MaxStarts, MaxKills, MaxUpsets, Overlap} \subseteq Nat

Daemons == 1..MaxStarts         \* by the incarnation that the lease gave them

VARIABLES
    lease,          \* the incarnation that took the lease last
    stage,          \* of a daemon: "no", "restoring", "restored", "serving", "stopping", "gone"
    durable,        \* daemons that have the store, as far as they know
    reg,            \* the registry of a daemon: [open, panes]
    attached,       \* panes whose handles a daemon has
    restore,        \* what a start still has to do: [todo, at, plan]
    holders,        \* panes whose shell runs in a holder
    local,          \* panes whose shell runs in a daemon itself
    dirs,           \* session directories
    pdirs, tomb,    \* pane directories, and those with a tombstone
    doc,            \* session documents: [here, panes]
    spawn,          \* how far the opening of a pane is: [at, by, doc, tomb]
    kill,           \* a request to kill panes that is being served: [by, panes, todo, whole]
    pass,           \* the persister of a daemon: [at, open, panes, todo, over, restored]
    written,        \* the documents that a persister believes it wrote: likewise
    past            \* history, for the properties: panes that [ended], [strays] archived while
                    \* running, [ghosts] that got a shell after their end, [cut] whose opening
                    \* or whose kill was not written, [raced] whose end a restore did not see;
                    \* sessions whose document is [late] or [stale], judged too [early], or
                    \* [gone] to the archive; whether starts [overlap] and one was [refused];
                    \* [kills] and [upsets]

daemon   == <<lease, stage, durable>>
requests == <<spawn, kill>>
persister == <<pass, written>>
disk     == <<dirs, pdirs, tomb, doc>>
shells   == <<holders, local>>
runtime  == <<reg, attached>>
vars     == <<daemon, runtime, restore, shells, disk, requests, persister, past>>

In(s)     == {p \in Panes : Of[p] = s}
NoDoc     == [here |-> FALSE, panes |-> {}]
Doc(P)    == [here |-> TRUE, panes |-> P]
NoReg     == [open |-> {}, panes |-> {}]
NoRestore == [todo |-> {}, at |-> {}, plan |-> {}]
NoSpawn   == [at |-> "no", by |-> 0, doc |-> NoDoc, tomb |-> FALSE]
NoKill    == [by |-> 0, panes |-> {}, todo |-> {}, whole |-> {}]
NoPass    == [at |-> "idle", open |-> {}, panes |-> {}, todo |-> {}, over |-> {}, restored |-> FALSE]
NoHistory == [ended |-> {}, strays |-> {}, ghosts |-> {}, cut |-> {}, late |-> {}, stale |-> {},
              early |-> {}, raced |-> {}, gone |-> {}, overlap |-> FALSE, refused |-> FALSE,
              kills |-> 0, upsets |-> 0]

Up       == {d \in Daemons : stage[d] \notin {"no", "gone"}}

Opening == {p \in Panes : spawn[p].at # "no"}

\* Bound: it is the clients of the latest daemon that have requests.
Clients  == {d \in Daemons : stage[d] \in {"serving", "stopping"} /\ d = lease}

\* What require() finds in the lease's file.
Requires(d) == d \in durable /\ d = lease

Init ==
    /\ lease = 0
    /\ stage = [d \in Daemons |-> "no"] /\ durable = {}
    /\ reg = [d \in Daemons |-> NoReg] /\ attached = [d \in Daemons |-> {}]
    /\ restore = [d \in Daemons |-> NoRestore]
    /\ holders = {} /\ local = [d \in Daemons |-> {}]
    /\ dirs = {} /\ pdirs = {} /\ tomb = {} /\ doc = [s \in Sessions |-> NoDoc]
    /\ spawn = [p \in Panes |-> NoSpawn] /\ kill = NoKill
    /\ pass = [d \in Daemons |-> NoPass]
    /\ written = [d \in Daemons |-> [s \in Sessions |-> NoDoc]]
    /\ past = NoHistory
-----------------------------------------------------------------------------
(* What is done to the store.                                              *)

Upset(history) == past.upsets < MaxUpsets /\ past' = [history EXCEPT !.upsets = @ + 1]

\* What the disk refuses is logged, and whoever wanted it goes on.
Refuses(history) == Upset(history) /\ UNCHANGED disk

WriteDoc(d, s, P) ==
    /\ doc' = [doc EXCEPT ![s] = Doc(P)]
    /\ past' = [past EXCEPT
         !.late = IF d # lease \/ s \in past.gone THEN @ \cup {s} ELSE @,
         !.stale = IF ~(reg[d].panes \cap In(s) \subseteq P) THEN @ \cup {s}
                   ELSE IF (holders \cap In(s)) \ past.ended \subseteq P THEN @ \ {s} ELSE @]

\* Writing a file makes the directories that it is in.
RecordEnds(P) ==
    /\ dirs' = dirs \cup {Of[p] : p \in P}
    /\ pdirs' = pdirs \cup P /\ tomb' = tomb \cup P
    /\ UNCHANGED doc

EndsKnown(P) ==
    [past EXCEPT !.ended = @ \cup P,
                 !.raced = @ \cup {p \in P : \E d \in Daemons : p \in restore[d].plan}]

Archive(s) ==
    /\ dirs' = dirs \ {s}
    /\ pdirs' = pdirs \ In(s) /\ tomb' = tomb \ In(s)
    /\ doc' = [doc EXCEPT ![s] = NoDoc]
    /\ past' = [past EXCEPT !.gone = IF s \in dirs THEN @ \cup {s} ELSE @,
                            !.late = IF \E d \in Daemons \ {lease} : s \in pass[d].over
                                       THEN @ \cup {s} ELSE @,
                            !.strays = IF \E d \in Daemons : s \in pass[d].over
                                         THEN @ \cup ((pdirs \cap In(s) \cap holders) \ past.ended)
                                         ELSE @]

\* Mutant: over when the panes that the document names are.
DocumentIsOver(s) == doc[s].panes \subseteq tomb

\* session_is_over: by the tombstones, or when there is no pane at all.
SessionIsOver(s) ==
    IF pdirs \cap In(s) = {} THEN doc[s].panes = {} ELSE pdirs \cap In(s) \subseteq tomb
-----------------------------------------------------------------------------
(* Opening a pane.                                                         *)

NewPane(d, p) ==
    /\ d \in Clients /\ spawn[p].at = "no"
    /\ past.overlap => Cardinality(Opening) < Overlap
    /\ Of[p] \in reg[d].open \/ \A q \in In(Of[p]) : spawn[q].at = "no"
    /\ reg' = [reg EXCEPT ![d] = [open |-> @.open \cup {Of[p]}, panes |-> @.panes \cup {p}]]
    /\ spawn' = [spawn EXCEPT ![p].at = "entered", ![p].by = d]
    /\ UNCHANGED <<daemon, attached, restore, shells, disk, kill, persister, past>>

\* launch_held: the session's directory is made first, then the pane's in it.
MakeSessionDir(p) ==
    /\ spawn[p].at = "entered" /\ Requires(spawn[p].by)
    /\ p \in reg[spawn[p].by].panes
    /\ dirs' = dirs \cup {Of[p]}
    /\ spawn' = [spawn EXCEPT ![p].at = "dir"]
    /\ UNCHANGED <<daemon, runtime, restore, shells, pdirs, tomb, doc, kill, persister, past>>

\* A pane's directory is made after the verdict on its session, and before the move.
MadeLate(p) ==
    past' = IF p \notin pdirs /\ \E d \in Daemons : Of[p] \in pass[d].over
              THEN [past EXCEPT !.early = @ \cup {Of[p]}] ELSE past

MakePaneDir(p) ==
    /\ spawn[p].at = "dir" /\ Of[p] \in dirs
    /\ pdirs' = pdirs \cup {p}
    /\ spawn' = [spawn EXCEPT ![p].at = "launch"]
    /\ MadeLate(p)
    /\ UNCHANGED <<daemon, runtime, restore, shells, dirs, tomb, doc, kill, persister>>

\* The holder makes the directory again when it is not there.
Launch(p) ==
    /\ spawn[p].at = "launch" /\ Requires(spawn[p].by)
    /\ holders' = holders \cup {p}
    /\ dirs' = dirs \cup {Of[p]} /\ pdirs' = pdirs \cup {p}
    /\ spawn' = [spawn EXCEPT ![p].at = "persist"]
    /\ MadeLate(p)
    /\ UNCHANGED <<daemon, runtime, restore, local, tomb, doc, kill, persister>>

\* Not held for whatever reason, the shell is a child of the daemon.
RunLocally(p) ==
    LET d == spawn[p].by IN
    /\ \/ spawn[p].at \in {"entered", "dir", "launch"} /\ Requires(d) /\ Upset(past)
       \/ /\ \/ spawn[p].at = "entered" /\ (~Requires(d) \/ p \notin reg[d].panes)
             \/ spawn[p].at = "dir" /\ Of[p] \notin dirs
             \/ spawn[p].at = "launch" /\ ~Requires(d)
          /\ UNCHANGED past
    /\ local' = [local EXCEPT ![d] = @ \cup {p}]
    /\ spawn' = [spawn EXCEPT ![p].at = "persist", ![p].tomb = Requires(d) /\ p \in reg[d].panes]
    /\ UNCHANGED <<daemon, runtime, restore, holders, disk, kill, persister>>

\* Mutant: the spawn leaves the document to the persister.
CopyNothing(p) ==
    /\ spawn[p].at = "persist"
    /\ spawn' = [spawn EXCEPT ![p].at = "write"]
    /\ UNCHANGED <<daemon, runtime, restore, shells, disk, kill, persister, past>>

\* persist_session_now copies the session under the registry's lock ...
CopySession(p) ==
    LET d == spawn[p].by IN
    /\ spawn[p].at = "persist"
    /\ spawn' = [spawn EXCEPT ![p].at = "write",
                              ![p].doc = IF Requires(d) /\ Of[p] \in reg[d].open
                                           THEN Doc(reg[d].panes \cap In(Of[p])) ELSE NoDoc]
    /\ past' = IF spawn'[p].doc.here THEN past ELSE [past EXCEPT !.cut = @ \cup {p}]
    /\ UNCHANGED <<daemon, runtime, restore, shells, disk, kill, persister>>

\* ... and writes it without.
PersistSessionNow(p) ==
    /\ spawn[p].at = "write"
    /\ spawn' = [spawn EXCEPT ![p].at = "opened", ![p].doc = NoDoc]
    /\ \/ /\ spawn[p].doc.here
          /\ WriteDoc(spawn[p].by, Of[p], spawn[p].doc.panes)
          /\ dirs' = dirs \cup {Of[p]} /\ UNCHANGED <<pdirs, tomb>>
       \/ spawn[p].doc.here /\ Refuses([past EXCEPT !.stale = @ \cup {Of[p]}])
       \/ ~spawn[p].doc.here /\ UNCHANGED <<disk, past>>
    /\ UNCHANGED <<daemon, runtime, restore, shells, kill, persister>>

\* The handle is kept, or dropped when the pane was killed meanwhile: a local
\* shell ends with it, and a held one does not.
Opened(p) ==
    LET d == spawn[p].by
        kept == p \in reg[d].panes IN
    /\ spawn[p].at = "opened"
    /\ spawn' = [spawn EXCEPT ![p] = [NoSpawn EXCEPT !.at = "done", !.tomb = spawn[p].tomb]]
    /\ attached' = [attached EXCEPT ![d] = IF kept THEN @ \cup {p} ELSE @]
    /\ local' = [local EXCEPT ![d] = IF kept THEN @ ELSE @ \ {p}]
    /\ UNCHANGED <<daemon, reg, restore, holders, disk, kill, persister, past>>
-----------------------------------------------------------------------------
(* Ending a pane.                                                          *)

\* kill_session reads which panes the session has; kill_pane names one.
BeginKill(d, P, whole) ==
    /\ d \in Clients /\ kill = NoKill
    /\ P # {} /\ P \subseteq reg[d].panes
    /\ past.kills < MaxKills /\ past' = [past EXCEPT !.kills = @ + 1]
    /\ kill' = [by |-> d, panes |-> P, todo |-> P, whole |-> whole]
    /\ UNCHANGED <<daemon, runtime, restore, shells, disk, spawn, persister>>

KillSession(d, s) == s \in reg[d].open /\ BeginKill(d, reg[d].panes \cap In(s), {s})
KillPane(d, p)    == BeginKill(d, {p}, {})

\* record_human_end, a pane at a time: only a daemon that has the store records.
RecordHumanEnd(p) ==
    LET d == kill.by IN
    /\ p \in kill.todo
    /\ kill' = [kill EXCEPT !.todo = @ \ {p}]
    /\ IF Requires(d) /\ p \in reg[d].panes
         THEN \/ RecordEnds({p}) /\ past' = EndsKnown({p})
              \/ Refuses([past EXCEPT !.cut = @ \cup {p}])
         ELSE UNCHANGED <<disk, past>>
    /\ UNCHANGED <<daemon, runtime, restore, shells, spawn, persister>>

\* The panes leave the daemon, and the handles that it had end their shells; a
\* holder that is told to end records that, too, and ends whether it can or not.
FinishKill ==
    LET d == kill.by
        told == kill.panes \cap attached[d] \cap holders
        known(P) == [EndsKnown(P) EXCEPT
                       !.cut = @ \cup {p \in reg[d].panes \ kill.panes : Of[p] \in kill.whole}
                                 \cup (IF Requires(d) THEN {} ELSE kill.panes)] IN
    /\ kill # NoKill /\ kill.todo = {}
    /\ kill' = NoKill
    /\ reg' = [reg EXCEPT ![d] = [open |-> @.open \ kill.whole,
                                  panes |-> @.panes \ (kill.panes \cup {p \in Panes : Of[p] \in kill.whole})]]
    /\ attached' = [attached EXCEPT ![d] = @ \ kill.panes]
    /\ holders' = holders \ told
    /\ local' = [local EXCEPT ![d] = @ \ (kill.panes \cap attached[d])]
    /\ \E recorded \in SUBSET told :
         /\ RecordEnds(recorded)
         /\ IF recorded = told THEN past' = known(told) ELSE Upset(known(recorded))
    /\ UNCHANGED <<daemon, restore, spawn, persister>>

\* A shell exits by itself: its holder, or the daemon that it is a child of,
\* records it if it can.
ShellExits(p) ==
    /\ p \in holders \/ \E d \in Daemons : p \in local[d]
    /\ \E recorded \in SUBSET {q \in {p} : q \in holders \/ spawn[q].tomb} :
         RecordEnds(recorded) /\ Upset(EndsKnown(recorded))
    /\ holders' = holders \ {p}
    /\ local' = [d \in Daemons |-> local[d] \ {p}]
    /\ UNCHANGED <<daemon, runtime, restore, spawn, kill, persister>>

\* A session all of whose panes have exited with nobody watching leaves the registry.
Reap(d, s) ==
    /\ d \in Up /\ s \in reg[d].open /\ reg[d].panes \cap In(s) # {}
    /\ reg[d].panes \cap In(s) \subseteq attached[d] \ (holders \cup local[d])
    /\ reg' = [reg EXCEPT ![d] = [open |-> @.open \ {s}, panes |-> @.panes \ In(s)]]
    /\ attached' = [attached EXCEPT ![d] = @ \ In(s)]
    /\ UNCHANGED <<daemon, restore, shells, disk, requests, persister, past>>
-----------------------------------------------------------------------------
(* The persister.                                                          *)

BeginPass(d) ==
    /\ d \in Up \cap durable /\ pass[d].at = "idle"
    /\ pass' = [pass EXCEPT ![d] = [at |-> "write", todo |-> reg[d].open,
                                    open |-> reg[d].open, panes |-> reg[d].panes,
                                    over |-> {}, restored |-> stage[d] # "restoring"]]
    /\ UNCHANGED <<daemon, runtime, restore, shells, disk, requests, written, past>>

\* What the persister saw is written when it is not what it wrote before; the
\* panes' directories are made for their titles, if those are news.  What the
\* disk refuses is tried again in the next pass.
Persist(d, s) ==
    LET seen == pass[d].panes \cap In(s)
        news == written[d][s] # Doc(seen) IN
    /\ pass[d].at = "write" /\ s \in pass[d].todo
    /\ pass' = [pass EXCEPT ![d].todo = @ \ {s}]
    /\ \/ /\ news /\ WriteDoc(d, s, seen)
          /\ pdirs' = pdirs \cup seen /\ dirs' = dirs \cup {s} /\ UNCHANGED tomb
          /\ written' = [written EXCEPT ![d][s] = Doc(seen)]
       \/ news /\ Refuses(past) /\ UNCHANGED written
       \/ ~news /\ UNCHANGED <<disk, past, written>>
    /\ UNCHANGED <<daemon, runtime, restore, shells, requests>>

\* Directories that were not live when the pass began may be over.
ListOnDisk(d) ==
    /\ pass[d].at = "write" /\ pass[d].todo = {}
    /\ written' = [written EXCEPT ![d] =
                     [s \in Sessions |-> IF s \in pass[d].open THEN @[s] ELSE NoDoc]]
    /\ pass' = [pass EXCEPT ![d] =
                  IF ~@.restored THEN NoPass
                  ELSE [@ EXCEPT !.at = "archive", !.todo = dirs \ pass[d].open]]
    /\ UNCHANGED <<daemon, runtime, restore, shells, disk, requests, past>>

\* The verdict on a directory, and then its move.  One that cannot be read passes
\* for one that has neither a document nor a pane.
Judge(d, s) ==
    /\ pass[d].at = "archive" /\ pass[d].over = {} /\ s \in pass[d].todo
    /\ \E unread \in {{}, {s}} :
         /\ pass' = [pass EXCEPT ![d].todo = @ \ {s},
                                 ![d].over = IF SessionIsOver(s) THEN {s} ELSE unread]
         /\ IF unread = {} THEN UNCHANGED past
                           ELSE Upset([past EXCEPT !.early = @ \cup unread])
    /\ UNCHANGED <<daemon, runtime, restore, shells, disk, requests, written>>

Move(d) ==
    /\ pass' = [pass EXCEPT ![d].over = {}]
    /\ \E s \in pass[d].over : Archive(s) \/ Refuses(past)
    /\ UNCHANGED <<daemon, runtime, restore, shells, requests, written>>

EndPass(d) ==
    /\ pass[d].at = "archive" /\ pass[d].todo = {} /\ pass[d].over = {}
    /\ pass' = [pass EXCEPT ![d] = NoPass]
    /\ UNCHANGED <<daemon, runtime, restore, shells, disk, requests, written, past>>
-----------------------------------------------------------------------------
(* Daemons.                                                                *)

\* cmd_daemon takes the lease and restores before it asks for the socket.
Start ==
    /\ lease < MaxStarts
    /\ IF Up = {} THEN UNCHANGED past
       ELSE /\ Cardinality(Opening) <= Overlap /\ past.upsets < MaxUpsets
            /\ past' = [past EXCEPT !.overlap = TRUE, !.upsets = @ + 1]
    /\ lease' = lease + 1
    /\ stage' = [stage EXCEPT ![lease'] = "restoring"]
    /\ durable' = durable \cup {lease'}
    /\ restore' = [restore EXCEPT ![lease'] = [NoRestore EXCEPT !.todo = dirs]]
    /\ UNCHANGED <<runtime, shells, disk, requests, persister>>

\* Mutant: a pane whose holder answers comes back whatever the tombstone says.
BackIfHeld(s) == doc[s].panes \ (tomb \ holders)

\* A document's panes that have no tombstone come back, whether their holders
\* answer or not.
Back(s) == doc[s].panes \ tomb

\* Their session does with them; a tombstone that cannot be read passes for none.
Returns(d, s) ==
    \E unread \in SUBSET (doc[s].panes \cap tomb) :
        LET back == Back(s) \cup unread IN
        /\ back # {}
        /\ reg' = [reg EXCEPT ![d] = [open |-> @.open \cup {s}, panes |-> @.panes \cup back]]
        /\ restore' = [restore EXCEPT ![d] = [todo |-> @.todo \ {s}, at |-> {s}, plan |-> back]]
        /\ IF unread = {} THEN UNCHANGED past
                          ELSE Upset([past EXCEPT !.raced = @ \cup unread])
        /\ UNCHANGED disk

\* ... and without any it is archived, unless it has panes that no document names
\* and that can be read.
Stays(d, s) ==
    /\ Back(s) = {}
    /\ restore' = [restore EXCEPT ![d].todo = @ \ {s}]
    /\ Archive(s) \/ Refuses(past) \/ (~doc[s].here /\ ~SessionIsOver(s) /\ UNCHANGED <<disk, past>>)
    /\ UNCHANGED reg

\* A document that cannot be read is left for another start.
Leaves(d, s) ==
    /\ restore' = [restore EXCEPT ![d].todo = @ \ {s}]
    /\ Refuses([past EXCEPT !.stale = @ \cup {s}])
    /\ UNCHANGED reg

RestoreSession(d, s) ==
    /\ stage[d] = "restoring" /\ restore[d].at = {} /\ s \in restore[d].todo
    /\ Returns(d, s) \/ Stays(d, s) \/ Leaves(d, s)
    /\ UNCHANGED <<daemon, attached, shells, requests, persister>>

\* A pane whose holder answers is adopted, any other gets a new one, or waits on
\* the disk for another start if that one does not come up.
AttachRestored(d, p) ==
    /\ p \in restore[d].plan
    /\ restore' = [restore EXCEPT ![d].plan = @ \ {p}]
    /\ \/ /\ Requires(d)
          /\ attached' = [attached EXCEPT ![d] = @ \cup {p}]
          /\ holders' = holders \cup {p}
          /\ pdirs' = pdirs \cup {p} /\ dirs' = dirs \cup {Of[p]} /\ UNCHANGED <<tomb, doc>>
          /\ past' = [past EXCEPT !.ghosts = IF p \in past.ended THEN @ \cup {p} ELSE @]
       \/ /\ p \notin holders /\ Requires(d) /\ Refuses(past)
          /\ UNCHANGED <<attached, holders>>
       \/ ~Requires(d) /\ UNCHANGED <<attached, holders, disk, past>>
    /\ UNCHANGED <<daemon, reg, local, requests, persister>>

PersistRestored(d) ==
    /\ restore[d].at # {} /\ restore[d].plan = {}
    /\ restore' = [restore EXCEPT ![d].at = {}]
    /\ \E s \in restore[d].at :
         IF Requires(d) /\ s \in reg[d].open
           THEN \/ /\ WriteDoc(d, s, reg[d].panes \cap In(s))
                   /\ dirs' = dirs \cup {s} /\ UNCHANGED <<pdirs, tomb>>
                \/ Refuses(past)
           ELSE UNCHANGED <<disk, past>>
    /\ UNCHANGED <<daemon, runtime, shells, requests, persister>>

Restored(d) ==
    /\ stage[d] = "restoring" /\ restore[d] = NoRestore
    /\ stage' = [stage EXCEPT ![d] = "restored"]
    /\ UNCHANGED <<lease, durable, runtime, restore, shells, disk, requests, persister, past>>

\* The socket is taken when no daemon answers on it.
Bind(d) ==
    /\ stage[d] = "restored" /\ \A e \in Daemons : stage[e] # "serving"
    /\ stage' = [stage EXCEPT ![d] = "serving"]
    /\ UNCHANGED <<lease, durable, runtime, restore, shells, disk, requests, persister, past>>

\* The end of a daemon's process, with whatever its threads were doing: its own
\* children end with it, its holders do not.
Gone(D) ==
    /\ stage' = [d \in Daemons |-> IF d \in D THEN "gone" ELSE stage[d]]
    /\ durable' = durable \ D
    /\ reg' = [d \in Daemons |-> IF d \in D THEN NoReg ELSE reg[d]]
    /\ attached' = [d \in Daemons |-> IF d \in D THEN {} ELSE attached[d]]
    /\ restore' = [d \in Daemons |-> IF d \in D THEN NoRestore ELSE restore[d]]
    /\ local' = [d \in Daemons |-> IF d \in D THEN {} ELSE local[d]]
    /\ spawn' = [p \in Panes |-> IF spawn[p].by \in D THEN [NoSpawn EXCEPT !.at = "done"] ELSE spawn[p]]
    /\ kill' = IF kill.by \in D THEN NoKill ELSE kill
    /\ pass' = [d \in Daemons |-> IF d \in D THEN NoPass ELSE pass[d]]
    /\ written' = [d \in Daemons |-> IF d \in D THEN [s \in Sessions |-> NoDoc] ELSE written[d]]

Interrupted(D) == {p \in Panes : spawn[p].by \in D /\ spawn[p].at \in {"persist", "write"}}

\* A daemon finds that another one answers, and its process ends with an error.
Refuse(d) ==
    /\ stage[d] = "restored" /\ \E e \in Daemons : stage[e] = "serving"
    /\ Gone({d})
    /\ past' = [past EXCEPT !.refused = TRUE]
    /\ UNCHANGED <<lease, holders, disk>>

\* A daemon that is told to stop takes no more clients; those it has go on.
Stop(d) ==
    /\ stage[d] = "serving"
    /\ Upset(past)
    /\ stage' = [stage EXCEPT ![d] = "stopping"]
    /\ UNCHANGED <<lease, durable, runtime, restore, shells, disk, requests, persister>>

Crash(d) ==
    /\ d \in Up /\ d < MaxStarts
    /\ Gone({d})
    /\ past' = [past EXCEPT !.cut = @ \cup Interrupted({d})]
    /\ UNCHANGED <<lease, holders, disk>>

Reboot ==
    /\ Gone(Up) /\ Up # {} /\ lease < MaxStarts
    /\ holders' = {}
    /\ past' = [past EXCEPT !.cut = @ \cup Interrupted(Up)]
    /\ UNCHANGED <<lease, disk>>

\* A daemon that is stopping, or learns that it has lost the store, lets go of it
\* and of all its held panes, and keeps no other.
Release(d) ==
    /\ d \in durable \cap Up /\ (d < lease \/ stage[d] = "stopping")
    /\ durable' = durable \ {d}
    /\ attached' = [attached EXCEPT ![d] = @ \cap local[d]]
    /\ UNCHANGED <<lease, stage, reg, restore, shells, disk, requests, persister, past>>
-----------------------------------------------------------------------------
PaneSteps(p) == MakeSessionDir(p) \/ MakePaneDir(p) \/ Launch(p) \/ RunLocally(p)
                \/ CopySession(p) \/ PersistSessionNow(p) \/ Opened(p)

PassSteps(d) == \/ BeginPass(d) \/ ListOnDisk(d) \/ Move(d) \/ EndPass(d)
                \/ \E s \in Sessions : Persist(d, s) \/ Judge(d, s)

StartSteps(d) == \/ PersistRestored(d) \/ Restored(d) \/ Bind(d) \/ Refuse(d)
                 \/ \E s \in Sessions : RestoreSession(d, s)
                 \/ \E p \in Panes : AttachRestored(d, p)

KillSteps == FinishKill \/ \E p \in Panes : RecordHumanEnd(p)

Ends(d) == Stop(d) \/ Crash(d) \/ Release(d)

Next ==
    \/ \E d \in Daemons, p \in Panes : NewPane(d, p) \/ KillPane(d, p)
    \/ \E d \in Daemons, s \in Sessions : KillSession(d, s) \/ Reap(d, s)
    \/ \E p \in Panes : PaneSteps(p) \/ ShellExits(p)
    \/ KillSteps
    \/ \E d \in Daemons : PassSteps(d) \/ StartSteps(d) \/ Ends(d)
    \/ Start \/ Reboot

Spec == Init /\ [][Next]_vars
-----------------------------------------------------------------------------
(* Properties.                                                             *)

TypeOK ==
    /\ lease \in 0..MaxStarts
    /\ stage \in [Daemons -> {"no", "restoring", "restored", "serving", "stopping", "gone"}]
    /\ durable \subseteq Up
    /\ reg \in [Daemons -> [open: SUBSET Sessions, panes: SUBSET Panes]]
    /\ holders \subseteq Panes /\ local \in [Daemons -> SUBSET Panes]
    /\ dirs \subseteq Sessions /\ tomb \subseteq pdirs
    /\ \A p \in pdirs : Of[p] \in dirs
    /\ \A s \in Sessions : doc[s].here => s \in dirs

\* Sessions whose documents a displaced daemon wrote, or that were archived by
\* one, or that have a document again that was copied before the archive.
\* In all that follows they are the exception: the store promises nothing there.

\* The persister moves the directory of a running shell away only when it was
\* made between the verdict on its session and the move, or when neither the
\* document nor the panes could be read for the verdict.
ArchivedAreOver == \A p \in past.strays : Of[p] \in past.early \cup past.late

\* A pane whose end the store recorded, by a human or by its shell, gets no shell
\* at a later start, unless the end came between that start's verdict on the
\* pane and its attachment, or could not be read for it.
EndedStaysEnded == \A p \in past.ghosts : p \in past.raced \/ Of[p] \in past.late

\* Whenever the daemon may die: a running shell is named by its session's
\* document, which is all that the next start goes by, except while it is being
\* opened, if the daemon died or lost the store or the session just then, if it
\* was killed in a daemon that had released it or could not record that, and
\* until the next document when the disk refused the one that its opening
\* writes or the read of one, or when an older copy has overwritten a newer one.
RunningIsFound ==
    \A p \in holders \ (past.ended \cup past.cut) :
        \/ p \in doc[Of[p]].panes
        \/ Of[p] \in past.late \cup past.stale \cup past.early
        \/ spawn[p].at \in {"persist", "write"}

\* A second daemon that finds the first one serving, and so ends without taking
\* its socket, leaves it the store (violated: it took the lease before it asked).
RefusalIsHarmless ==
    past.refused => \A d \in Daemons : stage[d] = "serving" => Requires(d)
=============================================================================
