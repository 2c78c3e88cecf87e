----------------------------- MODULE Authority -----------------------------
(***************************************************************************)
(* Who serves a held pane: the lease of the session store                  *)
(* (makimono/src/lease.rs), the daemons that hold or lose it               *)
(* (tamotsu/src/authority.rs), their links to the holders                  *)
(* (tamotsu/src/held.rs) and the holders that admit, refuse and displace   *)
(* them (tamotsu/src/holder.rs).                                           *)
(*                                                                         *)
(* Holders live for ever here, which HeldPane does not assume, and carry    *)
(* no bytes, which Delivery does.                                          *)
(* An incarnation of 0 is none: a lease document that is missing or        *)
(* unreadable, a daemon that declares none, a holder that has admitted     *)
(* none.                                                                   *)
(***************************************************************************)
EXTENDS Integers

CONSTANTS
    Daemons,        \* daemon processes of one store; a restart reuses its slot
    Panes,          \* panes, each with its holder
    Conns,          \* bound: connections to holders that exist at one time
    None,
    MaxStarts,      \* bound: daemon starts
    MaxLosses,      \* bound: times the lease document is lost or corrupted
    MaxRefusals,    \* bound: times the lock or the document cannot be written
    MaxStalls       \* bound: links that stall past a timeout

ASSUME ConstantsAreSane ==
    /\ None \notin Daemons \cup Panes \cup Conns
    /\ None \notin [daemon : Daemons, pane : Panes, to : Nat]
    /\ MaxStarts \in Nat /\ MaxLosses \in Nat
    /\ MaxRefusals \in Nat /\ MaxStalls \in Nat

VARIABLES
    lease,      \* the incarnation in authority.json
    raising,    \* who holds authority.lock in raise_above, and the number it wrote
    owner,      \* history: the daemon that last took or raised the lease
    daemon,     \* d -> "down", "up", "lost": displaced, "released": panes let go
    mine,       \* d -> the incarnation its Lease carries
    thread,     \* d, p -> where its follow thread stands
    link,       \* d, p -> the connection its follow thread reads
    conn,       \* c -> a connection, as the holder and the daemon left it
    attached,   \* p -> State::attached, the connection its holder serves
    authority,  \* p -> State::authority, the highest incarnation it admitted
    starts, losses, refusals, stalls

store  == <<lease, raising, owner>>
procs  == <<daemon, mine>>
links  == <<thread, link, conn>>
holder == <<attached, authority>>
bounds == <<starts, losses, refusals, stalls>>
vars   == <<store, procs, links, holder, bounds>>

(* A connection: the pane whose holder it reaches, the incarnation of its  *)
(* Attach, how far the holder has come with it, the incarnation its        *)
(* Displaced names, and whether the daemon still has it open.              *)
Stage == {"free", "sent", "live", "silent", "displaced", "shut"}
Connection ==
    [pane : Panes \cup {None}, inc : Nat, at : Stage, by : Nat, open : BOOLEAN]

Unused == [pane |-> None, inc |-> 0, at |-> "free", by |-> 0, open |-> FALSE]

\* Once the daemon has closed a connection that the holder is done with, it is gone.
Closed(c) == IF conn[c].at \in {"silent", "displaced", "shut"}
             THEN Unused ELSE [conn[c] EXCEPT !.open = FALSE]

\* the connections that daemon d has open for the panes of P
Ours(d, P) == {link[d][p] : p \in P} \ {None}
Close(cs) == conn' = [c \in Conns |-> IF c \in cs THEN Closed(c) ELSE conn[c]]

Init ==
    /\ lease = 0 /\ raising = None /\ owner = None
    /\ daemon = [d \in Daemons |-> "down"]
    /\ mine = [d \in Daemons |-> 0]
    /\ thread = [d \in Daemons |-> [p \in Panes |-> "off"]]
    /\ link = [d \in Daemons |-> [p \in Panes |-> None]]
    /\ conn = [c \in Conns |-> Unused]
    /\ attached = [p \in Panes |-> None]
    /\ authority = [p \in Panes |-> 0]
    /\ starts = 0 /\ losses = 0 /\ refusals = 0 /\ stalls = 0

Maximum(S) == CHOOSE n \in S : \A m \in S : m <= n

----------------------------------------------------------------------------
(* The lease.  take() and raise_above() run under authority.lock; held()   *)
(* and the loss of the document do not.                                    *)

\* Mutant: the lease counts as held only while it records an older number.
LeaseHeldIfOlder(d) == mine[d] = 0 \/ lease < mine[d]
\* Lease::held, behind Authority::lease: nothing to lose without an incarnation
LeaseHeld(d) == mine[d] = 0 \/ lease <= mine[d]

\* Authority::holds
Holds(d) == daemon[d] = "up" /\ LeaseHeld(d)

\* Authority::lose, in whichever thread of the daemon notices first
Lose(d) ==
    daemon' = [daemon EXCEPT ![d] = IF @ = "up" THEN "lost" ELSE @]

\* Mutant: take() writes back the incarnation it read.
RecordedIncarnation == IF lease = 0 THEN 1 ELSE lease
NextIncarnation == lease + 1

Start(d) ==
    /\ daemon[d] = "down" /\ starts < MaxStarts /\ starts' = starts + 1
    /\ daemon' = [daemon EXCEPT ![d] = "up"]
    /\ thread' = [thread EXCEPT ![d] = [p \in Panes |-> "new"]]
    /\ \/ /\ raising = None
          /\ lease' = NextIncarnation
          /\ mine' = [mine EXCEPT ![d] = NextIncarnation]
          /\ owner' = d
          /\ UNCHANGED refusals
       \/ /\ refusals < MaxRefusals /\ refusals' = refusals + 1
          /\ mine' = [mine EXCEPT ![d] = 0]
          /\ UNCHANGED <<lease, owner>>
    /\ UNCHANGED <<raising, link, conn, holder, losses, stalls>>

\* The process ends, by its own stop or by a crash; the kernel drops its lock.
Stop(d) ==
    /\ daemon[d] # "down"
    /\ daemon' = [daemon EXCEPT ![d] = "down"]
    /\ mine' = [mine EXCEPT ![d] = 0]
    /\ thread' = [thread EXCEPT ![d] = [p \in Panes |-> "off"]]
    /\ link' = [link EXCEPT ![d] = [p \in Panes |-> None]]
    /\ Close(Ours(d, Panes))
    /\ raising' = IF raising # None /\ raising.daemon = d THEN None ELSE raising
    /\ UNCHANGED <<lease, owner, holder, bounds>>

\* authority.json is deleted, or becomes unreadable.
LoseDocument ==
    /\ lease # 0 /\ losses < MaxLosses /\ losses' = losses + 1
    /\ lease' = 0
    /\ UNCHANGED <<raising, owner, procs, links, holder, starts, refusals, stalls>>

\* Whatever is about to write into the store first requires the lease.
Require(d) ==
    /\ daemon[d] = "up" /\ ~LeaseHeld(d)
    /\ Lose(d)
    /\ UNCHANGED <<store, mine, links, holder, bounds>>

\* on_lost, in a thread of its own: release_held drops every pane of the
\* daemon, but not one whose adoption has not put it among the ptys yet.
Release(d) ==
    LET dropped == {p \in Panes : thread[d][p] \notin {"new", "adopt"}}
    IN /\ daemon[d] = "lost"
       /\ daemon' = [daemon EXCEPT ![d] = "released"]
       /\ Close(Ours(d, dropped))
       /\ link' = [link EXCEPT ![d] = [p \in Panes |-> IF p \in dropped THEN None ELSE @[p]]]
       /\ thread' = [thread EXCEPT ![d] =
                        [p \in Panes |-> IF @[p] \in {"follow", "check"} THEN "off" ELSE @[p]]]
       /\ UNCHANGED <<store, mine, holder, bounds>>

----------------------------------------------------------------------------
(* A daemon's thread for a pane: adopt or repair, then follow.             *)

SetThread(d, p, at) == thread' = [thread EXCEPT ![d][p] = at]

\* Authority::require, when a pane is adopted and when its link is repaired
CheckLease(d, p) ==
    /\ thread[d][p] \in {"new", "check"}
    /\ IF Holds(d)
       THEN /\ SetThread(d, p, IF thread[d][p] = "new" THEN "adopt" ELSE "repair")
            /\ UNCHANGED daemon
       ELSE Lose(d) /\ SetThread(d, p, "off")
    /\ UNCHANGED <<store, mine, link, conn, holder, bounds>>

\* handshake() sends the incarnation of that moment.  A repair that finds its
\* pane released drops the connection, after its Attach is on the way.
Connect(d, p) ==
    /\ thread[d][p] \in {"adopt", "repair"}
    /\ LET wanted == thread[d][p] = "adopt" \/ daemon[d] # "released"
       IN \E c \in Conns :
          /\ conn[c] = Unused
          /\ conn' = [conn EXCEPT ![c] =
                [pane |-> p, inc |-> mine[d], at |-> "sent", by |-> 0, open |-> wanted]]
          /\ link' = [link EXCEPT ![d][p] = IF wanted THEN c ELSE None]
          /\ SetThread(d, p, IF wanted THEN "follow" ELSE "off")
    /\ UNCHANGED <<store, procs, holder, bounds>>

\* The follow thread lets go of its link.
Leave(d, p) ==
    /\ conn' = [conn EXCEPT ![link[d][p]] = Closed(link[d][p])]
    /\ link' = [link EXCEPT ![d][p] = None]

\* End of stream: the holder shut the connection.
ReadEnd(d, p) ==
    /\ thread[d][p] = "follow" /\ conn[link[d][p]].at = "shut"
    /\ Leave(d, p)
    /\ SetThread(d, p, "check")
    /\ UNCHANGED <<store, procs, holder, bounds>>

\* Authority::displaced when the lease is lost, was never declared, or cannot
\* be locked or written
ReadDisplacedLost(d, p) ==
    /\ thread[d][p] = "follow" /\ conn[link[d][p]].at = "displaced"
    /\ \/ (daemon[d] # "up" \/ mine[d] = 0) /\ UNCHANGED refusals
       \/ raising = None /\ lease > mine[d] /\ UNCHANGED refusals
       \/ refusals < MaxRefusals /\ refusals' = refusals + 1
    /\ IF mine[d] = 0 THEN UNCHANGED daemon ELSE Lose(d)
    /\ Leave(d, p)
    /\ SetThread(d, p, "off")
    /\ UNCHANGED <<store, mine, holder, starts, losses, stalls>>

\* Lease::raise_above: the document is written ...
ReadDisplacedRaise(d, p) ==
    /\ thread[d][p] = "follow" /\ conn[link[d][p]].at = "displaced"
    /\ daemon[d] = "up" /\ mine[d] # 0
    /\ raising = None /\ lease <= mine[d]
    /\ LET next == Maximum({lease, conn[link[d][p]].by, mine[d]}) + 1
       IN /\ raising' = [daemon |-> d, pane |-> p, to |-> next]
          /\ lease' = next
    /\ owner' = d
    /\ Leave(d, p)
    /\ SetThread(d, p, "raise")
    /\ UNCHANGED <<procs, holder, bounds>>

\* ... and the incarnation is stored after it, and the lock dropped.
StoreRaised(d, p) ==
    /\ thread[d][p] = "raise"
    /\ mine' = [mine EXCEPT ![d] = raising.to]
    /\ raising' = None
    /\ SetThread(d, p, IF daemon[d] = "released" THEN "off" ELSE "check")
    /\ UNCHANGED <<lease, owner, daemon, link, conn, holder, bounds>>

\* The check thread finds the link mute and cuts it: always in time when the
\* holder left it silent, and by mistake when it only stalled.
Cut(d, p) ==
    /\ thread[d][p] = "follow"
    /\ Holds(d)
    /\ \/ conn[link[d][p]].at = "silent" /\ UNCHANGED stalls
       \/ /\ conn[link[d][p]].at \in {"sent", "live"}
          /\ stalls < MaxStalls /\ stalls' = stalls + 1
    /\ Leave(d, p)
    /\ SetThread(d, p, "check")
    /\ UNCHANGED <<store, procs, holder, starts, losses, refusals>>

----------------------------------------------------------------------------
(* A holder, which handles one message at a time under its state lock.     *)

\* Mutant: a daemon that declares nothing takes the pane from one that does.
SilencedNever(c) == FALSE
\* State::admission
Refused(c) == conn[c].inc # 0 /\ conn[c].inc < authority[conn[c].pane]
Silenced(c) == /\ conn[c].inc = 0
               /\ attached[conn[c].pane] # None /\ conn[attached[conn[c].pane]].inc # 0
Admitted(c) == ~Refused(c) /\ ~Silenced(c)

\* A connection as it stands when the holder has dropped its sink: it is gone
\* unless the daemon still reads it.
Dropped(c, at, by) ==
    IF conn[c].open THEN [conn[c] EXCEPT !.at = at, !.by = by] ELSE Unused

Refuse(c) ==
    /\ conn[c].at = "sent" /\ Refused(c)
    /\ conn' = [conn EXCEPT ![c] = Dropped(c, "displaced", authority[conn[c].pane])]
    /\ UNCHANGED <<store, procs, thread, link, holder, bounds>>

LeaveSilent(c) ==
    /\ conn[c].at = "sent" /\ Silenced(c)
    /\ conn' = [conn EXCEPT ![c] = Dropped(c, "silent", 0)]
    /\ UNCHANGED <<store, procs, thread, link, holder, bounds>>

\* Mutant: a replaced sink is dropped and its connection stays open (mute-sink).
RetiredMute(previous, inc) == Dropped(previous, "silent", 0)
\* retire_displaced
Retired(previous, inc) ==
    IF conn[previous].inc = 0 THEN Dropped(previous, "silent", 0)
    ELSE IF conn[previous].inc < inc THEN Dropped(previous, "displaced", inc)
    ELSE Dropped(previous, "shut", 0)

Admit(c) ==
    LET p == conn[c].pane
        previous == attached[p]
    IN /\ conn[c].at = "sent" /\ Admitted(c)
       /\ attached' = [attached EXCEPT ![p] = c]
       /\ authority' = [authority EXCEPT ![p] = IF conn[c].inc > @ THEN conn[c].inc ELSE @]
       /\ conn' = [x \in Conns |-> IF x = c THEN [conn[c] EXCEPT !.at = "live"]
                                   ELSE IF x = previous THEN Retired(x, conn[c].inc)
                                   ELSE conn[x]]
       /\ UNCHANGED <<store, procs, thread, link, bounds>>

\* The replay fails: the daemon has closed the connection, or stalls.
ReplayFails(c) ==
    /\ conn[c].at = "sent" /\ Admitted(c)
    /\ IF conn[c].open THEN stalls < MaxStalls /\ stalls' = stalls + 1
                       ELSE UNCHANGED stalls
    /\ conn' = [conn EXCEPT ![c] = Dropped(c, "shut", 0)]
    /\ UNCHANGED <<store, procs, thread, link, holder, starts, losses, refusals>>

\* retire_failed: the daemon does not read, and a write to it times out.
RetireFailed(c) ==
    /\ conn[c].at = "live" /\ conn[c].open
    /\ stalls < MaxStalls /\ stalls' = stalls + 1
    /\ conn' = [conn EXCEPT ![c] = Dropped(c, "shut", 0)]
    /\ attached' = [attached EXCEPT ![conn[c].pane] = None]
    /\ UNCHANGED <<store, procs, thread, link, authority, starts, losses, refusals>>

\* serve() reads the end of the stream, or a write to the closed connection fails.
SeeClosed(c) ==
    /\ conn[c].at = "live" /\ ~conn[c].open
    /\ conn' = [conn EXCEPT ![c] = Unused]
    /\ attached' = [attached EXCEPT ![conn[c].pane] =
                       IF @ = c THEN None ELSE @]
    /\ UNCHANGED <<store, procs, thread, link, authority, bounds>>

----------------------------------------------------------------------------
DaemonStep(d) ==
    \/ Release(d)
    \/ \E p \in Panes :
          \/ CheckLease(d, p) \/ Connect(d, p) \/ ReadEnd(d, p)
          \/ ReadDisplacedLost(d, p) \/ ReadDisplacedRaise(d, p) \/ StoreRaised(d, p)

HolderStep(c) ==
    Refuse(c) \/ LeaveSilent(c) \/ Admit(c) \/ ReplayFails(c) \/ SeeClosed(c)

Next ==
    \/ \E d \in Daemons : Start(d) \/ Stop(d) \/ Require(d) \/ DaemonStep(d)
    \/ \E d \in Daemons, p \in Panes : Cut(d, p)
    \/ \E c \in Conns : HolderStep(c) \/ RetireFailed(c)
    \/ LoseDocument

Spec == Init /\ [][Next]_vars

(* Threads run and holders answer.  Nothing says that a daemon starts or   *)
(* stops, that a document is lost, that a link stalls, or that anyone      *)
(* types into a mute pane, which is what wakes the check thread.           *)
Fairness ==
    /\ \A d \in Daemons : WF_vars(Release(d))
    /\ \A d \in Daemons, p \in Panes :
          /\ WF_vars(CheckLease(d, p)) /\ WF_vars(Connect(d, p))
          /\ WF_vars(ReadEnd(d, p)) /\ WF_vars(StoreRaised(d, p))
          /\ WF_vars(ReadDisplacedLost(d, p) \/ ReadDisplacedRaise(d, p))
    /\ \A c \in Conns : WF_vars(HolderStep(c))

FairSpec == Spec /\ Fairness
----------------------------------------------------------------------------
(* Properties.                                                             *)

TypeOK ==
    /\ lease \in Nat
    /\ raising \in {None} \cup [daemon : Daemons, pane : Panes, to : Nat]
    /\ owner \in Daemons \cup {None}
    /\ daemon \in [Daemons -> {"down", "up", "lost", "released"}]
    /\ mine \in [Daemons -> Nat]
    /\ thread \in [Daemons -> [Panes ->
           {"off", "new", "adopt", "check", "repair", "follow", "raise"}]]
    /\ link \in [Daemons -> [Panes -> Conns \cup {None}]]
    /\ conn \in [Conns -> Connection]
    /\ attached \in [Panes -> Conns \cup {None}]
    /\ authority \in [Panes -> Nat]
    /\ starts \in Nat /\ losses \in Nat /\ refusals \in Nat /\ stalls \in Nat

\* A holder never mutes a pane (PERFORMANCE.md, R4): a connection that it has
\* admitted is the one it serves or was shut, and only a daemon that declares no
\* incarnation is ever left attached and silent.
NeverMute ==
    \A c \in Conns :
        /\ conn[c].at = "live" => attached[conn[c].pane] = c
        /\ conn[c].at = "silent" => conn[c].inc = 0

\* A pane is served to the newest incarnation that its holder ever admitted, or
\* to a daemon that declares none while no declaring daemon is attached.
ServesTheNewest ==
    \A p \in Panes : attached[p] # None =>
        LET c == conn[attached[p]]
        IN c.at = "live" /\ c.pane = p /\ c.inc \in {0, authority[p]}

\* Each pane is served, and to whom it should be: no holder leaves a daemon that
\* declares itself attached and mute, and none serves an older one than it admitted.
PanesAreServed == NeverMute /\ ServesTheNewest

\* A pane that passes from one connection to another passes to an incarnation
\* that is no older, and never from a declaring daemon to one that does not.
HandsOverForward ==
    [][\A p \in Panes : attached[p] # None /\ attached'[p] # None =>
          conn'[attached'[p]].inc >= conn[attached[p]].inc]_vars

\* As long as its document survives, the lease numbers every daemon differently,
\* above all that was taken, sent to a holder or admitted by one.
LeaseIsNewest ==
    losses = 0 =>
        /\ \A d \in Daemons : mine[d] <= lease
        /\ \A d, e \in Daemons : mine[d] = mine[e] => d = e \/ mine[d] = 0
        /\ \A c \in Conns : conn[c].inc <= lease
        /\ \A p \in Panes : authority[p] <= lease

\* The daemon that last took or raised the lease is not the one that finds it lost,
\* while the lock can be taken and the document is neither lost nor unwritable.
NeverLosesToItself ==
    [][\A d \in Daemons : daemon[d] = "up" /\ daemon'[d] = "lost" /\ losses = 0 =>
          owner # d \/ refusals' # refusals]_vars

\* What makes these inductive: a follow thread has a link, a thread that raises the
\* lease holds the lock, and the number it wrote is above every daemon's.
ThreadsAreLinked ==
    \A d \in Daemons, p \in Panes :
        /\ thread[d][p] = "follow" => link[d][p] # None
        /\ thread[d][p] = "raise" =>
              raising # None /\ raising.daemon = d /\ raising.pane = p

ConnectionsAreNumbered ==
    \A c \in Conns :
        /\ conn[c].at # "free" => conn[c].pane \in Panes
        /\ losses = 0 => conn[c].by <= lease

RaisedIsNewest ==
    losses = 0 /\ raising # None =>
        raising.to <= lease /\ \A d \in Daemons : mine[d] < raising.to

\* As long as the document survives, a number is never out of date in the hands of the
\* daemon that took it last, and the connections of a daemon carry its own number.  So a
\* daemon that is displaced finds the lease taken: raise_above is for a lost document.
NumbersAreCurrent ==
    losses = 0 =>
        /\ raising = None
        /\ \A d \in Daemons : owner = d => mine[d] \in {0, lease}
        /\ \A d \in Daemons, p \in Panes :
              /\ daemon[d] = "down" => link[d][p] = None /\ thread[d][p] = "off"
              /\ link[d][p] # None =>
                    conn[link[d][p]].open /\ conn[link[d][p]].inc = mine[d]
        /\ \A d, e \in Daemons, p, q \in Panes :
              link[d][p] # None /\ link[d][p] = link[e][q] => d = e /\ p = q
        /\ \A c \in Conns : conn[c].at = "displaced" => conn[c].inc < conn[c].by

IndInv ==
    /\ TypeOK
    /\ NeverMute
    /\ ServesTheNewest
    /\ LeaseIsNewest
    /\ ThreadsAreLinked
    /\ ConnectionsAreNumbered
    /\ RaisedIsNewest

Serves(d, p) == daemon[d] = "up" /\ attached[p] # None /\ link[d][p] = attached[p]

\* Once daemons are left alone, every pane comes to be served by one daemon for
\* good, unless all are displaced or gone: the ping-pong of two daemons that the
\* lease exists to end does not go on (PERFORMANCE.md, R4).  Not so where the lease
\* document was lost, or a daemon could not take the lease and declares no number.
PanesSettle ==
    \A p \in Panes :
        \/ <>(losses # 0 \/ refusals # 0)
        \/ \E d \in Daemons : <>[]Serves(d, p)
        \/ <>[](\A d \in Daemons : daemon[d] # "up")

=============================================================================
