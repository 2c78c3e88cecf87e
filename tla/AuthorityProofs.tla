-------------------------- MODULE AuthorityProofs --------------------------
(* Proofs about Authority, for every value of its constants. *)
EXTENDS Authority, TLAPS

\* None is not a connection, and the bounds are numbers.
LEMMA Constants ==
    None \notin Daemons /\ None \notin Panes /\ None \notin Conns
BY ConstantsAreSane

\* The larger of two numbers is one of them and below neither.
LEMMA MaximumLemma ==
    ASSUME NEW a \in Nat, NEW b \in Nat, NEW c \in Nat
    PROVE  /\ Maximum({a, b, c}) \in Nat
           /\ Maximum({a, b, c}) >= a /\ Maximum({a, b, c}) >= b /\ Maximum({a, b, c}) >= c
<1>1. \E n \in {a, b, c} : \A m \in {a, b, c} : m <= n
  <2>1. CASE a >= b /\ a >= c
    BY <2>1
  <2>2. CASE b >= a /\ b >= c
    BY <2>2
  <2>3. CASE c >= a /\ c >= b
    BY <2>3
  <2>. QED
    BY <2>1, <2>2, <2>3
<1>2. PICK n : n = Maximum({a, b, c})
  OBVIOUS
<1>3. n \in {a, b, c} /\ \A m \in {a, b, c} : m <= n
  BY <1>1, <1>2, Zenon DEF Maximum
<1>. QED
  BY <1>2, <1>3

\* The ways in which a step may leave a connection, as far as its type goes.
LEMMA ConnectionLemma ==
    ASSUME TypeOK, NEW c \in Conns
    PROVE  /\ conn[c] \in Connection
           /\ Closed(c) \in Connection
           /\ Closed(c) \in {Unused, [conn[c] EXCEPT !.open = FALSE]}
           /\ conn[c].at \in Stage /\ conn[c].inc \in Nat /\ conn[c].by \in Nat
           /\ \A at \in Stage, by \in Nat : Dropped(c, at, by) \in Connection
<1>1. conn[c] \in Connection
  BY DEF TypeOK
<1>2. Unused \in Connection
  BY DEF Unused, Connection, Stage
<1>3. [conn[c] EXCEPT !.open = FALSE] \in Connection
  BY <1>1 DEF Connection
<1>4. \A at \in Stage, by \in Nat : [conn[c] EXCEPT !.at = at, !.by = by] \in Connection
  BY <1>1 DEF Connection
<1>. QED
  BY <1>1, <1>2, <1>3, <1>4 DEF Closed, Dropped, Connection

\* Before any daemon has started the invariant holds.
LEMMA InitInd == Init => IndInv
<1>. SUFFICES ASSUME Init PROVE IndInv
  OBVIOUS
<1>1. TypeOK
  BY DEF Init, TypeOK, Connection, Unused, Stage
<1>. QED
  BY <1>1, Constants DEF Init, IndInv, NeverMute, ServesTheNewest, LeaseIsNewest,
     ThreadsAreLinked, ConnectionsAreNumbered, RaisedIsNewest, Unused

\* A daemon that closes connections disturbs nothing that a holder relies on.
LEMMA ClosingStep ==
    ASSUME IndInv, UNCHANGED holder, NEW cs,
           conn' = [c \in Conns |-> IF c \in cs THEN Closed(c) ELSE conn[c]],
           losses' = losses, lease' \in Nat, lease' >= lease
    PROVE  /\ conn' \in [Conns -> Connection]
           /\ NeverMute' /\ ServesTheNewest' /\ ConnectionsAreNumbered'
           /\ \A c \in Conns : conn'[c].inc \in {0, conn[c].inc}
<1>1. \A c \in Conns : conn'[c] \in Connection
  BY ConnectionLemma DEF IndInv
<1>2. \A c \in Conns : \/ conn'[c] = conn[c]
                       \/ conn'[c] = [conn[c] EXCEPT !.open = FALSE]
                       \/ conn'[c] = Unused /\ conn[c].at # "live"
  BY DEF Closed
<1>3. \A c \in Conns : conn[c] \in Connection
  BY ConnectionLemma DEF IndInv
<1>4. \A c \in Conns :
         \/ /\ conn'[c].at = conn[c].at /\ conn'[c].pane = conn[c].pane
            /\ conn'[c].inc = conn[c].inc /\ conn'[c].by = conn[c].by
         \/ conn'[c] = Unused /\ conn[c].at # "live"
  BY <1>2, <1>3 DEF Connection
<1>5. Unused.at = "free" /\ Unused.inc = 0 /\ Unused.by = 0
  BY DEF Unused
<1>6. conn' \in [Conns -> Connection]
  BY <1>1
<1>7. NeverMute'
  BY <1>4, <1>5 DEF IndInv, NeverMute, holder
<1>8. ServesTheNewest'
  BY <1>4, <1>5 DEF IndInv, ServesTheNewest, holder, TypeOK
<1>9. ConnectionsAreNumbered'
  <2>1. \A c \in Conns : conn[c].by \in Nat /\ lease \in Nat
    BY ConnectionLemma DEF IndInv, TypeOK
  <2>. QED
    BY <1>4, <1>5, <2>1 DEF IndInv, ConnectionsAreNumbered
<1>. QED
  BY <1>4, <1>5, <1>6, <1>7, <1>8, <1>9

\* A step that leaves connections and holders alone.
LEMMA QuietStep ==
    ASSUME IndInv, UNCHANGED <<conn, attached, authority, losses>>,
           lease' \in Nat, lease' >= lease
    PROVE  NeverMute' /\ ServesTheNewest' /\ ConnectionsAreNumbered'
<1>1. \A c \in Conns : conn[c].by \in Nat /\ lease \in Nat
  BY ConnectionLemma DEF IndInv, TypeOK
<1>. QED
  BY <1>1 DEF IndInv, NeverMute, ServesTheNewest, ConnectionsAreNumbered

\* A step that leaves the store and the incarnations alone keeps the lease newest
\* if it gives out no incarnation of its own.
LEMMA LeaseKept ==
    ASSUME IndInv, UNCHANGED <<lease, raising, losses>>,
           \A d \in Daemons : mine'[d] \in {0, mine[d]},
           \A c \in Conns : \/ conn'[c].inc \in {0, conn[c].inc}
                            \/ \E d \in Daemons : conn'[c].inc = mine[d],
           \A p \in Panes : \/ authority'[p] = authority[p]
                            \/ \E c \in Conns : authority'[p] = conn[c].inc
    PROVE  LeaseIsNewest' /\ RaisedIsNewest'
<1>1. /\ lease \in Nat
      /\ \A d \in Daemons : mine[d] \in Nat
      /\ \A p \in Panes : authority[p] \in Nat
      /\ \A c \in Conns : conn[c].inc \in Nat
  BY ConnectionLemma DEF IndInv, TypeOK
<1>2. LeaseIsNewest'
  BY <1>1 DEF IndInv, LeaseIsNewest
<1>3. RaisedIsNewest'
  <2>1. losses = 0 /\ raising # None => \A d \in Daemons : 0 <= mine[d] /\ mine[d] < raising.to
    BY <1>1 DEF IndInv, RaisedIsNewest
  <2>2. losses = 0 /\ raising # None => raising.to \in Nat
    BY DEF IndInv, TypeOK
  <2>. QED
    BY <1>1, <2>1, <2>2 DEF IndInv, RaisedIsNewest
<1>. QED
  BY <1>2, <1>3

\* A daemon that starts takes an incarnation above the recorded one.
LEMMA StartInd == ASSUME IndInv, NEW d \in Daemons, Start(d) PROVE IndInv'
<1>1. /\ daemon' = [daemon EXCEPT ![d] = "up"]
      /\ thread' = [thread EXCEPT ![d] = [p \in Panes |-> "new"]]
      /\ starts' = starts + 1
      /\ UNCHANGED <<raising, link, conn, attached, authority, losses, stalls>>
  BY DEF Start, holder
<1>2. \/ /\ raising = None /\ lease' = lease + 1 /\ owner' = d
         /\ mine' = [mine EXCEPT ![d] = lease + 1] /\ refusals' = refusals
      \/ /\ mine' = [mine EXCEPT ![d] = 0] /\ refusals' = refusals + 1
         /\ UNCHANGED <<lease, owner>>
  BY DEF Start, NextIncarnation
<1>3. /\ lease \in Nat /\ mine \in [Daemons -> Nat] /\ thread \in [Daemons -> [Panes -> {"off",
          "new", "adopt", "check", "repair", "follow", "raise"}]]
      /\ daemon \in [Daemons -> {"down", "up", "lost", "released"}]
      /\ \A p \in Panes : authority[p] \in Nat
      /\ \A c \in Conns : conn[c].inc \in Nat
  BY ConnectionLemma DEF IndInv, TypeOK
<1>4. lease' \in Nat /\ lease' >= lease /\ mine' \in [Daemons -> Nat]
  BY <1>2, <1>3
<1>5. TypeOK'
  BY <1>1, <1>2, <1>3, <1>4 DEF IndInv, TypeOK
<1>6. NeverMute' /\ ServesTheNewest' /\ ConnectionsAreNumbered'
  BY <1>1, <1>4, QuietStep
<1>7. ThreadsAreLinked'
  BY <1>1, <1>3 DEF IndInv, ThreadsAreLinked
<1>8. LeaseIsNewest' /\ RaisedIsNewest'
  <2>1. CASE raising = None /\ lease' = lease + 1 /\ mine' = [mine EXCEPT ![d] = lease + 1]
    BY <1>1, <1>3, <2>1 DEF IndInv, LeaseIsNewest, RaisedIsNewest
  <2>2. CASE mine' = [mine EXCEPT ![d] = 0] /\ lease' = lease
    BY <1>1, <1>3, <2>2, LeaseKept
  <2>. QED
    BY <1>2, <2>1, <2>2
<1>. QED
  BY <1>5, <1>6, <1>7, <1>8 DEF IndInv

\* A daemon that stops drops its links (HeldPty::drop).
LEMMA StopInd == ASSUME IndInv, NEW d \in Daemons, Stop(d) PROVE IndInv'
<1>1. /\ daemon' = [daemon EXCEPT ![d] = "down"]
      /\ mine' = [mine EXCEPT ![d] = 0]
      /\ thread' = [thread EXCEPT ![d] = [p \in Panes |-> "off"]]
      /\ link' = [link EXCEPT ![d] = [p \in Panes |-> None]]
      /\ raising' = IF raising # None /\ raising.daemon = d THEN None ELSE raising
      /\ UNCHANGED <<lease, owner, attached, authority, starts, losses, refusals, stalls>>
      /\ UNCHANGED holder
  BY DEF Stop, holder, bounds
<1>2. PICK cs : conn' = [c \in Conns |-> IF c \in cs THEN Closed(c) ELSE conn[c]]
  BY DEF Stop, Close
<1>3. lease \in Nat /\ mine \in [Daemons -> Nat] /\ mine' \in [Daemons -> Nat]
      /\ lease' = lease /\ lease' >= lease /\ losses' = losses
  BY <1>1 DEF IndInv, TypeOK
<1>4. /\ conn' \in [Conns -> Connection]
      /\ NeverMute' /\ ServesTheNewest' /\ ConnectionsAreNumbered'
      /\ \A c \in Conns : conn'[c].inc \in {0, conn[c].inc}
  BY <1>1, <1>2, <1>3, ClosingStep
<1>5. TypeOK'
  BY <1>1, <1>3, <1>4 DEF IndInv, TypeOK
<1>6. ThreadsAreLinked'
  BY <1>1, Constants DEF IndInv, ThreadsAreLinked, TypeOK
<1>7. LeaseIsNewest' /\ RaisedIsNewest'
  <2>0. /\ \A e \in Daemons : mine[e] \in Nat /\ mine'[e] \in {0, mine[e]}
        /\ \A c \in Conns : conn[c].inc \in Nat
    BY <1>1, <1>3, ConnectionLemma DEF IndInv
  <2>1. LeaseIsNewest'
    BY <1>1, <1>3, <1>4, <2>0 DEF IndInv, LeaseIsNewest
  <2>2. CASE raising' = None
    BY <2>1, <2>2 DEF RaisedIsNewest
  <2>3. CASE raising' = raising
    BY <1>1, <1>3, <1>4, <2>3, LeaseKept
  <2>. QED
    BY <1>1, <2>1, <2>2, <2>3
<1>. QED
  BY <1>4, <1>5, <1>6, <1>7 DEF IndInv

\* Losing the lease document invalidates nothing that is in use.
LEMMA LoseDocumentInd == ASSUME IndInv, LoseDocument PROVE IndInv'
<1>1. /\ lease' = 0 /\ losses' = losses + 1 /\ losses \in Nat /\ losses' # 0
      /\ UNCHANGED <<raising, owner, daemon, mine, thread, link, conn, attached, authority,
                     starts, refusals, stalls>>
  BY DEF LoseDocument, procs, links, holder, IndInv, TypeOK
<1>. QED
  BY <1>1 DEF IndInv, TypeOK, NeverMute, ServesTheNewest, LeaseIsNewest, ThreadsAreLinked,
     ConnectionsAreNumbered, RaisedIsNewest

\* The persister that finds the lease lost marks its daemon lost.
LEMMA RequireInd == ASSUME IndInv, NEW d \in Daemons, Require(d) PROVE IndInv'
<1>1. /\ daemon' = [daemon EXCEPT ![d] = IF @ = "up" THEN "lost" ELSE @]
      /\ UNCHANGED <<lease, raising, owner, mine, thread, link, conn, attached, authority,
                     starts, losses, refusals, stalls>>
  BY DEF Require, Lose, store, links, holder, bounds
<1>. QED
  BY <1>1 DEF IndInv, TypeOK, NeverMute, ServesTheNewest, LeaseIsNewest, ThreadsAreLinked,
     ConnectionsAreNumbered, RaisedIsNewest

\* A lost daemon releases the panes it holds (release_held).
LEMMA ReleaseInd == ASSUME IndInv, NEW d \in Daemons, Release(d) PROVE IndInv'
<1>. DEFINE dropped == {p \in Panes : thread[d][p] \notin {"new", "adopt"}}
<1>1. /\ daemon' = [daemon EXCEPT ![d] = "released"]
      /\ link' = [link EXCEPT ![d] = [p \in Panes |-> IF p \in dropped THEN None ELSE @[p]]]
      /\ thread' = [thread EXCEPT ![d] =
                       [p \in Panes |-> IF @[p] \in {"follow", "check"} THEN "off" ELSE @[p]]]
      /\ UNCHANGED <<lease, raising, owner, mine, attached, authority,
                     starts, losses, refusals, stalls>>
      /\ UNCHANGED holder
  BY DEF Release, store, holder, bounds
<1>2. PICK cs : conn' = [c \in Conns |-> IF c \in cs THEN Closed(c) ELSE conn[c]]
  BY DEF Release, Close
<1>3. lease \in Nat /\ lease' = lease /\ lease' >= lease /\ losses' = losses
  BY <1>1 DEF IndInv, TypeOK
<1>4. /\ conn' \in [Conns -> Connection]
      /\ NeverMute' /\ ServesTheNewest' /\ ConnectionsAreNumbered'
      /\ \A c \in Conns : conn'[c].inc \in {0, conn[c].inc}
  BY <1>1, <1>2, <1>3, ClosingStep
<1>5. TypeOK'
  <2>1. link' \in [Daemons -> [Panes -> Conns \cup {None}]]
    BY <1>1 DEF IndInv, TypeOK
  <2>2. thread' \in [Daemons -> [Panes -> {"off", "new", "adopt", "check", "repair", "follow",
                                           "raise"}]]
    BY <1>1 DEF IndInv, TypeOK
  <2>. QED
    BY <1>1, <1>4, <2>1, <2>2 DEF IndInv, TypeOK
<1>6. ThreadsAreLinked'
  BY <1>1 DEF IndInv, ThreadsAreLinked, TypeOK
<1>7. LeaseIsNewest' /\ RaisedIsNewest'
  BY <1>1, <1>4, LeaseKept
<1>. QED
  BY <1>4, <1>5, <1>6, <1>7 DEF IndInv

\* A follow loop that finds the lease held may connect again.
LEMMA CheckLeaseInd ==
    ASSUME IndInv, NEW d \in Daemons, NEW p \in Panes, CheckLease(d, p) PROVE IndInv'
<1>1. /\ thread[d][p] \in {"new", "check"}
      /\ daemon' = daemon \/ daemon' = [daemon EXCEPT ![d] = IF @ = "up" THEN "lost" ELSE @]
      /\ \E at \in {"adopt", "repair", "off"} : thread' = [thread EXCEPT ![d][p] = at]
      /\ UNCHANGED <<lease, raising, owner, mine, link, conn, attached, authority,
                     starts, losses, refusals, stalls>>
  BY DEF CheckLease, SetThread, Lose, store, holder, bounds
<1>2. TypeOK'
  BY <1>1 DEF IndInv, TypeOK
<1>3. ThreadsAreLinked'
  BY <1>1 DEF IndInv, ThreadsAreLinked, TypeOK
<1>. QED
  BY <1>1, <1>2, <1>3 DEF IndInv, NeverMute, ServesTheNewest, LeaseIsNewest,
     ConnectionsAreNumbered, RaisedIsNewest

\* A connection starts with a greeting and an attachment (repair, handshake).
LEMMA ConnectInd ==
    ASSUME IndInv, NEW d \in Daemons, NEW p \in Panes, Connect(d, p) PROVE IndInv'
<1>1. PICK wanted \in BOOLEAN, c \in Conns :
        /\ conn[c] = Unused
        /\ conn' = [conn EXCEPT ![c] =
              [pane |-> p, inc |-> mine[d], at |-> "sent", by |-> 0, open |-> wanted]]
        /\ link' = [link EXCEPT ![d][p] = IF wanted THEN c ELSE None]
        /\ thread' = [thread EXCEPT ![d][p] = IF wanted THEN "follow" ELSE "off"]
  BY DEF Connect, SetThread
<1>2. UNCHANGED <<lease, raising, owner, daemon, mine, attached, authority,
                  starts, losses, refusals, stalls>>
  BY DEF Connect, store, procs, holder, bounds
<1>3. mine[d] \in Nat /\ c # None
  BY Constants DEF IndInv, TypeOK
<1>4. [pane |-> p, inc |-> mine[d], at |-> "sent", by |-> 0, open |-> wanted] \in Connection
  BY <1>3 DEF Connection, Stage
<1>5. /\ conn' \in [Conns -> Connection]
      /\ conn'[c].at = "sent" /\ conn'[c].pane = p /\ conn'[c].inc = mine[d] /\ conn'[c].by = 0
      /\ \A x \in Conns \ {c} : conn'[x] = conn[x]
  BY <1>1, <1>4 DEF IndInv, TypeOK
<1>6. TypeOK'
  BY <1>1, <1>2, <1>5 DEF IndInv, TypeOK
<1>7. ThreadsAreLinked'
  BY <1>1, <1>2, <1>3 DEF IndInv, ThreadsAreLinked, TypeOK
<1>8. NeverMute'
  BY <1>1, <1>2, <1>5 DEF IndInv, NeverMute
<1>9. ServesTheNewest'
  <2>1. \A q \in Panes : attached[q] # c
    BY <1>1, Constants DEF IndInv, ServesTheNewest, Unused
  <2>. QED
    BY <1>2, <1>5, <2>1 DEF IndInv, ServesTheNewest, TypeOK
<1>10. ConnectionsAreNumbered'
  BY <1>2, <1>5 DEF IndInv, ConnectionsAreNumbered, TypeOK
<1>11. LeaseIsNewest' /\ RaisedIsNewest'
  BY <1>2, <1>5, LeaseKept
<1>. QED
  BY <1>6, <1>7, <1>8, <1>9, <1>10, <1>11 DEF IndInv

\* Leaving a link closes it as a set of one.
LEMMA LeaveLemma ==
    ASSUME IndInv, NEW d \in Daemons, NEW p \in Panes, thread[d][p] = "follow", Leave(d, p)
    PROVE  /\ link[d][p] \in Conns
           /\ link' = [link EXCEPT ![d][p] = None]
           /\ link' \in [Daemons -> [Panes -> Conns \cup {None}]]
           /\ \E cs : conn' = [c \in Conns |-> IF c \in cs THEN Closed(c) ELSE conn[c]]
<1>1. link[d][p] \in Conns
  BY DEF IndInv, TypeOK, ThreadsAreLinked
<1>2. link' = [link EXCEPT ![d][p] = None]
  BY DEF Leave
<1>3. conn' = [c \in Conns |-> IF c \in {link[d][p]} THEN Closed(c) ELSE conn[c]]
  BY <1>1 DEF Leave, IndInv, TypeOK
<1>. QED
  BY <1>1, <1>2, <1>3 DEF IndInv, TypeOK

\* A follow thread that leaves its link, whatever it does next.
LEMMA LeavingStep ==
    ASSUME IndInv, NEW d \in Daemons, NEW p \in Panes, thread[d][p] = "follow", Leave(d, p),
           NEW at \in {"off", "check"}, thread' = [thread EXCEPT ![d][p] = at],
           UNCHANGED <<lease, raising, owner, mine, attached, authority, starts, losses>>,
           daemon' \in [Daemons -> {"down", "up", "lost", "released"}],
           refusals' \in Nat, stalls' \in Nat
    PROVE  IndInv'
<1>1. link' = [link EXCEPT ![d][p] = None]
      /\ link' \in [Daemons -> [Panes -> Conns \cup {None}]]
  BY LeaveLemma
<1>2. PICK cs : conn' = [c \in Conns |-> IF c \in cs THEN Closed(c) ELSE conn[c]]
  BY LeaveLemma
<1>3. lease' \in Nat /\ lease' >= lease /\ losses' = losses /\ UNCHANGED holder
  BY DEF IndInv, TypeOK, holder
<1>4. /\ conn' \in [Conns -> Connection]
      /\ NeverMute' /\ ServesTheNewest' /\ ConnectionsAreNumbered'
      /\ \A c \in Conns : conn'[c].inc \in {0, conn[c].inc}
  BY <1>2, <1>3, ClosingStep
<1>5. TypeOK'
  BY <1>1, <1>4 DEF IndInv, TypeOK
<1>6. ThreadsAreLinked'
  BY <1>1 DEF IndInv, ThreadsAreLinked, TypeOK
<1>7. LeaseIsNewest' /\ RaisedIsNewest'
  BY <1>4, LeaseKept
<1>. QED
  BY <1>4, <1>5, <1>6, <1>7 DEF IndInv

\* A reader that sees the end of its stream disturbs nothing else.
LEMMA ReadEndInd ==
    ASSUME IndInv, NEW d \in Daemons, NEW p \in Panes, ReadEnd(d, p) PROVE IndInv'
<1>1. /\ thread[d][p] = "follow" /\ Leave(d, p)
      /\ thread' = [thread EXCEPT ![d][p] = "check"]
      /\ UNCHANGED <<lease, raising, owner, mine, daemon, attached, authority,
                     starts, losses, refusals, stalls>>
  BY DEF ReadEnd, SetThread, store, procs, holder, bounds
<1>. QED
  BY <1>1, LeavingStep DEF IndInv, TypeOK

\* A refused daemon that no longer holds the lease is lost.
LEMMA ReadDisplacedLostInd ==
    ASSUME IndInv, NEW d \in Daemons, NEW p \in Panes, ReadDisplacedLost(d, p) PROVE IndInv'
<1>1. /\ thread[d][p] = "follow" /\ Leave(d, p)
      /\ thread' = [thread EXCEPT ![d][p] = "off"]
      /\ UNCHANGED <<lease, raising, owner, mine, attached, authority,
                     starts, losses, stalls>>
      /\ (refusals' = refusals \/ refusals' = refusals + 1)
      /\ (daemon' = daemon \/ daemon' = [daemon EXCEPT ![d] = IF @ = "up" THEN "lost" ELSE @])
  BY DEF ReadDisplacedLost, Lose, SetThread, store, holder
<1>2. daemon' \in [Daemons -> {"down", "up", "lost", "released"}]
      /\ refusals' \in Nat /\ stalls' \in Nat
  BY <1>1 DEF IndInv, TypeOK
<1>. QED
  BY <1>1, <1>2, LeavingStep

\* A cut connection is closed at its reader.
LEMMA CutInd ==
    ASSUME IndInv, NEW d \in Daemons, NEW p \in Panes, Cut(d, p) PROVE IndInv'
<1>1. /\ thread[d][p] = "follow" /\ Leave(d, p)
      /\ thread' = [thread EXCEPT ![d][p] = "check"]
      /\ UNCHANGED <<lease, raising, owner, mine, daemon, attached, authority,
                     starts, losses, refusals>>
      /\ (stalls' = stalls \/ stalls' = stalls + 1)
  BY DEF Cut, SetThread, store, procs, holder
<1>2. /\ daemon' \in [Daemons -> {"down", "up", "lost", "released"}]
      /\ refusals' \in Nat /\ stalls' \in Nat
  BY <1>1 DEF IndInv, TypeOK
<1>. QED
  BY <1>1, <1>2, LeavingStep

\* A refused daemon that holds the lease raises it.
LEMMA ReadDisplacedRaiseInd ==
    ASSUME IndInv, NEW d \in Daemons, NEW p \in Panes, ReadDisplacedRaise(d, p) PROVE IndInv'
<1>. DEFINE by == conn[link[d][p]].by
            next == Maximum({lease, by, mine[d]}) + 1
<1>1. /\ thread[d][p] = "follow" /\ raising = None
      /\ raising' = [daemon |-> d, pane |-> p, to |-> next]
      /\ lease' = next /\ owner' = d /\ Leave(d, p)
      /\ thread' = [thread EXCEPT ![d][p] = "raise"]
      /\ UNCHANGED <<daemon, mine, attached, authority, starts, losses, refusals, stalls>>
      /\ UNCHANGED holder
  BY DEF ReadDisplacedRaise, SetThread, procs, holder, bounds
<1>2. /\ link[d][p] \in Conns
      /\ link' = [link EXCEPT ![d][p] = None]
      /\ link' \in [Daemons -> [Panes -> Conns \cup {None}]]
  BY <1>1, LeaveLemma
<1>3. PICK cs : conn' = [c \in Conns |-> IF c \in cs THEN Closed(c) ELSE conn[c]]
  BY <1>1, LeaveLemma
<1>4. by \in Nat /\ mine[d] \in Nat /\ lease \in Nat
  BY <1>2, ConnectionLemma DEF IndInv, TypeOK
<1>5. next \in Nat /\ next > lease /\ lease' \in Nat /\ lease' >= lease /\ losses' = losses
  <2>1. Maximum({lease, by, mine[d]}) \in Nat /\ Maximum({lease, by, mine[d]}) >= lease
    BY <1>4, MaximumLemma
  <2>. HIDE DEF by
  <2>. QED
    BY <1>1, <1>4, <2>1
<1>. HIDE DEF next
<1>6. /\ conn' \in [Conns -> Connection]
      /\ NeverMute' /\ ServesTheNewest' /\ ConnectionsAreNumbered'
      /\ \A c \in Conns : conn'[c].inc \in {0, conn[c].inc}
  BY <1>1, <1>3, <1>5, ClosingStep
<1>7. TypeOK'
  <2>1. raising' \in [daemon : Daemons, pane : Panes, to : Nat]
    BY <1>1, <1>5
  <2>. QED
    BY <1>1, <1>2, <1>5, <1>6, <2>1 DEF IndInv, TypeOK
<1>8. ThreadsAreLinked'
  <2>1. \A e \in Daemons, q \in Panes : thread[e][q] # "raise"
    BY <1>1 DEF IndInv, ThreadsAreLinked
  <2>2. raising' # None
    BY <1>1, <1>5, ConstantsAreSane
  <2>. QED
    BY <1>1, <1>2, <2>1, <2>2 DEF IndInv, ThreadsAreLinked, TypeOK
<1>9. /\ \A e \in Daemons : mine[e] \in Nat
      /\ \A q \in Panes : authority[q] \in Nat
      /\ \A c \in Conns : conn[c].inc \in Nat
  BY ConnectionLemma DEF IndInv, TypeOK
<1>10. LeaseIsNewest'
  BY <1>1, <1>4, <1>5, <1>6, <1>9 DEF IndInv, LeaseIsNewest
<1>11. RaisedIsNewest'
  BY <1>1, <1>4, <1>5, <1>9 DEF IndInv, LeaseIsNewest, RaisedIsNewest
<1>. QED
  BY <1>6, <1>7, <1>8, <1>10, <1>11 DEF IndInv

\* Storing the raised incarnation follows its recording.
LEMMA StoreRaisedInd ==
    ASSUME IndInv, NEW d \in Daemons, NEW p \in Panes, StoreRaised(d, p) PROVE IndInv'
<1>1. /\ thread[d][p] = "raise"
      /\ mine' = [mine EXCEPT ![d] = raising.to] /\ raising' = None
      /\ \E at \in {"off", "check"} : thread' = [thread EXCEPT ![d][p] = at]
      /\ UNCHANGED <<lease, owner, daemon, link, conn, attached, authority,
                     starts, losses, refusals, stalls>>
  BY DEF StoreRaised, SetThread, holder, bounds
<1>2. raising # None /\ raising.daemon = d /\ raising.pane = p /\ raising.to \in Nat
  BY <1>1 DEF IndInv, ThreadsAreLinked, TypeOK
<1>3. TypeOK'
  BY <1>1, <1>2 DEF IndInv, TypeOK
<1>4. ThreadsAreLinked'
  <2>1. \A e \in Daemons, q \in Panes : thread[e][q] = "raise" => e = d /\ q = p
    BY <1>2 DEF IndInv, ThreadsAreLinked
  <2>. QED
    BY <1>1, <2>1 DEF IndInv, ThreadsAreLinked, TypeOK
<1>5. NeverMute' /\ ServesTheNewest' /\ ConnectionsAreNumbered'
  BY <1>1, QuietStep DEF IndInv, TypeOK
<1>6. LeaseIsNewest'
  <2>1. /\ \A e \in Daemons : mine[e] \in Nat
        /\ mine'[d] = raising.to /\ \A e \in Daemons \ {d} : mine'[e] = mine[e]
        /\ lease \in Nat
    BY <1>1 DEF IndInv, TypeOK
  <2>. QED
    BY <1>1, <1>2, <2>1 DEF IndInv, LeaseIsNewest, RaisedIsNewest
<1>. QED
  BY <1>1, <1>3, <1>4, <1>5, <1>6 DEF IndInv, RaisedIsNewest

\* A sink that the holder drops: the connection is shut, silenced or gone.
LEMMA DroppedLemma ==
    ASSUME IndInv, NEW c \in Conns, NEW at \in Stage \ {"free", "live"}, NEW by \in Nat,
           conn[c].at # "free"
    PROVE  /\ Dropped(c, at, by) \in Connection
           /\ Dropped(c, at, by).at \in {"free", at}
           /\ Dropped(c, at, by).inc \in {0, conn[c].inc}
           /\ Dropped(c, at, by).by \in {0, by}
           /\ Dropped(c, at, by).at # "free" =>
                 /\ Dropped(c, at, by).pane \in Panes
                 /\ Dropped(c, at, by).inc = conn[c].inc
<1>1. conn[c] \in Connection /\ conn[c].pane \in Panes
  BY ConnectionLemma DEF IndInv, ConnectionsAreNumbered
<1>2. Dropped(c, at, by) \in Connection
  BY ConnectionLemma DEF IndInv
<1>3. CASE conn[c].open
  <2>1. Dropped(c, at, by) = [conn[c] EXCEPT !.at = at, !.by = by]
    BY <1>3 DEF Dropped
  <2>. QED
    BY <1>1, <1>2, <2>1 DEF Connection
<1>4. CASE ~conn[c].open
  <2>1. Dropped(c, at, by) = Unused
    BY <1>4 DEF Dropped
  <2>. QED
    BY <1>1, <1>2, <2>1 DEF Unused
<1>. QED
  BY <1>3, <1>4

\* A holder's step that drops the sink of a connection it does not serve, or
\* serves no more.
LEMMA DropStep ==
    ASSUME IndInv, NEW c \in Conns, conn[c].at \in {"sent", "live"},
           NEW at \in Stage \ {"free", "live"}, NEW by \in Nat,
           at = "silent" => conn[c].inc = 0,
           losses = 0 => by <= lease,
           conn' = [conn EXCEPT ![c] = Dropped(c, at, by)],
           attached' = [p \in Panes |-> IF attached[p] = c THEN None ELSE attached[p]],
           UNCHANGED <<lease, raising, owner, daemon, mine, thread, link, authority,
                       starts, losses, refusals>>,
           stalls' \in Nat
    PROVE  IndInv'
<1>1. /\ conn' \in [Conns -> Connection]
      /\ conn'[c].at \in {"free", at} /\ conn'[c].inc \in {0, conn[c].inc}
      /\ conn'[c].by \in {0, by}
      /\ conn'[c].at # "free" => conn'[c].pane \in Panes
      /\ conn'[c].at # "free" => conn'[c].inc = conn[c].inc
      /\ \A x \in Conns \ {c} : conn'[x] = conn[x]
  BY DroppedLemma DEF IndInv, TypeOK
<1>2. attached' \in [Panes -> Conns \cup {None}]
      /\ \A p \in Panes : attached'[p] # None => attached'[p] = attached[p] /\ attached[p] # c
  BY DEF IndInv, TypeOK
<1>3. TypeOK'
  BY <1>1, <1>2 DEF IndInv, TypeOK
<1>4. NeverMute'
  <2>1. \A x \in Conns : conn[x].at = "live" => conn[x].pane \in Panes
    BY DEF IndInv, ConnectionsAreNumbered
  <2>2. \A x \in Conns \ {c} : conn[x].at = "live" => attached'[conn[x].pane] = x
    BY <2>1 DEF IndInv, NeverMute
  <2>. QED
    BY <1>1, <2>2 DEF IndInv, NeverMute
<1>5. ServesTheNewest'
  BY <1>1, <1>2 DEF IndInv, ServesTheNewest, TypeOK
<1>6. ThreadsAreLinked'
  BY DEF IndInv, ThreadsAreLinked
<1>7. ConnectionsAreNumbered'
  <2>1. losses = 0 => 0 <= lease
    BY DEF IndInv, TypeOK
  <2>. QED
    BY <1>1, <2>1 DEF IndInv, ConnectionsAreNumbered
<1>8. LeaseIsNewest' /\ RaisedIsNewest'
  BY <1>1, LeaseKept
<1>. QED
  BY <1>3, <1>4, <1>5, <1>6, <1>7, <1>8 DEF IndInv

\* The stages at which a holder drops a sink.
LEMMA SilentStage ==
    /\ "silent" \in Stage \ {"free", "live"} /\ "shut" \in Stage \ {"free", "live"}
    /\ "displaced" \in Stage \ {"free", "live"}
    /\ "shut" # "silent" /\ "displaced" # "silent" /\ 0 \in Nat
BY DEF Stage

\* A connection that is not live is attached to no pane.
LEMMA NotAttached ==
    ASSUME IndInv, NEW c \in Conns, conn[c].at # "live"
    PROVE  attached = [p \in Panes |-> IF attached[p] = c THEN None ELSE attached[p]]
<1>1. \A p \in Panes : attached[p] # c
  BY Constants DEF IndInv, ServesTheNewest
<1>. QED
  BY <1>1 DEF IndInv, TypeOK

\* A refused connection leaves the attached one alone.
LEMMA RefuseInd == ASSUME IndInv, NEW c \in Conns, Refuse(c) PROVE IndInv'
<1>1. /\ conn[c].at = "sent"
      /\ conn' = [conn EXCEPT ![c] = Dropped(c, "displaced", authority[conn[c].pane])]
      /\ UNCHANGED <<lease, raising, owner, daemon, mine, thread, link, attached, authority,
                     starts, losses, refusals, stalls>>
  BY DEF Refuse, store, procs, holder, bounds
<1>2. conn[c].pane \in Panes
  BY <1>1 DEF IndInv, ConnectionsAreNumbered
<1>3. authority[conn[c].pane] \in Nat /\ (losses = 0 => authority[conn[c].pane] <= lease)
      /\ stalls' \in Nat
  BY <1>1, <1>2 DEF IndInv, TypeOK, LeaseIsNewest
<1>4. attached' = [p \in Panes |-> IF attached[p] = c THEN None ELSE attached[p]]
  BY <1>1, NotAttached
<1>. QED
  BY <1>1, <1>3, <1>4, DropStep, SilentStage

\* A connection that is let go is closed.
LEMMA LeaveSilentInd == ASSUME IndInv, NEW c \in Conns, LeaveSilent(c) PROVE IndInv'
<1>1. /\ conn[c].at = "sent" /\ conn[c].inc = 0
      /\ conn' = [conn EXCEPT ![c] = Dropped(c, "silent", 0)]
      /\ UNCHANGED <<lease, raising, owner, daemon, mine, thread, link, attached, authority,
                     starts, losses, refusals, stalls>>
  BY DEF LeaveSilent, Silenced, store, procs, holder, bounds
<1>2. attached' = [p \in Panes |-> IF attached[p] = c THEN None ELSE attached[p]]
  BY <1>1, NotAttached
<1>3. stalls' \in Nat /\ (losses = 0 => 0 <= lease)
  BY <1>1 DEF IndInv, TypeOK
<1>. QED
  BY <1>1, <1>2, <1>3, DropStep, SilentStage

\* A connection whose replay failed is detached and closed.
LEMMA ReplayFailsInd == ASSUME IndInv, NEW c \in Conns, ReplayFails(c) PROVE IndInv'
<1>1. /\ conn[c].at = "sent"
      /\ conn' = [conn EXCEPT ![c] = Dropped(c, "shut", 0)]
      /\ UNCHANGED <<lease, raising, owner, daemon, mine, thread, link, attached, authority,
                     starts, losses, refusals>>
      /\ (stalls' = stalls \/ stalls' = stalls + 1)
  BY DEF ReplayFails, store, procs, holder
<1>2. attached' = [p \in Panes |-> IF attached[p] = c THEN None ELSE attached[p]]
  BY <1>1, NotAttached
<1>3. stalls' \in Nat /\ (losses = 0 => 0 <= lease)
  BY <1>1 DEF IndInv, TypeOK
<1>. QED
  BY <1>1, <1>2, <1>3, DropStep, SilentStage

\* Only its own pane has a live connection attached.
LEMMA AttachedHere ==
    ASSUME IndInv, NEW c \in Conns, conn[c].at = "live"
    PROVE  [attached EXCEPT ![conn[c].pane] = None]
               = [p \in Panes |-> IF attached[p] = c THEN None ELSE attached[p]]
<1>1. conn[c].pane \in Panes /\ attached[conn[c].pane] = c
  BY DEF IndInv, ConnectionsAreNumbered, NeverMute
<1>2. \A p \in Panes : attached[p] = c => p = conn[c].pane
  BY Constants DEF IndInv, ServesTheNewest
<1>. QED
  BY <1>1, <1>2 DEF IndInv, TypeOK

\* A connection whose writer failed is detached and closed.
LEMMA RetireFailedInd == ASSUME IndInv, NEW c \in Conns, RetireFailed(c) PROVE IndInv'
<1>1. /\ conn[c].at = "live"
      /\ conn' = [conn EXCEPT ![c] = Dropped(c, "shut", 0)]
      /\ attached' = [attached EXCEPT ![conn[c].pane] = None]
      /\ UNCHANGED <<lease, raising, owner, daemon, mine, thread, link, authority,
                     starts, losses, refusals>>
      /\ stalls' = stalls + 1
  BY DEF RetireFailed, store, procs
<1>2. attached' = [p \in Panes |-> IF attached[p] = c THEN None ELSE attached[p]]
  BY <1>1, AttachedHere
<1>3. stalls' \in Nat /\ (losses = 0 => 0 <= lease)
  BY <1>1 DEF IndInv, TypeOK
<1>. QED
  BY <1>1, <1>2, <1>3, DropStep, SilentStage

\* A closed connection is noticed by the holder that serves it.
LEMMA SeeClosedInd == ASSUME IndInv, NEW c \in Conns, SeeClosed(c) PROVE IndInv'
<1>1. /\ conn[c].at = "live" /\ ~conn[c].open
      /\ conn' = [conn EXCEPT ![c] = Unused]
      /\ attached' = [attached EXCEPT ![conn[c].pane] = IF @ = c THEN None ELSE @]
      /\ UNCHANGED <<lease, raising, owner, daemon, mine, thread, link, authority,
                     starts, losses, refusals, stalls>>
  BY DEF SeeClosed, store, procs, bounds
<1>2. conn' = [conn EXCEPT ![c] = Dropped(c, "shut", 0)]
  BY <1>1 DEF Dropped
<1>3. attached[conn[c].pane] = c
  BY <1>1 DEF IndInv, NeverMute
<1>4. attached' = [p \in Panes |-> IF attached[p] = c THEN None ELSE attached[p]]
  BY <1>1, <1>3, AttachedHere
<1>5. stalls' \in Nat /\ (losses = 0 => 0 <= lease)
  BY <1>1 DEF IndInv, TypeOK
<1>. QED
  BY <1>1, <1>2, <1>4, <1>5, DropStep, SilentStage, ZenonT(30)

\* The holder admits one connection and retires the one it served until then.
LEMMA AdmitInd == ASSUME IndInv, NEW c \in Conns, Admit(c) PROVE IndInv'
<1>. DEFINE p == conn[c].pane
            previous == attached[p]
            inc == conn[c].inc
            retired == Retired(previous, inc)
<1>1. /\ conn[c].at = "sent" /\ Admitted(c)
      /\ attached' = [attached EXCEPT ![p] = c]
      /\ authority' = [authority EXCEPT ![p] = IF inc > @ THEN inc ELSE @]
      /\ conn' = [x \in Conns |-> IF x = c THEN [conn[c] EXCEPT !.at = "live"]
                                  ELSE IF x = previous THEN retired ELSE conn[x]]
      /\ UNCHANGED <<lease, raising, owner, daemon, mine, thread, link,
                     starts, losses, refusals, stalls>>
  BY DEF Admit, store, procs, bounds
<1>2. /\ p \in Panes /\ inc \in Nat /\ conn[c] \in Connection
      /\ authority[p] \in Nat /\ authority \in [Panes -> Nat] /\ lease \in Nat
  BY <1>1, ConnectionLemma DEF IndInv, ConnectionsAreNumbered, TypeOK
<1>3. previous \in Conns => conn[previous].at = "live" /\ conn[previous].pane = p
                            /\ previous # c /\ conn[previous].inc \in {0, authority[p]}
  BY <1>1, <1>2, Constants DEF IndInv, ServesTheNewest
<1>4. previous \in Conns =>
         /\ retired \in Connection
         /\ retired.at \in {"free", "silent", "displaced", "shut"}
         /\ retired.at = "silent" => retired.inc = 0
         /\ retired.inc \in {0, conn[previous].inc}
         /\ retired.by \in {0, inc}
         /\ retired.at # "free" => retired.pane \in Panes
  <2>1. SUFFICES ASSUME previous \in Conns
        PROVE  /\ retired \in Connection
               /\ retired.at \in {"free", "silent", "displaced", "shut"}
               /\ retired.at = "silent" => retired.inc = 0
               /\ retired.inc \in {0, conn[previous].inc}
               /\ retired.by \in {0, inc}
               /\ retired.at # "free" => retired.pane \in Panes
    OBVIOUS
  <2>2. conn[previous].at # "free"
    BY <1>3, <2>1
  <2>. HIDE DEF previous, inc
  <2>3. CASE conn[previous].inc = 0
    <3>1. retired = Dropped(previous, "silent", 0)
      BY <2>3 DEF Retired
    <3>. QED
      BY <1>2, <2>1, <2>2, <2>3, <3>1, DroppedLemma DEF Stage
  <2>4. CASE conn[previous].inc # 0 /\ conn[previous].inc < inc
    <3>1. retired = Dropped(previous, "displaced", inc)
      BY <2>4 DEF Retired
    <3>. QED
      BY <1>2, <2>1, <2>2, <3>1, DroppedLemma DEF Stage
  <2>5. CASE conn[previous].inc # 0 /\ ~(conn[previous].inc < inc)
    <3>1. retired = Dropped(previous, "shut", 0)
      BY <2>5 DEF Retired
    <3>. QED
      BY <1>2, <2>1, <2>2, <3>1, DroppedLemma DEF Stage
  <2>. QED
    BY <2>3, <2>4, <2>5
<1>. HIDE DEF retired
<1>5. /\ conn'[c] \in Connection /\ conn'[c].at = "live" /\ conn'[c].pane = p
      /\ conn'[c].inc = inc /\ conn'[c].by = conn[c].by
  BY <1>1, <1>2 DEF Connection, Stage
<1>6. \A x \in Conns \ {c} : \/ x = previous /\ conn'[x] = retired
                             \/ x # previous /\ conn'[x] = conn[x]
  BY <1>1
<1>7. conn' \in [Conns -> Connection]
  <2>1. \A x \in Conns : conn'[x] \in Connection
    BY <1>4, <1>5, <1>6 DEF IndInv, TypeOK
  <2>. QED
    BY <1>1, <2>1
<1>8. /\ attached' \in [Panes -> Conns \cup {None}] /\ attached'[p] = c
      /\ \A q \in Panes \ {p} : attached'[q] = attached[q]
  BY <1>1, <1>2 DEF IndInv, TypeOK
<1>9. /\ authority' \in [Panes -> Nat]
      /\ \A q \in Panes \ {p} : authority'[q] = authority[q]
      /\ authority'[p] = IF inc > authority[p] THEN inc ELSE authority[p]
  BY <1>1, <1>2
<1>10. TypeOK'
  BY <1>1, <1>7, <1>8, <1>9 DEF IndInv, TypeOK
<1>11. NeverMute'
  <2>1. \A x \in Conns \ {c} : conn[x].at = "live" /\ x # previous =>
            conn[x].pane \in Panes \ {p} /\ attached[conn[x].pane] = x
    BY DEF IndInv, NeverMute, ConnectionsAreNumbered
  <2>. QED
    BY <1>4, <1>5, <1>6, <1>8, <2>1 DEF IndInv, NeverMute
<1>12. ServesTheNewest'
  <2>1. inc \in {0, authority'[p]}
    <3>1. inc = 0 \/ ~(inc < authority[p])
      BY <1>1 DEF Admitted, Refused
    <3>. QED
      BY <1>2, <1>9, <3>1
  <2>2. \A q \in Panes \ {p} : attached[q] # None =>
            /\ attached[q] \in Conns /\ attached[q] # c /\ attached[q] # previous
            /\ conn'[attached[q]] = conn[attached[q]]
    BY <1>1, <1>3, <1>6 DEF IndInv, ServesTheNewest, TypeOK
  <2>. QED
    BY <1>5, <1>8, <1>9, <2>1, <2>2 DEF IndInv, ServesTheNewest
<1>13. ThreadsAreLinked'
  BY <1>1 DEF IndInv, ThreadsAreLinked
<1>14. \A x \in Conns : conn'[x].inc \in {0, conn[x].inc}
  BY <1>4, <1>5, <1>6
<1>15. ConnectionsAreNumbered'
  <2>1. losses = 0 => inc <= lease /\ 0 <= lease
    BY <1>2 DEF IndInv, LeaseIsNewest
  <2>. QED
    BY <1>1, <1>2, <1>4, <1>5, <1>6, <2>1 DEF IndInv, ConnectionsAreNumbered
<1>16. LeaseIsNewest' /\ RaisedIsNewest'
  <2>1. \A q \in Panes : authority'[q] = authority[q] \/ authority'[q] = conn[c].inc
    BY <1>9
  <2>. QED
    BY <1>1, <1>14, <2>1, LeaseKept
<1>. QED
  BY <1>10, <1>11, <1>12, <1>13, <1>15, <1>16 DEF IndInv

\* A connection that is live before and after a step keeps its incarnation.
LEMMA LiveKeepsItsIncarnation ==
    ASSUME IndInv, [Next]_vars, NEW c \in Conns, conn[c].at = "live", conn'[c].at = "live"
    PROVE  conn'[c].inc = conn[c].inc
<1>. DEFINE Kept == conn'[c].inc = conn[c].inc
<1>0. conn \in [Conns -> Connection] /\ conn[c] \in Connection /\ Unused.at = "free"
      /\ conn[c] # Unused
  BY DEF IndInv, TypeOK, Unused
<1>1. Closed(c).inc = conn[c].inc
  BY <1>0 DEF Closed, Connection
<1>2. ASSUME NEW cs, Close(cs) PROVE Kept
  BY <1>1, <1>2 DEF Close
<1>3. ASSUME NEW d \in Daemons, NEW p \in Panes, Leave(d, p) PROVE Kept
  BY <1>0, <1>1, <1>3 DEF Leave
<1>4. ASSUME NEW d \in Daemons, Start(d) \/ Stop(d) \/ Require(d) \/ Release(d) PROVE Kept
  BY <1>2, <1>4 DEF Start, Stop, Require, Release, links
<1>5. ASSUME NEW d \in Daemons, NEW p \in Panes,
             CheckLease(d, p) \/ ReadEnd(d, p) \/ Cut(d, p) \/ StoreRaised(d, p)
             \/ ReadDisplacedLost(d, p) \/ ReadDisplacedRaise(d, p)
      PROVE  Kept
  BY <1>3, <1>5 DEF CheckLease, ReadEnd, Cut, StoreRaised, ReadDisplacedLost,
     ReadDisplacedRaise
<1>6. ASSUME NEW d \in Daemons, NEW p \in Panes, Connect(d, p) PROVE Kept
  <2>1. PICK x \in Conns : \E new : conn[x] = Unused /\ conn' = [conn EXCEPT ![x] = new]
    BY <1>6 DEF Connect
  <2>. QED
    BY <1>0, <2>1
<1>7. ASSUME NEW x \in Conns, Refuse(x) \/ LeaveSilent(x) \/ ReplayFails(x) PROVE Kept
  <2>1. conn[x].at = "sent" /\ \E new : conn' = [conn EXCEPT ![x] = new]
    BY <1>7 DEF Refuse, LeaveSilent, ReplayFails
  <2>. QED
    BY <1>0, <2>1
<1>8. ASSUME NEW x \in Conns, RetireFailed(x) \/ SeeClosed(x) PROVE Kept
  <2>1. CASE x = c
    <3>1. conn'[c] = Unused \/ conn'[c] = [conn[c] EXCEPT !.at = "shut", !.by = 0]
      BY <1>0, <1>8, <2>1 DEF RetireFailed, SeeClosed, Dropped
    <3>2. conn'[c].at # "live"
      BY <1>0, <3>1 DEF Connection
    <3>. QED
      BY <3>2
  <2>2. CASE x # c
    BY <1>0, <1>8, <2>2 DEF RetireFailed, SeeClosed
  <2>. QED
    BY <2>1, <2>2
<1>9. ASSUME NEW x \in Conns, Admit(x) PROVE Kept
  <2>1. conn[x].at = "sent" /\ x # c
    BY <1>9 DEF Admit
  <2>2. CASE c # attached[conn[x].pane]
    BY <1>9, <2>1, <2>2 DEF Admit
  <2>3. CASE c = attached[conn[x].pane]
    <3>1. conn'[c] = Retired(c, conn[x].inc)
      BY <1>9, <2>1, <2>3 DEF Admit
    <3>2. \E at \in {"silent", "displaced", "shut"} : \E by :
             Retired(c, conn[x].inc) = Dropped(c, at, by)
      BY DEF Retired
    <3>3. PICK at \in {"silent", "displaced", "shut"} : \E by : conn'[c] = Dropped(c, at, by)
      BY <3>1, <3>2
    <3>4. conn'[c] = Unused \/ conn'[c].at = at
      BY <1>0, <3>3 DEF Dropped, Connection
    <3>5. conn'[c].at # "live"
      BY <1>0, <3>4
    <3>. QED
      BY <3>5
  <2>. QED
    BY <2>2, <2>3
<1>10. ASSUME LoseDocument \/ UNCHANGED vars PROVE Kept
  BY <1>10 DEF LoseDocument, vars, links
<1>. HIDE DEF Kept
<1>11. ASSUME NEW d \in Daemons, DaemonStep(d) PROVE Kept
  BY <1>4, <1>5, <1>6, <1>11, Zenon DEF DaemonStep
<1>12. ASSUME NEW x \in Conns, HolderStep(x) PROVE Kept
  BY <1>7, <1>8, <1>9, <1>12, Zenon DEF HolderStep
<1>13. ASSUME NEW d \in Daemons, Start(d) \/ Stop(d) \/ Require(d) \/ DaemonStep(d) PROVE Kept
  BY <1>4, <1>11, <1>13
<1>14. ASSUME NEW x \in Conns, HolderStep(x) \/ RetireFailed(x) PROVE Kept
  BY <1>8, <1>12, <1>14
<1>15. ASSUME Next PROVE Kept
  BY <1>5, <1>10, <1>13, <1>14, <1>15, Zenon DEF Next
<1>16. Kept
  BY <1>10, <1>15
<1>. QED
  BY <1>16 DEF Kept

\* A pane is attached anew by an admission only.
LEMMA OnlyAdmitAttaches ==
    ASSUME IndInv, [Next]_vars, NEW p \in Panes,
           attached'[p] # None, attached'[p] # attached[p]
    PROVE  \E c \in Conns : Admit(c) /\ conn[c].pane = p
<1>0. attached \in [Panes -> Conns \cup {None}]
  BY DEF IndInv, TypeOK
<1>1. ASSUME NEW c \in Conns, Admit(c) PROVE conn[c].pane = p
  BY <1>0, <1>1 DEF Admit
<1>2. ASSUME NEW c \in Conns, RetireFailed(c) \/ SeeClosed(c) PROVE FALSE
  BY <1>0, <1>2 DEF RetireFailed, SeeClosed
<1>3. ASSUME NEW c \in Conns, Refuse(c) \/ LeaveSilent(c) \/ ReplayFails(c) PROVE FALSE
  BY <1>3 DEF Refuse, LeaveSilent, ReplayFails, holder
<1>4. ASSUME NEW d \in Daemons, Start(d) \/ Stop(d) \/ Require(d) \/ Release(d) PROVE FALSE
  BY <1>4 DEF Start, Stop, Require, Release, holder
<1>5. ASSUME NEW d \in Daemons, NEW q \in Panes,
             CheckLease(d, q) \/ Connect(d, q) \/ ReadEnd(d, q) \/ Cut(d, q)
             \/ StoreRaised(d, q) \/ ReadDisplacedLost(d, q) \/ ReadDisplacedRaise(d, q)
      PROVE  FALSE
  BY <1>5 DEF CheckLease, Connect, ReadEnd, Cut, StoreRaised, ReadDisplacedLost,
     ReadDisplacedRaise, holder
<1>6. CASE LoseDocument \/ UNCHANGED vars
  BY <1>6 DEF LoseDocument, vars, holder
<1>. QED
  BY <1>1, <1>2, <1>3, <1>4, <1>5, <1>6 DEF Next, DaemonStep, HolderStep

\* Every step of the daemons and the holders preserves the invariant.
LEMMA NextInd == IndInv /\ [Next]_vars => IndInv'
<1>. SUFFICES ASSUME IndInv, [Next]_vars PROVE IndInv'
  OBVIOUS
<1>1. ASSUME NEW d \in Daemons, Start(d) \/ Stop(d) \/ Require(d) \/ Release(d) PROVE IndInv'
  BY <1>1, StartInd, StopInd, RequireInd, ReleaseInd
<1>2. ASSUME NEW d \in Daemons, NEW p \in Panes,
             CheckLease(d, p) \/ Connect(d, p) \/ ReadEnd(d, p) \/ Cut(d, p)
      PROVE  IndInv'
  BY <1>2, CheckLeaseInd, ConnectInd, ReadEndInd, CutInd
<1>3. ASSUME NEW d \in Daemons, NEW p \in Panes,
             ReadDisplacedLost(d, p) \/ ReadDisplacedRaise(d, p) \/ StoreRaised(d, p)
      PROVE  IndInv'
  BY <1>3, ReadDisplacedLostInd, ReadDisplacedRaiseInd, StoreRaisedInd
<1>4. ASSUME NEW c \in Conns, HolderStep(c) \/ RetireFailed(c) PROVE IndInv'
  BY <1>4, RefuseInd, LeaveSilentInd, AdmitInd, ReplayFailsInd, SeeClosedInd, RetireFailedInd
     DEF HolderStep
<1>5. CASE LoseDocument
  BY <1>5, LoseDocumentInd
<1>6. CASE UNCHANGED vars
  BY <1>6 DEF vars, store, procs, links, holder, bounds, IndInv, TypeOK, NeverMute,
     ServesTheNewest, LeaseIsNewest, ThreadsAreLinked, ConnectionsAreNumbered, RaisedIsNewest
<1>. QED
  BY <1>1, <1>2, <1>3, <1>4, <1>5, <1>6 DEF Next, DaemonStep

\* The invariant holds of every behaviour of the daemons and the holders.
THEOREM Inductive == Spec => []IndInv
<1>1. Init => IndInv
  BY InitInd
<1>2. IndInv /\ [Next]_vars => IndInv'
  BY NextInd
<1>. QED
  BY <1>1, <1>2, PTL DEF Spec

\* The variables of the store, the daemons and the holders keep their types.
THEOREM TypeCorrect == Spec => []TypeOK
<1>1. IndInv => TypeOK
  BY DEF IndInv
<1>. QED
  BY <1>1, Inductive, PTL

\* No holder leaves a declaring daemon attached and mute (Holder::attach,
\* retire_displaced, retire_failed).
THEOREM NoPaneIsMute == Spec => []NeverMute
<1>1. IndInv => NeverMute
  BY DEF IndInv
<1>. QED
  BY <1>1, Inductive, PTL

\* A holder serves the newest incarnation that it ever admitted.
THEOREM NewestIsServed == Spec => []ServesTheNewest
<1>1. IndInv => ServesTheNewest
  BY DEF IndInv
<1>. QED
  BY <1>1, Inductive, PTL

\* Every pane is served, and by the newest daemon that its holder admitted.
THEOREM ServedByNewest == Spec => []PanesAreServed
<1>1. IndInv => PanesAreServed
  BY DEF IndInv, PanesAreServed
<1>. QED
  BY <1>1, Inductive, PTL

\* As long as its document survives, the lease is above every incarnation in use
\* and no two daemons share one (Lease::take, Lease::raise_above).
THEOREM LeaseIsAbove == Spec => []LeaseIsNewest
<1>1. IndInv => LeaseIsNewest
  BY DEF IndInv
<1>. QED
  BY <1>1, Inductive, PTL

\* A pane that passes from one connection to another never passes to an older
\* incarnation, nor from a declaring daemon to one that declares none.
THEOREM PanesPassForward == Spec => HandsOverForward
<1>. DEFINE Forward == \A p \in Panes : attached[p] # None /\ attached'[p] # None =>
                          conn'[attached'[p]].inc >= conn[attached[p]].inc
<1>1. ASSUME IndInv, [Next]_vars PROVE Forward
  <2>. SUFFICES ASSUME NEW p \in Panes, attached[p] # None, attached'[p] # None
                PROVE  conn'[attached'[p]].inc >= conn[attached[p]].inc
    OBVIOUS
  <2>1. IndInv'
    BY <1>1, NextInd
  <2>2. /\ conn[attached[p]].inc \in {0, authority[p]} /\ authority[p] \in Nat
        /\ conn'[attached'[p]].inc \in {0, authority'[p]} /\ authority'[p] \in Nat
    BY <1>1, <2>1 DEF IndInv, TypeOK, ServesTheNewest
  <2>3. CASE attached'[p] = attached[p]
    <3>1. attached[p] \in Conns /\ conn[attached[p]].at = "live" /\ conn'[attached[p]].at = "live"
      BY <1>1, <2>1, <2>3 DEF IndInv, TypeOK, ServesTheNewest
    <3>2. conn'[attached[p]].inc = conn[attached[p]].inc
      BY <1>1, <3>1, LiveKeepsItsIncarnation
    <3>. QED
      BY <2>2, <2>3, <3>2
  <2>4. CASE attached'[p] # attached[p]
    <3>1. PICK c \in Conns : Admit(c) /\ conn[c].pane = p
      BY <1>1, <2>4, OnlyAdmitAttaches
    <3>2. /\ attached' = [attached EXCEPT ![p] = c] /\ Admitted(c)
          /\ conn' = [x \in Conns |-> IF x = c THEN [conn[c] EXCEPT !.at = "live"]
                                      ELSE IF x = attached[p] THEN Retired(x, conn[c].inc)
                                      ELSE conn[x]]
      BY <3>1 DEF Admit
    <3>3. attached'[p] = c /\ conn'[c].inc = conn[c].inc /\ conn[c].inc \in Nat
      BY <1>1, <3>2, ConnectionLemma DEF IndInv, TypeOK, Connection
    <3>4. conn[c].inc = 0 => conn[attached[p]].inc = 0
      BY <3>1, <3>2 DEF Admitted, Silenced
    <3>5. conn[c].inc # 0 => ~(conn[c].inc < authority[p])
      BY <3>1, <3>2 DEF Admitted, Refused
    <3>. QED
      BY <2>2, <3>3, <3>4, <3>5
  <2>. QED
    BY <2>3, <2>4
<1>2. Spec => [][Forward]_vars
  BY <1>1, Inductive, PTL DEF Spec
<1>. QED
  BY <1>2 DEF HandsOverForward

----------------------------------------------------------------------------
(* The numbers of the daemons while the lease document survives.           *)

\* What a connection that its daemon closes, or its holder drops, still is.
LEMMA ClosedKeeps ==
    ASSUME TypeOK, NEW c \in Conns
    PROVE  /\ Closed(c).at = "displaced" => FALSE
           /\ \A at, by : /\ conn[c].open => /\ Dropped(c, at, by).open
                                             /\ Dropped(c, at, by).inc = conn[c].inc
                          /\ Dropped(c, at, by).at \in {"free", at}
                          /\ Dropped(c, at, by).at = "displaced" =>
                                /\ at = "displaced" /\ Dropped(c, at, by).by = by
                                /\ Dropped(c, at, by).inc = conn[c].inc
<1>1. conn[c] \in Connection /\ conn[c].at \in Stage
  BY ConnectionLemma
<1>2. Closed(c).at = "displaced" => FALSE
  <2>1. CASE conn[c].at \in {"silent", "displaced", "shut"}
    BY <2>1 DEF Closed, Unused
  <2>2. CASE conn[c].at \notin {"silent", "displaced", "shut"}
    <3>1. Closed(c) = [conn[c] EXCEPT !.open = FALSE]
      BY <2>2 DEF Closed
    <3>2. Closed(c).at = conn[c].at
      BY <1>1, <3>1 DEF Connection
    <3>. QED
      BY <2>2, <3>2
  <2>. QED
    BY <2>1, <2>2
<1>3. ASSUME NEW at, NEW by
      PROVE  /\ conn[c].open => /\ Dropped(c, at, by).open
                                /\ Dropped(c, at, by).inc = conn[c].inc
             /\ Dropped(c, at, by).at \in {"free", at}
             /\ Dropped(c, at, by).at = "displaced" =>
                   /\ at = "displaced" /\ Dropped(c, at, by).by = by
                   /\ Dropped(c, at, by).inc = conn[c].inc
  <2>1. CASE conn[c].open
    <3>1. Dropped(c, at, by) = [conn[c] EXCEPT !.at = at, !.by = by]
      BY <2>1 DEF Dropped
    <3>. QED
      BY <1>1, <2>1, <3>1 DEF Connection
  <2>2. CASE ~conn[c].open
    <3>1. Dropped(c, at, by) = Unused
      BY <2>2 DEF Dropped
    <3>. QED
      BY <2>2, <3>1 DEF Unused
  <2>. QED
    BY <2>1, <2>2
<1>. QED
  BY <1>2, <1>3

\* A step of daemons that opens no connection.
LEMMA DaemonKeepsNumbers ==
    ASSUME TypeOK, NumbersAreCurrent, losses = 0, losses' = 0, raising' = None,
           \A d \in Daemons : owner' = d => mine'[d] \in {0, lease'},
           \A d \in Daemons, p \in Panes : link'[d][p] \in {link[d][p], None},
           \A d \in Daemons, p \in Panes : link'[d][p] # None =>
              mine'[d] = mine[d] /\ conn'[link[d][p]] = conn[link[d][p]],
           \A d \in Daemons, p \in Panes :
              daemon'[d] = "down" => link'[d][p] = None /\ thread'[d][p] = "off",
           \A c \in Conns : conn'[c] \in {conn[c], Closed(c)}
    PROVE  NumbersAreCurrent'
<1>1. ASSUME NEW d \in Daemons, NEW p \in Panes, link'[d][p] # None
      PROVE  conn'[link'[d][p]].open /\ conn'[link'[d][p]].inc = mine'[d]
  <2>1. link'[d][p] = link[d][p]
    BY <1>1
  <2>. QED
    BY <1>1, <2>1 DEF NumbersAreCurrent
<1>2. ASSUME NEW d \in Daemons, NEW e \in Daemons, NEW p \in Panes, NEW q \in Panes,
             link'[d][p] # None, link'[d][p] = link'[e][q]
      PROVE  d = e /\ p = q
  <2>1. link'[d][p] = link[d][p] /\ link'[e][q] = link[e][q]
    BY <1>2
  <2>2. link[d][p] # None /\ link[d][p] = link[e][q]
    BY <1>2, <2>1
  <2>. HIDE <1>2
  <2>. QED
    BY <2>2 DEF NumbersAreCurrent
<1>3. ASSUME NEW c \in Conns, conn'[c].at = "displaced" PROVE conn'[c].inc < conn'[c].by
  BY <1>3, ClosedKeeps DEF NumbersAreCurrent
<1>. QED
  BY <1>1, <1>2, <1>3 DEF NumbersAreCurrent

\* A step of a holder.
LEMMA HolderKeepsNumbers ==
    ASSUME TypeOK, NumbersAreCurrent,
           UNCHANGED <<lease, raising, owner, daemon, mine, thread, link, losses>>,
           \A c \in Conns : conn[c].open => conn'[c].open /\ conn'[c].inc = conn[c].inc,
           losses = 0 => \A c \in Conns :
              conn'[c].at = "displaced" => conn'[c].inc < conn'[c].by
    PROVE  NumbersAreCurrent'
<1>1. link \in [Daemons -> [Panes -> Conns \cup {None}]]
  BY DEF TypeOK
<1>2. ASSUME losses = 0, NEW d \in Daemons, NEW p \in Panes, link[d][p] # None
      PROVE  conn'[link[d][p]].open /\ conn'[link[d][p]].inc = mine[d]
  <2>1. link[d][p] \in Conns
    BY <1>1, <1>2
  <2>2. conn[link[d][p]].open /\ conn[link[d][p]].inc = mine[d]
    BY <1>2 DEF NumbersAreCurrent
  <2>. QED
    BY <2>1, <2>2
<1>. QED
  BY <1>2 DEF NumbersAreCurrent

\* What a daemon has open for one pane is not what it, or another, has for another.
LEMMA LinksAreApart ==
    ASSUME TypeOK, NumbersAreCurrent, losses = 0, NEW d \in Daemons, NEW P \in SUBSET Panes,
           NEW e \in Daemons, NEW q \in Panes, link[e][q] # None, e # d \/ q \notin P
    PROVE  link[e][q] \in Conns /\ link[e][q] \notin Ours(d, P)
BY DEF TypeOK, NumbersAreCurrent, Ours

LEMMA StartNumbers ==
    ASSUME IndInv, NumbersAreCurrent, NEW d \in Daemons, Start(d) PROVE NumbersAreCurrent'
<1>. SUFFICES ASSUME losses = 0 PROVE NumbersAreCurrent'
  BY DEF Start, NumbersAreCurrent
<1>1. /\ daemon[d] = "down" /\ daemon' = [daemon EXCEPT ![d] = "up"]
      /\ thread' = [thread EXCEPT ![d] = [p \in Panes |-> "new"]]
      /\ UNCHANGED <<raising, link, conn, losses>>
      /\ \/ /\ lease' = NextIncarnation /\ owner' = d
            /\ mine' = [mine EXCEPT ![d] = NextIncarnation]
         \/ UNCHANGED <<lease, owner>> /\ mine' = [mine EXCEPT ![d] = 0]
  BY DEF Start
<1>2. TypeOK /\ mine \in [Daemons -> Nat] /\ daemon \in [Daemons -> {"down", "up", "lost", "released"}]
      /\ thread \in [Daemons -> [Panes -> {"off", "new", "adopt", "check", "repair", "follow",
                                           "raise"}]]
  BY DEF IndInv, TypeOK
<1>3. \A e \in Daemons : owner' = e => mine'[e] \in {0, lease'}
  BY <1>1, <1>2 DEF NumbersAreCurrent
<1>4. \A p \in Panes : link[d][p] = None
  BY <1>1 DEF NumbersAreCurrent
<1>5. \A e \in Daemons \ {d} : /\ mine'[e] = mine[e] /\ daemon'[e] = daemon[e]
                               /\ thread'[e] = thread[e]
  BY <1>1, <1>2
<1>6. daemon'[d] = "up"
  BY <1>1, <1>2
<1>7. \A e \in Daemons, p \in Panes : link'[e][p] # None =>
         mine'[e] = mine[e] /\ conn'[link[e][p]] = conn[link[e][p]]
  BY <1>1, <1>4, <1>5
<1>8. \A e \in Daemons, p \in Panes :
         daemon'[e] = "down" => link'[e][p] = None /\ thread'[e][p] = "off"
  BY <1>1, <1>5, <1>6 DEF NumbersAreCurrent
<1>9. raising' = None
  BY <1>1 DEF NumbersAreCurrent
<1>. QED
  BY <1>1, <1>2, <1>3, <1>7, <1>8, <1>9, DaemonKeepsNumbers

LEMMA StopNumbers ==
    ASSUME IndInv, NumbersAreCurrent, NEW d \in Daemons, Stop(d) PROVE NumbersAreCurrent'
<1>. SUFFICES ASSUME losses = 0 PROVE NumbersAreCurrent'
  BY DEF Stop, NumbersAreCurrent, bounds
<1>1. /\ daemon' = [daemon EXCEPT ![d] = "down"] /\ mine' = [mine EXCEPT ![d] = 0]
      /\ thread' = [thread EXCEPT ![d] = [p \in Panes |-> "off"]]
      /\ link' = [link EXCEPT ![d] = [p \in Panes |-> None]]
      /\ conn' = [c \in Conns |-> IF c \in Ours(d, Panes) THEN Closed(c) ELSE conn[c]]
      /\ raising' = None
      /\ UNCHANGED <<lease, owner, losses>>
  BY DEF Stop, Close, bounds, NumbersAreCurrent
<1>2. TypeOK /\ mine \in [Daemons -> Nat] /\ daemon \in [Daemons -> {"down", "up", "lost", "released"}]
      /\ thread \in [Daemons -> [Panes -> {"off", "new", "adopt", "check", "repair", "follow",
                                           "raise"}]]
      /\ link \in [Daemons -> [Panes -> Conns \cup {None}]]
  BY DEF IndInv, TypeOK
<1>3. \A e \in Daemons : owner' = e => mine'[e] \in {0, lease'}
  BY <1>1, <1>2 DEF NumbersAreCurrent
<1>4. \A p \in Panes : link'[d][p] = None /\ thread'[d][p] = "off"
  BY <1>1, <1>2
<1>5. \A e \in Daemons \ {d} : /\ mine'[e] = mine[e] /\ daemon'[e] = daemon[e]
                               /\ thread'[e] = thread[e] /\ link'[e] = link[e]
  BY <1>1, <1>2
<1>6. ASSUME NEW e \in Daemons, NEW p \in Panes, link'[e][p] # None
      PROVE  mine'[e] = mine[e] /\ conn'[link[e][p]] = conn[link[e][p]]
  <2>1. e # d /\ link'[e][p] = link[e][p]
    BY <1>4, <1>5, <1>6
  <2>2. link[e][p] \in Conns /\ link[e][p] \notin Ours(d, Panes)
    BY <1>2, <1>6, <2>1, LinksAreApart
  <2>. QED
    BY <1>1, <1>5, <2>1, <2>2
<1>7. \A e \in Daemons, p \in Panes :
         daemon'[e] = "down" => link'[e][p] = None /\ thread'[e][p] = "off"
  BY <1>4, <1>5 DEF NumbersAreCurrent
<1>8. \A e \in Daemons, p \in Panes : link'[e][p] \in {link[e][p], None}
  BY <1>4, <1>5
<1>. QED
  BY <1>1, <1>2, <1>3, <1>6, <1>7, <1>8, DaemonKeepsNumbers

LEMMA ReleaseNumbers ==
    ASSUME IndInv, NumbersAreCurrent, NEW d \in Daemons, Release(d) PROVE NumbersAreCurrent'
<1>. SUFFICES ASSUME losses = 0 PROVE NumbersAreCurrent'
  BY DEF Release, NumbersAreCurrent, bounds
<1>. DEFINE dropped == {p \in Panes : thread[d][p] \notin {"new", "adopt"}}
<1>1. /\ daemon' = [daemon EXCEPT ![d] = "released"]
      /\ link' = [link EXCEPT ![d] = [p \in Panes |-> IF p \in dropped THEN None ELSE @[p]]]
      /\ conn' = [c \in Conns |-> IF c \in Ours(d, dropped) THEN Closed(c) ELSE conn[c]]
      /\ \E t : thread' = [thread EXCEPT ![d] = t]
      /\ raising' = None
      /\ UNCHANGED <<lease, owner, mine, losses>>
  BY DEF Release, Close, store, bounds, NumbersAreCurrent
<1>2. TypeOK /\ daemon \in [Daemons -> {"down", "up", "lost", "released"}]
      /\ thread \in [Daemons -> [Panes -> {"off", "new", "adopt", "check", "repair", "follow",
                                           "raise"}]]
      /\ link \in [Daemons -> [Panes -> Conns \cup {None}]]
      /\ dropped \in SUBSET Panes
  BY DEF IndInv, TypeOK
<1>. HIDE DEF dropped
<1>3. \A p \in Panes : link'[d][p] = IF p \in dropped THEN None ELSE link[d][p]
  BY <1>1, <1>2
<1>4. \A e \in Daemons \ {d} : /\ daemon'[e] = daemon[e] /\ thread'[e] = thread[e]
                               /\ link'[e] = link[e]
  BY <1>1, <1>2
<1>5. daemon'[d] = "released"
  BY <1>1, <1>2
<1>6. ASSUME NEW e \in Daemons, NEW p \in Panes, link'[e][p] # None
      PROVE  mine'[e] = mine[e] /\ conn'[link[e][p]] = conn[link[e][p]]
  <2>1. (e # d \/ p \notin dropped) /\ link'[e][p] = link[e][p]
    BY <1>3, <1>4, <1>6
  <2>2. link[e][p] \in Conns /\ link[e][p] \notin Ours(d, dropped)
    BY <1>2, <1>6, <2>1, LinksAreApart
  <2>. QED
    BY <1>1, <2>2
<1>7. \A e \in Daemons, p \in Panes :
         daemon'[e] = "down" => link'[e][p] = None /\ thread'[e][p] = "off"
  BY <1>4, <1>5 DEF NumbersAreCurrent
<1>8. \A e \in Daemons, p \in Panes : link'[e][p] \in {link[e][p], None}
  BY <1>3, <1>4
<1>9. \A e \in Daemons : owner' = e => mine'[e] \in {0, lease'}
  BY <1>1 DEF NumbersAreCurrent
<1>. QED
  BY <1>1, <1>2, <1>6, <1>7, <1>8, <1>9, DaemonKeepsNumbers

\* A daemon or a thread that changes its state only.
LEMMA QuietNumbers ==
    ASSUME IndInv, NumbersAreCurrent, UNCHANGED <<lease, raising, owner, mine, link, conn, losses>>,
           \A d \in Daemons, p \in Panes :
              daemon'[d] = "down" => daemon[d] = "down" /\ thread'[d][p] = thread[d][p]
    PROVE  NumbersAreCurrent'
<1>. SUFFICES ASSUME losses = 0 PROVE NumbersAreCurrent'
  BY DEF NumbersAreCurrent
<1>1. TypeOK /\ raising' = None
  BY DEF IndInv, NumbersAreCurrent
<1>2. \A d \in Daemons : owner' = d => mine'[d] \in {0, lease'}
  BY DEF NumbersAreCurrent
<1>3. \A d \in Daemons, p \in Panes :
         daemon'[d] = "down" => link'[d][p] = None /\ thread'[d][p] = "off"
  BY DEF NumbersAreCurrent
<1>. QED
  BY <1>1, <1>2, <1>3, DaemonKeepsNumbers

\* A thread that leaves its link, and what its daemon makes of that.
LEMMA LeavingNumbers ==
    ASSUME IndInv, NumbersAreCurrent, UNCHANGED <<lease, raising, owner, mine, losses>>,
           NEW d \in Daemons, NEW p \in Panes, thread[d][p] = "follow", Leave(d, p),
           NEW at, thread' = [thread EXCEPT ![d][p] = at],
           daemon' = daemon \/ Lose(d)
    PROVE  NumbersAreCurrent'
<1>. SUFFICES ASSUME losses = 0 PROVE NumbersAreCurrent'
  BY DEF NumbersAreCurrent
<1>1. TypeOK /\ raising' = None
  BY DEF IndInv, NumbersAreCurrent
<1>2. \A e \in Daemons : owner' = e => mine'[e] \in {0, lease'}
  BY DEF NumbersAreCurrent
<1>3. /\ link[d][p] \in Conns /\ link' = [link EXCEPT ![d][p] = None]
      /\ conn' = [c \in Conns |-> IF c = link[d][p] THEN Closed(c) ELSE conn[c]]
      /\ link \in [Daemons -> [Panes -> Conns \cup {None}]]
      /\ daemon \in [Daemons -> {"down", "up", "lost", "released"}]
      /\ thread \in [Daemons -> [Panes -> {"off", "new", "adopt", "check", "repair", "follow",
                                           "raise"}]]
  BY LeaveLemma DEF Leave, IndInv, TypeOK
<1>4. \A e \in Daemons, q \in Panes : link'[e][q] = IF e = d /\ q = p THEN None ELSE link[e][q]
  BY <1>3
<1>5. ASSUME NEW e \in Daemons, NEW q \in Panes, link'[e][q] # None
      PROVE  mine'[e] = mine[e] /\ conn'[link[e][q]] = conn[link[e][q]]
  <2>1. ~(e = d /\ q = p) /\ link[e][q] # None /\ link[e][q] \in Conns
    BY <1>3, <1>4, <1>5
  <2>2. link[e][q] # link[d][p]
    BY <2>1 DEF NumbersAreCurrent
  <2>. QED
    BY <1>3, <2>1, <2>2
<1>6. daemon[d] # "down"
  BY DEF NumbersAreCurrent
<1>7. \A e \in Daemons : daemon'[e] = "down" => daemon[e] = "down"
  BY <1>3 DEF Lose
<1>8. \A e \in Daemons \ {d} : thread'[e] = thread[e]
  BY <1>3
<1>9. \A e \in Daemons, q \in Panes :
         daemon'[e] = "down" => link'[e][q] = None /\ thread'[e][q] = "off"
  BY <1>4, <1>6, <1>7, <1>8 DEF NumbersAreCurrent
<1>. QED
  BY <1>1, <1>2, <1>3, <1>4, <1>5, <1>9, DaemonKeepsNumbers

\* A connection that a daemon opens carries the daemon's number.
LEMMA ConnectNumbers ==
    ASSUME IndInv, NumbersAreCurrent, NEW d \in Daemons, NEW p \in Panes, Connect(d, p)
    PROVE  NumbersAreCurrent'
<1>. SUFFICES ASSUME losses = 0 PROVE NumbersAreCurrent'
  BY DEF Connect, NumbersAreCurrent, bounds
<1>1. PICK wanted \in BOOLEAN, c \in Conns :
        /\ conn[c] = Unused
        /\ conn' = [conn EXCEPT ![c] =
              [pane |-> p, inc |-> mine[d], at |-> "sent", by |-> 0, open |-> wanted]]
        /\ link' = [link EXCEPT ![d][p] = IF wanted THEN c ELSE None]
        /\ thread' = [thread EXCEPT ![d][p] = IF wanted THEN "follow" ELSE "off"]
  BY DEF Connect, SetThread
<1>2. /\ UNCHANGED <<lease, raising, owner, daemon, mine, losses>>
      /\ thread[d][p] \in {"adopt", "repair"}
  BY DEF Connect, store, procs, bounds
<1>3. /\ link \in [Daemons -> [Panes -> Conns \cup {None}]] /\ conn \in [Conns -> Connection]
      /\ thread \in [Daemons -> [Panes -> {"off", "new", "adopt", "check", "repair", "follow",
                                           "raise"}]]
  BY DEF IndInv, TypeOK
<1>4. \A e \in Daemons, q \in Panes : link[e][q] # c
  <2>1. ~Unused.open
    BY DEF Unused
  <2>2. c # None
    BY Constants
  <2>. QED
    BY <1>1, <2>1, <2>2 DEF NumbersAreCurrent
<1>5. /\ link'[d][p] = IF wanted THEN c ELSE None
      /\ \A e \in Daemons, q \in Panes : e # d \/ q # p => link'[e][q] = link[e][q]
  BY <1>1, <1>3
<1>6. /\ conn'[c].open = wanted /\ conn'[c].inc = mine[d] /\ conn'[c].at = "sent"
      /\ \A x \in Conns \ {c} : conn'[x] = conn[x]
  BY <1>1, <1>3
<1>7. daemon[d] # "down"
  BY <1>2 DEF NumbersAreCurrent
<1>8. \A e \in Daemons, q \in Panes :
         daemon'[e] = "down" => link'[e][q] = None /\ thread'[e][q] = "off"
  BY <1>1, <1>2, <1>3, <1>5, <1>7 DEF NumbersAreCurrent
<1>9. ASSUME NEW e \in Daemons, NEW q \in Panes, link'[e][q] # None
      PROVE  conn'[link'[e][q]].open /\ conn'[link'[e][q]].inc = mine'[e]
  <2>1. CASE e = d /\ q = p
    BY <1>2, <1>5, <1>6, <1>9, <2>1
  <2>2. CASE ~(e = d /\ q = p)
    <3>1. link'[e][q] = link[e][q] /\ link[e][q] # None
      BY <1>5, <1>9, <2>2
    <3>2. conn'[link[e][q]] = conn[link[e][q]]
      BY <1>3, <1>4, <1>6, <3>1
    <3>3. conn[link[e][q]].open /\ conn[link[e][q]].inc = mine[e]
      BY <3>1 DEF NumbersAreCurrent
    <3>. QED
      BY <1>2, <3>1, <3>2, <3>3
  <2>. QED
    BY <2>1, <2>2
<1>10. ASSUME NEW e \in Daemons, NEW f \in Daemons, NEW q \in Panes, NEW r \in Panes,
              link'[e][q] # None, link'[e][q] = link'[f][r]
       PROVE  e = f /\ q = r
  <2>1. CASE e = d /\ q = p
    BY <1>4, <1>5, <1>10, <2>1
  <2>2. CASE f = d /\ r = p
    BY <1>4, <1>5, <1>10, <2>2
  <2>3. CASE ~(e = d /\ q = p) /\ ~(f = d /\ r = p)
    <3>1. link[e][q] # None /\ link[e][q] = link[f][r]
      BY <1>5, <1>10, <2>3
    <3>. HIDE <1>10
    <3>. QED
      BY <3>1 DEF NumbersAreCurrent
  <2>. QED
    BY <2>1, <2>2, <2>3
<1>11. \A x \in Conns : conn'[x].at = "displaced" => conn'[x].inc < conn'[x].by
  BY <1>6 DEF NumbersAreCurrent
<1>. QED
  BY <1>2, <1>8, <1>9, <1>10, <1>11 DEF NumbersAreCurrent

\* While the document survives, a displaced daemon always finds the lease taken.
LEMMA NobodyRaises ==
    ASSUME IndInv, NumbersAreCurrent, losses = 0, NEW d \in Daemons, NEW p \in Panes
    PROVE  ~ReadDisplacedRaise(d, p) /\ ~StoreRaised(d, p)
<1>1. ~StoreRaised(d, p)
  BY DEF StoreRaised, IndInv, ThreadsAreLinked, NumbersAreCurrent
<1>2. ASSUME ReadDisplacedRaise(d, p) PROVE FALSE
  <2>1. /\ thread[d][p] = "follow" /\ conn[link[d][p]].at = "displaced" /\ lease <= mine[d]
    BY <1>2 DEF ReadDisplacedRaise
  <2>2. link[d][p] # None /\ link[d][p] \in Conns
    BY <2>1 DEF IndInv, ThreadsAreLinked, TypeOK
  <2>3. PICK c \in Conns : c = link[d][p]
    BY <2>2
  <2>4. conn[c].inc = mine[d] /\ conn[c].inc < conn[c].by
    BY <2>1, <2>2, <2>3 DEF NumbersAreCurrent
  <2>5. conn[c].by <= lease
    BY DEF IndInv, ConnectionsAreNumbered
  <2>6. conn[c].by \in Nat /\ lease \in Nat /\ mine[d] \in Nat
    BY ConnectionLemma DEF IndInv, TypeOK
  <2>. QED
    BY <2>1, <2>4, <2>5, <2>6
<1>. QED
  BY <1>1, <1>2

\* What a holder says in a Displaced is above the number of the connection.
LEMMA HolderStepNumbers ==
    ASSUME IndInv, NumbersAreCurrent, NEW c \in Conns, HolderStep(c) \/ RetireFailed(c)
    PROVE  NumbersAreCurrent'
<1>1. UNCHANGED <<lease, raising, owner, daemon, mine, thread, link, losses>>
  BY DEF HolderStep, Refuse, LeaveSilent, Admit, ReplayFails, SeeClosed, RetireFailed, store,
         procs, bounds
<1>2. TypeOK /\ conn \in [Conns -> Connection] /\ conn[c] \in Connection
      /\ \A x \in Conns : conn[x].inc \in Nat /\ conn[x] \in Connection
  BY ConnectionLemma DEF IndInv, TypeOK
<1>3. ASSUME NEW at, NEW by, conn' = [conn EXCEPT ![c] = Dropped(c, at, by)],
             at = "displaced" => conn[c].inc < by
      PROVE  NumbersAreCurrent'
  <2>1. conn'[c] = Dropped(c, at, by) /\ \A x \in Conns \ {c} : conn'[x] = conn[x]
    BY <1>2, <1>3
  <2>2. \A x \in Conns : conn[x].open => conn'[x].open /\ conn'[x].inc = conn[x].inc
    BY <1>2, <2>1, ClosedKeeps
  <2>3. losses = 0 => \A x \in Conns : conn'[x].at = "displaced" => conn'[x].inc < conn'[x].by
    BY <1>2, <1>3, <2>1, ClosedKeeps DEF NumbersAreCurrent
  <2>. QED
    BY <1>1, <1>2, <2>2, <2>3, HolderKeepsNumbers
<1>4. CASE Refuse(c)
  <2>1. /\ conn' = [conn EXCEPT ![c] = Dropped(c, "displaced", authority[conn[c].pane])]
        /\ conn[c].inc < authority[conn[c].pane]
    BY <1>4 DEF Refuse, Refused
  <2>. QED
    BY <1>3, <2>1
<1>5. CASE LeaveSilent(c)
  BY <1>3, <1>5 DEF LeaveSilent
<1>6. CASE ReplayFails(c)
  BY <1>3, <1>6 DEF ReplayFails
<1>7. CASE RetireFailed(c)
  BY <1>3, <1>7 DEF RetireFailed
<1>8. CASE SeeClosed(c)
  <2>1. conn' = [conn EXCEPT ![c] = Unused] /\ ~conn[c].open
    BY <1>8 DEF SeeClosed
  <2>2. Dropped(c, "shut", 0) = Unused
    BY <2>1 DEF Dropped
  <2>. QED
    BY <1>3, <2>1, <2>2
<1>9. CASE Admit(c)
  <2>. DEFINE old == attached[conn[c].pane]
  <2>1. /\ conn[c].at = "sent"
        /\ conn' = [x \in Conns |-> IF x = c THEN [conn[c] EXCEPT !.at = "live"]
                                    ELSE IF x = old THEN Retired(x, conn[c].inc)
                                    ELSE conn[x]]
    BY <1>9 DEF Admit
  <2>. HIDE DEF old
  <2>2. conn'[c] = [conn[c] EXCEPT !.at = "live"]
    BY <2>1
  <2>3. conn'[c].at = "live" /\ conn'[c].inc = conn[c].inc /\ conn'[c].open = conn[c].open
    BY <1>2, <2>2 DEF Connection
  <2>4. ASSUME NEW x \in Conns, x # c, x = old
        PROVE  /\ conn[x].open => conn'[x].open /\ conn'[x].inc = conn[x].inc
               /\ conn'[x].at = "displaced" => conn'[x].inc < conn'[x].by
    <3>1. conn'[x] = Retired(x, conn[c].inc)
      BY <2>1, <2>4
    <3>2. CASE conn[x].inc = 0
      BY <1>2, <3>1, <3>2, ClosedKeeps DEF Retired
    <3>3. CASE conn[x].inc # 0 /\ conn[x].inc < conn[c].inc
      BY <1>2, <3>1, <3>3, ClosedKeeps DEF Retired
    <3>4. CASE conn[x].inc # 0 /\ ~(conn[x].inc < conn[c].inc)
      BY <1>2, <3>1, <3>4, ClosedKeeps DEF Retired
    <3>. QED
      BY <3>2, <3>3, <3>4
  <2>5. \A x \in Conns : x # c /\ x # old => conn'[x] = conn[x]
    BY <2>1
  <2>6. \A x \in Conns : conn[x].open => conn'[x].open /\ conn'[x].inc = conn[x].inc
    BY <2>3, <2>4, <2>5
  <2>7. losses = 0 => \A x \in Conns : conn'[x].at = "displaced" => conn'[x].inc < conn'[x].by
    BY <2>3, <2>4, <2>5 DEF NumbersAreCurrent
  <2>. QED
    BY <1>1, <1>2, <2>6, <2>7, HolderKeepsNumbers
<1>. QED
  BY <1>4, <1>5, <1>6, <1>7, <1>8, <1>9 DEF HolderStep

\* The step of the invariant.
LEMMA NumbersInd == IndInv /\ NumbersAreCurrent /\ [Next]_vars => NumbersAreCurrent'
<1>. SUFFICES ASSUME IndInv, NumbersAreCurrent, [Next]_vars PROVE NumbersAreCurrent'
  OBVIOUS
<1>1. ASSUME NEW d \in Daemons, Start(d) \/ Stop(d) \/ Release(d) PROVE NumbersAreCurrent'
  BY <1>1, StartNumbers, StopNumbers, ReleaseNumbers
<1>2. ASSUME NEW d \in Daemons, Require(d) PROVE NumbersAreCurrent'
  <2>1. /\ UNCHANGED <<lease, raising, owner, mine, thread, link, conn, losses>>
        /\ daemon' = [daemon EXCEPT ![d] = IF @ = "up" THEN "lost" ELSE @]
    BY <1>2 DEF Require, Lose, store, links, bounds
  <2>2. \A e \in Daemons : daemon'[e] = "down" => daemon[e] = "down"
    BY <2>1 DEF IndInv, TypeOK
  <2>. QED
    BY <2>1, <2>2, QuietNumbers
<1>3. ASSUME NEW d \in Daemons, NEW p \in Panes, CheckLease(d, p) PROVE NumbersAreCurrent'
  <2>1. /\ UNCHANGED <<lease, raising, owner, mine, link, conn, losses>>
        /\ daemon' = daemon \/ daemon' = [daemon EXCEPT ![d] = IF @ = "up" THEN "lost" ELSE @]
        /\ \E at : thread' = [thread EXCEPT ![d][p] = at]
        /\ thread[d][p] # "off"
    BY <1>3 DEF CheckLease, SetThread, Lose, store, bounds
  <2>. SUFFICES ASSUME losses = 0 PROVE NumbersAreCurrent'
    BY <2>1 DEF NumbersAreCurrent
  <2>2. daemon[d] # "down"
    BY <2>1 DEF NumbersAreCurrent
  <2>3. \A e \in Daemons : daemon'[e] = "down" => daemon[e] = "down"
    BY <2>1 DEF IndInv, TypeOK
  <2>4. \A e \in Daemons \ {d} : thread'[e] = thread[e]
    BY <2>1 DEF IndInv, TypeOK
  <2>. QED
    BY <2>1, <2>2, <2>3, <2>4, QuietNumbers
<1>4. ASSUME NEW d \in Daemons, NEW p \in Panes, Connect(d, p) PROVE NumbersAreCurrent'
  BY <1>4, ConnectNumbers
<1>5. ASSUME NEW d \in Daemons, NEW p \in Panes,
             ReadEnd(d, p) \/ ReadDisplacedLost(d, p) \/ Cut(d, p)
      PROVE  NumbersAreCurrent'
  <2>1. /\ UNCHANGED <<lease, raising, owner, mine, losses>>
        /\ thread[d][p] = "follow" /\ Leave(d, p)
        /\ \E at : thread' = [thread EXCEPT ![d][p] = at]
        /\ daemon' = daemon \/ Lose(d)
    BY <1>5 DEF ReadEnd, ReadDisplacedLost, Cut, SetThread, store, procs, bounds
  <2>. QED
    BY <2>1, LeavingNumbers
<1>6. ASSUME NEW d \in Daemons, NEW p \in Panes,
             ReadDisplacedRaise(d, p) \/ StoreRaised(d, p)
      PROVE  NumbersAreCurrent'
  <2>1. losses # 0 /\ losses' = losses
    BY <1>6, NobodyRaises DEF ReadDisplacedRaise, StoreRaised, bounds
  <2>. QED
    BY <2>1 DEF NumbersAreCurrent
<1>7. ASSUME NEW c \in Conns, HolderStep(c) \/ RetireFailed(c) PROVE NumbersAreCurrent'
  BY <1>7, HolderStepNumbers
<1>8. CASE LoseDocument
  <2>1. losses' = losses + 1 /\ losses \in Nat
    BY <1>8 DEF LoseDocument, IndInv, TypeOK
  <2>2. losses' # 0
    BY <2>1
  <2>. QED
    BY <2>2 DEF NumbersAreCurrent
<1>9. CASE UNCHANGED vars
  BY <1>9 DEF vars, store, procs, links, bounds, NumbersAreCurrent
<1>. QED
  BY <1>1, <1>2, <1>3, <1>4, <1>5, <1>6, <1>7, <1>8, <1>9 DEF Next, DaemonStep

\* While the lease document survives, connections carry the number of their daemon, the
\* last taker has the newest number, and raise_above is never reached.
THEOREM NumbersStayCurrent == Spec => []NumbersAreCurrent
<1>1. Init => NumbersAreCurrent
  BY DEF Init, NumbersAreCurrent, Unused
<1>2. IndInv /\ NumbersAreCurrent /\ [Next]_vars => NumbersAreCurrent'
  BY NumbersInd
<1>. QED
  BY <1>1, <1>2, Inductive, PTL DEF Spec

\* The daemon that took the lease last never finds it lost, while the lock can be taken and
\* the document survives: held(), require() and displaced() agree with take().
THEOREM TheNewestNeverLoses == Spec => NeverLosesToItself
<1>1. ASSUME IndInv, NumbersAreCurrent, [Next]_vars
      PROVE  [\A d \in Daemons : daemon[d] = "up" /\ daemon'[d] = "lost" /\ losses = 0 =>
                 owner # d \/ refusals' # refusals]_vars
  <2>. SUFFICES ASSUME Next, NEW d \in Daemons, daemon[d] = "up", daemon'[d] = "lost",
                       losses = 0, owner = d
                PROVE  refusals' # refusals
    BY <1>1
  <2>0. daemon \in [Daemons -> {"down", "up", "lost", "released"}] /\ mine[d] \in {0, lease}
        /\ lease \in Nat /\ refusals \in Nat
    BY <1>1 DEF IndInv, TypeOK, NumbersAreCurrent
  <2>1. ASSUME NEW e \in Daemons, Lose(e) PROVE e = d
    BY <2>0, <2>1 DEF Lose
  <2>2. LeaseHeld(d) /\ ~(lease > mine[d] /\ mine[d] # 0)
    BY <2>0 DEF LeaseHeld
  <2>3. ASSUME NEW e \in Daemons, Start(e) \/ Stop(e) \/ Release(e) PROVE FALSE
    BY <2>0, <2>3 DEF Start, Stop, Release
  <2>4. ASSUME NEW e \in Daemons, Require(e) PROVE FALSE
    BY <2>1, <2>2, <2>4 DEF Require
  <2>5. ASSUME NEW e \in Daemons, NEW p \in Panes, CheckLease(e, p) PROVE FALSE
    <3>1. Lose(e) /\ ~Holds(e)
      BY <2>5 DEF CheckLease
    <3>. QED
      BY <2>1, <2>2, <3>1 DEF Holds
  <2>6. ASSUME NEW e \in Daemons, NEW p \in Panes, ReadDisplacedLost(e, p)
        PROVE  refusals' # refusals
    <3>1. Lose(e) /\ mine[e] # 0 /\ e = d
      BY <2>1, <2>6 DEF ReadDisplacedLost
    <3>2. refusals' = refusals + 1
      BY <2>2, <2>6, <3>1 DEF ReadDisplacedLost
    <3>. QED
      BY <2>0, <3>2
  <2>7. ASSUME UNCHANGED daemon PROVE FALSE
    BY <2>7
  <2>8. ASSUME NEW e \in Daemons, NEW p \in Panes,
               Connect(e, p) \/ ReadEnd(e, p) \/ ReadDisplacedRaise(e, p) \/ StoreRaised(e, p)
               \/ Cut(e, p)
        PROVE  FALSE
    BY <2>7, <2>8 DEF Connect, ReadEnd, ReadDisplacedRaise, StoreRaised, Cut, procs
  <2>9. ASSUME NEW c \in Conns, HolderStep(c) \/ RetireFailed(c) PROVE FALSE
    BY <2>7, <2>9 DEF HolderStep, Refuse, LeaveSilent, Admit, ReplayFails, SeeClosed,
                      RetireFailed, procs
  <2>10. ~LoseDocument
    BY <2>7 DEF LoseDocument, procs
  <2>. QED
    BY <2>3, <2>4, <2>5, <2>6, <2>8, <2>9, <2>10 DEF Next, DaemonStep
<1>. QED
  BY <1>1, Inductive, NumbersStayCurrent, PTL DEF Spec, NeverLosesToItself
=============================================================================
