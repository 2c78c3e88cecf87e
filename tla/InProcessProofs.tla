-------------------------- MODULE InProcessProofs --------------------------
(***************************************************************************)
(* Proofs about InProcess, for every value of its constants: a replay      *)
(* meets the stream, the trees agree with the flat map of panes, a shell   *)
(* that runs is never lost, and threads that are through leave nothing.    *)
(***************************************************************************)
EXTENDS InProcess, TLAPS

\* A pane that nobody has begun to open has no record, and nobody knows it.
NewPanesAreNew ==
    /\ session = "no" => spawner[Seed] = "no"
    /\ \A p \in Panes : spawner[p] = "no" =>
          /\ state[p] = "no"
          /\ \A w \in Panes : p \notin leaves[w]
          /\ \A k \in Kills : p \notin kill[k].panes

\* A reader is started once.
NotYetReading == \A p \in Panes : spawner[p] \in {"no", "grid", "open"} => reader[p] = "no"

\* A pane is a leaf of one window.
WindowsAreDisjoint ==
    \A v \in Panes, w \in Panes : v # w => leaves[v] \cap leaves[w] = {}

\* What was listed in a window is in no other one, however late the kill goes on.
ListsStayInWindows ==
    \A k \in Kills : (kill[k].at \in {"listed", "detached"} /\ kill[k].of = "window") =>
        /\ kill[k].id \in Panes
        /\ \A w \in Panes \ {kill[k].id} : kill[k].panes \cap leaves[w] = {}

\* Only a receiver that was registered has a sender, in the entry of its own pane.
SendersAreTheirs ==
    \A s \in Subs :
        /\ sub[s].at \in {"looks", "asked", "open"} => sub[s].pane \in Panes
        /\ (sub[s].at = "open" /\ sub[s].replay) => sub[s].seen \in 0..MaxChunks
        /\ \A p \in Panes : s \in EntryOf(p).senders =>
              /\ sub[s].at \in {"open", "over"}
              /\ sub[s].at = "open" => sub[s].pane = p

SubRecord ==
    [at : {"idle", "looks", "asked", "open", "over"}, pane : Panes \cup {None},
     replay : BOOLEAN, seen : (0..MaxChunks) \cup {None}]
KillRecord ==
    [at : {"idle", "listed", "detached", "unlisted", "done"},
     of : {"pane", "window", "session", None}, id : Panes \cup {None}, panes : SUBSET Panes]

TreesInv  == NewPanesAreNew /\ WindowsAreDisjoint /\ ListsStayInWindows /\ TreesAgreeWithPanes
StreamInv == NotYetReading /\ SendersAreTheirs /\ ReplayMeetsStream

\* The inductive invariant
IndInv == TypeOK /\ TreesInv /\ StreamInv
-----------------------------------------------------------------------------
\* Before the session is created the invariant holds.
LEMMA InitInd == Init => IndInv
<1>. SUFFICES ASSUME Init PROVE IndInv
  OBVIOUS
<1>1. TypeOK
  BY ConstantsAssumption DEF Init, TypeOK, NoSub
<1>2. TreesInv
  BY ConstantsAssumption DEF Init, TreesInv, NewPanesAreNew, WindowsAreDisjoint,
     ListsStayInWindows, TreesAgreeWithPanes, Registered
<1>3. StreamInv
  BY DEF Init, StreamInv, NotYetReading, SendersAreTheirs, ReplayMeetsStream, NoSub, EntryOf,
     NewEntry
<1>. QED
  BY <1>1, <1>2, <1>3 DEF IndInv

\* Every entry has senders, also one that is not in the map.
LEMMA EntryLemma ==
    ASSUME TypeOK, NEW p \in Panes
    PROVE  /\ EntryOf(p) \in Entry /\ Closed(p) \in Entry
           /\ EntryOf(p).senders \subseteq Subs
           /\ \A ss \in SUBSET Subs :
                 ~EntryOf(p).closed => [EntryOf(p) EXCEPT !.senders = ss] \in Entry
           /\ entry[p] # None =>
                 \A ss \in SUBSET EntryOf(p).senders : [entry[p] EXCEPT !.senders = ss] \in Entry
<1>1. entry[p] \in Entry \/ entry[p] = None
  BY DEF TypeOK
<1>2. NewEntry \in Entry /\ Closed(p) \in Entry
  BY DEF NewEntry, Entry, Closed
<1>3. EntryOf(p) \in Entry
  BY <1>1, <1>2 DEF EntryOf
<1>4. entry[p] # None => EntryOf(p) = entry[p]
  BY DEF EntryOf
<1>5. PICK e \in Entry : e = EntryOf(p)
  BY <1>3
<1>6. CASE e \in [closed : {FALSE}, senders : SUBSET Subs]
  BY <1>2, <1>3, <1>4, <1>5, <1>6 DEF Entry
<1>7. CASE e \in [closed : {TRUE}, senders : {{}}]
  BY <1>2, <1>3, <1>4, <1>5, <1>7 DEF Entry
<1>. QED
  BY <1>6, <1>7 DEF Entry

\* A kill that goes on keeps what it knows.
LEMMA KillLemma ==
    ASSUME TypeOK, NEW k \in Kills,
           NEW at \in {"idle", "listed", "detached", "unlisted", "done"}
    PROVE  [kill EXCEPT ![k].at = at] \in [Kills -> KillRecord]
<1>1. kill[k] \in KillRecord
  BY DEF TypeOK, KillRecord
<1>2. [kill[k] EXCEPT !.at = at] \in KillRecord
  BY <1>1 DEF KillRecord
<1>. QED
  BY <1>2 DEF TypeOK, KillRecord

\* A new pane is one of the session's that nobody has begun to open.
LEMMA FreeLemma == Free # {} => (CHOOSE q \in Free : TRUE) \in Free
  OBVIOUS
-----------------------------------------------------------------------------
(* Types.                                                                  *)

\* A pane that enters the registry, ...
LEMMA EnterType ==
    ASSUME TypeOK, NEW p \in Panes, NEW w \in Panes, Enter(p, w), session' \in {session, "open"}
    PROVE  TypeOK'
  BY DEF TypeOK, Enter, maps, shells, killers

\* ... or is opened, keeps the types.
LEMMA SpawnType ==
    ASSUME TypeOK, NEW p \in Panes, SpawnStep(p)
    PROVE  TypeOK'
<1>1. CASE InsertGrid(p)
  BY <1>1 DEF TypeOK, InsertGrid, registry, shells, killers
<1>2. CASE OpenPaneIo(p)
  BY <1>2 DEF TypeOK, OpenPaneIo, registry, maps, killers
<1>3. CASE OpenFails(p)
  BY <1>3 DEF TypeOK, OpenFails, RemoveSession, Registered, registry, maps, shells
<1>4. CASE InsertPty(p)
  BY <1>4 DEF TypeOK, InsertPty, registry, shells, killers
<1>5. CASE CheckRegistry(p)
  BY <1>5 DEF TypeOK, CheckRegistry, registry, maps, shells, killers
<1>6. CASE PullEntries(p)
  BY <1>6 DEF TypeOK, PullEntries, registry, shells, killers
<1>7. CASE PullPty(p)
  BY <1>7 DEF TypeOK, PullPty, Dropped, registry, killers
<1>. QED
  BY <1>1, <1>2, <1>3, <1>4, <1>5, <1>6, <1>7 DEF SpawnStep

\* A receiver that is given a chunk has not had all of them.
LEMMA FanOutType ==
    ASSUME TypeOK, StreamInv, NEW p \in Panes, FanOut(p)
    PROVE  TypeOK'
<1>1. CASE entry[p] = None
  BY <1>1 DEF TypeOK, FanOut, registry, killers
<1>2. CASE entry[p] # None
  <2>. DEFINE heard == {s \in entry[p].senders : sub[s].at = "open"}
  <2>1. /\ entry' = [entry EXCEPT ![p].senders = heard]
        /\ sub' = [s \in Subs |-> IF s \in heard /\ sub[s].replay
                                  THEN [sub[s] EXCEPT !.seen = @ + 1] ELSE sub[s]]
        /\ reader[p] = "feeds" /\ reader' = [reader EXCEPT ![p] = "reads"]
        /\ UNCHANGED <<registry, ptys, grids, spawner, child, fed, reaped, killers>>
    BY <1>2 DEF FanOut
  <2>2. heard \subseteq EntryOf(p).senders
    BY <1>2 DEF EntryOf
  <2>3. [entry[p] EXCEPT !.senders = heard] \in Entry
    BY <1>2, <2>2, EntryLemma
  <2>4. entry' \in [Panes -> Entry \cup {None}]
    BY <2>1, <2>3 DEF TypeOK
  <2>5. \A s \in heard : sub[s].replay => sub[s].seen + 1 \in 0..MaxChunks
    <3>1. SUFFICES ASSUME NEW s \in heard, sub[s].replay PROVE sub[s].seen + 1 \in 0..MaxChunks
      OBVIOUS
    <3>2. s \in Subs /\ s \in EntryOf(p).senders /\ sub[s].at = "open"
      BY <2>2, EntryLemma
    <3>3. sub[s].pane = p /\ sub[s].seen \in 0..MaxChunks
      BY <3>1, <3>2 DEF StreamInv, SendersAreTheirs
    <3>4. sub[s].seen + 1 = fed[p]
      BY <1>2, <2>1, <3>1, <3>2, <3>3 DEF StreamInv, ReplayMeetsStream
    <3>. QED
      BY <3>3, <3>4, ConstantsAssumption DEF TypeOK
  <2>. HIDE DEF heard
  <2>6. sub' \in [Subs -> SubRecord]
    <3>1. \A s \in Subs : sub[s] \in SubRecord
      BY DEF TypeOK, SubRecord
    <3>2. \A s \in Subs, n \in 0..MaxChunks : [sub[s] EXCEPT !.seen = n] \in SubRecord
      BY <3>1 DEF SubRecord
    <3>3. \A s \in Subs : sub'[s] \in SubRecord
      BY <2>1, <2>5, <3>1, <3>2
    <3>. QED
      BY <2>1, <3>3
  <2>. QED
    BY <2>1, <2>4, <2>6 DEF TypeOK, SubRecord, registry, killers
<1>. QED
  BY <1>1, <1>2

\* Whatever a reader or a shell does keeps the types, ...
LEMMA ReaderType ==
    ASSUME TypeOK, StreamInv, NEW p \in Panes, ReaderStep(p) \/ Feed(p) \/ ShellExits(p)
    PROVE  TypeOK'
<1>1. CASE FanOut(p)
  BY <1>1, FanOutType
<1>2. CASE Eof(p)
  BY <1>2 DEF TypeOK, Eof, registry, maps, killers
<1>3. CASE LetGo(p)
  BY <1>3 DEF TypeOK, LetGo, registry, maps, killers
<1>4. CASE Mark(p)
  BY <1>4 DEF TypeOK, Mark, maps, killers
<1>5. CASE Close(p)
  BY <1>5, EntryLemma DEF TypeOK, Close, registry, killers
<1>6. CASE Reap(p)
  BY <1>6 DEF TypeOK, Reap, RemoveSession, Registered, registry, maps, killers
<1>7. CASE Clear(p)
  BY <1>7 DEF TypeOK, Clear, Detach, Dropped, registry, killers
<1>8. CASE Feed(p)
  BY <1>8, ConstantsAssumption DEF TypeOK, Feed, registry, maps, killers
<1>9. CASE ShellExits(p)
  BY <1>9 DEF TypeOK, ShellExits, registry, maps, killers
<1>. QED
  BY <1>1, <1>2, <1>3, <1>4, <1>5, <1>6, <1>7, <1>8, <1>9 DEF ReaderStep

\* ... and so does a kill, ...
LEMMA KillType ==
    ASSUME TypeOK, TreesInv, NEW k \in Kills,
           ListPane(k) \/ ListWindow(k) \/ ListSession(k) \/ KillStep(k)
    PROVE  TypeOK'
<1>1. ASSUME NEW of \in {"pane", "window", "session"}, NEW id \in Panes \cup {None},
             NEW ps \in SUBSET Panes, List(k, of, id, ps)
      PROVE  TypeOK'
  BY <1>1 DEF TypeOK, List, registry, maps, shells
<1>2. CASE ListPane(k)
  BY <1>1, <1>2 DEF ListPane, TypeOK
<1>3. CASE ListWindow(k)
  BY <1>1, <1>3 DEF ListWindow, TypeOK
<1>4. CASE ListSession(k)
  <2>1. Registered \in SUBSET Panes
    BY DEF Registered
  <2>. QED
    BY <1>1, <1>4, <2>1 DEF ListSession
<1>5. CASE DetachPanes(k)
  <2>1. entry' \in [Panes -> Entry \cup {None}]
    BY <1>5 DEF DetachPanes, Detach, TypeOK
  <2>2. /\ ptys' \subseteq Panes /\ grids' \subseteq Panes /\ missed' \subseteq Panes
        /\ hand' \in [Kills -> SUBSET Panes]
    BY <1>5 DEF DetachPanes, Detach, TypeOK
  <2>3. kill' \in [Kills -> KillRecord]
    BY <1>5, KillLemma DEF DetachPanes
  <2>4. UNCHANGED <<session, state, leaves, spawner, child, reader, fed, reaped, sub>>
    BY <1>5 DEF DetachPanes, registry, shells
  <2>. QED
    BY <2>1, <2>2, <2>3, <2>4 DEF TypeOK, KillRecord
<1>6. CASE Unregister(k)
  <2>1. kill' \in [Kills -> KillRecord]
    <3>1. kill[k] \in KillRecord
      BY DEF TypeOK, KillRecord
    <3>2. [kill[k] EXCEPT !.at = "unlisted", !.of = None, !.id = None] \in KillRecord
      BY <3>1 DEF KillRecord
    <3>. QED
      BY <1>6, <3>2 DEF Unregister, TypeOK, KillRecord
  <2>2. /\ session' \in {"no", "open", "gone"}
        /\ state' \in [Panes -> {"no", "running", "exited"}]
        /\ leaves' \in [Panes -> SUBSET Panes]
        /\ missed' \subseteq Panes
    <3>1. CASE /\ RemoveLeaf(kill[k].panes \cap UNION {leaves[w] : w \in Panes})
               /\ UNCHANGED <<session, missed>>
      BY <3>1 DEF RemoveLeaf, TypeOK
    <3>2. CASE /\ RemoveWindow(kill[k].id, kill[k].panes) /\ UNCHANGED session
               /\ missed' = missed \cup (leaves[kill[k].id] \ kill[k].panes)
               /\ kill[k].of = "window"
      <4>1. kill[k].id \in Panes
        BY <1>6, <3>2 DEF Unregister, At, TreesInv, ListsStayInWindows
      <4>. QED
        BY <3>2, <4>1 DEF RemoveWindow, TypeOK
    <3>3. CASE RemoveSession /\ missed' = missed \cup (Registered \ kill[k].panes)
      BY <3>3 DEF RemoveSession, Registered, TypeOK
    <3>. QED
      BY <1>6, <3>1, <3>2, <3>3 DEF Unregister
  <2>3. UNCHANGED <<ptys, grids, entry, spawner, child, reader, fed, reaped, hand, sub>>
    BY <1>6 DEF Unregister, maps, shells
  <2>4. /\ ptys' \subseteq Panes /\ grids' \subseteq Panes /\ reaped' \subseteq Panes
        /\ entry' \in [Panes -> Entry \cup {None}]
        /\ hand' \in [Kills -> SUBSET Panes]
    BY <2>3 DEF TypeOK
  <2>5. UNCHANGED <<spawner, child, reader, fed, sub>>
    BY <2>3
  <2>. QED
    BY <2>1, <2>2, <2>4, <2>5 DEF TypeOK, KillRecord
<1>7. CASE EndAll(k)
  <2>1. kill' \in [Kills -> KillRecord]
    BY <1>7, KillLemma DEF EndAll
  <2>2. child' \in [Panes -> {"no", "runs", "exited"}] /\ hand' \in [Kills -> SUBSET Panes]
    BY <1>7 DEF EndAll, End, TypeOK
  <2>3. UNCHANGED <<registry, maps, spawner, reader, fed, reaped, missed, sub>>
    BY <1>7 DEF EndAll
  <2>. QED
    BY <2>1, <2>2, <2>3 DEF TypeOK, KillRecord, registry, maps
<1>. QED
  BY <1>2, <1>3, <1>4, <1>5, <1>6, <1>7 DEF KillStep

\* ... and a subscriber.
LEMMA SubType ==
    ASSUME TypeOK, StreamInv, NEW s \in Subs, Ask(s) \/ SubStep(s) \/ Unsubscribe(s)
    PROVE  TypeOK'
<1>1. CASE Ask(s)
  BY <1>1 DEF TypeOK, Ask, registry, maps, shells, killers
<1>2. CASE FindGrid(s)
  BY <1>2 DEF TypeOK, FindGrid, NoSub, registry, maps, shells, killers
<1>3. CASE Register(s)
  <2>. DEFINE p == sub[s].pane
  <2>1. p \in Panes
    BY <1>3 DEF Register, StreamInv, SendersAreTheirs
  <2>2. entry'[p] \in Entry
    BY <1>3, <2>1, EntryLemma DEF Register, Joinable, TypeOK
  <2>3. entry' \in [Panes -> Entry \cup {None}]
    BY <1>3, <2>1, <2>2 DEF Register, TypeOK
  <2>4. sub' \in [Subs -> SubRecord]
    <3>1. sub[s] \in SubRecord /\ fed[p] \in 0..MaxChunks
      BY <2>1 DEF TypeOK, SubRecord
    <3>2. \A n \in (0..MaxChunks) \cup {None} :
             [sub[s] EXCEPT !.at = "open", !.seen = n] \in SubRecord
      BY <3>1 DEF SubRecord
    <3>3. sub' = [sub EXCEPT ![s] = [sub[s] EXCEPT !.at = "open",
                                       !.seen = IF sub[s].replay THEN fed[p] ELSE None]]
      BY <1>3 DEF Register, TypeOK
    <3>. QED
      BY <3>1, <3>2, <3>3 DEF TypeOK, SubRecord
  <2>. QED
    BY <1>3, <2>3, <2>4 DEF Register, TypeOK, SubRecord, registry, shells, killers
<1>4. CASE Unsubscribe(s)
  BY <1>4 DEF TypeOK, Unsubscribe, NoSub, registry, maps, shells, killers
<1>. QED
  BY <1>1, <1>2, <1>3, <1>4 DEF SubStep

\* A step of the system keeps the types.
LEMMA TypeKept == IndInv /\ [Next]_vars => TypeOK'
<1>. SUFFICES ASSUME IndInv, [Next]_vars PROVE TypeOK'
  OBVIOUS
<1>. USE DEF IndInv
<1>1. CASE NewSession
  BY <1>1, EnterType, ConstantsAssumption DEF NewSession
<1>2. CASE NewWindow
  BY <1>2, EnterType, FreeLemma DEF NewWindow, Free
<1>3. ASSUME NEW w \in Panes, SplitPane(w) PROVE TypeOK'
  BY <1>3, EnterType, FreeLemma DEF SplitPane, Free
<1>4. CASE UNCHANGED vars
  BY <1>4 DEF TypeOK, vars, registry, maps, shells, killers
<1>. QED
  BY <1>1, <1>2, <1>3, <1>4, SpawnType, ReaderType, KillType, SubType DEF Next
-----------------------------------------------------------------------------
(* Windows and panes.                                                      *)

\* How a step leaves the kills and the spawners, as far as the trees are concerned.
KillsGoOn ==
    \A k \in Kills :
        /\ kill'[k].panes = kill[k].panes
        /\ (kill'[k].at \in {"listed", "detached"} /\ kill'[k].of = "window") =>
              /\ kill[k].at \in {"listed", "detached"}
              /\ kill[k].of = "window" /\ kill'[k].id = kill[k].id
SpawnersGoOn == \A p \in Panes : spawner'[p] = "no" <=> spawner[p] = "no"

\* A step that marks a pane at most leaves trees and records as they agreed.
LEMMA UntouchedTrees ==
    ASSUME TreesInv, KillsGoOn, SpawnersGoOn, UNCHANGED <<session, leaves>>,
           missed \subseteq missed',
           \A p \in Panes : state'[p] = "no" <=> state[p] = "no"
    PROVE  TreesInv'
<1>1. NewPanesAreNew'
  BY ConstantsAssumption DEF TreesInv, NewPanesAreNew, KillsGoOn, SpawnersGoOn
<1>2. WindowsAreDisjoint' /\ ListsStayInWindows'
  BY DEF TreesInv, WindowsAreDisjoint, ListsStayInWindows, KillsGoOn
<1>3. TreesAgreeWithPanes'
  BY DEF TreesInv, TreesAgreeWithPanes, Registered
<1>. QED
  BY <1>1, <1>2, <1>3 DEF TreesInv

\* A session that is gone has neither.
LEMMA RemovedTrees ==
    ASSUME TreesInv, KillsGoOn, SpawnersGoOn, RemoveSession
    PROVE  TreesInv'
<1>1. NewPanesAreNew'
  BY DEF RemoveSession, TreesInv, NewPanesAreNew, KillsGoOn, SpawnersGoOn
<1>2. WindowsAreDisjoint' /\ ListsStayInWindows'
  BY DEF RemoveSession, TreesInv, WindowsAreDisjoint, ListsStayInWindows, KillsGoOn
<1>3. TreesAgreeWithPanes'
  BY DEF RemoveSession, TreesAgreeWithPanes, Registered
<1>. QED
  BY <1>1, <1>2, <1>3 DEF TreesInv

\* A new pane enters the flat map and one window.  Nobody has listed it.
LEMMA EnteredTrees ==
    ASSUME TypeOK, TreesInv, NEW p \in Panes, NEW w \in Panes, Enter(p, w),
           spawner[p] = "no", session' = "open"
    PROVE  TreesInv'
<1>1. /\ state' = [state EXCEPT ![p] = "running"]
      /\ leaves' = [leaves EXCEPT ![w] = @ \cup {p}]
      /\ spawner' = [spawner EXCEPT ![p] = "grid"]
      /\ UNCHANGED <<kill, missed>>
  BY DEF Enter, killers
<1>2. /\ \A v \in Panes : p \notin leaves[v]
      /\ \A k \in Kills : p \notin kill[k].panes
  BY DEF TreesInv, NewPanesAreNew
<1>3. \A v \in Panes : leaves'[v] = IF v = w THEN leaves[v] \cup {p} ELSE leaves[v]
  BY <1>1 DEF TypeOK
<1>4. NewPanesAreNew'
  BY <1>1, <1>3 DEF TypeOK, TreesInv, NewPanesAreNew
<1>5. WindowsAreDisjoint'
  <2>. SUFFICES ASSUME NEW u \in Panes, NEW v \in Panes, u # v
                PROVE  leaves'[u] \cap leaves'[v] = {}
    BY DEF WindowsAreDisjoint
  <2>1. leaves[u] \cap leaves[v] = {} /\ p \notin leaves[u] /\ p \notin leaves[v]
    BY <1>2 DEF TreesInv, WindowsAreDisjoint
  <2>2. CASE u = w
    BY <1>3, <2>1, <2>2
  <2>3. CASE v = w
    BY <1>3, <2>1, <2>3
  <2>4. CASE u # w /\ v # w
    BY <1>3, <2>1, <2>4
  <2>. QED
    BY <2>2, <2>3, <2>4
<1>6. ListsStayInWindows'
  BY <1>1, <1>2, <1>3 DEF TreesInv, ListsStayInWindows
<1>7. TreesAgreeWithPanes'
  <2>1. Registered' = Registered \cup {p}
    BY <1>1 DEF Registered, TypeOK
  <2>2. UNION {leaves'[v] : v \in Panes} = (UNION {leaves[v] : v \in Panes}) \cup {p}
    <3>1. \A q : (\E v \in Panes : q \in leaves'[v])
                    <=> (\E v \in Panes : q \in leaves[v]) \/ q = p
      BY <1>3
    <3>. QED
      BY <3>1
  <2>. QED
    BY <1>1, <2>1, <2>2 DEF TreesInv, TreesAgreeWithPanes
<1>. QED
  BY <1>4, <1>5, <1>6, <1>7 DEF TreesInv

\* The caller that opens a pane changes neither, unless it takes the session back.
LEMMA SpawnTrees ==
    ASSUME TypeOK, TreesInv, NEW p \in Panes, SpawnStep(p)
    PROVE  TreesInv'
<1>1. UNCHANGED kill
  BY DEF SpawnStep, InsertGrid, OpenPaneIo, OpenFails, InsertPty, CheckRegistry, PullEntries,
     PullPty, killers
<1>2. KillsGoOn
  BY <1>1 DEF KillsGoOn
<1>3. SpawnersGoOn
  BY DEF TypeOK, SpawnersGoOn, SpawnStep, InsertGrid, OpenPaneIo, OpenFails, InsertPty,
     CheckRegistry, PullEntries, PullPty
<1>4. CASE OpenFails(p) /\ p = Seed
  BY <1>2, <1>3, <1>4, RemovedTrees DEF OpenFails
<1>5. CASE ~(OpenFails(p) /\ p = Seed)
  <2>1. UNCHANGED <<session, state, leaves, missed>>
    BY <1>5 DEF SpawnStep, InsertGrid, OpenPaneIo, OpenFails, InsertPty, CheckRegistry,
       PullEntries, PullPty, registry, killers
  <2>. QED
    BY <1>2, <1>3, <2>1, UntouchedTrees
<1>. QED
  BY <1>4, <1>5

\* A reader marks its pane, or reaps the session.
LEMMA ReaderTrees ==
    ASSUME TypeOK, TreesInv, NEW p \in Panes, ReaderStep(p) \/ Feed(p) \/ ShellExits(p)
    PROVE  TreesInv'
<1>1. UNCHANGED <<kill, missed, spawner>>
  BY DEF ReaderStep, FanOut, Eof, LetGo, Mark, Close, Reap, Clear, Feed, ShellExits, killers
<1>2. KillsGoOn /\ SpawnersGoOn
  BY <1>1 DEF KillsGoOn, SpawnersGoOn
<1>3. CASE Reap(p) /\ Witness
  BY <1>2, <1>3, RemovedTrees DEF Reap
<1>4. CASE ~(Reap(p) /\ Witness)
  <2>1. UNCHANGED <<session, leaves>>
    BY <1>4 DEF ReaderStep, FanOut, Eof, LetGo, Mark, Close, Reap, Clear, Feed, ShellExits,
       registry
  <2>2. UNCHANGED state \/ (state' = [state EXCEPT ![p] = "exited"] /\ state[p] # "no")
    BY <1>4 DEF ReaderStep, FanOut, Eof, LetGo, Mark, Close, Reap, Clear, Feed, ShellExits,
       registry, InRegistry, Registered
  <2>3. \A q \in Panes : state'[q] = "no" <=> state[q] = "no"
    BY <2>2 DEF TypeOK
  <2>. QED
    BY <1>1, <1>2, <2>1, <2>3, UntouchedTrees
<1>. QED
  BY <1>3, <1>4

\* Panes are listed where they are: in one window.
LEMMA ListTrees ==
    ASSUME TypeOK, TreesInv, NEW k \in Kills, ListPane(k) \/ ListWindow(k) \/ ListSession(k)
    PROVE  TreesInv'
<1>1. PICK of \in {"pane", "window", "session"}, id \in Panes \cup {None}, ps \in SUBSET Panes :
         /\ List(k, of, id, ps)
         /\ ps \subseteq Registered \/ ps \subseteq UNION {leaves[w] : w \in Panes}
         /\ of = "window" => id \in Panes /\ ps = leaves[id]
  <2>1. CASE ListPane(k)
    <3>1. PICK q \in UNION {leaves[w] : w \in Panes} : List(k, "pane", q, {q})
      BY <2>1 DEF ListPane
    <3>2. q \in Panes
      BY <3>1 DEF TypeOK
    <3>. QED
      BY <3>1, <3>2
  <2>2. CASE ListWindow(k)
    <3>1. PICK w \in Panes : List(k, "window", w, leaves[w])
      BY <2>2 DEF ListWindow
    <3>2. leaves[w] \in SUBSET Panes
      BY <3>1 DEF TypeOK
    <3>. QED
      BY <3>1, <3>2
  <2>3. CASE ListSession(k)
    BY <2>3 DEF ListSession, Registered
  <2>. QED
    BY <2>1, <2>2, <2>3
<1>2. /\ kill' = [kill EXCEPT ![k] = [at |-> "listed", of |-> of, id |-> id, panes |-> ps]]
      /\ UNCHANGED <<session, state, leaves, spawner, missed>>
  BY <1>1 DEF List, registry
<1>3. \A q \in ps : spawner[q] # "no"
  BY <1>1 DEF TreesInv, NewPanesAreNew, Registered
<1>4. \A j \in Kills : kill'[j] =
         IF j = k THEN [at |-> "listed", of |-> of, id |-> id, panes |-> ps] ELSE kill[j]
  BY <1>2 DEF TypeOK
<1>5. NewPanesAreNew'
  BY <1>2, <1>3, <1>4 DEF TreesInv, NewPanesAreNew
<1>6. WindowsAreDisjoint'
  BY <1>2 DEF TreesInv, WindowsAreDisjoint
<1>7. ListsStayInWindows'
  BY <1>1, <1>2, <1>4 DEF TreesInv, WindowsAreDisjoint, ListsStayInWindows
<1>8. TreesAgreeWithPanes'
  BY <1>2 DEF TreesInv, TreesAgreeWithPanes, Registered
<1>. QED
  BY <1>5, <1>6, <1>7, <1>8 DEF TreesInv

\* A window goes with the leaves it has by now; those that were not listed are missed.
LEMMA UnregisterTrees ==
    ASSUME TypeOK, TreesInv, NEW k \in Kills, Unregister(k)
    PROVE  TreesInv'
<1>. DEFINE ps == kill[k].panes
            w  == kill[k].id
<1>1. UNCHANGED spawner /\ SpawnersGoOn
  BY DEF Unregister, SpawnersGoOn
<1>2. KillsGoOn
  BY DEF Unregister, KillsGoOn, TypeOK
<1>3. CASE kill[k].of = "session" /\ RemoveSession
  BY <1>1, <1>2, <1>3, RemovedTrees
<1>4. CASE RemoveLeaf(ps \cap UNION {leaves[v] : v \in Panes}) /\ UNCHANGED <<session, missed>>
  <2>. DEFINE gone == ps \cap UNION {leaves[v] : v \in Panes}
  <2>1. /\ state' = [p \in Panes |-> IF p \in gone THEN "no" ELSE state[p]]
        /\ leaves' = [v \in Panes |-> leaves[v] \ gone]
    BY <1>4 DEF RemoveLeaf
  <2>. HIDE DEF gone
  <2>2. NewPanesAreNew'
    BY <1>1, <1>2, <1>4, <2>1 DEF TreesInv, NewPanesAreNew, KillsGoOn
  <2>3. WindowsAreDisjoint'
    BY <2>1 DEF TreesInv, WindowsAreDisjoint
  <2>4. ListsStayInWindows'
    BY <1>2, <2>1 DEF TreesInv, ListsStayInWindows, KillsGoOn
  <2>5. Registered' = Registered \ gone
    BY <2>1 DEF Registered
  <2>6. UNION {leaves'[v] : v \in Panes} = (UNION {leaves[v] : v \in Panes}) \ gone
    BY <2>1
  <2>7. TreesAgreeWithPanes'
    BY <1>4, <2>5, <2>6 DEF TreesInv, TreesAgreeWithPanes
  <2>. QED
    BY <2>2, <2>3, <2>4, <2>7 DEF TreesInv
<1>5. CASE /\ kill[k].of = "window" /\ RemoveWindow(w, ps)
           /\ missed' = missed \cup (leaves[w] \ ps) /\ UNCHANGED session
  <2>1. w \in Panes /\ \A v \in Panes \ {w} : ps \cap leaves[v] = {}
    BY <1>5 DEF Unregister, At, TreesInv, ListsStayInWindows
  <2>2. CASE leaves[w] = {}
    BY <1>1, <1>2, <1>5, <2>2, UntouchedTrees DEF RemoveWindow
  <2>3. CASE leaves[w] # {}
    <3>1. /\ state' = [p \in Panes |-> IF p \in ps THEN "no" ELSE state[p]]
          /\ leaves' = [leaves EXCEPT ![w] = {}]
      BY <1>5, <2>3 DEF RemoveWindow
    <3>2. \A v \in Panes : leaves'[v] = IF v = w THEN {} ELSE leaves[v]
      BY <3>1 DEF TypeOK
    <3>. HIDE DEF ps, w
    <3>3. NewPanesAreNew'
      BY <1>1, <1>2, <1>5, <3>1, <3>2 DEF TreesInv, NewPanesAreNew, KillsGoOn
    <3>4. WindowsAreDisjoint' /\ ListsStayInWindows'
      BY <1>2, <3>2 DEF TreesInv, WindowsAreDisjoint, ListsStayInWindows, KillsGoOn
    <3>5. Registered' = Registered \ ps
      BY <3>1 DEF Registered
    <3>6. UNION {leaves'[v] : v \in Panes} = UNION {leaves[v] : v \in Panes \ {w}}
      BY <3>2
    <3>7. UNION {leaves[v] : v \in Panes} = leaves[w] \cup UNION {leaves[v] : v \in Panes \ {w}}
      BY <2>1
    <3>8. ps \cap UNION {leaves[v] : v \in Panes \ {w}} = {}
      BY <2>1
    <3>9. leaves[w] \cap UNION {leaves[v] : v \in Panes \ {w}} = {}
      BY <2>1 DEF TreesInv, WindowsAreDisjoint
    <3>10. TreesAgreeWithPanes'
      BY <1>5, <3>5, <3>6, <3>7, <3>8, <3>9 DEF TreesInv, TreesAgreeWithPanes
    <3>. QED
      BY <3>3, <3>4, <3>10 DEF TreesInv
  <2>. QED
    BY <2>2, <2>3
<1>. QED
  BY <1>3, <1>4, <1>5 DEF Unregister

\* Of what a kill does only the middle part, the registry's, matters here.
LEMMA KillTrees ==
    ASSUME TypeOK, TreesInv, NEW k \in Kills, KillStep(k)
    PROVE  TreesInv'
<1>1. CASE Unregister(k)
  BY <1>1, UnregisterTrees
<1>2. CASE DetachPanes(k) \/ EndAll(k)
  <2>1. UNCHANGED <<session, state, leaves, spawner>> /\ missed \subseteq missed'
    BY <1>2 DEF DetachPanes, EndAll, registry
  <2>2. \/ At(k, "listed") /\ kill' = [kill EXCEPT ![k].at = "detached"]
        \/ kill' = [kill EXCEPT ![k].at = "done"]
    BY <1>2 DEF DetachPanes, EndAll
  <2>3. KillsGoOn
    <3>1. ASSUME NEW j \in Kills, j # k PROVE kill'[j] = kill[j]
      BY <2>2, <3>1 DEF TypeOK
    <3>2. /\ kill'[k].of = kill[k].of /\ kill'[k].id = kill[k].id /\ kill'[k].panes = kill[k].panes
          /\ kill'[k].at \in {"detached", "done"} /\ (kill'[k].at = "detached" => kill[k].at = "listed")
      BY <2>2 DEF At, TypeOK
    <3>. QED
      BY <3>1, <3>2 DEF KillsGoOn
  <2>4. SpawnersGoOn
    BY <2>1 DEF SpawnersGoOn
  <2>. QED
    BY <2>1, <2>3, <2>4, UntouchedTrees
<1>. QED
  BY <1>1, <1>2 DEF KillStep

\* A step of the system keeps the trees and the flat map together.
LEMMA TreesKept == IndInv /\ [Next]_vars => TreesInv'
<1>. SUFFICES ASSUME IndInv, [Next]_vars PROVE TreesInv'
  OBVIOUS
<1>. USE DEF IndInv
<1>1. CASE NewSession
  <2>1. spawner[Seed] = "no"
    BY <1>1 DEF NewSession, TreesInv, NewPanesAreNew
  <2>. QED
    BY <1>1, <2>1, EnteredTrees, ConstantsAssumption DEF NewSession
<1>2. CASE NewWindow
  BY <1>2, EnteredTrees, FreeLemma DEF NewWindow, Free
<1>3. ASSUME NEW w \in Panes, SplitPane(w) PROVE TreesInv'
  BY <1>3, EnteredTrees, FreeLemma DEF SplitPane, Free
<1>4. ASSUME NEW s \in Subs, Ask(s) \/ SubStep(s) \/ Unsubscribe(s) PROVE TreesInv'
  <2>1. UNCHANGED <<session, state, leaves, spawner, kill, missed>>
    BY <1>4 DEF SubStep, Ask, FindGrid, Register, Unsubscribe, registry, killers
  <2>. QED
    BY <2>1, UntouchedTrees DEF KillsGoOn, SpawnersGoOn
<1>5. CASE UNCHANGED vars
  <2>1. UNCHANGED <<session, state, leaves, spawner, kill, missed>>
    BY <1>5 DEF vars, registry, killers
  <2>. QED
    BY <2>1, UntouchedTrees DEF KillsGoOn, SpawnersGoOn
<1>. QED
  BY <1>1, <1>2, <1>3, <1>4, <1>5, SpawnTrees, ReaderTrees, ListTrees, KillTrees DEF Next
-----------------------------------------------------------------------------
(* Subscribers and the stream.                                             *)

\* Nothing but the output of panes, and who receives it, matters to a replay.
LEMMA UntouchedStream ==
    ASSUME StreamInv, NotYetReading', UNCHANGED <<sub, fed>>,
           \A p \in Panes : EntryOf(p)'.senders \subseteq EntryOf(p).senders,
           \A p \in Panes : reader'[p] = "feeds" <=> reader[p] = "feeds"
    PROVE  StreamInv'
<1>1. SendersAreTheirs'
  BY DEF StreamInv, SendersAreTheirs
<1>2. ReplayMeetsStream'
  <2>. SUFFICES ASSUME NEW s \in Subs, sub[s].at = "open", sub[s].replay,
                       entry'[sub[s].pane] # None, s \in EntryOf(sub[s].pane)'.senders
                PROVE  sub[s].seen + (IF reader'[sub[s].pane] = "feeds" THEN 1 ELSE 0)
                          = fed[sub[s].pane]
    BY DEF ReplayMeetsStream
  <2>1. sub[s].pane \in Panes
    BY DEF StreamInv, SendersAreTheirs
  <2>2. s \in EntryOf(sub[s].pane).senders
    BY <2>1
  <2>3. entry[sub[s].pane] # None
    BY <2>2 DEF EntryOf, NewEntry
  <2>. QED
    BY <2>1, <2>2, <2>3 DEF StreamInv, ReplayMeetsStream
<1>. QED
  BY <1>1, <1>2 DEF StreamInv

\* Entries are emptied or removed, or stay.
LEMMA FewerSenders ==
    ASSUME TypeOK, \A p \in Panes : entry'[p] = entry[p] \/ entry'[p] = None \/ entry'[p] = Closed(p)
    PROVE  \A p \in Panes : EntryOf(p)'.senders \subseteq EntryOf(p).senders
<1>. SUFFICES ASSUME NEW p \in Panes PROVE EntryOf(p)'.senders \subseteq EntryOf(p).senders
  OBVIOUS
<1>1. CASE entry'[p] = entry[p]
  BY <1>1 DEF EntryOf
<1>2. CASE entry'[p] = None
  BY <1>2 DEF EntryOf, NewEntry
<1>3. CASE entry'[p] = Closed(p)
  BY <1>3 DEF EntryOf, Closed, NewEntry
<1>. QED
  BY <1>1, <1>2, <1>3

\* A new pane has no output.
LEMMA EnteredStream ==
    ASSUME TypeOK, StreamInv, NEW p \in Panes, NEW w \in Panes, Enter(p, w), spawner[p] = "no"
    PROVE  StreamInv'
<1>1. spawner' = [spawner EXCEPT ![p] = "grid"] /\ UNCHANGED <<sub, fed, reader, entry>>
  BY DEF Enter, maps, shells
<1>2. NotYetReading'
  BY <1>1 DEF TypeOK, StreamInv, NotYetReading
<1>. QED
  BY <1>1, <1>2, UntouchedStream, FewerSenders

\* The reader that the opening starts is not the pane's second.
LEMMA SpawnStream ==
    ASSUME TypeOK, StreamInv, NEW p \in Panes, SpawnStep(p)
    PROVE  StreamInv'
<1>1. UNCHANGED <<sub, fed>>
  BY DEF SpawnStep, InsertGrid, OpenPaneIo, OpenFails, InsertPty, CheckRegistry, PullEntries,
     PullPty, maps, shells
<1>2. UNCHANGED entry \/ entry' = [entry EXCEPT ![p] = None]
  BY DEF SpawnStep, InsertGrid, OpenPaneIo, OpenFails, InsertPty, CheckRegistry, PullEntries,
     PullPty, maps
<1>3. \/ UNCHANGED reader
      \/ /\ spawner[p] = "open" /\ spawner' = [spawner EXCEPT ![p] = "insert"]
         /\ reader' = [reader EXCEPT ![p] = "reads"]
  BY DEF SpawnStep, InsertGrid, OpenPaneIo, OpenFails, InsertPty, CheckRegistry, PullEntries,
     PullPty, shells
<1>4. \A q \in Panes : spawner'[q] \in {"no", "grid", "open"} =>
                           spawner[q] \in {"no", "grid", "open"}
  BY DEF TypeOK, SpawnStep, InsertGrid, OpenPaneIo, OpenFails, InsertPty, CheckRegistry,
     PullEntries, PullPty
<1>5. NotYetReading'
  BY <1>3, <1>4 DEF TypeOK, StreamInv, NotYetReading
<1>6. \A q \in Panes : reader'[q] = "feeds" <=> reader[q] = "feeds"
  BY <1>3 DEF TypeOK, StreamInv, NotYetReading
<1>7. \A q \in Panes : entry'[q] = entry[q] \/ entry'[q] = None
  BY <1>2 DEF TypeOK
<1>. QED
  BY <1>1, <1>5, <1>6, <1>7, UntouchedStream, FewerSenders

\* The reader has counted a chunk that its receivers do not have yet.
LEMMA FeedStream ==
    ASSUME TypeOK, StreamInv, NEW p \in Panes, Feed(p)
    PROVE  StreamInv'
<1>1. /\ reader[p] = "reads" /\ reader' = [reader EXCEPT ![p] = "feeds"]
      /\ fed' = [fed EXCEPT ![p] = @ + 1]
      /\ UNCHANGED <<sub, entry, spawner>>
  BY DEF Feed, maps
<1>2. NotYetReading'
  BY <1>1 DEF TypeOK, StreamInv, NotYetReading
<1>3. SendersAreTheirs'
  BY <1>1 DEF StreamInv, SendersAreTheirs, EntryOf
<1>4. ReplayMeetsStream'
  <2>. SUFFICES ASSUME NEW s \in Subs, sub[s].at = "open", sub[s].replay,
                       entry[sub[s].pane] # None, s \in EntryOf(sub[s].pane).senders
                PROVE  sub[s].seen + (IF reader'[sub[s].pane] = "feeds" THEN 1 ELSE 0)
                          = fed'[sub[s].pane]
    BY <1>1 DEF ReplayMeetsStream, EntryOf
  <2>1. sub[s].pane \in Panes /\ sub[s].seen \in 0..MaxChunks
    BY DEF StreamInv, SendersAreTheirs
  <2>2. sub[s].seen + (IF reader[sub[s].pane] = "feeds" THEN 1 ELSE 0) = fed[sub[s].pane]
    BY DEF StreamInv, ReplayMeetsStream
  <2>3. CASE sub[s].pane = p
    BY <1>1, <2>1, <2>2, <2>3, ConstantsAssumption DEF TypeOK
  <2>4. CASE sub[s].pane # p
    BY <1>1, <2>1, <2>2, <2>4 DEF TypeOK
  <2>. QED
    BY <2>3, <2>4
<1>. QED
  BY <1>2, <1>3, <1>4 DEF StreamInv

\* Now the open ones among them have it, and no other receiver has.
LEMMA FanOutStream ==
    ASSUME TypeOK, StreamInv, NEW p \in Panes, FanOut(p)
    PROVE  StreamInv'
<1>1. /\ reader[p] = "feeds" /\ reader' = [reader EXCEPT ![p] = "reads"]
      /\ UNCHANGED <<fed, spawner>>
  BY DEF FanOut
<1>2. NotYetReading'
  BY <1>1 DEF TypeOK, StreamInv, NotYetReading
<1>3. PICK heard \in SUBSET EntryOf(p).senders :
         /\ \A s \in heard : sub[s].at = "open"
         /\ EntryOf(p)'.senders \subseteq heard
         /\ \A q \in Panes \ {p} : EntryOf(q)' = EntryOf(q)
         /\ \A s \in Subs : sub'[s] = IF s \in heard /\ sub[s].replay
                                     THEN [sub[s] EXCEPT !.seen = @ + 1] ELSE sub[s]
  <2>1. CASE entry[p] = None
    <3>1. UNCHANGED <<entry, sub>>
      BY <2>1 DEF FanOut
    <3>2. EntryOf(p)'.senders = {}
      BY <2>1, <3>1 DEF EntryOf, NewEntry
    <3>. QED
      BY <3>1, <3>2 DEF EntryOf
  <2>2. CASE entry[p] # None
    <3>. DEFINE open == {s \in entry[p].senders : sub[s].at = "open"}
    <3>1. /\ entry' = [entry EXCEPT ![p].senders = open]
          /\ sub' = [s \in Subs |-> IF s \in open /\ sub[s].replay
                                    THEN [sub[s] EXCEPT !.seen = @ + 1] ELSE sub[s]]
      BY <2>2 DEF FanOut
    <3>2. EntryOf(p) = entry[p] /\ entry[p] \in Entry
      BY <2>2 DEF EntryOf, TypeOK
    <3>3. entry'[p].senders = open
      BY <3>1, <3>2 DEF TypeOK, Entry
    <3>4. \A q \in Panes \ {p} : entry'[q] = entry[q]
      BY <3>1 DEF TypeOK
    <3>5. EntryOf(p)'.senders \subseteq open
      BY <3>3 DEF EntryOf, NewEntry
    <3>6. open \subseteq EntryOf(p).senders /\ \A s \in open : sub[s].at = "open"
      BY <3>2
    <3>. HIDE DEF open
    <3>7. \A q \in Panes \ {p} : EntryOf(q)' = EntryOf(q)
      BY <3>4 DEF EntryOf
    <3>8. \A s \in Subs : sub'[s] = IF s \in open /\ sub[s].replay
                                   THEN [sub[s] EXCEPT !.seen = @ + 1] ELSE sub[s]
      BY <3>1
    <3>. QED
      BY <3>5, <3>6, <3>7, <3>8
  <2>. QED
    BY <2>1, <2>2
<1>4. \A q \in Panes : EntryOf(q)'.senders \subseteq EntryOf(q).senders
  BY <1>3
<1>5. \A s \in Subs : /\ sub'[s].at = sub[s].at /\ sub'[s].pane = sub[s].pane
                      /\ sub'[s].replay = sub[s].replay
                      /\ (s \in heard /\ sub[s].replay) => sub'[s].seen = sub[s].seen + 1
                      /\ ~(s \in heard /\ sub[s].replay) => sub'[s] = sub[s]
  <2>. SUFFICES ASSUME NEW s \in Subs
                PROVE  /\ sub'[s].at = sub[s].at /\ sub'[s].pane = sub[s].pane
                       /\ sub'[s].replay = sub[s].replay
                       /\ (s \in heard /\ sub[s].replay) => sub'[s].seen = sub[s].seen + 1
                       /\ ~(s \in heard /\ sub[s].replay) => sub'[s] = sub[s]
    OBVIOUS
  <2>1. sub[s] \in SubRecord
    BY DEF TypeOK, SubRecord
  <2>. QED
    BY <1>3, <2>1 DEF SubRecord
<1>6. \A s \in heard : sub[s].replay =>
         sub[s].pane = p /\ sub[s].seen \in 0..MaxChunks /\ sub[s].seen + 1 = fed[p]
  <2>. SUFFICES ASSUME NEW s \in heard, sub[s].replay
                PROVE  sub[s].pane = p /\ sub[s].seen \in 0..MaxChunks /\ sub[s].seen + 1 = fed[p]
    OBVIOUS
  <2>1. s \in Subs /\ s \in EntryOf(p).senders /\ sub[s].at = "open"
    BY <1>3, EntryLemma
  <2>2. sub[s].pane = p /\ sub[s].seen \in 0..MaxChunks
    BY <2>1 DEF StreamInv, SendersAreTheirs
  <2>3. entry[p] # None
    BY <2>1 DEF EntryOf, NewEntry
  <2>. QED
    BY <1>1, <2>1, <2>2, <2>3 DEF StreamInv, ReplayMeetsStream
<1>7. fed[p] \in 0..MaxChunks
  BY DEF TypeOK
<1>8. SendersAreTheirs'
  <2>1. \A s \in Subs : (sub'[s].at = "open" /\ sub'[s].replay) => sub'[s].seen \in 0..MaxChunks
    BY <1>5, <1>6, <1>7 DEF StreamInv, SendersAreTheirs
  <2>. QED
    BY <1>4, <1>5, <2>1 DEF StreamInv, SendersAreTheirs
<1>9. ReplayMeetsStream'
  <2>. SUFFICES ASSUME NEW s \in Subs, sub[s].at = "open", sub[s].replay,
                       entry'[sub[s].pane] # None, s \in EntryOf(sub[s].pane)'.senders
                PROVE  sub'[s].seen + (IF reader'[sub[s].pane] = "feeds" THEN 1 ELSE 0)
                          = fed[sub[s].pane]
    BY <1>1, <1>5 DEF ReplayMeetsStream
  <2>1. sub[s].pane \in Panes /\ sub[s].seen \in 0..MaxChunks
    BY DEF StreamInv, SendersAreTheirs
  <2>2. CASE sub[s].pane = p
    <3>1. s \in heard /\ reader'[p] # "feeds"
      BY <1>1, <1>3, <2>2 DEF TypeOK
    <3>. QED
      BY <1>5, <1>6, <1>7, <2>1, <2>2, <3>1
  <2>3. CASE sub[s].pane # p
    <3>1. s \notin heard /\ sub'[s] = sub[s]
      BY <1>5, <1>6, <2>3
    <3>2. s \in EntryOf(sub[s].pane).senders
      BY <1>4, <1>5, <2>1
    <3>3. entry[sub[s].pane] # None
      BY <3>2 DEF EntryOf, NewEntry
    <3>4. reader'[sub[s].pane] = reader[sub[s].pane]
      BY <1>1, <2>1, <2>3 DEF TypeOK
    <3>. QED
      BY <3>1, <3>2, <3>3, <3>4 DEF StreamInv, ReplayMeetsStream
  <2>. QED
    BY <2>2, <2>3
<1>. QED
  BY <1>2, <1>8, <1>9 DEF StreamInv

\* All that a reader does besides is after its last chunk, or before the next one.
LEMMA ReaderStream ==
    ASSUME TypeOK, StreamInv, NEW p \in Panes, ReaderStep(p) \/ ShellExits(p), ~FanOut(p)
    PROVE  StreamInv'
<1>1. UNCHANGED <<sub, fed, spawner>>
  BY DEF ReaderStep, Eof, LetGo, Mark, Close, Reap, Clear, ShellExits, maps
<1>2. \/ UNCHANGED reader
      \/ \E at : /\ at # "feeds" /\ reader[p] \notin {"no", "feeds"}
                 /\ reader' = [reader EXCEPT ![p] = at]
  <2>. DEFINE Moves(at) == /\ at # "feeds" /\ reader[p] \notin {"no", "feeds"}
                           /\ reader' = [reader EXCEPT ![p] = at]
  <2>1. CASE Eof(p)
    BY <2>1 DEF Eof
  <2>2. CASE LetGo(p)
    BY <2>2 DEF LetGo
  <2>3. CASE Mark(p)
    BY <2>3 DEF Mark
  <2>4. CASE Close(p)
    BY <2>4 DEF Close
  <2>5. CASE Reap(p)
    BY <2>5 DEF Reap
  <2>6. CASE Clear(p)
    BY <2>6 DEF Clear
  <2>7. CASE ShellExits(p)
    BY <2>7 DEF ShellExits
  <2>. QED
    BY <2>1, <2>2, <2>3, <2>4, <2>5, <2>6, <2>7 DEF ReaderStep
<1>3. \A q \in Panes : entry'[q] = entry[q] \/ entry'[q] = None \/ entry'[q] = Closed(q)
  <2>1. CASE Close(p)
    BY <2>1 DEF Close, TypeOK, Closed
  <2>2. CASE Clear(p)
    BY <2>2 DEF Clear, Detach
  <2>3. CASE ~Close(p) /\ ~Clear(p)
    BY <2>3 DEF ReaderStep, Eof, LetGo, Mark, Reap, ShellExits, maps
  <2>. QED
    BY <2>1, <2>2, <2>3
<1>4. NotYetReading'
  BY <1>1, <1>2 DEF TypeOK, StreamInv, NotYetReading
<1>5. \A q \in Panes : reader'[q] = "feeds" <=> reader[q] = "feeds"
  BY <1>2 DEF TypeOK
<1>. QED
  BY <1>1, <1>3, <1>4, <1>5, UntouchedStream, FewerSenders

\* A call that asks, or that is refused, or a receiver that is dropped, has no open stream.
LEMMA CallerStream ==
    ASSUME TypeOK, StreamInv, NEW s \in Subs, NEW r,
           sub' = [sub EXCEPT ![s] = r], UNCHANGED <<entry, reader, fed, spawner>>,
           \/ /\ sub[s].at \in {"idle", "looks"} /\ r.at \in {"looks", "asked", "over"}
              /\ r.at # "over" => r.pane \in Panes
           \/ sub[s].at = "open" /\ r.at = "over"
    PROVE  StreamInv'
<1>1. NotYetReading'
  BY DEF StreamInv, NotYetReading
<1>2. \A p \in Panes : EntryOf(p)' = EntryOf(p)
  BY DEF EntryOf
<1>3. \A t \in Subs : sub'[t] = IF t = s THEN r ELSE sub[t]
  BY DEF TypeOK
<1>4. SendersAreTheirs'
  BY <1>2, <1>3 DEF StreamInv, SendersAreTheirs
<1>5. ReplayMeetsStream'
  <2>. SUFFICES ASSUME NEW t \in Subs, sub'[t].at = "open", sub'[t].replay,
                       entry[sub'[t].pane] # None, s # t,
                       t \in (IF entry[sub'[t].pane] = None THEN NewEntry
                             ELSE entry[sub'[t].pane]).senders
                PROVE  sub'[t].seen + (IF reader[sub'[t].pane] = "feeds" THEN 1 ELSE 0)
                          = fed[sub'[t].pane]
    BY <1>3 DEF ReplayMeetsStream, EntryOf
  <2>1. sub'[t] = sub[t]
    BY <1>3
  <2>. QED
    BY <2>1 DEF StreamInv, ReplayMeetsStream, EntryOf
<1>. QED
  BY <1>1, <1>4, <1>5 DEF StreamInv

\* The snapshot has what the grid had, and the subscriber is there for the next chunk.
LEMMA RegisterStream ==
    ASSUME TypeOK, StreamInv, NEW s \in Subs, NEW p \in Panes, sub[s].pane = p, Register(s)
    PROVE  StreamInv'
<1>1. fed[p] \in 0..MaxChunks
  BY DEF TypeOK
<1>2. /\ sub[s].at = "asked" /\ (sub[s].replay => reader[p] # "feeds")
      /\ UNCHANGED <<fed, reader, spawner>>
  BY DEF Register, GridUnlocked, shells
<1>3. NotYetReading'
  BY <1>2 DEF StreamInv, NotYetReading
<1>4. /\ sub'[s].at = "open" /\ sub'[s].pane = p /\ sub'[s].replay = sub[s].replay
      /\ sub[s].replay => sub'[s].seen = fed[p]
      /\ \A t \in Subs \ {s} : sub'[t] = sub[t]
  <2>1. sub[s] \in SubRecord
    BY DEF TypeOK, SubRecord
  <2>2. sub' = [sub EXCEPT ![s] = [sub[s] EXCEPT !.at = "open",
                                     !.seen = IF sub[s].replay THEN fed[p] ELSE None]]
    BY DEF Register, TypeOK
  <2>. QED
    BY <2>1, <2>2 DEF SubRecord, TypeOK
<1>5. /\ \A q \in Panes \ {p} : EntryOf(q)' = EntryOf(q)
      /\ EntryOf(p)'.senders \subseteq EntryOf(p).senders \cup {s}
  <2>1. PICK e \in Entry : e = EntryOf(p)
    BY EntryLemma
  <2>2. entry' = [entry EXCEPT ![p] =
                    IF Joinable(p) THEN [EntryOf(p) EXCEPT !.senders = @ \cup {s}] ELSE EntryOf(p)]
    BY DEF Register
  <2>3. entry'[p] = IF Joinable(p) THEN [e EXCEPT !.senders = @ \cup {s}] ELSE e
    BY <2>1, <2>2 DEF TypeOK
  <2>4. \A q \in Panes \ {p} : entry'[q] = entry[q]
    BY <2>2 DEF TypeOK
  <2>5. entry'[p].senders \subseteq e.senders \cup {s}
    <3>1. CASE e \in [closed : {FALSE}, senders : SUBSET Subs]
      BY <2>3, <3>1
    <3>2. CASE e \in [closed : {TRUE}, senders : {{}}]
      BY <2>3, <3>2
    <3>. QED
      BY <3>1, <3>2 DEF Entry
  <2>6. EntryOf(p)'.senders \subseteq e.senders \cup {s}
    BY <2>5 DEF EntryOf, NewEntry
  <2>7. \A q \in Panes \ {p} : EntryOf(q)' = EntryOf(q)
    BY <2>4 DEF EntryOf
  <2>. QED
    BY <2>1, <2>6, <2>7
<1>6. SendersAreTheirs'
  <2>1. \A t \in Subs : sub'[t].at \in {"looks", "asked", "open"} => sub'[t].pane \in Panes
    BY <1>4 DEF StreamInv, SendersAreTheirs
  <2>2. \A t \in Subs : (sub'[t].at = "open" /\ sub'[t].replay) => sub'[t].seen \in 0..MaxChunks
    BY <1>1, <1>4 DEF StreamInv, SendersAreTheirs
  <2>3. \A t \in Subs, q \in Panes : t \in EntryOf(q)'.senders =>
           t \in EntryOf(q).senders \/ (t = s /\ q = p)
    BY <1>5
  <2>4. \A t \in Subs, q \in Panes : t \in EntryOf(q)'.senders =>
           sub'[t].at \in {"open", "over"} /\ (sub'[t].at = "open" => sub'[t].pane = q)
    BY <1>2, <1>4, <2>3 DEF StreamInv, SendersAreTheirs
  <2>. QED
    BY <2>1, <2>2, <2>4 DEF SendersAreTheirs
<1>7. ReplayMeetsStream'
  <2>. SUFFICES ASSUME NEW t \in Subs, NEW q, q = sub'[t].pane,
                       sub'[t].at = "open", sub'[t].replay, t \in EntryOf(q)'.senders
                PROVE  sub'[t].seen + (IF reader[q] = "feeds" THEN 1 ELSE 0) = fed[q]
    BY <1>2 DEF ReplayMeetsStream, EntryOf
  <2>1. CASE t = s
    BY <1>1, <1>2, <1>4, <2>1
  <2>2. CASE t # s
    <3>1. sub'[t] = sub[t]
      BY <1>4, <2>2
    <3>2. q \in Panes
      BY <3>1 DEF StreamInv, SendersAreTheirs
    <3>3. t \in EntryOf(q).senders
      BY <1>5, <2>2, <3>2
    <3>4. entry[q] # None
      BY <3>3 DEF EntryOf, NewEntry
    <3>. QED
      BY <3>1, <3>3, <3>4 DEF StreamInv, ReplayMeetsStream
  <2>. QED
    BY <2>1, <2>2
<1>. QED
  BY <1>3, <1>6, <1>7 DEF StreamInv

\* A subscriber joins when the grid is free.
LEMMA SubStream ==
    ASSUME TypeOK, StreamInv, NEW s \in Subs, Ask(s) \/ SubStep(s) \/ Unsubscribe(s)
    PROVE  StreamInv'
<1>1. CASE Ask(s)
  <2>1. PICK p \in ptys, replay \in BOOLEAN :
           sub' = [sub EXCEPT ![s] = [at |-> IF replay THEN "looks" ELSE "asked",
                                      pane |-> p, replay |-> replay, seen |-> None]]
    BY <1>1 DEF Ask
  <2>2. p \in Panes /\ sub[s].at = "idle" /\ UNCHANGED <<entry, reader, fed, spawner>>
    BY <1>1 DEF Ask, TypeOK, maps, shells
  <2>. QED
    BY <2>1, <2>2, CallerStream
<1>2. CASE FindGrid(s)
  <2>1. /\ sub[s].at = "looks" /\ sub[s].pane \in Panes
        /\ UNCHANGED <<entry, reader, fed, spawner>>
    BY <1>2 DEF FindGrid, maps, shells, StreamInv, SendersAreTheirs
  <2>2. CASE sub[s].pane \in grids
    <3>1. sub' = [sub EXCEPT ![s] = [sub[s] EXCEPT !.at = "asked"]]
      BY <1>2, <2>2 DEF FindGrid, TypeOK
    <3>2. sub[s] \in SubRecord
      BY DEF TypeOK, SubRecord
    <3>3. /\ [sub[s] EXCEPT !.at = "asked"].at = "asked"
          /\ [sub[s] EXCEPT !.at = "asked"].pane = sub[s].pane
      BY <3>2 DEF SubRecord
    <3>. QED
      BY <2>1, <3>1, <3>3, CallerStream
  <2>3. CASE sub[s].pane \notin grids
    BY <1>2, <2>1, <2>3, CallerStream DEF FindGrid, NoSub, TypeOK
  <2>. QED
    BY <2>2, <2>3
<1>3. CASE Register(s)
  BY <1>3, RegisterStream DEF Register, StreamInv, SendersAreTheirs
<1>4. CASE Unsubscribe(s)
  BY <1>4, CallerStream DEF Unsubscribe, NoSub, maps, shells
<1>. QED
  BY <1>1, <1>2, <1>3, <1>4 DEF SubStep

\* A kill takes subscribers' senders away, and gives none.
LEMMA KillStream ==
    ASSUME TypeOK, StreamInv, NEW k \in Kills,
           ListPane(k) \/ ListWindow(k) \/ ListSession(k) \/ KillStep(k)
    PROVE  StreamInv'
<1>1. UNCHANGED <<sub, fed, reader, spawner>>
  BY DEF ListPane, ListWindow, ListSession, List, KillStep, DetachPanes, Unregister, EndAll, shells
<1>2. \A p \in Panes : entry'[p] = entry[p] \/ entry'[p] = None
  <2>1. CASE DetachPanes(k)
    BY <2>1 DEF DetachPanes, Detach
  <2>2. CASE ~DetachPanes(k)
    BY <2>2 DEF ListPane, ListWindow, ListSession, List, KillStep, Unregister, EndAll, maps
  <2>. QED
    BY <2>1, <2>2
<1>3. NotYetReading'
  BY <1>1 DEF StreamInv, NotYetReading
<1>. QED
  BY <1>1, <1>2, <1>3, UntouchedStream, FewerSenders

\* A step of the system keeps every replay on the stream.
LEMMA StreamKept == IndInv /\ [Next]_vars => StreamInv'
<1>. SUFFICES ASSUME IndInv, [Next]_vars PROVE StreamInv'
  OBVIOUS
<1>. USE DEF IndInv
<1>1. CASE NewSession
  <2>1. spawner[Seed] = "no"
    BY <1>1 DEF NewSession, TreesInv, NewPanesAreNew
  <2>. QED
    BY <1>1, <2>1, EnteredStream, ConstantsAssumption DEF NewSession
<1>2. CASE NewWindow
  BY <1>2, EnteredStream, FreeLemma DEF NewWindow, Free
<1>3. ASSUME NEW w \in Panes, SplitPane(w) PROVE StreamInv'
  BY <1>3, EnteredStream, FreeLemma DEF SplitPane, Free
<1>4. CASE UNCHANGED vars
  <2>1. UNCHANGED <<sub, fed, reader, spawner, entry>>
    BY <1>4 DEF vars, maps, shells
  <2>2. NotYetReading'
    BY <2>1 DEF StreamInv, NotYetReading
  <2>. QED
    BY <2>1, <2>2, UntouchedStream, FewerSenders
<1>5. ASSUME NEW p \in Panes, ReaderStep(p) \/ Feed(p) \/ ShellExits(p) PROVE StreamInv'
  BY <1>5, FeedStream, FanOutStream, ReaderStream
<1>. QED
  BY <1>1, <1>2, <1>3, <1>4, <1>5, SpawnStream, KillStream, SubStream DEF Next
-----------------------------------------------------------------------------
(* Running shells, and what threads leave behind.                          *)

\* A kill has got to the maps with the pane on its list.
IsDoomed(p) == \E k \in Kills : p \in kill[k].panes /\ kill[k].at \notin {"idle", "listed"}

\* A shell is started once and exits once, before its pane is marked or reaped; a handle
\* is in the map only after that.
ShellsInv == \A p \in Panes :
    /\ child[p] = "no" <=> spawner[p] \in {"no", "grid", "open", "failed"}
    /\ reader[p] \in {"exits", "last", "marked", "removed", "reaps", "clears"} => child[p] = "exited"
    /\ state[p] = "exited" \/ p \in reaped => child[p] = "exited"
    /\ spawner[p] \in {"no", "grid", "open", "insert", "failed"} => p \notin ptys

\* A pane that no kill has got to is in the registry from its start, and in the maps as
\* soon as it is inserted there, for as long as its shell runs.
Lives(p) ==
    /\ spawner[p] \in {"grid", "open"} => state[p] = "running"
    /\ spawner[p] = "open" => p \in grids
    /\ child[p] = "runs" =>
           /\ state[p] = "running" /\ p \in grids /\ spawner[p] \notin {"pull", "drop"}
           /\ spawner[p] \in {"check", "done"} => p \in ptys
LivesInv == \A p \in Panes : ~IsDoomed(p) /\ p \notin missed => Lives(p)

\* A pane that a kill has got to is out of the map, or was missed; only a kill that is
\* going on has handles in its hand.
DoomedInv ==
    /\ \A p \in Panes : IsDoomed(p) /\ p \notin missed =>
           p \notin ptys /\ spawner[p] \notin {"grid", "open", "insert"}
    /\ \A k \in Kills : kill[k].at = "idle" => kill[k].panes = {}
    /\ \A k \in Kills : kill[k].at \notin {"detached", "unlisted"} => hand[k] = {}

\* The handle of a shell that runs is in the map or in a kill's hand.
HandInv == \A p \in Panes :
    child[p] = "runs" /\ p \notin missed /\ spawner[p] \in {"check", "pull", "drop", "done"} =>
        p \in ptys \/ \E k \in Kills : p \in hand[k]

\* A handle in the map is of a registered pane, or somebody is about to take it out.
KnownInv ==
    /\ reaped # {} => session = "gone" /\ \E p \in Panes : reader[p] = "clears"
    /\ session = "gone" => \A p \in Panes : state[p] = "no"
    /\ \A p \in ptys : \/ state[p] # "no" \/ p \in missed \/ p \in reaped
                       \/ spawner[p] \in {"check", "pull", "drop"}

\* A session that is over has a reader that will reap it.
GhostInv == Untouched /\ Witness => \E p \in Panes : reader[p] \in {"last", "reaps"}

ThreadsInv == ShellsInv /\ LivesInv /\ DoomedInv /\ HandInv /\ KnownInv /\ GhostInv

LEMMA InitThreads == Init => ThreadsInv
<1>. SUFFICES ASSUME Init PROVE ThreadsInv
  OBVIOUS
<1>1. ShellsInv /\ LivesInv /\ DoomedInv /\ HandInv
  BY DEF Init, ShellsInv, LivesInv, Lives, DoomedInv, HandInv, IsDoomed
<1>2. KnownInv /\ GhostInv
  BY DEF Init, KnownInv, GhostInv, Witness, Registered
<1>. QED
  BY <1>1, <1>2 DEF ThreadsInv

\* A step is one of these: the cases of the lemmas below.
LEMMA StepLemma ==
    ASSUME IndInv, [Next]_vars
    PROVE  \/ \E p \in Panes, w \in Panes :
                  Enter(p, w) /\ spawner[p] = "no" /\ session # "gone" /\ session' = "open"
           \/ \E p \in Panes : SpawnStep(p)
           \/ \E p \in Panes : ReaderStep(p) \/ Feed(p) \/ ShellExits(p)
           \/ \E k \in Kills : KillStep(k)
           \/ \E k \in Kills, ps \in SUBSET Panes : \E of, id : List(k, of, id, ps)
           \/ \E s \in Subs : Ask(s) \/ SubStep(s) \/ Unsubscribe(s)
           \/ UNCHANGED vars
<1>. USE DEF IndInv, TypeOK
<1>1. CASE NewSession
  <2>1. spawner[Seed] = "no" /\ Seed \in Panes
    BY <1>1, ConstantsAssumption DEF NewSession, TreesInv, NewPanesAreNew
  <2>. QED
    BY <1>1, <2>1 DEF NewSession
<1>2. CASE NewWindow
  BY <1>2, FreeLemma DEF NewWindow, Free
<1>3. ASSUME NEW w \in Panes, SplitPane(w)
      PROVE  \E p \in Panes : Enter(p, w) /\ spawner[p] = "no" /\ session # "gone" /\ session' = "open"
  BY <1>3, FreeLemma DEF SplitPane, Free
<1>4. ASSUME NEW k \in Kills, ListPane(k) \/ ListWindow(k) \/ ListSession(k)
      PROVE  \E ps \in SUBSET Panes : \E of, id : List(k, of, id, ps)
  <2>1. CASE ListPane(k)
    BY <2>1 DEF ListPane
  <2>2. CASE ListWindow(k)
    BY <2>2 DEF ListWindow
  <2>3. CASE ListSession(k)
    BY <2>3 DEF ListSession, Registered
  <2>. QED
    BY <1>4, <2>1, <2>2, <2>3
<1>. QED
  BY <1>1, <1>2, <1>3, <1>4 DEF Next

\* Which panes a step dooms.
LEMMA DoomedLemma ==
    ASSUME IndInv, [Next]_vars
    PROVE  /\ \A p \in Panes : IsDoomed(p) => IsDoomed(p)'
           /\ \A p \in Panes : IsDoomed(p)' =>
                  IsDoomed(p) \/ \E k \in Kills : DetachPanes(k) /\ p \in kill[k].panes
           /\ \A k \in Kills : DetachPanes(k) => \A p \in kill[k].panes : IsDoomed(p)'
           /\ missed \subseteq missed'
<1>. USE DEF IndInv, TypeOK
<1>1. ASSUME UNCHANGED <<kill>>
      PROVE  \A p \in Panes : IsDoomed(p)' <=> IsDoomed(p)
  BY <1>1 DEF IsDoomed
<1>2. ASSUME NEW p \in Panes, SpawnStep(p) \/ ReaderStep(p) \/ Feed(p) \/ ShellExits(p)
      PROVE  UNCHANGED kill /\ missed \subseteq missed'
  BY <1>2 DEF SpawnStep, InsertGrid, OpenPaneIo, OpenFails, InsertPty, CheckRegistry, PullEntries,
     PullPty, ReaderStep, FanOut, Eof, LetGo, Mark, Close, Reap, Clear, Feed, ShellExits, killers
<1>3. ASSUME NEW p, NEW w, Enter(p, w) PROVE UNCHANGED <<kill, missed>>
  BY <1>3 DEF Enter, killers
<1>4. ASSUME NEW s, Ask(s) \/ SubStep(s) \/ Unsubscribe(s) PROVE UNCHANGED <<kill, missed>>
  BY <1>4 DEF SubStep, Ask, FindGrid, Register, Unsubscribe, killers
<1>6. ASSUME NEW k \in Kills, NEW ps, NEW of, NEW id, List(k, of, id, ps)
      PROVE  /\ \A p \in Panes : IsDoomed(p)' <=> IsDoomed(p)
             /\ missed' = missed
  BY <1>6 DEF List, At, IsDoomed
<1>7. ASSUME NEW k \in Kills, DetachPanes(k)
      PROVE  /\ \A p \in Panes : IsDoomed(p)' <=> IsDoomed(p) \/ p \in kill[k].panes
             /\ missed \subseteq missed'
  BY <1>7 DEF DetachPanes, At, IsDoomed
<1>9. \A k \in Kills : kill[k].panes \subseteq Panes
  OBVIOUS
<1>10. ASSUME NEW k \in Kills, DetachPanes(k) PROVE \A p \in kill[k].panes : IsDoomed(p)'
  BY <1>7, <1>9, <1>10
<1>8. ASSUME NEW k \in Kills, Unregister(k) \/ EndAll(k)
      PROVE  /\ \A p \in Panes : IsDoomed(p)' <=> IsDoomed(p)
             /\ missed \subseteq missed'
  <2>1. /\ kill[k].at \notin {"idle", "listed"} /\ kill'[k].at \notin {"idle", "listed"}
        /\ kill'[k].panes = kill[k].panes
        /\ \A j \in Kills : j # k => kill'[j] = kill[j]
    <3>1. kill[k] \in KillRecord
      BY DEF KillRecord
    <3>2. CASE Unregister(k)
      <4>1. /\ kill[k].at = "detached"
            /\ kill' = [kill EXCEPT ![k] = [kill[k] EXCEPT !.at = "unlisted", !.of = None, !.id = None]]
        BY <3>2 DEF Unregister, At
      <4>. QED
        BY <3>1, <4>1 DEF KillRecord
    <3>3. CASE EndAll(k)
      BY <3>1, <3>3 DEF EndAll, At, KillRecord
    <3>. QED
      BY <1>8, <3>2, <3>3
  <2>2. missed \subseteq missed'
    BY <1>8 DEF Unregister, EndAll
  <2>. QED
    BY <2>1, <2>2 DEF IsDoomed
<1>11. \/ \E k \in Kills : DetachPanes(k)
       \/ UNCHANGED kill /\ missed \subseteq missed'
       \/ (\A p \in Panes : IsDoomed(p)' <=> IsDoomed(p)) /\ missed \subseteq missed'
  BY <1>2, <1>3, <1>4, <1>6, <1>8, StepLemma DEF KillStep, vars, killers
<1>12. CASE \E k \in Kills : DetachPanes(k)
  <2>1. PICK k \in Kills : DetachPanes(k)
    BY <1>12
  <2>2. /\ \A p \in Panes : IsDoomed(p)' <=> IsDoomed(p) \/ p \in kill[k].panes
        /\ missed \subseteq missed'
    BY <1>7, <2>1
  <2>. QED
    BY <1>10, <2>1, <2>2
<1>13. CASE (\A p \in Panes : IsDoomed(p)' <=> IsDoomed(p)) /\ missed \subseteq missed'
  BY <1>10, <1>13
<1>. QED
  BY <1>1, <1>11, <1>12, <1>13

\* A shell is started once and exits once.
LEMMA ShellsKept ==
    ASSUME IndInv, ShellsInv, [Next]_vars PROVE ShellsInv'
<1>. USE DEF IndInv, TypeOK, ShellsInv, registry, maps, shells, killers
<1>1. ASSUME NEW p \in Panes, NEW w \in Panes, Enter(p, w), spawner[p] = "no" PROVE ShellsInv'
  BY <1>1 DEF Enter
<1>2. ASSUME NEW p \in Panes, SpawnStep(p) PROVE ShellsInv'
  <2>1. CASE InsertGrid(p) \/ InsertPty(p) \/ CheckRegistry(p) \/ PullEntries(p)
    BY <2>1 DEF InsertGrid, InsertPty, CheckRegistry, PullEntries
  <2>2. CASE OpenPaneIo(p)
    BY <2>2 DEF OpenPaneIo, StreamInv, NotYetReading
  <2>3. CASE OpenFails(p)
    BY <2>3 DEF OpenFails, RemoveSession
  <2>4. CASE PullPty(p)
    BY <2>4 DEF PullPty, Dropped
  <2>. QED
    BY <1>2, <2>1, <2>2, <2>3, <2>4 DEF SpawnStep
<1>3. ASSUME NEW p \in Panes, ReaderStep(p) \/ Feed(p) \/ ShellExits(p) PROVE ShellsInv'
  <2>1. CASE FanOut(p) \/ Eof(p) \/ LetGo(p) \/ Feed(p) \/ ShellExits(p)
    BY <2>1 DEF FanOut, Eof, LetGo, Feed, ShellExits
  <2>2. CASE Mark(p)
    BY <2>2 DEF Mark
  <2>3. CASE Close(p)
    BY <2>3 DEF Close
  <2>4. CASE Reap(p)
    BY <2>4 DEF Reap, RemoveSession, Witness, Registered
  <2>5. CASE Clear(p)
    BY <2>5 DEF Clear, Detach, Dropped
  <2>. QED
    BY <1>3, <2>1, <2>2, <2>3, <2>4, <2>5 DEF ReaderStep
<1>4. ASSUME NEW k \in Kills, KillStep(k) PROVE ShellsInv'
  <2>1. CASE DetachPanes(k)
    BY <2>1 DEF DetachPanes, Detach
  <2>2. CASE Unregister(k)
    <3>1. /\ UNCHANGED <<maps, spawner, shells>>
          /\ \A p \in Panes : state'[p] \in {state[p], "no"}
      BY <2>2 DEF Unregister, RemoveLeaf, RemoveWindow, RemoveSession
    <3>. QED
      BY <3>1
  <2>3. CASE EndAll(k)
    BY <2>3 DEF EndAll, End
  <2>. QED
    BY <1>4, <2>1, <2>2, <2>3 DEF KillStep
<1>5. ASSUME NEW k, NEW ps, NEW of, NEW id, List(k, of, id, ps) PROVE ShellsInv'
  BY <1>5 DEF List
<1>6. ASSUME NEW s, Ask(s) \/ SubStep(s) \/ Unsubscribe(s) PROVE ShellsInv'
  BY <1>6 DEF SubStep, Ask, FindGrid, Register, Unsubscribe
<1>7. CASE UNCHANGED vars
  BY <1>7 DEF vars
<1>. QED
  BY <1>1, <1>2, <1>3, <1>4, <1>5, <1>6, <1>7, StepLemma

\* What a kill takes out of the registry was on its list, or has been missed.
LEMMA UnregisterLemma ==
    ASSUME IndInv, NEW k \in Kills, Unregister(k)
    PROVE  /\ UNCHANGED <<ptys, grids, entry, spawner, child, reader, fed, reaped, hand, sub>>
           /\ \A p \in Panes : \/ state'[p] = state[p]
                               \/ state'[p] = "no" /\ (IsDoomed(p) \/ p \in missed' \/ state[p] = "no")
           /\ session' = session \/ (session' = "gone" /\ \A p \in Panes : state'[p] = "no")
<1>. USE DEF IndInv, TypeOK
<1>1. kill[k].at = "detached" /\ \A p \in kill[k].panes : IsDoomed(p)
  BY DEF Unregister, At, IsDoomed
<1>2. UNCHANGED <<ptys, grids, entry, spawner, child, reader, fed, reaped, hand, sub>>
  BY DEF Unregister, maps, shells
<1>3. CASE kill[k].of = "pane"
  BY <1>1, <1>2, <1>3 DEF Unregister, RemoveLeaf
<1>4. CASE kill[k].of = "window"
  BY <1>1, <1>2, <1>4 DEF Unregister, RemoveWindow
<1>5. CASE kill[k].of = "session"
  BY <1>1, <1>2, <1>5 DEF Unregister, RemoveSession, Registered
<1>. QED
  BY <1>3, <1>4, <1>5 DEF Unregister

\* A pane that no kill has got to keeps what it needs to be served.
LEMMA LivesKept ==
    ASSUME IndInv, ThreadsInv, [Next]_vars PROVE LivesInv'
<1>. SUFFICES ASSUME NEW q \in Panes, ~IsDoomed(q)', q \notin missed' PROVE Lives(q)'
  BY DEF LivesInv
<1>. USE DEF registry, maps, shells, killers
<1>0. ~IsDoomed(q) /\ q \notin missed /\ Lives(q)
  BY DoomedLemma DEF ThreadsInv, LivesInv
<1>T. TypeOK /\ ShellsInv
  BY DEF IndInv, ThreadsInv
<1>1. ASSUME NEW p \in Panes, NEW w \in Panes, Enter(p, w), spawner[p] = "no" PROVE Lives(q)'
  <2>1. child[p] = "no"
    BY <1>T, <1>1 DEF ShellsInv
  <2>. QED
    BY <1>0, <1>T, <1>1, <2>1 DEF Enter, TypeOK, Lives
<1>2. ASSUME NEW p \in Panes, SpawnStep(p) PROVE Lives(q)'
  <2>1. CASE InsertGrid(p)
    BY <1>0, <1>T, <2>1 DEF InsertGrid, TypeOK, Lives, ShellsInv
  <2>2. CASE OpenPaneIo(p)
    BY <1>0, <1>T, <2>2 DEF OpenPaneIo, TypeOK, Lives
  <2>3. CASE OpenFails(p)
    <3>1. CASE p = Seed
      BY <1>0, <1>T, <2>3, <3>1 DEF OpenFails, RemoveSession, Registered, TypeOK, Lives, ShellsInv
    <3>2. CASE p # Seed
      BY <1>0, <1>T, <2>3, <3>2 DEF OpenFails, TypeOK, Lives, ShellsInv
    <3>. QED
      BY <3>1, <3>2
  <2>4. CASE InsertPty(p)
    BY <1>0, <1>T, <2>4 DEF InsertPty, TypeOK, Lives
  <2>5. CASE CheckRegistry(p)
    BY <1>0, <1>T, <2>5 DEF CheckRegistry, InRegistry, Registered, TypeOK, Lives
  <2>6. CASE PullEntries(p)
    BY <1>0, <1>T, <2>6 DEF PullEntries, TypeOK, Lives
  <2>7. CASE PullPty(p)
    BY <1>0, <1>T, <2>7 DEF PullPty, Dropped, TypeOK, Lives
  <2>. QED
    BY <1>2, <2>1, <2>2, <2>3, <2>4, <2>5, <2>6, <2>7 DEF SpawnStep
<1>3. ASSUME NEW p \in Panes, ReaderStep(p) \/ Feed(p) \/ ShellExits(p) PROVE Lives(q)'
  <2>1. CASE FanOut(p) \/ Eof(p) \/ LetGo(p) \/ Feed(p) \/ ShellExits(p) \/ Close(p)
    <3>1. /\ UNCHANGED <<state, ptys, grids, spawner>>
          /\ child'[q] = "runs" => child[q] = "runs"
      BY <1>T, <2>1 DEF FanOut, Eof, LetGo, Feed, ShellExits, Close, TypeOK
    <3>. QED
      BY <1>0, <3>1 DEF Lives
  <2>2. CASE Mark(p)
    BY <1>0, <1>T, <2>2 DEF Mark, InRegistry, TypeOK, Lives, ShellsInv
  <2>3. CASE Reap(p)
    BY <1>0, <1>T, <2>3 DEF Reap, RemoveSession, Witness, Registered, TypeOK, Lives, ShellsInv
  <2>4. CASE Clear(p)
    <3>1. /\ UNCHANGED <<state, spawner>>
          /\ child'[q] = "runs" => child[q] = "runs"
          /\ q \notin reaped => (q \in ptys' <=> q \in ptys) /\ (q \in grids' <=> q \in grids)
      BY <2>4 DEF Clear, Detach, Dropped
    <3>2. q \in reaped => child[q] = "exited"
      BY <1>T DEF ShellsInv
    <3>. QED
      BY <1>0, <1>T, <3>1, <3>2 DEF Lives, ShellsInv
  <2>. QED
    BY <1>3, <2>1, <2>2, <2>3, <2>4 DEF ReaderStep
<1>4. ASSUME NEW k \in Kills, KillStep(k) PROVE Lives(q)'
  <2>1. CASE DetachPanes(k)
    <3>1. q \notin kill[k].panes
      BY <2>1, DoomedLemma
    <3>. QED
      BY <1>0, <2>1, <3>1 DEF DetachPanes, Detach, Lives
  <2>2. CASE Unregister(k)
    BY <1>0, <2>2, UnregisterLemma DEF Lives
  <2>3. CASE EndAll(k)
    BY <1>0, <1>T, <2>3 DEF EndAll, End, Lives
  <2>. QED
    BY <1>4, <2>1, <2>2, <2>3 DEF KillStep
<1>5. ASSUME NEW k, NEW ps, NEW of, NEW id, List(k, of, id, ps) PROVE Lives(q)'
  BY <1>0, <1>5 DEF List, Lives
<1>6. ASSUME NEW s, Ask(s) \/ SubStep(s) \/ Unsubscribe(s) PROVE Lives(q)'
  BY <1>0, <1>6 DEF SubStep, Ask, FindGrid, Register, Unsubscribe, Lives
<1>7. CASE UNCHANGED vars
  BY <1>0, <1>7 DEF vars, Lives
<1>. QED
  BY <1>1, <1>2, <1>3, <1>4, <1>5, <1>6, <1>7, StepLemma

\* What a step other than a kill does to handles and to the callers that open panes.
LEMMA HandlesLemma ==
    ASSUME IndInv, ShellsInv, NEW p \in Panes, NEW q \in Panes,
           SpawnStep(p) \/ ReaderStep(p) \/ Feed(p) \/ ShellExits(p)
    PROVE  /\ UNCHANGED <<kill, hand>>
           /\ q \in ptys' => q \in ptys \/ spawner[q] = "insert"
           /\ \/ spawner'[q] = spawner[q]
              \/ spawner'[q] \in {"open", "insert"} /\ spawner[q] \in {"grid", "open"}
              \/ spawner'[q] = "check" /\ spawner[q] = "insert" /\ q \in ptys'
              \/ spawner'[q] \in {"pull", "drop", "done"} /\ spawner[q] \in {"check", "pull", "drop"}
              \/ spawner'[q] = "failed"
           /\ child'[q] = "runs" => child[q] = "runs" \/ spawner'[q] = "insert"
           /\ q \in ptys /\ q \notin ptys' => \/ q \in reaped
                                              \/ spawner[q] = "drop"
<1>. USE DEF IndInv, TypeOK, registry, maps, shells, killers
<1>1. CASE SpawnStep(p)
  BY <1>1 DEF SpawnStep, InsertGrid, OpenPaneIo, OpenFails, InsertPty, CheckRegistry, PullEntries,
     PullPty, Dropped
<1>2. CASE ReaderStep(p) \/ Feed(p) \/ ShellExits(p)
  <2>1. UNCHANGED <<kill, hand, spawner>>
    BY <1>2 DEF ReaderStep, FanOut, Eof, LetGo, Mark, Close, Reap, Clear, Feed, ShellExits
  <2>2. child'[q] = "runs" => child[q] = "runs"
    BY <1>2 DEF ReaderStep, FanOut, Eof, LetGo, Mark, Close, Reap, Clear, Feed, ShellExits, Dropped
  <2>3. ptys' = ptys \/ ptys' = ptys \ reaped
    BY <1>2 DEF ReaderStep, FanOut, Eof, LetGo, Mark, Close, Reap, Clear, Feed, ShellExits, Detach
  <2>. QED
    BY <2>1, <2>2, <2>3
<1>. QED
  BY <1>1, <1>2

\* Kills that have got to a pane have taken its handle out.
LEMMA DoomedKept ==
    ASSUME IndInv, ThreadsInv, [Next]_vars PROVE DoomedInv'
<1>. USE DEF registry, maps, shells, killers
<1>T. TypeOK /\ ShellsInv /\ DoomedInv /\ NewPanesAreNew
  BY DEF IndInv, ThreadsInv, TreesInv
<1>1. ASSUME NEW q \in Panes, IsDoomed(q)', q \notin missed'
      PROVE  q \notin ptys' /\ spawner'[q] \notin {"grid", "open", "insert"}
  <2>1. q \notin missed /\ (IsDoomed(q) \/ \E k \in Kills : DetachPanes(k) /\ q \in kill[k].panes)
    BY <1>1, DoomedLemma
  <2>2. ASSUME NEW k \in Kills, DetachPanes(k), q \in kill[k].panes
        PROVE  q \notin ptys' /\ spawner'[q] \notin {"grid", "open", "insert"}
    BY <1>1, <2>2 DEF DetachPanes, Detach
  <2>3. CASE IsDoomed(q)
    <3>1. q \notin ptys /\ spawner[q] \notin {"grid", "open", "insert"}
      BY <1>T, <2>1, <2>3 DEF DoomedInv
    <3>2. ASSUME NEW p \in Panes, NEW w \in Panes, Enter(p, w), spawner[p] = "no"
          PROVE  q \notin ptys' /\ spawner'[q] \notin {"grid", "open", "insert"}
      BY <1>T, <2>3, <3>1, <3>2 DEF Enter, IsDoomed, NewPanesAreNew, TypeOK
    <3>3. ASSUME NEW p \in Panes, SpawnStep(p) \/ ReaderStep(p) \/ Feed(p) \/ ShellExits(p)
          PROVE  q \notin ptys' /\ spawner'[q] \notin {"grid", "open", "insert"}
      BY <1>T, <3>1, <3>3, HandlesLemma
    <3>4. ASSUME NEW k \in Kills, KillStep(k) PROVE UNCHANGED spawner /\ ptys' \subseteq ptys
      BY <3>4 DEF KillStep, DetachPanes, Detach, Unregister, EndAll
    <3>5. ASSUME NEW k, NEW ps, NEW of, NEW id, List(k, of, id, ps) PROVE UNCHANGED <<spawner, ptys>>
      BY <3>5 DEF List
    <3>6. ASSUME NEW s, Ask(s) \/ SubStep(s) \/ Unsubscribe(s) PROVE UNCHANGED <<spawner, ptys>>
      BY <3>6 DEF SubStep, Ask, FindGrid, Register, Unsubscribe
    <3>7. CASE UNCHANGED vars
      BY <3>1, <3>7 DEF vars
    <3>. QED
      BY <3>1, <3>2, <3>3, <3>4, <3>5, <3>6, <3>7, StepLemma
  <2>. QED
    BY <2>1, <2>2, <2>3
<1>2. ASSUME NEW k \in Kills
      PROVE  /\ kill'[k].at = "idle" => kill'[k].panes = {}
             /\ kill'[k].at \notin {"detached", "unlisted"} => hand'[k] = {}
  <2>0. /\ kill[k].at = "idle" => kill[k].panes = {}
        /\ kill[k].at \notin {"detached", "unlisted"} => hand[k] = {}
    BY <1>T DEF DoomedInv
  <2>. DEFINE Goal == /\ kill'[k].at = "idle" => kill'[k].panes = {}
                      /\ kill'[k].at \notin {"detached", "unlisted"} => hand'[k] = {}
  <2>1. ASSUME NEW j \in Kills, KillStep(j) PROVE Goal
    <3>1. CASE j # k
      <4>1. kill'[k] = kill[k] /\ hand'[k] = hand[k]
        BY <1>T, <2>1, <3>1 DEF KillStep, DetachPanes, Unregister, EndAll, TypeOK
      <4>. QED
        BY <2>0, <4>1
    <3>2. CASE j = k /\ DetachPanes(j)
      BY <1>T, <3>2 DEF DetachPanes, TypeOK
    <3>3. CASE j = k /\ Unregister(j)
      <4>1. kill'[k] = [kill[k] EXCEPT !.at = "unlisted", !.of = None, !.id = None]
        BY <1>T, <3>3 DEF Unregister, TypeOK
      <4>2. kill[k] \in KillRecord
        BY <1>T DEF TypeOK, KillRecord
      <4>. QED
        BY <4>1, <4>2 DEF KillRecord
    <3>4. CASE j = k /\ EndAll(j)
      BY <1>T, <3>4 DEF EndAll, TypeOK
    <3>. QED
      BY <2>1, <3>1, <3>2, <3>3, <3>4 DEF KillStep
  <2>2. ASSUME NEW j \in Kills, NEW ps, NEW of, NEW id, List(j, of, id, ps) PROVE Goal
    BY <1>T, <2>0, <2>2 DEF List, At, TypeOK
  <2>3. ASSUME UNCHANGED <<kill, hand>> PROVE Goal
    BY <2>0, <2>3
  <2>4. ASSUME NEW p, NEW w, Enter(p, w) PROVE UNCHANGED <<kill, hand>>
    BY <2>4 DEF Enter
  <2>5. ASSUME NEW s, Ask(s) \/ SubStep(s) \/ Unsubscribe(s) PROVE UNCHANGED <<kill, hand>>
    BY <2>5 DEF SubStep, Ask, FindGrid, Register, Unsubscribe
  <2>6. ASSUME NEW p \in Panes, SpawnStep(p) \/ ReaderStep(p) \/ Feed(p) \/ ShellExits(p)
        PROVE  UNCHANGED <<kill, hand>>
    BY <1>T, <2>6, HandlesLemma
  <2>7. CASE UNCHANGED vars
    BY <2>3, <2>7 DEF vars
  <2>. QED
    BY <2>1, <2>2, <2>3, <2>4, <2>5, <2>6, <2>7, StepLemma
<1>. QED
  BY <1>1, <1>2 DEF DoomedInv

\* The handle of a running shell is never let slip.
LEMMA HandKept ==
    ASSUME IndInv, ThreadsInv, [Next]_vars PROVE HandInv'
<1>. DEFINE Goal(q) == q \in ptys' \/ \E k \in Kills : q \in hand'[k]
<1>. SUFFICES ASSUME NEW q \in Panes, child'[q] = "runs", q \notin missed',
                     spawner'[q] \in {"check", "pull", "drop", "done"}
              PROVE  Goal(q)
  BY DEF HandInv
<1>. USE DEF registry, maps, shells, killers
<1>T. TypeOK /\ ShellsInv /\ DoomedInv /\ LivesInv
  BY DEF IndInv, ThreadsInv
<1>0. q \notin missed
  BY DoomedLemma
<1>0a. child[q] = "runs" /\ spawner[q] \in {"check", "pull", "drop", "done"} =>
          q \in ptys \/ \E k \in Kills : q \in hand[k]
  BY <1>0 DEF ThreadsInv, HandInv
<1>1. ASSUME NEW p \in Panes, NEW w \in Panes, Enter(p, w), spawner[p] = "no" PROVE Goal(q)
  <2>1. UNCHANGED <<child, ptys, hand>> /\ (spawner'[q] = spawner[q] \/ spawner'[q] = "grid")
    BY <1>T, <1>1 DEF Enter, TypeOK
  <2>. QED
    BY <1>0a, <2>1
<1>2. ASSUME NEW p \in Panes, SpawnStep(p) \/ ReaderStep(p) \/ Feed(p) \/ ShellExits(p) PROVE Goal(q)
  <2>1. CASE spawner'[q] = "check" /\ spawner[q] = "insert" /\ q \in ptys'
    BY <2>1
  <2>2. CASE spawner[q] \in {"check", "pull", "drop", "done"}
    <3>1. UNCHANGED hand /\ child[q] = "runs"
      BY <1>T, <1>2, HandlesLemma
    <3>2. q \in ptys => q \in ptys' \/ spawner[q] = "drop"
      BY <1>T, <1>2, <3>1, HandlesLemma DEF ShellsInv
    <3>3. q \in ptys => spawner[q] # "drop"
      BY <1>T, <1>0, <3>1 DEF DoomedInv, LivesInv, Lives
    <3>. QED
      BY <1>0a, <2>2, <3>1, <3>2, <3>3
  <2>. QED
    BY <1>T, <1>2, <2>1, <2>2, HandlesLemma
<1>3. ASSUME NEW k \in Kills, KillStep(k) PROVE Goal(q)
  <2>1. CASE DetachPanes(k)
    <3>1. /\ UNCHANGED <<child, spawner>> /\ ptys' = ptys \ kill[k].panes /\ hand[k] = {}
          /\ hand' = [hand EXCEPT ![k] = kill[k].panes \cap ptys]
      BY <1>T, <2>1 DEF DetachPanes, Detach, At, DoomedInv
    <3>. QED
      BY <1>T, <1>0a, <3>1 DEF TypeOK
  <2>2. CASE Unregister(k)
    BY <1>0a, <2>2, UnregisterLemma
  <2>3. CASE EndAll(k)
    <3>1. /\ UNCHANGED <<spawner, ptys>> /\ child[q] = "runs" /\ q \notin hand[k]
          /\ hand' = [hand EXCEPT ![k] = {}]
      BY <1>T, <2>3 DEF EndAll, End, TypeOK
    <3>. QED
      BY <1>T, <1>0a, <3>1 DEF TypeOK
  <2>. QED
    BY <1>3, <2>1, <2>2, <2>3 DEF KillStep
<1>4. ASSUME NEW k, NEW ps, NEW of, NEW id, List(k, of, id, ps) PROVE Goal(q)
  BY <1>0a, <1>4 DEF List
<1>5. ASSUME NEW s, Ask(s) \/ SubStep(s) \/ Unsubscribe(s) PROVE Goal(q)
  BY <1>0a, <1>5 DEF SubStep, Ask, FindGrid, Register, Unsubscribe
<1>6. CASE UNCHANGED vars
  BY <1>0a, <1>6 DEF vars
<1>. QED
  BY <1>1, <1>2, <1>3, <1>4, <1>5, <1>6, StepLemma

\* What a reader or a caller that opens a pane does to the registry.
LEMMA RegistryLemma ==
    ASSUME IndInv, ShellsInv, NEW p \in Panes, SpawnStep(p) \/ ReaderStep(p) \/ Feed(p) \/ ShellExits(p)
    PROVE  \/ UNCHANGED <<session, state, reaped>>
           \/ UNCHANGED <<session, reaped>> /\ Mark(p) /\ state[p] # "no" /\ state' = [state EXCEPT ![p] = "exited"]
           \/ /\ UNCHANGED reaped /\ RemoveSession /\ OpenFails(p) /\ p = Seed
              /\ \A q \in Panes \ {p} : state[q] # "no" => q \in missed'
           \/ RemoveSession /\ Witness /\ reaped' = Registered /\ reader'[p] = "clears" /\ Reap(p)
           \/ UNCHANGED <<session, state>> /\ reaped' = {} /\ Clear(p)
<1>. USE DEF IndInv, TypeOK, registry, maps, shells, killers
<1>1. CASE SpawnStep(p)
  <2>1. CASE OpenFails(p) /\ p = Seed
    BY <2>1 DEF OpenFails, Registered
  <2>. QED
    BY <1>1, <2>1 DEF SpawnStep, InsertGrid, OpenPaneIo, OpenFails, InsertPty, CheckRegistry,
       PullEntries, PullPty
<1>2. CASE FanOut(p) \/ Eof(p) \/ LetGo(p) \/ Close(p) \/ Feed(p) \/ ShellExits(p)
  BY <1>2 DEF FanOut, Eof, LetGo, Close, Feed, ShellExits
<1>3. CASE Mark(p)
  BY <1>3 DEF Mark, InRegistry, Registered
<1>4. CASE Reap(p)
  BY <1>4 DEF Reap
<1>5. CASE Clear(p)
  BY <1>5 DEF Clear
<1>. QED
  BY <1>1, <1>2, <1>3, <1>4, <1>5 DEF ReaderStep

\* Handles in the map are of registered panes, or about to go.
LEMMA KnownKept ==
    ASSUME IndInv, ThreadsInv, [Next]_vars PROVE KnownInv'
<1>. USE DEF registry, maps, shells, killers
<1>T. TypeOK /\ ShellsInv /\ DoomedInv /\ KnownInv
  BY DEF IndInv, ThreadsInv
<1>0. missed \subseteq missed'
  BY DoomedLemma
<1>1. ASSUME NEW p \in Panes, NEW w \in Panes, Enter(p, w), spawner[p] = "no", session # "gone",
             session' = "open"
      PROVE  KnownInv'
  BY <1>T, <1>0, <1>1 DEF Enter, KnownInv, TypeOK
<1>2. ASSUME NEW p \in Panes, SpawnStep(p) \/ ReaderStep(p) \/ Feed(p) \/ ShellExits(p) PROVE KnownInv'
  <2>1. reaped' # {} => session' = "gone" /\ \E q \in Panes : reader'[q] = "clears"
    <3>1. \A q \in Panes : reader[q] = "clears" /\ ~Clear(p) => reader'[q] = "clears"
      BY <1>T, <1>2 DEF SpawnStep, InsertGrid, OpenPaneIo, OpenFails, InsertPty, CheckRegistry, PullEntries,
         PullPty, ReaderStep, FanOut, Eof, LetGo, Mark, Close, Reap, Feed, ShellExits, TypeOK,
         ShellsInv
    <3>2. Clear(p) => reaped' = {}
      BY DEF Clear
    <3>. QED
      BY <1>T, <1>2, <3>1, <3>2, RegistryLemma DEF KnownInv, RemoveSession, IndInv
  <2>2. session' = "gone" => \A q \in Panes : state'[q] = "no"
    BY <1>T, <1>2, RegistryLemma DEF KnownInv, RemoveSession, TypeOK
  <2>3. ASSUME NEW q \in ptys'
        PROVE  state'[q] # "no" \/ q \in missed' \/ q \in reaped' \/ spawner'[q] \in {"check", "pull", "drop"}
    <3>1. q \in Panes /\ (q \in ptys \/ spawner[q] = "insert")
      BY <1>T, <1>2, <2>3, HandlesLemma, TypeKept DEF TypeOK
    <3>2. CASE spawner'[q] \in {"check", "pull", "drop"}
      BY <3>2
    <3>3. CASE spawner'[q] \notin {"check", "pull", "drop"}
      <4>0. spawner'[q] \notin {"grid", "open", "insert", "failed", "no"}
        BY <2>3, <3>1, ShellsKept DEF ThreadsInv, ShellsInv
      <4>1. q \in ptys /\ spawner[q] \notin {"grid", "open", "insert", "failed", "no"}
        BY <1>T, <1>2, <3>1, <3>3, <4>0, HandlesLemma DEF ShellsInv
      <4>2. CASE spawner[q] \in {"check", "pull", "drop"}
        BY <1>T, <1>2, <2>3, <3>1, <3>3, <4>1, <4>2 DEF SpawnStep, InsertGrid, OpenPaneIo, OpenFails, InsertPty,
           CheckRegistry, PullEntries, PullPty, InRegistry, Registered,
           ReaderStep, FanOut, Eof, LetGo, Mark, Close, Reap, Clear, Feed, ShellExits, TypeOK
      <4>3. CASE spawner[q] = "done"
        <5>1. state[q] # "no" \/ q \in missed \/ q \in reaped
          BY <1>T, <4>1, <4>3 DEF KnownInv
        <5>2. Clear(p) => q \notin reaped
          BY <2>3 DEF Clear, Detach
        <5>3. OpenFails(p) => p # q
          BY <4>3 DEF OpenFails
        <5>. QED
          BY <1>T, <1>0, <1>2, <3>1, <5>1, <5>2, <5>3, RegistryLemma DEF RemoveSession, Registered, TypeOK,
             KnownInv, Witness
      <4>. QED
        BY <1>T, <3>1, <4>1, <4>2, <4>3 DEF TypeOK
    <3>. QED
      BY <3>2, <3>3
  <2>. QED
    BY <2>1, <2>2, <2>3 DEF KnownInv
<1>3. ASSUME NEW k \in Kills, KillStep(k) PROVE KnownInv'
  <2>1. CASE DetachPanes(k) \/ EndAll(k)
    BY <1>T, <1>0, <2>1 DEF DetachPanes, Detach, EndAll, KnownInv
  <2>2. CASE Unregister(k)
    <3>1. \A q \in ptys : IsDoomed(q) => q \in missed
      BY <1>T DEF DoomedInv, TypeOK
    <3>2. /\ UNCHANGED <<ptys, spawner, reader, reaped>> /\ ptys \subseteq Panes
          /\ \A q \in Panes : state'[q] = state[q] \/ IsDoomed(q) \/ q \in missed' \/ state[q] = "no"
      BY <1>T, <2>2, UnregisterLemma DEF TypeOK
    <3>3. /\ session' = session \/ (session' = "gone" /\ \A q \in Panes : state'[q] = "no")
          /\ \A q \in Panes : state'[q] \in {state[q], "no"}
      BY <2>2, UnregisterLemma
    <3>. QED
      BY <1>T, <1>0, <3>1, <3>2, <3>3 DEF KnownInv
  <2>. QED
    BY <1>3, <2>1, <2>2 DEF KillStep
<1>4. ASSUME NEW k, NEW ps, NEW of, NEW id, List(k, of, id, ps) PROVE KnownInv'
  BY <1>T, <1>4 DEF List, KnownInv
<1>5. ASSUME NEW s, Ask(s) \/ SubStep(s) \/ Unsubscribe(s) PROVE KnownInv'
  BY <1>T, <1>5 DEF SubStep, Ask, FindGrid, Register, Unsubscribe, KnownInv
<1>6. CASE UNCHANGED vars
  BY <1>T, <1>6 DEF vars, KnownInv
<1>. QED
  BY <1>1, <1>2, <1>3, <1>4, <1>5, <1>6, StepLemma

\* The pane that is the last to exit sees that it is, and reaps.
LEMMA GhostKept ==
    ASSUME IndInv, ThreadsInv, [Next]_vars PROVE GhostInv'
<1>. SUFFICES ASSUME Untouched', Witness'
              PROVE  \E q \in Panes : reader'[q] \in {"last", "reaps"}
  BY DEF GhostInv
<1>. USE DEF registry, maps, shells, killers
<1>T. TypeOK /\ ShellsInv /\ SendersAreTheirs
  BY DEF IndInv, ThreadsInv, StreamInv
<1>0. Untouched /\ Witness => \E q \in Panes : reader[q] \in {"last", "reaps"}
  BY DEF ThreadsInv, GhostInv
<1>1. ASSUME NEW p \in Panes, NEW w \in Panes, Enter(p, w) PROVE FALSE
  BY <1>T, <1>1 DEF Enter, Witness, Registered, TypeOK
<1>2. ASSUME NEW p \in Panes, SpawnStep(p) \/ ReaderStep(p) \/ Feed(p) \/ ShellExits(p)
      PROVE  \E q \in Panes : reader'[q] \in {"last", "reaps"}
  <2>1. Untouched /\ UNCHANGED kill /\ \A s \in Subs : sub[s].at = "idle"
    <3>1. \A s \in Subs : sub'[s].at = sub[s].at
      BY <1>T, <1>2 DEF SpawnStep, InsertGrid, OpenPaneIo, OpenFails, InsertPty, CheckRegistry, PullEntries,
         PullPty, ReaderStep, FanOut, Eof, LetGo, Mark, Close, Reap, Clear, Feed, ShellExits, TypeOK
    <3>2. UNCHANGED kill
      BY <1>T, <1>2, HandlesLemma
    <3>. QED
      BY <3>1, <3>2 DEF Untouched, At
  <2>2. ~RemoveSession
    BY DEF RemoveSession, Witness, Registered
  <2>3. CASE UNCHANGED state
    <3>1. PICK q \in Panes : reader[q] \in {"last", "reaps"}
      BY <1>0, <2>1, <2>3 DEF Witness, Registered
    <3>2. CASE reader'[q] = reader[q]
      BY <3>1, <3>2
    <3>3. CASE reader'[q] # reader[q] /\ ~Reap(q)
      <4>1. Close(q) /\ reader[q] = "last"
        <5>1. CASE SpawnStep(p)
          BY <1>T, <3>1, <3>3, <5>1 DEF SpawnStep, InsertGrid, OpenPaneIo, OpenFails, InsertPty, CheckRegistry,
             PullEntries, PullPty, TypeOK, ShellsInv
        <5>2. CASE ReaderStep(p) \/ Feed(p) \/ ShellExits(p)
          <6>1. q = p
            BY <1>T, <3>3, <5>2 DEF ReaderStep, FanOut, Eof, LetGo, Mark, Close, Reap, Clear, Feed,
               ShellExits, TypeOK
          <6>2. ReaderStep(p) /\ ~FanOut(p) /\ ~Eof(p) /\ ~LetGo(p) /\ ~Mark(p) /\ ~Clear(p)
            BY <3>1, <3>3, <5>2, <6>1 DEF FanOut, Eof, LetGo, Mark, Clear, Feed, ShellExits
          <6>. QED
            BY <3>1, <3>3, <6>1, <6>2 DEF ReaderStep, Close
        <5>. QED
          BY <1>2, <5>1, <5>2
      <4>2. \A r \in Panes : EntryOf(r).senders = {}
        BY <1>T, <2>1, EntryLemma DEF SendersAreTheirs
      <4>3. ~Watched
        BY <4>2 DEF Watched, EntryOf, Registered
      <4>. QED
        BY <1>T, <4>1, <4>2, <4>3 DEF Close, TypeOK
    <3>4. CASE Reap(q)
      BY <2>2, <2>3, <3>1, <3>4 DEF Reap, Witness, Registered
    <3>. QED
      BY <3>2, <3>3, <3>4
  <2>4. CASE Mark(p) /\ state' = [state EXCEPT ![p] = "exited"] /\ state[p] # "no"
    <3>1. LastToExit(p)
      BY <1>T, <2>4 DEF LastToExit, Witness, Registered, TypeOK
    <3>. QED
      BY <1>T, <2>4, <3>1 DEF Mark, InRegistry, Registered, TypeOK
  <2>. QED
    BY <1>T, <1>2, <2>2, <2>3, <2>4, RegistryLemma
<1>3. ASSUME NEW k \in Kills, KillStep(k) PROVE FALSE
  <2>1. kill'[k].at # "idle"
    <3>1. CASE DetachPanes(k) \/ EndAll(k)
      BY <1>T, <3>1 DEF DetachPanes, EndAll, TypeOK
    <3>2. CASE Unregister(k)
      <4>1. kill'[k] = [kill[k] EXCEPT !.at = "unlisted", !.of = None, !.id = None] /\ kill[k] \in KillRecord
        BY <1>T, <3>2 DEF Unregister, TypeOK, KillRecord
      <4>. QED
        BY <4>1 DEF KillRecord
    <3>. QED
      BY <1>3, <3>1, <3>2 DEF KillStep
  <2>. QED
    BY <2>1 DEF Untouched, At
<1>4. ASSUME NEW k \in Kills, NEW ps, NEW of, NEW id, List(k, of, id, ps) PROVE FALSE
  BY <1>T, <1>4 DEF List, Untouched, At, TypeOK
<1>5. ASSUME NEW s \in Subs, Ask(s) \/ SubStep(s) \/ Unsubscribe(s) PROVE FALSE
  <2>1. sub'[s].at # "idle"
    BY <1>T, <1>5 DEF SubStep, Ask, FindGrid, Register, Unsubscribe, NoSub, TypeOK
  <2>. QED
    BY <2>1 DEF Untouched
<1>6. CASE UNCHANGED vars
  BY <1>0, <1>6 DEF vars, Untouched, At, Witness, Registered
<1>. QED
  BY <1>1, <1>2, <1>3, <1>4, <1>5, <1>6, StepLemma

\* What the threads rely on of each other holds after every step.
LEMMA ThreadsKept == IndInv /\ ThreadsInv /\ [Next]_vars => ThreadsInv'
<1>. SUFFICES ASSUME IndInv, ThreadsInv, [Next]_vars PROVE ThreadsInv'
  OBVIOUS
<1>1. ShellsInv'
  BY ShellsKept DEF ThreadsInv
<1>2. LivesInv' /\ DoomedInv' /\ HandInv'
  BY LivesKept, DoomedKept, HandKept
<1>3. KnownInv' /\ GhostInv'
  BY KnownKept, GhostKept
<1>. QED
  BY <1>1, <1>2, <1>3 DEF ThreadsInv
-----------------------------------------------------------------------------
\* The invariant holds of every behaviour.
THEOREM Inductive == Spec => []IndInv
<1>1. IndInv /\ [Next]_vars => IndInv'
  BY TypeKept, TreesKept, StreamKept DEF IndInv
<1>. QED
  BY InitInd, <1>1, PTL DEF Spec

\* Every variable keeps its type: in particular no receiver is ever given more chunks
\* than its pane has put out, and a closed stream has no senders.
THEOREM TypeCorrect == Spec => []TypeOK
<1>1. IndInv => TypeOK
  BY DEF IndInv
<1>. QED
  BY Inductive, <1>1, PTL

\* A subscriber with a replay has each chunk of its pane exactly once: in the snapshot
\* or in the stream, however registration and the reader interleave.
THEOREM ReplayIsExact == Spec => []ReplayMeetsStream
<1>1. IndInv => ReplayMeetsStream
  BY DEF IndInv, StreamInv
<1>. QED
  BY Inductive, <1>1, PTL

\* The flat map and the windows have the same panes, with any number of kills and
\* splits on the way, but for panes that a kill has missed.
THEOREM TreesAgree == Spec => []TreesAgreeWithPanes
<1>1. IndInv => TreesAgreeWithPanes
  BY DEF IndInv, TreesInv
<1>. QED
  BY Inductive, <1>1, PTL

\* So does what the threads rely on of each other.
THEOREM ThreadsInductive == Spec => []ThreadsInv
<1>. QED
  BY Inductive, InitThreads, ThreadsKept, PTL DEF Spec

\* The daemon never loses a running shell on its own: a pane that no kill listed or
\* missed stays in the registry, in its window and in the maps for as long as it runs,
\* however its opening, its reader and the kills of other panes interleave.
THEOREM RunningIsKept == Spec => []RunningIsServed
<1>1. IndInv /\ ThreadsInv => RunningIsServed
  <2>. SUFFICES ASSUME IndInv, ThreadsInv, NEW p \in Panes \ (Targets \cup missed),
                       child[p] = "runs", spawner[p] = "done"
                PROVE  /\ state[p] = "running" /\ p \in ptys /\ p \in grids
                       /\ \E w \in Panes : p \in leaves[w]
    BY DEF RunningIsServed
  <2>1. ~IsDoomed(p)
    BY DEF IsDoomed, Targets
  <2>2. state[p] = "running" /\ p \in ptys /\ p \in grids
    BY <2>1 DEF ThreadsInv, LivesInv, Lives
  <2>3. p \in UNION {leaves[w] : w \in Panes}
    BY <2>2 DEF IndInv, TreesInv, TreesAgreeWithPanes, Registered
  <2>. QED
    BY <2>2, <2>3
<1>. QED
  BY Inductive, ThreadsInductive, <1>1, PTL

\* When the callers, readers and kills are through, no handle is left of a pane that the
\* registry does not know, no shell runs that a kill was to end, and no session is left
\* whose panes have all exited: what no kill has missed is cleaned up by somebody.
THEOREM ThreadsLeaveNothing == Spec => []QuietIsClean
<1>1. IndInv /\ ThreadsInv => QuietIsClean
  <2>. SUFFICES ASSUME IndInv, ThreadsInv, Quiet PROVE QuietIsClean
    BY DEF QuietIsClean, NothingIsStranded, KilledShellEnds, NoGhostSession
  <2>1. ptys \subseteq Registered \cup missed
    BY DEF IndInv, TypeOK, ThreadsInv, KnownInv, Quiet, Registered
  <2>2. ASSUME NEW p \in Targets \ missed PROVE child[p] # "runs"
    <3>1. PICK k \in Kills : p \in kill[k].panes
      BY <2>2 DEF Targets
    <3>2. p \in Panes /\ kill[k].at = "done" /\ \A j \in Kills : hand[j] = {}
      BY <3>1 DEF IndInv, TypeOK, ThreadsInv, DoomedInv, Quiet
    <3>3. p \notin ptys
      BY <2>2, <3>1, <3>2 DEF ThreadsInv, DoomedInv, IsDoomed
    <3>4. spawner[p] # "done" => child[p] = "no"
      BY <3>2 DEF ThreadsInv, ShellsInv, Quiet
    <3>. QED
      BY <2>2, <3>2, <3>3, <3>4 DEF ThreadsInv, HandInv
  <2>3. Untouched => ~Witness
    BY DEF ThreadsInv, GhostInv, Quiet
  <2>. QED
    BY <2>1, <2>2, <2>3 DEF QuietIsClean, NothingIsStranded, KilledShellEnds, NoGhostSession
<1>. QED
  BY Inductive, ThreadsInductive, <1>1, PTL
=============================================================================
