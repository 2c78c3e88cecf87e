----------------------------- MODULE StoreProofs -----------------------------
(***************************************************************************)
(* Proofs about Store, for any number of sessions, panes and daemons, and  *)
(* for any overlap of them: what is archived is over, what is ended stays  *)
(* so, and a running shell is in the document that a start goes by.        *)
(***************************************************************************)
EXTENDS Store, TLAPS

DocRecord     == [here : BOOLEAN, panes : SUBSET Panes]
RestoreRecord == [todo : SUBSET Sessions, at : SUBSET Sessions, plan : SUBSET Panes]
SpawnRecord   == [at : {"no", "entered", "dir", "launch", "persist", "write", "opened", "done"},
                  by : Daemons \cup {0}, doc : DocRecord, tomb : BOOLEAN]
KillRecord    == [by : Daemons \cup {0}, panes : SUBSET Panes, todo : SUBSET Panes, whole : SUBSET Sessions]
PassRecord    == [at : {"idle", "write", "archive"}, open : SUBSET Sessions, panes : SUBSET Panes,
                  todo : SUBSET Sessions, over : SUBSET Sessions, restored : BOOLEAN]
History       == [ended : SUBSET Panes, strays : SUBSET Panes, ghosts : SUBSET Panes, cut : SUBSET Panes,
                  late : SUBSET Sessions, stale : SUBSET Sessions, early : SUBSET Sessions, raced : SUBSET Panes,
                  gone : SUBSET Sessions, overlap : BOOLEAN, refused : BOOLEAN, kills : Nat, upsets : Nat]

\* Every variable has its type.
Typed ==
    /\ lease \in 0..MaxStarts
    /\ stage \in [Daemons -> {"no", "restoring", "restored", "serving", "stopping", "gone"}]
    /\ durable \subseteq Up
    /\ reg \in [Daemons -> [open : SUBSET Sessions, panes : SUBSET Panes]]
    /\ attached \in [Daemons -> SUBSET Panes] /\ restore \in [Daemons -> RestoreRecord]
    /\ holders \subseteq Panes /\ local \in [Daemons -> SUBSET Panes]
    /\ dirs \subseteq Sessions /\ pdirs \subseteq Panes /\ tomb \subseteq Panes
    /\ doc \in [Sessions -> DocRecord]
    /\ spawn \in [Panes -> SpawnRecord] /\ kill \in KillRecord
    /\ pass \in [Daemons -> PassRecord] /\ written \in [Daemons -> [Sessions -> DocRecord]]
    /\ past \in History

\* What a daemon is doing goes with its stage.
StageOf(d) ==
    /\ stage[d] = "no" <=> d > lease
    /\ stage[d] \in {"no", "gone"} =>
          reg[d] = NoReg /\ attached[d] = {} /\ pass[d] = NoPass /\ d \notin durable
    /\ stage[d] # "restoring" => restore[d] = NoRestore
    /\ pass[d].over # {} => stage[d] # "restoring" /\ pass[d].at = "archive"
    /\ pass[d].restored => stage[d] # "restoring"
    /\ pass[d].at = "archive" => pass[d].restored
StagesInv ==
    /\ \A d \in Daemons : StageOf(d)
    /\ \A p \in Panes : spawn[p].by # 0 => stage[spawn[p].by] \in {"serving", "stopping"}
    /\ \A p \in Panes : spawn[p].by # 0 <=> spawn[p].at \notin {"no", "done"}
    /\ kill # NoKill => kill.by # 0 /\ stage[kill.by] \in {"serving", "stopping"}

\* A pane that was never opened is nowhere.
UnbornInv ==
    \A p \in Panes : spawn[p].at = "no" =>
        /\ p \notin doc[Of[p]].panes
        /\ \A d \in Daemons : p \notin reg[d].panes /\ p \notin restore[d].plan /\ p \notin pass[d].panes
        /\ \A q \in Panes : p \notin spawn[q].doc.panes

\* What is on the disk.
DiskInv ==
    /\ tomb \subseteq pdirs /\ \A p \in pdirs : Of[p] \in dirs
    /\ \A s \in Sessions : /\ doc[s].here => s \in dirs
                           /\ ~doc[s].here => doc[s].panes = {}
                           /\ doc[s].here /\ s \in past.gone => s \in past.late
                           /\ doc[s].panes \subseteq In(s)
    /\ \A p \in holders : p \in pdirs \/ Of[p] \in past.gone

\* An end that was recorded is on the disk, until it goes to the archive.
EndsInv ==
    /\ tomb \subseteq past.ended
    /\ \A p \in past.ended : p \in tomb \/ Of[p] \in past.gone
    /\ \A d \in Daemons : d = lease =>
          \A p \in restore[d].plan : p \in past.ended => p \in past.raced \/ Of[p] \in past.late

\* What the owner of the store has judged to be over is over.
OverInv ==
    \A d \in Daemons : d = lease =>
        \A p \in pdirs : Of[p] \in pass[d].over => p \in past.ended \/ Of[p] \in past.early \cup past.late

\* A shell that the store has not been wronged about
Exempt(p)  == p \in past.ended \cup past.cut \/ Of[p] \in past.late \cup past.early
Running(p) == p \in holders /\ ~Exempt(p)

\* A daemon has the handle of what was opened, and restores a session at a time.
AttachedInv(d) == \A p \in attached[d] : spawn[p].at # "no" /\ spawn[p].by # d
TodoInv(d) ==
    \A s \in restore[d].todo : /\ s \notin reg[d].open /\ s \notin pass[d].open /\ s \notin restore[d].at
                              /\ \A p \in attached[d] : Of[p] # s
PlanInv(d) == \A p \in restore[d].plan : Of[p] \in restore[d].at /\ p \notin attached[d]
CopyInv(d) == pass[d].todo \subseteq pass[d].open \/ pass[d].at = "archive"
RestoreInv == \A d \in Daemons : AttachedInv(d) /\ TodoInv(d) /\ PlanInv(d) /\ CopyInv(d)

\* ... and what the owner of the store restores it has, and so has its document.
PlannedInv ==
    \A d \in Daemons : d = lease =>
        \A p \in restore[d].plan :
            p \in reg[d].panes /\ (p \in doc[Of[p]].panes \/ Exempt(p) \/ Of[p] \in past.stale)

\* A pane is in the registry of the daemon that opens it.
OpenInv ==
    \A p \in Panes :
        /\ spawn[p].at \in {"entered", "dir", "launch", "persist", "write"} /\ Requires(spawn[p].by) =>
              p \in reg[spawn[p].by].panes \/ Exempt(p)
        /\ spawn[p].at = "write" => p \in spawn[p].doc.panes \/ Exempt(p)
        /\ spawn[p].doc.here => spawn[p].at = "write"
        /\ spawn[p].doc.panes \subseteq In(Of[p])
        /\ ~spawn[p].doc.here => spawn[p].doc.panes = {}

\* A pane that a human ends is recorded before it leaves the registry, or is cut.
KillInv ==
    Requires(kill.by) => \A p \in kill.panes :
        \/ p \in past.ended \cup past.cut
        \/ p \in kill.todo /\ p \in reg[kill.by].panes
        \/ p \notin reg[kill.by].panes /\ spawn[p].at # "no"

\* The registry has what runs, and so have the copies of it what is still in it.
RegistryInv ==
    \A p \in Panes : Running(p) =>
        \E d \in Daemons : d = lease /\
          /\ p \in pass[d].panes => p \in reg[d].panes
          /\ \A q \in Panes : spawn[q].by = d /\ p \in spawn[q].doc.panes => p \in reg[d].panes
          /\ Of[p] \notin past.stale =>
                \/ p \in reg[d].panes
                \/ p \in doc[Of[p]].panes /\ (Of[p] \in restore[d].todo \/ stage[d] = "gone")
                \/ spawn[p].at \in {"persist", "write"} /\ spawn[p].by # d

\* ... and so has the document.
FoundInv ==
    \A p \in Panes : Running(p) =>
        \/ p \in doc[Of[p]].panes \/ Of[p] \in past.stale
        \/ spawn[p].at \in {"persist", "write"}

Promises == ArchivedAreOver /\ EndedStaysEnded

\* The inductive invariant
IndInv == Typed /\ StagesInv /\ UnbornInv /\ DiskInv /\ EndsInv /\ OverInv /\ RestoreInv
          /\ PlannedInv /\ OpenInv /\ KillInv /\ RegistryInv /\ FoundInv /\ Promises
-----------------------------------------------------------------------------
(* What the steps do to the history.                                       *)

Grows == /\ past.ended \subseteq past'.ended /\ past.cut \subseteq past'.cut /\ past.late \subseteq past'.late
         /\ past.early \subseteq past'.early /\ past.gone \subseteq past'.gone /\ past.raced \subseteq past'.raced

\* Steps that only count or note something
LEMMA NoteLemma ==
    ASSUME past \in History,
           \/ past' = [past EXCEPT !.upsets = @ + 1]
           \/ past' = [past EXCEPT !.kills = @ + 1]
           \/ past' = [past EXCEPT !.refused = TRUE]
           \/ past' = [past EXCEPT !.overlap = TRUE, !.upsets = @ + 1]
    PROVE  /\ past' \in History /\ Grows
           /\ past'.ended = past.ended /\ past'.cut = past.cut /\ past'.late = past.late
           /\ past'.early = past.early /\ past'.gone = past.gone /\ past'.raced = past.raced
           /\ past'.strays = past.strays /\ past'.ghosts = past.ghosts /\ past'.stale = past.stale
<1>1. CASE past' = [past EXCEPT !.upsets = @ + 1]
  BY <1>1 DEF History, Grows
<1>2. CASE past' = [past EXCEPT !.kills = @ + 1]
  BY <1>2 DEF History, Grows
<1>3. CASE past' = [past EXCEPT !.refused = TRUE]
  BY <1>3 DEF History, Grows
<1>4. CASE past' = [past EXCEPT !.overlap = TRUE, !.upsets = @ + 1]
  <2>1. PICK n \in Nat : n = past.upsets + 1
    BY DEF History
  <2>2. PICK t \in BOOLEAN : t = TRUE
    OBVIOUS
  <2>3. past' = [past EXCEPT !.overlap = t, !.upsets = n]
    BY <1>4, <2>1, <2>2
  <2>. QED
    BY <2>3 DEF History, Grows
<1>. QED
  BY <1>1, <1>2, <1>3, <1>4

\* Nothing is noted but what is counted.
Unharmed ==
    /\ past'.ended = past.ended /\ past'.cut = past.cut /\ past'.late = past.late
    /\ past'.early = past.early /\ past'.gone = past.gone /\ past'.raced = past.raced
    /\ past'.strays = past.strays /\ past'.ghosts = past.ghosts /\ past'.stale = past.stale

LEMMA UpsetLemma ==
    ASSUME NEW h \in History, Upset(h)
    PROVE  /\ past' \in History
           /\ past'.ended = h.ended /\ past'.cut = h.cut /\ past'.late = h.late
           /\ past'.early = h.early /\ past'.gone = h.gone /\ past'.raced = h.raced
           /\ past'.strays = h.strays /\ past'.ghosts = h.ghosts /\ past'.stale = h.stale
  BY DEF Upset, History

\* What the disk refuses is noted where it matters: for a document, an end, a
\* verdict and a tombstone.
LEMMA RefusedLemma ==
    ASSUME past \in History, Upset(past)
    PROVE  past' \in History /\ Grows /\ Unharmed
  BY UpsetLemma DEF Grows, Unharmed

LEMMA StaleLemma ==
    ASSUME past \in History, NEW s \in Sessions, Upset([past EXCEPT !.stale = past.stale \cup {s}])
    PROVE  /\ past' \in History /\ Grows /\ past'.stale = past.stale \cup {s}
           /\ past'.ended = past.ended /\ past'.cut = past.cut /\ past'.late = past.late /\ past'.early = past.early
           /\ past'.gone = past.gone /\ past'.raced = past.raced /\ past'.strays = past.strays /\ past'.ghosts = past.ghosts
<1>. DEFINE h == [past EXCEPT !.stale = past.stale \cup {s}]
<1>1. /\ h \in History /\ h.stale = past.stale \cup {s}
      /\ h.ended = past.ended /\ h.cut = past.cut /\ h.late = past.late /\ h.early = past.early
      /\ h.gone = past.gone /\ h.raced = past.raced /\ h.strays = past.strays /\ h.ghosts = past.ghosts
  BY DEF History
<1>. HIDE DEF h
<1>2. Upset(h)
  BY DEF h
<1>. QED
  BY <1>1, <1>2, UpsetLemma DEF Grows

LEMMA CutLemma ==
    ASSUME past \in History, NEW X \in SUBSET Panes, Upset([past EXCEPT !.cut = past.cut \cup X])
    PROVE  /\ past' \in History /\ Grows /\ past'.cut = past.cut \cup X
           /\ past'.ended = past.ended /\ past'.late = past.late /\ past'.early = past.early /\ past'.gone = past.gone
           /\ past'.raced = past.raced /\ past'.strays = past.strays /\ past'.ghosts = past.ghosts /\ past'.stale = past.stale
<1>. DEFINE h == [past EXCEPT !.cut = past.cut \cup X]
<1>1. /\ h \in History /\ h.cut = past.cut \cup X
      /\ h.ended = past.ended /\ h.late = past.late /\ h.early = past.early /\ h.gone = past.gone
      /\ h.raced = past.raced /\ h.strays = past.strays /\ h.ghosts = past.ghosts /\ h.stale = past.stale
  BY DEF History
<1>. HIDE DEF h
<1>2. Upset(h)
  BY DEF h
<1>. QED
  BY <1>1, <1>2, UpsetLemma DEF Grows

LEMMA EarlyLemma ==
    ASSUME past \in History, NEW X \in SUBSET Sessions, Upset([past EXCEPT !.early = past.early \cup X])
    PROVE  /\ past' \in History /\ Grows /\ past'.early = past.early \cup X
           /\ past'.ended = past.ended /\ past'.cut = past.cut /\ past'.late = past.late /\ past'.gone = past.gone
           /\ past'.raced = past.raced /\ past'.strays = past.strays /\ past'.ghosts = past.ghosts /\ past'.stale = past.stale
<1>. DEFINE h == [past EXCEPT !.early = past.early \cup X]
<1>1. /\ h \in History /\ h.early = past.early \cup X
      /\ h.ended = past.ended /\ h.cut = past.cut /\ h.late = past.late /\ h.gone = past.gone
      /\ h.raced = past.raced /\ h.strays = past.strays /\ h.ghosts = past.ghosts /\ h.stale = past.stale
  BY DEF History
<1>. HIDE DEF h
<1>2. Upset(h)
  BY DEF h
<1>. QED
  BY <1>1, <1>2, UpsetLemma DEF Grows

LEMMA RacedLemma ==
    ASSUME past \in History, NEW X \in SUBSET Panes, Upset([past EXCEPT !.raced = past.raced \cup X])
    PROVE  /\ past' \in History /\ Grows /\ past'.raced = past.raced \cup X
           /\ past'.ended = past.ended /\ past'.cut = past.cut /\ past'.late = past.late /\ past'.early = past.early
           /\ past'.gone = past.gone /\ past'.strays = past.strays /\ past'.ghosts = past.ghosts /\ past'.stale = past.stale
<1>. DEFINE h == [past EXCEPT !.raced = past.raced \cup X]
<1>1. /\ h \in History /\ h.raced = past.raced \cup X
      /\ h.ended = past.ended /\ h.cut = past.cut /\ h.late = past.late /\ h.early = past.early
      /\ h.gone = past.gone /\ h.strays = past.strays /\ h.ghosts = past.ghosts /\ h.stale = past.stale
  BY DEF History
<1>. HIDE DEF h
<1>2. Upset(h)
  BY DEF h
<1>. QED
  BY <1>1, <1>2, UpsetLemma DEF Grows

\* What a document that is written leaves.
LEMMA WriteLemma ==
    ASSUME Typed, NEW d, NEW s \in Sessions, NEW P \in SUBSET Panes, WriteDoc(d, s, P)
    PROVE  /\ doc' = [doc EXCEPT ![s] = Doc(P)] /\ doc' \in [Sessions -> DocRecord]
           /\ doc'[s].here /\ doc'[s].panes = P /\ \A t \in Sessions \ {s} : doc'[t] = doc[t]
           /\ past' \in History /\ Grows
           /\ past'.ended = past.ended /\ past'.cut = past.cut /\ past'.early = past.early
           /\ past'.gone = past.gone /\ past'.raced = past.raced
           /\ past'.strays = past.strays /\ past'.ghosts = past.ghosts
           /\ past.late \subseteq past'.late
           /\ d # lease \/ s \in past.gone => s \in past'.late
           /\ \A t \in Sessions \ {s} : t \in past'.stale <=> t \in past.stale
           /\ ~(reg[d].panes \cap In(s) \subseteq P) => s \in past'.stale
           /\ s \in past'.stale \/ s \notin past.stale \/ (holders \cap In(s)) \ past.ended \subseteq P
<1>1. past \in History /\ doc \in [Sessions -> DocRecord]
  BY DEF Typed
<1>2. Doc(P) \in DocRecord /\ Doc(P).here /\ Doc(P).panes = P
  BY DEF Doc, DocRecord
<1>. DEFINE late  == IF d # lease \/ s \in past.gone THEN past.late \cup {s} ELSE past.late
            stale == IF ~(reg[d].panes \cap In(s) \subseteq P) THEN past.stale \cup {s}
                     ELSE IF (holders \cap In(s)) \ past.ended \subseteq P THEN past.stale \ {s} ELSE past.stale
<1>3. late \subseteq Sessions /\ stale \subseteq Sessions
  BY <1>1 DEF History
<1>4. past' = [past EXCEPT !.late = late, !.stale = stale]
  BY DEF WriteDoc
<1>5. /\ past.late \subseteq late /\ (d # lease \/ s \in past.gone => s \in late)
      /\ \A t \in Sessions \ {s} : t \in stale <=> t \in past.stale
      /\ ~(reg[d].panes \cap In(s) \subseteq P) => s \in stale
      /\ s \in stale \/ s \notin past.stale \/ (holders \cap In(s)) \ past.ended \subseteq P
  <2>1. past.late \subseteq late /\ (d # lease \/ s \in past.gone => s \in late)
    OBVIOUS
  <2>2. CASE ~(reg[d].panes \cap In(s) \subseteq P)
    <3>1. stale = past.stale \cup {s}
      BY <2>2
    <3>. QED
      BY <2>1, <3>1
  <2>3. CASE reg[d].panes \cap In(s) \subseteq P /\ (holders \cap In(s)) \ past.ended \subseteq P
    <3>1. stale = past.stale \ {s}
      BY <2>3
    <3>. QED
      BY <2>1, <2>3, <3>1
  <2>4. CASE reg[d].panes \cap In(s) \subseteq P /\ ~((holders \cap In(s)) \ past.ended \subseteq P)
    <3>1. stale = past.stale
      BY <2>4
    <3>. QED
      BY <2>1, <2>4, <3>1
  <2>. QED
    BY <2>2, <2>3, <2>4
<1>. HIDE DEF late, stale
<1>6. past' \in History /\ past'.late = late /\ past'.stale = stale
      /\ past'.ended = past.ended /\ past'.cut = past.cut /\ past'.early = past.early
      /\ past'.gone = past.gone /\ past'.raced = past.raced
      /\ past'.strays = past.strays /\ past'.ghosts = past.ghosts
  BY <1>1, <1>3, <1>4 DEF History
<1>. QED
  BY <1>1, <1>2, <1>5, <1>6 DEF WriteDoc, Grows

\* ... one that is archived, ...
LEMMA ArchiveLemma ==
    ASSUME Typed, NEW s \in Sessions, Archive(s)
    PROVE  /\ dirs' = dirs \ {s} /\ pdirs' = pdirs \ In(s) /\ tomb' = tomb \ In(s)
           /\ doc' \in [Sessions -> DocRecord]
           /\ ~doc'[s].here /\ doc'[s].panes = {} /\ \A t \in Sessions \ {s} : doc'[t] = doc[t]
           /\ past' \in History /\ Grows
           /\ past'.ended = past.ended /\ past'.cut = past.cut /\ past'.early = past.early
           /\ past'.raced = past.raced /\ past'.ghosts = past.ghosts /\ past'.stale = past.stale
           /\ s \in dirs => s \in past'.gone
           /\ \A t \in past'.gone : t \in past.gone \/ (t = s /\ s \in dirs)
           /\ (\E d \in Daemons \ {lease} : s \in pass[d].over) => s \in past'.late
           /\ \A p \in past'.strays : \/ p \in past.strays
                                      \/ /\ p \in pdirs /\ p \in In(s) /\ p \notin past.ended
                                         /\ \E d \in Daemons : s \in pass[d].over
<1>1. past \in History /\ doc \in [Sessions -> DocRecord] /\ pdirs \subseteq Panes
  BY DEF Typed
<1>2. NoDoc \in DocRecord /\ ~NoDoc.here /\ NoDoc.panes = {}
  BY DEF NoDoc, DocRecord
<1>. DEFINE gone   == IF s \in dirs THEN past.gone \cup {s} ELSE past.gone
            late   == IF \E d \in Daemons \ {lease} : s \in pass[d].over THEN past.late \cup {s} ELSE past.late
            strays == IF \E d \in Daemons : s \in pass[d].over
                      THEN past.strays \cup ((pdirs \cap In(s) \cap holders) \ past.ended) ELSE past.strays
<1>3. gone \subseteq Sessions /\ late \subseteq Sessions /\ strays \subseteq Panes
  BY <1>1 DEF History
<1>4. past' = [past EXCEPT !.gone = gone, !.late = late, !.strays = strays]
  BY DEF Archive
<1>5. /\ past.gone \subseteq gone /\ past.late \subseteq late
      /\ s \in dirs => s \in gone
      /\ \A t \in gone : t \in past.gone \/ (t = s /\ s \in dirs)
      /\ (\E d \in Daemons \ {lease} : s \in pass[d].over) => s \in late
      /\ \A p \in strays : \/ p \in past.strays
                           \/ /\ p \in pdirs /\ p \in In(s) /\ p \notin past.ended
                              /\ \E d \in Daemons : s \in pass[d].over
  OBVIOUS
<1>. HIDE DEF gone, late, strays
<1>6. past' \in History /\ past'.late = late /\ past'.gone = gone /\ past'.strays = strays
      /\ past'.ended = past.ended /\ past'.cut = past.cut /\ past'.early = past.early
      /\ past'.raced = past.raced /\ past'.ghosts = past.ghosts /\ past'.stale = past.stale
  BY <1>1, <1>3, <1>4 DEF History
<1>. QED
  BY <1>1, <1>2, <1>5, <1>6 DEF Archive, Grows

\* ... and panes whose end is recorded.
LEMMA EndsLemma ==
    ASSUME Typed, NEW P \in SUBSET Panes
    PROVE  /\ EndsKnown(P) \in History
           /\ EndsKnown(P).ended = past.ended \cup P /\ past.raced \subseteq EndsKnown(P).raced
           /\ \A p \in P, d \in Daemons : p \in restore[d].plan => p \in EndsKnown(P).raced
           /\ EndsKnown(P).cut = past.cut /\ EndsKnown(P).early = past.early /\ EndsKnown(P).late = past.late
           /\ EndsKnown(P).gone = past.gone /\ EndsKnown(P).strays = past.strays
           /\ EndsKnown(P).ghosts = past.ghosts /\ EndsKnown(P).stale = past.stale
           /\ EndsKnown(P).kills = past.kills /\ EndsKnown(P).upsets = past.upsets
<1>1. past \in History
  BY DEF Typed
<1>. DEFINE raced == past.raced \cup {p \in P : \E d \in Daemons : p \in restore[d].plan}
            ended == past.ended \cup P
<1>2. ended \subseteq Panes /\ raced \subseteq Panes
  BY <1>1 DEF History
<1>3. EndsKnown(P) = [past EXCEPT !.ended = ended, !.raced = raced]
  BY DEF EndsKnown
<1>4. past.raced \subseteq raced /\ \A p \in P, d \in Daemons : p \in restore[d].plan => p \in raced
  OBVIOUS
<1>. HIDE DEF raced
<1>. QED
  BY <1>1, <1>2, <1>3, <1>4 DEF History

\* A directory of a pane that is made.
LEMMA MadeLemma ==
    ASSUME Typed, NEW p \in Panes, MadeLate(p), Of[p] \in Sessions
    PROVE  /\ past' \in History /\ Grows
           /\ past'.ended = past.ended /\ past'.cut = past.cut /\ past'.late = past.late
           /\ past'.gone = past.gone /\ past'.raced = past.raced /\ past'.strays = past.strays
           /\ past'.ghosts = past.ghosts /\ past'.stale = past.stale
           /\ p \notin pdirs /\ (\E d \in Daemons : Of[p] \in pass[d].over) => Of[p] \in past'.early
<1>1. past \in History
  BY DEF Typed
<1>. DEFINE early == IF p \notin pdirs /\ \E d \in Daemons : Of[p] \in pass[d].over
                     THEN past.early \cup {Of[p]} ELSE past.early
<1>2. early \subseteq Sessions /\ past.early \subseteq early
      /\ (p \notin pdirs /\ (\E d \in Daemons : Of[p] \in pass[d].over) => Of[p] \in early)
  BY <1>1 DEF History
<1>3. past' = [past EXCEPT !.early = early]
  <2>1. past.early = early => past = [past EXCEPT !.early = early]
    BY <1>1 DEF History
  <2>. QED
    BY <2>1 DEF MadeLate
<1>. HIDE DEF early
<1>. QED
  BY <1>1, <1>2, <1>3 DEF History, Grows
-----------------------------------------------------------------------------
(* Types.                                                                  *)

LEMMA Empties ==
    /\ NoDoc \in DocRecord /\ NoReg \in [open : SUBSET Sessions, panes : SUBSET Panes]
    /\ NoRestore \in RestoreRecord /\ NoSpawn \in SpawnRecord /\ NoKill \in KillRecord /\ NoPass \in PassRecord
    /\ \A p \in Panes : Of[p] \in Sessions /\ (\A s \in Sessions : p \in In(s) <=> Of[p] = s)
    /\ \A P \in SUBSET Panes : Doc(P) \in DocRecord
    /\ lease \in 0..MaxStarts => \A d \in Daemons : d \in Nat \ {0} /\ (d = lease => lease # 0)
    /\ 0 \notin Daemons
  BY ConstantsAssumption DEF NoDoc, NoReg, NoRestore, NoSpawn, NoKill, NoPass, DocRecord, RestoreRecord,
     SpawnRecord, KillRecord, PassRecord, In, Daemons, Doc

\* Steps of opening a pane.
LEMMA OpenTypes ==
    ASSUME Typed, NEW p \in Panes, (\E d \in Daemons : NewPane(d, p)) \/ PaneSteps(p)
    PROVE  Typed' /\ Grows
<1>. USE Empties DEF runtime, requests, persister, disk, shells, daemon
<1>0. /\ spawn \in [Panes -> SpawnRecord] /\ spawn[p] \in SpawnRecord /\ past \in History
      /\ reg \in [Daemons -> [open : SUBSET Sessions, panes : SUBSET Panes]]
      /\ spawn[p].by # 0 => spawn[p].by \in Daemons
  BY DEF Typed, SpawnRecord
<1>a. (Up' = Up) \/ ~(UNCHANGED stage)
  BY DEF Up
<1>b. past' = past => Grows
  BY DEF Grows
<1>1. ASSUME NEW d \in Daemons, NewPane(d, p) PROVE Typed' /\ Grows
  <2>1. [spawn[p] EXCEPT !.at = "entered", !.by = d] \in SpawnRecord
    BY <1>0 DEF SpawnRecord
  <2>2. [open |-> reg[d].open \cup {Of[p]}, panes |-> reg[d].panes \cup {p}]
          \in [open : SUBSET Sessions, panes : SUBSET Panes]
    BY <1>0
  <2>3. spawn' \in [Panes -> SpawnRecord] /\ reg' \in [Daemons -> [open : SUBSET Sessions, panes : SUBSET Panes]]
    BY <1>0, <1>1, <2>1, <2>2 DEF NewPane
  <2>. QED
    BY <1>a, <1>b, <1>1, <2>3 DEF NewPane, Typed
<1>2. CASE MakeSessionDir(p)
  <2>1. [spawn[p] EXCEPT !.at = "dir"] \in SpawnRecord
    BY <1>0 DEF SpawnRecord
  <2>2. spawn' \in [Panes -> SpawnRecord]
    BY <1>0, <1>2, <2>1 DEF MakeSessionDir
  <2>. QED
    BY <1>a, <1>b, <1>2, <2>2 DEF MakeSessionDir, Typed
<1>3. CASE MakePaneDir(p)
  <2>1. [spawn[p] EXCEPT !.at = "launch"] \in SpawnRecord
    BY <1>0 DEF SpawnRecord
  <2>2. spawn' \in [Panes -> SpawnRecord]
    BY <1>0, <1>3, <2>1 DEF MakePaneDir
  <2>3. past' \in History /\ Grows
    BY <1>3, MadeLemma DEF MakePaneDir
  <2>. QED
    BY <1>a, <1>3, <2>2, <2>3 DEF MakePaneDir, Typed
<1>4. CASE Launch(p)
  <2>1. [spawn[p] EXCEPT !.at = "persist"] \in SpawnRecord
    BY <1>0 DEF SpawnRecord
  <2>2. spawn' \in [Panes -> SpawnRecord]
    BY <1>0, <1>4, <2>1 DEF Launch
  <2>3. past' \in History /\ Grows
    BY <1>4, MadeLemma DEF Launch
  <2>. QED
    BY <1>a, <1>4, <2>2, <2>3 DEF Launch, Typed
<1>5. CASE RunLocally(p)
  <2>. DEFINE t == Requires(spawn[p].by) /\ p \in reg[spawn[p].by].panes
  <2>1. t \in BOOLEAN
    OBVIOUS
  <2>2. spawn' = [spawn EXCEPT ![p].at = "persist", ![p].tomb = t]
    BY <1>5 DEF RunLocally
  <2>. HIDE DEF t
  <2>3. [spawn[p] EXCEPT !.at = "persist", !.tomb = t] \in SpawnRecord
    BY <1>0, <2>1 DEF SpawnRecord
  <2>4. spawn' \in [Panes -> SpawnRecord]
    BY <1>0, <2>2, <2>3
  <2>5. past' \in History /\ Grows
    <3>1. CASE UNCHANGED past
      BY <1>0, <1>b, <3>1
    <3>2. CASE Upset(past)
      BY <1>0, <3>2, RefusedLemma
    <3>. QED
      BY <1>5, <3>1, <3>2 DEF RunLocally
  <2>6. local' \in [Daemons -> SUBSET Panes]
    <3>1. \A d \in Daemons : local[d] \cup {p} \in SUBSET Panes
      BY DEF Typed
    <3>2. local \in [Daemons -> SUBSET Panes]
      BY DEF Typed
    <3>3. local' = [local EXCEPT ![spawn[p].by] = @ \cup {p}]
      BY <1>5 DEF RunLocally
    <3>. QED
      BY <3>1, <3>2, <3>3
  <2>. QED
    BY <1>a, <1>5, <2>4, <2>5, <2>6 DEF RunLocally, Typed
<1>6. CASE CopySession(p)
  <2>. DEFINE copy == IF Requires(spawn[p].by) /\ Of[p] \in reg[spawn[p].by].open
                        THEN Doc(reg[spawn[p].by].panes \cap In(Of[p])) ELSE NoDoc
  <2>1. copy \in DocRecord
    BY <1>0 DEF In
  <2>2. spawn' = [spawn EXCEPT ![p].at = "write", ![p].doc = copy]
    BY <1>6 DEF CopySession
  <2>. HIDE DEF copy
  <2>3. [spawn[p] EXCEPT !.at = "write", !.doc = copy] \in SpawnRecord
    BY <1>0, <2>1 DEF SpawnRecord
  <2>4. spawn' \in [Panes -> SpawnRecord]
    BY <1>0, <2>2, <2>3
  <2>5. past' \in History /\ Grows
    <3>1. CASE UNCHANGED past
      BY <1>0, <1>b, <3>1
    <3>2. CASE past' = [past EXCEPT !.cut = @ \cup {p}]
      BY <1>0, <3>2 DEF History, Grows
    <3>. QED
      BY <1>6, <3>1, <3>2 DEF CopySession
  <2>. QED
    BY <1>a, <1>6, <2>4, <2>5 DEF CopySession, Typed
<1>7. CASE PersistSessionNow(p)
  <2>1. [spawn[p] EXCEPT !.at = "opened", !.doc = NoDoc] \in SpawnRecord
    BY <1>0 DEF SpawnRecord
  <2>2. spawn' \in [Panes -> SpawnRecord]
    BY <1>0, <1>7, <2>1 DEF PersistSessionNow
  <2>3. spawn[p].doc.panes \in SUBSET Panes
    BY <1>0 DEF SpawnRecord, DocRecord
  <2>4. past' \in History /\ Grows /\ doc' \in [Sessions -> DocRecord] /\ dirs' \subseteq Sessions
    <3>0. CASE Refuses([past EXCEPT !.stale = @ \cup {Of[p]}])
      <4>1. Of[p] \in Sessions /\ Upset([past EXCEPT !.stale = past.stale \cup {Of[p]}])
        BY <3>0 DEF Refuses
      <4>. QED
        BY <1>0, <3>0, <4>1, StaleLemma DEF Typed, Refuses
    <3>1. CASE UNCHANGED <<dirs, doc, past>>
      BY <1>b, <3>1 DEF Typed
    <3>2. CASE WriteDoc(spawn[p].by, Of[p], spawn[p].doc.panes) /\ dirs' = dirs \cup {Of[p]}
      <4>1. Of[p] \in Sessions /\ dirs' \subseteq Sessions
        BY <3>2 DEF Typed
      <4>2. past' \in History /\ Grows /\ doc' \in [Sessions -> DocRecord]
        <5>1. PICK s \in Sessions, P \in SUBSET Panes : \E d : WriteDoc(d, s, P)
          BY <2>3, <3>2, <4>1
        <5>. QED
          BY <5>1, WriteLemma
      <4>. QED
        BY <4>1, <4>2
    <3>. QED
      BY <1>7, <3>0, <3>1, <3>2 DEF PersistSessionNow
  <2>5. UNCHANGED <<pdirs, tomb>>
    BY <1>7 DEF PersistSessionNow, Refuses
  <2>. QED
    BY <1>a, <1>7, <2>2, <2>4, <2>5 DEF PersistSessionNow, Typed
<1>8. CASE Opened(p)
  <2>1. [NoSpawn EXCEPT !.at = "done", !.tomb = spawn[p].tomb] \in SpawnRecord
    BY <1>0 DEF SpawnRecord
  <2>2. spawn' \in [Panes -> SpawnRecord]
    BY <1>0, <1>8, <2>1 DEF Opened
  <2>3. attached' \in [Daemons -> SUBSET Panes] /\ local' \in [Daemons -> SUBSET Panes]
    <3>1. attached \in [Daemons -> SUBSET Panes] /\ local \in [Daemons -> SUBSET Panes]
      BY DEF Typed
    <3>a. \A d \in Daemons : /\ attached[d] \in SUBSET Panes /\ attached[d] \cup {p} \in SUBSET Panes
                             /\ local[d] \in SUBSET Panes /\ local[d] \ {p} \in SUBSET Panes
      BY <3>1
    <3>2. attached' = [attached EXCEPT ![spawn[p].by] = attached[spawn[p].by] \cup {p}]
          \/ attached' = [attached EXCEPT ![spawn[p].by] = attached[spawn[p].by]]
      BY <1>8 DEF Opened
    <3>3. local' = [local EXCEPT ![spawn[p].by] = local[spawn[p].by] \ {p}]
          \/ local' = [local EXCEPT ![spawn[p].by] = local[spawn[p].by]]
      BY <1>8 DEF Opened
    <3>4. attached' \in [Daemons -> SUBSET Panes]
      BY <3>1, <3>a, <3>2
    <3>5. local' \in [Daemons -> SUBSET Panes]
      BY <3>1, <3>a, <3>3
    <3>. QED
      BY <3>4, <3>5
  <2>. QED
    BY <1>a, <1>b, <1>8, <2>2, <2>3 DEF Opened, Typed
<1>. QED
  BY <1>1, <1>2, <1>3, <1>4, <1>5, <1>6, <1>7, <1>8 DEF PaneSteps

\* Steps of ending panes.
EndSteps == \/ \E d \in Daemons, p \in Panes : KillPane(d, p)
            \/ \E d \in Daemons, s \in Sessions : KillSession(d, s) \/ Reap(d, s)
            \/ \E p \in Panes : ShellExits(p)
            \/ KillSteps

LEMMA RecordLemma ==
    ASSUME Typed, NEW P \in SUBSET Panes, RecordEnds(P)
    PROVE  /\ dirs' \subseteq Sessions /\ pdirs' \subseteq Panes /\ tomb' \subseteq Panes /\ UNCHANGED doc
  BY Empties DEF RecordEnds, Typed

\* Ends that are noted
EndsNoted(P) ==
    /\ past' \in History /\ Grows
    /\ past'.ended = past.ended \cup P
    /\ \A p \in P, d \in Daemons : p \in restore[d].plan => p \in past'.raced
    /\ past'.late = past.late /\ past'.early = past.early /\ past'.gone = past.gone
    /\ past'.strays = past.strays /\ past'.ghosts = past.ghosts /\ past'.stale = past.stale

\* A human end is recorded, or it is cut, or it is not the store's.
LEMMA HumanEndLemma ==
    ASSUME Typed, NEW p \in Panes, RecordHumanEnd(p)
    PROVE  \/ RecordEnds({p}) /\ EndsNoted({p}) /\ past'.cut = past.cut
           \/ /\ UNCHANGED disk /\ past' \in History /\ Grows /\ past'.cut = past.cut \cup {p}
              /\ past'.ended = past.ended /\ past'.late = past.late /\ past'.early = past.early /\ past'.gone = past.gone
              /\ past'.raced = past.raced /\ past'.strays = past.strays /\ past'.ghosts = past.ghosts /\ past'.stale = past.stale
           \/ UNCHANGED <<disk, past>> /\ ~(Requires(kill.by) /\ p \in reg[kill.by].panes)
<1>1. \/ RecordEnds({p}) /\ past' = EndsKnown({p})
      \/ Refuses([past EXCEPT !.cut = past.cut \cup {p}])
      \/ UNCHANGED <<disk, past>> /\ ~(Requires(kill.by) /\ p \in reg[kill.by].panes)
  BY DEF RecordHumanEnd
<1>2. past \in History /\ {p} \in SUBSET Panes
  BY DEF Typed
<1>3. CASE RecordEnds({p}) /\ past' = EndsKnown({p})
  BY <1>2, <1>3, EndsLemma DEF EndsNoted, Grows
<1>4. CASE Refuses([past EXCEPT !.cut = past.cut \cup {p}])
  BY <1>2, <1>4, CutLemma DEF Refuses
<1>. QED
  BY <1>1, <1>3, <1>4

\* A shell that exits is recorded, or not; ...
LEMMA ExitLemma ==
    ASSUME Typed, NEW p \in Panes, ShellExits(p)
    PROVE  \E P \in SUBSET {p} : RecordEnds(P) /\ EndsNoted(P) /\ past'.cut = past.cut
<1>1. PICK P \in SUBSET {q \in {p} : q \in holders \/ spawn[q].tomb} : RecordEnds(P) /\ Upset(EndsKnown(P))
  BY DEF ShellExits
<1>2. P \in SUBSET Panes /\ P \in SUBSET {p}
  BY <1>1
<1>3. EndsKnown(P) \in History
  BY <1>2, EndsLemma
<1>4. EndsNoted(P) /\ past'.cut = past.cut
  BY <1>1, <1>2, <1>3, EndsLemma, UpsetLemma DEF EndsNoted, Grows
<1>. QED
  BY <1>1, <1>2, <1>4

\* ... so are those that a kill tells to end; what else leaves the registry with
\* them is cut.
LEMMA FinishLemma ==
    ASSUME Typed, StagesInv, FinishKill
    PROVE  \E P \in SUBSET (kill.panes \cap attached[kill.by] \cap holders) :
             /\ RecordEnds(P) /\ EndsNoted(P)
             /\ past'.cut = past.cut \cup {p \in reg[kill.by].panes \ kill.panes : Of[p] \in kill.whole}
                                     \cup (IF Requires(kill.by) THEN {} ELSE kill.panes)
<1>. DEFINE told == kill.panes \cap attached[kill.by] \cap holders
            cut  == past.cut \cup {p \in reg[kill.by].panes \ kill.panes : Of[p] \in kill.whole}
                             \cup (IF Requires(kill.by) THEN {} ELSE kill.panes)
            known(P) == [EndsKnown(P) EXCEPT !.cut = cut]
<1>0. kill.by \in Daemons /\ kill.panes \subseteq Panes /\ kill.whole \subseteq Sessions
      /\ reg[kill.by].panes \subseteq Panes /\ past \in History
  BY Empties DEF FinishKill, Typed, KillRecord, StagesInv
<1>1. told \subseteq Panes /\ cut \subseteq Panes /\ past.cut \subseteq cut
  BY <1>0 DEF History
<1>2. PICK P \in SUBSET told : /\ RecordEnds(P)
                               /\ IF P = told THEN past' = [EndsKnown(told) EXCEPT
                                                            !.cut = @ \cup {p \in reg[kill.by].panes \ kill.panes : Of[p] \in kill.whole}
                                                                      \cup (IF Requires(kill.by) THEN {} ELSE kill.panes)]
                                  ELSE Upset([EndsKnown(P) EXCEPT
                                                !.cut = @ \cup {p \in reg[kill.by].panes \ kill.panes : Of[p] \in kill.whole}
                                                          \cup (IF Requires(kill.by) THEN {} ELSE kill.panes)])
  BY DEF FinishKill
<1>3. P \in SUBSET Panes
  BY <1>1, <1>2
<1>4. EndsKnown(P).cut = past.cut /\ EndsKnown(P) \in History
  BY <1>3, EndsLemma
<1>5. past' = known(P) \/ Upset(known(P))
  BY <1>2, <1>4
<1>. HIDE DEF cut, told
<1>6. /\ known(P) \in History /\ known(P).cut = cut
      /\ known(P).ended = EndsKnown(P).ended /\ known(P).late = EndsKnown(P).late
      /\ known(P).early = EndsKnown(P).early /\ known(P).gone = EndsKnown(P).gone
      /\ known(P).raced = EndsKnown(P).raced /\ known(P).strays = EndsKnown(P).strays
      /\ known(P).ghosts = EndsKnown(P).ghosts /\ known(P).stale = EndsKnown(P).stale
  BY <1>1, <1>4 DEF History
<1>. HIDE DEF known
<1>7. /\ past' \in History /\ past'.cut = cut
      /\ past'.ended = EndsKnown(P).ended /\ past'.late = EndsKnown(P).late
      /\ past'.early = EndsKnown(P).early /\ past'.gone = EndsKnown(P).gone
      /\ past'.raced = EndsKnown(P).raced /\ past'.strays = EndsKnown(P).strays
      /\ past'.ghosts = EndsKnown(P).ghosts /\ past'.stale = EndsKnown(P).stale
  BY <1>5, <1>6, UpsetLemma
<1>8. EndsNoted(P)
  BY <1>1, <1>3, <1>7, EndsLemma DEF EndsNoted, Grows
<1>. QED
  BY <1>2, <1>7, <1>8 DEF told, cut

LEMMA EndTypes ==
    ASSUME Typed, StagesInv, EndSteps
    PROVE  Typed' /\ Grows
<1>. USE Empties DEF runtime, requests, persister, disk, shells, daemon
<1>0. /\ reg \in [Daemons -> [open : SUBSET Sessions, panes : SUBSET Panes]] /\ past \in History
      /\ attached \in [Daemons -> SUBSET Panes] /\ local \in [Daemons -> SUBSET Panes] /\ kill \in KillRecord
      /\ kill.panes \subseteq Panes /\ kill.whole \subseteq Sessions /\ kill.todo \subseteq Panes
  BY DEF Typed, KillRecord
<1>a. (Up' = Up) \/ ~(UNCHANGED stage)
  BY DEF Up
<1>b. past' = past => Grows
  BY DEF Grows
<1>1. ASSUME NEW d \in Daemons, NEW P \in SUBSET Panes, NEW W \in SUBSET Sessions, BeginKill(d, P, W)
      PROVE  Typed' /\ Grows
  <2>1. kill' \in KillRecord
    BY <1>1 DEF BeginKill, KillRecord
  <2>2. past' \in History /\ Grows
    BY <1>0, <1>1, NoteLemma DEF BeginKill
  <2>. QED
    BY <1>a, <1>1, <2>1, <2>2 DEF BeginKill, Typed
<1>2. ASSUME NEW p \in Panes, RecordHumanEnd(p) PROVE Typed' /\ Grows
  <2>1. kill' \in KillRecord
    <3>1. [kill EXCEPT !.todo = kill.todo \ {p}] \in KillRecord
      BY <1>0 DEF KillRecord
    <3>. QED
      BY <1>2, <3>1 DEF RecordHumanEnd
  <2>2. /\ past' \in History /\ Grows
        /\ dirs' \subseteq Sessions /\ pdirs' \subseteq Panes /\ tomb' \subseteq Panes /\ UNCHANGED doc
    <3>1. CASE UNCHANGED <<disk, past>>
      BY <1>0, <1>b, <3>1 DEF Typed
    <3>2. CASE RecordEnds({p}) /\ past' = EndsKnown({p})
      <4>1. past' \in History /\ Grows
        BY <3>2, EndsLemma DEF Grows
      <4>. QED
        BY <3>2, <4>1, RecordLemma
    <3>3. CASE Refuses([past EXCEPT !.cut = @ \cup {p}])
      <4>1. {p} \in SUBSET Panes /\ Upset([past EXCEPT !.cut = past.cut \cup {p}])
        BY <3>3 DEF Refuses
      <4>. QED
        BY <1>0, <3>3, <4>1, CutLemma DEF Typed, Refuses
    <3>. QED
      BY <1>2, <3>1, <3>2, <3>3 DEF RecordHumanEnd
  <2>. QED
    BY <1>a, <1>2, <2>1, <2>2 DEF RecordHumanEnd, Typed
<1>3. CASE FinishKill
  <2>2. kill.by \in Daemons
    BY <1>3, <1>0 DEF FinishKill, KillRecord, StagesInv
  <2>4. PICK P \in SUBSET (kill.panes \cap attached[kill.by] \cap holders) : RecordEnds(P) /\ EndsNoted(P)
    BY <1>3, FinishLemma
  <2>5. past' \in History /\ Grows
    BY <2>4 DEF EndsNoted
  <2>6. dirs' \subseteq Sessions /\ pdirs' \subseteq Panes /\ tomb' \subseteq Panes /\ UNCHANGED doc
    <3>1. P \in SUBSET Panes
      BY <1>0, <2>4
    <3>. QED
      BY <2>4, <3>1, RecordLemma
  <2>7. /\ reg' \in [Daemons -> [open : SUBSET Sessions, panes : SUBSET Panes]]
        /\ attached' \in [Daemons -> SUBSET Panes] /\ local' \in [Daemons -> SUBSET Panes]
    BY <1>0, <1>3, <2>2 DEF FinishKill
  <2>. QED
    BY <1>a, <1>3, <2>5, <2>6, <2>7 DEF FinishKill, Typed
<1>4. ASSUME NEW p \in Panes, ShellExits(p) PROVE Typed' /\ Grows
  <2>1. PICK P \in SUBSET {p} : RecordEnds(P) /\ EndsNoted(P)
    BY <1>4, ExitLemma
  <2>2. past' \in History /\ Grows
    BY <2>1 DEF EndsNoted
  <2>3. dirs' \subseteq Sessions /\ pdirs' \subseteq Panes /\ tomb' \subseteq Panes /\ UNCHANGED doc
    <3>1. P \in SUBSET Panes
      BY <2>1
    <3>. QED
      BY <2>1, <3>1, RecordLemma
  <2>4. holders' \subseteq Panes /\ local' \in [Daemons -> SUBSET Panes]
    BY <1>0, <1>4 DEF ShellExits, Typed
  <2>. QED
    BY <1>a, <1>4, <2>2, <2>3, <2>4 DEF ShellExits, Typed
<1>5. ASSUME NEW d \in Daemons, NEW s \in Sessions, Reap(d, s) PROVE Typed' /\ Grows
  <2>1. /\ reg' \in [Daemons -> [open : SUBSET Sessions, panes : SUBSET Panes]]
        /\ attached' \in [Daemons -> SUBSET Panes]
    BY <1>0, <1>5 DEF Reap
  <2>. QED
    BY <1>a, <1>b, <1>5, <2>1 DEF Reap, Typed
<1>. QED
  <2>1. ASSUME NEW d \in Daemons, NEW p \in Panes, KillPane(d, p) PROVE Typed' /\ Grows
    BY <1>1, <2>1 DEF KillPane
  <2>2. ASSUME NEW d \in Daemons, NEW s \in Sessions, KillSession(d, s) PROVE Typed' /\ Grows
    <3>1. reg[d].panes \cap In(s) \in SUBSET Panes /\ {s} \in SUBSET Sessions
      BY <1>0
    <3>. QED
      BY <1>1, <2>2, <3>1 DEF KillSession
  <2>. QED
    BY <1>2, <1>3, <1>4, <1>5, <2>1, <2>2 DEF EndSteps, KillSteps

\* Steps of the persister.
LEMMA PassTypes ==
    ASSUME Typed, NEW d \in Daemons, PassSteps(d)
    PROVE  Typed' /\ Grows
<1>. USE Empties DEF runtime, requests, persister, disk, shells, daemon
<1>0. /\ reg[d] \in [open : SUBSET Sessions, panes : SUBSET Panes] /\ past \in History
      /\ pass \in [Daemons -> PassRecord] /\ pass[d] \in PassRecord
      /\ written \in [Daemons -> [Sessions -> DocRecord]] /\ dirs \subseteq Sessions
  BY DEF Typed
<1>a. (Up' = Up) \/ ~(UNCHANGED stage)
  BY DEF Up
<1>b. past' = past => Grows
  BY DEF Grows
<1>1. CASE BeginPass(d)
  <2>1. (stage[d] # "restoring") \in BOOLEAN
    OBVIOUS
  <2>2. [at |-> "write", todo |-> reg[d].open, open |-> reg[d].open, panes |-> reg[d].panes,
         over |-> {}, restored |-> stage[d] # "restoring"] \in PassRecord
    BY <1>0, <2>1 DEF PassRecord
  <2>3. pass' \in [Daemons -> PassRecord]
    BY <1>0, <1>1, <2>2 DEF BeginPass
  <2>. QED
    BY <1>a, <1>b, <1>1, <2>3 DEF BeginPass, Typed
<1>2. ASSUME NEW s \in Sessions, Persist(d, s) PROVE Typed' /\ Grows
  <2>. DEFINE seen == pass[d].panes \cap In(s)
  <2>1. seen \in SUBSET Panes
    BY <1>0 DEF PassRecord
  <2>2. [pass[d] EXCEPT !.todo = pass[d].todo \ {s}] \in PassRecord
    BY <1>0 DEF PassRecord
  <2>3. pass' \in [Daemons -> PassRecord]
    BY <1>0, <1>2, <2>2 DEF Persist
  <2>4. written' \in [Daemons -> [Sessions -> DocRecord]]
    <3>1. [written[d] EXCEPT ![s] = Doc(seen)] \in [Sessions -> DocRecord]
      BY <1>0, <2>1
    <3>2. CASE written' = [written EXCEPT ![d][s] = Doc(seen)]
      BY <1>0, <3>1, <3>2
    <3>3. CASE UNCHANGED written
      BY <1>0, <3>3
    <3>. QED
      BY <1>2, <3>2, <3>3 DEF Persist
  <2>5. past' \in History /\ Grows /\ doc' \in [Sessions -> DocRecord]
    <3>1. CASE UNCHANGED <<doc, past>>
      BY <1>b, <3>1 DEF Typed
    <3>2. CASE WriteDoc(d, s, seen)
      BY <2>1, <3>2, WriteLemma
    <3>3. CASE Refuses(past)
      BY <1>0, <3>3, RefusedLemma DEF Refuses, Typed
    <3>. QED
      BY <1>2, <3>1, <3>2, <3>3 DEF Persist
  <2>6. pdirs' \subseteq Panes /\ dirs' \subseteq Sessions /\ UNCHANGED tomb
    BY <1>2, <2>1 DEF Persist, Refuses, Typed
  <2>. QED
    BY <1>a, <1>2, <2>3, <2>4, <2>5, <2>6 DEF Persist, Typed
<1>3. CASE ListOnDisk(d)
  <2>1. [s \in Sessions |-> IF s \in pass[d].open THEN written[d][s] ELSE NoDoc] \in [Sessions -> DocRecord]
    BY <1>0
  <2>2. written' \in [Daemons -> [Sessions -> DocRecord]]
    BY <1>0, <1>3, <2>1 DEF ListOnDisk
  <2>3. [pass[d] EXCEPT !.at = "archive", !.todo = dirs \ pass[d].open] \in PassRecord
    BY <1>0 DEF PassRecord
  <2>4. pass' \in [Daemons -> PassRecord]
    BY <1>0, <1>3, <2>3 DEF ListOnDisk
  <2>. QED
    BY <1>a, <1>b, <1>3, <2>2, <2>4 DEF ListOnDisk, Typed
<1>4. ASSUME NEW s \in Sessions, Judge(d, s) PROVE Typed' /\ Grows
  <2>a. PICK unread \in {{}, {s}} :
           /\ pass' = [pass EXCEPT ![d].todo = @ \ {s}, ![d].over = IF SessionIsOver(s) THEN {s} ELSE unread]
           /\ IF unread = {} THEN UNCHANGED past ELSE Upset([past EXCEPT !.early = past.early \cup unread])
    BY <1>4 DEF Judge
  <2>. DEFINE over == IF SessionIsOver(s) THEN {s} ELSE unread
  <2>b. over \in SUBSET Sessions /\ unread \in SUBSET Sessions
    OBVIOUS
  <2>c. past' \in History /\ Grows
    <3>1. CASE UNCHANGED past
      BY <1>0, <1>b, <3>1
    <3>2. CASE Upset([past EXCEPT !.early = past.early \cup unread])
      BY <1>0, <2>b, <3>2, EarlyLemma
    <3>. QED
      BY <2>a, <3>1, <3>2
  <2>d. pass' = [pass EXCEPT ![d].todo = @ \ {s}, ![d].over = over]
    BY <2>a
  <2>. HIDE DEF over
  <2>1. [pass[d] EXCEPT !.todo = pass[d].todo \ {s}, !.over = over] \in PassRecord
    BY <1>0, <2>b DEF PassRecord
  <2>2. pass' \in [Daemons -> PassRecord]
    BY <1>0, <2>d, <2>1
  <2>. QED
    BY <1>a, <1>4, <2>c, <2>2 DEF Judge, Typed
<1>5. CASE Move(d)
  <2>1. [pass[d] EXCEPT !.over = {}] \in PassRecord
    BY <1>0 DEF PassRecord
  <2>2. pass' \in [Daemons -> PassRecord]
    BY <1>0, <1>5, <2>1 DEF Move
  <2>3. PICK s \in Sessions : Archive(s) \/ Refuses(past)
    BY <1>0, <1>5 DEF Move, PassRecord
  <2>4. past' \in History /\ Grows /\ doc' \in [Sessions -> DocRecord]
        /\ dirs' \subseteq Sessions /\ pdirs' \subseteq Panes /\ tomb' \subseteq Panes
    <3>1. CASE Archive(s)
      BY <3>1, ArchiveLemma DEF Typed
    <3>2. CASE Refuses(past)
      BY <1>0, <3>2, RefusedLemma DEF Refuses, Typed
    <3>. QED
      BY <2>3, <3>1, <3>2
  <2>. QED
    BY <1>a, <1>5, <2>2, <2>4 DEF Move, Typed
<1>6. CASE EndPass(d)
  BY <1>0, <1>a, <1>b, <1>6 DEF EndPass, Typed
<1>. QED
  BY <1>1, <1>2, <1>3, <1>4, <1>5, <1>6 DEF PassSteps

\* Steps of a start.
LEMMA StartTypes ==
    ASSUME Typed, NEW d \in Daemons,
           \/ \E s \in Sessions : RestoreSession(d, s)
           \/ \E p \in Panes : AttachRestored(d, p)
           \/ PersistRestored(d) \/ Restored(d) \/ Bind(d) \/ Stop(d) \/ Release(d)
    PROVE  Typed' /\ Grows
<1>. USE Empties DEF runtime, requests, persister, disk, shells, daemon
<1>0. /\ reg \in [Daemons -> [open : SUBSET Sessions, panes : SUBSET Panes]] /\ past \in History
      /\ restore \in [Daemons -> RestoreRecord] /\ restore[d] \in RestoreRecord
      /\ attached \in [Daemons -> SUBSET Panes] /\ doc \in [Sessions -> DocRecord]
      /\ stage \in [Daemons -> {"no", "restoring", "restored", "serving", "stopping", "gone"}]
  BY DEF Typed
<1>a. (Up' = Up) \/ ~(UNCHANGED stage)
  BY DEF Up
<1>b. past' = past => Grows
  BY DEF Grows
<1>1. ASSUME NEW s \in Sessions, RestoreSession(d, s) PROVE Typed' /\ Grows
  <2>2. CASE Returns(d, s)
    <3>0. PICK unread \in SUBSET (doc[s].panes \cap tomb) :
             /\ reg' = [reg EXCEPT ![d] = [open |-> @.open \cup {s}, panes |-> @.panes \cup (Back(s) \cup unread)]]
             /\ restore' = [restore EXCEPT ![d] = [todo |-> @.todo \ {s}, at |-> {s}, plan |-> Back(s) \cup unread]]
             /\ UNCHANGED disk
             /\ IF unread = {} THEN UNCHANGED past ELSE Upset([past EXCEPT !.raced = past.raced \cup unread])
      BY <2>2 DEF Returns
    <3>a. unread \in SUBSET Panes /\ Back(s) \in SUBSET Panes
      BY <1>0 DEF Back, DocRecord
    <3>b. past' \in History /\ Grows
      <4>1. CASE UNCHANGED past
        BY <1>0, <1>b, <4>1
      <4>2. CASE Upset([past EXCEPT !.raced = past.raced \cup unread])
        BY <1>0, <3>a, <4>2, RacedLemma
      <4>. QED
        BY <3>0, <4>1, <4>2
    <3>1. [open |-> reg[d].open \cup {s}, panes |-> reg[d].panes \cup (Back(s) \cup unread)]
            \in [open : SUBSET Sessions, panes : SUBSET Panes]
      BY <1>0, <3>a
    <3>2. [todo |-> restore[d].todo \ {s}, at |-> {s}, plan |-> Back(s) \cup unread] \in RestoreRecord
      BY <1>0, <3>a DEF RestoreRecord
    <3>3. reg' \in [Daemons -> [open : SUBSET Sessions, panes : SUBSET Panes]] /\ restore' \in [Daemons -> RestoreRecord]
      BY <1>0, <3>0, <3>1, <3>2
    <3>. QED
      BY <1>a, <1>1, <3>0, <3>b, <3>3 DEF RestoreSession, Typed
  <2>3. CASE Stays(d, s) \/ Leaves(d, s)
    <3>1. [restore[d] EXCEPT !.todo = restore[d].todo \ {s}] \in RestoreRecord
      BY <1>0 DEF RestoreRecord
    <3>0. restore' = [restore EXCEPT ![d].todo = @ \ {s}] /\ UNCHANGED reg
      BY <2>3 DEF Stays, Leaves
    <3>2. restore' \in [Daemons -> RestoreRecord] /\ UNCHANGED reg
      BY <1>0, <3>0, <3>1
    <3>3. past' \in History /\ Grows /\ doc' \in [Sessions -> DocRecord]
          /\ dirs' \subseteq Sessions /\ pdirs' \subseteq Panes /\ tomb' \subseteq Panes
      <4>1. CASE UNCHANGED <<disk, past>>
        BY <1>b, <4>1 DEF Typed
      <4>2. CASE Archive(s)
        BY <4>2, ArchiveLemma DEF Typed
      <4>3. CASE Refuses(past)
        BY <1>0, <4>3, RefusedLemma DEF Refuses, Typed
      <4>4. CASE Leaves(d, s)
        <5>1. past \in History /\ Upset([past EXCEPT !.stale = past.stale \cup {s}]) /\ UNCHANGED disk
          BY <1>0, <4>4 DEF Leaves, Refuses
        <5>. QED
          BY <5>1, StaleLemma DEF Typed
      <4>. QED
        BY <2>3, <4>1, <4>2, <4>3, <4>4 DEF Stays
    <3>. QED
      BY <1>a, <1>1, <3>2, <3>3 DEF RestoreSession, Typed
  <2>. QED
    BY <1>1, <2>2, <2>3 DEF RestoreSession
<1>2. ASSUME NEW p \in Panes, AttachRestored(d, p) PROVE Typed' /\ Grows
  <2>1. [restore[d] EXCEPT !.plan = restore[d].plan \ {p}] \in RestoreRecord
    BY <1>0 DEF RestoreRecord
  <2>2. restore' \in [Daemons -> RestoreRecord]
    BY <1>0, <1>2, <2>1 DEF AttachRestored
  <2>3. past' \in History /\ Grows /\ attached' \in [Daemons -> SUBSET Panes] /\ holders' \subseteq Panes
        /\ pdirs' \subseteq Panes /\ dirs' \subseteq Sessions /\ UNCHANGED <<tomb, doc>>
    <3>0. CASE Refuses(past) /\ UNCHANGED <<attached, holders>>
      BY <1>0, <3>0, RefusedLemma DEF Refuses, Typed
    <3>1. CASE /\ attached' = [attached EXCEPT ![d] = @ \cup {p}]
               /\ holders' = holders \cup {p}
               /\ pdirs' = pdirs \cup {p} /\ dirs' = dirs \cup {Of[p]} /\ UNCHANGED <<tomb, doc>>
               /\ past' = [past EXCEPT !.ghosts = IF p \in past.ended THEN @ \cup {p} ELSE @]
      <4>. DEFINE ghosts == IF p \in past.ended THEN past.ghosts \cup {p} ELSE past.ghosts
      <4>1. ghosts \subseteq Panes /\ past' = [past EXCEPT !.ghosts = ghosts]
        BY <1>0, <3>1 DEF History
      <4>. HIDE DEF ghosts
      <4>2. past' \in History /\ Grows
        BY <1>0, <4>1 DEF History, Grows
      <4>3. attached' \in [Daemons -> SUBSET Panes]
        BY <1>0, <3>1
      <4>4. holders' \subseteq Panes /\ pdirs' \subseteq Panes
        BY <3>1 DEF Typed
      <4>5. dirs' \subseteq Sessions
        BY <3>1, ConstantsAssumption DEF Typed
      <4>. QED
        BY <3>1, <4>2, <4>3, <4>4, <4>5
    <3>2. CASE UNCHANGED <<attached, holders, disk, past>>
      BY <1>0, <1>b, <3>2 DEF Typed
    <3>. QED
      BY <1>2, <3>0, <3>1, <3>2 DEF AttachRestored
  <2>. QED
    BY <1>a, <1>2, <2>2, <2>3 DEF AttachRestored, Typed
<1>3. CASE PersistRestored(d)
  <2>1. [restore[d] EXCEPT !.at = {}] \in RestoreRecord
    BY <1>0 DEF RestoreRecord
  <2>2. restore' \in [Daemons -> RestoreRecord]
    BY <1>0, <1>3, <2>1 DEF PersistRestored
  <2>3. past' \in History /\ Grows /\ doc' \in [Sessions -> DocRecord] /\ dirs' \subseteq Sessions
        /\ UNCHANGED <<pdirs, tomb>>
    <3>1. PICK s \in Sessions :
            \/ WriteDoc(d, s, reg[d].panes \cap In(s)) /\ dirs' = dirs \cup {s} /\ UNCHANGED <<pdirs, tomb>>
            \/ Refuses(past) \/ UNCHANGED <<disk, past>>
      BY <1>0, <1>3 DEF PersistRestored, RestoreRecord
    <3>0. CASE Refuses(past)
      BY <1>0, <3>0, RefusedLemma DEF Refuses, Typed
    <3>2. CASE UNCHANGED <<disk, past>>
      BY <1>b, <3>2 DEF Typed
    <3>3. CASE WriteDoc(d, s, reg[d].panes \cap In(s)) /\ dirs' = dirs \cup {s} /\ UNCHANGED <<pdirs, tomb>>
      <4>1. reg[d].panes \cap In(s) \in SUBSET Panes
        BY <1>0
      <4>2. past' \in History /\ Grows /\ doc' \in [Sessions -> DocRecord]
        BY <3>3, <4>1, WriteLemma
      <4>. QED
        BY <3>3, <4>2 DEF Typed
    <3>. QED
      BY <3>0, <3>1, <3>2, <3>3
  <2>. QED
    BY <1>a, <1>3, <2>2, <2>3 DEF PersistRestored, Typed
<1>4. ASSUME NEW g \in {"restored", "serving", "stopping"}, stage[d] \notin {"no", "gone"},
             stage' = [stage EXCEPT ![d] = g]
      PROVE  Up' = Up /\ stage' \in [Daemons -> {"no", "restoring", "restored", "serving", "stopping", "gone"}]
  BY <1>0, <1>4 DEF Up
<1>5. CASE Restored(d)
  BY <1>b, <1>4, <1>5 DEF Restored, Typed
<1>6. CASE Bind(d)
  BY <1>b, <1>4, <1>6 DEF Bind, Typed
<1>7. CASE Stop(d)
  <2>1. past' \in History /\ Grows
    BY <1>0, <1>7, RefusedLemma DEF Stop
  <2>. QED
    BY <1>4, <1>7, <2>1 DEF Stop, Typed
<1>8. CASE Release(d)
  <2>1. attached' \in [Daemons -> SUBSET Panes]
    BY <1>0, <1>8 DEF Release
  <2>. QED
    BY <1>a, <1>b, <1>8, <2>1 DEF Release, Typed
<1>. QED
  BY <1>1, <1>2, <1>3, <1>5, <1>6, <1>7, <1>8

\* The ends of daemons, and the start of one.
LEMMA DaemonTypes ==
    ASSUME Typed, Start \/ Reboot \/ \E d \in Daemons : Crash(d) \/ Refuse(d)
    PROVE  Typed' /\ Grows
<1>. USE Empties DEF runtime, requests, persister, disk, shells, daemon
<1>0. /\ reg \in [Daemons -> [open : SUBSET Sessions, panes : SUBSET Panes]] /\ past \in History
      /\ restore \in [Daemons -> RestoreRecord] /\ attached \in [Daemons -> SUBSET Panes]
      /\ local \in [Daemons -> SUBSET Panes] /\ spawn \in [Panes -> SpawnRecord] /\ kill \in KillRecord
      /\ pass \in [Daemons -> PassRecord] /\ written \in [Daemons -> [Sessions -> DocRecord]]
      /\ stage \in [Daemons -> {"no", "restoring", "restored", "serving", "stopping", "gone"}]
      /\ durable \subseteq Up /\ lease \in 0..MaxStarts
  BY DEF Typed
<1>b. past' = past => Grows
  BY DEF Grows
<1>1. ASSUME NEW D \in SUBSET Daemons, Gone(D), past' \in History, holders' \subseteq Panes,
             UNCHANGED <<lease, disk>>
      PROVE  Typed'
  <2>1. /\ stage' \in [Daemons -> {"no", "restoring", "restored", "serving", "stopping", "gone"}]
        /\ \A d \in Daemons \ D : stage'[d] = stage[d]
    BY <1>0, <1>1 DEF Gone
  <2>2. durable' \subseteq Up'
    BY <1>0, <1>1, <2>1 DEF Gone, Up
  <2>3. spawn' \in [Panes -> SpawnRecord]
    <3>1. [NoSpawn EXCEPT !.at = "done"] \in SpawnRecord
      BY DEF SpawnRecord
    <3>. QED
      BY <1>0, <1>1, <3>1 DEF Gone
  <2>4. /\ reg' \in [Daemons -> [open : SUBSET Sessions, panes : SUBSET Panes]]
        /\ restore' \in [Daemons -> RestoreRecord] /\ attached' \in [Daemons -> SUBSET Panes]
    BY <1>0, <1>1 DEF Gone
  <2>5. local' \in [Daemons -> SUBSET Panes] /\ kill' \in KillRecord /\ pass' \in [Daemons -> PassRecord]
    BY <1>0, <1>1 DEF Gone
  <2>6. written' \in [Daemons -> [Sessions -> DocRecord]]
    BY <1>0, <1>1 DEF Gone
  <2>. QED
    BY <1>1, <2>1, <2>2, <2>3, <2>4, <2>5, <2>6 DEF Typed
<1>2. ASSUME NEW D \in SUBSET Daemons, past' = [past EXCEPT !.cut = @ \cup Interrupted(D)]
      PROVE  past' \in History /\ Grows
  <2>1. Interrupted(D) \subseteq Panes
    BY DEF Interrupted
  <2>. QED
    BY <1>0, <1>2, <2>1 DEF History, Grows
<1>3. CASE Start
  <2>1. lease' = lease + 1 /\ lease' \in 0..MaxStarts /\ lease' \in Daemons
    BY <1>0, <1>3, ConstantsAssumption DEF Start, Daemons
  <2>2. /\ stage' \in [Daemons -> {"no", "restoring", "restored", "serving", "stopping", "gone"}]
        /\ durable' \subseteq Up'
    BY <1>0, <1>3, <2>1 DEF Start, Up
  <2>3. restore' \in [Daemons -> RestoreRecord]
    <3>1. [NoRestore EXCEPT !.todo = dirs] \in RestoreRecord
      BY DEF Typed, RestoreRecord
    <3>. QED
      BY <1>0, <1>3, <2>1, <3>1 DEF Start
  <2>4. past' \in History /\ Grows
    <3>1. CASE past' = past
      BY <1>0, <1>b, <3>1
    <3>2. CASE past' = [past EXCEPT !.overlap = TRUE, !.upsets = @ + 1]
      BY <1>0, <3>2, NoteLemma
    <3>. QED
      BY <1>3, <3>1, <3>2 DEF Start
  <2>. QED
    BY <1>3, <2>1, <2>2, <2>3, <2>4 DEF Start, Typed
<1>4. CASE Reboot
  <2>1. Up \in SUBSET Daemons
    BY DEF Up
  <2>2. past' \in History /\ Grows
    BY <1>2, <1>4, <2>1 DEF Reboot
  <2>. QED
    BY <1>1, <1>4, <2>1, <2>2 DEF Reboot
<1>5. ASSUME NEW d \in Daemons, Crash(d) PROVE Typed' /\ Grows
  <2>1. {d} \in SUBSET Daemons
    OBVIOUS
  <2>2. past' \in History /\ Grows
    BY <1>2, <1>5, <2>1 DEF Crash
  <2>. QED
    BY <1>1, <1>5, <2>1, <2>2 DEF Crash, Typed
<1>6. ASSUME NEW d \in Daemons, Refuse(d) PROVE Typed' /\ Grows
  <2>1. {d} \in SUBSET Daemons
    OBVIOUS
  <2>a. past' = [past EXCEPT !.refused = TRUE]
    BY <1>6 DEF Refuse
  <2>2. past' \in History /\ Grows
    BY <1>0, <2>a, NoteLemma
  <2>. QED
    BY <1>1, <1>6, <2>1, <2>2 DEF Refuse, Typed
<1>. QED
  BY <1>3, <1>4, <1>5, <1>6

\* Types are kept, and what is recorded of the past stays so.
LEMMA TypesKept == Typed /\ StagesInv /\ [Next]_vars => Typed' /\ Grows
<1>. SUFFICES ASSUME Typed, StagesInv, [Next]_vars PROVE Typed' /\ Grows
  OBVIOUS
<1>1. CASE UNCHANGED vars
  BY <1>1 DEF vars, daemon, runtime, shells, disk, requests, persister, Typed, Up, Grows
<1>2. CASE \E p \in Panes : (\E d \in Daemons : NewPane(d, p)) \/ PaneSteps(p)
  BY <1>2, OpenTypes
<1>3. CASE EndSteps
  BY <1>3, EndTypes
<1>4. CASE \E d \in Daemons : PassSteps(d)
  BY <1>4, PassTypes
<1>5. CASE \E d \in Daemons : StartSteps(d) \/ Ends(d)
  BY <1>5, StartTypes, DaemonTypes DEF StartSteps, Ends
<1>6. CASE Start \/ Reboot
  BY <1>6, DaemonTypes
<1>. QED
  BY <1>1, <1>2, <1>3, <1>4, <1>5, <1>6 DEF Next, EndSteps
-----------------------------------------------------------------------------
(* Stages.                                                                 *)

\* What the proofs about a step take from the types
LEMMA Shapes ==
    ASSUME Typed
    PROVE  /\ lease \in 0..MaxStarts /\ past \in History /\ kill \in KillRecord
           /\ stage \in [Daemons -> {"no", "restoring", "restored", "serving", "stopping", "gone"}]
           /\ durable \subseteq Up /\ Up \subseteq Daemons
           /\ reg \in [Daemons -> [open : SUBSET Sessions, panes : SUBSET Panes]]
           /\ attached \in [Daemons -> SUBSET Panes] /\ restore \in [Daemons -> RestoreRecord]
           /\ local \in [Daemons -> SUBSET Panes]
           /\ spawn \in [Panes -> SpawnRecord] /\ pass \in [Daemons -> PassRecord]
           /\ doc \in [Sessions -> DocRecord]
           /\ kill.by \in Daemons \cup {0} /\ \A p \in Panes : spawn[p].by \in Daemons \cup {0}
  BY DEF Typed, Up, SpawnRecord, KillRecord

\* The steps, one by one
OpeningSteps(p) == \/ MakeSessionDir(p) \/ MakePaneDir(p) \/ Launch(p) \/ RunLocally(p) \/ CopySession(p)
                   \/ PersistSessionNow(p)
StageSteps(d)   == Restored(d) \/ Bind(d) \/ Stop(d) \/ Release(d)

LEMMA Steps ==
    ASSUME [Next]_vars
    PROVE  \/ UNCHANGED vars \/ FinishKill \/ Start \/ Reboot
           \/ \E d \in Daemons, p \in Panes : NewPane(d, p)
           \/ \E p \in Panes : OpeningSteps(p)
           \/ \E p \in Panes : Opened(p)
           \/ \E d \in Daemons, p \in Panes : BeginKill(d, {p}, {})
           \/ \E d \in Daemons, s \in Sessions : s \in reg[d].open /\ BeginKill(d, reg[d].panes \cap In(s), {s})
           \/ \E p \in Panes : RecordHumanEnd(p)
           \/ \E p \in Panes : ShellExits(p)
           \/ \E d \in Daemons, s \in Sessions : Reap(d, s)
           \/ \E d \in Daemons : PassSteps(d)
           \/ \E d \in Daemons, s \in Sessions : RestoreSession(d, s)
           \/ \E d \in Daemons, p \in Panes : AttachRestored(d, p)
           \/ \E d \in Daemons : PersistRestored(d)
           \/ \E d \in Daemons : StageSteps(d)
           \/ \E d \in Daemons : Crash(d) \/ Refuse(d)
<1>1. CASE \E d \in Daemons : PassSteps(d) \/ StartSteps(d) \/ Ends(d)
  BY <1>1 DEF StartSteps, Ends, StageSteps
<1>2. CASE \E p \in Panes : PaneSteps(p) \/ ShellExits(p)
  BY <1>2 DEF PaneSteps, OpeningSteps
<1>3. CASE KillSteps
  BY <1>3 DEF KillSteps
<1>4. CASE \E d \in Daemons, p \in Panes : NewPane(d, p) \/ KillPane(d, p)
  BY <1>4 DEF KillPane
<1>5. CASE \E d \in Daemons, s \in Sessions : KillSession(d, s) \/ Reap(d, s)
  BY <1>5 DEF KillSession
<1>. QED
  BY <1>1, <1>2, <1>3, <1>4, <1>5 DEF Next

\* Daemons that end leave nothing.
LEMMA GoneStages ==
    ASSUME Typed, StagesInv, NEW D \in SUBSET Up, Gone(D), UNCHANGED lease
    PROVE  StagesInv'
<1>. USE Shapes, Empties
<1>1. D \subseteq Daemons
  BY DEF Up
<1>2. ASSUME NEW d \in Daemons PROVE StageOf(d)'
  <2>1. CASE d \in D
    BY <1>1, <2>1 DEF Gone, StagesInv, StageOf, Up, NoPass, NoReg, NoRestore
  <2>2. CASE d \notin D
    BY <1>1, <2>2 DEF Gone, StagesInv, StageOf, Up
  <2>. QED
    BY <2>1, <2>2
<1>3. ASSUME NEW p \in Panes
      PROVE  /\ spawn'[p].by # 0 => stage'[spawn'[p].by] \in {"serving", "stopping"}
             /\ spawn'[p].by # 0 <=> spawn'[p].at \notin {"no", "done"}
  <2>1. CASE spawn[p].by \in D
    BY <2>1 DEF Gone, NoSpawn
  <2>2. CASE spawn[p].by \notin D
    BY <2>2 DEF Gone, StagesInv
  <2>. QED
    BY <2>1, <2>2
<1>4. kill' # NoKill => kill'.by # 0 /\ stage'[kill'.by] \in {"serving", "stopping"}
  BY DEF Gone, StagesInv
<1>. QED
  BY <1>2, <1>3, <1>4 DEF StagesInv

LEMMA StagesKept == Typed /\ StagesInv /\ [Next]_vars => StagesInv'
<1>. SUFFICES ASSUME Typed, StagesInv, [Next]_vars PROVE StagesInv'
  OBVIOUS
<1>. USE Shapes, Empties DEF runtime, requests, persister, disk, shells, daemon, StagesInv
<1>1. CASE UNCHANGED vars
  BY <1>1 DEF vars, StageOf
<1>2. ASSUME NEW d \in Daemons, NEW p \in Panes, NewPane(d, p) PROVE StagesInv'
  BY <1>2 DEF NewPane, StageOf, Clients
<1>3. ASSUME NEW p \in Panes, OpeningSteps(p) PROVE StagesInv'
  <2>1. UNCHANGED <<daemon, runtime, restore, kill, persister>>
    BY <1>3 DEF OpeningSteps, MakeSessionDir, MakePaneDir, Launch, RunLocally, CopySession, PersistSessionNow
  <2>2. /\ \A q \in Panes \ {p} : spawn'[q] = spawn[q]
        /\ spawn'[p].by = spawn[p].by /\ spawn[p].at \notin {"no", "done"} /\ spawn'[p].at \notin {"no", "done"}
    <3>1. CASE MakeSessionDir(p)
      BY <3>1 DEF MakeSessionDir, SpawnRecord
    <3>2. CASE MakePaneDir(p)
      BY <3>2 DEF MakePaneDir, SpawnRecord
    <3>3. CASE Launch(p)
      BY <3>3 DEF Launch, SpawnRecord
    <3>4. CASE RunLocally(p)
      BY <3>4 DEF RunLocally, SpawnRecord
    <3>5. CASE CopySession(p)
      BY <3>5 DEF CopySession, SpawnRecord
    <3>6. CASE PersistSessionNow(p)
      BY <3>6 DEF PersistSessionNow, SpawnRecord
    <3>. QED
      BY <1>3, <3>1, <3>2, <3>3, <3>4, <3>5, <3>6 DEF OpeningSteps
  <2>3. \A q \in Panes : /\ spawn'[q].by # 0 => stage'[spawn'[q].by] \in {"serving", "stopping"}
                         /\ spawn'[q].by # 0 <=> spawn'[q].at \notin {"no", "done"}
    BY <2>1, <2>2
  <2>4. \A d \in Daemons : StageOf(d)'
    BY <2>1 DEF StageOf
  <2>. QED
    BY <2>1, <2>3, <2>4
<1>4. ASSUME NEW p \in Panes, Opened(p) PROVE StagesInv'
  <2>1. UNCHANGED <<daemon, reg, restore, kill, persister>>
    BY <1>4 DEF Opened
  <2>2. \A e \in Daemons : e # spawn[p].by => attached'[e] = attached[e]
    BY <1>4 DEF Opened
  <2>3. \A q \in Panes : /\ q # p => spawn'[q] = spawn[q]
                         /\ q = p => spawn[q].by # 0 /\ spawn'[q].by = 0 /\ spawn'[q].at = "done"
    BY <1>4 DEF Opened, NoSpawn
  <2>. QED
    BY <2>1, <2>2, <2>3 DEF StageOf
<1>5. ASSUME NEW d \in Daemons, NEW P, NEW W, BeginKill(d, P, W) PROVE StagesInv'
  BY <1>5 DEF BeginKill, Clients, StageOf
<1>6. ASSUME NEW p \in Panes, RecordHumanEnd(p) PROVE StagesInv'
  <2>1. kill # NoKill /\ kill'.by = kill.by
    BY <1>6 DEF RecordHumanEnd, NoKill, KillRecord
  <2>. QED
    BY <1>6, <2>1 DEF RecordHumanEnd, StageOf
<1>7. CASE FinishKill
  BY <1>7 DEF FinishKill, StageOf
<1>8. ASSUME NEW p \in Panes, ShellExits(p) PROVE StagesInv'
  BY <1>8 DEF ShellExits, StageOf
<1>9. ASSUME NEW d \in Daemons, NEW s \in Sessions, Reap(d, s) PROVE StagesInv'
  BY <1>9 DEF Reap, StageOf, Up
<1>10. ASSUME NEW d \in Daemons, PassSteps(d) PROVE StagesInv'
  <2>1. UNCHANGED <<daemon, runtime, restore, requests>> /\ \A e \in Daemons \ {d} : pass'[e] = pass[e]
    <3>1. ASSUME NEW s \in Sessions, Persist(d, s) \/ Judge(d, s)
          PROVE  UNCHANGED <<daemon, runtime, restore, requests>> /\ \A e \in Daemons \ {d} : pass'[e] = pass[e]
      BY <3>1 DEF Persist, Judge
    <3>2. ASSUME BeginPass(d) \/ ListOnDisk(d) \/ Move(d) \/ EndPass(d)
          PROVE  UNCHANGED <<daemon, runtime, restore, requests>> /\ \A e \in Daemons \ {d} : pass'[e] = pass[e]
      BY <3>2 DEF BeginPass, ListOnDisk, Move, EndPass
    <3>. QED
      BY <1>10, <3>1, <3>2 DEF PassSteps
  <2>2. StageOf(d)'
    <3>1. CASE BeginPass(d)
      <4>1. /\ stage[d] \notin {"no", "gone"} /\ pass'[d].over = {} /\ pass'[d].at = "write"
            /\ pass'[d].restored => stage[d] # "restoring"
        BY <3>1 DEF BeginPass, Up
      <4>. QED
        BY <2>1, <4>1 DEF StageOf
    <3>2. ASSUME NEW s \in Sessions, Persist(d, s) PROVE StageOf(d)'
      BY <3>2 DEF Persist, StageOf, PassRecord, NoPass
    <3>3. CASE ListOnDisk(d)
      BY <3>3 DEF ListOnDisk, StageOf, PassRecord, NoPass
    <3>4. ASSUME NEW s \in Sessions, Judge(d, s) PROVE StageOf(d)'
      BY <3>4 DEF Judge, StageOf, PassRecord, NoPass
    <3>5. CASE Move(d)
      BY <3>5 DEF Move, StageOf, PassRecord, NoPass
    <3>6. CASE EndPass(d)
      BY <3>6 DEF EndPass, StageOf, NoPass
    <3>. QED
      BY <1>10, <3>1, <3>2, <3>3, <3>4, <3>5, <3>6 DEF PassSteps
  <2>3. \A e \in Daemons \ {d} : StageOf(e)'
    BY <2>1 DEF StageOf
  <2>. QED
    BY <2>1, <2>2, <2>3
<1>11. CASE Start
  <2>1. lease' = lease + 1 /\ lease' \in Daemons /\ lease \in Nat /\ \A d \in Daemons : d \in Nat
    BY <1>11, ConstantsAssumption DEF Start, Daemons
  <2>2. stage[lease'] = "no"
    BY <2>1 DEF StageOf
  <2>a. /\ UNCHANGED <<reg, attached, pass>> /\ stage'[lease'] = "restoring"
        /\ \A d \in Daemons : d # lease' => stage'[d] = stage[d] /\ restore'[d] = restore[d]
        /\ \A d \in Daemons : d # lease' => (d \in durable' <=> d \in durable)
    BY <1>11, <2>1 DEF Start
  <2>b. \A d \in Daemons : d # lease' => (d > lease' <=> d > lease)
    BY <2>1
  <2>3. ASSUME NEW d \in Daemons PROVE StageOf(d)'
    <3>1. CASE d = lease'
      <4>1. pass[d] = NoPass /\ ~(lease' > lease')
        BY <2>1, <2>2, <3>1 DEF StageOf
      <4>. QED
        BY <2>a, <3>1, <4>1 DEF StageOf, NoPass
    <3>2. CASE d # lease'
      <4>1. /\ UNCHANGED <<reg, attached, pass>> /\ stage'[d] = stage[d] /\ restore'[d] = restore[d]
            /\ d \in durable' <=> d \in durable
        <5>1. stage'[d] = stage[d] /\ restore'[d] = restore[d]
          BY <2>a, <3>2
        <5>2. d \in durable' <=> d \in durable
          BY <2>a, <3>2
        <5>. QED
          BY <2>a, <5>1, <5>2
      <4>2. d > lease' <=> d > lease
        BY <2>b, <3>2
      <4>3. StageOf(d)
        OBVIOUS
      <4>. HIDE DEF StagesInv
      <4>. QED
        BY <4>1, <4>2, <4>3 DEF StageOf
    <3>. QED
      BY <3>1, <3>2
  <2>4. \A d \in Daemons : stage[d] \in {"serving", "stopping"} => stage'[d] = stage[d]
    BY <1>11, <2>1, <2>2 DEF Start
  <2>. QED
    BY <1>11, <2>3, <2>4 DEF Start
<1>12. ASSUME NEW d \in Daemons, NEW s \in Sessions, RestoreSession(d, s) PROVE StagesInv'
  <2>1. \/ /\ \E R : reg' = [reg EXCEPT ![d] = R]
           /\ \E R : restore' = [restore EXCEPT ![d] = R]
        \/ UNCHANGED reg /\ restore' = [restore EXCEPT ![d].todo = @ \ {s}]
    BY <1>12 DEF RestoreSession, Returns, Stays, Leaves
  <2>2. UNCHANGED <<daemon, attached, requests, pass>> /\ stage[d] = "restoring"
    BY <1>12 DEF RestoreSession
  <2>3. \A e \in Daemons \ {d} : reg'[e] = reg[e] /\ restore'[e] = restore[e]
    BY <2>1
  <2>. QED
    BY <2>2, <2>3 DEF StageOf
<1>13. ASSUME NEW d \in Daemons, NEW p \in Panes, AttachRestored(d, p) PROVE StagesInv'
  <2>1. UNCHANGED <<daemon, reg, requests, persister>>
    BY <1>13 DEF AttachRestored
  <2>2. stage[d] = "restoring"
    BY <1>13 DEF AttachRestored, StageOf, NoRestore
  <2>3. \A e \in Daemons \ {d} : attached'[e] = attached[e] /\ restore'[e] = restore[e]
    BY <1>13 DEF AttachRestored
  <2>. QED
    BY <2>1, <2>2, <2>3 DEF StageOf
<1>14. ASSUME NEW d \in Daemons, PersistRestored(d) PROVE StagesInv'
  <2>1. stage[d] = "restoring"
    BY <1>14 DEF PersistRestored, StageOf, NoRestore
  <2>. QED
    BY <1>14, <2>1 DEF PersistRestored, StageOf
<1>15. ASSUME NEW d \in Daemons, StageSteps(d) PROVE StagesInv'
  <2>1. /\ UNCHANGED <<lease, reg, restore, requests, persister>>
        /\ \A e \in Daemons \ {d} : stage'[e] = stage[e] /\ attached'[e] = attached[e]
        /\ stage'[d] \in {"restored", "serving", "stopping"} \/ stage'[d] = stage[d]
        /\ stage[d] \notin {"no", "gone"} /\ stage'[d] \notin {"no", "gone"}
        /\ durable' \subseteq durable
        /\ stage[d] = "restoring" => restore[d] = NoRestore \/ stage'[d] = stage[d]
        /\ stage[d] \in {"serving", "stopping"} => stage'[d] \in {"serving", "stopping"}
    BY <1>15 DEF StageSteps, Restored, Bind, Stop, Release, Up
  <2>2. \A e \in Daemons \ {d} : StageOf(e)'
    BY <2>1 DEF StageOf
  <2>3. StageOf(d)'
    BY <2>1 DEF StageOf
  <2>4. \A e \in Daemons : stage[e] \in {"serving", "stopping"} => stage'[e] \in {"serving", "stopping"}
    BY <2>1
  <2>. QED
    BY <2>1, <2>2, <2>3, <2>4
<1>16. ASSUME NEW d \in Daemons, Crash(d) \/ Refuse(d) PROVE StagesInv'
  <2>1. {d} \in SUBSET Up
    BY <1>16 DEF Crash, Refuse, Up
  <2>2. Gone({d}) /\ UNCHANGED lease
    BY <1>16 DEF Crash, Refuse
  <2>. QED
    BY <2>1, <2>2, GoneStages
<1>17. CASE Reboot
  BY <1>17, GoneStages DEF Reboot
<1>18. (\E d \in Daemons : \E P, W : BeginKill(d, P, W)) => StagesInv'
  BY <1>5
<1>. HIDE Shapes, Empties DEF StagesInv
<1>. QED
  BY <1>1, <1>2, <1>3, <1>4, <1>6, <1>7, <1>8, <1>9, <1>10, <1>11, <1>12, <1>13, <1>14, <1>15,
     <1>16, <1>17, <1>18, Steps
-----------------------------------------------------------------------------
(* Panes that were never opened.                                           *)

Named(p) == \/ p \in doc[Of[p]].panes
            \/ \E d \in Daemons : p \in reg[d].panes \/ p \in restore[d].plan \/ p \in pass[d].panes
            \/ \E q \in Panes : p \in spawn[q].doc.panes

LEMMA GoneNames ==
    ASSUME Typed, NEW D \in SUBSET Daemons, Gone(D), UNCHANGED disk, NEW p \in Panes
    PROVE  /\ spawn'[p].at = "no" => spawn[p].at = "no"
           /\ Named(p)' => Named(p)
<1>. USE Shapes
<1>1. spawn'[p].at = "no" => spawn[p].at = "no"
  BY DEF Gone, NoSpawn
<1>2. /\ \A d \in Daemons : /\ p \in reg'[d].panes => p \in reg[d].panes
                            /\ p \in restore'[d].plan => p \in restore[d].plan
                            /\ p \in pass'[d].panes => p \in pass[d].panes
      /\ \A q \in Panes : p \in spawn'[q].doc.panes => p \in spawn[q].doc.panes
  BY DEF Gone, NoSpawn, NoReg, NoRestore, NoPass, NoDoc
<1>. QED
  BY <1>1, <1>2 DEF Named, disk

LEMMA UnbornKept == IndInv /\ [Next]_vars => UnbornInv'
<1>. SUFFICES ASSUME IndInv, [Next]_vars PROVE UnbornInv'
  OBVIOUS
<1>0. Typed /\ DiskInv
  BY DEF IndInv
<1>z. SUFFICES ASSUME NEW p \in Panes
               PROVE  /\ spawn'[p].at = "no" => spawn[p].at = "no"
                      /\ spawn'[p].at = "no" => (Named(p)' => Named(p))
  <2>1. \A p \in Panes : spawn[p].at = "no" => ~Named(p)
    BY DEF IndInv, UnbornInv, Named
  <2>2. \A p \in Panes : spawn'[p].at = "no" => ~Named(p)'
    BY <1>z, <2>1
  <2>. QED
    BY <2>2 DEF UnbornInv, Named
<1>. USE <1>0, Shapes, Empties DEF runtime, requests, persister, disk, shells, daemon
<1>1. CASE UNCHANGED vars
  BY <1>1 DEF vars, Named
<1>2. ASSUME NEW d \in Daemons, NEW q \in Panes, NewPane(d, q)
      PROVE  spawn'[p].at = "no" => spawn[p].at = "no" /\ (Named(p)' => Named(p))
  <2>1. \A r \in Panes : spawn'[r].doc = spawn[r].doc /\ (spawn'[r].at = "no" => spawn[r].at = "no" /\ r # q)
    BY <1>2 DEF NewPane, SpawnRecord
  <2>2. \A e \in Daemons : p # q => (p \in reg'[e].panes => p \in reg[e].panes)
    BY <1>2 DEF NewPane
  <2>. QED
    BY <1>2, <2>1, <2>2 DEF NewPane, Named
<1>3. ASSUME NEW q \in Panes, OpeningSteps(q) \/ Opened(q)
      PROVE  spawn'[p].at = "no" => spawn[p].at = "no" /\ (Named(p)' => Named(p))
  <2>1. UNCHANGED <<reg, restore, pass>>
    BY <1>3 DEF OpeningSteps, MakeSessionDir, MakePaneDir, Launch, RunLocally, CopySession, PersistSessionNow, Opened
  <2>2. \A r \in Panes : spawn'[r].at = "no" => spawn[r].at = "no"
    <3>1. spawn'[q].at # "no" /\ \A r \in Panes \ {q} : spawn'[r] = spawn[r]
      <4>1. CASE MakeSessionDir(q) \/ MakePaneDir(q) \/ Launch(q)
        BY <4>1 DEF MakeSessionDir, MakePaneDir, Launch, SpawnRecord
      <4>2. CASE RunLocally(q) \/ CopySession(q) \/ PersistSessionNow(q)
        BY <4>2 DEF RunLocally, CopySession, PersistSessionNow, SpawnRecord
      <4>3. CASE Opened(q)
        BY <4>3 DEF Opened, NoSpawn
      <4>. QED
        BY <1>3, <4>1, <4>2, <4>3 DEF OpeningSteps
    <3>. QED
      BY <3>1
  <2>3. Named(p)' => Named(p)
    <3>1. CASE MakeSessionDir(q) \/ MakePaneDir(q) \/ Launch(q) \/ RunLocally(q)
      <4>1. \A r \in Panes : spawn'[r].doc = spawn[r].doc
        <5>1. CASE MakeSessionDir(q)
          BY <5>1 DEF MakeSessionDir, SpawnRecord
        <5>2. CASE MakePaneDir(q)
          BY <5>2 DEF MakePaneDir, SpawnRecord
        <5>3. CASE Launch(q)
          BY <5>3 DEF Launch, SpawnRecord
        <5>4. CASE RunLocally(q)
          BY <5>4 DEF RunLocally, SpawnRecord
        <5>. QED
          BY <3>1, <5>1, <5>2, <5>3, <5>4
      <4>2. UNCHANGED doc
        BY <3>1 DEF MakeSessionDir, MakePaneDir, Launch, RunLocally
      <4>. QED
        BY <2>1, <4>1, <4>2 DEF Named
    <3>2. CASE CopySession(q)
      <4>1. \A r \in Panes : p \in spawn'[r].doc.panes => \/ p \in spawn[r].doc.panes
                                                          \/ spawn[q].by \in Daemons /\ p \in reg[spawn[q].by].panes
        <5>. DEFINE copy == IF Requires(spawn[q].by) /\ Of[q] \in reg[spawn[q].by].open
                              THEN Doc(reg[spawn[q].by].panes \cap In(Of[q])) ELSE NoDoc
        <5>1. p \in copy.panes => spawn[q].by \in Daemons /\ p \in reg[spawn[q].by].panes
          BY DEF Doc, NoDoc, Requires, Up
        <5>2. spawn' = [spawn EXCEPT ![q].at = "write", ![q].doc = copy]
          BY <3>2 DEF CopySession
        <5>. HIDE DEF copy
        <5>3. spawn'[q].doc = copy /\ \A r \in Panes \ {q} : spawn'[r] = spawn[r]
          BY <5>2 DEF SpawnRecord
        <5>. QED
          BY <5>1, <5>3
      <4>. QED
        BY <2>1, <3>2, <4>1 DEF Named, CopySession
    <3>3. CASE PersistSessionNow(q)
      <4>1. \A r \in Panes : p \in spawn'[r].doc.panes => p \in spawn[r].doc.panes
        BY <3>3 DEF PersistSessionNow, SpawnRecord, NoDoc
      <4>2. p \in doc'[Of[p]].panes => p \in doc[Of[p]].panes \/ p \in spawn[q].doc.panes
        <5>1. UNCHANGED doc \/ doc' = [doc EXCEPT ![Of[q]] = Doc(spawn[q].doc.panes)]
          BY <3>3 DEF PersistSessionNow, WriteDoc, Refuses
        <5>2. Doc(spawn[q].doc.panes).panes = spawn[q].doc.panes
          BY DEF Doc
        <5>. QED
          BY <5>1, <5>2
      <4>. QED
        BY <2>1, <4>1, <4>2 DEF Named
    <3>4. CASE Opened(q)
      <4>1. \A r \in Panes : p \in spawn'[r].doc.panes => p \in spawn[r].doc.panes
        BY <3>4 DEF Opened, NoSpawn, NoDoc
      <4>. QED
        BY <2>1, <3>4, <4>1 DEF Named, Opened
    <3>. QED
      BY <1>3, <3>1, <3>2, <3>3, <3>4 DEF OpeningSteps
  <2>. QED
    BY <2>2, <2>3
<1>4. ASSUME \/ \E d \in Daemons : \E P, W : BeginKill(d, P, W)
             \/ \E q \in Panes : RecordHumanEnd(q) \/ ShellExits(q)
             \/ FinishKill \/ \E d \in Daemons, s \in Sessions : Reap(d, s)
      PROVE  UNCHANGED spawn /\ (Named(p)' => Named(p))
  <2>1. UNCHANGED <<spawn, restore, pass, doc>>
    <3>1. CASE \E d \in Daemons : \E P, W : BeginKill(d, P, W)
      BY <3>1 DEF BeginKill
    <3>2. CASE \E q \in Panes : RecordHumanEnd(q) \/ ShellExits(q)
      BY <3>2 DEF RecordHumanEnd, ShellExits, RecordEnds, Refuses
    <3>3. CASE FinishKill \/ \E d \in Daemons, s \in Sessions : Reap(d, s)
      BY <3>3 DEF FinishKill, Reap, RecordEnds
    <3>. QED
      BY <1>4, <3>1, <3>2, <3>3
  <2>2. \A e \in Daemons : reg'[e].panes \subseteq reg[e].panes
    <3>1. CASE \E d \in Daemons : \E P, W : BeginKill(d, P, W)
      BY <3>1 DEF BeginKill
    <3>2. CASE \E q \in Panes : RecordHumanEnd(q) \/ ShellExits(q)
      BY <3>2 DEF RecordHumanEnd, ShellExits, RecordEnds
    <3>3. CASE FinishKill
      BY <3>3 DEF FinishKill
    <3>4. CASE \E d \in Daemons, s \in Sessions : Reap(d, s)
      BY <3>4 DEF Reap
    <3>. QED
      BY <1>4, <3>1, <3>2, <3>3, <3>4
  <2>. QED
    BY <2>1, <2>2 DEF Named
<1>5. ASSUME NEW d \in Daemons, PassSteps(d)
      PROVE  UNCHANGED spawn /\ (Named(p)' => Named(p))
  <2>1. UNCHANGED <<spawn, reg, restore>>
    <3>1. ASSUME NEW s \in Sessions, Persist(d, s) \/ Judge(d, s) PROVE UNCHANGED <<spawn, reg, restore>>
      BY <3>1 DEF Persist, Judge
    <3>. QED
      BY <1>5, <3>1 DEF PassSteps, BeginPass, ListOnDisk, Move, EndPass
  <2>2. /\ \A e \in Daemons : p \in pass'[e].panes => p \in pass[e].panes \/ p \in reg[e].panes
        /\ p \in doc'[Of[p]].panes => p \in doc[Of[p]].panes \/ p \in pass[d].panes
    <3>1. CASE BeginPass(d)
      BY <3>1 DEF BeginPass
    <3>2. ASSUME NEW s \in Sessions, Persist(d, s)
          PROVE  /\ \A e \in Daemons : p \in pass'[e].panes => p \in pass[e].panes
                 /\ p \in doc'[Of[p]].panes => p \in doc[Of[p]].panes \/ p \in pass[d].panes
      <4>1. UNCHANGED doc \/ doc' = [doc EXCEPT ![s] = Doc(pass[d].panes \cap In(s))]
        BY <3>2 DEF Persist, WriteDoc, Refuses
      <4>2. Doc(pass[d].panes \cap In(s)).panes = pass[d].panes \cap In(s)
        BY DEF Doc
      <4>3. p \in doc'[Of[p]].panes => p \in doc[Of[p]].panes \/ p \in pass[d].panes
        <5>1. CASE Of[p] = s
          <6>1. doc'[s] = doc[s] \/ doc'[s] = Doc(pass[d].panes \cap In(s))
            BY <4>1
          <6>2. doc'[s].panes = doc[s].panes \/ doc'[s].panes = pass[d].panes \cap In(s)
            BY <4>2, <6>1
          <6>. QED
            BY <5>1, <6>2
        <5>2. CASE Of[p] # s
          BY <4>1, <5>2
        <5>. QED
          BY <5>1, <5>2
      <4>4. \A e \in Daemons : pass'[e].panes = pass[e].panes
        BY <3>2 DEF Persist, PassRecord
      <4>. QED
        BY <4>3, <4>4
    <3>3. CASE ListOnDisk(d)
      BY <3>3 DEF ListOnDisk, PassRecord, NoPass
    <3>4. ASSUME NEW s \in Sessions, Judge(d, s)
          PROVE  (\A e \in Daemons : p \in pass'[e].panes => p \in pass[e].panes) /\ UNCHANGED doc
      BY <3>4 DEF Judge, PassRecord
    <3>5. CASE Move(d)
      <4>1. PICK s \in Sessions : Archive(s) \/ UNCHANGED doc
        BY <3>5 DEF Move, PassRecord, Refuses
      <4>2. doc'[Of[p]].panes \subseteq doc[Of[p]].panes
        BY <4>1, ArchiveLemma
      <4>. QED
        BY <3>5, <4>2 DEF Move, PassRecord
    <3>6. CASE EndPass(d)
      BY <3>6 DEF EndPass, NoPass
    <3>. QED
      BY <1>5, <3>1, <3>2, <3>3, <3>4, <3>5, <3>6 DEF PassSteps
  <2>. QED
    BY <2>1, <2>2 DEF Named
<1>6. ASSUME NEW d \in Daemons, NEW s \in Sessions, RestoreSession(d, s)
      PROVE  UNCHANGED spawn /\ (Named(p)' => Named(p))
  <2>1. UNCHANGED <<spawn, pass>>
    BY <1>6 DEF RestoreSession
  <2>2. doc'[Of[p]].panes \subseteq doc[Of[p]].panes
    <3>1. UNCHANGED doc \/ Archive(s)
      BY <1>6 DEF RestoreSession, Returns, Stays, Leaves, Refuses
    <3>. QED
      BY <3>1, ArchiveLemma
  <2>3. \A e \in Daemons : /\ p \in reg'[e].panes => p \in reg[e].panes \/ p \in doc[Of[p]].panes
                           /\ p \in restore'[e].plan => p \in restore[e].plan \/ p \in doc[Of[p]].panes
    <3>1. CASE Returns(d, s)
      <4>1. PICK back \in SUBSET doc[s].panes :
              /\ reg' = [reg EXCEPT ![d] = [open |-> @.open \cup {s}, panes |-> @.panes \cup back]]
              /\ restore' = [restore EXCEPT ![d] = [todo |-> @.todo \ {s}, at |-> {s}, plan |-> back]]
        BY <3>1 DEF Returns, Back
      <4>2. p \in back => p \in doc[Of[p]].panes
        BY <4>1 DEF DiskInv
      <4>. QED
        BY <4>1, <4>2
    <3>2. CASE Stays(d, s) \/ Leaves(d, s)
      <4>1. restore' = [restore EXCEPT ![d].todo = @ \ {s}] /\ UNCHANGED reg
        BY <3>2 DEF Stays, Leaves
      <4>. QED
        BY <4>1 DEF RestoreRecord
    <3>. QED
      <4>1. Returns(d, s) \/ Stays(d, s) \/ Leaves(d, s)
        BY <1>6 DEF RestoreSession
      <4>. QED
        BY <3>1, <3>2, <4>1
  <2>. QED
    BY <2>1, <2>2, <2>3 DEF Named
<1>7. ASSUME NEW d \in Daemons, NEW q \in Panes, AttachRestored(d, q)
      PROVE  UNCHANGED spawn /\ (Named(p)' => Named(p))
  BY <1>7 DEF AttachRestored, Refuses, Named, RestoreRecord
<1>8. ASSUME NEW d \in Daemons, PersistRestored(d)
      PROVE  UNCHANGED spawn /\ (Named(p)' => Named(p))
  <2>1. p \in doc'[Of[p]].panes => p \in doc[Of[p]].panes \/ p \in reg[d].panes
    <3>0. PICK s \in restore[d].at : WriteDoc(d, s, reg[d].panes \cap In(s)) \/ UNCHANGED doc
      BY <1>8 DEF PersistRestored, Refuses
    <3>1. doc' = [doc EXCEPT ![s] = Doc(reg[d].panes \cap In(s))] \/ UNCHANGED doc
      BY <3>0 DEF WriteDoc
    <3>2. doc'[Of[p]] = doc[Of[p]] \/ doc'[Of[p]] = Doc(reg[d].panes \cap In(s))
      BY <3>1
    <3>. QED
      BY <3>2 DEF Doc
  <2>2. \A e \in Daemons : p \in restore'[e].plan => p \in restore[e].plan
    BY <1>8 DEF PersistRestored, RestoreRecord
  <2>. QED
    BY <1>8, <2>1, <2>2 DEF PersistRestored, Named
<1>9. ASSUME Start \/ \E d \in Daemons : StageSteps(d)
      PROVE  UNCHANGED spawn /\ (Named(p)' => Named(p))
  <2>1. CASE Start
    <3>1. \A e \in Daemons : p \in restore'[e].plan => p \in restore[e].plan
      BY <2>1 DEF Start, NoRestore
    <3>. QED
      BY <2>1, <3>1 DEF Start, Named
  <2>2. CASE \E d \in Daemons : StageSteps(d)
    BY <2>2 DEF StageSteps, Restored, Bind, Stop, Release, Named
  <2>. QED
    BY <1>9, <2>1, <2>2
<1>10. ASSUME Reboot \/ \E d \in Daemons : Crash(d) \/ Refuse(d)
       PROVE  spawn'[p].at = "no" => spawn[p].at = "no" /\ (Named(p)' => Named(p))
  <2>1. PICK D \in SUBSET Daemons : Gone(D) /\ UNCHANGED disk
    <3>1. CASE Reboot
      BY <3>1 DEF Reboot
    <3>2. ASSUME NEW d \in Daemons, Crash(d) \/ Refuse(d)
          PROVE  \E D \in SUBSET Daemons : Gone(D) /\ UNCHANGED disk
      <4>1. {d} \in SUBSET Daemons /\ Gone({d}) /\ UNCHANGED disk
        BY <3>2 DEF Crash, Refuse
      <4>. QED
        BY <4>1
    <3>. QED
      BY <1>10, <3>1, <3>2
  <2>. QED
    BY <2>1, GoneNames
<1>. HIDE <1>0, Shapes, Empties
<1>. QED
  BY <1>1, <1>2, <1>3, <1>4, <1>5, <1>6, <1>7, <1>8, <1>9, <1>10, Steps
-----------------------------------------------------------------------------
(* What a step does to the disk: it makes directories and tombstones, or   *)
(* writes one document, or archives one session.                           *)

\* A pane's directory that the owner's verdict on its session does not miss
Harmless(p) == \/ p \in pdirs \cup past'.ended \/ Of[p] \in past'.early \cup past'.late
               \/ \A d \in Daemons : d = lease => Of[p] \notin pass[d].over

MakesDirs(P, E) ==
    /\ E \subseteq P /\ UNCHANGED doc
    /\ dirs \subseteq dirs' /\ \A p \in P : Of[p] \in dirs' /\ Harmless(p)
    /\ pdirs' = pdirs \cup P /\ tomb' = tomb \cup E
    /\ past'.ended = past.ended \cup E /\ past'.gone = past.gone /\ past'.strays = past.strays
    /\ holders' \subseteq holders \cup P
    /\ \A p \in E, d \in Daemons : p \in restore[d].plan => p \in past'.raced

WritesDoc(s, Q, P) ==
    /\ Q \subseteq In(s) /\ P \subseteq Q
    /\ doc'[s] = Doc(Q) /\ \A t \in Sessions \ {s} : doc'[t] = doc[t]
    /\ dirs' = dirs \cup {s} /\ pdirs' = pdirs \cup P /\ tomb' = tomb /\ holders' = holders
    /\ past'.ended = past.ended /\ past'.gone = past.gone /\ past'.strays = past.strays
    /\ past'.ghosts = past.ghosts
    /\ s \in past.gone => s \in past'.late
    /\ \A p \in P : Harmless(p)

DiskStep == \/ \E P \in SUBSET Panes, E \in SUBSET Panes : MakesDirs(P, E)
            \/ \E s \in Sessions, Q \in SUBSET Panes, P \in SUBSET Panes : WritesDoc(s, Q, P)
            \/ \E s \in Sessions : Archive(s) /\ holders' = holders

\* A verdict on what cannot be read is early.
LEMMA JudgeLemma ==
    ASSUME Typed, NEW d \in Daemons, NEW s \in Sessions, Judge(d, s)
    PROVE  /\ past' \in History /\ Grows
           /\ past'.ended = past.ended /\ past'.cut = past.cut /\ past'.late = past.late /\ past'.gone = past.gone
           /\ past'.raced = past.raced /\ past'.strays = past.strays /\ past'.ghosts = past.ghosts /\ past'.stale = past.stale
           /\ \E over \in {{}, {s}} :
                /\ pass' = [pass EXCEPT ![d].todo = @ \ {s}, ![d].over = over]
                /\ s \in over => SessionIsOver(s) \/ s \in past'.early
<1>1. PICK unread \in {{}, {s}} :
         /\ pass' = [pass EXCEPT ![d].todo = @ \ {s}, ![d].over = IF SessionIsOver(s) THEN {s} ELSE unread]
         /\ IF unread = {} THEN UNCHANGED past ELSE Upset([past EXCEPT !.early = past.early \cup unread])
  BY DEF Judge
<1>2. past \in History /\ unread \in SUBSET Sessions
  BY DEF Typed
<1>3. CASE UNCHANGED past /\ unread = {}
  BY <1>1, <1>2, <1>3 DEF Grows
<1>4. CASE Upset([past EXCEPT !.early = past.early \cup unread])
  <2>1. /\ past' \in History /\ Grows /\ past'.early = past.early \cup unread
        /\ past'.ended = past.ended /\ past'.cut = past.cut /\ past'.late = past.late /\ past'.gone = past.gone
        /\ past'.raced = past.raced /\ past'.strays = past.strays /\ past'.ghosts = past.ghosts /\ past'.stale = past.stale
    BY <1>2, <1>4, EarlyLemma
  <2>2. \E over \in {{}, {s}} :
            /\ pass' = [pass EXCEPT ![d].todo = @ \ {s}, ![d].over = over]
            /\ s \in over => SessionIsOver(s) \/ s \in past'.early
    BY <1>1, <2>1
  <2>. QED
    BY <2>1, <2>2
<1>. QED
  BY <1>1, <1>3, <1>4

\* A session's panes come back without their tombstones, or unread, ...
LEMMA ReturnsLemma ==
    ASSUME Typed, NEW d \in Daemons, NEW s \in Sessions, Returns(d, s)
    PROVE  /\ UNCHANGED disk /\ past' \in History /\ Grows
           /\ past'.ended = past.ended /\ past'.cut = past.cut /\ past'.late = past.late /\ past'.early = past.early
           /\ past'.gone = past.gone /\ past'.strays = past.strays /\ past'.ghosts = past.ghosts /\ past'.stale = past.stale
           /\ \E back \in SUBSET doc[s].panes :
                /\ back # {} /\ doc[s].panes \ tomb \subseteq back
                /\ reg' = [reg EXCEPT ![d] = [open |-> @.open \cup {s}, panes |-> @.panes \cup back]]
                /\ restore' = [restore EXCEPT ![d] = [todo |-> @.todo \ {s}, at |-> {s}, plan |-> back]]
                /\ \A p \in back : p \in tomb => p \in past'.raced
<1>1. PICK unread \in SUBSET (doc[s].panes \cap tomb) :
         /\ Back(s) \cup unread # {}
         /\ reg' = [reg EXCEPT ![d] = [open |-> @.open \cup {s}, panes |-> @.panes \cup (Back(s) \cup unread)]]
         /\ restore' = [restore EXCEPT ![d] = [todo |-> @.todo \ {s}, at |-> {s}, plan |-> Back(s) \cup unread]]
         /\ IF unread = {} THEN UNCHANGED past ELSE Upset([past EXCEPT !.raced = past.raced \cup unread])
         /\ UNCHANGED disk
  BY DEF Returns
<1>2. past \in History /\ unread \in SUBSET Panes /\ Back(s) = doc[s].panes \ tomb
  BY DEF Typed, Back
<1>3. /\ past' \in History /\ Grows
      /\ past'.ended = past.ended /\ past'.cut = past.cut /\ past'.late = past.late /\ past'.early = past.early
      /\ past'.gone = past.gone /\ past'.strays = past.strays /\ past'.ghosts = past.ghosts /\ past'.stale = past.stale
      /\ unread \subseteq past'.raced
  <2>1. CASE UNCHANGED past /\ unread = {}
    BY <1>2, <2>1 DEF Grows
  <2>2. CASE Upset([past EXCEPT !.raced = past.raced \cup unread])
    BY <1>2, <2>2, RacedLemma
  <2>. QED
    BY <1>1, <2>1, <2>2
<1>4. Back(s) \cup unread \in SUBSET doc[s].panes /\ \A p \in Back(s) \cup unread : p \in tomb => p \in past'.raced
  BY <1>1, <1>2, <1>3
<1>. QED
  BY <1>1, <1>2, <1>3, <1>4

LEMMA ReturnsToReg ==
    ASSUME Typed, NEW d \in Daemons, NEW s \in Sessions, Returns(d, s)
    PROVE  \E P \in SUBSET Panes : reg' = [reg EXCEPT ![d] = [open |-> @.open \cup {s}, panes |-> @.panes \cup P]]
<1>1. PICK P \in SUBSET doc[s].panes : reg' = [reg EXCEPT ![d] = [open |-> @.open \cup {s}, panes |-> @.panes \cup P]]
  BY ReturnsLemma
<1>2. P \in SUBSET Panes
  BY <1>1 DEF Typed, DocRecord
<1>. QED
  BY <1>1, <1>2

\* a document that cannot be read is left, ...
LEMMA LeavesLemma ==
    ASSUME Typed, NEW d, NEW s \in Sessions, Leaves(d, s)
    PROVE  /\ UNCHANGED disk /\ past' \in History /\ Grows /\ past'.stale = past.stale \cup {s}
           /\ past'.ended = past.ended /\ past'.cut = past.cut /\ past'.late = past.late /\ past'.early = past.early
           /\ past'.gone = past.gone /\ past'.raced = past.raced /\ past'.strays = past.strays /\ past'.ghosts = past.ghosts
<1>1. past \in History /\ Upset([past EXCEPT !.stale = past.stale \cup {s}]) /\ UNCHANGED disk
  BY DEF Typed, Leaves, Refuses
<1>. QED
  BY <1>1, StaleLemma

\* ... and what a start does with a session's document and its history is little.
LEMMA RestoreLemma ==
    ASSUME Typed, NEW d \in Daemons, NEW s \in Sessions, RestoreSession(d, s)
    PROVE  \/ Archive(s)
           \/ /\ UNCHANGED disk /\ past' \in History /\ Grows
              /\ past'.ended = past.ended /\ past'.cut = past.cut /\ past'.late = past.late /\ past'.early = past.early
              /\ past'.gone = past.gone /\ past'.strays = past.strays /\ past'.ghosts = past.ghosts
              /\ past.stale \subseteq past'.stale
<1>0. past \in History
  BY DEF Typed
<1>1. CASE Returns(d, s)
  BY <1>1, ReturnsLemma
<1>2. CASE Stays(d, s)
  <2>1. Archive(s) \/ Refuses(past) \/ UNCHANGED <<disk, past>>
    BY <1>2 DEF Stays
  <2>2. CASE Refuses(past)
    BY <1>0, <2>2, RefusedLemma DEF Refuses, Unharmed
  <2>3. CASE UNCHANGED <<disk, past>>
    BY <1>0, <2>3 DEF Grows, disk
  <2>. QED
    BY <2>1, <2>2, <2>3
<1>3. CASE Leaves(d, s)
  BY <1>3, LeavesLemma
<1>. QED
  BY <1>1, <1>2, <1>3 DEF RestoreSession

LEMMA DiskSteps ==
    ASSUME IndInv, [Next]_vars
    PROVE  DiskStep
<1>0. Typed /\ StagesInv
  BY DEF IndInv
<1>. USE <1>0, Shapes, Empties DEF runtime, requests, persister, disk, shells, daemon
<1>a. ASSUME UNCHANGED disk, holders' \subseteq holders, past'.ended = past.ended, past'.gone = past.gone,
             past'.strays = past.strays
      PROVE  DiskStep
  <2>1. MakesDirs({}, {})
    BY <1>a DEF MakesDirs
  <2>. QED
    BY <2>1 DEF DiskStep
<1>b. ASSUME NEW P \in SUBSET Panes, NEW E \in SUBSET Panes, MakesDirs(P, E) PROVE DiskStep
  BY <1>b DEF DiskStep
<1>c. ASSUME NEW P \in SUBSET Panes, RecordEnds(P), holders' \subseteq holders, EndsNoted(P)
      PROVE  DiskStep
  <2>1. MakesDirs(P, P)
    BY <1>c DEF MakesDirs, RecordEnds, EndsNoted, Harmless
  <2>. QED
    BY <2>1 DEF DiskStep
<1>d. ASSUME NEW d \in Daemons, NEW s \in Sessions, NEW Q \in SUBSET Panes, NEW P \in SUBSET Panes,
             WriteDoc(d, s, Q), Q \subseteq In(s), P \subseteq Q, dirs' = dirs \cup {s}, pdirs' = pdirs \cup P,
             tomb' = tomb, holders' = holders, P = {} \/ d # lease \/ pass[d].over = {}
      PROVE  DiskStep
  <2>1. /\ doc'[s] = Doc(Q) /\ \A t \in Sessions \ {s} : doc'[t] = doc[t]
        /\ past'.ended = past.ended /\ past'.gone = past.gone /\ past'.strays = past.strays
        /\ past'.ghosts = past.ghosts
        /\ d # lease \/ s \in past.gone => s \in past'.late
    <3>1. /\ doc' = [doc EXCEPT ![s] = Doc(Q)] /\ \A t \in Sessions \ {s} : doc'[t] = doc[t]
          /\ past'.ended = past.ended /\ past'.gone = past.gone /\ past'.strays = past.strays
          /\ past'.ghosts = past.ghosts /\ (d # lease \/ s \in past.gone => s \in past'.late)
      BY <1>d, WriteLemma
    <3>2. doc'[s] = Doc(Q)
      BY <3>1
    <3>. QED
      BY <3>1, <3>2
  <2>2. \A p \in P : Harmless(p)
    BY <1>d, <2>1 DEF Harmless, In
  <2>3. WritesDoc(s, Q, P)
    BY <1>d, <2>1, <2>2 DEF WritesDoc
  <2>. QED
    BY <2>3 DEF DiskStep
<1>e. ASSUME NEW d \in Daemons, NEW s \in Sessions, NEW Q \in SUBSET Panes,
             WriteDoc(d, s, Q), Q \subseteq In(s), dirs' = dirs \cup {s}, UNCHANGED <<pdirs, tomb, holders>>
      PROVE  DiskStep
  <2>1. PICK P \in SUBSET Panes : P = {}
    OBVIOUS
  <2>2. P \subseteq Q /\ pdirs' = pdirs \cup P /\ tomb' = tomb /\ holders' = holders
    BY <1>e, <2>1
  <2>. QED
    <3>1. P = {} \/ d # lease \/ pass[d].over = {}
      BY <2>1
    <3>. HIDE Shapes, Empties, <1>0 DEF runtime, requests, persister, disk, shells, daemon
    <3>. QED
      BY <1>d, <1>e, <2>2, <3>1
<1>f. ASSUME NEW d \in Daemons, NEW s \in Sessions, NEW Q \in SUBSET Panes,
             WriteDoc(d, s, Q), Q \subseteq In(s), dirs' = dirs \cup {s}, pdirs' = pdirs \cup Q,
             UNCHANGED <<tomb, holders>>, pass[d].over = {}
      PROVE  DiskStep
  <2>1. Q \subseteq Q
    OBVIOUS
  <2>. QED
    BY <1>d, <1>f, <2>1
<1>1. CASE UNCHANGED vars
  BY <1>1, <1>a DEF vars
<1>2. ASSUME NEW d \in Daemons, NEW p \in Panes, NewPane(d, p) PROVE DiskStep
  BY <1>2, <1>a DEF NewPane
<1>3. ASSUME NEW p \in Panes, OpeningSteps(p) PROVE DiskStep
  <2>1. CASE MakeSessionDir(p)
    <3>1. MakesDirs({}, {})
      BY <2>1 DEF MakeSessionDir, MakesDirs
    <3>. QED
      BY <1>b, <3>1
  <2>2. CASE MakePaneDir(p) \/ Launch(p)
    <3>1. MadeLate(p)
      BY <2>2 DEF MakePaneDir, Launch
    <3>2. Harmless(p)
      BY <3>1, MadeLemma DEF Harmless
    <3>3. /\ past'.ended = past.ended /\ past'.gone = past.gone /\ past'.strays = past.strays
      BY <3>1, MadeLemma
    <3>4. /\ UNCHANGED <<doc, tomb>> /\ dirs \subseteq dirs' /\ Of[p] \in dirs' /\ pdirs' = pdirs \cup {p}
          /\ holders' \subseteq holders \cup {p}
      BY <2>2 DEF MakePaneDir, Launch
    <3>5. MakesDirs({p}, {})
      BY <3>2, <3>3, <3>4 DEF MakesDirs
    <3>6. {p} \in SUBSET Panes /\ {} \in SUBSET Panes
      OBVIOUS
    <3>. QED
      BY <1>b, <3>5, <3>6
  <2>3. CASE RunLocally(p)
    <3>1. past'.ended = past.ended /\ past'.gone = past.gone /\ past'.strays = past.strays
      BY <2>3, RefusedLemma DEF RunLocally, Unharmed
    <3>. QED
      BY <1>a, <2>3, <3>1 DEF RunLocally
  <2>4. CASE CopySession(p)
    <3>1. past' = past \/ past' = [past EXCEPT !.cut = @ \cup {p}]
      BY <2>4 DEF CopySession
    <3>2. past'.ended = past.ended /\ past'.gone = past.gone /\ past'.strays = past.strays
      BY <3>1 DEF History
    <3>. QED
      BY <1>a, <2>4, <3>2 DEF CopySession
  <2>5. CASE PersistSessionNow(p)
    <3>1. UNCHANGED <<holders, pdirs, tomb>>
      BY <2>5 DEF PersistSessionNow, Refuses
    <3>2. CASE UNCHANGED <<disk, past>>
      BY <1>a, <3>1, <3>2
    <3>4. CASE Refuses([past EXCEPT !.stale = past.stale \cup {Of[p]}])
      <4>1. Of[p] \in Sessions /\ Upset([past EXCEPT !.stale = past.stale \cup {Of[p]}]) /\ UNCHANGED disk
        BY <3>4 DEF Refuses
      <4>2. past'.ended = past.ended /\ past'.gone = past.gone /\ past'.strays = past.strays
        BY <4>1, StaleLemma
      <4>. QED
        BY <1>a, <3>1, <4>1, <4>2
    <3>3. CASE WriteDoc(spawn[p].by, Of[p], spawn[p].doc.panes) /\ dirs' = dirs \cup {Of[p]}
      <4>1. /\ spawn[p].by \in Daemons
        BY <2>5 DEF PersistSessionNow, StagesInv
      <4>2. spawn[p].doc.panes \in SUBSET Panes /\ spawn[p].doc.panes \subseteq In(Of[p])
        BY DEF IndInv, OpenInv, SpawnRecord, DocRecord
      <4>4. PICK d \in Daemons : d = spawn[p].by
        BY <4>1
      <4>5. PICK s \in Sessions : s = Of[p]
        OBVIOUS
      <4>6. PICK Q \in SUBSET Panes : Q = spawn[p].doc.panes
        BY <4>2
      <4>7. WriteDoc(d, s, Q) /\ dirs' = dirs \cup {s}
        BY <3>3, <4>4, <4>5, <4>6
      <4>8. Q \subseteq In(s)
        BY <4>2, <4>5, <4>6
      <4>. QED
        BY <1>e, <3>1, <4>7, <4>8
    <3>. QED
      BY <2>5, <3>2, <3>3, <3>4 DEF PersistSessionNow
  <2>. QED
    BY <1>3, <2>1, <2>2, <2>3, <2>4, <2>5 DEF OpeningSteps
<1>4. ASSUME NEW p \in Panes, Opened(p) PROVE DiskStep
  BY <1>4, <1>a DEF Opened
<1>5. ASSUME NEW d \in Daemons, NEW P, NEW W, BeginKill(d, P, W) PROVE DiskStep
  <2>1. past'.ended = past.ended /\ past'.gone = past.gone /\ past'.strays = past.strays
    BY <1>5, NoteLemma DEF BeginKill
  <2>. QED
    BY <1>5, <1>a, <2>1 DEF BeginKill
<1>6. ASSUME NEW p \in Panes, RecordHumanEnd(p) PROVE DiskStep
  <2>1. {p} \in SUBSET Panes /\ UNCHANGED holders
    BY <1>6 DEF RecordHumanEnd
  <2>2. CASE RecordEnds({p}) /\ EndsNoted({p})
    BY <1>c, <2>1, <2>2
  <2>3. CASE /\ UNCHANGED disk /\ past'.ended = past.ended /\ past'.gone = past.gone /\ past'.strays = past.strays
    BY <1>a, <2>1, <2>3
  <2>. QED
    BY <1>6, <2>2, <2>3, HumanEndLemma
<1>7. CASE FinishKill
  <2>1. PICK P \in SUBSET (kill.panes \cap attached[kill.by] \cap holders) : RecordEnds(P) /\ EndsNoted(P)
    BY <1>7, FinishLemma
  <2>2. P \in SUBSET Panes
    BY <2>1 DEF Typed
  <2>3. holders' \subseteq holders
    BY <1>7 DEF FinishKill
  <2>. QED
    BY <1>c, <2>1, <2>2, <2>3
<1>8. ASSUME NEW p \in Panes, ShellExits(p) PROVE DiskStep
  <2>1. PICK P \in SUBSET {p} : RecordEnds(P) /\ EndsNoted(P)
    BY <1>8, ExitLemma
  <2>2. P \in SUBSET Panes
    BY <2>1
  <2>3. holders' \subseteq holders
    BY <1>8 DEF ShellExits
  <2>. QED
    BY <1>c, <2>1, <2>2, <2>3
<1>9. ASSUME NEW d \in Daemons, NEW s \in Sessions, Reap(d, s) PROVE DiskStep
  BY <1>9, <1>a DEF Reap
<1>10. ASSUME NEW d \in Daemons, PassSteps(d) PROVE DiskStep
  <2>1. CASE BeginPass(d) \/ ListOnDisk(d) \/ EndPass(d)
    BY <2>1, <1>a DEF BeginPass, ListOnDisk, EndPass
  <2>2. ASSUME NEW s \in Sessions, Judge(d, s) PROVE DiskStep
    <3>1. past'.ended = past.ended /\ past'.gone = past.gone /\ past'.strays = past.strays
      BY <2>2, JudgeLemma
    <3>. QED
      BY <2>2, <1>a, <3>1 DEF Judge
  <2>3. CASE Move(d)
    <3>1. PICK s \in Sessions : Archive(s) \/ Refuses(past)
      BY <2>3 DEF Move, PassRecord
    <3>2. CASE Archive(s)
      BY <2>3, <3>2 DEF Move, DiskStep
    <3>3. CASE Refuses(past)
      <4>1. UNCHANGED <<disk, holders>> /\ Unharmed
        BY <2>3, <3>3, RefusedLemma DEF Move, Refuses
      <4>. QED
        BY <1>a, <4>1 DEF Unharmed
    <3>. QED
      BY <3>1, <3>2, <3>3
  <2>4. ASSUME NEW s \in Sessions, Persist(d, s) PROVE DiskStep
    <3>. DEFINE seen == pass[d].panes \cap In(s)
    <3>1. seen \in SUBSET Panes /\ seen \subseteq In(s) /\ UNCHANGED <<tomb, holders>>
      BY <2>4 DEF Persist, PassRecord, Refuses
    <3>2. pass[d].over = {}
      BY <2>4 DEF Persist, StagesInv, StageOf
    <3>3. CASE UNCHANGED <<doc, past, pdirs, dirs>>
      BY <1>a, <3>1, <3>3
    <3>4. CASE WriteDoc(d, s, seen) /\ pdirs' = pdirs \cup seen /\ dirs' = dirs \cup {s}
      <4>. HIDE DEF seen
      <4>. QED
        BY <1>f, <3>1, <3>2, <3>4
    <3>5. CASE Refuses(past)
      <4>1. UNCHANGED disk /\ Unharmed
        BY <3>5, RefusedLemma DEF Refuses
      <4>. QED
        BY <1>a, <3>1, <4>1 DEF Unharmed
    <3>. QED
      BY <2>4, <3>3, <3>4, <3>5 DEF Persist
  <2>. QED
    BY <1>10, <2>1, <2>2, <2>3, <2>4 DEF PassSteps
<1>11. CASE Start
  <2>1. past'.ended = past.ended /\ past'.gone = past.gone /\ past'.strays = past.strays
    <3>1. CASE past' = past
      BY <3>1
    <3>2. CASE past' = [past EXCEPT !.overlap = TRUE, !.upsets = @ + 1]
      BY <3>2, NoteLemma
    <3>. QED
      BY <1>11, <3>1, <3>2 DEF Start
  <2>. QED
    BY <1>11, <1>a, <2>1 DEF Start
<1>12. ASSUME NEW d \in Daemons, NEW s \in Sessions, RestoreSession(d, s) PROVE DiskStep
  <2>1. UNCHANGED holders
    BY <1>12 DEF RestoreSession
  <2>2. CASE /\ UNCHANGED disk /\ past'.ended = past.ended /\ past'.gone = past.gone /\ past'.strays = past.strays
    BY <1>a, <2>1, <2>2
  <2>3. CASE Archive(s)
    BY <2>1, <2>3 DEF DiskStep
  <2>. QED
    BY <1>12, <2>2, <2>3, RestoreLemma DEF Unharmed
<1>13. ASSUME NEW d \in Daemons, NEW p \in Panes, AttachRestored(d, p) PROVE DiskStep
  <2>1. CASE UNCHANGED <<holders, disk, past>>
    BY <1>a, <2>1
  <2>2. CASE Refuses(past) /\ UNCHANGED holders
    <3>1. UNCHANGED disk /\ Unharmed
      BY <2>2, RefusedLemma DEF Refuses
    <3>. QED
      BY <1>a, <2>2, <3>1 DEF Unharmed
  <2>3. CASE /\ Requires(d) /\ holders' = holders \cup {p}
             /\ pdirs' = pdirs \cup {p} /\ dirs' = dirs \cup {Of[p]} /\ UNCHANGED <<tomb, doc>>
             /\ \E G : past' = [past EXCEPT !.ghosts = G]
    <3>1. d = lease /\ pass[d].over = {}
      <4>1. stage[d] = "restoring"
        BY <1>13 DEF AttachRestored, StagesInv, StageOf, NoRestore
      <4>. QED
        BY <2>3, <4>1 DEF Requires, StagesInv, StageOf
    <3>2. Harmless(p)
      BY <3>1 DEF Harmless
    <3>3. PICK G : past' = [past EXCEPT !.ghosts = G]
      BY <2>3
    <3>4. past'.ended = past.ended /\ past'.gone = past.gone /\ past'.strays = past.strays
      BY <3>3 DEF History
    <3>5. MakesDirs({p}, {})
      BY <2>3, <3>2, <3>4 DEF MakesDirs
    <3>6. {p} \in SUBSET Panes /\ {} \in SUBSET Panes
      OBVIOUS
    <3>. QED
      BY <1>b, <3>5, <3>6
  <2>. QED
    BY <1>13, <2>1, <2>2, <2>3 DEF AttachRestored
<1>14. ASSUME NEW d \in Daemons, PersistRestored(d) PROVE DiskStep
  <2>0. PICK s \in restore[d].at :
            \/ /\ WriteDoc(d, s, reg[d].panes \cap In(s)) /\ dirs' = dirs \cup {s} /\ UNCHANGED <<pdirs, tomb>>
            \/ Refuses(past) \/ UNCHANGED <<disk, past>>
    BY <1>14 DEF PersistRestored
  <2>1. /\ s \in Sessions
        /\ \/ WriteDoc(d, s, reg[d].panes \cap In(s)) /\ dirs' = dirs \cup {s}
           \/ Refuses(past) \/ UNCHANGED <<doc, dirs, past>>
    BY <2>0 DEF RestoreRecord
  <2>2. UNCHANGED <<holders, pdirs, tomb>>
    BY <1>14, <2>0 DEF PersistRestored, Refuses
  <2>3. CASE UNCHANGED <<doc, dirs, past>>
    BY <1>a, <2>2, <2>3
  <2>5. CASE Refuses(past)
    <3>1. UNCHANGED disk /\ Unharmed
      BY <2>5, RefusedLemma DEF Refuses
    <3>. QED
      BY <1>a, <2>2, <3>1 DEF Unharmed
  <2>4. CASE WriteDoc(d, s, reg[d].panes \cap In(s)) /\ dirs' = dirs \cup {s}
    <3>1. PICK Q \in SUBSET Panes : Q \subseteq In(s) /\ WriteDoc(d, s, Q)
      BY <2>4
    <3>. QED
      BY <1>e, <2>1, <2>2, <2>4, <3>1
  <2>. QED
    BY <2>1, <2>3, <2>4, <2>5
<1>15. ASSUME NEW d \in Daemons, StageSteps(d) PROVE DiskStep
  <2>1. past'.ended = past.ended /\ past'.gone = past.gone /\ past'.strays = past.strays
    BY <1>15, RefusedLemma DEF StageSteps, Restored, Bind, Stop, Release, Unharmed
  <2>2. UNCHANGED <<disk, holders>>
    BY <1>15 DEF StageSteps, Restored, Bind, Stop, Release
  <2>. QED
    BY <1>a, <2>1, <2>2
<1>16. ASSUME Reboot \/ \E d \in Daemons : Crash(d) \/ Refuse(d) PROVE DiskStep
  <2>1. UNCHANGED disk /\ holders' \subseteq holders
    BY <1>16 DEF Reboot, Crash, Refuse
  <2>2. past' = [past EXCEPT !.refused = TRUE] \/ \E C : past' = [past EXCEPT !.cut = C]
    BY <1>16 DEF Reboot, Crash, Refuse
  <2>3. past'.ended = past.ended /\ past'.gone = past.gone /\ past'.strays = past.strays
    BY <2>2 DEF History
  <2>. QED
    BY <1>a, <2>1, <2>3
<1>17. (\E d \in Daemons : \E P, W : BeginKill(d, P, W)) => DiskStep
  BY <1>5
<1>. HIDE <1>0, Shapes, Empties
<1>. QED
  BY <1>1, <1>2, <1>3, <1>4, <1>6, <1>7, <1>8, <1>9, <1>10, <1>11, <1>12, <1>13, <1>14, <1>15,
     <1>16, <1>17, Steps

LEMMA DiskKept == IndInv /\ [Next]_vars => DiskInv'
<1>. SUFFICES ASSUME IndInv, [Next]_vars PROVE DiskInv'
  OBVIOUS
<1>0. Typed /\ DiskInv /\ Typed' /\ Grows /\ DiskStep
  BY TypesKept, DiskSteps DEF IndInv
<1>. USE <1>0, Shapes, Empties
<1>1. ASSUME NEW P \in SUBSET Panes, NEW E \in SUBSET Panes, MakesDirs(P, E) PROVE DiskInv'
  BY <1>1 DEF MakesDirs, DiskInv, Grows
<1>2. ASSUME NEW s \in Sessions, NEW Q \in SUBSET Panes, NEW P \in SUBSET Panes, WritesDoc(s, Q, P)
      PROVE  DiskInv'
  <2>1. tomb' \subseteq pdirs' /\ \A p \in pdirs' : Of[p] \in dirs'
    BY <1>2 DEF WritesDoc, DiskInv
  <2>2. /\ doc'[s].here => s \in dirs'
        /\ ~doc'[s].here => doc'[s].panes = {}
        /\ doc'[s].here /\ s \in past'.gone => s \in past'.late
        /\ doc'[s].panes \subseteq In(s)
    BY <1>2 DEF WritesDoc, Doc
  <2>3. ASSUME NEW t \in Sessions \ {s}
        PROVE  /\ doc'[t].here => t \in dirs'
               /\ ~doc'[t].here => doc'[t].panes = {}
               /\ doc'[t].here /\ t \in past'.gone => t \in past'.late
               /\ doc'[t].panes \subseteq In(t)
    BY <1>2 DEF WritesDoc, DiskInv, Grows
  <2>4. \A p \in holders' : p \in pdirs' \/ Of[p] \in past'.gone
    BY <1>2 DEF WritesDoc, DiskInv
  <2>. QED
    BY <2>1, <2>2, <2>3, <2>4 DEF DiskInv
<1>3. ASSUME NEW s \in Sessions, Archive(s), holders' = holders PROVE DiskInv'
  <2>1. /\ dirs' = dirs \ {s} /\ pdirs' = pdirs \ In(s) /\ tomb' = tomb \ In(s)
        /\ ~doc'[s].here /\ doc'[s].panes = {} /\ \A t \in Sessions \ {s} : doc'[t] = doc[t]
        /\ s \in dirs => s \in past'.gone
        /\ \A t \in past'.gone : t \in past.gone \/ (t = s /\ s \in dirs)
    BY <1>3, ArchiveLemma
  <2>a. pdirs \subseteq Panes /\ holders \subseteq Panes
    BY DEF Typed
  <2>2. tomb' \subseteq pdirs' /\ \A p \in pdirs' : Of[p] \in dirs'
    BY <2>1, <2>a DEF DiskInv
  <2>3. ASSUME NEW t \in Sessions
        PROVE  /\ doc'[t].here => t \in dirs'
               /\ ~doc'[t].here => doc'[t].panes = {}
               /\ doc'[t].here /\ t \in past'.gone => t \in past'.late
               /\ doc'[t].panes \subseteq In(t)
    BY <2>1 DEF DiskInv, Grows
  <2>4. \A p \in holders' : p \in pdirs' \/ Of[p] \in past'.gone
    <3>1. SUFFICES ASSUME NEW p \in holders PROVE p \in pdirs' \/ Of[p] \in past'.gone
      BY <1>3
    <3>2. p \in pdirs /\ Of[p] = s => s \in dirs
      BY DEF DiskInv
    <3>. QED
      BY <2>1, <2>a, <3>2 DEF DiskInv, Grows
  <2>. QED
    BY <2>2, <2>3, <2>4 DEF DiskInv
<1>. QED
  BY <1>1, <1>2, <1>3 DEF DiskStep
-----------------------------------------------------------------------------
(* Ends, verdicts and archives.                                            *)

\* What a start means to restore is what it meant to, or has no tombstone that it sees.
LEMMA Plans ==
    ASSUME IndInv, [Next]_vars, NEW d \in Daemons, NEW p \in Panes, p \in restore'[d].plan
    PROVE  \/ p \in restore[d].plan /\ (d = lease' => d = lease)
           \/ /\ UNCHANGED disk /\ past'.ended = past.ended /\ (p \in tomb => p \in past'.raced)
              /\ p \in doc[Of[p]].panes /\ UNCHANGED lease
              /\ Of[p] \in restore[d].todo /\ p \in reg'[d].panes
<1>0. Typed /\ StagesInv /\ DiskInv
  BY DEF IndInv
<1>. USE <1>0, Shapes, Empties DEF runtime, requests, persister, disk, shells, daemon
<1>1. CASE UNCHANGED <<restore, lease>>
  BY <1>1
<1>2. ASSUME NEW e \in Daemons, NEW s \in Sessions, RestoreSession(e, s)
      PROVE  \/ p \in restore[d].plan /\ UNCHANGED lease
             \/ /\ UNCHANGED disk /\ past'.ended = past.ended /\ (p \in tomb => p \in past'.raced)
                /\ p \in doc[Of[p]].panes /\ UNCHANGED lease
                /\ Of[p] \in restore[d].todo /\ p \in reg'[d].panes
  <2>1. CASE Returns(e, s)
    <3>a. PICK back \in SUBSET doc[s].panes :
             /\ reg' = [reg EXCEPT ![e] = [open |-> @.open \cup {s}, panes |-> @.panes \cup back]]
             /\ restore' = [restore EXCEPT ![e] = [todo |-> @.todo \ {s}, at |-> {s}, plan |-> back]]
             /\ \A q \in back : q \in tomb => q \in past'.raced
      BY <2>1, ReturnsLemma
    <3>b. UNCHANGED disk /\ past'.ended = past.ended
      BY <2>1, ReturnsLemma
    <3>1. CASE d # e
      BY <1>2, <3>a, <3>1 DEF RestoreSession
    <3>2. CASE d = e
      <4>1. p \in back
        BY <3>a, <3>2
      <4>2. Of[p] = s
        BY <4>1 DEF DiskInv
      <4>3. (p \in tomb => p \in past'.raced) /\ p \in doc[Of[p]].panes
        BY <3>a, <4>1, <4>2
      <4>4. s \in restore[d].todo /\ UNCHANGED lease
        BY <1>2, <3>2 DEF RestoreSession
      <4>5. p \in reg'[d].panes
        BY <3>a, <3>2, <4>1
      <4>. QED
        BY <3>b, <4>2, <4>3, <4>4, <4>5
    <3>. QED
      BY <3>1, <3>2
  <2>2. CASE restore' = [restore EXCEPT ![e].todo = @ \ {s}]
    <3>1. restore'[d].plan = restore[d].plan
      BY <2>2 DEF RestoreRecord
    <3>. QED
      BY <1>2, <3>1 DEF RestoreSession
  <2>. QED
    BY <1>2, <2>1, <2>2 DEF RestoreSession, Stays, Leaves
<1>3. ASSUME NEW e \in Daemons, (\E q \in Panes : AttachRestored(e, q)) \/ PersistRestored(e)
      PROVE  p \in restore[d].plan /\ UNCHANGED lease
  <2>1. ASSUME NEW q \in Panes, AttachRestored(e, q) PROVE p \in restore[d].plan /\ UNCHANGED lease
    BY <2>1 DEF AttachRestored, RestoreRecord
  <2>2. CASE PersistRestored(e)
    BY <2>2 DEF PersistRestored, RestoreRecord
  <2>. QED
    BY <1>3, <2>1, <2>2
<1>4. ASSUME Start
      PROVE  p \in restore[d].plan /\ (d = lease' => d = lease)
  <2>1. restore'[d].plan = IF d = lease' THEN {} ELSE restore[d].plan
    BY <1>4 DEF Start, NoRestore
  <2>. QED
    BY <2>1
<1>5. ASSUME NEW D, Gone(D), UNCHANGED lease
      PROVE  p \in restore[d].plan /\ UNCHANGED lease
  BY <1>5 DEF Gone, NoRestore
<1>6. ASSUME NEW q \in Panes, \/ OpeningSteps(q) \/ Opened(q) \/ (\E e \in Daemons : NewPane(e, q))
                              \/ RecordHumanEnd(q) \/ ShellExits(q)
      PROVE  UNCHANGED <<restore, lease>>
  <2>1. CASE OpeningSteps(q)
    BY <2>1 DEF OpeningSteps, MakeSessionDir, MakePaneDir, Launch, RunLocally, CopySession, PersistSessionNow
  <2>2. CASE Opened(q) \/ (\E e \in Daemons : NewPane(e, q)) \/ RecordHumanEnd(q) \/ ShellExits(q)
    BY <2>2 DEF Opened, NewPane, RecordHumanEnd, ShellExits
  <2>. QED
    BY <1>6, <2>1, <2>2
<1>7. ASSUME \/ \E e \in Daemons : \E P, W : BeginKill(e, P, W)
             \/ FinishKill \/ \E e \in Daemons, s \in Sessions : Reap(e, s)
      PROVE  UNCHANGED <<restore, lease>>
  BY <1>7 DEF BeginKill, FinishKill, Reap
<1>8. ASSUME NEW e \in Daemons, PassSteps(e) \/ StageSteps(e) PROVE UNCHANGED <<restore, lease>>
  <2>1. CASE PassSteps(e)
    <3>1. ASSUME NEW s \in Sessions, Persist(e, s) \/ Judge(e, s) PROVE UNCHANGED <<restore, lease>>
      BY <3>1 DEF Persist, Judge
    <3>. QED
      BY <2>1, <3>1 DEF PassSteps, BeginPass, ListOnDisk, Move, EndPass
  <2>2. CASE StageSteps(e)
    BY <2>2 DEF StageSteps, Restored, Bind, Stop, Release
  <2>. QED
    BY <1>8, <2>1, <2>2
<1>9. UNCHANGED vars => UNCHANGED <<restore, lease>>
  BY DEF vars
<1>10. Reboot \/ (\E e \in Daemons : Crash(e) \/ Refuse(e)) => \E D : Gone(D) /\ UNCHANGED lease
  BY DEF Reboot, Crash, Refuse
<1>11. (\E e \in Daemons : \E P, W : BeginKill(e, P, W)) => UNCHANGED <<restore, lease>>
  BY <1>7
<1>. HIDE <1>0, Shapes, Empties DEF disk
<1>. QED
  BY <1>1, <1>2, <1>3, <1>4, <1>5, <1>6, <1>7, <1>8, <1>9, <1>10, <1>11, Steps

\* What a persister has judged to be over it had, or there is nothing in it that lives.
LEMMA Verdicts ==
    ASSUME IndInv, [Next]_vars, NEW d \in Daemons, NEW s \in Sessions, s \in pass'[d].over
    PROVE  \/ s \in pass[d].over /\ (d = lease' => d = lease)
           \/ UNCHANGED disk /\ (s \in past'.early \/ \A p \in pdirs \cap In(s) : p \in tomb)
<1>0. Typed /\ StagesInv
  BY DEF IndInv
<1>. USE <1>0, Shapes, Empties DEF runtime, requests, persister, disk, shells, daemon
<1>1. ASSUME UNCHANGED <<pass, lease>>
      PROVE  s \in pass[d].over /\ (d = lease' => d = lease)
  BY <1>1
<1>2. ASSUME NEW e \in Daemons, PassSteps(e)
      PROVE  \/ s \in pass[d].over /\ UNCHANGED lease
             \/ UNCHANGED disk /\ (s \in past'.early \/ \A p \in pdirs \cap In(s) : p \in tomb)
  <2>1. CASE BeginPass(e)
    BY <2>1 DEF BeginPass
  <2>2. ASSUME NEW t \in Sessions, Persist(e, t) PROVE s \in pass[d].over /\ UNCHANGED lease
    BY <2>2 DEF Persist, PassRecord
  <2>3. CASE ListOnDisk(e)
    BY <2>3 DEF ListOnDisk, PassRecord, NoPass
  <2>4. ASSUME NEW t \in Sessions, Judge(e, t)
        PROVE  \/ s \in pass[d].over /\ UNCHANGED lease
               \/ UNCHANGED disk /\ (s \in past'.early \/ \A p \in pdirs \cap In(s) : p \in tomb)
    <3>1. CASE d # e
      BY <2>4, <3>1 DEF Judge, PassRecord
    <3>2. CASE d = e
      <4>1. PICK over \in {{}, {t}} :
              /\ pass' = [pass EXCEPT ![e].todo = @ \ {t}, ![e].over = over]
              /\ t \in over => SessionIsOver(t) \/ t \in past'.early
        BY <2>4, JudgeLemma
      <4>3. s \in over
        BY <3>2, <4>1 DEF PassRecord
      <4>4. s = t /\ (SessionIsOver(s) \/ s \in past'.early)
        BY <4>1, <4>3
      <4>. QED
        BY <2>4, <4>4 DEF Judge, SessionIsOver
    <3>. QED
      BY <3>1, <3>2
  <2>5. CASE Move(e)
    BY <2>5 DEF Move, PassRecord
  <2>6. CASE EndPass(e)
    BY <2>6 DEF EndPass, NoPass
  <2>. QED
    BY <1>2, <2>1, <2>2, <2>3, <2>4, <2>5, <2>6 DEF PassSteps
<1>3. ASSUME Start
      PROVE  s \in pass[d].over /\ (d = lease' => d = lease)
  <2>1. UNCHANGED pass /\ (d = lease' => stage[d] = "no")
    BY <1>3, ConstantsAssumption DEF Start, Daemons, StagesInv, StageOf
  <2>. QED
    BY <2>1 DEF StagesInv, StageOf, NoPass
<1>4. ASSUME NEW D, Gone(D), UNCHANGED lease
      PROVE  s \in pass[d].over /\ UNCHANGED lease
  BY <1>4 DEF Gone, NoPass
<1>5. ASSUME NEW q \in Panes, \/ OpeningSteps(q) \/ Opened(q) \/ (\E e \in Daemons : NewPane(e, q))
                              \/ RecordHumanEnd(q) \/ ShellExits(q)
      PROVE  UNCHANGED <<pass, lease>>
  <2>1. CASE OpeningSteps(q)
    BY <2>1 DEF OpeningSteps, MakeSessionDir, MakePaneDir, Launch, RunLocally, CopySession, PersistSessionNow
  <2>2. CASE Opened(q) \/ (\E e \in Daemons : NewPane(e, q)) \/ RecordHumanEnd(q) \/ ShellExits(q)
    BY <2>2 DEF Opened, NewPane, RecordHumanEnd, ShellExits
  <2>. QED
    BY <1>5, <2>1, <2>2
<1>6. ASSUME \/ \E e \in Daemons : \E P, W : BeginKill(e, P, W)
             \/ FinishKill \/ \E e \in Daemons, t \in Sessions : Reap(e, t)
      PROVE  UNCHANGED <<pass, lease>>
  BY <1>6 DEF BeginKill, FinishKill, Reap
<1>7. ASSUME NEW e \in Daemons, \/ StageSteps(e) \/ PersistRestored(e)
                                \/ \E t \in Sessions : RestoreSession(e, t)
                                \/ \E q \in Panes : AttachRestored(e, q)
      PROVE  UNCHANGED <<pass, lease>>
  BY <1>7 DEF StageSteps, Restored, Bind, Stop, Release, PersistRestored, RestoreSession, AttachRestored
<1>9. UNCHANGED vars => UNCHANGED <<pass, lease>>
  BY DEF vars
<1>10. Reboot \/ (\E e \in Daemons : Crash(e) \/ Refuse(e)) => \E D : Gone(D) /\ UNCHANGED lease
  BY DEF Reboot, Crash, Refuse
<1>11. (\E e \in Daemons : \E P, W : BeginKill(e, P, W)) => UNCHANGED <<pass, lease>>
  BY <1>6
<1>. HIDE <1>0, Shapes, Empties DEF disk
<1>. QED
  BY <1>1, <1>2, <1>3, <1>4, <1>5, <1>6, <1>7, <1>9, <1>10, <1>11, Steps

LEMMA EndsKept == IndInv /\ [Next]_vars => EndsInv'
<1>. SUFFICES ASSUME IndInv, [Next]_vars PROVE EndsInv'
  OBVIOUS
<1>0. Typed /\ DiskInv /\ EndsInv /\ Typed' /\ Grows /\ DiskStep
  BY TypesKept, DiskSteps DEF IndInv
<1>. USE <1>0, Shapes, Empties
<1>1. tomb' \subseteq past'.ended /\ \A p \in past'.ended : p \in tomb' \/ Of[p] \in past'.gone
  <2>1. ASSUME NEW P \in SUBSET Panes, NEW E \in SUBSET Panes, MakesDirs(P, E)
        PROVE  tomb' \subseteq past'.ended /\ \A p \in past'.ended : p \in tomb' \/ Of[p] \in past'.gone
    BY <2>1 DEF MakesDirs, EndsInv
  <2>2. ASSUME NEW s \in Sessions, NEW Q \in SUBSET Panes, NEW P \in SUBSET Panes, WritesDoc(s, Q, P)
        PROVE  tomb' \subseteq past'.ended /\ \A p \in past'.ended : p \in tomb' \/ Of[p] \in past'.gone
    BY <2>2 DEF WritesDoc, EndsInv
  <2>3. ASSUME NEW s \in Sessions, Archive(s)
        PROVE  tomb' \subseteq past'.ended /\ \A p \in past'.ended : p \in tomb' \/ Of[p] \in past'.gone
    <3>1. tomb' = tomb \ In(s) /\ past'.ended = past.ended /\ (s \in dirs => s \in past'.gone)
      BY <2>3, ArchiveLemma
    <3>2. \A p \in tomb : Of[p] \in dirs
      BY DEF DiskInv
    <3>. QED
      BY <3>1, <3>2 DEF EndsInv, Grows, Typed, History
  <2>. QED
    BY <2>1, <2>2, <2>3 DEF DiskStep
<1>2. ASSUME NEW d \in Daemons, d = lease', NEW p \in restore'[d].plan, p \in past'.ended
      PROVE  p \in past'.raced \/ Of[p] \in past'.late
  <2>0. p \in Panes
    BY DEF Typed, RestoreRecord
  <2>1. CASE p \in restore[d].plan /\ d = lease
    <3>1. CASE p \in past.ended
      BY <2>1, <3>1 DEF EndsInv, Grows
    <3>2. CASE p \notin past.ended
      <4>1. ASSUME NEW P \in SUBSET Panes, NEW E \in SUBSET Panes, MakesDirs(P, E) PROVE p \in past'.raced
        BY <1>2, <2>0, <2>1, <3>2, <4>1 DEF MakesDirs
      <4>2. ASSUME NEW s \in Sessions, Archive(s) PROVE past'.ended = past.ended
        BY <4>2, ArchiveLemma
      <4>. QED
        BY <1>2, <3>2, <4>1, <4>2 DEF DiskStep, WritesDoc
    <3>. QED
      BY <3>1, <3>2
  <2>2. CASE past'.ended = past.ended /\ (p \in tomb => p \in past'.raced) /\ p \in doc[Of[p]].panes
    <3>a. CASE p \in tomb
      BY <2>2, <3>a
    <3>1. p \notin tomb => Of[p] \in past.gone
      BY <1>2, <2>2 DEF EndsInv
    <3>2. doc[Of[p]].here
      BY <2>0, <2>2 DEF DiskInv
    <3>. QED
      BY <2>0, <2>2, <3>a, <3>1, <3>2 DEF DiskInv, Grows
  <2>. QED
    BY <1>2, <2>0, <2>1, <2>2, Plans
<1>. QED
  BY <1>1, <1>2 DEF EndsInv

LEMMA OverKept == IndInv /\ [Next]_vars => OverInv'
<1>. SUFFICES ASSUME IndInv, [Next]_vars PROVE OverInv'
  OBVIOUS
<1>0. Typed /\ OverInv /\ EndsInv /\ Typed' /\ Grows /\ DiskStep
  BY TypesKept, DiskSteps DEF IndInv
<1>. USE <1>0, Shapes, Empties
<1>1. SUFFICES ASSUME NEW d \in Daemons, d = lease', NEW p \in pdirs', Of[p] \in pass'[d].over
               PROVE  p \in past'.ended \/ Of[p] \in past'.early \cup past'.late
  BY DEF OverInv
<1>2. p \in Panes
  BY DEF Typed
<1>3. CASE Of[p] \in pass[d].over /\ d = lease
  <2>1. p \in pdirs => p \in past'.ended \/ Of[p] \in past'.early \cup past'.late
    BY <1>3 DEF OverInv, Grows
  <2>2. Harmless(p) => p \in past'.ended \/ Of[p] \in past'.early \cup past'.late
    BY <1>3, <2>1 DEF Harmless
  <2>3. ASSUME NEW s \in Sessions, Archive(s) PROVE p \in pdirs
    BY <2>3, ArchiveLemma
  <2>. QED
    BY <2>1, <2>2, <2>3 DEF DiskStep, MakesDirs, WritesDoc
<1>4. CASE UNCHANGED disk /\ (Of[p] \in past'.early \/ \A q \in pdirs \cap In(Of[p]) : q \in tomb)
  BY <1>2, <1>4 DEF EndsInv, disk, Grows
<1>. QED
  BY <1>1, <1>2, <1>3, <1>4, Verdicts

\* Only a start gives a shell to a pane that ended.
LEMMA GhostsLemma ==
    ASSUME IndInv, [Next]_vars
    PROVE  \/ past'.ghosts = past.ghosts
           \/ \E d \in Daemons, p \in Panes :
                /\ Requires(d) /\ p \in restore[d].plan
                /\ past' = [past EXCEPT !.ghosts = IF p \in past.ended THEN @ \cup {p} ELSE @]
<1>0. Typed /\ StagesInv
  BY DEF IndInv
<1>. USE <1>0, Shapes, Empties
<1>w. ASSUME past' = past \/ \E d, s, P : WriteDoc(d, s, P) PROVE past'.ghosts = past.ghosts
  <2>1. ASSUME NEW L, NEW S, past' = [past EXCEPT !.late = L, !.stale = S] PROVE past'.ghosts = past.ghosts
    BY <2>1 DEF History
  <2>2. ASSUME NEW d, NEW s, NEW P, WriteDoc(d, s, P) PROVE past'.ghosts = past.ghosts
    <3>1. PICK L, S : past' = [past EXCEPT !.late = L, !.stale = S]
      BY <2>2 DEF WriteDoc
    <3>. QED
      BY <2>1, <3>1
  <2>. QED
    BY <1>w, <2>2
<1>1. ASSUME NEW p \in Panes, OpeningSteps(p) \/ Opened(p) \/ (\E d \in Daemons : NewPane(d, p))
      PROVE  past'.ghosts = past.ghosts
  <2>1. CASE MakeSessionDir(p) \/ Opened(p) \/ (\E d \in Daemons : NewPane(d, p))
    BY <2>1 DEF MakeSessionDir, Opened, NewPane
  <2>2. CASE MakePaneDir(p) \/ Launch(p)
    BY <2>2, MadeLemma DEF MakePaneDir, Launch
  <2>3. CASE RunLocally(p)
    BY <2>3, RefusedLemma DEF RunLocally, Unharmed
  <2>4. CASE CopySession(p)
    <3>1. past' = past \/ past' = [past EXCEPT !.cut = @ \cup {p}]
      BY <2>4 DEF CopySession
    <3>. QED
      BY <3>1 DEF History
  <2>5. CASE PersistSessionNow(p)
    <3>1. \/ past' = past \/ \E e, t, P : WriteDoc(e, t, P)
          \/ Upset([past EXCEPT !.stale = past.stale \cup {Of[p]}])
      BY <2>5 DEF PersistSessionNow, Refuses
    <3>2. CASE Upset([past EXCEPT !.stale = past.stale \cup {Of[p]}])
      <4>1. past \in History /\ Of[p] \in Sessions
        OBVIOUS
      <4>. QED
        BY <3>2, <4>1, StaleLemma
    <3>. QED
      BY <1>w, <3>1, <3>2
  <2>. QED
    BY <1>1, <2>1, <2>2, <2>3, <2>4, <2>5 DEF OpeningSteps
<1>2. ASSUME NEW p \in Panes, RecordHumanEnd(p) \/ ShellExits(p)
      PROVE  past'.ghosts = past.ghosts
  BY <1>2, HumanEndLemma, ExitLemma DEF EndsNoted
<1>3. CASE FinishKill
  BY <1>3, FinishLemma DEF EndsNoted
<1>4. ASSUME \/ \E d \in Daemons : \E P, W : BeginKill(d, P, W)
             \/ \E d \in Daemons, s \in Sessions : Reap(d, s)
      PROVE  past'.ghosts = past.ghosts
  BY <1>4, NoteLemma DEF BeginKill, Reap
<1>5. ASSUME NEW d \in Daemons, PassSteps(d) PROVE past'.ghosts = past.ghosts
  <2>1. CASE BeginPass(d) \/ ListOnDisk(d) \/ EndPass(d)
    BY <2>1 DEF BeginPass, ListOnDisk, EndPass
  <2>2. ASSUME NEW s \in Sessions, Judge(d, s) PROVE past'.ghosts = past.ghosts
    BY <2>2, JudgeLemma
  <2>3. CASE Move(d)
    <3>1. PICK s \in Sessions : Archive(s) \/ Refuses(past)
      BY <2>3 DEF Move, PassRecord
    <3>. QED
      BY <3>1, ArchiveLemma, RefusedLemma DEF Refuses, Unharmed
  <2>4. ASSUME NEW s \in Sessions, Persist(d, s) PROVE past'.ghosts = past.ghosts
    <3>1. past' = past \/ (\E e, t, P : WriteDoc(e, t, P)) \/ Upset(past)
      BY <2>4 DEF Persist, Refuses
    <3>. QED
      BY <1>w, <3>1, RefusedLemma DEF Unharmed
  <2>. QED
    BY <1>5, <2>1, <2>2, <2>3, <2>4 DEF PassSteps
<1>6. ASSUME NEW d \in Daemons, NEW s \in Sessions, RestoreSession(d, s) PROVE past'.ghosts = past.ghosts
  BY <1>6, RestoreLemma, ArchiveLemma
<1>7. ASSUME NEW d \in Daemons, NEW p \in Panes, AttachRestored(d, p), past'.ghosts # past.ghosts
      PROVE  /\ Requires(d) /\ p \in restore[d].plan
             /\ past' = [past EXCEPT !.ghosts = IF p \in past.ended THEN @ \cup {p} ELSE @]
  <2>1. CASE Refuses(past)
    BY <1>7, <2>1, RefusedLemma DEF Refuses, Unharmed
  <2>2. CASE UNCHANGED past
    BY <1>7, <2>2
  <2>. QED
    BY <1>7, <2>1, <2>2 DEF AttachRestored
<1>8. ASSUME NEW d \in Daemons, PersistRestored(d) PROVE past'.ghosts = past.ghosts
  <2>1. past' = past \/ (\E e, t, P : WriteDoc(e, t, P)) \/ Upset(past)
    BY <1>8 DEF PersistRestored, Refuses
  <2>. QED
    BY <1>w, <2>1, RefusedLemma DEF Unharmed
<1>9. ASSUME Start \/ \E d \in Daemons : StageSteps(d) PROVE past'.ghosts = past.ghosts
  <2>1. \/ past' = past \/ past' = [past EXCEPT !.upsets = @ + 1]
        \/ past' = [past EXCEPT !.overlap = TRUE, !.upsets = @ + 1]
    BY <1>9 DEF Start, StageSteps, Restored, Bind, Stop, Release, Upset
  <2>. QED
    BY <2>1, NoteLemma
<1>10. ASSUME Reboot \/ \E d \in Daemons : Crash(d) \/ Refuse(d) PROVE past'.ghosts = past.ghosts
  <2>1. past' = [past EXCEPT !.refused = TRUE] \/ \E C : past' = [past EXCEPT !.cut = C]
    BY <1>10 DEF Reboot, Crash, Refuse
  <2>. QED
    BY <2>1 DEF History
<1>11. UNCHANGED vars => past'.ghosts = past.ghosts
  BY DEF vars
<1>12. (\E d \in Daemons : \E P, W : BeginKill(d, P, W)) => past'.ghosts = past.ghosts
  BY <1>4
<1>. HIDE <1>0, Shapes, Empties
<1>. QED
  BY <1>1, <1>2, <1>3, <1>4, <1>5, <1>6, <1>7, <1>8, <1>9, <1>10, <1>11, <1>12, Steps

LEMMA PromisesKept == IndInv /\ [Next]_vars => Promises'
<1>. SUFFICES ASSUME IndInv, [Next]_vars PROVE Promises'
  OBVIOUS
<1>0. Typed /\ StagesInv /\ DiskInv /\ OverInv /\ EndsInv /\ Promises /\ Typed' /\ Grows /\ DiskStep
  BY TypesKept, DiskSteps DEF IndInv
<1>. USE <1>0, Shapes, Empties
<1>1. ArchivedAreOver'
  <2>1. SUFFICES ASSUME NEW p \in past'.strays PROVE Of[p] \in past'.early \cup past'.late
    BY DEF ArchivedAreOver
  <2>2. p \in past.strays => Of[p] \in past'.early \cup past'.late
    BY DEF Promises, ArchivedAreOver, Grows
  <2>3. ASSUME NEW s \in Sessions, Archive(s), p \notin past.strays
        PROVE  Of[p] \in past'.early \cup past'.late
    <3>1. /\ p \in pdirs /\ p \in In(s) /\ p \notin past.ended
          /\ \E d \in Daemons : s \in pass[d].over
          /\ (\E d \in Daemons \ {lease} : s \in pass[d].over) => s \in past'.late
      BY <2>3, ArchiveLemma
    <3>2. Of[p] = s
      BY <3>1 DEF In
    <3>3. CASE \E d \in Daemons \ {lease} : s \in pass[d].over
      BY <3>1, <3>2, <3>3
    <3>4. CASE \E d \in Daemons : d = lease /\ s \in pass[d].over
      BY <3>1, <3>2, <3>4 DEF OverInv, Grows
    <3>. QED
      BY <3>1, <3>3, <3>4
  <2>. QED
    BY <2>2, <2>3 DEF DiskStep, MakesDirs, WritesDoc
<1>2. EndedStaysEnded'
  <2>1. ASSUME NEW p \in past'.ghosts, p \notin past.ghosts PROVE p \in past'.raced \/ Of[p] \in past'.late
    <3>1. PICK d \in Daemons, q \in Panes :
              /\ Requires(d) /\ q \in restore[d].plan
              /\ past' = [past EXCEPT !.ghosts = IF q \in past.ended THEN @ \cup {q} ELSE @]
      BY <2>1, GhostsLemma
    <3>2. p = q /\ p \in past.ended
      BY <2>1, <3>1 DEF History
    <3>. QED
      BY <3>1, <3>2 DEF EndsInv, Requires, Grows
  <2>. QED
    BY <2>1 DEF Promises, EndedStaysEnded, Grows
<1>. QED
  BY <1>1, <1>2 DEF Promises
-----------------------------------------------------------------------------
(* Handles, and what a start restores.                                     *)

\* A step of opening a pane is one of that pane.
LEMMA OpeningLemma ==
    ASSUME Typed, StagesInv, NEW q \in Panes, OpeningSteps(q)
    PROVE  /\ \A p \in Panes \ {q} : spawn'[p] = spawn[p]
           /\ spawn'[q].by = spawn[q].by /\ spawn[q].by \in Daemons /\ stage[spawn[q].by] \in {"serving", "stopping"}
           /\ spawn[q].at \in {"entered", "dir", "launch", "persist", "write"}
           /\ spawn'[q].at \in {"dir", "launch", "persist", "write", "opened"}
           /\ \A p \in Panes : spawn'[p].by = spawn[p].by /\ (spawn[p].at # "no" => spawn'[p].at # "no")
<1>. USE Shapes
<1>1. \A p \in Panes \ {q} : spawn'[p] = spawn[p]
  BY DEF OpeningSteps, MakeSessionDir, MakePaneDir, Launch, RunLocally, CopySession, PersistSessionNow
<1>2. /\ spawn'[q].by = spawn[q].by
      /\ spawn[q].at \in {"entered", "dir", "launch", "persist", "write"}
      /\ spawn'[q].at \in {"dir", "launch", "persist", "write", "opened"}
  <2>1. CASE MakeSessionDir(q)
    BY <2>1 DEF MakeSessionDir, SpawnRecord
  <2>2. CASE MakePaneDir(q)
    BY <2>2 DEF MakePaneDir, SpawnRecord
  <2>3. CASE Launch(q)
    BY <2>3 DEF Launch, SpawnRecord
  <2>4. CASE RunLocally(q)
    BY <2>4 DEF RunLocally, SpawnRecord
  <2>5. CASE CopySession(q)
    BY <2>5 DEF CopySession, SpawnRecord
  <2>6. CASE PersistSessionNow(q)
    BY <2>6 DEF PersistSessionNow, SpawnRecord
  <2>. QED
    BY <2>1, <2>2, <2>3, <2>4, <2>5, <2>6 DEF OpeningSteps
<1>3. spawn[q].by \in Daemons /\ stage[spawn[q].by] \in {"serving", "stopping"}
  BY <1>2 DEF StagesInv
<1>. QED
  BY <1>1, <1>2, <1>3

LEMMA RestoreKept == IndInv /\ [Next]_vars => RestoreInv'
<1>. SUFFICES ASSUME IndInv, [Next]_vars PROVE RestoreInv'
  OBVIOUS
<1>0. Typed /\ StagesInv /\ UnbornInv /\ DiskInv /\ RestoreInv
  BY DEF IndInv
<1>. DEFINE Good(d) == AttachedInv(d) /\ TodoInv(d) /\ PlanInv(d) /\ CopyInv(d)
<1>z. \A d \in Daemons : Good(d)
  BY <1>0 DEF RestoreInv
<1>s. \A d \in Daemons : stage[d] # "restoring" => restore[d] = NoRestore
  BY <1>0 DEF StagesInv, StageOf
<1>. USE Shapes, Empties, <1>0 DEF runtime, requests, persister, disk, shells, daemon
<1>1. CASE UNCHANGED vars
  BY <1>1, <1>z DEF vars, RestoreInv, AttachedInv, TodoInv, PlanInv, CopyInv
<1>a. ASSUME NEW d \in Daemons, UNCHANGED <<reg, restore, pass>>, attached'[d] \subseteq attached[d],
             \A p \in attached'[d] : spawn'[p].at # "no" /\ spawn'[p].by # d
      PROVE  Good(d)'
  BY <1>a, <1>z DEF AttachedInv, TodoInv, PlanInv, CopyInv
<1>2. ASSUME NEW d \in Daemons, NEW q \in Panes, NewPane(d, q) PROVE RestoreInv'
  <2>1. restore[d] = NoRestore /\ UNCHANGED <<attached, restore, pass>>
    BY <1>s, <1>2 DEF NewPane, Clients
  <2>2. \A e \in Daemons : q \notin attached[e]
    BY <1>2, <1>z DEF NewPane, AttachedInv
  <2>3. spawn'[q].at = "entered" /\ \A p \in Panes \ {q} : spawn'[p] = spawn[p]
    BY <1>2 DEF NewPane, SpawnRecord
  <2>4. \A e \in Daemons \ {d} : reg'[e] = reg[e]
    BY <1>2 DEF NewPane
  <2>5. ASSUME NEW e \in Daemons PROVE Good(e)'
    <3>1. AttachedInv(e)'
      BY <1>z, <2>1, <2>2, <2>3 DEF AttachedInv
    <3>2. PlanInv(e)' /\ CopyInv(e)'
      BY <1>z, <2>1 DEF PlanInv, CopyInv
    <3>3. TodoInv(e)'
      BY <1>z, <2>1, <2>4 DEF TodoInv, NoRestore
    <3>. QED
      BY <3>1, <3>2, <3>3
  <2>. QED
    BY <2>5 DEF RestoreInv
<1>3. ASSUME NEW q \in Panes, OpeningSteps(q) PROVE RestoreInv'
  <2>1. UNCHANGED <<attached, reg, restore, pass>>
    BY <1>3 DEF OpeningSteps, MakeSessionDir, MakePaneDir, Launch, RunLocally, CopySession, PersistSessionNow
  <2>2. \A p \in Panes : spawn'[p].by = spawn[p].by /\ (spawn[p].at # "no" => spawn'[p].at # "no")
    BY <1>3, OpeningLemma
  <2>3. ASSUME NEW e \in Daemons PROVE Good(e)'
    BY <1>z, <1>a, <2>1, <2>2 DEF AttachedInv
  <2>. QED
    BY <2>3 DEF RestoreInv
<1>4. ASSUME NEW q \in Panes, Opened(q) PROVE RestoreInv'
  <2>1. /\ spawn'[q].at = "done" /\ spawn'[q].by = 0 /\ \A p \in Panes \ {q} : spawn'[p] = spawn[p]
        /\ UNCHANGED <<reg, restore, pass>>
    BY <1>4 DEF Opened, NoSpawn
  <2>2. PICK d \in Daemons : d = spawn[q].by
    BY <1>4 DEF Opened, StagesInv
  <2>3. restore[d] = NoRestore
    BY <1>s, <2>2 DEF StagesInv
  <2>4. /\ \A e \in Daemons \ {d} : attached'[e] = attached[e]
        /\ \A p \in attached'[d] : p \in attached[d] \/ p = q
    BY <1>4, <2>2 DEF Opened
  <2>5. ASSUME NEW e \in Daemons PROVE Good(e)'
    <3>1. AttachedInv(e)'
      BY <1>z, <2>1, <2>4 DEF AttachedInv
    <3>2. TodoInv(e)' /\ PlanInv(e)'
      BY <1>z, <2>1, <2>3, <2>4 DEF TodoInv, PlanInv, NoRestore
    <3>3. CopyInv(e)'
      BY <1>z, <2>1 DEF CopyInv
    <3>. QED
      BY <3>1, <3>2, <3>3
  <2>. QED
    BY <2>5 DEF RestoreInv
<1>5. ASSUME UNCHANGED <<attached, reg, restore, pass, spawn>> PROVE RestoreInv'
  BY <1>5, <1>z DEF RestoreInv, AttachedInv, TodoInv, PlanInv, CopyInv
<1>6. ASSUME UNCHANGED <<restore, pass, spawn>>,
             \A e \in Daemons : attached'[e] \subseteq attached[e] /\ reg'[e].open \subseteq reg[e].open
      PROVE  RestoreInv'
  BY <1>6, <1>z DEF RestoreInv, AttachedInv, TodoInv, PlanInv, CopyInv
<1>7. FinishKill \/ (\E d \in Daemons, s \in Sessions : Reap(d, s)) => RestoreInv'
  <2>1. CASE FinishKill
    <3>1. UNCHANGED <<restore, pass, spawn>>
      BY <2>1 DEF FinishKill
    <3>2. \A e \in Daemons : attached'[e] \subseteq attached[e] /\ reg'[e].open \subseteq reg[e].open
      BY <2>1 DEF FinishKill
    <3>. QED
      BY <1>6, <3>1, <3>2
  <2>2. ASSUME NEW d \in Daemons, NEW s \in Sessions, Reap(d, s) PROVE RestoreInv'
    <3>1. UNCHANGED <<restore, pass, spawn>>
      BY <2>2 DEF Reap
    <3>2. \A e \in Daemons : attached'[e] \subseteq attached[e] /\ reg'[e].open \subseteq reg[e].open
      BY <2>2 DEF Reap
    <3>. QED
      BY <1>6, <3>1, <3>2
  <2>. QED
    BY <2>1, <2>2
<1>8. ASSUME NEW d \in Daemons, PassSteps(d) PROVE RestoreInv'
  <2>1. UNCHANGED <<attached, reg, restore, spawn>> /\ \A e \in Daemons \ {d} : pass'[e] = pass[e]
    <3>1. ASSUME NEW s \in Sessions, Persist(d, s) \/ Judge(d, s)
          PROVE  UNCHANGED <<attached, reg, restore, spawn>> /\ \A e \in Daemons \ {d} : pass'[e] = pass[e]
      BY <3>1 DEF Persist, Judge
    <3>2. ASSUME BeginPass(d) \/ ListOnDisk(d) \/ Move(d) \/ EndPass(d)
          PROVE  UNCHANGED <<attached, reg, restore, spawn>> /\ \A e \in Daemons \ {d} : pass'[e] = pass[e]
      BY <3>2 DEF BeginPass, ListOnDisk, Move, EndPass
    <3>. QED
      BY <1>8, <3>1, <3>2 DEF PassSteps
  <2>2. CopyInv(d)' /\ pass'[d].open \subseteq pass[d].open \cup reg[d].open
    <3>0. CopyInv(d)
      BY <1>z
    <3>1. CASE BeginPass(d)
      BY <3>1 DEF BeginPass, CopyInv
    <3>2. ASSUME NEW s \in Sessions, Persist(d, s) PROVE CopyInv(d)' /\ pass'[d].open \subseteq pass[d].open
      BY <3>0, <3>2 DEF Persist, CopyInv, PassRecord
    <3>3. CASE ListOnDisk(d)
      BY <3>0, <3>3 DEF ListOnDisk, CopyInv, PassRecord, NoPass
    <3>4. ASSUME NEW s \in Sessions, Judge(d, s) PROVE CopyInv(d)' /\ pass'[d].open \subseteq pass[d].open
      BY <3>0, <3>4 DEF Judge, CopyInv, PassRecord
    <3>5. CASE Move(d)
      BY <3>0, <3>5 DEF Move, CopyInv, PassRecord
    <3>6. CASE EndPass(d)
      BY <3>0, <3>6 DEF EndPass, CopyInv, NoPass
    <3>. QED
      BY <1>8, <3>1, <3>2, <3>3, <3>4, <3>5, <3>6 DEF PassSteps
  <2>3. ASSUME NEW e \in Daemons PROVE Good(e)'
    <3>1. AttachedInv(e)' /\ PlanInv(e)'
      BY <1>z, <2>1 DEF AttachedInv, PlanInv
    <3>2. CopyInv(e)'
      BY <1>z, <2>1, <2>2 DEF CopyInv
    <3>3. TodoInv(e)'
      BY <1>z, <2>1, <2>2 DEF TodoInv
    <3>. QED
      BY <3>1, <3>2, <3>3
  <2>. QED
    BY <2>3 DEF RestoreInv
<1>9. ASSUME NEW d \in Daemons, NEW s \in Sessions, RestoreSession(d, s) PROVE RestoreInv'
  <2>1. UNCHANGED <<attached, pass, spawn>>
    BY <1>9 DEF RestoreSession
  <2>2. CASE Returns(d, s)
    <3>a. PICK back \in SUBSET doc[s].panes :
             /\ reg' = [reg EXCEPT ![d] = [open |-> @.open \cup {s}, panes |-> @.panes \cup back]]
             /\ restore' = [restore EXCEPT ![d] = [todo |-> @.todo \ {s}, at |-> {s}, plan |-> back]]
      BY <2>2, ReturnsLemma
    <3>1. /\ restore'[d] = [todo |-> restore[d].todo \ {s}, at |-> {s}, plan |-> back]
          /\ reg'[d].open = reg[d].open \cup {s}
          /\ \A e \in Daemons \ {d} : restore'[e] = restore[e] /\ reg'[e] = reg[e]
      BY <3>a
    <3>2. \A p \in back : Of[p] = s
      BY DEF DiskInv, In
    <3>3. s \in restore[d].todo
      BY <1>9 DEF RestoreSession
    <3>4. Good(d)'
      <4>1. AttachedInv(d)' /\ CopyInv(d)'
        BY <1>z, <2>1 DEF AttachedInv, CopyInv
      <4>2. TodoInv(d)'
        BY <1>z, <2>1, <3>1 DEF TodoInv
      <4>3. PlanInv(d)'
        BY <1>z, <2>1, <3>1, <3>2, <3>3 DEF TodoInv, PlanInv
      <4>. QED
        BY <4>1, <4>2, <4>3
    <3>5. ASSUME NEW e \in Daemons \ {d} PROVE Good(e)'
      BY <1>z, <2>1, <3>1 DEF AttachedInv, TodoInv, PlanInv, CopyInv
    <3>. QED
      BY <3>4, <3>5 DEF RestoreInv
  <2>3. CASE restore' = [restore EXCEPT ![d].todo = @ \ {s}] /\ UNCHANGED reg
    <3>1. \A e \in Daemons : restore'[e].todo \subseteq restore[e].todo /\ restore'[e].at = restore[e].at
                             /\ restore'[e].plan = restore[e].plan
      BY <2>3 DEF RestoreRecord
    <3>. QED
      BY <1>z, <2>1, <2>3, <3>1 DEF RestoreInv, AttachedInv, TodoInv, PlanInv, CopyInv
  <2>. QED
    BY <1>9, <2>2, <2>3 DEF RestoreSession, Stays, Leaves
<1>10. ASSUME NEW d \in Daemons, NEW q \in Panes, AttachRestored(d, q) PROVE RestoreInv'
  <2>1. /\ UNCHANGED <<reg, pass, spawn>>
        /\ \A e \in Daemons \ {d} : attached'[e] = attached[e] /\ restore'[e] = restore[e]
        /\ restore'[d].todo = restore[d].todo /\ restore'[d].at = restore[d].at
        /\ restore'[d].plan = restore[d].plan \ {q}
        /\ attached'[d] \subseteq attached[d] \cup {q}
    BY <1>10 DEF AttachRestored, RestoreRecord
  <2>2. q \in restore[d].plan /\ stage[d] = "restoring"
    BY <1>s, <1>10 DEF AttachRestored, NoRestore
  <2>3. spawn[q].at # "no" /\ spawn[q].by # d
    BY <2>2 DEF UnbornInv, StagesInv
  <2>4. Of[q] \in restore[d].at
    BY <1>z, <2>2 DEF PlanInv
  <2>5. Good(d)'
    <3>1. AttachedInv(d)' /\ CopyInv(d)'
      BY <1>z, <2>1, <2>3 DEF AttachedInv, CopyInv
    <3>2. TodoInv(d)'
      BY <1>z, <2>1, <2>4 DEF TodoInv
    <3>3. PlanInv(d)'
      BY <1>z, <2>1 DEF PlanInv
    <3>. QED
      BY <3>1, <3>2, <3>3
  <2>6. ASSUME NEW e \in Daemons \ {d} PROVE Good(e)'
    BY <1>z, <2>1 DEF AttachedInv, TodoInv, PlanInv, CopyInv
  <2>. QED
    BY <2>5, <2>6 DEF RestoreInv
<1>11. ASSUME NEW d \in Daemons, PersistRestored(d) PROVE RestoreInv'
  <2>1. /\ UNCHANGED <<reg, attached, pass, spawn>>
        /\ \A e \in Daemons \ {d} : restore'[e] = restore[e]
        /\ restore'[d].todo = restore[d].todo /\ restore'[d].at = {} /\ restore'[d].plan = {}
    BY <1>11 DEF PersistRestored, RestoreRecord
  <2>. QED
    BY <1>z, <2>1 DEF RestoreInv, AttachedInv, TodoInv, PlanInv, CopyInv
<1>12. ASSUME NEW d \in Daemons, StageSteps(d) PROVE RestoreInv'
  <2>1. UNCHANGED <<reg, restore, pass, spawn>> /\ \A e \in Daemons : attached'[e] \subseteq attached[e]
    BY <1>12 DEF StageSteps, Restored, Bind, Stop, Release
  <2>. QED
    BY <1>6, <2>1
<1>13. CASE Start
  <2>1. lease' \in Daemons /\ stage[lease'] = "no"
    BY <1>13, ConstantsAssumption DEF Start, Daemons, StagesInv, StageOf
  <2>2. reg[lease'] = NoReg /\ attached[lease'] = {} /\ pass[lease'] = NoPass
    BY <2>1 DEF StagesInv, StageOf
  <2>3. /\ UNCHANGED <<reg, attached, pass, spawn>>
        /\ restore'[lease'].at = {} /\ restore'[lease'].plan = {}
        /\ \A e \in Daemons : e # lease' => restore'[e] = restore[e]
    BY <1>13, <2>1 DEF Start, NoRestore
  <2>4. ASSUME NEW e \in Daemons, e = lease' PROVE Good(e)'
    BY <1>z, <2>2, <2>3, <2>4 DEF AttachedInv, TodoInv, PlanInv, CopyInv, NoReg, NoPass
  <2>5. ASSUME NEW e \in Daemons, e # lease' PROVE Good(e)'
    BY <1>z, <2>3, <2>5 DEF AttachedInv, TodoInv, PlanInv, CopyInv
  <2>. QED
    BY <2>4, <2>5 DEF RestoreInv
<1>14. ASSUME NEW D \in SUBSET Daemons, Gone(D) PROVE RestoreInv'
  <2>1. \A p \in Panes : /\ spawn[p].at # "no" => spawn'[p].at # "no"
                         /\ spawn'[p].by \in {0, spawn[p].by}
    BY <1>14 DEF Gone, NoSpawn
  <2>2. ASSUME NEW e \in D PROVE Good(e)'
    <3>1. attached'[e] = {} /\ restore'[e] = NoRestore /\ pass'[e] = NoPass
      BY <1>14 DEF Gone
    <3>. QED
      BY <3>1 DEF AttachedInv, TodoInv, PlanInv, CopyInv, NoRestore, NoPass
  <2>3. ASSUME NEW e \in Daemons \ D PROVE Good(e)'
    <3>1. attached'[e] = attached[e] /\ restore'[e] = restore[e] /\ pass'[e] = pass[e] /\ reg'[e] = reg[e]
      BY <1>14 DEF Gone
    <3>2. AttachedInv(e)'
      BY <1>z, <2>1, <3>1 DEF AttachedInv
    <3>. QED
      BY <1>z, <3>1, <3>2 DEF TodoInv, PlanInv, CopyInv
  <2>. QED
    BY <2>2, <2>3 DEF RestoreInv
<1>15. Reboot \/ (\E d \in Daemons : Crash(d) \/ Refuse(d)) => RestoreInv'
  <2>1. Reboot => RestoreInv'
    BY <1>14 DEF Reboot
  <2>2. ASSUME NEW d \in Daemons, Crash(d) \/ Refuse(d) PROVE RestoreInv'
    <3>1. {d} \in SUBSET Daemons /\ Gone({d})
      BY <2>2 DEF Crash, Refuse
    <3>. QED
      BY <1>14, <3>1
  <2>. QED
    BY <2>1, <2>2
<1>16. \/ \E d \in Daemons : \E P, W : BeginKill(d, P, W)
       \/ \E q \in Panes : RecordHumanEnd(q) \/ ShellExits(q)
       => UNCHANGED <<attached, reg, restore, pass, spawn>>
  BY DEF BeginKill, RecordHumanEnd, ShellExits
<1>. HIDE <1>0, Shapes, Empties
<1>. QED
  BY <1>1, <1>2, <1>3, <1>4, <1>5, <1>7, <1>8, <1>9, <1>10, <1>11, <1>12, <1>13, <1>15, <1>16, Steps
-----------------------------------------------------------------------------
(* The registry.                                                           *)

LEMMA ExemptStays == Grows => \A p : Exempt(p) => Exempt(p)'
  BY DEF Grows, Exempt

\* A pane leaves the registry of a daemon that goes on when it was killed, or
\* has exited.
LEMMA RegistryLoses ==
    ASSUME IndInv, [Next]_vars, NEW d \in Daemons, NEW p \in reg[d].panes, p \notin reg'[d].panes
    PROVE  \/ stage'[d] = "gone" \/ (p \in attached[d] /\ p \notin holders)
           \/ Exempt(p)' /\ kill.by = d
<1>0. Typed /\ StagesInv /\ KillInv /\ Grows
  BY TypesKept DEF IndInv
<1>p. p \in Panes
  BY <1>0 DEF Typed
<1>. USE <1>0, Shapes, Empties DEF runtime, requests, persister, disk, shells, daemon
<1>. DEFINE Out == \/ stage'[d] = "gone" \/ (p \in attached[d] /\ p \notin holders)
                   \/ Exempt(p)' /\ kill.by = d
<1>1. ASSUME \A q \in reg[d].panes : q \in reg'[d].panes PROVE FALSE
  BY <1>1
<1>2. CASE FinishKill
  <2>1. d = kill.by
    BY <1>2 DEF FinishKill
  <2>2. p \in kill.panes \/ Of[p] \in kill.whole
    BY <2>1, <1>2 DEF FinishKill, StagesInv
  <2>3. kill.todo = {}
    BY <1>2 DEF FinishKill
  <2>. DEFINE cut == past.cut \cup {r \in reg[kill.by].panes \ kill.panes : Of[r] \in kill.whole}
                        \cup (IF Requires(kill.by) THEN {} ELSE kill.panes)
  <2>4. past'.cut = cut
    <3>1. FinishKill /\ Typed /\ StagesInv
      BY <1>2
    <3>. QED
      BY <3>1, FinishLemma
  <2>5. CASE p \in cut
    BY <2>1, <2>4, <2>5 DEF Exempt
  <2>6. CASE p \notin cut
    <3>1. p \in kill.panes /\ Requires(kill.by)
      BY <1>p, <2>1, <2>2, <2>6
    <3>2. p \in past.ended \cup past.cut
      BY <2>1, <2>3, <2>6, <3>1 DEF KillInv
    <3>. QED
      BY <2>1, <3>2 DEF Exempt, Grows
  <2>. QED
    BY <2>5, <2>6
<1>3. ASSUME NEW e \in Daemons, NEW s \in Sessions, Reap(e, s) PROVE Out
  <2>1. e = d /\ p \in In(s)
    BY <1>3 DEF Reap
  <2>. QED
    BY <1>3, <2>1 DEF Reap
<1>4. ASSUME NEW D \in SUBSET Daemons, Gone(D) PROVE Out
  BY <1>4 DEF Gone
<1>5. ASSUME NEW q \in Panes, OpeningSteps(q) PROVE FALSE
  BY <1>1, <1>5 DEF OpeningSteps, MakeSessionDir, MakePaneDir, Launch, RunLocally, CopySession, PersistSessionNow
<1>6. ASSUME NEW e \in Daemons, NEW q \in Panes, NewPane(e, q) PROVE FALSE
  BY <1>6 DEF NewPane
<1>7. ASSUME NEW e \in Daemons, PassSteps(e) PROVE FALSE
  <2>1. ASSUME NEW s \in Sessions, Persist(e, s) \/ Judge(e, s) PROVE FALSE
    BY <1>1, <2>1 DEF Persist, Judge
  <2>2. ASSUME BeginPass(e) \/ ListOnDisk(e) \/ Move(e) \/ EndPass(e) PROVE FALSE
    BY <1>1, <2>2 DEF BeginPass, ListOnDisk, Move, EndPass
  <2>. QED
    BY <1>7, <2>1, <2>2 DEF PassSteps
<1>8. ASSUME NEW e \in Daemons, NEW s \in Sessions, RestoreSession(e, s) PROVE FALSE
  <2>1. CASE Returns(e, s)
    <3>1. PICK P \in SUBSET Panes : reg' = [reg EXCEPT ![e] = [open |-> @.open \cup {s}, panes |-> @.panes \cup P]]
      BY <2>1, ReturnsToReg
    <3>. QED
      BY <3>1
  <2>2. CASE Stays(e, s) \/ Leaves(e, s)
    BY <1>1, <2>2 DEF Stays, Leaves
  <2>. QED
    BY <1>8, <2>1, <2>2 DEF RestoreSession
<1>9. ASSUME NEW e \in Daemons, \/ \E q \in Panes : AttachRestored(e, q)
                                \/ PersistRestored(e) \/ StageSteps(e)
      PROVE  FALSE
  BY <1>1, <1>9 DEF AttachRestored, PersistRestored, StageSteps, Restored, Bind, Stop, Release
<1>10. Reboot \/ (\E e \in Daemons : Crash(e) \/ Refuse(e)) => Out
  <2>1. Reboot => Out
    BY <1>4 DEF Reboot
  <2>2. ASSUME NEW e \in Daemons, Crash(e) \/ Refuse(e) PROVE Out
    <3>1. {e} \in SUBSET Daemons /\ Gone({e})
      BY <2>2 DEF Crash, Refuse
    <3>. QED
      BY <1>4, <3>1
  <2>. QED
    BY <2>1, <2>2
<1>11. ~(\/ \E e \in Daemons : \E P, W : BeginKill(e, P, W)
         \/ \E q \in Panes : RecordHumanEnd(q) \/ ShellExits(q) \/ Opened(q)
         \/ Start \/ UNCHANGED vars)
  BY <1>1 DEF BeginKill, RecordHumanEnd, ShellExits, Opened, Start, vars
<1>. HIDE <1>0, Shapes, Empties
<1>. QED
  BY <1>2, <1>3, <1>5, <1>6, <1>7, <1>8, <1>9, <1>10, <1>11, Steps

\* A daemon that requires the store did so before, and opens panes that it did.
LEMMA RequiresStays ==
    ASSUME Typed, StagesInv, [Next]_vars, NEW d \in Daemons, stage[d] # "no", Requires(d)'
    PROVE  Requires(d) /\ lease' = lease
<1>. USE Shapes, Empties
<1>1. (durable' \subseteq durable /\ UNCHANGED lease) \/ Start
  <2>2. ASSUME NEW D, Gone(D), UNCHANGED lease PROVE durable' \subseteq durable
    BY <2>2 DEF Gone
  <2>3. ASSUME NEW e \in Daemons, StageSteps(e) PROVE durable' \subseteq durable /\ UNCHANGED lease
    BY <2>3 DEF StageSteps, Restored, Bind, Stop, Release
  <2>4. ASSUME NEW q \in Panes, OpeningSteps(q) \/ Opened(q) \/ RecordHumanEnd(q) \/ ShellExits(q)
        PROVE  UNCHANGED daemon
    BY <2>4 DEF OpeningSteps, MakeSessionDir, MakePaneDir, Launch, RunLocally, CopySession, PersistSessionNow,
       Opened, RecordHumanEnd, ShellExits
  <2>5. ASSUME NEW e \in Daemons, \/ PassSteps(e) \/ PersistRestored(e)
                                  \/ \E q \in Panes : AttachRestored(e, q) \/ NewPane(e, q)
                                  \/ \E s \in Sessions : RestoreSession(e, s) \/ Reap(e, s)
                                  \/ \E P, W : BeginKill(e, P, W)
        PROVE  UNCHANGED daemon
    <3>1. PassSteps(e) => UNCHANGED daemon
      <4>1. ASSUME NEW s \in Sessions, Persist(e, s) \/ Judge(e, s) PROVE UNCHANGED daemon
        BY <4>1 DEF Persist, Judge
      <4>. QED
        BY <4>1 DEF PassSteps, BeginPass, ListOnDisk, Move, EndPass
    <3>. QED
      BY <2>5, <3>1 DEF PersistRestored, AttachRestored, NewPane, RestoreSession, Reap, BeginKill
  <2>6. FinishKill \/ UNCHANGED vars => UNCHANGED daemon
    BY DEF FinishKill, vars
  <2>7. Reboot \/ (\E e \in Daemons : Crash(e) \/ Refuse(e)) => \E D : Gone(D) /\ UNCHANGED lease
    BY DEF Reboot, Crash, Refuse
  <2>8. UNCHANGED daemon => UNCHANGED <<durable, lease>>
    BY DEF daemon
  <2>. HIDE Shapes, Empties
  <2>. QED
    BY <2>2, <2>3, <2>4, <2>5, <2>6, <2>7, <2>8, Steps
<1>2. CASE durable' \subseteq durable /\ UNCHANGED lease
  BY <1>2 DEF Requires
<1>3. CASE Start
  <2>1. d = lease + 1
    BY <1>3 DEF Start, Requires
  <2>2. stage[d] = "no"
    BY <2>1, ConstantsAssumption DEF StagesInv, StageOf, Daemons
  <2>. QED
    BY <2>2
<1>. QED
  BY <1>1, <1>2, <1>3

LEMMA RegistryGains ==
    ASSUME Typed, StagesInv, [Next]_vars, NEW d \in Daemons, NEW p \in reg'[d].panes, p \notin reg[d].panes
    PROVE  stage[d] = "restoring" \/ (p \in Panes /\ spawn[p].at = "no")
<1>. USE Shapes, Empties DEF runtime, requests, persister, disk, shells, daemon
<1>1. ASSUME \A q \in reg'[d].panes : q \in reg[d].panes PROVE FALSE
  BY <1>1
<1>2. ~FinishKill
  BY DEF FinishKill
<1>3. ASSUME NEW e \in Daemons, NEW s \in Sessions, Reap(e, s) PROVE FALSE
  BY <1>3 DEF Reap
<1>4. ASSUME NEW D, Gone(D) PROVE FALSE
  BY <1>4 DEF Gone, NoReg
<1>5. ASSUME NEW q \in Panes, OpeningSteps(q) PROVE FALSE
  BY <1>1, <1>5 DEF OpeningSteps, MakeSessionDir, MakePaneDir, Launch, RunLocally, CopySession, PersistSessionNow
<1>6. ASSUME NEW e \in Daemons, NEW q \in Panes, NewPane(e, q) PROVE p \in Panes /\ spawn[p].at = "no"
  BY <1>6 DEF NewPane
<1>7. ASSUME NEW e \in Daemons, PassSteps(e) PROVE FALSE
  <2>1. ASSUME NEW s \in Sessions, Persist(e, s) \/ Judge(e, s) PROVE FALSE
    BY <1>1, <2>1 DEF Persist, Judge
  <2>2. ASSUME BeginPass(e) \/ ListOnDisk(e) \/ Move(e) \/ EndPass(e) PROVE FALSE
    BY <1>1, <2>2 DEF BeginPass, ListOnDisk, Move, EndPass
  <2>. QED
    BY <1>7, <2>1, <2>2 DEF PassSteps
<1>8. ASSUME NEW e \in Daemons, NEW s \in Sessions, RestoreSession(e, s) PROVE stage[d] = "restoring"
  <2>1. CASE Returns(e, s)
    <3>1. PICK P \in SUBSET Panes : reg' = [reg EXCEPT ![e] = [open |-> @.open \cup {s}, panes |-> @.panes \cup P]]
      BY <2>1, ReturnsToReg
    <3>2. d = e
      BY <3>1
    <3>. QED
      BY <1>8, <3>2 DEF RestoreSession
  <2>2. CASE Stays(e, s) \/ Leaves(e, s)
    BY <1>1, <2>2 DEF Stays, Leaves
  <2>. QED
    BY <1>8, <2>1, <2>2 DEF RestoreSession
<1>9. ASSUME NEW e \in Daemons, \/ \E q \in Panes : AttachRestored(e, q)
                                \/ PersistRestored(e) \/ StageSteps(e)
      PROVE  FALSE
  BY <1>1, <1>9 DEF AttachRestored, PersistRestored, StageSteps, Restored, Bind, Stop, Release
<1>10. Reboot \/ (\E e \in Daemons : Crash(e) \/ Refuse(e)) => \E D : Gone(D)
  BY DEF Reboot, Crash, Refuse
<1>11. ~(\/ \E e \in Daemons : \E P, W : BeginKill(e, P, W)
         \/ \E q \in Panes : RecordHumanEnd(q) \/ ShellExits(q) \/ Opened(q)
         \/ Start \/ UNCHANGED vars)
  BY <1>1 DEF BeginKill, RecordHumanEnd, ShellExits, Opened, Start, vars
<1>. HIDE Shapes, Empties
<1>. QED
  BY <1>2, <1>3, <1>4, <1>5, <1>6, <1>7, <1>8, <1>9, <1>10, <1>11, Steps

\* What becomes of a pane that is being opened
LEMMA SpawnSteps ==
    ASSUME Typed, [Next]_vars, NEW p \in Panes
    PROVE  \/ spawn'[p] = spawn[p]
           \/ \E d \in Daemons : NewPane(d, p)
           \/ OpeningSteps(p) \/ Opened(p)
           \/ spawn'[p] = [NoSpawn EXCEPT !.at = "done"] /\ \E D \in SUBSET Daemons : Gone(D) /\ spawn[p].by \in D
<1>. USE Shapes DEF runtime, requests, persister, disk, shells, daemon
<1>1. ASSUME NEW q \in Panes, OpeningSteps(q) \/ Opened(q), p # q PROVE spawn'[p] = spawn[p]
  BY <1>1 DEF OpeningSteps, MakeSessionDir, MakePaneDir, Launch, RunLocally, CopySession, PersistSessionNow, Opened
<1>2. ASSUME NEW d \in Daemons, NEW q \in Panes, NewPane(d, q), p # q PROVE spawn'[p] = spawn[p]
  BY <1>2 DEF NewPane
<1>3. ASSUME NEW D \in SUBSET Daemons, Gone(D)
      PROVE  spawn'[p] = spawn[p] \/ (spawn'[p] = [NoSpawn EXCEPT !.at = "done"] /\ spawn[p].by \in D)
  BY <1>3 DEF Gone
<1>4. Reboot \/ (\E e \in Daemons : Crash(e) \/ Refuse(e)) => \E D \in SUBSET Daemons : Gone(D)
  <2>1. Reboot => \E D \in SUBSET Daemons : Gone(D)
    BY DEF Reboot
  <2>2. ASSUME NEW e \in Daemons, Crash(e) \/ Refuse(e) PROVE \E D \in SUBSET Daemons : Gone(D)
    <3>1. {e} \in SUBSET Daemons /\ Gone({e})
      BY <2>2 DEF Crash, Refuse
    <3>. QED
      BY <3>1
  <2>. QED
    BY <2>1, <2>2
<1>5. ASSUME NEW e \in Daemons, PassSteps(e) PROVE spawn' = spawn
  <2>1. ASSUME NEW s \in Sessions, Persist(e, s) \/ Judge(e, s) PROVE spawn' = spawn
    BY <2>1 DEF Persist, Judge
  <2>. QED
    BY <1>5, <2>1 DEF PassSteps, BeginPass, ListOnDisk, Move, EndPass
<1>6. ASSUME NEW e \in Daemons, \/ \E q \in Panes : AttachRestored(e, q)
                                \/ \E s \in Sessions : RestoreSession(e, s)
                                \/ PersistRestored(e) \/ StageSteps(e)
      PROVE  spawn' = spawn
  BY <1>6 DEF AttachRestored, RestoreSession, PersistRestored, StageSteps, Restored, Bind, Stop, Release
<1>7. \/ \E e \in Daemons : \E P, W : BeginKill(e, P, W)
      \/ \E e \in Daemons, s \in Sessions : Reap(e, s)
      \/ \E q \in Panes : RecordHumanEnd(q) \/ ShellExits(q)
      \/ Start \/ FinishKill \/ UNCHANGED vars
      => spawn' = spawn
  BY DEF BeginKill, Reap, RecordHumanEnd, ShellExits, Start, FinishKill, vars
<1>. HIDE Shapes
<1>. QED
  BY <1>1, <1>2, <1>3, <1>4, <1>5, <1>6, <1>7, Steps

LEMMA OpenKept == IndInv /\ [Next]_vars => OpenInv'
<1>. SUFFICES ASSUME IndInv, [Next]_vars PROVE OpenInv'
  OBVIOUS
<1>0. Typed /\ Typed' /\ StagesInv /\ RestoreInv /\ OpenInv /\ Grows
  BY TypesKept DEF IndInv
<1>. USE <1>0, Shapes, Empties
<1>e. \A p : Exempt(p) => Exempt(p)'
  BY ExemptStays
<1>1. ASSUME NEW p \in Panes, NEW d \in Daemons, spawn[p].by = d, Requires(d)',
             spawn[p].at \in {"entered", "dir", "launch", "persist", "write"}
      PROVE  Requires(d) /\ (p \in reg'[d].panes \/ Exempt(p)')
  <2>1. Requires(d)
    BY <1>1, RequiresStays DEF StagesInv
  <2>2. p \in reg[d].panes \/ Exempt(p)
    BY <1>1, <2>1 DEF OpenInv
  <2>3. stage'[d] # "gone"
    BY <1>1 DEF Requires, Typed, Up
  <2>4. p \notin attached[d]
    BY <1>1 DEF RestoreInv, AttachedInv
  <2>. QED
    BY <1>e, <2>1, <2>2, <2>3, <2>4, RegistryLoses
<1>. DEFINE Copied(p) ==
              /\ spawn[p].at = "write" => p \in spawn[p].doc.panes \/ Exempt(p)
              /\ spawn[p].doc.here => spawn[p].at = "write"
              /\ spawn[p].doc.panes \subseteq In(Of[p])
              /\ ~spawn[p].doc.here => spawn[p].doc.panes = {}
            Kept(p) == \A d \in Daemons :
              spawn[p].by = d /\ spawn[p].at \in {"entered", "dir", "launch", "persist", "write"} /\ Requires(d) =>
                p \in reg[d].panes \/ Exempt(p)
<1>2. \A p \in Panes : Copied(p)
  BY DEF OpenInv
<1>3. SUFFICES ASSUME NEW p \in Panes PROVE Kept(p)' /\ Copied(p)'
  <2>1. \A p \in Panes : Kept(p)' /\ Copied(p)'
    BY <1>3
  <2>2. durable' \subseteq Daemons
    BY DEF Typed, Up
  <2>. QED
    BY <2>1, <2>2 DEF OpenInv, Requires
<1>4. CASE spawn'[p] = spawn[p]
  BY <1>1, <1>2, <1>4, <1>e
<1>5. ASSUME NEW d \in Daemons, NewPane(d, p) PROVE Kept(p)' /\ Copied(p)'
  <2>1. spawn'[p].at = "entered" /\ spawn'[p].by = d /\ spawn'[p].doc = spawn[p].doc /\ p \in reg'[d].panes
    BY <1>5 DEF NewPane, SpawnRecord
  <2>2. spawn[p].at = "no"
    BY <1>5 DEF NewPane
  <2>. QED
    BY <1>2, <2>1, <2>2
<1>6. CASE OpeningSteps(p)
  <2>1. PICK d \in Daemons : d = spawn[p].by /\ d = spawn'[p].by
    BY <1>6, OpeningLemma
  <2>2. Kept(p)'
    <3>1. spawn[p].at \in {"entered", "dir", "launch", "persist", "write"}
      BY <1>6, OpeningLemma
    <3>. QED
      BY <1>1, <2>1, <3>1
  <2>3. Copied(p)'
    <3>1. CASE MakeSessionDir(p) \/ MakePaneDir(p) \/ Launch(p) \/ RunLocally(p)
      <4>1. spawn'[p].doc = spawn[p].doc /\ spawn[p].at # "write" /\ spawn'[p].at # "write"
        <5>1. CASE MakeSessionDir(p)
          BY <5>1 DEF MakeSessionDir, SpawnRecord
        <5>2. CASE MakePaneDir(p)
          BY <5>2 DEF MakePaneDir, SpawnRecord
        <5>3. CASE Launch(p)
          BY <5>3 DEF Launch, SpawnRecord
        <5>4. CASE RunLocally(p)
          BY <5>4 DEF RunLocally, SpawnRecord
        <5>. QED
          BY <3>1, <5>1, <5>2, <5>3, <5>4
      <4>. QED
        BY <1>2, <4>1
    <3>2. CASE CopySession(p)
      <4>. DEFINE copy == IF Requires(d) /\ Of[p] \in reg[d].open THEN Doc(reg[d].panes \cap In(Of[p])) ELSE NoDoc
      <4>1. /\ copy.panes \subseteq In(Of[p])
            /\ ~copy.here => copy.panes = {}
            /\ copy.here => Requires(d) /\ copy.panes = reg[d].panes \cap In(Of[p])
        BY DEF Doc, NoDoc
      <4>2. spawn' = [spawn EXCEPT ![p].at = "write", ![p].doc = copy]
        BY <2>1, <3>2 DEF CopySession
      <4>. HIDE DEF copy
      <4>3. spawn'[p].doc = copy /\ spawn'[p].at = "write"
        BY <4>2 DEF SpawnRecord
      <4>4. CASE copy.here
        <5>1. p \in reg[d].panes \/ Exempt(p)
          BY <2>1, <3>2, <4>1, <4>4 DEF OpenInv, CopySession
        <5>2. p \in copy.panes \/ Exempt(p)
          BY <4>1, <4>4, <5>1
        <5>. QED
          BY <1>e, <4>1, <4>3, <4>4, <5>2
      <4>5. CASE ~copy.here
        <5>1. past' = [past EXCEPT !.cut = @ \cup {p}]
          BY <3>2, <4>3, <4>5 DEF CopySession
        <5>2. Exempt(p)'
          BY <5>1 DEF Exempt, History
        <5>. QED
          BY <4>1, <4>3, <4>5, <5>2
      <4>. QED
        BY <4>4, <4>5
    <3>3. CASE PersistSessionNow(p)
      <4>1. spawn'[p].at = "opened" /\ spawn'[p].doc = NoDoc
        BY <3>3 DEF PersistSessionNow, SpawnRecord
      <4>. QED
        BY <4>1 DEF NoDoc
    <3>. QED
      BY <1>6, <3>1, <3>2, <3>3 DEF OpeningSteps
  <2>. QED
    BY <2>2, <2>3
<1>7. CASE Opened(p) \/ spawn'[p] = [NoSpawn EXCEPT !.at = "done"]
  <2>1. spawn'[p].at = "done" /\ spawn'[p].doc = NoDoc
    <3>1. CASE Opened(p)
      BY <3>1 DEF Opened, NoSpawn
    <3>2. CASE spawn'[p] = [NoSpawn EXCEPT !.at = "done"]
      BY <3>2 DEF NoSpawn
    <3>. QED
      BY <1>7, <3>1, <3>2
  <2>. QED
    BY <2>1 DEF NoDoc
<1>. QED
  BY <1>4, <1>5, <1>6, <1>7, SpawnSteps
-----------------------------------------------------------------------------
(* Kills.                                                                  *)

LEMMA KillKept == IndInv /\ [Next]_vars => KillInv'
<1>. SUFFICES ASSUME IndInv, [Next]_vars PROVE KillInv'
  OBVIOUS
<1>0. Typed /\ Typed' /\ StagesInv /\ UnbornInv /\ RestoreInv /\ KillInv /\ Grows
  BY TypesKept DEF IndInv
<1>. USE <1>0, Shapes, Empties
<1>. DEFINE Fine(p) == \/ p \in past.ended \cup past.cut
                       \/ p \in kill.todo /\ p \in reg[kill.by].panes
                       \/ p \notin reg[kill.by].panes /\ spawn[p].at # "no"
<1>a. \A d \in Daemons : \A p \in reg[d].panes : spawn[p].at # "no"
  BY DEF UnbornInv
<1>b. \A p \in Panes : spawn[p].at # "no" => spawn'[p].at # "no"
  <2>1. ASSUME NEW p \in Panes, spawn[p].at # "no" PROVE spawn'[p].at # "no"
    <3>1. ASSUME NEW d \in Daemons PROVE ~NewPane(d, p)
      BY <2>1 DEF NewPane
    <3>2. OpeningSteps(p) => spawn'[p].at # "no"
      BY OpeningLemma
    <3>3. Opened(p) => spawn'[p].at # "no"
      BY DEF Opened, NoSpawn
    <3>4. [NoSpawn EXCEPT !.at = "done"].at = "done"
      BY DEF NoSpawn
    <3>. QED
      BY <2>1, <3>1, <3>2, <3>3, <3>4, SpawnSteps
  <2>. QED
    BY <2>1
<1>1. ASSUME NEW d \in Daemons, d = kill.by, stage[d] \in {"serving", "stopping"}, NEW p \in Panes, Fine(p),
             p \in kill.todo => p \in kill'.todo \/ p \in past'.ended \cup past'.cut, kill'.by = d
      PROVE  Fine(p)'
  <2>1. CASE p \in past.ended \cup past.cut
    BY <2>1 DEF Grows
  <2>2. CASE p \in reg[d].panes /\ p \notin past.ended \cup past.cut
    <3>1. p \in kill'.todo \/ p \in past'.ended \cup past'.cut
      BY <1>1, <2>2
    <3>2. spawn'[p].at # "no"
      BY <1>a, <1>b, <2>2
    <3>3. CASE p \in reg'[d].panes
      BY <1>1, <3>1, <3>3
    <3>4. CASE p \notin reg'[d].panes
      BY <1>1, <3>2, <3>4
    <3>. QED
      BY <3>3, <3>4
  <2>3. CASE p \notin reg[d].panes /\ spawn[p].at # "no"
    <3>1. p \notin reg'[d].panes
      BY <1>1, <2>3, RegistryGains
    <3>2. spawn'[p].at # "no"
      BY <1>b, <2>3
    <3>. QED
      BY <1>1, <3>1, <3>2
  <2>. QED
    BY <1>1, <2>1, <2>2, <2>3
<1>2. ASSUME NEW d \in Daemons, d = kill.by, kill'.by = d, kill'.panes = kill.panes, kill # NoKill,
             \A p \in kill.panes : p \in kill.todo => p \in kill'.todo \/ p \in past'.ended \cup past'.cut
                                                      \/ ~Fine(p) \/ ~Requires(d) \/ Fine(p)'
      PROVE  KillInv'
  <2>1. stage[d] \in {"serving", "stopping"} /\ kill.panes \subseteq Panes
    BY <1>2 DEF StagesInv, KillRecord
  <2>2. CASE Requires(d)'
    <3>1. Requires(d)
      BY <2>1, <2>2, RequiresStays
    <3>2. \A p \in kill.panes : Fine(p)
      BY <1>2, <3>1 DEF KillInv
    <3>3. \A p \in kill.panes : Fine(p)'
      BY <1>1, <1>2, <2>1, <3>1, <3>2
    <3>. QED
      BY <1>2, <3>3 DEF KillInv
  <2>3. CASE ~Requires(d)'
    BY <1>2, <2>3 DEF KillInv, Requires
  <2>. QED
    BY <2>2, <2>3
<1>3. CASE kill' = NoKill
  BY <1>3 DEF KillInv, NoKill
<1>4. CASE UNCHANGED kill /\ kill # NoKill
  <2>1. PICK d \in Daemons : d = kill.by
    BY <1>4 DEF StagesInv
  <2>. QED
    BY <1>2, <1>4, <2>1
<1>5. ASSUME NEW d \in Daemons, NEW P \in SUBSET Panes, NEW W, BeginKill(d, P, W) PROVE KillInv'
  <2>1. kill'.by = d /\ kill'.panes = P /\ kill'.todo = P /\ P \subseteq reg'[d].panes
    BY <1>5 DEF BeginKill, runtime
  <2>. QED
    BY <2>1 DEF KillInv
<1>6. ASSUME NEW q \in Panes, RecordHumanEnd(q) PROVE KillInv'
  <2>1. kill # NoKill
    BY <1>6 DEF RecordHumanEnd, NoKill
  <2>2. PICK d \in Daemons : d = kill.by
    BY <2>1 DEF StagesInv
  <2>3. kill'.by = d /\ kill'.panes = kill.panes /\ kill'.todo = kill.todo \ {q} /\ UNCHANGED <<reg, spawn>>
    BY <1>6, <2>2 DEF RecordHumanEnd, KillRecord, runtime
  <2>4. Requires(d) /\ q \in reg[d].panes => q \in past'.ended \cup past'.cut
    <3>1. \/ past'.ended = past.ended \cup {q} \/ past'.cut = past.cut \cup {q}
          \/ ~(Requires(kill.by) /\ q \in reg[kill.by].panes)
      BY <1>6, HumanEndLemma DEF EndsNoted
    <3>. QED
      BY <2>2, <3>1
  <2>5. Requires(d) /\ q \notin reg[d].panes /\ q \in kill.panes => q \in past'.ended \cup past'.cut \/ Fine(q)'
    BY <2>2, <2>3 DEF KillInv, Grows
  <2>. QED
    BY <1>2, <2>1, <2>2, <2>3, <2>4, <2>5
<1>7. KillInv' \/ UNCHANGED kill
  <2>1. FinishKill => kill' = NoKill
    BY DEF FinishKill
  <2>2. ASSUME NEW q \in Panes, \/ OpeningSteps(q) \/ Opened(q) \/ ShellExits(q)
                                \/ \E d \in Daemons : NewPane(d, q) \/ AttachRestored(d, q)
        PROVE  UNCHANGED kill
    BY <2>2 DEF OpeningSteps, MakeSessionDir, MakePaneDir, Launch, RunLocally, CopySession, PersistSessionNow,
       Opened, ShellExits, NewPane, AttachRestored, requests
  <2>3. ASSUME NEW d \in Daemons, \/ PassSteps(d) \/ StageSteps(d) \/ PersistRestored(d)
                                  \/ \E s \in Sessions : RestoreSession(d, s) \/ Reap(d, s)
        PROVE  UNCHANGED kill
    <3>1. PassSteps(d) => UNCHANGED kill
      <4>1. ASSUME NEW s \in Sessions, Persist(d, s) \/ Judge(d, s) PROVE UNCHANGED kill
        BY <4>1 DEF Persist, Judge, requests
      <4>. QED
        BY <4>1 DEF PassSteps, BeginPass, ListOnDisk, Move, EndPass, requests
    <3>. QED
      BY <2>3, <3>1 DEF StageSteps, Restored, Bind, Stop, Release, PersistRestored, RestoreSession, Reap, requests
  <2>4. ASSUME Reboot \/ \E d \in Daemons : Crash(d) \/ Refuse(d) PROVE kill' = NoKill \/ UNCHANGED kill
    BY <2>4 DEF Reboot, Crash, Refuse, Gone
  <2>5. Start \/ UNCHANGED vars => UNCHANGED kill
    BY DEF Start, vars, requests
  <2>6. ASSUME NEW d \in Daemons, NEW p \in Panes, BeginKill(d, {p}, {}) PROVE KillInv'
    BY <1>5, <2>6
  <2>7. ASSUME NEW d \in Daemons, NEW s \in Sessions, BeginKill(d, reg[d].panes \cap In(s), {s}) PROVE KillInv'
    <3>1. PICK P \in SUBSET Panes : P = reg[d].panes \cap In(s)
      OBVIOUS
    <3>2. BeginKill(d, P, {s})
      BY <2>7, <3>1
    <3>. QED
      BY <1>5, <3>2
  <2>. HIDE <1>0, Shapes, Empties
  <2>. QED
    BY <1>3, <1>6, <2>1, <2>2, <2>3, <2>4, <2>5, <2>6, <2>7, Steps
<1>. QED
  BY <1>3, <1>4, <1>7
-----------------------------------------------------------------------------
(* What runs is in the registry, its copies and its document.              *)

\* What a step does to a document: it is left alone, written or archived.
Writes(d, s, P) ==
    \/ \E q \in Panes : /\ PersistSessionNow(q) /\ spawn[q].at = "write" /\ Of[q] = s
                        /\ spawn[q].by = d /\ P = spawn[q].doc.panes
    \/ Persist(d, s) /\ P = pass[d].panes \cap In(s)
    \/ PersistRestored(d) /\ s \in restore[d].at /\ P = reg[d].panes \cap In(s) /\ restore[d].plan = {}

DocStep(s) ==
    \/ doc'[s] = doc[s] /\ (s \in past.stale => s \in past'.stale)
    \/ /\ Archive(s) /\ UNCHANGED <<reg, holders, spawn, lease>>
       /\ \E d \in Daemons : \/ s \in pass[d].over
                             \/ RestoreSession(d, s) /\ Back(s) = {}
    \/ \E d \in Daemons, P \in SUBSET Panes :
         /\ WriteDoc(d, s, P) /\ UNCHANGED <<reg, holders, lease>> /\ P \subseteq In(s)
         /\ Writes(d, s, P)

LEMMA DocSteps ==
    ASSUME IndInv, [Next]_vars, NEW s \in Sessions
    PROVE  DocStep(s)
<1>0. Typed /\ StagesInv /\ OpenInv
  BY DEF IndInv
<1>. USE <1>0, Shapes, Empties DEF runtime, requests, persister, disk, shells, daemon
<1>a. ASSUME UNCHANGED <<doc>>, past.stale \subseteq past'.stale PROVE DocStep(s)
  BY <1>a DEF DocStep
<1>b. ASSUME Refuses(past) PROVE DocStep(s)
  BY <1>a, <1>b, RefusedLemma DEF Refuses, Unharmed
<1>c. ASSUME NEW d \in Daemons, NEW t \in Sessions, NEW P \in SUBSET Panes, WriteDoc(d, t, P), P \subseteq In(t),
             UNCHANGED <<reg, holders, lease>>, t = s => Writes(d, s, P)
      PROVE  DocStep(s)
  <2>1. CASE s = t
    BY <1>c, <2>1 DEF DocStep
  <2>2. CASE s # t
    <3>1. /\ \A u \in Sessions \ {t} : doc'[u] = doc[u]
          /\ \A u \in Sessions \ {t} : u \in past'.stale <=> u \in past.stale
      BY <1>c, WriteLemma
    <3>2. doc'[s] = doc[s] /\ (s \in past.stale => s \in past'.stale)
      BY <2>2, <3>1
    <3>. QED
      BY <3>2 DEF DocStep
  <2>. QED
    BY <2>1, <2>2
<1>1. CASE UNCHANGED vars
  BY <1>1, <1>a DEF vars
<1>2. ASSUME NEW q \in Panes, OpeningSteps(q) \/ Opened(q) \/ (\E d \in Daemons : NewPane(d, q)) PROVE DocStep(s)
  <2>1. CASE MakeSessionDir(q) \/ Opened(q) \/ (\E d \in Daemons : NewPane(d, q))
    BY <2>1, <1>a DEF MakeSessionDir, Opened, NewPane
  <2>2. CASE MakePaneDir(q) \/ Launch(q)
    <3>1. past'.stale = past.stale
      BY <2>2, MadeLemma DEF MakePaneDir, Launch
    <3>. QED
      BY <1>a, <2>2, <3>1 DEF MakePaneDir, Launch
  <2>3. CASE RunLocally(q)
    <3>1. past'.stale = past.stale
      BY <2>3, RefusedLemma DEF RunLocally, Unharmed
    <3>. QED
      BY <1>a, <2>3, <3>1 DEF RunLocally
  <2>4. CASE CopySession(q)
    <3>1. past' = past \/ past' = [past EXCEPT !.cut = @ \cup {q}]
      BY <2>4 DEF CopySession
    <3>2. past'.stale = past.stale
      BY <3>1 DEF History
    <3>. QED
      BY <1>a, <2>4, <3>2 DEF CopySession
  <2>5. CASE PersistSessionNow(q)
    <3>1. CASE UNCHANGED <<disk, past>>
      BY <1>a, <3>1
    <3>3. CASE Refuses([past EXCEPT !.stale = past.stale \cup {Of[q]}])
      <4>1. past \in History /\ Of[q] \in Sessions
        OBVIOUS
      <4>2. Upset([past EXCEPT !.stale = past.stale \cup {Of[q]}]) /\ UNCHANGED doc
        BY <3>3 DEF Refuses
      <4>4. past'.stale = past.stale \cup {Of[q]}
        BY <4>1, <4>2, StaleLemma
      <4>3. past.stale \subseteq past'.stale
        BY <4>4
      <4>. QED
        BY <1>a, <4>2, <4>3
    <3>2. CASE WriteDoc(spawn[q].by, Of[q], spawn[q].doc.panes)
      <4>1. PICK d \in Daemons : d = spawn[q].by
        BY <2>5 DEF PersistSessionNow, StagesInv
      <4>2. PICK P \in SUBSET Panes : P = spawn[q].doc.panes
        BY DEF SpawnRecord, DocRecord
      <4>3. PICK t \in Sessions : t = Of[q]
        OBVIOUS
      <4>4. WriteDoc(d, t, P) /\ UNCHANGED <<reg, holders, lease>> /\ spawn[q].at = "write"
        BY <2>5, <3>2, <4>1, <4>2, <4>3 DEF PersistSessionNow
      <4>5. P \subseteq In(t)
        BY <4>2, <4>3 DEF OpenInv
      <4>6. Writes(d, t, P)
        BY <2>5, <4>1, <4>2, <4>3, <4>4 DEF Writes
      <4>. QED
        BY <1>c, <4>4, <4>5, <4>6
    <3>. QED
      BY <2>5, <3>1, <3>2, <3>3 DEF PersistSessionNow
  <2>. QED
    BY <1>2, <2>1, <2>2, <2>3, <2>4, <2>5 DEF OpeningSteps
<1>3. ASSUME NEW q \in Panes, RecordHumanEnd(q) \/ ShellExits(q) PROVE DocStep(s)
  <2>1. UNCHANGED doc
    BY <1>3 DEF RecordHumanEnd, ShellExits, RecordEnds, Refuses
  <2>2. past'.stale = past.stale
    BY <1>3, HumanEndLemma, ExitLemma DEF EndsNoted
  <2>. QED
    BY <1>a, <2>1, <2>2
<1>4. CASE FinishKill
  <2>1. UNCHANGED doc
    BY <1>4 DEF FinishKill, RecordEnds
  <2>2. past'.stale = past.stale
    BY <1>4, FinishLemma DEF EndsNoted
  <2>. QED
    BY <1>a, <2>1, <2>2
<1>5. ASSUME \/ \E d \in Daemons : \E P, W : BeginKill(d, P, W)
             \/ \E d \in Daemons, t \in Sessions : Reap(d, t)
      PROVE  DocStep(s)
  <2>1. past'.stale = past.stale /\ UNCHANGED doc
    BY <1>5, NoteLemma DEF BeginKill, Reap
  <2>. QED
    BY <1>a, <2>1
<1>6. ASSUME NEW d \in Daemons, PassSteps(d) PROVE DocStep(s)
  <2>1. CASE BeginPass(d) \/ ListOnDisk(d) \/ EndPass(d)
    BY <2>1, <1>a DEF BeginPass, ListOnDisk, EndPass
  <2>2. ASSUME NEW t \in Sessions, Judge(d, t) PROVE DocStep(s)
    <3>1. past'.stale = past.stale
      BY <2>2, JudgeLemma
    <3>. QED
      BY <1>a, <2>2, <3>1 DEF Judge
  <2>3. CASE Move(d)
    <3>1. PICK t \in Sessions : (Archive(t) \/ Refuses(past)) /\ t \in pass[d].over
      BY <2>3 DEF Move, PassRecord
    <3>2. UNCHANGED <<reg, holders, spawn, lease>>
      BY <2>3 DEF Move
    <3>3. CASE Archive(t) /\ s = t
      BY <3>1, <3>2, <3>3 DEF DocStep
    <3>4. CASE Archive(t) /\ s # t
      <4>1. doc'[s] = doc[s] /\ past'.stale = past.stale
        BY <3>4, ArchiveLemma
      <4>. QED
        BY <4>1 DEF DocStep
    <3>. QED
      BY <1>b, <3>1, <3>3, <3>4
  <2>4. ASSUME NEW t \in Sessions, Persist(d, t) PROVE DocStep(s)
    <3>1. PICK P \in SUBSET Panes : P = pass[d].panes \cap In(t)
      BY DEF PassRecord
    <3>2. UNCHANGED <<doc, past>> \/ WriteDoc(d, t, P) \/ Refuses(past)
      BY <2>4, <3>1 DEF Persist
    <3>3. CASE UNCHANGED <<doc, past>>
      BY <1>a, <3>3
    <3>4. CASE WriteDoc(d, t, P)
      <4>1. Writes(d, t, P) /\ P \subseteq In(t)
        BY <2>4, <3>1 DEF Writes
      <4>2. UNCHANGED <<reg, holders, lease>>
        BY <2>4 DEF Persist
      <4>. QED
        BY <1>c, <3>4, <4>1, <4>2
    <3>. QED
      BY <1>b, <3>2, <3>3, <3>4
  <2>. QED
    BY <1>6, <2>1, <2>2, <2>3, <2>4 DEF PassSteps
<1>7. ASSUME NEW d \in Daemons, NEW t \in Sessions, RestoreSession(d, t) PROVE DocStep(s)
  <2>1. CASE UNCHANGED <<disk, past>>
    BY <1>a, <2>1
  <2>3. CASE Returns(d, t)
    <3>1. UNCHANGED doc /\ past'.stale = past.stale
      BY <2>3, ReturnsLemma
    <3>. QED
      BY <1>a, <3>1
  <2>2. CASE Archive(t) /\ UNCHANGED reg /\ Back(t) = {}
    <3>1. UNCHANGED <<reg, holders, spawn, lease>>
      BY <1>7, <2>2 DEF RestoreSession
    <3>2. CASE s = t
      BY <1>7, <2>2, <3>1, <3>2 DEF DocStep
    <3>3. CASE s # t
      <4>1. doc'[s] = doc[s] /\ past'.stale = past.stale
        BY <2>2, <3>3, ArchiveLemma
      <4>. QED
        BY <4>1 DEF DocStep
    <3>. QED
      BY <3>2, <3>3
  <2>4. CASE Leaves(d, t)
    <3>1. UNCHANGED doc /\ past.stale \subseteq past'.stale
      BY <2>4, LeavesLemma
    <3>. QED
      BY <1>a, <3>1
  <2>. QED
    BY <1>7, <1>b, <2>1, <2>2, <2>3, <2>4 DEF RestoreSession, Stays
<1>8. ASSUME NEW d \in Daemons, NEW q \in Panes, AttachRestored(d, q) PROVE DocStep(s)
  <2>1. CASE past' = past \/ \E G : past' = [past EXCEPT !.ghosts = G]
    <3>1. past'.stale = past.stale
      BY <2>1 DEF History
    <3>. QED
      BY <1>a, <1>8, <3>1 DEF AttachRestored, Refuses
  <2>. QED
    BY <1>8, <1>b, <2>1 DEF AttachRestored
<1>9. ASSUME NEW d \in Daemons, PersistRestored(d) PROVE DocStep(s)
  <2>1. PICK t \in restore[d].at : \/ WriteDoc(d, t, reg[d].panes \cap In(t)) \/ UNCHANGED <<doc, past>>
                                   \/ Refuses(past)
    BY <1>9 DEF PersistRestored
  <2>2. t \in Sessions
    BY DEF RestoreRecord
  <2>3. PICK P \in SUBSET Panes : P = reg[d].panes \cap In(t)
    OBVIOUS
  <2>4. CASE UNCHANGED <<doc, past>>
    BY <1>a, <2>4
  <2>5. CASE WriteDoc(d, t, P)
    <3>1. Writes(d, t, P) /\ P \subseteq In(t)
      BY <1>9, <2>1, <2>3 DEF Writes, PersistRestored
    <3>2. UNCHANGED <<reg, holders, lease>>
      BY <1>9 DEF PersistRestored
    <3>. QED
      BY <1>c, <2>2, <2>5, <3>1, <3>2
  <2>. QED
    BY <1>b, <2>1, <2>3, <2>4, <2>5
<1>10. ASSUME Start \/ \E d \in Daemons : StageSteps(d) PROVE DocStep(s)
  <2>1. \/ past' = past \/ past' = [past EXCEPT !.upsets = @ + 1]
        \/ past' = [past EXCEPT !.overlap = TRUE, !.upsets = @ + 1]
    BY <1>10 DEF Start, StageSteps, Restored, Bind, Stop, Release, Upset
  <2>2. past'.stale = past.stale
    BY <2>1, NoteLemma
  <2>3. UNCHANGED doc
    BY <1>10 DEF Start, StageSteps, Restored, Bind, Stop, Release
  <2>. QED
    BY <1>a, <2>2, <2>3
<1>11. ASSUME Reboot \/ \E d \in Daemons : Crash(d) \/ Refuse(d) PROVE DocStep(s)
  <2>1. past' = [past EXCEPT !.refused = TRUE] \/ \E C : past' = [past EXCEPT !.cut = C]
    BY <1>11 DEF Reboot, Crash, Refuse
  <2>2. past'.stale = past.stale
    BY <2>1 DEF History
  <2>3. UNCHANGED doc
    BY <1>11 DEF Reboot, Crash, Refuse
  <2>. QED
    BY <1>a, <2>2, <2>3
<1>12. (\E d \in Daemons : \E P, W : BeginKill(d, P, W)) => DocStep(s)
  BY <1>5
<1>. HIDE <1>0, Shapes, Empties
<1>. QED
  BY <1>1, <1>2, <1>3, <1>4, <1>5, <1>6, <1>7, <1>8, <1>9, <1>10, <1>11, <1>12, Steps

\* What a document of the owner still names when the session is archived has ended.
LEMMA ArchivedIsNot ==
    ASSUME IndInv, [Next]_vars, NEW s \in Sessions, Archive(s), NEW p \in Panes, Of[p] = s,
           p \in doc[s].panes, p \in holders, \E d \in Daemons : s \in pass[d].over \/ Back(s) = {}
    PROVE  Exempt(p)'
<1>0. Typed /\ DiskInv /\ EndsInv /\ OverInv /\ Grows
  BY TypesKept DEF IndInv
<1>. USE <1>0, Shapes, Empties
<1>1. PICK d \in Daemons : s \in pass[d].over \/ Back(s) = {}
  OBVIOUS
<1>2. CASE Back(s) = {}
  <2>1. p \in tomb
    BY <1>2 DEF Back
  <2>. QED
    BY <2>1 DEF EndsInv, Exempt, Grows
<1>3. CASE s \in pass[d].over /\ d # lease
  <2>1. s \in past'.late
    BY <1>3, ArchiveLemma
  <2>. QED
    BY <2>1 DEF Exempt
<1>4. CASE s \in pass[d].over /\ d = lease
  <2>1. CASE p \in pdirs
    BY <1>4, <2>1 DEF OverInv, Exempt, Grows
  <2>2. CASE s \in past.gone
    BY <2>2 DEF DiskInv, Exempt, Grows
  <2>. QED
    BY <2>1, <2>2 DEF DiskInv
<1>. QED
  BY <1>1, <1>2, <1>3, <1>4

LEMMA PlannedKept == IndInv /\ [Next]_vars => PlannedInv'
<1>. SUFFICES ASSUME IndInv, [Next]_vars PROVE PlannedInv'
  OBVIOUS
<1>0. /\ Typed /\ StagesInv /\ DiskInv /\ EndsInv /\ RestoreInv /\ PlannedInv
      /\ Typed' /\ StagesInv' /\ Grows
  BY TypesKept, StagesKept DEF IndInv
<1>. USE Shapes, Empties
<1>1. SUFFICES ASSUME NEW d \in Daemons, d = lease', NEW p \in restore'[d].plan
               PROVE  p \in reg'[d].panes /\ (p \in doc'[Of[p]].panes \/ Exempt(p)' \/ Of[p] \in past'.stale)
  BY DEF PlannedInv
<1>p. p \in Panes
  BY <1>0 DEF Typed, RestoreRecord
<1>2. CASE /\ UNCHANGED disk /\ past'.ended = past.ended /\ (p \in tomb => p \in past'.raced)
           /\ p \in doc[Of[p]].panes /\ UNCHANGED lease
           /\ Of[p] \in restore[d].todo /\ p \in reg'[d].panes
  BY <1>2 DEF disk
<1>3. CASE p \in restore[d].plan /\ d = lease
  <2>1. p \in reg[d].panes /\ (p \in doc[Of[p]].panes \/ Exempt(p) \/ Of[p] \in past.stale)
    BY <1>0, <1>3 DEF PlannedInv
  <2>2. stage[d] = "restoring" /\ stage'[d] = "restoring"
    BY <1>0, <1>1, <1>3 DEF StagesInv, StageOf, NoRestore
  <2>3. p \in reg'[d].panes
    <3>1. p \notin attached[d]
      BY <1>0, <1>3 DEF RestoreInv, PlanInv
    <3>2. kill.by # d
      BY <1>0, <2>2 DEF StagesInv, NoKill
    <3>. QED
      BY <2>1, <2>2, <3>1, <3>2, RegistryLoses
  <2>4. PICK s \in Sessions : s = Of[p]
    BY <1>p
  <2>5. DocStep(s)
    BY DocSteps
  <2>6. CASE Exempt(p)
    BY <1>0, <2>3, <2>6, ExemptStays
  <2>7. CASE doc'[s] = doc[s] /\ (s \in past.stale => s \in past'.stale)
    BY <1>0, <2>1, <2>3, <2>4, <2>7, ExemptStays
  <2>8. ASSUME Archive(s), NEW e \in Daemons, s \in pass[e].over \/ (RestoreSession(e, s) /\ Back(s) = {})
        PROVE  Exempt(p)' \/ Of[p] \in past'.stale
    <3>1. CASE s \in pass[e].over
      <4>1. e # lease
        BY <1>0, <1>3, <2>2, <3>1 DEF StagesInv, StageOf
      <4>2. s \in past'.late
        BY <1>0, <2>8, <3>1, <4>1, ArchiveLemma
      <4>. QED
        BY <2>4, <4>2 DEF Exempt
    <3>2. CASE Back(s) = {} /\ p \in doc[s].panes
      BY <1>0, <3>2 DEF Back, EndsInv, Exempt, Grows
    <3>3. CASE p \notin doc[s].panes
      <4>1. past'.stale = past.stale
        BY <1>0, <2>8, ArchiveLemma
      <4>. QED
        BY <1>0, <2>1, <2>4, <3>3, <4>1, ExemptStays
    <3>. QED
      BY <2>8, <3>1, <3>2, <3>3
  <2>9. ASSUME NEW e \in Daemons, NEW P \in SUBSET Panes, WriteDoc(e, s, P), Writes(e, s, P)
        PROVE  p \in doc'[Of[p]].panes \/ Exempt(p)' \/ Of[p] \in past'.stale
    <3>1. doc'[s].panes = P /\ (e # lease => s \in past'.late)
          /\ (~(reg[e].panes \cap In(s) \subseteq P) => s \in past'.stale)
      BY <1>0, <2>9, WriteLemma
    <3>2. CASE e # lease
      BY <2>4, <3>1, <3>2 DEF Exempt
    <3>3. CASE p \in P
      BY <2>4, <3>1, <3>3
    <3>4. CASE e = d /\ p \notin P
      <4>1. p \in reg[e].panes \cap In(s)
        BY <1>p, <2>1, <2>4, <3>4
      <4>. QED
        BY <2>4, <3>1, <3>4, <4>1
    <3>. QED
      BY <1>3, <3>2, <3>3, <3>4
  <2>10. CASE Archive(s) /\ \E e \in Daemons : s \in pass[e].over \/ (RestoreSession(e, s) /\ Back(s) = {})
    BY <2>3, <2>8, <2>10
  <2>11. CASE \E e \in Daemons, P \in SUBSET Panes : WriteDoc(e, s, P) /\ Writes(e, s, P)
    BY <2>3, <2>9, <2>11
  <2>. QED
    BY <2>5, <2>7, <2>10, <2>11 DEF DocStep
<1>. QED
  BY <1>p, <1>1, <1>2, <1>3, Plans

\* A shell starts when a pane is opened or restored.
LEMMA HolderSteps ==
    ASSUME IndInv, [Next]_vars, NEW p \in Panes, p \in holders', p \notin holders
    PROVE  Launch(p) \/ \E d \in Daemons : AttachRestored(d, p) /\ Requires(d)
<1>0. Typed
  BY DEF IndInv
<1>. USE DEF runtime, requests, persister, disk, shells, daemon
<1>1. ASSUME holders' \subseteq holders PROVE FALSE
  BY <1>1
<1>2. ASSUME NEW q \in Panes, OpeningSteps(q) PROVE Launch(p)
  <2>1. CASE Launch(q)
    BY <2>1 DEF Launch
  <2>2. CASE ~Launch(q)
    BY <1>1, <1>2, <2>2 DEF OpeningSteps, MakeSessionDir, MakePaneDir, RunLocally, CopySession, PersistSessionNow
  <2>. QED
    BY <2>1, <2>2
<1>3. ASSUME NEW d \in Daemons, NEW q \in Panes, AttachRestored(d, q) PROVE AttachRestored(d, p) /\ Requires(d)
  <2>1. holders' = holders \/ (holders' = holders \cup {q} /\ Requires(d))
    BY <1>3 DEF AttachRestored
  <2>2. q = p
    BY <2>1
  <2>. QED
    BY <1>3, <2>1, <2>2
<1>4. ~(\/ \E d \in Daemons : \E P, W : BeginKill(d, P, W)
        \/ \E d \in Daemons, s \in Sessions : Reap(d, s) \/ RestoreSession(d, s)
        \/ \E d \in Daemons, q \in Panes : NewPane(d, q)
        \/ \E q \in Panes : RecordHumanEnd(q) \/ ShellExits(q) \/ Opened(q)
        \/ FinishKill \/ Start \/ Reboot \/ UNCHANGED vars)
  BY <1>1 DEF BeginKill, Reap, RestoreSession, NewPane, RecordHumanEnd, ShellExits, Opened, FinishKill, Start, Reboot,
     vars
<1>5. ASSUME NEW d \in Daemons, PassSteps(d) PROVE FALSE
  <2>1. ASSUME NEW s \in Sessions, Persist(d, s) \/ Judge(d, s) PROVE FALSE
    BY <1>1, <2>1 DEF Persist, Judge
  <2>2. ASSUME BeginPass(d) \/ ListOnDisk(d) \/ Move(d) \/ EndPass(d) PROVE FALSE
    BY <1>1, <2>2 DEF BeginPass, ListOnDisk, Move, EndPass
  <2>. QED
    BY <1>5, <2>1, <2>2 DEF PassSteps
<1>6. ASSUME NEW d \in Daemons, PersistRestored(d) \/ StageSteps(d) \/ Crash(d) \/ Refuse(d) PROVE FALSE
  BY <1>1, <1>6 DEF PersistRestored, StageSteps, Restored, Bind, Stop, Release, Crash, Refuse
<1>. QED
  BY <1>2, <1>3, <1>4, <1>5, <1>6, Steps

\* What runs ran before, or is in the registry of the daemon that starts it.
LEMMA RunningSteps ==
    ASSUME IndInv, [Next]_vars, NEW p \in Panes, Running(p)'
    PROVE  /\ ~Exempt(p)
           /\ \/ Running(p)
              \/ /\ \E d \in Daemons : d = lease /\ p \in reg[d].panes
                 /\ UNCHANGED <<lease, reg, pass, past.stale>> /\ \A q \in Panes : spawn'[q].doc = spawn[q].doc
                 /\ \/ spawn'[p].at = "persist"
                    \/ p \in doc'[Of[p]].panes \/ Of[p] \in past'.stale
<1>0. Typed /\ OpenInv /\ PlannedInv /\ Grows /\ StagesInv
  BY TypesKept DEF IndInv
<1>. USE <1>0, Shapes, Empties DEF runtime, requests, persister, disk, shells, daemon
<1>1. ~Exempt(p)
  BY ExemptStays DEF Running
<1>2. CASE p \in holders
  BY <1>1, <1>2 DEF Running
<1>3. CASE p \notin holders /\ Launch(p)
  <2>1. PICK d \in Daemons : d = spawn[p].by /\ d = lease /\ Requires(d)
    BY <1>3 DEF Launch, Requires, Typed, Up
  <2>2. p \in reg[d].panes
    BY <1>1, <1>3, <2>1 DEF Launch, OpenInv
  <2>3. past'.stale = past.stale
    BY <1>3, MadeLemma DEF Launch
  <2>4. spawn'[p].at = "persist" /\ \A q \in Panes : spawn'[q].doc = spawn[q].doc
    BY <1>3 DEF Launch, SpawnRecord
  <2>. QED
    BY <1>1, <1>3, <2>1, <2>2, <2>3, <2>4 DEF Launch
<1>4. ASSUME p \notin holders, NEW d \in Daemons, AttachRestored(d, p), Requires(d)
      PROVE  /\ p \in reg[d].panes /\ d = lease /\ UNCHANGED <<lease, reg, pass, past.stale, spawn>>
             /\ p \in doc'[Of[p]].panes \/ Of[p] \in past'.stale
  <2>1. p \in reg[d].panes /\ (p \in doc[Of[p]].panes \/ Of[p] \in past.stale)
    BY <1>1, <1>4 DEF PlannedInv, AttachRestored, Requires
  <2>2. past'.stale = past.stale
    BY <1>1, <1>4, RefusedLemma DEF AttachRestored, History, Refuses, Unharmed
  <2>. QED
    BY <1>4, <2>1, <2>2 DEF AttachRestored, Requires, Refuses
<1>. HIDE <1>0, Shapes, Empties
<1>. QED
  BY <1>1, <1>2, <1>3, <1>4, HolderSteps DEF Running

\* A persister's copy of the registry is the old one or a new one, ...
LEMMA PassGains ==
    ASSUME Typed, [Next]_vars, NEW d \in Daemons, NEW p \in pass'[d].panes
    PROVE  p \in pass[d].panes \/ p \in reg'[d].panes
<1>. USE Shapes DEF runtime, requests, persister, disk, shells, daemon
<1>1. ASSUME UNCHANGED pass PROVE p \in pass[d].panes
  BY <1>1
<1>2. ASSUME NEW e \in Daemons, PassSteps(e) PROVE p \in pass[d].panes \/ p \in reg'[d].panes
  <2>1. ASSUME NEW s \in Sessions, Persist(e, s) \/ Judge(e, s) PROVE p \in pass[d].panes
    <3>1. Persist(e, s) => pass'[d].panes = pass[d].panes
      BY DEF Persist, PassRecord
    <3>2. ASSUME Judge(e, s) PROVE pass'[d].panes = pass[d].panes
      <4>1. \E O : pass' = [pass EXCEPT ![e].todo = @ \ {s}, ![e].over = O]
        BY <3>2 DEF Judge
      <4>. QED
        BY <4>1 DEF PassRecord
    <3>. QED
      BY <2>1, <3>1, <3>2
  <2>2. CASE BeginPass(e)
    BY <2>2 DEF BeginPass
  <2>3. CASE ListOnDisk(e)
    BY <2>3 DEF ListOnDisk, PassRecord, NoPass
  <2>4. CASE Move(e)
    BY <2>4 DEF Move, PassRecord
  <2>5. CASE EndPass(e)
    BY <2>5 DEF EndPass, NoPass
  <2>. QED
    BY <1>2, <2>1, <2>2, <2>3, <2>4, <2>5 DEF PassSteps
<1>3. ASSUME NEW q \in Panes, \/ OpeningSteps(q) \/ Opened(q) \/ RecordHumanEnd(q) \/ ShellExits(q)
                              \/ \E e \in Daemons : NewPane(e, q) \/ AttachRestored(e, q)
      PROVE  UNCHANGED pass
  <2>1. CASE OpeningSteps(q)
    BY <2>1 DEF OpeningSteps, MakeSessionDir, MakePaneDir, Launch, RunLocally, CopySession, PersistSessionNow
  <2>2. CASE ~OpeningSteps(q)
    BY <1>3, <2>2 DEF Opened, RecordHumanEnd, ShellExits, NewPane, AttachRestored
  <2>. QED
    BY <2>1, <2>2
<1>4. ASSUME NEW e \in Daemons, \/ StageSteps(e) \/ PersistRestored(e)
                                \/ \E s \in Sessions : RestoreSession(e, s) \/ Reap(e, s)
                                \/ \E P, W : BeginKill(e, P, W)
      PROVE  UNCHANGED pass
  BY <1>4 DEF StageSteps, Restored, Bind, Stop, Release, PersistRestored, RestoreSession, Reap, BeginKill
<1>5. FinishKill \/ Start \/ UNCHANGED vars => UNCHANGED pass
  BY DEF FinishKill, Start, vars
<1>6. ASSUME NEW D, Gone(D) PROVE p \in pass[d].panes
  BY <1>6 DEF Gone, NoPass
<1>7. Reboot \/ (\E e \in Daemons : Crash(e) \/ Refuse(e)) => \E D : Gone(D)
  BY DEF Reboot, Crash, Refuse
<1>. HIDE Shapes
<1>. QED
  BY <1>1, <1>2, <1>3, <1>4, <1>5, <1>6, <1>7, Steps

\* ... and so is the copy that a spawn writes.
LEMMA CopyGains ==
    ASSUME IndInv, [Next]_vars, NEW q \in Panes, NEW p \in spawn'[q].doc.panes
    PROVE  /\ spawn'[q].by = spawn[q].by
           /\ p \in spawn[q].doc.panes \/ \A d \in Daemons : d = spawn[q].by => p \in reg'[d].panes
<1>0. Typed /\ StagesInv /\ OpenInv
  BY DEF IndInv
<1>. USE <1>0, Shapes, Empties DEF runtime
<1>1. CASE spawn'[q] = spawn[q]
  BY <1>1
<1>2. ASSUME NEW d \in Daemons, NewPane(d, q) PROVE FALSE
  <2>1. spawn'[q].doc = spawn[q].doc /\ spawn[q].at = "no"
    BY <1>2 DEF NewPane, SpawnRecord
  <2>. QED
    BY <2>1 DEF OpenInv
<1>3. CASE OpeningSteps(q)
  <2>1. PICK d \in Daemons : d = spawn[q].by /\ spawn'[q].by = d
    BY <1>3, OpeningLemma
  <2>2. CASE MakeSessionDir(q)
    BY <2>1, <2>2 DEF MakeSessionDir, SpawnRecord
  <2>3. CASE MakePaneDir(q)
    BY <2>1, <2>3 DEF MakePaneDir, SpawnRecord
  <2>4. CASE Launch(q)
    BY <2>1, <2>4 DEF Launch, SpawnRecord
  <2>5. CASE RunLocally(q)
    BY <2>1, <2>5 DEF RunLocally, SpawnRecord
  <2>6. CASE CopySession(q)
    <3>. DEFINE copy == IF Requires(d) /\ Of[q] \in reg[d].open THEN Doc(reg[d].panes \cap In(Of[q])) ELSE NoDoc
    <3>1. copy.panes \subseteq reg[d].panes
      BY DEF Doc, NoDoc
    <3>2. spawn' = [spawn EXCEPT ![q].at = "write", ![q].doc = copy] /\ UNCHANGED reg
      BY <2>1, <2>6 DEF CopySession
    <3>. HIDE DEF copy
    <3>3. spawn'[q].doc = copy
      BY <3>2 DEF SpawnRecord
    <3>. QED
      BY <2>1, <3>1, <3>2, <3>3
  <2>7. CASE PersistSessionNow(q)
    BY <2>1, <2>7 DEF PersistSessionNow, NoDoc, SpawnRecord
  <2>. QED
    BY <1>3, <2>2, <2>3, <2>4, <2>5, <2>6, <2>7 DEF OpeningSteps
<1>4. Opened(q) => spawn'[q].doc.panes = {}
  BY DEF Opened, NoSpawn, NoDoc
<1>5. [NoSpawn EXCEPT !.at = "done"].doc.panes = {}
  BY DEF NoSpawn, NoDoc
<1>. QED
  BY <1>1, <1>2, <1>3, <1>4, <1>5, SpawnSteps

\* A daemon that is gone stays so.
LEMMA GoneStays ==
    ASSUME Typed, StagesInv, [Next]_vars, NEW d \in Daemons, stage[d] = "gone"
    PROVE  stage'[d] = "gone"
<1>. USE Shapes, Empties DEF runtime, requests, persister, disk, shells, daemon
<1>1. ASSUME UNCHANGED stage PROVE stage'[d] = "gone"
  BY <1>1
<1>2. ASSUME NEW e \in Daemons, StageSteps(e) PROVE stage'[d] = "gone"
  BY <1>2 DEF StageSteps, Restored, Bind, Stop, Release
<1>3. CASE Start
  <2>1. d # lease + 1
    BY ConstantsAssumption DEF StagesInv, StageOf, Daemons
  <2>. QED
    BY <1>3, <2>1 DEF Start
<1>4. ASSUME NEW D, Gone(D) PROVE stage'[d] = "gone"
  BY <1>4 DEF Gone
<1>5. Reboot \/ (\E e \in Daemons : Crash(e) \/ Refuse(e)) => \E D : Gone(D)
  BY DEF Reboot, Crash, Refuse
<1>6. ASSUME NEW q \in Panes, \/ OpeningSteps(q) \/ Opened(q) \/ RecordHumanEnd(q) \/ ShellExits(q)
                              \/ \E e \in Daemons : NewPane(e, q) \/ AttachRestored(e, q)
      PROVE  UNCHANGED stage
  <2>1. CASE OpeningSteps(q)
    BY <2>1 DEF OpeningSteps, MakeSessionDir, MakePaneDir, Launch, RunLocally, CopySession, PersistSessionNow
  <2>2. CASE ~OpeningSteps(q)
    BY <1>6, <2>2 DEF Opened, RecordHumanEnd, ShellExits, NewPane, AttachRestored
  <2>. QED
    BY <2>1, <2>2
<1>7. ASSUME NEW e \in Daemons, \/ PersistRestored(e)
                                \/ \E s \in Sessions : RestoreSession(e, s) \/ Reap(e, s)
                                \/ \E P, W : BeginKill(e, P, W)
      PROVE  UNCHANGED stage
  BY <1>7 DEF PersistRestored, RestoreSession, Reap, BeginKill
<1>8. ASSUME NEW e \in Daemons, PassSteps(e) PROVE UNCHANGED stage
  <2>1. ASSUME NEW s \in Sessions, Persist(e, s) \/ Judge(e, s) PROVE UNCHANGED stage
    BY <2>1 DEF Persist, Judge
  <2>. QED
    BY <1>8, <2>1 DEF PassSteps, BeginPass, ListOnDisk, Move, EndPass
<1>9. FinishKill \/ UNCHANGED vars => UNCHANGED stage
  BY DEF FinishKill, vars
<1>. HIDE Shapes, Empties
<1>. QED
  BY <1>1, <1>2, <1>3, <1>4, <1>5, <1>6, <1>7, <1>8, <1>9, Steps

\* A session that a start has yet to look at is looked at.
LEMMA TodoLoses ==
    ASSUME IndInv, [Next]_vars, UNCHANGED lease, NEW d \in Daemons, NEW s \in restore[d].todo,
           s \notin restore'[d].todo
    PROVE  stage'[d] = "gone" \/ (s \in Sessions /\ RestoreSession(d, s))
<1>0. Typed /\ StagesInv
  BY DEF IndInv
<1>. USE <1>0, Shapes, Empties DEF runtime, requests, persister, disk, shells, daemon
<1>1. ASSUME UNCHANGED restore PROVE FALSE
  BY <1>1
<1>2. ASSUME NEW e \in Daemons, NEW t \in Sessions, RestoreSession(e, t) PROVE RestoreSession(d, s) /\ s \in Sessions
  <2>1. restore'[e].todo = restore[e].todo \ {t} /\ \A f \in Daemons \ {e} : restore'[f] = restore[f]
    <3>1. CASE Returns(e, t)
      <4>1. PICK P : restore' = [restore EXCEPT ![e] = [todo |-> @.todo \ {t}, at |-> {t}, plan |-> P]]
        BY <3>1, ReturnsLemma
      <4>. QED
        BY <4>1
    <3>2. CASE Stays(e, t) \/ Leaves(e, t)
      BY <3>2 DEF Stays, Leaves, RestoreRecord
    <3>. QED
      BY <1>2, <3>1, <3>2 DEF RestoreSession
  <2>2. e = d /\ t = s
    BY <2>1
  <2>. QED
    BY <1>2, <2>2
<1>3. ASSUME NEW e \in Daemons, NEW q \in Panes, AttachRestored(e, q) PROVE FALSE
  BY <1>3 DEF AttachRestored, RestoreRecord
<1>4. ASSUME NEW e \in Daemons, PersistRestored(e) PROVE FALSE
  BY <1>4 DEF PersistRestored, RestoreRecord
<1>5. ~Start
  BY DEF Start
<1>6. ASSUME NEW D, Gone(D) PROVE stage'[d] = "gone"
  BY <1>6 DEF Gone
<1>7. Reboot \/ (\E e \in Daemons : Crash(e) \/ Refuse(e)) => \E D : Gone(D)
  BY DEF Reboot, Crash, Refuse
<1>8. ASSUME NEW q \in Panes, \/ OpeningSteps(q) \/ Opened(q) \/ RecordHumanEnd(q) \/ ShellExits(q)
                              \/ \E e \in Daemons : NewPane(e, q)
      PROVE  UNCHANGED restore
  <2>1. CASE OpeningSteps(q)
    BY <2>1 DEF OpeningSteps, MakeSessionDir, MakePaneDir, Launch, RunLocally, CopySession, PersistSessionNow
  <2>2. CASE ~OpeningSteps(q)
    BY <1>8, <2>2 DEF Opened, RecordHumanEnd, ShellExits, NewPane
  <2>. QED
    BY <2>1, <2>2
<1>9. ASSUME NEW e \in Daemons, \/ \E t \in Sessions : Reap(e, t)
                                \/ StageSteps(e) \/ \E P, W : BeginKill(e, P, W)
      PROVE  UNCHANGED restore
  BY <1>9 DEF Reap, StageSteps, Restored, Bind, Stop, Release, BeginKill
<1>10. ASSUME NEW e \in Daemons, PassSteps(e) PROVE UNCHANGED restore
  <2>1. ASSUME NEW t \in Sessions, Persist(e, t) \/ Judge(e, t) PROVE UNCHANGED restore
    BY <2>1 DEF Persist, Judge
  <2>. QED
    BY <1>10, <2>1 DEF PassSteps, BeginPass, ListOnDisk, Move, EndPass
<1>11. FinishKill \/ UNCHANGED vars => UNCHANGED restore
  BY DEF FinishKill, vars
<1>. HIDE <1>0, Shapes, Empties
<1>. QED
  BY <1>1, <1>2, <1>3, <1>4, <1>5, <1>6, <1>7, <1>8, <1>9, <1>10, <1>11, Steps

\* A daemon with clients ends in a crash, or with the machine.
LEMMA GoneSteps ==
    ASSUME Typed, StagesInv, [Next]_vars, NEW d \in Daemons, stage[d] \in {"serving", "stopping"}, stage'[d] = "gone"
    PROVE  Crash(d) \/ (Reboot /\ d \in Up)
<1>. USE Shapes, Empties DEF runtime, requests, persister, disk, shells, daemon
<1>1. ASSUME UNCHANGED stage PROVE FALSE
  BY <1>1
<1>2. ASSUME NEW e \in Daemons, StageSteps(e) PROVE FALSE
  BY <1>2 DEF StageSteps, Restored, Bind, Stop, Release
<1>3. ~Start
  BY DEF Start
<1>4. ASSUME NEW e \in Daemons, Crash(e) \/ Refuse(e) PROVE Crash(d)
  <2>1. e = d
    BY <1>4 DEF Crash, Refuse, Gone
  <2>. QED
    BY <1>4, <2>1 DEF Refuse
<1>5. d \in Up
  BY DEF Up
<1>6. ASSUME NEW q \in Panes, \/ OpeningSteps(q) \/ Opened(q) \/ RecordHumanEnd(q) \/ ShellExits(q)
                              \/ \E e \in Daemons : NewPane(e, q) \/ AttachRestored(e, q)
      PROVE  UNCHANGED stage
  <2>1. CASE OpeningSteps(q)
    BY <2>1 DEF OpeningSteps, MakeSessionDir, MakePaneDir, Launch, RunLocally, CopySession, PersistSessionNow
  <2>2. CASE ~OpeningSteps(q)
    BY <1>6, <2>2 DEF Opened, RecordHumanEnd, ShellExits, NewPane, AttachRestored
  <2>. QED
    BY <2>1, <2>2
<1>7. ASSUME NEW e \in Daemons, \/ PersistRestored(e)
                                \/ \E s \in Sessions : RestoreSession(e, s) \/ Reap(e, s)
                                \/ \E P, W : BeginKill(e, P, W)
      PROVE  UNCHANGED stage
  BY <1>7 DEF PersistRestored, RestoreSession, Reap, BeginKill
<1>8. ASSUME NEW e \in Daemons, PassSteps(e) PROVE UNCHANGED stage
  <2>1. ASSUME NEW s \in Sessions, Persist(e, s) \/ Judge(e, s) PROVE UNCHANGED stage
    BY <2>1 DEF Persist, Judge
  <2>. QED
    BY <1>8, <2>1 DEF PassSteps, BeginPass, ListOnDisk, Move, EndPass
<1>9. FinishKill \/ UNCHANGED vars => UNCHANGED stage
  BY DEF FinishKill, vars
<1>. HIDE Shapes, Empties
<1>. QED
  BY <1>1, <1>2, <1>3, <1>4, <1>5, <1>6, <1>7, <1>8, <1>9, Steps

\* A pane that waits for its document waits on, or gets it, or is let down.
LEMMA WindowSteps ==
    ASSUME IndInv, [Next]_vars, NEW p \in Panes, spawn[p].at \in {"persist", "write"}
    PROVE  \/ spawn'[p].at \in {"persist", "write"} /\ spawn'[p].by = spawn[p].by
           \/ Exempt(p)'
           \/ WriteDoc(spawn[p].by, Of[p], spawn[p].doc.panes) /\ p \in spawn[p].doc.panes
           \/ Of[p] \in past'.stale /\ UNCHANGED disk
<1>0. Typed /\ StagesInv /\ OpenInv /\ Grows
  BY TypesKept DEF IndInv
<1>. USE <1>0, Shapes, Empties
<1>1. CASE spawn'[p] = spawn[p]
  BY <1>1
<1>2. ASSUME NEW d \in Daemons PROVE ~NewPane(d, p)
  BY DEF NewPane
<1>3. CASE OpeningSteps(p)
  <2>1. CASE CopySession(p)
    <3>1. spawn'[p].at = "write"
      BY <2>1 DEF CopySession, SpawnRecord
    <3>. QED
      BY <1>3, <3>1, OpeningLemma
  <2>2. CASE PersistSessionNow(p) /\ spawn[p].doc.here
    <3>1. p \in spawn[p].doc.panes \/ Exempt(p)
      BY <2>2 DEF OpenInv, PersistSessionNow
    <3>2. CASE WriteDoc(spawn[p].by, Of[p], spawn[p].doc.panes)
      BY <3>1, <3>2, ExemptStays
    <3>3. CASE Refuses([past EXCEPT !.stale = past.stale \cup {Of[p]}])
      <4>1. past \in History /\ Of[p] \in Sessions
        OBVIOUS
      <4>2. Upset([past EXCEPT !.stale = past.stale \cup {Of[p]}])
        BY <3>3 DEF Refuses
      <4>3. past'.stale = past.stale \cup {Of[p]}
        BY <4>1, <4>2, StaleLemma
      <4>4. UNCHANGED disk
        BY <3>3 DEF Refuses
      <4>. QED
        BY <4>1, <4>3, <4>4
    <3>. QED
      BY <2>2, <3>2, <3>3 DEF PersistSessionNow
  <2>3. CASE PersistSessionNow(p) /\ ~spawn[p].doc.here
    <3>1. Exempt(p)
      BY <2>3 DEF OpenInv, PersistSessionNow
    <3>. QED
      BY <3>1, ExemptStays
  <2>4. ~(MakeSessionDir(p) \/ MakePaneDir(p) \/ Launch(p))
    BY DEF MakeSessionDir, MakePaneDir, Launch
  <2>5. ~RunLocally(p)
    BY DEF RunLocally
  <2>. QED
    BY <1>3, <2>1, <2>2, <2>3, <2>4, <2>5 DEF OpeningSteps
<1>4. ~Opened(p)
  BY DEF Opened
<1>5. ASSUME NEW D \in SUBSET Daemons, Gone(D), spawn[p].by \in D PROVE Exempt(p)'
  <2>1. PICK d \in Daemons : d = spawn[p].by
    BY <1>5
  <2>2. stage[d] \in {"serving", "stopping"} /\ stage'[d] = "gone"
    BY <1>5, <2>1 DEF StagesInv, Gone
  <2>3. CASE Crash(d)
    <3>1. p \in Interrupted({d})
      BY <2>1 DEF Interrupted
    <3>2. past' = [past EXCEPT !.cut = @ \cup Interrupted({d})]
      BY <2>3 DEF Crash
    <3>3. p \in past'.cut
      BY <3>1, <3>2 DEF History
    <3>. QED
      BY <3>3 DEF Exempt
  <2>4. CASE Reboot /\ d \in Up
    <3>1. p \in Interrupted(Up)
      BY <2>1, <2>4 DEF Interrupted
    <3>2. past' = [past EXCEPT !.cut = @ \cup Interrupted(Up)]
      BY <2>4 DEF Reboot
    <3>3. p \in past'.cut
      BY <3>1, <3>2 DEF History
    <3>. QED
      BY <3>3 DEF Exempt
  <2>. QED
    BY <2>2, <2>3, <2>4, GoneSteps
<1>. QED
  BY <1>1, <1>2, <1>3, <1>4, <1>5, SpawnSteps

\* A daemon does not write what it has yet to restore, ...
LEMMA OwnerWrites ==
    ASSUME IndInv, NEW d \in Daemons, NEW s \in Sessions, NEW P, Writes(d, s, P)
    PROVE  stage[d] # "gone" /\ s \notin restore[d].todo
<1>0. Typed /\ StagesInv /\ RestoreInv
  BY DEF IndInv
<1>. USE <1>0, Shapes, Empties
<1>1. ASSUME NEW q \in Panes, spawn[q].at = "write", spawn[q].by = d
      PROVE  stage[d] # "gone" /\ s \notin restore[d].todo
  <2>1. stage[d] \in {"serving", "stopping"}
    BY <1>1 DEF StagesInv
  <2>. QED
    BY <2>1 DEF StagesInv, StageOf, NoRestore
<1>2. CASE Persist(d, s)
  <2>1. pass[d].at = "write" /\ s \in pass[d].todo
    BY <1>2 DEF Persist
  <2>2. stage[d] # "gone"
    BY <2>1 DEF StagesInv, StageOf, NoPass
  <2>3. s \in pass[d].open
    BY <2>1 DEF RestoreInv, CopyInv
  <2>. QED
    BY <2>2, <2>3 DEF RestoreInv, TodoInv
<1>3. CASE s \in restore[d].at
  <2>1. stage[d] # "gone"
    BY <1>3 DEF StagesInv, StageOf, NoRestore
  <2>. QED
    BY <1>3, <2>1 DEF RestoreInv, TodoInv
<1>. QED
  BY <1>1, <1>2, <1>3 DEF Writes

\* ... and what it writes of a running shell comes from its registry.
LEMMA Sources ==
    ASSUME IndInv, NEW p \in Panes, Running(p), NEW d \in Daemons, d = lease, NEW P, p \in P, Writes(d, Of[p], P)
    PROVE  p \in reg[d].panes
<1>1. /\ p \in pass[d].panes => p \in reg[d].panes
      /\ \A q \in Panes : spawn[q].by = d /\ p \in spawn[q].doc.panes => p \in reg[d].panes
  BY DEF IndInv, RegistryInv
<1>. QED
  BY <1>1 DEF Writes

LEMMA FoundKept == IndInv /\ [Next]_vars => FoundInv'
<1>. SUFFICES ASSUME IndInv, [Next]_vars PROVE FoundInv'
  OBVIOUS
<1>0. Typed /\ FoundInv /\ RegistryInv
  BY DEF IndInv
<1>. USE Shapes, Empties
<1>1. SUFFICES ASSUME NEW p \in Panes, Running(p)'
               PROVE  p \in doc'[Of[p]].panes \/ Of[p] \in past'.stale \/ spawn'[p].at \in {"persist", "write"}
  BY DEF FoundInv
<1>2. CASE ~Running(p)
  BY <1>1, <1>2, RunningSteps
<1>3. CASE Running(p)
  <2>1. PICK s \in Sessions : s = Of[p]
    OBVIOUS
  <2>2. ~Exempt(p)' /\ p \in holders /\ p \notin past.ended /\ p \in In(s)
    BY <1>0, <1>1, <1>3, <2>1 DEF Running, Exempt
  <2>3. CASE spawn[p].at \in {"persist", "write"}
    <3>1. CASE WriteDoc(spawn[p].by, Of[p], spawn[p].doc.panes) /\ p \in spawn[p].doc.panes
      <4>1. PICK P \in SUBSET Panes : P = spawn[p].doc.panes
        BY <1>0 DEF SpawnRecord, DocRecord
      <4>2. doc'[s].panes = P
        BY <1>0, <2>1, <3>1, <4>1, WriteLemma
      <4>. QED
        BY <2>1, <3>1, <4>1, <4>2
    <3>. QED
      BY <2>2, <2>3, <3>1, WindowSteps
  <2>4. CASE spawn[p].at \notin {"persist", "write"}
    <3>1. p \in doc[s].panes \/ s \in past.stale
      BY <1>0, <1>3, <2>1, <2>4 DEF FoundInv
    <3>2. CASE doc'[s] = doc[s] /\ (s \in past.stale => s \in past'.stale)
      BY <2>1, <3>1, <3>2
    <3>3. CASE Archive(s) /\ \E d \in Daemons : s \in pass[d].over \/ Back(s) = {}
      <4>1. p \notin doc[s].panes
        BY <2>1, <2>2, <3>3, ArchivedIsNot
      <4>2. past'.stale = past.stale
        BY <1>0, <3>3, ArchiveLemma
      <4>. QED
        BY <2>1, <3>1, <4>1, <4>2
    <3>4. ASSUME NEW d \in Daemons, NEW P \in SUBSET Panes, WriteDoc(d, s, P), Writes(d, s, P)
          PROVE  p \in doc'[Of[p]].panes \/ Of[p] \in past'.stale
      <4>1. /\ doc'[s].panes = P /\ (d # lease => s \in past'.late)
            /\ (~(reg[d].panes \cap In(s) \subseteq P) => s \in past'.stale)
            /\ s \in past'.stale \/ s \notin past.stale \/ (holders \cap In(s)) \ past.ended \subseteq P
        BY <1>0, <3>4, WriteLemma
      <4>2. d = lease
        BY <2>1, <2>2, <4>1 DEF Exempt
      <4>3. CASE p \in P
        BY <2>1, <4>1, <4>3
      <4>4. CASE p \notin P /\ s \in past.stale
        BY <2>1, <2>2, <4>1, <4>4
      <4>5. CASE p \notin P /\ s \notin past.stale
        <5>1. stage[d] # "gone" /\ s \notin restore[d].todo
          BY <3>4, OwnerWrites
        <5>2. p \in reg[d].panes
          BY <1>0, <1>3, <2>1, <2>4, <4>2, <4>5, <5>1 DEF RegistryInv
        <5>. QED
          BY <2>1, <2>2, <4>1, <4>5, <5>2
      <4>. QED
        BY <4>3, <4>4, <4>5
    <3>5. DocStep(s)
      BY DocSteps
    <3>. QED
      BY <3>2, <3>3, <3>4, <3>5 DEF DocStep
  <2>. QED
    BY <2>3, <2>4
<1>. QED
  BY <1>2, <1>3

LEMMA RegistryKept == IndInv /\ [Next]_vars => RegistryInv'
<1>. SUFFICES ASSUME IndInv, [Next]_vars PROVE RegistryInv'
  OBVIOUS
<1>0. /\ Typed /\ StagesInv /\ OpenInv /\ RegistryInv /\ Grows
      /\ Typed' /\ StagesInv' /\ FoundInv' /\ DiskInv'
  BY TypesKept, StagesKept, FoundKept, DiskKept DEF IndInv
<1>. USE Shapes, Empties
<1>. DEFINE Copies(d, p) == p \in pass[d].panes \/ \E q \in Panes : spawn[q].by = d /\ p \in spawn[q].doc.panes
            Has(d, p) == \/ p \in reg[d].panes
                         \/ p \in doc[Of[p]].panes /\ (Of[p] \in restore[d].todo \/ stage[d] = "gone")
                         \/ spawn[p].at \in {"persist", "write"} /\ spawn[p].by # d
                         \/ Of[p] \in past.stale
<1>1. SUFFICES ASSUME NEW p \in Panes, Running(p)'
               PROVE  \E d \in Daemons : /\ d = lease'
                                         /\ Copies(d, p)' => p \in reg'[d].panes
                                         /\ Has(d, p)'
  BY DEF RegistryInv
<1>2. CASE ~Running(p)
  <2>1. PICK d \in Daemons : d = lease /\ p \in reg[d].panes
    BY <1>1, <1>2, RunningSteps
  <2>2. UNCHANGED <<lease, reg>>
    BY <1>1, <1>2, RunningSteps
  <2>. QED
    BY <2>1, <2>2
<1>3. CASE Running(p) /\ Start
  <2>0. lease < MaxStarts /\ lease' = lease + 1 /\ lease \in 0..MaxStarts /\ MaxStarts \in Nat
    BY <1>0, <1>3, ConstantsAssumption DEF Start
  <2>1. PICK d \in Daemons : d = lease' /\ d = lease + 1
    BY <2>0 DEF Daemons
  <2>2. stage[d] = "no"
    BY <1>0, <2>1, ConstantsAssumption DEF StagesInv, StageOf, Daemons
  <2>3. UNCHANGED <<reg, pass, spawn, dirs, doc>> /\ restore'[d].todo = dirs
    <3>1. UNCHANGED <<reg, pass, spawn, dirs, doc>>
      BY <1>3 DEF Start, runtime, requests, persister, disk
    <3>2. restore' = [restore EXCEPT ![d] = [NoRestore EXCEPT !.todo = dirs]]
      BY <1>3, <2>1 DEF Start
    <3>3. restore'[d] = [NoRestore EXCEPT !.todo = dirs]
      BY <1>0, <3>2
    <3>. QED
      BY <3>1, <3>3 DEF NoRestore
  <2>4. \A q \in Panes : spawn[q].by # d
    BY <1>0, <2>2 DEF StagesInv
  <2>a. pass[d] = NoPass
    BY <1>0, <2>2 DEF StagesInv, StageOf
  <2>5. ~Copies(d, p)'
    BY <2>3, <2>4, <2>a DEF NoPass
  <2>6. p \in doc'[Of[p]].panes => Of[p] \in restore'[d].todo
    BY <1>0, <2>3 DEF DiskInv
  <2>7. Has(d, p)'
    BY <1>0, <1>1, <2>3, <2>4, <2>6 DEF FoundInv
  <2>. QED
    BY <2>1, <2>5, <2>7
<1>4. CASE Running(p) /\ UNCHANGED lease
  <2>1. PICK d \in Daemons : d = lease /\ d = lease'
    BY <1>0, <1>4 DEF RegistryInv
  <2>2. (Copies(d, p) => p \in reg[d].panes) /\ Has(d, p)
    BY <1>0, <1>4, <2>1 DEF RegistryInv
  <2>. DEFINE gone == stage'[d] = "gone"
  <2>3. p \in reg[d].panes => p \in reg'[d].panes \/ gone
    BY <1>1, <1>4, RegistryLoses DEF Running
  <2>4. ~Exempt(p)' /\ p \in holders
    BY <1>1, <1>4 DEF Running
  <2>5. CASE gone
    <3>b. /\ StageOf(d)'
          /\ \A q \in Panes : spawn'[q].by # 0 => stage'[spawn'[q].by] \in {"serving", "stopping"}
      BY <1>0 DEF StagesInv
    <3>. HIDE Shapes, Empties
    <3>a. pass'[d] = NoPass
      BY <2>5, <3>b DEF StageOf
    <3>2. \A q \in Panes : spawn'[q].by # d
      BY <2>5, <3>b, Empties
    <3>1. ~Copies(d, p)'
      BY <3>a, <3>2 DEF NoPass
    <3>3. Has(d, p)'
      BY <1>0, <1>1, <2>5, <3>2 DEF FoundInv
    <3>. QED
      BY <2>1, <3>1, <3>3
  <2>6. CASE ~gone
    <3>1. Copies(d, p)' => p \in reg'[d].panes
      <4>1. p \in pass'[d].panes => p \in pass[d].panes \/ p \in reg'[d].panes
        BY <1>0, PassGains
      <4>2. ASSUME NEW q \in Panes, spawn'[q].by = d, p \in spawn'[q].doc.panes
            PROVE  Copies(d, p) \/ p \in reg'[d].panes
        BY <4>2, CopyGains
      <4>. QED
        BY <2>2, <2>3, <2>6, <4>1, <4>2
    <3>2. Has(d, p)'
      <4>1. CASE p \in reg[d].panes
        BY <2>3, <2>6, <4>1
      <4>2. CASE spawn[p].at \in {"persist", "write"} /\ spawn[p].by # d
        <5>1. CASE WriteDoc(spawn[p].by, Of[p], spawn[p].doc.panes)
          <6>1. PICK s \in Sessions, P \in SUBSET Panes : s = Of[p] /\ P = spawn[p].doc.panes
            BY <1>0 DEF SpawnRecord, DocRecord
          <6>a. PICK e : e = spawn[p].by
            OBVIOUS
          <6>b. WriteDoc(e, s, P) /\ e # lease
            BY <2>1, <4>2, <5>1, <6>1, <6>a
          <6>2. s \in past'.late
            BY <1>0, <6>b, WriteLemma
          <6>. QED
            BY <2>4, <6>1, <6>2 DEF Exempt
        <5>. QED
          BY <2>4, <4>2, <5>1, WindowSteps
      <4>3. PICK s \in Sessions : s = Of[p]
        OBVIOUS
      <4>4. p \in In(s) /\ p \notin past.ended
        BY <1>4, <4>3 DEF Running, Exempt
      <4>5. ASSUME NEW e \in Daemons, NEW P \in SUBSET Panes, WriteDoc(e, s, P), Writes(e, s, P),
                   p \notin reg[d].panes, s \in past.stale \/ s \in restore[d].todo \/ stage[d] = "gone"
            PROVE  s \in past'.stale
        <5>1. /\ e # lease => s \in past'.late
              /\ s \in past'.stale \/ s \notin past.stale \/ (holders \cap In(s)) \ past.ended \subseteq P
          BY <1>0, <4>5, WriteLemma
        <5>2. e = d
          BY <2>1, <2>4, <4>3, <5>1 DEF Exempt
        <5>3. p \notin P
          BY <1>4, <2>1, <4>3, <4>5, <5>2, Sources
        <5>. QED
          BY <2>4, <4>4, <4>5, <5>1, <5>2, <5>3, OwnerWrites
      <4>6. CASE s \in past.stale /\ p \notin reg[d].panes
        <5>1. Archive(s) => past'.stale = past.stale
          BY <1>0, ArchiveLemma
        <5>2. DocStep(s)
          BY DocSteps
        <5>. QED
          BY <4>3, <4>5, <4>6, <5>1, <5>2 DEF DocStep
      <4>7. CASE p \in doc[s].panes /\ (s \in restore[d].todo \/ stage[d] = "gone") /\ p \notin reg[d].panes
        <5>1. DocStep(s)
          BY DocSteps
        <5>2. ~(Archive(s) /\ \E e \in Daemons : s \in pass[e].over \/ Back(s) = {})
          BY <2>4, <4>3, <4>7, ArchivedIsNot
        <5>3. p \in doc'[s].panes \/ s \in past'.stale
          BY <4>5, <4>7, <5>1, <5>2 DEF DocStep
        <5>4. stage[d] # "gone"
          BY <1>0, <2>6, GoneStays
        <5>5. CASE s \in restore'[d].todo
          BY <4>3, <5>3, <5>5
        <5>7. CASE Leaves(d, s)
          <6>1. s \in past'.stale
            BY <1>0, <5>7, LeavesLemma
          <6>. QED
            BY <4>3, <6>1
        <5>6. CASE RestoreSession(d, s) /\ ~Leaves(d, s)
          <6>1. p \in Back(s)
            <7>1. tomb \subseteq past.ended
              BY DEF IndInv, EndsInv
            <7>. QED
              BY <4>4, <4>7, <7>1 DEF Back
          <6>2. p \in reg'[d].panes
            <7>1. p \in doc[s].panes /\ p \in doc[s].panes \ tomb
              BY <4>7, <6>1 DEF Back
            <7>2. Returns(d, s)
              BY <5>6, <6>1 DEF RestoreSession, Stays
            <7>3. PICK P \in SUBSET doc[s].panes :
                     /\ doc[s].panes \ tomb \subseteq P
                     /\ reg' = [reg EXCEPT ![d] = [open |-> @.open \cup {s}, panes |-> @.panes \cup P]]
              <8>. HIDE Shapes, Empties
              <8>1. Typed /\ Returns(d, s)
                BY <1>0, <7>2
              <8>. QED
                BY <8>1, ReturnsLemma
            <7>. QED
              BY <1>0, <7>1, <7>3
          <6>. QED
            BY <6>2
        <5>. QED
          BY <1>4, <2>6, <4>7, <5>4, <5>5, <5>6, <5>7, TodoLoses
      <4>. QED
        BY <2>2, <4>1, <4>2, <4>3, <4>6, <4>7
    <3>. QED
      BY <2>1, <3>1, <3>2
  <2>. QED
    BY <2>5, <2>6
<1>5. UNCHANGED lease \/ Start
  <2>2. ASSUME NEW q \in Panes, \/ OpeningSteps(q) \/ Opened(q) \/ RecordHumanEnd(q) \/ ShellExits(q)
                                \/ \E e \in Daemons : NewPane(e, q) \/ AttachRestored(e, q)
        PROVE  UNCHANGED lease
    <3>1. CASE OpeningSteps(q)
      BY <3>1 DEF OpeningSteps, MakeSessionDir, MakePaneDir, Launch, RunLocally, CopySession, PersistSessionNow, daemon
    <3>2. CASE ~OpeningSteps(q)
      BY <2>2, <3>2 DEF Opened, RecordHumanEnd, ShellExits, NewPane, AttachRestored, daemon
    <3>. QED
      BY <3>1, <3>2
  <2>3. ASSUME NEW e \in Daemons, \/ PersistRestored(e) \/ StageSteps(e) \/ Crash(e) \/ Refuse(e)
                                  \/ \E s \in Sessions : RestoreSession(e, s) \/ Reap(e, s)
                                  \/ \E P, W : BeginKill(e, P, W)
        PROVE  UNCHANGED lease
    BY <2>3 DEF PersistRestored, RestoreSession, Reap, BeginKill, StageSteps, Restored, Bind, Stop, Release, Crash,
       Refuse, daemon
  <2>4. ASSUME NEW e \in Daemons, PassSteps(e) PROVE UNCHANGED lease
    <3>1. ASSUME NEW s \in Sessions, Persist(e, s) \/ Judge(e, s) PROVE UNCHANGED lease
      BY <3>1 DEF Persist, Judge, daemon
    <3>. QED
      BY <2>4, <3>1 DEF PassSteps, BeginPass, ListOnDisk, Move, EndPass, daemon
  <2>5. FinishKill \/ Reboot \/ UNCHANGED vars => UNCHANGED lease
    BY DEF FinishKill, Reboot, vars, daemon
  <2>. HIDE Shapes, Empties
  <2>. QED
    BY <2>2, <2>3, <2>4, <2>5, Steps
<1>. QED
  BY <1>2, <1>3, <1>4, <1>5
-----------------------------------------------------------------------------
(* The theorems.                                                           *)

LEMMA InitInd == Init => IndInv
<1>. SUFFICES ASSUME Init PROVE IndInv
  OBVIOUS
<1>. USE Empties, ConstantsAssumption DEF Init, NoDoc, NoReg, NoRestore, NoSpawn, NoKill, NoPass, NoHistory
<1>0. lease \in 0..MaxStarts
  OBVIOUS
<1>1. Typed
  BY <1>0 DEF Typed, Up, History
<1>2. StagesInv
  BY DEF StagesInv, StageOf, Daemons
<1>3. UnbornInv /\ DiskInv /\ EndsInv /\ OverInv
  BY DEF UnbornInv, DiskInv, EndsInv, OverInv
<1>4. RestoreInv /\ PlannedInv /\ OpenInv /\ KillInv
  BY DEF RestoreInv, AttachedInv, TodoInv, PlanInv, CopyInv, PlannedInv, OpenInv, KillInv
<1>5. RegistryInv /\ FoundInv /\ Promises
  BY DEF RegistryInv, FoundInv, Running, Promises, ArchivedAreOver, EndedStaysEnded
<1>. QED
  BY <1>1, <1>2, <1>3, <1>4, <1>5 DEF IndInv

\* The inductive invariant, which the others rest on
THEOREM Inductive == Spec => []IndInv
<1>1. IndInv /\ [Next]_vars => IndInv'
  <2>1. SUFFICES ASSUME IndInv, [Next]_vars PROVE IndInv'
    OBVIOUS
  <2>2. Typed' /\ StagesInv'
    BY <2>1, TypesKept, StagesKept DEF IndInv
  <2>3. UnbornInv' /\ DiskInv' /\ EndsInv' /\ OverInv'
    BY <2>1, UnbornKept, DiskKept, EndsKept, OverKept
  <2>4. RestoreInv' /\ PlannedInv' /\ OpenInv' /\ KillInv'
    BY <2>1, RestoreKept, PlannedKept, OpenKept, KillKept
  <2>5. RegistryInv' /\ FoundInv' /\ Promises'
    BY <2>1, RegistryKept, FoundKept, PromisesKept
  <2>. QED
    BY <2>2, <2>3, <2>4, <2>5 DEF IndInv
<1>. QED
  BY <1>1, InitInd, PTL DEF Spec

\* The variables have their types, and the directories are where they should be.
THEOREM TypeCorrect == Spec => []TypeOK
<1>1. IndInv => TypeOK
  BY DEF IndInv, Typed, DiskInv, TypeOK
<1>. QED
  BY <1>1, Inductive, PTL

\* Only a directory that was made between verdict and move is archived while its
\* shell runs.
THEOREM TheArchivedAreOver == Spec => []ArchivedAreOver
<1>1. IndInv => ArchivedAreOver
  BY DEF IndInv, Promises
<1>. QED
  BY <1>1, Inductive, PTL

\* What ended is not started again, except by a start that had already judged it.
THEOREM TheEndedStayEnded == Spec => []EndedStaysEnded
<1>1. IndInv => EndedStaysEnded
  BY DEF IndInv, Promises
<1>. QED
  BY <1>1, Inductive, PTL

\* A running shell is in the document of its session, with the exceptions that
\* the property names.
THEOREM TheRunningAreFound == Spec => []RunningIsFound
<1>1. IndInv => RunningIsFound
  BY DEF IndInv, Typed, FoundInv, Running, Exempt, RunningIsFound
<1>. QED
  BY <1>1, Inductive, PTL
==============================================================================
