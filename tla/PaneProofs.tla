----------------------------- MODULE PaneProofs -----------------------------
(***************************************************************************)
(* Proofs about a pane, for every value of the constants: HeldPane, what   *)
(* becomes of its shell and its holders, Screen, what it shows and what    *)
(* the replay of it shows, and Reflow, its place in a window (with Layout, *)
(* the trees and the geometry that the window is made of).                 *)
(***************************************************************************)
EXTENDS HeldPane, Screen, Reflow, FiniteSetTheorems, SequenceTheorems, WellFoundedInduction, TLAPS

\* A shell has exited: what a tombstone that says so is about.
AShellExited == own = "exited" \/ \E x \in Holders : shell[x] = "exited"

\* Only a kill asks a holder to end, and what a holder finalizes with is what happened;
\* from the time that it has recorded an ending, there is one, if no call failed.
HoldersAreTrue ==
    \A x \in Holders :
        /\ human[x] \/ request[x] # "no" \/ timer[x] # "off" => kill # "no"
        /\ final[x] # "no" => ending[x] # None
        /\ final[x] \in {"reads", "tells"} /\ failed = 0 => tomb # None
        /\ ending[x] = "human" => kill # "no"
        /\ ending[x] = "exited" => AShellExited
        /\ stage[x] \in {"free", "opening"} => shell[x] = "none"
        /\ final[x] # "no" \/ timer[x] = "killed" => shell[x] # "runs"
        /\ stage[x] \in {"free", "opening"} => final[x] = "no" /\ timer[x] = "off"

\* The pane is the daemon's own child only after its first start.
OwnIsFirst ==
    /\ starts = 0 => thread = "off"
    /\ thread \in {"launch", "connect"} \/ starts = 0 => own = "none"
    /\ own = "runs" <=> thread = "local"

\* The ending on the link is what happened, and has been recorded if no call failed.
ToldIsRecorded ==
    /\ exited # None /\ failed = 0 => tomb # None
    /\ exited = "human" => kill # "no"
    /\ exited = "exited" => AShellExited

EndInv == HoldersAreTrue /\ OwnIsFirst /\ ToldIsRecorded /\ EndingsAreTrue

\* The holders that live, with a shell or before they have one.
Active == {x \in Holders : stage[x] \in {"opening", "serving"}}

\* While one daemon waits for its holders there is one at most, which has the socket.
OneHolder ==
    Undisturbed =>
        /\ \A x, y \in Active : x = y
        /\ \A x \in Holders : Serves(x) => socket = x
        /\ thread = "launch" \/ starts = 0 \/ own = "runs" => Active = {}
        /\ thread \notin {"classify", "probe", "adopt", "resurrect"}

ShellsAreServed == \A x \in Runs : Serves(x)

ShellInv == OneHolder /\ ShellsAreServed

IndInv == TypeOK /\ EndInv /\ ShellInv
---------------------------------------------
LEMMA InitInd == Init => IndInv
<1>. SUFFICES ASSUME Init PROVE IndInv
  OBVIOUS
<1>1. TypeOK
  <2>1. 0 \in 0..ReviveBudget /\ 0 \in 0..MaxFaults /\ 0 \in 0..MaxSlow /\ 0 \in 0..MaxStarts
    BY BoundsAreSane
  <2>. QED
    BY <2>1 DEF Init, TypeOK
<1>2. EndInv
  BY <1>1, BoundsAreSane DEF Init, EndInv, HoldersAreTrue, OwnIsFirst, ToldIsRecorded, EndingsAreTrue,
     NoInvoluntaryEnding, ReportsAreTrue, ReportedIsRecorded, Endings
<1>3. ShellInv
  BY DEF Init, ShellInv, OneHolder, ShellsAreServed, Active, Runs, Serves
<1>. QED
  BY <1>1, <1>2, <1>3 DEF IndInv

\* A holder that is spawned was free.
LEMMA SpawnLemma ==
    ASSUME TypeOK, Spawn
    PROVE  /\ \E x \in Holders : stage[x] = "free" /\ stage' = [stage EXCEPT ![x] = "opening"]
           /\ UNCHANGED <<shell, human, request, timer, final, ending>>
<1>1. (CHOOSE x \in Free : TRUE) \in Free
  BY DEF Spawn
<1>. QED
  BY <1>1 DEF Spawn, Free

\* Every variable keeps its type.
LEMMA HolderType ==
    ASSUME TypeOK, NEW x \in Holders, HolderStep(x) \/ ShellExits(x) \/ Die(x) PROVE TypeOK'
<1>. USE DEF TypeOK, Endings, daemon, conn, files, bounds
<1>1. CASE Bind(x) \/ ShellExits(x)
  BY <1>1 DEF Bind, Bound, ShellExits
<1>0. ASSUME Fails PROVE failed' \in 0..MaxFaults
  BY <1>0, BoundsAreSane DEF Fails, Faults
<1>2. CASE EndLooks(x)
  BY <1>0, <1>2 DEF EndLooks
<1>8. CASE EndWrites(x)
  BY <1>0, <1>8 DEF EndWrites, Writes
<1>3. CASE EndSignals(x) \/ TimerKills(x)
  BY <1>3 DEF EndSignals, TimerKills
<1>4. CASE Finalize(x)
  BY <1>4 DEF Finalize, EndingOf
<1>5. CASE FinalLooks(x) \/ FinalWrites(x) \/ FinalReads(x)
  <2>1. failed' \in 0..MaxFaults /\ tomb' \in Endings \cup {None}
    BY <1>0, <1>5 DEF FinalLooks, FinalWrites, FinalReads, Writes, NoTombstoneIsRead
  <2>2. final' \in [Holders -> {"no", "looks", "writes", "reads", "tells"}]
    BY <1>5 DEF FinalLooks, FinalWrites, FinalReads, AfterLook
  <2>3. ending' \in [Holders -> Endings \cup {None}]
    BY <1>5 DEF FinalLooks, FinalWrites, FinalReads
  <2>. QED
    BY <1>5, <2>1, <2>2, <2>3 DEF FinalLooks, FinalWrites, FinalReads
<1>6. CASE FinalTells(x)
  BY <1>6 DEF FinalTells, Told
<1>7. CASE Die(x)
  BY <1>7, BoundsAreSane DEF Die, Faults
<1>. QED
  BY <1>1, <1>2, <1>3, <1>4, <1>5, <1>6, <1>7, <1>8 DEF HolderStep

LEMMA WaitLemma ==
    ASSUME TypeOK, GiveUp \/ GiveUpWaiting PROVE slow' \in 0..MaxSlow
BY BoundsAreSane DEF GiveUp, GiveUpWaiting, Slow, TypeOK

LEMMA DaemonType ==
    ASSUME TypeOK, FollowStep \/ KillStep \/ Start \/ Stop \/ LocalExits \/ Cut \/ KillLooks
    PROVE  TypeOK'
<1>. USE DEF TypeOK, Endings, process, conn, files, bounds, daemon, NoLink, Connected, Report
<1>0. ASSUME Fails PROVE failed' \in 0..MaxFaults
  BY <1>0, BoundsAreSane DEF Fails, Faults
<1>1. CASE Launch
  <2>1. stage' \in [Holders -> {"free", "opening", "serving", "gone"}]
        /\ UNCHANGED <<shell, human, request, timer, final, ending>>
    BY <1>1, SpawnLemma DEF Launch
  <2>2. /\ thread' \in {"connect", "revived", "local", "done"} /\ own' \in {own, "runs"}
        /\ reported' \in {reported, "failed"}
    BY <1>1 DEF Launch, NotHeld
  <2>. QED
    BY <1>1, <2>1, <2>2 DEF Launch
<1>2. CASE Classify \/ Join
  BY <1>0, <1>2 DEF Classify, Join, NoTombstoneIsRead
<1>3. CASE Probe
  BY <1>3, WaitLemma DEF Probe
<1>4. CASE Adopt
  <2>1. slow' \in 0..MaxSlow /\ thread' \in {"follow", "resurrect"}
    BY <1>4, WaitLemma DEF Adopt
  <2>2. link' \in Holders \cup {None} /\ open' \in BOOLEAN /\ exited' \in Endings \cup {None}
    BY <1>4 DEF Adopt
  <2>. QED
    BY <1>4, <2>1, <2>2 DEF Adopt
<1>5. CASE Connect
  <2>1. slow' \in 0..MaxSlow /\ thread' \in {"local", "follow", "joining", "repair", "done"}
    BY <1>5, WaitLemma DEF Connect, NotHeld
  <2>2. own' \in {"none", "runs", "exited"} /\ reported' \in Endings \cup {None, "failed"}
    BY <1>5 DEF Connect, NotHeld
  <2>3. link' \in Holders \cup {None} /\ open' \in BOOLEAN /\ exited' \in Endings \cup {None}
    BY <1>5 DEF Connect
  <2>. QED
    BY <1>5, <2>1, <2>2, <2>3 DEF Connect
<1>6. CASE Reconnect
  <2>1. slow' \in 0..MaxSlow /\ thread' \in {"local", "follow", "joining", "repair", "done"}
    BY <1>6, WaitLemma DEF Reconnect, Rejoin
  <2>2. own' \in {"none", "runs", "exited"} /\ reported' \in Endings \cup {None, "failed"}
    BY <1>6 DEF Reconnect, Rejoin
  <2>3. link' \in Holders \cup {None} /\ open' \in BOOLEAN /\ exited' \in Endings \cup {None}
    BY <1>6 DEF Reconnect, Rejoin
  <2>. QED
    BY <1>6, <2>1, <2>2, <2>3 DEF Reconnect
<1>7. CASE ReadExited \/ ReadEnd
  <2>1. thread' \in {"local", "follow", "joining", "repair", "done"}
    BY <1>7 DEF ReadExited, ReadEnd
  <2>2. own' \in {"none", "runs", "exited"} /\ reported' \in Endings \cup {None, "failed"}
    BY <1>7 DEF ReadExited, ReadEnd
  <2>3. link' \in Holders \cup {None} /\ open' \in BOOLEAN /\ exited' \in Endings \cup {None}
    BY <1>7 DEF ReadExited, ReadEnd
  <2>4. failed' \in 0..MaxFaults
    BY <1>0, <1>7 DEF ReadExited, ReadEnd, NoTombstoneIsRead
  <2>. QED
    BY <1>7, <2>1, <2>2, <2>3, <2>4 DEF ReadExited, ReadEnd
<1>8. CASE Repair
  <2>1. CASE Reachable /\ Rejoin /\ UNCHANGED <<process, reported, revivals, slow>>
    <3>1. /\ thread' \in {"joining", "done"} /\ UNCHANGED <<own, kill>>
          /\ link' \in Holders \cup {None} /\ open' \in BOOLEAN /\ exited' \in Endings \cup {None}
      BY <1>8, <2>1 DEF Repair, Rejoin
    <3>. QED
      BY <1>8, <2>1, <3>1 DEF Repair
  <2>2. CASE GiveUpWaiting /\ Revives /\ UNCHANGED conn
    <3>1. revivals' \in 0..ReviveBudget
      BY <2>2, BoundsAreSane DEF Revives, HasBudget
    <3>2. stage' \in [Holders -> {"free", "opening", "serving", "gone"}]
          /\ UNCHANGED <<shell, human, request, timer, final, ending>>
      BY <2>2, SpawnLemma DEF Revives
    <3>3. thread' \in {"reconnect", "done"} /\ reported' \in {reported, "failed"}
      BY <2>2 DEF Revives
    <3>. QED
      BY <1>8, <2>2, <3>1, <3>2, <3>3, WaitLemma DEF Repair
  <2>. QED
    BY <1>8, <2>1, <2>2 DEF Repair
<1>9. CASE KillWrites \/ KillLooks
  BY <1>0, <1>9 DEF KillWrites, KillLooks, Writes
<1>10. CASE KillEnds
  <2>1. request' \in [Holders -> {"no", "asked", "writes", "signals"}]
    BY <1>10 DEF KillEnds, EndSent
  <2>2. /\ thread' \in {thread, "done"} /\ reported' \in {reported, exited}
        /\ own' \in {own, "exited"} /\ kill' = "over"
    BY <1>10 DEF KillEnds
  <2>3. link' \in Holders \cup {None} /\ open' \in BOOLEAN /\ exited' \in Endings \cup {None}
    BY <1>10 DEF KillEnds
  <2>. QED
    BY <1>10, <2>1, <2>2, <2>3 DEF KillEnds
<1>11. CASE Start
  BY <1>11, BoundsAreSane DEF Start
<1>12. CASE Stop
  BY <1>12 DEF Stop
<1>13. CASE LocalExits
  BY <1>0, <1>13 DEF LocalExits
<1>14. CASE Cut
  <2>1. cuts' \in 0..MaxFaults
    BY <1>14, BoundsAreSane DEF Cut, Faults
  <2>2. open' \in BOOLEAN
    BY <1>14 DEF Cut
  <2>3. UNCHANGED <<process, files, link, exited, daemon, deaths, slow, starts>>
    BY <1>14 DEF Cut
  <2>. QED
    BY <2>1, <2>2, <2>3
<1>. QED
  BY <1>1, <1>2, <1>3, <1>4, <1>5, <1>6, <1>7, <1>8, <1>9, <1>10, <1>11, <1>12, <1>13, <1>14
  DEF FollowStep, KillStep

LEMMA TypeKept == TypeOK /\ [Next]_vars => TypeOK'
<1>. SUFFICES ASSUME TypeOK, [Next]_vars PROVE TypeOK'
  OBVIOUS
<1>1. CASE UNCHANGED vars
  BY <1>1 DEF TypeOK, vars, process, files, conn, daemon, bounds
<1>. QED
  BY <1>1, HolderType, DaemonType DEF Next
---------------------------------------------
\* What a step of a holder leaves as it is, and what it records and tells.
LEMMA HolderFrame ==
    ASSUME NEW x \in Holders, HolderStep(x) \/ ShellExits(x) \/ Die(x)
    PROVE  /\ UNCHANGED <<thread, own, kill, reported, starts, slow>>
           /\ \/ UNCHANGED tomb
              \/ tomb' = "human" /\ request[x] = "writes"
              \/ tomb' = ending[x] /\ final[x] = "writes"
           /\ \/ UNCHANGED exited
              \/ final[x] = "tells" /\ exited' = ending[x] /\ UNCHANGED failed
<1>. USE DEF process, files, conn, daemon, bounds
<1>. QED
  BY DEF HolderStep, ShellExits, Die, Bind, EndLooks, EndWrites, EndSignals, TimerKills,
     Finalize, FinalLooks, FinalWrites, FinalReads, FinalTells, Writes, Told

LEMMA FollowFrame ==
    ASSUME FollowStep
    PROVE  /\ UNCHANGED <<kill, tomb>>
           /\ Spawn \/ UNCHANGED <<stage, shell, human, request, timer, final, ending>>
<1>. USE DEF process, files, conn, daemon, bounds
<1>. QED
  BY DEF FollowStep, Launch, Classify, Probe, Adopt, Connect, Reconnect, Join,
       ReadExited, ReadEnd, Repair, Revives

\* What has happened stays so: a tombstone, a kill, the exit of a shell.
Lasts ==
    /\ tomb # None => tomb' # None
    /\ kill # "no" => kill' # "no"
    /\ AShellExited => AShellExited'
    /\ failed' = 0 => failed = 0

LEMMA LastsTrue ==
    ASSUME TypeOK, EndInv, [Next]_vars
    PROVE  Lasts
<1>. USE DEF Lasts
<1>0. ASSUME Fails PROVE failed' # 0
  BY <1>0, BoundsAreSane DEF Fails, TypeOK
<1>. USE DEF TypeOK, EndInv, HoldersAreTrue, OwnIsFirst, process, files, conn, daemon, bounds
<1>1. CASE UNCHANGED vars
  BY <1>1 DEF vars, AShellExited
<1>2. ASSUME NEW x \in Holders, HolderStep(x) \/ ShellExits(x) \/ Die(x) PROVE Lasts
  <2>1. UNCHANGED <<kill, own>> /\ (UNCHANGED tomb \/ tomb' = "human" \/ (tomb' = ending[x] /\ final[x] = "writes"))
    BY <1>2, HolderFrame
  <2>2. /\ failed' = 0 => failed = 0
        /\ \A y \in Holders : shell[y] = "exited" => shell'[y] = "exited"
    BY <1>0, <1>2 DEF HolderStep, ShellExits, Die, Bind, EndLooks, EndWrites, EndSignals, TimerKills,
       Finalize, FinalLooks, FinalWrites, FinalReads, FinalTells, Writes, NoTombstoneIsRead
  <2>. QED
    BY <2>1, <2>2, BoundsAreSane DEF AShellExited
<1>3. CASE FollowStep
  <2>1. UNCHANGED <<tomb, kill, shell>>
    BY <1>3, FollowFrame, SpawnLemma
  <2>2. own' = own \/ (thread \in {"launch", "connect"} /\ own' = "runs")
    BY <1>3 DEF FollowStep, Launch, Classify, Probe, Adopt, Connect, Reconnect, Join,
       ReadExited, ReadEnd, Repair, NotHeld
  <2>3. failed' = 0 => failed = 0
    BY <1>0, <1>3 DEF FollowStep, Launch, Classify, Probe, Adopt, Connect, Reconnect, Join,
       ReadExited, ReadEnd, Repair, NoTombstoneIsRead
  <2>. QED
    BY <2>1, <2>2, <2>3 DEF AShellExited
<1>4. CASE KillStep \/ KillLooks
  <2>1. UNCHANGED shell /\ own' \in {own, "exited"} /\ kill' # "no" /\ tomb' \in {tomb, "human"}
    BY <1>4 DEF KillStep, KillLooks, KillWrites, KillEnds, Writes
  <2>2. failed' = 0 => failed = 0
    BY <1>0, <1>4 DEF KillStep, KillLooks, KillWrites, KillEnds, Writes
  <2>. QED
    BY <2>1, <2>2, BoundsAreSane DEF AShellExited
<1>5. CASE Start \/ Stop
  <2>1. UNCHANGED <<shell, tomb, failed>> /\ (own = "exited" => own' = "exited") /\ (kill # "no" => kill' # "no")
    BY <1>5 DEF Start, Stop
  <2>. QED
    BY <2>1 DEF AShellExited
<1>6. CASE LocalExits
  BY <1>0, <1>6, BoundsAreSane DEF LocalExits, AShellExited
<1>7. CASE Cut
  BY <1>7 DEF Cut, AShellExited
<1>. QED
  BY <1>1, <1>2, <1>3, <1>4, <1>5, <1>6, <1>7 DEF Next

\* The pane is the daemon's own child only after its first start.
LEMMA OwnKept ==
    ASSUME TypeOK, EndInv, [Next]_vars PROVE OwnIsFirst'
<1>. USE DEF EndInv, OwnIsFirst, process, files, conn, daemon, bounds
<1>1. CASE UNCHANGED vars
  BY <1>1 DEF vars
<1>2. ASSUME NEW x \in Holders, HolderStep(x) \/ ShellExits(x) \/ Die(x) PROVE OwnIsFirst'
  <2>1. UNCHANGED <<thread, own, starts>>
    BY <1>2, HolderFrame
  <2>. QED
    BY <2>1
<1>3. CASE Launch \/ Classify \/ Probe \/ Adopt \/ Join
  BY <1>3 DEF Launch, NotHeld, Classify, Probe, Adopt, Join, Report
<1>4. CASE Connect
  BY <1>4 DEF Connect, NotHeld, Report
<1>5. CASE Reconnect \/ ReadExited \/ ReadEnd \/ Repair
  BY <1>5 DEF Reconnect, ReadExited, ReadEnd, Repair, Revives, Rejoin, Report
<1>6. CASE KillStep \/ KillLooks
  BY <1>6 DEF KillStep, KillLooks, KillWrites, KillEnds, TypeOK
<1>7. CASE Start
  BY <1>7 DEF Start, TypeOK
<1>8. CASE Stop
  BY <1>8 DEF Stop, TypeOK
<1>9. CASE LocalExits \/ Cut
  BY <1>9 DEF LocalExits, Cut, Report
<1>. QED
  BY <1>1, <1>2, <1>3, <1>4, <1>5, <1>6, <1>7, <1>8, <1>9 DEF Next, FollowStep

\* What holders have been asked and record is what happened.
LEMMA HoldersKept ==
    ASSUME TypeOK, EndInv, [Next]_vars PROVE HoldersAreTrue'
<1>. USE DEF TypeOK, process, files, conn, daemon, bounds
<1>. USE DEF Lasts
<1>0. Lasts
  BY LastsTrue
<1>1. ASSUME UNCHANGED <<stage, shell, human, request, timer, final, ending>> PROVE HoldersAreTrue'
  BY <1>0, <1>1 DEF EndInv, HoldersAreTrue
<1>2. ASSUME NEW x \in Holders, HolderStep(x) \/ ShellExits(x) \/ Die(x) PROVE HoldersAreTrue'
  <2>. USE <1>0 DEF EndInv, HoldersAreTrue
  <2>1. CASE Bind(x)
    BY <2>1 DEF Bind
  <2>2. CASE ShellExits(x) \/ Die(x)
    BY <2>2 DEF ShellExits, Die, Serves
  <2>3. CASE EndLooks(x) \/ EndWrites(x)
    BY <2>3 DEF EndLooks, EndWrites
  <2>4. CASE EndSignals(x) \/ TimerKills(x)
    BY <2>4 DEF EndSignals, TimerKills, Serves
  <2>5. CASE Finalize(x)
    <3>1. \/ ending'[x] = "human" /\ kill # "no"
          \/ ending'[x] = "exited" /\ AShellExited
      BY <2>5 DEF Finalize, EndingOf, AShellExited
    <3>2. /\ final' = [final EXCEPT ![x] = "looks"] /\ \A y \in Holders \ {x} : ending'[y] = ending[y]
          /\ UNCHANGED <<stage, shell, human, request, timer>>
          /\ stage[x] = "serving" /\ shell[x] # "runs"
      BY <2>5 DEF Finalize, Serves
    <3>. QED
      BY <3>1, <3>2, BoundsAreSane
  <2>6. CASE FinalLooks(x)
    <3>1. /\ UNCHANGED <<stage, shell, human, request, timer, ending, tomb>>
          /\ \A y \in Holders \ {x} : final'[y] = final[y]
          /\ final'[x] = "writes" \/ (final'[x] = "reads" /\ (failed' = 0 => tomb # None))
          /\ stage[x] = "serving" /\ final[x] = "looks"
      <4>1. Fails => failed' # 0
        BY BoundsAreSane DEF Fails
      <4>. QED
        BY <2>6, <4>1 DEF FinalLooks, AfterLook, Serves
    <3>. QED
      BY <3>1
  <2>7. CASE FinalWrites(x)
    <3>1. /\ UNCHANGED <<stage, shell, human, request, timer, ending>>
          /\ final' = [final EXCEPT ![x] = "reads"] /\ (failed' = 0 => tomb' # None)
          /\ stage[x] = "serving" /\ final[x] = "writes"
      <4>1. Fails => failed' # 0
        BY BoundsAreSane DEF Fails
      <4>. QED
        BY <2>7, <4>1 DEF FinalWrites, Writes, Serves
    <3>. QED
      BY <3>1
  <2>8. CASE FinalReads(x)
    <3>1. /\ \/ tomb # None /\ ending' = [ending EXCEPT ![x] = tomb]
             \/ UNCHANGED ending
          /\ final' = [final EXCEPT ![x] = "tells"]
          /\ UNCHANGED <<stage, shell, human, request, timer, tomb>>
          /\ stage[x] = "serving" /\ final[x] # "no"
      BY <2>8 DEF FinalReads, Serves
    <3>2. (tomb = "human" => kill # "no") /\ (tomb = "exited" => AShellExited)
      BY DEF EndingsAreTrue, NoInvoluntaryEnding, AShellExited
    <3>3. /\ \A y \in Holders \ {x} : ending'[y] = ending[y] /\ final'[y] = final[y]
          /\ final'[x] = "tells" /\ ending'[x] \in {ending[x], tomb}
          /\ ending'[x] # None
      BY <3>1
    <3>4. failed' = 0 => tomb # None
      BY <2>8 DEF FinalReads, Serves
    <3>. QED
      BY <3>1, <3>2, <3>3, <3>4
  <2>9. CASE FinalTells(x)
    BY <2>9 DEF FinalTells, Serves
  <2>. QED
    BY <1>2, <2>1, <2>2, <2>3, <2>4, <2>5, <2>6, <2>7, <2>8, <2>9 DEF HolderStep
<1>3. ASSUME Spawn PROVE HoldersAreTrue'
  BY <1>0, <1>3, SpawnLemma DEF EndInv, HoldersAreTrue
<1>4. CASE FollowStep
  <2>1. Spawn \/ UNCHANGED <<stage, shell, human, request, timer, final, ending>>
    BY <1>4, FollowFrame
  <2>. QED
    BY <1>1, <1>3, <2>1
<1>5. CASE KillEnds
  <2>1. /\ UNCHANGED <<stage, shell, human, timer, final, ending>> /\ kill' # "no"
    BY <1>5 DEF KillEnds
  <2>. QED
    BY <1>0, <2>1 DEF EndInv, HoldersAreTrue
<1>6. CASE KillWrites \/ KillLooks \/ Start \/ Stop \/ LocalExits \/ Cut \/ UNCHANGED vars
  <2>1. UNCHANGED <<stage, shell, human, request, timer, final, ending>>
    BY <1>6 DEF KillWrites, KillLooks, Start, Stop, LocalExits, Cut, vars
  <2>. QED
    BY <1>1, <2>1
<1>. QED
  BY <1>2, <1>4, <1>5, <1>6 DEF Next, KillStep

\* What is recorded, told and reported is what happened.
LEMMA EndingsKept ==
    ASSUME TypeOK, EndInv, [Next]_vars PROVE EndingsAreTrue' /\ ToldIsRecorded'
<1>. USE DEF TypeOK, process, files, conn, daemon, bounds
<1>. USE DEF Lasts
<1>0. Lasts
  BY LastsTrue
<1>1. NoInvoluntaryEnding'
  <2>1. \/ UNCHANGED tomb
        \/ tomb' = "human" /\ kill' # "no"
        \/ tomb' = "exited" /\ AShellExited'
    <3>1. ASSUME NEW x \in Holders, HolderStep(x) \/ ShellExits(x) \/ Die(x)
          PROVE  \/ UNCHANGED tomb
                 \/ tomb' = "human" /\ kill # "no"
                 \/ tomb' = "exited" /\ AShellExited
      <4>1. \/ UNCHANGED tomb
            \/ tomb' = "human" /\ request[x] = "writes"
            \/ tomb' = ending[x] /\ final[x] = "writes"
        BY <3>1, HolderFrame
      <4>. QED
        BY <4>1 DEF EndInv, HoldersAreTrue, Endings
    <3>2. CASE FollowStep \/ Start \/ Stop \/ Cut \/ KillLooks \/ UNCHANGED vars
      BY <3>2, FollowFrame DEF Start, Stop, Cut, KillLooks, vars
    <3>3. CASE KillStep
      BY <3>3 DEF KillStep, KillWrites, KillEnds, Writes
    <3>4. CASE LocalExits
      BY <3>4 DEF LocalExits, AShellExited
    <3>. QED
      BY <1>0, <3>1, <3>2, <3>3, <3>4 DEF Next
  <2>. QED
    BY <1>0, <2>1 DEF EndInv, EndingsAreTrue, NoInvoluntaryEnding, AShellExited
<1>2. ToldIsRecorded'
  <2>1. \/ exited' \in {exited, None}
        \/ \E x \in Holders : final[x] = "tells" /\ exited' = ending[x] /\ UNCHANGED failed
    <3>1. ASSUME NEW x \in Holders, HolderStep(x) \/ ShellExits(x) \/ Die(x)
          PROVE  \/ UNCHANGED exited
                 \/ final[x] = "tells" /\ exited' = ending[x] /\ UNCHANGED failed
      BY <3>1, HolderFrame
    <3>2. CASE FollowStep
      BY <3>2 DEF FollowStep, Launch, Classify, Probe, Adopt, Connect, Reconnect, Join,
         ReadExited, ReadEnd, Repair, NoLink, Connected, Rejoin
    <3>3. CASE KillStep \/ Start \/ Stop \/ LocalExits \/ Cut \/ KillLooks \/ UNCHANGED vars
      BY <3>3 DEF KillStep, KillWrites, KillEnds, Start, Stop, LocalExits, Cut, KillLooks, vars, NoLink
    <3>. QED
      BY <3>1, <3>2, <3>3 DEF Next
  <2>. QED
    BY <1>0, <2>1, BoundsAreSane DEF EndInv, HoldersAreTrue, ToldIsRecorded
<1>3. ReportsAreTrue' /\ ReportedIsRecorded'
  <2>1. reported' \in Endings =>
           \/ reported' \in {reported, exited, tomb}
           \/ reported' = "exited" /\ AShellExited' /\ (failed' = 0 => tomb' # None)
    <3>1. ASSUME NEW x \in Holders, HolderStep(x) \/ ShellExits(x) \/ Die(x) PROVE UNCHANGED reported
      BY <3>1, HolderFrame
    <3>2. CASE FollowStep
      BY <3>2 DEF FollowStep, Launch, NotHeld, Classify, Probe, Adopt, Connect, Reconnect, Join,
         ReadExited, ReadEnd, Repair, Revives, Report, Endings
    <3>3. CASE KillStep \/ Stop \/ Cut \/ KillLooks \/ UNCHANGED vars
      BY <3>3 DEF KillStep, KillWrites, KillEnds, Stop, Cut, KillLooks, vars
    <3>4. CASE Start
      BY <3>4, BoundsAreSane DEF Start, Endings
    <3>5. CASE LocalExits
      <4>1. Fails => failed' # 0
        BY BoundsAreSane DEF Fails
      <4>. QED
        BY <3>5, <4>1, BoundsAreSane DEF LocalExits, Report, AShellExited
    <3>. QED
      BY <3>1, <3>2, <3>3, <3>4, <3>5 DEF Next
  <2>2. reported' \in Endings =>
           /\ reported' = "human" => kill' # "no"
           /\ reported' = "exited" => AShellExited'
           /\ failed' = 0 => tomb' # None
    BY <1>0, <2>1, BoundsAreSane DEF EndInv, EndingsAreTrue, NoInvoluntaryEnding, ReportsAreTrue,
       ReportedIsRecorded, ToldIsRecorded, Endings, AShellExited
  <2>. QED
    BY <2>2 DEF ReportsAreTrue, ReportedIsRecorded, Endings, AShellExited
<1>. QED
  BY <1>1, <1>2, <1>3 DEF EndingsAreTrue

LEMMA EndKept == TypeOK /\ EndInv /\ [Next]_vars => EndInv'
BY HoldersKept, OwnKept, EndingsKept DEF EndInv
---------------------------------------------
\* A shell that runs has its holder.
LEMMA ServedKept ==
    ASSUME TypeOK, EndInv, ShellInv, [Next]_vars PROVE ShellsAreServed'
<1>. USE DEF TypeOK, ShellInv, ShellsAreServed, Runs, Serves, process, files, conn, daemon, bounds
<1>1. ASSUME NEW x \in Holders, HolderStep(x) \/ ShellExits(x) \/ Die(x) PROVE ShellsAreServed'
  <2>1. CASE Bind(x)
    BY <2>1 DEF Bind
  <2>2. CASE ShellExits(x) \/ Die(x)
    BY <2>2 DEF ShellExits, Die
  <2>3. CASE EndSignals(x) \/ TimerKills(x)
    BY <2>3 DEF EndSignals, TimerKills
  <2>4. CASE FinalTells(x)
    <3>1. shell[x] # "runs"
      BY <2>4 DEF FinalTells, EndInv, HoldersAreTrue
    <3>. QED
      BY <2>4, <3>1 DEF FinalTells
  <2>5. CASE EndLooks(x) \/ EndWrites(x) \/ Finalize(x) \/ FinalLooks(x) \/ FinalWrites(x) \/ FinalReads(x)
    BY <2>5 DEF EndLooks, EndWrites, Finalize, FinalLooks, FinalWrites, FinalReads
  <2>. QED
    BY <1>1, <2>1, <2>2, <2>3, <2>4, <2>5 DEF HolderStep
<1>2. CASE FollowStep
  <2>1. Spawn \/ UNCHANGED <<stage, shell>>
    BY <1>2, FollowFrame
  <2>2. CASE Spawn
    BY <2>2, SpawnLemma
  <2>. QED
    BY <2>1, <2>2
<1>3. CASE KillStep \/ KillLooks \/ Start \/ Stop \/ LocalExits \/ Cut \/ UNCHANGED vars
  <2>1. UNCHANGED <<stage, shell>>
    BY <1>3 DEF KillStep, KillWrites, KillEnds, KillLooks, Start, Stop, LocalExits, Cut, vars
  <2>. QED
    BY <2>1
<1>. QED
  BY <1>1, <1>2, <1>3 DEF Next

\* A wait that ends while holders are prompt has found that none lives.
LEMMA NoneLives ==
    ASSUME TypeOK, ShellInv, Undisturbed, slow' = 0, GiveUpWaiting PROVE Active = {}
<1>1. ~Reachable /\ Opening = {}
  BY DEF GiveUpWaiting, Slow, Undisturbed
<1>2. \A x \in Holders : ~Serves(x)
  BY <1>1, BoundsAreSane DEF ShellInv, OneHolder, Reachable, Serves
<1>. QED
  BY <1>1, <1>2 DEF Active, Opening, Serves

\* There is one holder at most.
LEMMA OneHolderKept ==
    ASSUME TypeOK, EndInv, ShellInv, [Next]_vars PROVE OneHolder'
<1>. SUFFICES ASSUME Undisturbed' PROVE OneHolder'
  BY DEF OneHolder
<1>. USE DEF TypeOK, process, files, conn, daemon, bounds
<1>0. Undisturbed /\ slow' = 0 /\ starts' <= 1
  <2>1. starts' >= starts /\ slow' >= slow
    <3>1. ASSUME NEW x \in Holders, HolderStep(x) \/ ShellExits(x) \/ Die(x) PROVE UNCHANGED <<starts, slow>>
      BY <3>1, HolderFrame
    <3>2. CASE FollowStep
      BY <3>2 DEF FollowStep, Launch, Classify, Probe, Adopt, Connect, Reconnect, Join,
         ReadExited, ReadEnd, Repair, GiveUp, GiveUpWaiting, Slow
    <3>3. CASE KillStep \/ Start \/ Stop \/ LocalExits \/ Cut \/ KillLooks \/ UNCHANGED vars
      BY <3>3 DEF KillStep, KillWrites, KillEnds, Start, Stop, LocalExits, Cut, KillLooks, vars
    <3>. QED
      BY <3>1, <3>2, <3>3 DEF Next
  <2>2. starts \in Nat /\ slow \in Nat /\ starts' \in Nat /\ slow' = 0 /\ starts' <= 1
    BY TypeKept DEF Undisturbed
  <2>. QED
    BY <2>1, <2>2 DEF Undisturbed
<1>1. /\ \A x, y \in Active : x = y
      /\ \A x \in Holders : Serves(x) => socket = x
      /\ thread = "launch" \/ starts = 0 \/ own = "runs" => Active = {}
      /\ thread \notin {"classify", "probe", "adopt", "resurrect"}
  BY <1>0 DEF ShellInv, OneHolder
<1>2. ASSUME NEW x \in Holders, HolderStep(x) \/ ShellExits(x) \/ Die(x) PROVE OneHolder'
  <2>1. UNCHANGED <<thread, own, starts>>
    BY <1>2, HolderFrame
  <2>2. \/ UNCHANGED <<stage, socket>>
        \/ stage[x] = "opening" /\ stage' = [stage EXCEPT ![x] = "serving"] /\ socket' = x
        \/ stage[x] \in {"opening", "serving"} /\ stage' = [stage EXCEPT ![x] = "gone"]
    BY <1>2 DEF HolderStep, ShellExits, Die, Bind, EndLooks, EndWrites, EndSignals, TimerKills,
       Finalize, FinalLooks, FinalWrites, FinalReads, FinalTells, Serves, Bound
  <2>3. Active' \subseteq Active
    BY <2>2 DEF Active
  <2>4. \A y \in Holders : Serves(y)' => socket' = y
    BY <1>1, <2>2 DEF Active, Serves
  <2>. QED
    BY <1>1, <2>1, <2>3, <2>4 DEF OneHolder
<1>3. ASSUME Spawn, Active = {}, thread' \in {"connect", "reconnect"}, own' # "runs", starts' # 0,
             UNCHANGED socket
      PROVE  OneHolder'
  <2>1. PICK x \in Holders : stage[x] = "free" /\ stage' = [stage EXCEPT ![x] = "opening"]
    BY <1>3, SpawnLemma
  <2>. QED
    BY <1>1, <1>3, <2>1 DEF OneHolder, Active, Serves
<1>4. ASSUME UNCHANGED <<stage, socket>>, starts' = 0 => starts = 0,
             thread' \in {"launch", "classify", "probe", "adopt", "resurrect"} => thread' = thread,
             own' = "runs" => own = "runs"
      PROVE  OneHolder'
  BY <1>1, <1>4 DEF OneHolder, Active, Serves
<1>5. CASE Launch
  <2>1. CASE Spawn /\ UNCHANGED <<own, reported>> /\ thread' = "connect"
    BY <1>0, <1>1, <1>3, <1>5, <2>1 DEF Launch, EndInv, OwnIsFirst
  <2>2. CASE NotHeld /\ UNCHANGED process
    <3>1. Active = {} /\ thread' = "local" /\ starts' # 0 /\ UNCHANGED <<stage, socket>>
      BY <1>0, <1>1, <1>5, <2>2 DEF Launch, NotHeld, EndInv, OwnIsFirst
    <3>. QED
      BY <3>1 DEF OneHolder, Active, Serves
  <2>. QED
    BY <1>1, <1>5, <2>1, <2>2 DEF Launch
<1>6. CASE Classify \/ Probe \/ Adopt
  BY <1>1, <1>6 DEF Classify, Probe, Adopt
<1>7. CASE Connect
  <2>1. CASE own' = own
    BY <1>4, <1>7, <2>1 DEF Connect, NotHeld, Report
  <2>2. CASE own' # own
    <3>1. Active = {} /\ thread' = "local" /\ starts' # 0 /\ UNCHANGED <<stage, socket>>
      BY <1>0, <1>7, <2>2, NoneLives DEF Connect, NotHeld, EndInv, OwnIsFirst
    <3>. QED
      BY <3>1 DEF OneHolder, Active, Serves
  <2>. QED
    BY <2>1, <2>2
<1>8. CASE Reconnect \/ Join \/ ReadExited \/ ReadEnd
  BY <1>4, <1>8 DEF Reconnect, Rejoin, Join, ReadExited, ReadEnd, Report
<1>9. CASE Repair
  <2>1. CASE Reachable /\ Rejoin /\ UNCHANGED <<process, reported, revivals, slow>>
    BY <1>4, <1>9, <2>1 DEF Repair, Rejoin
  <2>2. CASE GiveUpWaiting /\ Spawn /\ thread' = "reconnect"
    <3>1. own' # "runs" /\ starts' # 0 /\ UNCHANGED socket
      BY <1>9 DEF Repair, EndInv, OwnIsFirst
    <3>. QED
      BY <1>0, <1>3, <2>2, <3>1, NoneLives
  <2>3. CASE Report("failed") /\ UNCHANGED process
    BY <1>4, <1>9, <2>3 DEF Repair, Report
  <2>. QED
    BY <1>9, <2>1, <2>2, <2>3 DEF Repair, Revives
<1>10. CASE KillStep \/ KillLooks \/ Stop \/ LocalExits \/ Cut \/ UNCHANGED vars
  BY <1>4, <1>10 DEF KillStep, KillLooks, KillWrites, KillEnds, Stop, LocalExits, Cut, Report, vars
<1>11. CASE Start
  <2>1. starts = 0 /\ starts' = 1 /\ thread' = "launch" /\ own' # "runs" /\ UNCHANGED <<stage, socket>>
    BY <1>0, <1>11 DEF Start, EndInv, OwnIsFirst
  <2>. QED
    BY <1>1, <2>1 DEF OneHolder, Active, Serves
<1>. QED
  BY <1>2, <1>5, <1>6, <1>7, <1>8, <1>9, <1>10, <1>11 DEF Next, FollowStep
---------------------------------------------
\* The invariant holds of every behaviour.
THEOREM Inductive == Spec => []IndInv
<1>1. IndInv /\ [Next]_vars => IndInv'
  BY TypeKept, EndKept, ServedKept, OneHolderKept DEF IndInv, ShellInv
<1>. QED
  BY InitInd, <1>1, PTL DEF Spec

\* Every variable keeps its type.
THEOREM TypeCorrect == Spec => []TypeOK
<1>1. IndInv => TypeOK
  BY DEF IndInv
<1>. QED
  BY Inductive, <1>1, PTL

\* No pane is recorded or reported as ended but by a human or its shell, however many
\* holders die, links are cut and daemons come and go.
THEOREM TheEndingsAreTrue == Spec => []EndingsAreTrue
<1>1. IndInv => EndingsAreTrue
  BY DEF IndInv, EndInv
<1>. QED
  BY Inductive, <1>1, PTL

\* A pane never has two shells, and its holder's can be reached, for any number of
\* holders that die and links that are cut under one daemon.
THEOREM ThereIsOneShell == Spec => []OneShell
<1>1. IndInv => OneShell
  <2>. SUFFICES ASSUME IndInv, Undisturbed
                PROVE  /\ \A x, y \in Runs : x = y
                       /\ \A x \in Runs : socket = x
                       /\ own = "runs" => Runs = {}
    BY DEF OneShell
  <2>1. \A x \in Runs : x \in Active /\ Serves(x)
    BY DEF IndInv, ShellInv, ShellsAreServed, Active, Serves, Runs
  <2>. QED
    BY <2>1 DEF IndInv, ShellInv, OneHolder, Runs
<1>. QED
  BY Inductive, <1>1, PTL
---------------------------------------------
(* Screens.  The invariant is that a screen is one of its size: its pages  *)
(* are made of rows of its width, of cells that characters can have.  Every *)
(* control sequence keeps it.  Sequences first, then screens.              *)

Pos == Nat \ {0}
USE DEF Pos

\* A function on 1 .. n is a sequence.
LEMMA SeqOfRow ==
    ASSUME NEW n \in Nat, NEW X, NEW s \in [1 .. n -> X]
    PROVE  s \in Seq(X) /\ Len(s) = n /\ DOMAIN s = 1 .. n
<1>1. s = [i \in 1 .. n |-> s[i]] /\ \A i \in 1 .. n : s[i] \in X
  OBVIOUS
<1>. QED
  BY <1>1

LEMMA RowOfSeq ==
    ASSUME NEW n \in Nat, NEW X, NEW s \in Seq(X), Len(s) = n
    PROVE  s \in [1 .. n -> X]
BY LenProperties, ElementOfSeq

LEMMA JoinedRows ==
    ASSUME NEW p \in Nat, NEW q \in Nat, NEW m \in Nat, m = p + q, NEW X,
           NEW a \in Seq(X), Len(a) = p, NEW b \in Seq(X), Len(b) = q
    PROVE  /\ a \o b \in Seq(X) /\ Len(a \o b) = m /\ a \o b \in [1 .. m -> X]
           /\ \A k \in 1 .. m : (a \o b)[k] = IF k <= p THEN a[k] ELSE b[k - p]
<1>1. /\ a \o b \in Seq(X) /\ Len(a \o b) = m
      /\ \A k \in 1 .. m : (a \o b)[k] = IF k <= p THEN a[k] ELSE b[k - p]
  BY ConcatProperties
<1>. QED
  BY <1>1, RowOfSeq

IsShorter(t, s, n, i, X) ==
    /\ t \in [1 .. n - 1 -> X]
    /\ \A k \in 1 .. n - 1 : t[k] = IF k < i THEN s[k] ELSE s[k + 1]

IsLonger(t, s, n, i, e, X) ==
    /\ t \in [1 .. n + 1 -> X]
    /\ \A k \in 1 .. n + 1 : t[k] = IF k < i THEN s[k] ELSE IF k = i THEN e ELSE s[k - 1]

\* A sequence after one of its elements was taken out ...
LEMMA Shorter ==
    ASSUME NEW n \in Nat, NEW X, NEW s \in [1 .. n -> X], NEW i \in 1 .. n
    PROVE  IsShorter(RemoveAt(s, i), s, n, i, X)
<1>. DEFINE a == SubSeq(s, 1, i - 1)
            b == SubSeq(s, i + 1, n)
<1>1. s \in Seq(X) /\ Len(s) = n /\ DOMAIN s = 1 .. n
  BY SeqOfRow
<1>2. a \in Seq(X) /\ Len(a) = i - 1 /\ \A k \in 1 .. i - 1 : a[k] = s[k]
  <2>1. \A k \in 1 .. i - 1 : s[k] \in X /\ 1 + k - 1 = k
    OBVIOUS
  <2>2. /\ a \in Seq(X) /\ Len(a) = IF 1 <= i - 1 THEN i - 1 - 1 + 1 ELSE 0
        /\ \A k \in 1 .. i - 1 - 1 + 1 : a[k] = s[1 + k - 1]
    BY <2>1, SubSeqProperties
  <2>. QED
    BY <2>1, <2>2
<1>3. b \in Seq(X) /\ Len(b) = n - i /\ \A k \in 1 .. n - i : b[k] = s[i + k]
  <2>1. /\ \A k \in i + 1 .. n : s[k] \in X
        /\ \A k \in 1 .. n - i : i + 1 + k - 1 = i + k
        /\ n - (i + 1) + 1 = n - i /\ i + 1 \in Int /\ n \in Int
    OBVIOUS
  <2>2. /\ b \in Seq(X) /\ Len(b) = IF i + 1 <= n THEN n - (i + 1) + 1 ELSE 0
        /\ \A k \in 1 .. n - (i + 1) + 1 : b[k] = s[i + 1 + k - 1]
    BY <2>1, SubSeqProperties
  <2>. QED
    BY <2>1, <2>2
<1>4. RemoveAt(s, i) = a \o b
  BY <1>1 DEF RemoveAt
<1>. HIDE DEF a, b
<1>5. /\ a \o b \in [1 .. n - 1 -> X]
      /\ \A k \in 1 .. n - 1 : (a \o b)[k] = IF k <= i - 1 THEN a[k] ELSE b[k - (i - 1)]
  <2>1. i - 1 \in Nat /\ n - i \in Nat /\ n - 1 \in Nat /\ n - 1 = i - 1 + (n - i)
    OBVIOUS
  <2>. QED
    BY <1>2, <1>3, <2>1, JoinedRows
<1>7. ASSUME NEW k \in 1 .. n - 1 PROVE (a \o b)[k] = IF k < i THEN s[k] ELSE s[k + 1]
  <2>1. CASE k < i
    <3>1. k \in 1 .. i - 1 /\ k <= i - 1
      BY <2>1
    <3>. QED
      BY <1>2, <1>5, <2>1, <3>1
  <2>2. CASE ~(k < i)
    <3>1. ~(k <= i - 1) /\ k - (i - 1) \in 1 .. n - i /\ i + (k - (i - 1)) = k + 1
      BY <2>2
    <3>. QED
      BY <1>3, <1>5, <2>2, <3>1
  <2>. QED
    BY <2>1, <2>2
<1>. QED
  BY <1>4, <1>5, <1>7 DEF IsShorter

\* ... and after one was put in.
LEMMA Longer ==
    ASSUME NEW n \in Nat, NEW X, NEW s \in [1 .. n -> X], NEW i \in 1 .. n + 1, NEW e \in X
    PROVE  IsLonger(InsertAt(s, i, e), s, n, i, e, X)
<1>. DEFINE a == SubSeq(s, 1, i - 1)
            b == SubSeq(s, i, n)
            c == a \o <<e>>
<1>1. s \in Seq(X) /\ Len(s) = n /\ DOMAIN s = 1 .. n
  BY SeqOfRow
<1>2. a \in Seq(X) /\ Len(a) = i - 1 /\ \A k \in 1 .. i - 1 : a[k] = s[k]
  <2>1. \A k \in 1 .. i - 1 : s[k] \in X /\ 1 + k - 1 = k
    OBVIOUS
  <2>2. /\ a \in Seq(X) /\ Len(a) = IF 1 <= i - 1 THEN i - 1 - 1 + 1 ELSE 0
        /\ \A k \in 1 .. i - 1 - 1 + 1 : a[k] = s[1 + k - 1]
    BY <2>1, SubSeqProperties
  <2>. QED
    BY <2>1, <2>2
<1>3. b \in Seq(X) /\ Len(b) = n - i + 1 /\ \A k \in 1 .. n - i + 1 : b[k] = s[i + k - 1]
  <2>1. \A k \in i .. n : s[k] \in X
    OBVIOUS
  <2>2. /\ b \in Seq(X) /\ Len(b) = IF i <= n THEN n - i + 1 ELSE 0
        /\ \A k \in 1 .. n - i + 1 : b[k] = s[i + k - 1]
    BY <2>1, SubSeqProperties
  <2>. QED
    BY <2>2
<1>4. InsertAt(s, i, e) = c \o b
  BY <1>1 DEF InsertAt
<1>5. /\ c \in Seq(X) /\ Len(c) = i
      /\ \A k \in 1 .. i : c[k] = IF k < i THEN s[k] ELSE e
  <2>1. <<e>> \in Seq(X) /\ Len(<<e>>) = 1 /\ <<e>>[1] = e
    OBVIOUS
  <2>. HIDE DEF a
  <2>2. /\ c \in Seq(X) /\ Len(c) = i - 1 + 1
        /\ \A k \in 1 .. i - 1 + 1 : c[k] = IF k <= i - 1 THEN a[k] ELSE <<e>>[k - (i - 1)]
    BY <1>2, <2>1, ConcatProperties
  <2>. HIDE DEF c
  <2>3. ASSUME NEW k \in 1 .. i PROVE c[k] = IF k < i THEN s[k] ELSE e
    <3>1. CASE k < i
      <4>1. k \in 1 .. i - 1 /\ k <= i - 1 /\ k \in 1 .. i - 1 + 1
        BY <3>1
      <4>. QED
        BY <1>2, <2>2, <3>1, <4>1
    <3>2. CASE k = i
      <4>1. ~(k <= i - 1) /\ k - (i - 1) = 1 /\ k \in 1 .. i - 1 + 1
        BY <3>2
      <4>. QED
        BY <2>1, <2>2, <3>2, <4>1
    <3>. QED
      BY <3>1, <3>2
  <2>. QED
    BY <2>2, <2>3
<1>. HIDE DEF a, b, c
<1>6. /\ c \o b \in [1 .. n + 1 -> X]
      /\ \A k \in 1 .. n + 1 : (c \o b)[k] = IF k <= i THEN c[k] ELSE b[k - i]
  <2>1. PICK u \in Seq(X), v \in Seq(X) : u = c /\ v = b
    BY <1>3, <1>5
  <2>2. Len(u) = i /\ Len(v) = n - i + 1
    BY <1>3, <1>5, <2>1
  <2>3. i \in Nat /\ n - i + 1 \in Nat /\ n + 1 \in Nat /\ n + 1 = i + (n - i + 1)
    OBVIOUS
  <2>4. /\ u \o v \in [1 .. n + 1 -> X]
        /\ \A k \in 1 .. n + 1 : (u \o v)[k] = IF k <= i THEN u[k] ELSE v[k - i]
    BY <2>2, <2>3, JoinedRows
  <2>. QED
    BY <2>1, <2>4
<1>8. ASSUME NEW k \in 1 .. n + 1
      PROVE  (c \o b)[k] = IF k < i THEN s[k] ELSE IF k = i THEN e ELSE s[k - 1]
  <2>1. CASE k <= i
    <3>1. k \in 1 .. i /\ (~(k < i) => k = i)
      BY <2>1
    <3>. QED
      BY <1>5, <1>6, <2>1, <3>1
  <2>2. CASE ~(k <= i)
    <3>1. k - i \in 1 .. n - i + 1 /\ i + (k - i) - 1 = k - 1 /\ ~(k < i) /\ k # i
      BY <2>2
    <3>. QED
      BY <1>3, <1>6, <2>2, <3>1
  <2>. QED
    BY <2>1, <2>2
<1>. QED
  BY <1>4, <1>6, <1>8 DEF IsLonger

\* The screens of a size.
Space == " "
ProperCells == {c \in Cells : c.w = Width(c.ch) \/ (c.w = 0 /\ c.ch = Space)}
Chars == Glyphs \cup {" "}
Lines(cols)       == [1 .. cols -> ProperCells]
Pages(rows, cols) == [1 .. rows -> Lines(cols)]
Histories == {h \in Seq(Seq(ProperCells)) : Len(h) <= HistoryCap}
SavedAt   == {<<>>} \cup (Nat \X Nat)
LastShown == {<<>>} \cup {<<ch>> : ch \in Chars}

Screens(rows, cols) ==
    [rows : {rows}, cols : {cols},
     primary : Pages(rows, cols), alternate : Pages(rows, cols), alt : BOOLEAN,
     history : Histories, row : 0 .. rows - 1, col : 0 .. cols - 1, wrap : BOOLEAN,
     top : 0 .. rows - 1, bottom : 0 .. rows - 1,
     insert : BOOLEAN, saved : SavedAt, last : LastShown]

LEMMA ZeroWidth == 0 \in 0..2 /\ 1 \in 0..2 /\ 2 \in 0..2
OBVIOUS

LEMMA CellParts ==
    ASSUME NEW cell \in ProperCells
    PROVE  /\ cell.ch \in Chars /\ cell.w \in 0..2 /\ cell.mark \in BOOLEAN
           /\ cell.w = Width(cell.ch) \/ (cell.w = 0 /\ cell.ch = Space)
           /\ cell = [ch |-> cell.ch, w |-> cell.w, mark |-> cell.mark]
BY DEF ProperCells, Cells, Chars

LEMMA CellOf ==
    ASSUME NEW ch \in Chars, NEW w \in 0..2, NEW mark \in BOOLEAN,
           w = Width(ch) \/ (w = 0 /\ ch = Space)
    PROVE  [ch |-> ch, w |-> w, mark |-> mark] \in ProperCells
BY DEF ProperCells, Cells, Chars

LEMMA Widths == /\ \A ch \in Chars : Width(ch) \in {1, 2}
                /\ Space \in Chars /\ Width(Space) = 1
BY ZeroWidth DEF Width, Chars, Space

LEMMA BlankIs ==
    /\ Blank = [ch |-> Space, w |-> 1, mark |-> FALSE]
    /\ Rest = [ch |-> Space, w |-> 0, mark |-> FALSE]
<1>1. Blank = [ch |-> Space, w |-> 1, mark |-> FALSE]
  BY DEF Blank, Space
<1>2. PICK space, no : space = Space /\ no = FALSE /\ Blank = [ch |-> space, w |-> 1, mark |-> no]
  BY <1>1
<1>3. Rest = [ch |-> space, w |-> 0, mark |-> no]
  BY <1>2 DEF Rest
<1>. QED
  BY <1>1, <1>2, <1>3

LEMMA BlankCells ==
    /\ Blank \in ProperCells /\ Rest \in ProperCells /\ Blank.w = 1 /\ Rest.w = 0
    /\ Blank.mark = FALSE /\ Rest.mark = FALSE /\ Blank.ch = Space /\ Rest.ch = Space
<1>1. [ch |-> Space, w |-> 1, mark |-> FALSE] \in ProperCells
  BY Widths, ZeroWidth, CellOf
<1>2. [ch |-> Space, w |-> 0, mark |-> FALSE] \in ProperCells
  BY Widths, ZeroWidth, CellOf
<1>. QED
  BY <1>1, <1>2, BlankIs

LEMMA BlankLines ==
    ASSUME NEW rows \in Nat, NEW cols \in Nat
    PROVE  Blanks(cols) \in Lines(cols) /\ BlankPage(rows, cols) \in Pages(rows, cols)
BY BlankCells DEF Blanks, BlankPage, Lines, Pages

LEMMA FreshScreen ==
    ASSUME NEW rows \in Pos, NEW cols \in Pos PROVE Fresh(rows, cols) \in Screens(rows, cols)
<1>1. <<>> \in Histories
  BY ConstantsAssumption DEF Histories
<1>2. BlankPage(rows, cols) \in Pages(rows, cols)
  BY BlankLines
<1>. QED
  BY <1>1, <1>2 DEF Fresh, Screens, SavedAt, LastShown

\* The page that is shown.
LEMMA PageOf ==
    ASSUME NEW rows, NEW cols, NEW s \in Screens(rows, cols) PROVE Page(s) \in Pages(rows, cols)
BY DEF Page, Screens

LEMMA LineOf ==
    ASSUME NEW rows, NEW cols, NEW s \in Screens(rows, cols), NEW r \in 0 .. rows - 1, rows \in Nat
    PROVE  Line(s, r) \in Lines(cols)
<1>1. r + 1 \in 1 .. rows
  OBVIOUS
<1>. QED
  BY <1>1, PageOf DEF Line, Pages

LEMMA PageSet ==
    ASSUME NEW rows, NEW cols, NEW s \in Screens(rows, cols), NEW page \in Pages(rows, cols)
    PROVE  /\ WithPage(s, page) \in Screens(rows, cols)
           /\ Page(WithPage(s, page)) = page
           /\ \A field \in DOMAIN s \ {"primary", "alternate"} : WithPage(s, page)[field] = s[field]
<1>1. CASE s.alt
  BY <1>1 DEF WithPage, Page, Screens
<1>2. CASE ~s.alt
  BY <1>2 DEF WithPage, Page, Screens
<1>. QED
  BY <1>1, <1>2

\* One field of a screen is set.
LEMMA FieldSet ==
    ASSUME NEW rows, NEW cols, NEW s \in Screens(rows, cols)
    PROVE  /\ \A b \in BOOLEAN : /\ [s EXCEPT !.alt = b] \in Screens(rows, cols)
                               /\ [s EXCEPT !.wrap = b] \in Screens(rows, cols)
                               /\ [s EXCEPT !.insert = b] \in Screens(rows, cols)
           /\ \A r \in 0 .. rows - 1 : /\ [s EXCEPT !.row = r] \in Screens(rows, cols)
                                      /\ [s EXCEPT !.top = r] \in Screens(rows, cols)
                                      /\ [s EXCEPT !.bottom = r] \in Screens(rows, cols)
           /\ \A c \in 0 .. cols - 1 : [s EXCEPT !.col = c] \in Screens(rows, cols)
           /\ \A x \in SavedAt : [s EXCEPT !.saved = x] \in Screens(rows, cols)
           /\ \A x \in LastShown : [s EXCEPT !.last = x] \in Screens(rows, cols)
           /\ \A h \in Histories : [s EXCEPT !.history = h] \in Screens(rows, cols)
           /\ s.rows = rows /\ s.cols = cols /\ s.alt \in BOOLEAN /\ s.wrap \in BOOLEAN
           /\ s.insert \in BOOLEAN
           /\ s.row \in 0 .. rows - 1 /\ s.top \in 0 .. rows - 1 /\ s.bottom \in 0 .. rows - 1
           /\ s.col \in 0 .. cols - 1 /\ s.saved \in SavedAt /\ s.last \in LastShown
           /\ s.history \in Histories
BY DEF Screens

LEMMA LeastOf ==
    ASSUME NEW n \in Pos, NEW a \in Nat PROVE Least(a, n - 1) \in 0 .. n - 1
BY DEF Least

LEMMA CursorMoves ==
    ASSUME NEW rows \in Pos, NEW cols \in Pos, NEW s \in Screens(rows, cols),
           NEW r \in Nat, NEW c \in Nat
    PROVE  CursorSet(s, r, c) \in Screens(rows, cols)
<1>1. s.rows = rows /\ s.cols = cols
  BY DEF Screens
<1>2. PICK x \in 0 .. rows - 1 : x = Least(r, rows - 1)
  BY LeastOf
<1>3. PICK y \in 0 .. cols - 1 : y = Least(c, cols - 1)
  BY LeastOf
<1>4. CursorSet(s, r, c) = [s EXCEPT !.wrap = FALSE, !.row = x, !.col = y]
  BY <1>1, <1>2, <1>3 DEF CursorSet, Unwrapped, Screens
<1>. QED
  BY <1>4 DEF Screens

\* Moves of the cursor, and marks for it.
LEMMA Moves ==
    ASSUME NEW rows \in Pos, NEW cols \in Pos, NEW s \in Screens(rows, cols)
    PROVE  /\ Unwrapped(s) \in Screens(rows, cols)
           /\ Returned(s) \in Screens(rows, cols)
           /\ BackSpaced(s) \in Screens(rows, cols)
           /\ Tabbed(s) \in Screens(rows, cols)
           /\ Risen(s) \in Screens(rows, cols)
           /\ Saved(s) \in Screens(rows, cols)
           /\ Restored(s) \in Screens(rows, cols)
<1>1. Unwrapped(s) \in Screens(rows, cols)
  BY DEF Unwrapped, Screens
<1>2. Returned(s) \in Screens(rows, cols)
  <2>1. PICK c \in 0 .. cols - 1 : c = 0
    OBVIOUS
  <2>2. Returned(s) = [s EXCEPT !.wrap = FALSE, !.col = c]
    BY <2>1 DEF Returned, Unwrapped, Screens
  <2>. QED
    BY <2>2 DEF Screens
<1>3. BackSpaced(s) \in Screens(rows, cols)
  <2>1. PICK c \in 0 .. cols - 1 : c = IF s.col > 0 THEN s.col - 1 ELSE 0
    BY DEF Screens
  <2>2. BackSpaced(s) = [s EXCEPT !.wrap = FALSE, !.col = c]
    BY <2>1 DEF BackSpaced, Unwrapped, Screens
  <2>. QED
    BY <2>2 DEF Screens
<1>4. Tabbed(s) \in Screens(rows, cols)
  <2>1. s.col \in Nat /\ s.cols = cols
    BY DEF Screens
  <2>2. (s.col \div 8 + 1) * 8 \in Nat
    <3>1. s.col \div 8 \in Nat
      BY <2>1
    <3>. QED
      BY <3>1
  <2>3. PICK c \in 0 .. cols - 1 : c = Least((s.col \div 8 + 1) * 8, cols - 1)
    BY <2>2, LeastOf
  <2>4. Tabbed(s) = [s EXCEPT !.wrap = FALSE, !.col = c]
    BY <2>1, <2>3 DEF Tabbed, Unwrapped, Screens
  <2>. QED
    BY <2>4 DEF Screens
<1>5. Risen(s) \in Screens(rows, cols)
  <2>1. (IF s.row > 0 THEN s.row - 1 ELSE 0) \in Nat /\ s.col \in Nat
    BY DEF Screens
  <2>. QED
    BY <2>1, CursorMoves DEF Risen
<1>6. Saved(s) \in Screens(rows, cols)
  <2>1. <<s.row, s.col>> \in SavedAt
    BY DEF Screens, SavedAt
  <2>. QED
    BY <2>1 DEF Saved, Screens
<1>7. Restored(s) \in Screens(rows, cols)
  <2>1. CASE s.saved = <<>>
    BY <2>1 DEF Restored
  <2>2. CASE s.saved # <<>>
    <3>1. s.saved[1] \in Nat /\ s.saved[2] \in Nat /\ s.rows = rows /\ s.cols = cols
      BY <2>2 DEF Screens, SavedAt
    <3>2. PICK x \in 0 .. rows - 1 : x = Least(s.saved[1], rows - 1)
      BY <3>1, LeastOf
    <3>3. PICK y \in 0 .. cols - 1 : y = Least(s.saved[2], cols - 1)
      BY <3>1, LeastOf
    <3>4. Restored(s) = [s EXCEPT !.row = x, !.col = y]
      BY <2>2, <3>1, <3>2, <3>3 DEF Restored
    <3>. QED
      BY <3>4 DEF Screens
  <2>. QED
    BY <2>1, <2>2
<1>. QED
  BY <1>1, <1>2, <1>3, <1>4, <1>5, <1>6, <1>7

LEMMA RegionSet ==
    ASSUME NEW rows \in Pos, NEW cols \in Pos, NEW s \in Screens(rows, cols),
           NEW top \in Nat, NEW bottom \in Nat
    PROVE  Region(s, top, bottom) \in Screens(rows, cols)
<1>1. s.rows = rows
  BY DEF Screens
<1>2. PICK x \in 0 .. rows - 1 : x = Least(top, rows - 1)
  BY LeastOf
<1>3. PICK y \in 0 .. rows - 1 : y = Least(bottom, rows - 1)
  BY LeastOf
<1>4. PICK t \in Screens(rows, cols) : t = [s EXCEPT !.top = x, !.bottom = y]
  BY DEF Screens
<1>5. Region(s, top, bottom) = CursorSet(t, 0, 0)
  BY <1>1, <1>2, <1>3, <1>4 DEF Region
<1>. QED
  BY <1>5, CursorMoves

\* Lines of a page move.
LEMMA ShiftedRow ==
    ASSUME NEW n \in Pos, NEW X, NEW s \in [1 .. n -> X], NEW e \in X
    PROVE  /\ Append(Tail(s), e) \in [1 .. n -> X]
           /\ Head(s) \in X
<1>1. s \in Seq(X) /\ Len(s) = n /\ s # <<>>
  BY SeqOfRow
<1>2. Head(s) = s[1] /\ 1 \in 1 .. n
  BY <1>1
<1>3. Tail(s) \in Seq(X) /\ Len(Tail(s)) = n - 1
  BY <1>1, HeadTailProperties
<1>4. PICK u \in Seq(X) : u = Tail(s)
  BY <1>3
<1>5. Append(u, e) \in Seq(X) /\ Len(Append(u, e)) = n
  BY <1>3, <1>4, AppendProperties
<1>6. Append(u, e) \in [1 .. n -> X]
  BY <1>5, RowOfSeq
<1>. QED
  BY <1>2, <1>4, <1>6

StaysBelow(t, s, bottom, rows) == \A r \in bottom + 1 .. rows - 1 : Line(t, r) = Line(s, r)

LEMMA MovedLine ==
    ASSUME NEW rows \in Pos, NEW cols \in Pos, NEW s \in Screens(rows, cols),
           NEW out \in 0 .. rows - 1, NEW in \in Nat
    PROVE  /\ Moved(s, out, in) \in Screens(rows, cols)
           /\ out <= in => StaysBelow(Moved(s, out, in), s, in, rows)
<1>1. PICK page \in Pages(rows, cols) : page = Page(s)
  BY PageOf
<1>2. s.rows = rows /\ s.cols = cols
  BY DEF Screens
<1>3. PICK at \in 0 .. rows - 1 : at = Least(in, rows - 1)
  BY LeastOf
<1>4. PICK blank \in Lines(cols) : blank = Blanks(cols)
  BY BlankLines
<1>5. /\ out + 1 \in 1 .. rows /\ at + 1 \in 1 .. rows - 1 + 1 /\ rows - 1 \in Nat
      /\ rows - 1 + 1 = rows
  OBVIOUS
<1>6. IsShorter(RemoveAt(page, out + 1), page, rows, out + 1, Lines(cols))
  BY <1>5, Shorter DEF Pages
<1>7. PICK less \in [1 .. rows - 1 -> Lines(cols)] : less = RemoveAt(page, out + 1)
  BY <1>6 DEF IsShorter
<1>8. IsLonger(InsertAt(less, at + 1, blank), less, rows - 1, at + 1, blank, Lines(cols))
  BY <1>5, Longer
<1>9. PICK moved \in Pages(rows, cols) : moved = InsertAt(less, at + 1, blank)
  BY <1>5, <1>8 DEF Pages, IsLonger
<1>10. Moved(s, out, in) = WithPage(s, moved)
  BY <1>1, <1>2, <1>3, <1>4, <1>7, <1>9 DEF Moved
<1>11. Page(Moved(s, out, in)) = moved
  BY <1>10, PageSet
<1>12. ASSUME out <= in, NEW r \in in + 1 .. rows - 1 PROVE moved[r + 1] = page[r + 1]
  <2>1. at = in
    BY <1>3, <1>12 DEF Least
  <2>2. /\ r + 1 \in 1 .. rows - 1 + 1 /\ ~(r + 1 < at + 1) /\ r + 1 # at + 1
        /\ r + 1 - 1 \in 1 .. rows - 1 /\ ~(r + 1 - 1 < out + 1) /\ r + 1 - 1 + 1 = r + 1
    BY <1>12, <2>1
  <2>3. moved[r + 1] = less[r + 1 - 1]
    BY <1>8, <1>9, <2>2 DEF IsLonger
  <2>. QED
    BY <1>6, <1>7, <2>2, <2>3 DEF IsShorter
<1>. QED
  BY <1>1, <1>10, <1>11, <1>12, PageSet DEF StaysBelow, Line

LEMMA PushedLine ==
    ASSUME NEW rows \in Pos, NEW cols \in Pos, NEW s \in Screens(rows, cols),
           NEW at \in 0 .. rows - 1
    PROVE  /\ PushedDown(s, at) \in Screens(rows, cols)
           /\ at <= s.bottom => StaysBelow(PushedDown(s, at), s, s.bottom, rows)
<1>1. PICK page \in Pages(rows, cols) : page = Page(s)
  BY PageOf
<1>2. s.rows = rows /\ s.cols = cols
  BY DEF Screens
<1>3. PICK bottom \in 0 .. rows - 1 : bottom = s.bottom
  BY DEF Screens
<1>4. PICK blank \in Lines(cols) : blank = Blanks(cols)
  BY BlankLines
<1>5. /\ at + 1 \in 1 .. rows + 1 /\ bottom + 2 \in 1 .. rows + 1 /\ rows + 1 \in Nat
      /\ rows + 1 - 1 = rows
  OBVIOUS
<1>6. IsLonger(InsertAt(page, at + 1, blank), page, rows, at + 1, blank, Lines(cols))
  BY <1>5, Longer DEF Pages
<1>7. PICK more \in [1 .. rows + 1 -> Lines(cols)] : more = InsertAt(page, at + 1, blank)
  BY <1>6 DEF IsLonger
<1>8. IsShorter(RemoveAt(more, bottom + 2), more, rows + 1, bottom + 2, Lines(cols))
  BY <1>5, Shorter
<1>9. PICK pushed \in Pages(rows, cols) : pushed = RemoveAt(more, bottom + 2)
  BY <1>5, <1>8 DEF Pages, IsShorter
<1>10. PushedDown(s, at) = WithPage(s, pushed)
  BY <1>1, <1>2, <1>3, <1>4, <1>7, <1>9 DEF PushedDown
<1>11. Page(PushedDown(s, at)) = pushed
  BY <1>10, PageSet
<1>12. ASSUME at <= bottom, NEW r \in bottom + 1 .. rows - 1 PROVE pushed[r + 1] = page[r + 1]
  <2>1. /\ r + 1 \in 1 .. rows + 1 - 1 /\ ~(r + 1 < bottom + 2) /\ r + 1 + 1 \in 1 .. rows + 1
        /\ ~(r + 1 + 1 < at + 1) /\ r + 1 + 1 # at + 1 /\ r + 1 + 1 - 1 = r + 1
    BY <1>12
  <2>2. pushed[r + 1] = more[r + 1 + 1]
    BY <1>8, <1>9, <2>1 DEF IsShorter
  <2>. QED
    BY <1>6, <1>7, <2>1, <2>2 DEF IsLonger
<1>. QED
  BY <1>1, <1>3, <1>10, <1>11, <1>12, PageSet DEF StaysBelow, Line

\* The oldest row of a full history makes room for the one that scrolls off.
LEMMA HistoryGrows ==
    ASSUME NEW h \in Histories, NEW line \in Seq(ProperCells), HistoryCap # 0
    PROVE  Append(IF Len(h) >= HistoryCap THEN Tail(h) ELSE h, line) \in Histories
<1>1. h \in Seq(Seq(ProperCells)) /\ Len(h) \in Nat /\ Len(h) <= HistoryCap /\ HistoryCap \in Nat
  BY ConstantsAssumption DEF Histories
<1>2. CASE Len(h) >= HistoryCap
  <2>1. h # <<>>
    BY <1>1, <1>2
  <2>2. Tail(h) \in Seq(Seq(ProperCells)) /\ Len(Tail(h)) = Len(h) - 1
    BY <1>1, <2>1, HeadTailProperties
  <2>3. PICK u \in Seq(Seq(ProperCells)) : u = Tail(h)
    BY <2>2
  <2>4. Append(u, line) \in Seq(Seq(ProperCells)) /\ Len(Append(u, line)) = Len(h)
    BY <1>1, <2>2, <2>3, AppendProperties
  <2>. QED
    BY <1>1, <1>2, <2>3, <2>4 DEF Histories
<1>3. CASE ~(Len(h) >= HistoryCap)
  <2>1. Append(h, line) \in Seq(Seq(ProperCells)) /\ Len(Append(h, line)) = Len(h) + 1
    BY <1>1, AppendProperties
  <2>. QED
    BY <1>1, <1>3, <2>1 DEF Histories
<1>. QED
  BY <1>2, <1>3

LEMMA ScrollsUp ==
    ASSUME NEW rows \in Pos, NEW cols \in Pos, NEW s \in Screens(rows, cols)
    PROVE  /\ ScrolledUp(s) \in Screens(rows, cols)
           /\ s.alt => StaysBelow(ScrolledUp(s), s, s.bottom, rows)
<1>1. /\ s.rows = rows /\ s.cols = cols /\ s.top \in 0 .. rows - 1 /\ s.bottom \in 0 .. rows - 1
      /\ s.bottom \in Nat /\ s.bottom + 1 \in Nat /\ s.primary \in Pages(rows, cols)
      /\ s.history \in Histories
  BY DEF Screens
<1>2. CASE s.top > s.bottom
  BY <1>2 DEF ScrolledUp, StaysBelow
<1>3. CASE ~(s.top > s.bottom) /\ s.alt
  <2>1. PICK out \in 0 .. rows - 1, in \in Nat : out = s.top /\ in = s.bottom /\ out <= in
    BY <1>1, <1>3
  <2>2. ScrolledUp(s) = Moved(s, out, in)
    BY <1>3, <2>1 DEF ScrolledUp
  <2>3. /\ Moved(s, out, in) \in Screens(rows, cols)
        /\ StaysBelow(Moved(s, out, in), s, in, rows)
    BY <2>1, MovedLine
  <2>. QED
    BY <2>1, <2>2, <2>3
<1>4. CASE ~(s.top > s.bottom) /\ ~s.alt /\ ~(s.top = 0 /\ s.bottom = s.rows - 1)
  <2>1. PICK out \in 0 .. rows - 1, in \in Nat : out = s.top /\ in = s.bottom + 1
    BY <1>1
  <2>2. ScrolledUp(s) = Moved(s, out, in)
    BY <1>4, <2>1 DEF ScrolledUp
  <2>. QED
    BY <1>4, <2>2, MovedLine
<1>5. CASE ~(s.top > s.bottom) /\ ~s.alt /\ s.top = 0 /\ s.bottom = s.rows - 1
  <2>1. Blanks(cols) \in Lines(cols)
    BY BlankLines
  <2>2. PICK page \in Pages(rows, cols) : page = s.primary
    BY <1>1
  <2>3. /\ Append(Tail(page), Blanks(cols)) \in Pages(rows, cols)
        /\ Head(page) \in Lines(cols)
    BY <2>1, ShiftedRow DEF Pages
  <2>4. Head(page) \in Seq(ProperCells)
    BY <2>3, SeqOfRow DEF Lines
  <2>5. PICK h \in Histories :
           h = IF HistoryCap = 0 THEN s.history
               ELSE Append(IF Len(s.history) >= HistoryCap THEN Tail(s.history) ELSE s.history,
                           Head(page))
    BY <1>1, <2>4, HistoryGrows
  <2>6. PICK p \in Pages(rows, cols) : p = Append(Tail(page), Blanks(cols))
    BY <2>3
  <2>7. ScrolledUp(s) = [s EXCEPT !.primary = p, !.history = h]
    BY <1>1, <1>5, <2>2, <2>5, <2>6 DEF ScrolledUp
  <2>. QED
    BY <1>5, <2>7 DEF Screens
<1>. QED
  BY <1>2, <1>3, <1>4, <1>5

\* The sequences that move lines, and those of them that move lines of the region only.
LEMMA LinesMove ==
    ASSUME NEW rows \in Pos, NEW cols \in Pos, NEW s \in Screens(rows, cols)
    PROVE  /\ LineFed(s) \in Screens(rows, cols)
           /\ ReverseIndexed(s) \in Screens(rows, cols)
           /\ ScrolledDown(s) \in Screens(rows, cols)
           /\ LineInserted(s) \in Screens(rows, cols)
           /\ LineDeleted(s) \in Screens(rows, cols)
           /\ s.top <= s.bottom =>
                /\ StaysBelow(ReverseIndexed(s), s, s.bottom, rows)
                /\ StaysBelow(ScrolledDown(s), s, s.bottom, rows)
                /\ StaysBelow(LineInserted(s), s, s.bottom, rows)
                /\ StaysBelow(LineDeleted(s), s, s.bottom, rows)
                /\ s.alt => StaysBelow(LineFed(s), s, s.bottom, rows)
<1>. DEFINE Set == Screens(rows, cols)
            Stays(t) == StaysBelow(t, s, s.bottom, rows)
<1>1. /\ s.rows = rows /\ s.row \in 0 .. rows - 1 /\ s.top \in 0 .. rows - 1
      /\ s.bottom \in 0 .. rows - 1
  BY DEF Screens
<1>2. PICK u \in Set : u = Unwrapped(s)
  BY Moves
<1>3. /\ u.rows = rows /\ u.row = s.row /\ u.top = s.top /\ u.bottom = s.bottom
      /\ \A r : Line(u, r) = Line(s, r)
  BY <1>2 DEF Unwrapped, Screens, Line, Page
<1>4. ASSUME NEW r \in 0 .. rows - 1, NEW t, t = [s EXCEPT !.row = r]
      PROVE  t \in Set /\ Stays(t)
  BY <1>4 DEF Screens, StaysBelow, Line, Page
<1>5. LineFed(s) \in Set /\ (s.alt => Stays(LineFed(s)))
  <2>1. CASE s.row = s.bottom
    BY <2>1, ScrollsUp DEF LineFed
  <2>2. CASE s.row # s.bottom /\ s.row + 1 < s.rows
    <3>1. PICK r \in 0 .. rows - 1 : r = s.row + 1
      BY <1>1, <2>2
    <3>2. PICK t : t = [s EXCEPT !.row = r]
      OBVIOUS
    <3>3. LineFed(s) = t
      BY <2>2, <3>1, <3>2 DEF LineFed, Screens
    <3>. QED
      BY <1>4, <3>2, <3>3
  <2>3. CASE s.row # s.bottom /\ ~(s.row + 1 < s.rows)
    BY <2>3 DEF LineFed, StaysBelow
  <2>. QED
    BY <2>1, <2>2, <2>3
<1>6. ReverseIndexed(s) \in Set /\ (s.top <= s.bottom => Stays(ReverseIndexed(s)))
  <2>1. CASE s.row = s.top
    BY <1>1, <2>1, PushedLine DEF ReverseIndexed
  <2>2. CASE s.row # s.top /\ s.row > 0
    <3>1. PICK r \in 0 .. rows - 1 : r = s.row - 1
      BY <1>1, <2>2
    <3>2. PICK t : t = [s EXCEPT !.row = r]
      OBVIOUS
    <3>3. ReverseIndexed(s) = t
      BY <2>2, <3>1, <3>2 DEF ReverseIndexed, Screens
    <3>. QED
      BY <1>4, <3>2, <3>3
  <2>3. CASE s.row # s.top /\ ~(s.row > 0)
    BY <2>3 DEF ReverseIndexed, StaysBelow
  <2>. QED
    BY <2>1, <2>2, <2>3
<1>7. ASSUME NEW at \in 0 .. rows - 1
      PROVE  PushedDown(u, at) \in Set /\ (at <= s.bottom => Stays(PushedDown(u, at)))
  BY <1>3, PushedLine DEF StaysBelow
<1>8. ScrolledDown(s) \in Set /\ (s.top <= s.bottom => Stays(ScrolledDown(s)))
  <2>1. ScrolledDown(s) = PushedDown(u, s.top)
    BY <1>2 DEF ScrolledDown
  <2>. QED
    BY <1>1, <1>7, <2>1
<1>9. LineInserted(s) \in Set /\ Stays(LineInserted(s))
  <2>1. LineInserted(s) = IF s.row <= s.bottom THEN PushedDown(u, s.row) ELSE u
    BY <1>2 DEF LineInserted
  <2>. QED
    BY <1>1, <1>3, <1>7, <2>1 DEF StaysBelow
<1>10. LineDeleted(s) \in Set /\ Stays(LineDeleted(s))
  <2>1. LineDeleted(s) = IF s.row <= s.bottom THEN Moved(u, s.row, s.bottom) ELSE u
    BY <1>2 DEF LineDeleted
  <2>2. CASE s.row <= s.bottom
    <3>1. PICK in \in Nat : in = s.bottom
      BY <1>1
    <3>2. Moved(u, s.row, in) \in Set /\ StaysBelow(Moved(u, s.row, in), u, in, rows)
      BY <1>1, <2>2, <3>1, MovedLine
    <3>. QED
      BY <1>3, <2>1, <2>2, <3>1, <3>2 DEF StaysBelow
  <2>. QED
    BY <1>3, <2>1, <2>2 DEF StaysBelow
<1>. QED
  BY <1>5, <1>6, <1>8, <1>9, <1>10

\* The first part of a sequence, and a part of it.
LEMMA FirstOf ==
    ASSUME NEW n \in Nat, NEW X, NEW t \in Seq(X), Len(t) >= n
    PROVE  SubSeq(t, 1, n) \in [1 .. n -> X]
<1>1. \A k \in 1 .. n : t[k] \in X /\ 1 + k - 1 = k
  BY ElementOfSeq, LenProperties
<1>2. PICK u : u = SubSeq(t, 1, n)
  OBVIOUS
<1>3. u \in Seq(X) /\ Len(u) = n
  BY <1>1, <1>2, SubSeqProperties
<1>. QED
  BY <1>2, <1>3, RowOfSeq

LEMMA FirstCells ==
    ASSUME NEW cols \in Nat, NEW t \in Seq(ProperCells), Len(t) >= cols
    PROVE  SubSeq(t, 1, cols) \in Lines(cols)
BY FirstOf DEF Lines

LEMMA PartOf ==
    ASSUME NEW n \in Nat, NEW X, NEW s \in [1 .. n -> X], NEW m \in 0 .. n
    PROVE  SubSeq(s, m + 1, n) \in Seq(X) /\ Len(SubSeq(s, m + 1, n)) = n - m
<1>1. \A k \in m + 1 .. n : s[k] \in X
  OBVIOUS
<1>2. SubSeq(s, m + 1, n) \in Seq(X) /\ Len(SubSeq(s, m + 1, n)) = IF m + 1 <= n THEN n - (m + 1) + 1 ELSE 0
  BY <1>1, SubSeqProperties
<1>. QED
  BY <1>2

LEMMA StartOf ==
    ASSUME NEW n \in Nat, NEW X, NEW s \in [1 .. n -> X], NEW m \in 0 .. n
    PROVE  SubSeq(s, 1, m) \in Seq(X) /\ Len(SubSeq(s, 1, m)) = m
<1>1. \A k \in 1 .. m : s[k] \in X
  OBVIOUS
<1>2. SubSeq(s, 1, m) \in Seq(X) /\ Len(SubSeq(s, 1, m)) = IF 1 <= m THEN m - 1 + 1 ELSE 0
  BY <1>1, SubSeqProperties
<1>. QED
  BY <1>2

PageWith(s, line) == [Page(s) EXCEPT ![s.row + 1] = line]

LEMMA LineSet ==
    ASSUME NEW rows \in Pos, NEW cols \in Pos, NEW s \in Screens(rows, cols),
           NEW line \in Lines(cols)
    PROVE  /\ WithLine(s, line) \in Screens(rows, cols)
           /\ Page(WithLine(s, line)) = PageWith(s, line)
           /\ \A field \in DOMAIN s \ {"primary", "alternate"} : WithLine(s, line)[field] = s[field]
<1>1. PICK page \in Pages(rows, cols) : page = [Page(s) EXCEPT ![s.row + 1] = line]
  BY PageOf DEF Pages
<1>2. WithLine(s, line) = WithPage(s, page)
  BY <1>1 DEF WithLine
<1>3. /\ WithPage(s, page) \in Screens(rows, cols) /\ Page(WithPage(s, page)) = page
      /\ \A field \in DOMAIN s \ {"primary", "alternate"} : WithPage(s, page)[field] = s[field]
  BY PageSet
<1>. QED
  BY <1>1, <1>2, <1>3 DEF PageWith

\* What a character is written as, and the line that it leaves.
Half(ch) == [Blank EXCEPT !.ch = ch, !.w = Width(ch)]

Written(s, ch) == IF Width(ch) = 2 THEN <<Half(ch), Rest>> ELSE <<Half(ch)>>

InsertedLine(s, ch) ==
    SubSeq(SubSeq(Line(s, s.row), 1, s.col) \o Written(s, ch) \o SubSeq(Line(s, s.row), s.col + 1, s.cols),
           1, s.cols)

OverwrittenLine(s, ch) ==
    [i \in 1..s.cols |-> IF i = s.col + 1 THEN Half(ch)
                         ELSE IF i = s.col + 2 /\ Width(ch) = 2 THEN Rest
                         ELSE ClearOrphans(Line(s, s.row), s.col, Width(ch))[i]]

LEMMA MarkChanged ==
    ASSUME NEW c, NEW w, NEW m, NEW cell, cell = [ch |-> c, w |-> w, mark |-> m], NEW x
    PROVE  [cell EXCEPT !.mark = x] = [ch |-> c, w |-> w, mark |-> x]
<1>1. PICK n : n = [cell EXCEPT !.mark = x]
  OBVIOUS
<1>2. n = [i \in DOMAIN cell |-> IF i = "mark" THEN x ELSE cell[i]]
  BY <1>1
<1>. QED
  BY <1>1, <1>2

LEMMA GlyphChanged ==
    ASSUME NEW c, NEW w, NEW m, NEW cell, cell = [ch |-> c, w |-> w, mark |-> m], NEW x, NEW y
    PROVE  [cell EXCEPT !.ch = x, !.w = y] = [ch |-> x, w |-> y, mark |-> m]
<1>1. PICK half : half = [cell EXCEPT !.ch = x]
  OBVIOUS
<1>2. half = [ch |-> x, w |-> w, mark |-> m]
  <2>1. half = [i \in DOMAIN cell |-> IF i = "ch" THEN x ELSE cell[i]]
    BY <1>1
  <2>. QED
    BY <2>1
<1>3. PICK n : n = [half EXCEPT !.w = y]
  OBVIOUS
<1>4. n = [ch |-> x, w |-> y, mark |-> m]
  <2>1. n = [i \in DOMAIN half |-> IF i = "w" THEN y ELSE half[i]]
    BY <1>3
  <2>. QED
    BY <1>2, <2>1
<1>. QED
  BY <1>1, <1>3, <1>4

LEMMA HalfIsCell ==
    ASSUME NEW ch \in Chars
    PROVE  /\ Half(ch) \in ProperCells /\ Half(ch) = [ch |-> ch, w |-> Width(ch), mark |-> FALSE]
           /\ Half(ch).w = Width(ch) /\ Width(ch) \in {1, 2} /\ Half(ch).mark = FALSE
           /\ Half(ch).ch = ch
<1>1. PICK w \in {1, 2} : w = Width(ch)
  BY Widths
<1>2. PICK space, no : space = Space /\ no = FALSE /\ Blank = [ch |-> space, w |-> 1, mark |-> no]
  BY BlankIs
<1>3. Half(ch) = [ch |-> ch, w |-> w, mark |-> no]
  <2>1. PICK blank : blank = Blank
    OBVIOUS
  <2>2. Half(ch) = [blank EXCEPT !.ch = ch, !.w = w]
    BY <1>1, <2>1 DEF Half
  <2>. QED
    BY <1>2, <2>1, <2>2, GlyphChanged
<1>4. w \in 0 .. 2
  OBVIOUS
<1>5. [ch |-> ch, w |-> w, mark |-> FALSE] \in ProperCells
  BY <1>1, <1>4, CellOf
<1>6. Half(ch) = [ch |-> ch, w |-> w, mark |-> FALSE]
  BY <1>2, <1>3
<1>7. Half(ch) \in ProperCells
  BY <1>5, <1>6
<1>8. Half(ch).w = w /\ Half(ch).mark = FALSE /\ Half(ch).ch = ch
  BY <1>6
<1>. QED
  BY <1>1, <1>6, <1>7, <1>8

LEMMA OneOrTwo ==
    ASSUME NEW X, NEW a \in X, NEW b \in X
    PROVE  <<a, b>> \in Seq(X) /\ Len(<<a, b>>) \in Nat /\ <<a>> \in Seq(X) /\ Len(<<a>>) \in Nat
OBVIOUS

IsAsLong(t, n, X) == t \in Seq(X) /\ Len(t) >= n

\* Two parts of a row with something between them are at least as long as the row.
LEMMA PartsFill ==
    ASSUME NEW n \in Nat, NEW c \in 0 .. n, NEW X, NEW a \in Seq(X), Len(a) = c,
           NEW y \in Seq(X), NEW z \in Seq(X), Len(z) = n - c
    PROVE  IsAsLong(a \o y \o z, n, X)
<1>1. PICK ay \in Seq(X) : ay = a \o y /\ Len(ay) = c + Len(y)
  BY ConcatProperties
<1>2. PICK t \in Seq(X) : t = ay \o z /\ Len(t) = Len(ay) + Len(z)
  BY ConcatProperties
<1>3. Len(y) \in Nat
  BY LenProperties
<1>4. Len(t) >= n
  BY <1>1, <1>2, <1>3
<1>. QED
  BY <1>1, <1>2, <1>4 DEF IsAsLong

LEMMA InsertedIsLine ==
    ASSUME NEW rows \in Pos, NEW cols \in Pos, NEW s \in Screens(rows, cols),
           NEW ch \in Chars
    PROVE  InsertedLine(s, ch) \in Lines(cols)
<1>1. s.cols = cols /\ s.row \in 0 .. rows - 1
  BY DEF Screens
<1>2. PICK c \in 0 .. cols : c = s.col
  <2>1. s.col \in 0 .. cols - 1
    BY DEF Screens
  <2>2. PICK c \in 0 .. cols - 1 : c = s.col
    BY <2>1
  <2>3. c \in 0 .. cols
    OBVIOUS
  <2>. QED
    BY <2>2, <2>3
<1>3. PICK line \in [1 .. cols -> ProperCells] : line = Line(s, s.row)
  BY <1>1, LineOf DEF Lines
<1>. cols \in Nat
  OBVIOUS
<1>4. PICK a \in Seq(ProperCells) : a = SubSeq(line, 1, c) /\ Len(a) = c
  <2>1. SubSeq(line, 1, c) \in Seq(ProperCells) /\ Len(SubSeq(line, 1, c)) = c
    BY StartOf, SMTT(30)
  <2>. QED
    BY <2>1, Zenon
<1>5. PICK z \in Seq(ProperCells) : z = SubSeq(line, c + 1, cols) /\ Len(z) = cols - c
  <2>1. SubSeq(line, c + 1, cols) \in Seq(ProperCells) /\ Len(SubSeq(line, c + 1, cols)) = cols - c
    BY PartOf, SMTT(30)
  <2>. QED
    BY <2>1, Zenon
<1>6. PICK h \in ProperCells : h = Half(ch)
  BY HalfIsCell
<1>7. PICK r \in ProperCells : r = Rest
  BY BlankCells
<1>8. PICK y \in Seq(ProperCells) : y = Written(s, ch)
  BY <1>6, <1>7, OneOrTwo DEF Written
<1>9. PICK t \in Seq(ProperCells) : t = a \o y \o z /\ Len(t) >= cols
  <2>1. IsAsLong(a \o y \o z, cols, ProperCells)
    BY <1>4, <1>5, PartsFill
  <2>. QED
    BY <2>1 DEF IsAsLong
<1>10. InsertedLine(s, ch) = SubSeq(t, 1, cols)
  BY <1>1, <1>2, <1>3, <1>4, <1>5, <1>8, <1>9 DEF InsertedLine
<1>. QED
  BY <1>9, <1>10, FirstCells

LEMMA OverwrittenIsLine ==
    ASSUME NEW rows \in Pos, NEW cols \in Pos, NEW s \in Screens(rows, cols),
           NEW ch \in Chars
    PROVE  OverwrittenLine(s, ch) \in Lines(cols)
<1>1. s.cols = cols /\ s.row \in 0 .. rows - 1
  BY DEF Screens
<1>2. PICK line \in [1 .. cols -> ProperCells] : line = Line(s, s.row)
  BY <1>1, LineOf DEF Lines
<1>3. ClearOrphans(line, s.col, Width(ch)) \in [1 .. cols -> ProperCells]
  BY BlankCells DEF ClearOrphans
<1>. QED
  BY <1>1, <1>2, <1>3, BlankCells, HalfIsCell DEF OverwrittenLine, Lines

LEMMA Places ==
    ASSUME NEW rows \in Pos, NEW cols \in Pos, NEW s \in Screens(rows, cols),
           NEW ch \in Chars
    PROVE  /\ Placed(s, ch) \in Screens(rows, cols)
           /\ Page(Placed(s, ch)) =
                 PageWith(s, IF s.insert THEN InsertedLine(s, ch) ELSE OverwrittenLine(s, ch))
<1>1. s.cols = cols /\ s.col \in 0 .. cols - 1
  BY DEF Screens
<1>2. PICK new \in Lines(cols) : new = IF s.insert THEN InsertedLine(s, ch) ELSE OverwrittenLine(s, ch)
  BY InsertedIsLine, OverwrittenIsLine
<1>3. PICK t \in Screens(rows, cols) : t = WithLine(s, new) /\ Page(t) = PageWith(s, new)
  BY LineSet
<1>4. PICK c \in 0 .. cols - 1 : c = Least(s.col + Width(ch), s.cols - 1)
  <2>1. PICK w \in {1, 2}, x \in 0 .. cols - 1 : w = Width(ch) /\ x = s.col
    BY <1>1, HalfIsCell
  <2>2. x + w \in Nat
    OBVIOUS
  <2>. QED
    BY <1>1, <2>1, <2>2, LeastOf
<1>5. PICK b \in BOOLEAN : b = (s.col + Width(ch) >= s.cols)
  <2>1. CASE s.col + Width(ch) >= s.cols
    <3>1. TRUE = (s.col + Width(ch) >= s.cols)
      BY <2>1
    <3>. QED
      BY <3>1, Zenon
  <2>2. CASE ~(s.col + Width(ch) >= s.cols)
    <3>1. FALSE = (s.col + Width(ch) >= s.cols)
      BY <2>2
    <3>. QED
      BY <3>1, Zenon
  <2>. QED
    BY <2>1, <2>2
<1>6. PICK l \in LastShown : l = <<ch>>
  BY DEF LastShown
<1>7. Placed(s, ch) = [t EXCEPT !.last = l, !.col = c, !.wrap = b]
  BY <1>2, <1>3, <1>4, <1>5, <1>6
     DEF Placed, InsertedLine, OverwrittenLine, Half, Written
<1>8. Placed(s, ch) \in Screens(rows, cols) /\ Page(Placed(s, ch)) = Page(t)
  BY <1>7 DEF Screens, Page
<1>. QED
  BY <1>2, <1>3, <1>8

LEMMA MarkedCell ==
    ASSUME NEW cell \in ProperCells
    PROVE  /\ [cell EXCEPT !.mark = TRUE] \in ProperCells
           /\ [cell EXCEPT !.mark = TRUE] = [ch |-> cell.ch, w |-> cell.w, mark |-> TRUE]
           /\ [cell EXCEPT !.mark = TRUE].w = cell.w
<1>1. PICK ch \in Chars, w \in 0..2, mark \in BOOLEAN :
         cell = [ch |-> ch, w |-> w, mark |-> mark] /\ (w = Width(ch) \/ (w = 0 /\ ch = Space))
  BY CellParts
<1>2. [cell EXCEPT !.mark = TRUE] = [ch |-> ch, w |-> w, mark |-> TRUE]
  <2>1. PICK yes : yes = TRUE
    OBVIOUS
  <2>2. [cell EXCEPT !.mark = yes] = [ch |-> ch, w |-> w, mark |-> yes]
    BY <1>1, MarkChanged
  <2>. QED
    BY <2>1, <2>2
<1>3. [ch |-> ch, w |-> w, mark |-> TRUE] \in ProperCells
  BY <1>1, CellOf
<1>. QED
  BY <1>1, <1>2, <1>3

LEMMA RowsWritten ==
    ASSUME NEW rows \in Pos, NEW cols \in Pos, NEW s \in Screens(rows, cols)
    PROVE  /\ \A ch \in Chars : Printed(s, ch) \in Screens(rows, cols)
           /\ Marked(s) \in Screens(rows, cols)
           /\ Repeated(s) \in Screens(rows, cols)
<1>. DEFINE Set == Screens(rows, cols)
<1>1. ASSUME NEW t \in Set PROVE Wrapped(t) \in Set
  <2>1. PICK c \in 0 .. cols - 1 : c = 0
    OBVIOUS
  <2>2. PICK u : u = [t EXCEPT !.wrap = FALSE, !.col = c]
    OBVIOUS
  <2>3. u \in Set
    BY <2>2 DEF Screens
  <2>4. Wrapped(t) = LineFed(u)
    BY <2>1, <2>2 DEF Wrapped, Unwrapped, Screens
  <2>. QED
    BY <2>3, <2>4, LinesMove
<1>2. ASSUME NEW t \in Set, NEW ch \in Chars PROVE Printed(t, ch) \in Set
  <2>1. PICK here \in Set : here = IF t.wrap THEN Wrapped(t) ELSE t
    BY <1>1
  <2>2. PICK there \in Set :
           there = IF Width(ch) = 2 /\ here.col + 1 >= here.cols THEN Wrapped(here) ELSE here
    BY <1>1
  <2>3. Printed(t, ch) = Placed(there, ch)
    BY <2>1, <2>2 DEF Printed
  <2>. QED
    BY <2>3, Places
<1>3. Marked(s) \in Set
  <2>1. /\ s.cols = cols /\ s.row \in 0 .. rows - 1 /\ s.col \in 0 .. cols - 1
        /\ s.wrap \in BOOLEAN
    BY DEF Screens
  <2>2. PICK start \in 0 .. cols : start = IF s.wrap THEN s.cols ELSE s.col
    BY <2>1
  <2>3. PICK line \in [1 .. cols -> ProperCells] : line = Line(s, s.row)
    BY <2>1, LineOf DEF Lines
  <2>4. CASE start = 0
    BY <2>2, <2>4 DEF Marked
  <2>5. CASE start # 0
    <3>1. PICK at \in 1 .. cols : at = IF start > 1 /\ line[start].w = 0 THEN start - 1 ELSE start
      BY <2>5
    <3>2. PICK cell \in ProperCells : cell = line[at]
      OBVIOUS
    <3>3. [cell EXCEPT !.mark = TRUE] \in ProperCells
      BY MarkedCell
    <3>4. PICK new \in Lines(cols) : new = [line EXCEPT ![at].mark = TRUE]
      BY <3>2, <3>3 DEF Lines
    <3>5. Marked(s) = WithLine(s, new)
      BY <2>2, <2>3, <2>5, <3>1, <3>4 DEF Marked
    <3>. QED
      BY <3>5, LineSet
  <2>. QED
    BY <2>4, <2>5
<1>4. Repeated(s) \in Set
  <2>1. Unwrapped(s) \in Set
    BY Moves
  <2>2. CASE s.last = <<>>
    BY <2>1, <2>2 DEF Repeated
  <2>3. CASE s.last # <<>>
    <3>1. s.last[1] \in Chars
      BY <2>3 DEF Screens, LastShown
    <3>. QED
      BY <1>2, <2>1, <2>3, <3>1 DEF Repeated
  <2>. QED
    BY <2>2, <2>3
<1>. QED
  BY <1>2, <1>3, <1>4

LEMMA Erases ==
    ASSUME NEW rows \in Pos, NEW cols \in Pos, NEW s \in Screens(rows, cols)
    PROVE  /\ \A from, to : Erased(s, from, to) \in Screens(rows, cols)
           /\ \A from, to : RowsErased(s, from, to) \in Screens(rows, cols)
           /\ ErasedBelow(s) \in Screens(rows, cols)
           /\ ErasedAbove(s) \in Screens(rows, cols)
           /\ ErasedAll(s) \in Screens(rows, cols)
<1>. DEFINE Set == Screens(rows, cols)
<1>1. ASSUME NEW t \in Set, NEW from, NEW to PROVE Erased(t, from, to) \in Set
  <2>1. t.cols = cols /\ t.row \in 0 .. rows - 1
    BY DEF Screens
  <2>2. Line(t, t.row) \in Lines(cols)
    BY <2>1, LineOf
  <2>3. PICK new \in Lines(cols) :
           new = [i \in 1..t.cols |-> IF i - 1 \in from..to THEN Blank ELSE Line(t, t.row)[i]]
    BY <2>1, <2>2, BlankCells DEF Lines
  <2>4. Erased(t, from, to) = WithLine(Unwrapped(t), new)
    BY <2>3 DEF Erased
  <2>5. Unwrapped(t) \in Set
    BY Moves
  <2>. QED
    BY <2>4, <2>5, LineSet
<1>2. ASSUME NEW t \in Set, NEW from, NEW to PROVE RowsErased(t, from, to) \in Set
  <2>1. t.cols = cols /\ t.rows = rows
    BY DEF Screens
  <2>2. PICK page \in Pages(rows, cols) :
           page = [i \in 1..t.rows |-> IF i - 1 \in from..to THEN Blanks(t.cols) ELSE Page(t)[i]]
    <3>1. PICK p \in Pages(rows, cols) : p = Page(t)
      BY PageOf
    <3>2. PICK b \in Lines(cols) : b = Blanks(cols)
      BY BlankLines
    <3>. QED
      BY <2>1, <3>1, <3>2 DEF Pages
  <2>3. RowsErased(t, from, to) = WithPage(Unwrapped(t), page)
    BY <2>2 DEF RowsErased
  <2>4. Unwrapped(t) \in Set
    BY Moves
  <2>. QED
    BY <2>3, <2>4, PageSet
<1>. HIDE DEF Set
<1>3. ErasedBelow(s) \in Set
  <2>1. s \in Set
    BY DEF Set
  <2>. QED
    BY <1>1, <1>2, <2>1 DEF ErasedBelow
<1>4. ErasedAbove(s) \in Set
  <2>1. s \in Set
    BY DEF Set
  <2>. QED
    BY <1>1, <1>2, <2>1 DEF ErasedAbove
<1>5. ErasedAll(s) \in Set
  <2>1. s \in Set
    BY DEF Set
  <2>. QED
    BY <1>2, <2>1 DEF ErasedAll
<1>. QED
  BY <1>1, <1>2, <1>3, <1>4, <1>5 DEF Set

LEMMA CellsShift ==
    ASSUME NEW rows \in Pos, NEW cols \in Pos, NEW s \in Screens(rows, cols)
    PROVE  CellInserted(s) \in Screens(rows, cols) /\ CellDeleted(s) \in Screens(rows, cols)
<1>1. s.cols = cols /\ s.row \in 0 .. rows - 1 /\ s.col \in 0 .. cols - 1
  BY DEF Screens
<1>2. PICK line \in [1 .. cols -> ProperCells] : line = Line(s, s.row)
  BY <1>1, LineOf DEF Lines
<1>3. PICK blank \in ProperCells : blank = Blank
  BY BlankCells
<1>4. PICK at \in 1 .. cols : at = s.col + 1
  BY <1>1
<1>5. Unwrapped(s) \in Screens(rows, cols)
  BY Moves
<1>6. CellInserted(s) \in Screens(rows, cols)
  <2>1. at \in 1 .. cols + 1
    OBVIOUS
  <2>2. IsLonger(InsertAt(line, at, blank), line, cols, at, blank, ProperCells)
    BY <2>1, Longer
  <2>3. PICK m \in Nat : m = cols + 1
    OBVIOUS
  <2>4. PICK t \in [1 .. m -> ProperCells] : t = InsertAt(line, at, blank)
    BY <2>2, <2>3 DEF IsLonger
  <2>5. t \in Seq(ProperCells) /\ Len(t) = m /\ m >= cols
    BY <2>3, SeqOfRow
  <2>6. PICK new \in Lines(cols) : new = SubSeq(t, 1, cols)
    BY <2>5, FirstCells
  <2>7. CellInserted(s) = WithLine(Unwrapped(s), new)
    BY <1>1, <1>2, <1>3, <1>4, <2>4, <2>6 DEF CellInserted
  <2>. QED
    BY <1>5, <2>7, LineSet
<1>7. CellDeleted(s) \in Screens(rows, cols)
  <2>1. IsShorter(RemoveAt(line, at), line, cols, at, ProperCells)
    BY Shorter
  <2>2. PICK m \in Nat : m = cols - 1
    OBVIOUS
  <2>3. PICK t \in [1 .. m -> ProperCells] : t = RemoveAt(line, at)
    BY <2>1, <2>2 DEF IsShorter
  <2>4. t \in Seq(ProperCells) /\ Len(t) = m
    BY SeqOfRow
  <2>5. Append(t, blank) \in Seq(ProperCells) /\ Len(Append(t, blank)) = cols
    BY <2>2, <2>4, AppendProperties
  <2>6. PICK new \in Lines(cols) : new = Append(t, blank)
    BY <2>5, RowOfSeq DEF Lines
  <2>7. CellDeleted(s) = WithLine(Unwrapped(s), new)
    BY <1>2, <1>3, <1>4, <2>3, <2>6 DEF CellDeleted
  <2>. QED
    BY <1>5, <2>7, LineSet
<1>. QED
  BY <1>6, <1>7

\* The modes that a program enters and leaves the alternate page with.
PageModes == {47, 1047, 1049}

LEMMA ModesChange ==
    ASSUME NEW rows \in Pos, NEW cols \in Pos, NEW s \in Screens(rows, cols)
    PROVE  /\ \A on \in BOOLEAN : InsertMode(s, on) \in Screens(rows, cols)
           /\ \A mode \in PageModes : /\ Alternate(s, mode) \in Screens(rows, cols)
                                             /\ Primary(s, mode) \in Screens(rows, cols)
           /\ ResetHard(s) \in Screens(rows, cols)
           /\ ResetSoft(s) \in Screens(rows, cols)
<1>. DEFINE Set == Screens(rows, cols)
<1>1. ASSUME NEW on \in BOOLEAN PROVE InsertMode(s, on) \in Set
  BY DEF InsertMode, Unwrapped, Screens
<1>. DEFINE Kept(t)    == Entered(t, FALSE)
            Emptied(t) == Entered(t, TRUE)
<1>2. ASSUME NEW t \in Set PROVE Kept(t) \in Set /\ Emptied(t) \in Set
  <2>1. PICK yes \in BOOLEAN : yes = TRUE
    OBVIOUS
  <2>2. PICK r \in 0 .. rows - 1, c \in 0 .. cols - 1 : r = 0 /\ c = 0
    OBVIOUS
  <2>3. PICK page \in Pages(rows, cols) : page = BlankPage(rows, cols)
    BY BlankLines
  <2>4. t.rows = rows /\ t.cols = cols
    BY FieldSet
  <2>5. PICK t1 \in Set : t1 = [t EXCEPT !.alt = yes]
    BY FieldSet
  <2>6. PICK t2 \in Set : t2 = [t1 EXCEPT !.alternate = page]
    BY DEF Screens
  <2>7. PICK t3 \in Set : t3 = [t2 EXCEPT !.row = r]
    BY FieldSet
  <2>8. PICK t4 \in Set : t4 = [t3 EXCEPT !.col = c]
    BY FieldSet
  <2>9. Kept(t) = t1
    BY <2>1, <2>5 DEF Entered
  <2>10. Emptied(t) = [t EXCEPT !.alt = yes, !.alternate = page, !.row = r, !.col = c]
    BY <2>1, <2>2, <2>3, <2>4 DEF Entered
  <2>11. Emptied(t) = t4
    <3>. HIDE DEF Set, Emptied
    <3>. QED
      BY <2>5, <2>6, <2>7, <2>8, <2>10
  <2>. HIDE DEF Set, Kept, Emptied
  <2>. QED
    BY <2>9, <2>11
<1>3. ASSUME NEW t \in Set PROVE Left(t) \in Set
  BY DEF Left, Screens
<1>4. ASSUME NEW mode \in PageModes
      PROVE  Alternate(s, mode) \in Set /\ Primary(s, mode) \in Set
  <2>1. PICK u \in Set : u = Unwrapped(s)
    BY Moves
  <2>2. Saved(u) \in Set /\ ErasedAll(u) \in Set
    BY Moves, Erases
  <2>3. Restored(Left(ErasedAll(u))) \in Set
    BY <1>3, <2>2, Moves
  <2>4. /\ Kept(u) \in Set /\ Emptied(u) \in Set
        /\ Emptied(Saved(u)) \in Set /\ Left(u) \in Set /\ Left(ErasedAll(u)) \in Set
    <3>. HIDE DEF Kept, Emptied, Set
    <3>. QED
      BY <1>2, <1>3, <2>1, <2>2
  <2>5. CASE mode = 47
    <3>1. Alternate(s, mode) = Kept(u) /\ Primary(s, mode) = Left(u)
      BY <2>1, <2>5 DEF Alternate, Primary
    <3>. HIDE DEF Kept, Emptied, Set
    <3>. QED
      BY <2>4, <3>1
  <2>6. CASE mode = 1047
    <3>1. Alternate(s, mode) = Emptied(u) /\ Primary(s, mode) = Left(ErasedAll(u))
      BY <2>1, <2>6 DEF Alternate, Primary
    <3>. HIDE DEF Kept, Emptied, Set
    <3>. QED
      BY <2>4, <3>1
  <2>7. CASE mode = 1049
    <3>1. /\ Alternate(s, mode) = Emptied(Saved(u))
          /\ Primary(s, mode) = Restored(Left(ErasedAll(u)))
      BY <2>1, <2>7 DEF Alternate, Primary
    <3>. HIDE DEF Kept, Emptied, Set
    <3>. QED
      BY <2>3, <2>4, <3>1
  <2>. QED
    BY <2>5, <2>6, <2>7 DEF PageModes
<1>5. PICK z \in 0 .. rows - 1, c \in 0 .. cols - 1, b \in 0 .. rows - 1 :
         z = 0 /\ c = 0 /\ b = rows - 1
  OBVIOUS
<1>6. s.rows = rows /\ s.wrap \in BOOLEAN /\ <<>> \in SavedAt
  BY DEF Screens, SavedAt
<1>7. ResetHard(s) \in Set
  <2>1. PICK e \in Set : e = ErasedAll(s)
    BY Erases
  <2>2. PICK no \in BOOLEAN, none \in SavedAt : no = FALSE /\ none = <<>>
    BY <1>6
  <2>3. PICK e1 \in Set : e1 = [e EXCEPT !.wrap = s.wrap]
    BY <1>6, FieldSet
  <2>4. PICK e2 \in Set : e2 = [e1 EXCEPT !.row = z]
    BY FieldSet
  <2>5. PICK e3 \in Set : e3 = [e2 EXCEPT !.col = c]
    BY FieldSet
  <2>6. PICK e4 \in Set : e4 = [e3 EXCEPT !.top = z]
    BY FieldSet
  <2>7. PICK e5 \in Set : e5 = [e4 EXCEPT !.bottom = b]
    BY FieldSet
  <2>8. PICK e6 \in Set : e6 = [e5 EXCEPT !.alt = no]
    BY FieldSet
  <2>9. PICK e7 \in Set : e7 = [e6 EXCEPT !.saved = none]
    BY FieldSet
  <2>10. ResetHard(s) = [e1 EXCEPT !.row = z, !.col = c, !.top = z, !.bottom = b,
                                   !.alt = no, !.saved = none]
    BY <1>5, <1>6, <2>1, <2>2, <2>3 DEF ResetHard
  <2>. HIDE DEF Set
  <2>. QED
    BY <2>4, <2>5, <2>6, <2>7, <2>8, <2>9, <2>10
<1>8. ResetSoft(s) \in Set
  <2>1. PICK u \in Set : u = Unwrapped(s)
    BY Moves
  <2>2. PICK no \in BOOLEAN, none \in SavedAt : no = FALSE /\ none = <<>>
    BY <1>6
  <2>3. PICK u1 \in Set : u1 = [u EXCEPT !.insert = no]
    BY FieldSet
  <2>4. PICK u2 \in Set : u2 = [u1 EXCEPT !.saved = none]
    BY FieldSet
  <2>5. PICK u3 \in Set : u3 = [u2 EXCEPT !.top = z]
    BY FieldSet
  <2>6. PICK u4 \in Set : u4 = [u3 EXCEPT !.bottom = b]
    BY FieldSet
  <2>7. ResetSoft(s) = [u EXCEPT !.insert = no, !.saved = none, !.top = z, !.bottom = b]
    BY <1>5, <1>6, <2>1, <2>2 DEF ResetSoft
  <2>. HIDE DEF Set
  <2>. QED
    BY <2>3, <2>4, <2>5, <2>6, <2>7
<1>. QED
  BY <1>1, <1>4, <1>7, <1>8

LEMMA Fits ==
    ASSUME NEW rows \in Pos, NEW cols \in Pos, NEW page \in Pages(rows, cols),
           NEW r \in Pos, NEW c \in Pos
    PROVE  Fitted(page, r, c) \in Pages(r, c)
<1>1. page \in Seq(Lines(cols)) /\ Len(page) = rows
  BY SeqOfRow DEF Pages
<1>2. page[1] \in Lines(cols)
  BY DEF Pages
<1>3. Len(page[1]) = cols
  BY <1>2, SeqOfRow DEF Lines
<1>4. ASSUME NEW i \in 1 .. r, NEW j \in 1 .. c, i <= rows, j <= cols PROVE page[i][j] \in ProperCells
  <2>1. i \in 1 .. rows /\ j \in 1 .. cols
    BY <1>4
  <2>. QED
    BY <2>1 DEF Pages, Lines
<1>5. PICK blank \in ProperCells : blank = Blank
  BY BlankCells
<1>6. Fitted(page, r, c) = [i \in 1 .. r |-> [j \in 1 .. c |->
         IF i <= rows /\ j <= cols THEN page[i][j] ELSE blank]]
  BY <1>1, <1>3, <1>5 DEF Fitted
<1>. QED
  BY <1>4, <1>6 DEF Pages, Lines

\* The screens whose size, pages, cursor and region are taken from sets given one by one.
SizedScreens(R, C, P, A, Row, Col, T, B) ==
    [rows : R, cols : C, primary : P, alternate : A, alt : BOOLEAN,
     history : Histories, row : Row, col : Col, wrap : BOOLEAN, top : T, bottom : B,
     insert : BOOLEAN, saved : SavedAt, last : LastShown]

LEMMA SizeSet ==
    ASSUME NEW R, NEW C, NEW P, NEW A, NEW Row, NEW Col, NEW T, NEW B,
           NEW s \in SizedScreens(R, C, P, A, Row, Col, T, B), NEW X, NEW v \in X
    PROVE  /\ [s EXCEPT !.rows = v] \in SizedScreens(X, C, P, A, Row, Col, T, B)
           /\ [s EXCEPT !.cols = v] \in SizedScreens(R, X, P, A, Row, Col, T, B)
           /\ [s EXCEPT !.primary = v] \in SizedScreens(R, C, X, A, Row, Col, T, B)
           /\ [s EXCEPT !.alternate = v] \in SizedScreens(R, C, P, X, Row, Col, T, B)
           /\ [s EXCEPT !.row = v] \in SizedScreens(R, C, P, A, X, Col, T, B)
           /\ [s EXCEPT !.col = v] \in SizedScreens(R, C, P, A, Row, X, T, B)
           /\ [s EXCEPT !.top = v] \in SizedScreens(R, C, P, A, Row, Col, X, B)
           /\ [s EXCEPT !.bottom = v] \in SizedScreens(R, C, P, A, Row, Col, T, X)
<1>1. [s EXCEPT !.rows = v] \in SizedScreens(X, C, P, A, Row, Col, T, B)
  BY DEF SizedScreens
<1>2. [s EXCEPT !.cols = v] \in SizedScreens(R, X, P, A, Row, Col, T, B)
  BY DEF SizedScreens
<1>3. [s EXCEPT !.primary = v] \in SizedScreens(R, C, X, A, Row, Col, T, B)
  BY DEF SizedScreens
<1>4. [s EXCEPT !.alternate = v] \in SizedScreens(R, C, P, X, Row, Col, T, B)
  BY DEF SizedScreens
<1>5. [s EXCEPT !.row = v] \in SizedScreens(R, C, P, A, X, Col, T, B)
  BY DEF SizedScreens
<1>6. [s EXCEPT !.col = v] \in SizedScreens(R, C, P, A, Row, X, T, B)
  BY DEF SizedScreens
<1>7. [s EXCEPT !.top = v] \in SizedScreens(R, C, P, A, Row, Col, X, B)
  BY DEF SizedScreens
<1>8. [s EXCEPT !.bottom = v] \in SizedScreens(R, C, P, A, Row, Col, T, X)
  BY DEF SizedScreens
<1>. QED
  BY <1>1, <1>2, <1>3, <1>4, <1>5, <1>6, <1>7, <1>8

LEMMA Resizes ==
    ASSUME NEW rows \in Pos, NEW cols \in Pos, NEW s \in Screens(rows, cols),
           NEW r \in Pos, NEW c \in Pos
    PROVE  Resized(s, r, c) \in Screens(r, c)
<1>1. /\ s.rows = rows /\ s.cols = cols /\ s.row \in Nat /\ s.col \in Nat
      /\ s.primary \in Pages(rows, cols) /\ s.alternate \in Pages(rows, cols)
  BY DEF Screens
<1>2. CASE s.rows = r /\ s.cols = c
  BY <1>1, <1>2 DEF Resized
<1>3. CASE ~(s.rows = r /\ s.cols = c)
  <2>1. PICK p \in Pages(r, c), q \in Pages(r, c) :
           p = Fitted(s.primary, r, c) /\ q = Fitted(s.alternate, r, c)
    BY <1>1, Fits
  <2>2. PICK x \in 0 .. r - 1 : x = Least(s.row, r - 1)
    BY <1>1, LeastOf
  <2>3. PICK y \in 0 .. c - 1 : y = Least(s.col, c - 1)
    BY <1>1, LeastOf
  <2>4. PICK z \in 0 .. r - 1, b \in 0 .. r - 1 : z = 0 /\ b = r - 1
    OBVIOUS
  <2>5. Resized(s, r, c) = [s EXCEPT !.rows = r, !.cols = c, !.primary = p, !.alternate = q,
                                     !.row = x, !.col = y, !.top = z, !.bottom = b]
    BY <1>3, <2>1, <2>2, <2>3, <2>4 DEF Resized
  <2>. DEFINE R == 0 .. rows - 1
              C == 0 .. cols - 1
              P == Pages(rows, cols)
              Q == Pages(r, c)
              X == 0 .. r - 1
              Y == 0 .. c - 1
  <2>6. s \in SizedScreens({rows}, {cols}, P, P, R, C, R, R)
    BY DEF Screens, SizedScreens
  <2>7. /\ r \in {r} /\ c \in {c} /\ p \in Q /\ q \in Q
        /\ x \in X /\ y \in Y /\ z \in X /\ b \in X
    OBVIOUS
  <2>8. SizedScreens({r}, {c}, Q, Q, X, Y, X, X) = Screens(r, c)
    BY Zenon DEF Screens, SizedScreens
  <2>. HIDE DEF R, C, P, Q, X, Y
  <2>9. PICK s1 \in SizedScreens({r}, {cols}, P, P, R, C, R, R) : s1 = [s EXCEPT !.rows = r]
    BY <2>6, <2>7, SizeSet
  <2>10. PICK s2 \in SizedScreens({r}, {c}, P, P, R, C, R, R) : s2 = [s1 EXCEPT !.cols = c]
    BY <2>7, SizeSet
  <2>11. PICK s3 \in SizedScreens({r}, {c}, Q, P, R, C, R, R) : s3 = [s2 EXCEPT !.primary = p]
    BY <2>7, SizeSet
  <2>12. PICK s4 \in SizedScreens({r}, {c}, Q, Q, R, C, R, R) : s4 = [s3 EXCEPT !.alternate = q]
    BY <2>7, SizeSet
  <2>13. PICK s5 \in SizedScreens({r}, {c}, Q, Q, X, C, R, R) : s5 = [s4 EXCEPT !.row = x]
    BY <2>7, SizeSet
  <2>14. PICK s6 \in SizedScreens({r}, {c}, Q, Q, X, Y, R, R) : s6 = [s5 EXCEPT !.col = y]
    BY <2>7, SizeSet
  <2>15. PICK s7 \in SizedScreens({r}, {c}, Q, Q, X, Y, X, R) : s7 = [s6 EXCEPT !.top = z]
    BY <2>7, SizeSet
  <2>16. PICK s8 \in SizedScreens({r}, {c}, Q, Q, X, Y, X, X) : s8 = [s7 EXCEPT !.bottom = b]
    BY <2>7, SizeSet
  <2>17. Resized(s, r, c) = s8
    BY <2>5, <2>9, <2>10, <2>11, <2>12, <2>13, <2>14, <2>15, <2>16
  <2>. QED
    BY <2>8, <2>16, <2>17
<1>. QED
  BY <1>2, <1>3

---------------------------------------------
(* The screen is always one of its size, and no line is lost.              *)

\* The invariant: the screen is one of its size.
ScreenIInv == <<g.rows, g.cols>> \in Sizes /\ g \in Screens(g.rows, g.cols)

LEMMA SizesAreNumbers ==
    ASSUME NEW r, NEW c, <<r, c>> \in Sizes PROVE r \in Pos /\ c \in Pos
BY ConstantsAssumption

LEMMA ScreenInvInit == ScreenInit => ScreenIInv
<1>. SUFFICES ASSUME ScreenInit PROVE ScreenIInv
  OBVIOUS
<1>1. PICK dims \in Sizes : g = Fresh(dims[1], dims[2])
  BY DEF ScreenInit
<1>2. dims = <<dims[1], dims[2]>> /\ dims[1] \in Pos /\ dims[2] \in Pos
  BY ConstantsAssumption
<1>3. g \in Screens(dims[1], dims[2])
  BY <1>1, <1>2, FreshScreen
<1>4. g.rows = dims[1] /\ g.cols = dims[2]
  BY <1>3 DEF Screens
<1>. QED
  BY <1>2, <1>3, <1>4 DEF ScreenIInv

LEMMA ScreenInvStep == ScreenIInv /\ [ScreenNext]_screenVars => ScreenIInv'
<1>. SUFFICES ASSUME ScreenIInv, [ScreenNext]_screenVars PROVE ScreenIInv'
  OBVIOUS
<1>1. PICK rows \in Pos, cols \in Pos :
         rows = g.rows /\ cols = g.cols /\ <<rows, cols>> \in Sizes /\ g \in Screens(rows, cols)
  BY SizesAreNumbers DEF ScreenIInv
<1>. DEFINE Set == Screens(rows, cols)
<1>2. ASSUME NEW s, Fed(s), s \in Set PROVE ScreenIInv'
  <2>1. g' = s /\ s.rows = rows /\ s.cols = cols
    BY <1>2 DEF Fed, Screens
  <2>. QED
    BY <1>1, <1>2, <2>1 DEF ScreenIInv
<1>3. g \in Set
  BY <1>1
<1>4. /\ Unwrapped(g) \in Set /\ Returned(g) \in Set /\ BackSpaced(g) \in Set /\ Tabbed(g) \in Set
      /\ Risen(g) \in Set /\ Saved(g) \in Set /\ Restored(g) \in Set
  BY <1>3, Moves
<1>5. CASE Show
  <2>1. " " \in Chars /\ Glyphs \subseteq Chars
    BY DEF Chars
  <2>2. Repeated(g) \in Set /\ \A ch \in Chars : Printed(g, ch) \in Set
    BY <1>3, RowsWritten
  <2>. QED
    BY <1>2, <1>5, <2>1, <2>2, Zenon DEF Show
<1>6. CASE Mark
  BY <1>2, <1>3, <1>6, RowsWritten DEF Mark
<1>7. CASE Control
  <2>1. LineFed(Unwrapped(g)) \in Set
    BY <1>4, LinesMove
  <2>. QED
    BY <1>2, <1>4, <1>7, <2>1, Zenon DEF Control
<1>8. CASE Escape
  <2>1. LineFed(g) \in Set /\ ReverseIndexed(g) \in Set
    BY <1>3, LinesMove
  <2>2. ResetHard(g) \in Set
    BY <1>3, ModesChange
  <2>3. [LineFed(g) EXCEPT !.col = 0] \in Set
    <3>1. PICK t \in Set : t = LineFed(g)
      BY <2>1
    <3>2. PICK c \in 0 .. cols - 1 : c = 0
      OBVIOUS
    <3>3. [t EXCEPT !.col = c] \in Set
      BY DEF Screens
    <3>. QED
      BY <3>1, <3>2, <3>3
  <2>. QED
    BY <1>2, <1>4, <1>8, <2>1, <2>2, <2>3, Zenon DEF Escape
<1>9. CASE Move
  <2>1. ASSUME NEW r \in 0 .. g.rows - 1, NEW c \in 0 .. g.cols - 1 PROVE CursorSet(g, r, c) \in Set
    BY <1>1, <1>3, CursorMoves
  <2>2. Restored(Unwrapped(g)) \in Set /\ Saved(Unwrapped(g)) \in Set
    BY <1>4, Moves
  <2>. QED
    BY <1>2, <1>4, <1>9, <2>1, <2>2, Zenon DEF Move
<1>10. CASE Erase
  <2>1. /\ \A from, to : Erased(g, from, to) \in Set
        /\ ErasedBelow(g) \in Set /\ ErasedAbove(g) \in Set /\ ErasedAll(g) \in Set
    BY <1>3, Erases
  <2>. QED
    BY <1>2, <1>10, <2>1, Zenon DEF Erase
<1>11. CASE Shift
  <2>1. CellInserted(g) \in Set /\ CellDeleted(g) \in Set
    BY <1>3, CellsShift
  <2>2. LineInserted(g) \in Set /\ LineDeleted(g) \in Set
    BY <1>3, LinesMove
  <2>. QED
    BY <1>2, <1>11, <2>1, <2>2, Zenon DEF Shift
<1>12. CASE Scroll
  <2>1. ScrolledUp(Unwrapped(g)) \in Set /\ ScrolledDown(g) \in Set
    BY <1>3, <1>4, ScrollsUp, LinesMove
  <2>2. ASSUME NEW top \in 0 .. g.rows - 1, NEW bottom \in 0 .. g.rows - 1
        PROVE  Region(g, top, bottom) \in Set
    BY <1>1, <1>3, RegionSet
  <2>. QED
    BY <1>2, <1>12, <2>1, <2>2, Zenon DEF Scroll
<1>13. CASE Mode
  <2>1. /\ \A on \in BOOLEAN : InsertMode(g, on) \in Set
        /\ \A mode \in PageModes : Alternate(g, mode) \in Set /\ Primary(g, mode) \in Set
        /\ ResetSoft(g) \in Set
    BY <1>3, ModesChange
  <2>3. \/ \E mode \in PageModes : Fed(Alternate(g, mode)) \/ Fed(Primary(g, mode))
        \/ \E on \in BOOLEAN : Fed(InsertMode(g, on))
        \/ Fed(ResetSoft(g))
    BY <1>13 DEF Mode, PageModes
  <2>4. \A mode \in PageModes : Alternate(g, mode) \in Set /\ Primary(g, mode) \in Set
    BY <2>1
  <2>5. (\A on \in BOOLEAN : InsertMode(g, on) \in Set) /\ ResetSoft(g) \in Set
    BY <2>1
  <2>. QED
    BY <1>2, <2>3, <2>4, <2>5, Zenon
<1>14. CASE Resize
  <2>1. PICK dims \in Sizes : Fed(Resized(g, dims[1], dims[2]))
    BY <1>14 DEF Resize
  <2>2. dims = <<dims[1], dims[2]>> /\ dims[1] \in Pos /\ dims[2] \in Pos
    BY ConstantsAssumption
  <2>3. g' \in Screens(dims[1], dims[2])
    BY <1>3, <2>1, <2>2, Resizes DEF Fed
  <2>4. g'.rows = dims[1] /\ g'.cols = dims[2]
    BY <2>3 DEF Screens
  <2>5. <<g'.rows, g'.cols>> = dims
    BY <2>2, <2>4
  <2>6. g' \in Screens(g'.rows, g'.cols)
    BY <2>3, <2>4
  <2>. QED
    BY <2>5, <2>6 DEF ScreenIInv
<1>15. CASE UNCHANGED screenVars
  BY <1>15 DEF screenVars, ScreenIInv
<1>. QED
  BY <1>5, <1>6, <1>7, <1>8, <1>9, <1>10, <1>11, <1>12, <1>13, <1>14, <1>15 DEF ScreenNext

\* Every reachable screen is one of its size: its pages, its cursor and its region fit it.
THEOREM ScreenInv == ScreenSpec => []ScreenIInv
BY ScreenInvInit, ScreenInvStep, PTL DEF ScreenSpec

LEMMA ScreenIsTyped ==
    ASSUME NEW rows \in Pos, NEW cols \in Pos, <<rows, cols>> \in Sizes,
           g \in Screens(rows, cols)
    PROVE  ScreenTypeOK
<1>1. /\ g.rows = rows /\ g.cols = cols /\ g.primary \in Pages(rows, cols)
      /\ g.alternate \in Pages(rows, cols)
      /\ g.row \in 0 .. rows - 1 /\ g.top \in 0 .. rows - 1 /\ g.bottom \in 0 .. rows - 1
      /\ g.col \in 0 .. cols - 1 /\ g.history \in Histories
      /\ g.alt \in BOOLEAN /\ g.wrap \in BOOLEAN /\ g.insert \in BOOLEAN
  BY DEF Screens
<1>2. ASSUME NEW page \in Pages(rows, cols)
      PROVE  /\ Len(page) = g.rows
             /\ \A i \in DOMAIN page : Len(page[i]) = g.cols /\ \A j \in 1..g.cols : page[i][j] \in Cells
  <2>1. Len(page) = rows /\ DOMAIN page = 1 .. rows
    BY SeqOfRow DEF Pages
  <2>2. ASSUME NEW i \in 1 .. rows
        PROVE  Len(page[i]) = cols /\ \A j \in 1 .. cols : page[i][j] \in Cells
    <3>1. PICK line \in [1 .. cols -> ProperCells] : line = page[i]
      BY DEF Pages, Lines
    <3>2. Len(line) = cols
      BY SeqOfRow
    <3>3. ProperCells \subseteq Cells
      BY DEF ProperCells
    <3>. QED
      BY <3>1, <3>2, <3>3
  <2>. QED
    BY <1>1, <2>1, <2>2
<1>3. \A page \in {g.primary, g.alternate} :
         /\ Len(page) = g.rows
         /\ \A i \in DOMAIN page : Len(page[i]) = g.cols /\ \A j \in 1..g.cols : page[i][j] \in Cells
  BY <1>1, <1>2, Zenon
<1>4. {g.row, g.top, g.bottom} \subseteq 0..g.rows - 1 /\ g.col \in 0..g.cols - 1
  BY <1>1
<1>5. Len(g.history) <= HistoryCap /\ {g.alt, g.wrap, g.insert} \subseteq BOOLEAN
  BY <1>1 DEF Histories
<1>. QED
  BY <1>1, <1>3, <1>4, <1>5 DEF ScreenTypeOK

\* The screen keeps its type.
THEOREM ScreenTypeCorrect == ScreenSpec => []ScreenTypeOK
<1>1. ScreenIInv => ScreenTypeOK
  BY SizesAreNumbers, ScreenIsTyped DEF ScreenIInv
<1>. QED
  BY <1>1, ScreenInv, PTL

\* After any sequence of operations, resets and resizes the pages still have the screen's
\* size, and what moves lines in the region moves none that is below it.
THEOREM LinesAreNeverLost == ScreenSpec => []LinesAreKept
<1>1. ScreenIInv => LinesAreKept
  <2>. SUFFICES ASSUME ScreenIInv PROVE LinesAreKept
    OBVIOUS
  <2>1. PICK rows \in Pos, cols \in Pos :
           rows = g.rows /\ cols = g.cols /\ <<rows, cols>> \in Sizes /\ g \in Screens(rows, cols)
    BY SizesAreNumbers DEF ScreenIInv
  <2>2. ScreenTypeOK
    BY <2>1, ScreenIsTyped
  <2>3. g.top <= g.bottom =>
           /\ StaysBelow(ReverseIndexed(g), g, g.bottom, rows)
           /\ StaysBelow(ScrolledDown(g), g, g.bottom, rows)
           /\ StaysBelow(LineInserted(g), g, g.bottom, rows)
           /\ StaysBelow(LineDeleted(g), g, g.bottom, rows)
           /\ g.alt => StaysBelow(LineFed(g), g, g.bottom, rows)
    BY <2>1, LinesMove
  <2>4. g.alt => StaysBelow(ScrolledUp(g), g, g.bottom, rows)
    BY <2>1, ScrollsUp
  <2>5. ASSUME g.top <= g.bottom,
               NEW s \in {ReverseIndexed(g), ScrolledDown(g), LineInserted(g), LineDeleted(g)}
                         \cup (IF g.alt THEN {LineFed(g), ScrolledUp(g)} ELSE {})
        PROVE  StaysBelow(s, g, g.bottom, rows)
    BY <2>3, <2>4, <2>5, Zenon
  <2>6. LinesBelowRegionStay
    BY <2>1, <2>5 DEF LinesBelowRegionStay, StaysBelow
  <2>. QED
    BY <2>2, <2>6 DEF LinesAreKept
<1>. QED
  BY <1>1, ScreenInv, PTL

---------------------------------------------
(* Glyphs stay whole: cell by cell, in the line that is written.           *)

\* A line of a screen that is whole, cell by cell.
LEMMA WholeLine ==
    ASSUME NEW cols \in Nat, NEW line \in Lines(cols)
    PROVE  LineIsWhole(line) <=>
             \A i \in 1 .. cols :
                /\ line[i].w = 2 => i < cols /\ line[i + 1].w = 0
                /\ line[i].w = 0 => i > 1 /\ line[i - 1].w = 2 /\ ~line[i].mark
<1>1. Len(line) = cols /\ DOMAIN line = 1 .. cols
  BY SeqOfRow DEF Lines
<1>. QED
  BY <1>1 DEF LineIsWhole

LEMMA WholePage ==
    ASSUME NEW rows \in Nat, NEW cols \in Nat, NEW page \in Pages(rows, cols)
    PROVE  IsWhole(page) <=> \A i \in 1 .. rows : LineIsWhole(page[i])
BY DEF IsWhole, Pages

LEMMA BlankIsWhole ==
    ASSUME NEW cols \in Nat PROVE LineIsWhole(Blanks(cols))
<1>1. PICK line \in Lines(cols) : line = Blanks(cols)
  BY BlankLines
<1>2. \A i \in 1 .. cols : line[i].w = 1
  BY <1>1, BlankCells DEF Blanks
<1>. QED
  BY <1>1, <1>2, WholeLine

\* Lines that move stay whole.
KeepsWhole(t, s) == IsWhole(Page(s)) => IsWhole(Page(t))

LEMMA MovedKeepsWhole ==
    ASSUME NEW rows \in Pos, NEW cols \in Pos, NEW s \in Screens(rows, cols),
           NEW out \in 0 .. rows - 1, NEW in \in Nat
    PROVE  KeepsWhole(Moved(s, out, in), s) /\ Moved(s, out, in).insert = s.insert
           /\ Moved(s, out, in).col = s.col
<1>1. PICK page \in Pages(rows, cols) : page = Page(s)
  BY PageOf
<1>2. s.rows = rows /\ s.cols = cols
  BY DEF Screens
<1>3. PICK at \in 0 .. rows - 1 : at = Least(in, rows - 1)
  BY LeastOf
<1>4. PICK blank \in Lines(cols) : blank = Blanks(cols)
  BY BlankLines
<1>5. /\ out + 1 \in 1 .. rows /\ at + 1 \in 1 .. rows - 1 + 1 /\ rows - 1 \in Nat
      /\ rows - 1 + 1 = rows
  OBVIOUS
<1>6. IsShorter(RemoveAt(page, out + 1), page, rows, out + 1, Lines(cols))
  BY <1>5, Shorter DEF Pages
<1>7. PICK less \in [1 .. rows - 1 -> Lines(cols)] : less = RemoveAt(page, out + 1)
  BY <1>6 DEF IsShorter
<1>8. IsLonger(InsertAt(less, at + 1, blank), less, rows - 1, at + 1, blank, Lines(cols))
  BY <1>5, Longer
<1>9. PICK moved \in Pages(rows, cols) : moved = InsertAt(less, at + 1, blank)
  BY <1>5, <1>8 DEF Pages, IsLonger
<1>10. Moved(s, out, in) = WithPage(s, moved)
  BY <1>1, <1>2, <1>3, <1>4, <1>7, <1>9 DEF Moved
<1>11. Page(Moved(s, out, in)) = moved
  BY <1>10, PageSet
<1>12. ASSUME IsWhole(page) PROVE IsWhole(moved)
  <2>1. \A i \in 1 .. rows : LineIsWhole(page[i])
    BY <1>12, WholePage
  <2>2. ASSUME NEW k \in 1 .. rows - 1 PROVE LineIsWhole(less[k])
    <3>1. k \in 1 .. rows /\ k + 1 \in 1 .. rows
      OBVIOUS
    <3>2. less[k] = page[k] \/ less[k] = page[k + 1]
      BY <1>6, <1>7 DEF IsShorter
    <3>. QED
      BY <2>1, <3>1, <3>2
  <2>3. ASSUME NEW k \in 1 .. rows PROVE LineIsWhole(moved[k])
    <3>1. k \in 1 .. rows - 1 + 1
      BY <1>5
    <3>2. CASE k < at + 1
      <4>1. k \in 1 .. rows - 1 /\ moved[k] = less[k]
        BY <1>8, <1>9, <3>1, <3>2 DEF IsLonger
      <4>. QED
        BY <2>2, <4>1
    <3>3. CASE k = at + 1
      <4>1. moved[k] = blank
        BY <1>8, <1>9, <3>1, <3>3 DEF IsLonger
      <4>. QED
        BY <1>4, <4>1, BlankIsWhole
    <3>4. CASE k > at + 1
      <4>1. k - 1 \in 1 .. rows - 1 /\ ~(k < at + 1) /\ k # at + 1
        BY <3>4
      <4>2. moved[k] = less[k - 1]
        BY <1>8, <1>9, <3>1, <4>1 DEF IsLonger
      <4>. QED
        BY <2>2, <4>1, <4>2
    <3>. QED
      BY <3>2, <3>3, <3>4
  <2>. QED
    BY <2>3, WholePage
<1>13. Moved(s, out, in).insert = s.insert /\ Moved(s, out, in).col = s.col
  BY <1>10 DEF WithPage, Screens
<1>. QED
  BY <1>1, <1>11, <1>12, <1>13 DEF KeepsWhole

LEMMA ScrollKeepsWhole ==
    ASSUME NEW rows \in Pos, NEW cols \in Pos, NEW s \in Screens(rows, cols)
    PROVE  KeepsWhole(ScrolledUp(s), s) /\ ScrolledUp(s).insert = s.insert /\ ScrolledUp(s).col = s.col
<1>1. /\ s.rows = rows /\ s.cols = cols /\ s.top \in 0 .. rows - 1 /\ s.bottom \in 0 .. rows - 1
      /\ s.bottom \in Nat /\ s.bottom + 1 \in Nat /\ s.primary \in Pages(rows, cols)
  BY DEF Screens
<1>2. CASE s.top > s.bottom
  BY <1>2 DEF ScrolledUp, KeepsWhole
<1>3. CASE ~(s.top > s.bottom) /\ ~(~s.alt /\ s.top = 0 /\ s.bottom = s.rows - 1)
  <2>1. PICK out \in 0 .. rows - 1, in \in Nat :
           out = s.top /\ in = IF s.alt THEN s.bottom ELSE s.bottom + 1
    BY <1>1
  <2>2. ScrolledUp(s) = Moved(s, out, in)
    BY <1>3, <2>1 DEF ScrolledUp
  <2>. QED
    BY <2>2, MovedKeepsWhole
<1>4. CASE ~(s.top > s.bottom) /\ ~s.alt /\ s.top = 0 /\ s.bottom = s.rows - 1
  <2>1. PICK blank \in Lines(cols) : blank = Blanks(cols)
    BY BlankLines
  <2>2. PICK page \in [1 .. rows -> Lines(cols)] : page = s.primary
    BY <1>1 DEF Pages
  <2>3. PICK p : p = Append(Tail(page), blank)
    OBVIOUS
  <2>4. page \in Seq(Lines(cols)) /\ Len(page) = rows /\ page # <<>>
    BY SeqOfRow
  <2>5. /\ Tail(page) \in Seq(Lines(cols)) /\ Len(Tail(page)) = rows - 1
        /\ \A k \in 1 .. rows - 1 : Tail(page)[k] = page[k + 1]
    BY <2>4, HeadTailProperties
  <2>6. PICK tail \in Seq(Lines(cols)) : tail = Tail(page)
    BY <2>5
  <2>7. /\ p \in Seq(Lines(cols)) /\ Len(p) = rows /\ p[rows] = blank
        /\ \A k \in 1 .. rows - 1 : p[k] = tail[k]
    <3>1. /\ Append(tail, blank) \in Seq(Lines(cols))
          /\ Len(Append(tail, blank)) = Len(tail) + 1
          /\ \A k \in 1 .. Len(tail) : Append(tail, blank)[k] = tail[k]
          /\ Append(tail, blank)[Len(tail) + 1] = blank
      BY AppendProperties
    <3>. QED
      BY <2>3, <2>5, <2>6, <3>1
  <2>8. p \in Pages(rows, cols)
    BY <2>7, RowOfSeq DEF Pages
  <2>9. Page(ScrolledUp(s)) = p /\ ScrolledUp(s).insert = s.insert /\ ScrolledUp(s).col = s.col
    BY <1>1, <1>4, <2>1, <2>2, <2>3 DEF ScrolledUp, Page, Screens
  <2>10. ASSUME IsWhole(page) PROVE IsWhole(p)
    <3>1. \A i \in 1 .. rows : LineIsWhole(page[i])
      BY <2>10, WholePage DEF Pages
    <3>2. ASSUME NEW k \in 1 .. rows PROVE LineIsWhole(p[k])
      <4>1. CASE k = rows
        BY <2>1, <2>7, <4>1, BlankIsWhole
      <4>2. CASE k # rows
        <5>1. k \in 1 .. rows - 1 /\ k + 1 \in 1 .. rows
          BY <4>2
        <5>. QED
          BY <2>5, <2>6, <2>7, <3>1, <5>1
      <4>. QED
        BY <4>1, <4>2
    <3>. QED
      BY <2>8, <3>2, WholePage
  <2>11. Page(s) = page
    BY <1>4, <2>2 DEF Page
  <2>. QED
    BY <2>9, <2>10, <2>11 DEF KeepsWhole
<1>. QED
  BY <1>2, <1>3, <1>4

LEMMA WrapKeepsWhole ==
    ASSUME NEW rows \in Pos, NEW cols \in Pos, NEW s \in Screens(rows, cols)
    PROVE  /\ Wrapped(s) \in Screens(rows, cols) /\ KeepsWhole(Wrapped(s), s)
           /\ Wrapped(s).insert = s.insert /\ Wrapped(s).col = 0
<1>1. PICK c \in 0 .. cols - 1 : c = 0
  OBVIOUS
<1>2. PICK u : u = [s EXCEPT !.wrap = FALSE, !.col = c]
  OBVIOUS
<1>3. u \in Screens(rows, cols) /\ u.insert = s.insert /\ u.col = 0 /\ Page(u) = Page(s) /\ u.rows = rows
  BY <1>1, <1>2 DEF Screens, Page
<1>4. Wrapped(s) = LineFed(u)
  BY <1>1, <1>2 DEF Wrapped, Unwrapped, Screens
<1>5. LineFed(u) \in Screens(rows, cols)
  BY <1>3, LinesMove
<1>6. KeepsWhole(LineFed(u), u) /\ LineFed(u).insert = u.insert /\ LineFed(u).col = u.col
  <2>1. CASE u.row = u.bottom
    BY <1>3, <2>1, ScrollKeepsWhole DEF LineFed
  <2>2. CASE u.row # u.bottom
    <3>1. PICK r : r = u.row + 1
      OBVIOUS
    <3>2. LineFed(u) = [u EXCEPT !.row = r] \/ LineFed(u) = u
      BY <1>3, <2>2, <3>1 DEF LineFed, Screens
    <3>. QED
      BY <1>3, <3>2 DEF KeepsWhole, Page, Screens
  <2>. QED
    BY <2>1, <2>2
<1>. QED
  BY <1>3, <1>4, <1>5, <1>6 DEF KeepsWhole

\* Overwriting cells of a whole line, where the glyph fits, leaves a whole line.
LEMMA OverwriteKeepsWhole ==
    ASSUME NEW rows \in Pos, NEW cols \in Pos, NEW s \in Screens(rows, cols),
           NEW ch \in Chars, LineIsWhole(Line(s, s.row)), Width(ch) = 2 => s.col + 1 < cols
    PROVE  LineIsWhole(OverwrittenLine(s, ch))
<1>1. s.cols = cols /\ s.row \in 0 .. rows - 1
  BY DEF Screens
<1>2. PICK line \in Lines(cols) : line = Line(s, s.row)
  BY <1>1, LineOf
<1>3. PICK c \in 0 .. cols - 1 : c = s.col
  BY DEF Screens
<1>4. PICK w \in {1, 2} : w = Width(ch) /\ (w = 2 => c + 1 < cols)
  BY <1>3, HalfIsCell
<1>5. PICK h \in ProperCells : h = Half(ch) /\ h.w = w /\ ~h.mark
  BY <1>4, HalfIsCell
<1>6. PICK r \in ProperCells, b \in ProperCells : r = Rest /\ b = Blank /\ r.w = 0 /\ ~r.mark /\ b.w = 1
  BY BlankCells
<1>7. PICK new \in Lines(cols) : new = OverwrittenLine(s, ch)
  BY OverwrittenIsLine
<1>8. \A i \in 1 .. cols : ClearOrphans(line, c, w)[i] =
         IF (i = c /\ line[c + 1].w = 0) \/ (i = c + w + 1 /\ line[c + w].w = 2) THEN b ELSE line[i]
  <2>1. DOMAIN line = 1 .. cols
    BY DEF Lines
  <2>. QED
    BY <1>6, <2>1 DEF ClearOrphans
<1>9. \A i \in 1 .. cols : new[i] =
         IF i = c + 1 THEN h
         ELSE IF i = c + 2 /\ w = 2 THEN r
         ELSE IF (i = c /\ line[c + 1].w = 0) \/ (i = c + w + 1 /\ line[c + w].w = 2) THEN b
         ELSE line[i]
  <2>1. new = [i \in 1 .. cols |->
           IF i = c + 1 THEN h
           ELSE IF i = c + 2 /\ w = 2 THEN r
           ELSE ClearOrphans(line, c, w)[i]]
    BY <1>1, <1>2, <1>3, <1>4, <1>5, <1>6, <1>7 DEF OverwrittenLine
  <2>. QED
    BY <1>8, <2>1
<1>10. PICK width \in [1 .. cols -> 0 .. 2] : \A i \in 1 .. cols : width[i] = line[i].w
  <2>1. \A i \in 1 .. cols : line[i].w \in 0 .. 2
    BY CellParts DEF Lines
  <2>2. [i \in 1 .. cols |-> line[i].w] \in [1 .. cols -> 0 .. 2]
    BY <2>1
  <2>. QED
    BY <2>2
<1>11. \A i \in 1 .. cols :
          /\ width[i] = 2 => i < cols /\ width[i + 1] = 0
          /\ width[i] = 0 => i > 1 /\ width[i - 1] = 2 /\ ~line[i].mark
  <2>1. \A i \in 1 .. cols :
           /\ line[i].w = 2 => i < cols /\ line[i + 1].w = 0
           /\ line[i].w = 0 => i > 1 /\ line[i - 1].w = 2 /\ ~line[i].mark
    BY <1>2, WholeLine
  <2>. QED
    BY <1>10, <2>1
<1>12. PICK wide \in [1 .. cols -> 0 .. 2] : \A i \in 1 .. cols :
          /\ wide[i] = new[i].w
          /\ wide[i] = IF i = c + 1 THEN w
                       ELSE IF i = c + 2 /\ w = 2 THEN 0
                       ELSE IF (i = c /\ width[c + 1] = 0) \/ (i = c + w + 1 /\ width[c + w] = 2) THEN 1
                       ELSE width[i]
  <2>1. \A i \in 1 .. cols : new[i].w \in 0 .. 2
    BY CellParts DEF Lines
  <2>2. PICK x \in [1 .. cols -> 0 .. 2] : \A i \in 1 .. cols : x[i] = new[i].w
    <3>1. [i \in 1 .. cols |-> new[i].w] \in [1 .. cols -> 0 .. 2]
      BY <2>1
    <3>. QED
      BY <3>1
  <2>3. /\ c + 1 \in 1 .. cols /\ c + w \in 1 .. cols
        /\ width[c + 1] = line[c + 1].w /\ width[c + w] = line[c + w].w
    BY <1>4, <1>10
  <2>4. ASSUME NEW i \in 1 .. cols
        PROVE  x[i] = IF i = c + 1 THEN w
                      ELSE IF i = c + 2 /\ w = 2 THEN 0
                      ELSE IF (i = c /\ width[c + 1] = 0) \/ (i = c + w + 1 /\ width[c + w] = 2) THEN 1
                      ELSE width[i]
    BY <1>5, <1>6, <1>9, <1>10, <2>2, <2>3
  <2>. QED
    BY <2>2, <2>4
<1>13. ASSUME NEW i \in 1 .. cols, wide[i] = 2 PROVE i < cols /\ wide[i + 1] = 0
  <2>1. CASE i = c + 1
    <3>1. w = 2
      BY <1>12, <1>13, <2>1
    <3>2. i < cols /\ i + 1 \in 1 .. cols /\ i + 1 = c + 2
      BY <1>4, <2>1, <3>1
    <3>. QED
      BY <1>12, <3>1, <3>2
  <2>2. CASE i # c + 1
    <3>1. /\ width[i] = 2 /\ ~(i = c + 2 /\ w = 2)
          /\ ~((i = c /\ width[c + 1] = 0) \/ (i = c + w + 1 /\ width[c + w] = 2))
      BY <1>12, <1>13, <2>2
    <3>2. i < cols /\ width[i + 1] = 0 /\ i # c
      BY <1>11, <3>1
    <3>3. i + 1 \in 1 .. cols /\ i + 1 # c + 1
      BY <3>2
    <3>4. CASE i + 1 = c + 2 /\ w = 2
      BY <1>12, <3>3, <3>4
    <3>5. CASE ~(i + 1 = c + 2 /\ w = 2)
      <4>1. i # c + w
        BY <1>4, <2>2, <3>1
      <4>2. ~(i + 1 = c /\ width[c + 1] = 0)
        BY <1>11, <3>2, <3>3
      <4>3. wide[i + 1] = width[i + 1]
        BY <1>4, <1>12, <3>3, <3>5, <4>1, <4>2
      <4>. QED
        BY <3>2, <4>3
    <3>. QED
      BY <3>2, <3>4, <3>5
  <2>. QED
    BY <2>1, <2>2
<1>14. ASSUME NEW i \in 1 .. cols, wide[i] = 0 PROVE i > 1 /\ wide[i - 1] = 2
  BY <1>4, <1>11, <1>12, <1>14
<1>15. ASSUME NEW i \in 1 .. cols, wide[i] = 0 PROVE ~new[i].mark
  <2>1. CASE i = c + 2 /\ w = 2
    BY <1>6, <1>9, <2>1
  <2>2. CASE ~(i = c + 2 /\ w = 2)
    <3>1. new[i] = line[i] /\ width[i] = 0
      BY <1>4, <1>9, <1>10, <1>12, <1>15, <1>5, <1>6, <2>2
    <3>. QED
      BY <1>11, <3>1
  <2>. QED
    BY <2>1, <2>2
<1>16. \A i \in 1 .. cols :
          /\ new[i].w = 2 => i < cols /\ new[i + 1].w = 0
          /\ new[i].w = 0 => i > 1 /\ new[i - 1].w = 2 /\ ~new[i].mark
  <2>1. ASSUME NEW i \in 1 .. cols, new[i].w = 2 PROVE i < cols /\ new[i + 1].w = 0
    <3>1. i < cols /\ wide[i + 1] = 0
      BY <1>12, <1>13, <2>1
    <3>2. i + 1 \in 1 .. cols
      BY <3>1
    <3>. QED
      BY <1>12, <3>1, <3>2
  <2>2. ASSUME NEW i \in 1 .. cols, new[i].w = 0 PROVE i > 1 /\ new[i - 1].w = 2 /\ ~new[i].mark
    <3>1. i > 1 /\ wide[i - 1] = 2 /\ ~new[i].mark
      BY <1>12, <1>14, <1>15, <2>2
    <3>2. i - 1 \in 1 .. cols
      BY <3>1
    <3>. QED
      BY <1>12, <3>1, <3>2
  <2>. QED
    BY <2>1, <2>2
<1>. QED
  BY <1>7, <1>16, WholeLine

LEMMA PrintKeepsWhole ==
    ASSUME NEW rows \in Pos, NEW cols \in Pos, NEW s \in Screens(rows, cols),
           cols > 1, ~s.insert, IsWhole(Page(s)), NEW ch \in Chars
    PROVE  IsWhole(Page(Printed(s, ch)))
<1>1. PICK here \in Screens(rows, cols) :
         here = (IF s.wrap THEN Wrapped(s) ELSE s) /\ ~here.insert /\ IsWhole(Page(here))
  BY WrapKeepsWhole DEF KeepsWhole
<1>2. here.cols = cols /\ here.col \in 0 .. cols - 1
  BY DEF Screens
<1>3. PICK t \in Screens(rows, cols) :
         /\ t = IF Width(ch) = 2 /\ here.col + 1 >= here.cols THEN Wrapped(here) ELSE here
         /\ ~t.insert /\ IsWhole(Page(t)) /\ (Width(ch) = 2 => t.col + 1 < cols)
  <2>1. CASE Width(ch) = 2 /\ here.col + 1 >= here.cols
    <3>1. /\ Wrapped(here) \in Screens(rows, cols) /\ IsWhole(Page(Wrapped(here)))
          /\ ~Wrapped(here).insert /\ Wrapped(here).col = 0
      BY <1>1, WrapKeepsWhole DEF KeepsWhole
    <3>2. PICK t \in Screens(rows, cols) : t = Wrapped(here)
      BY <3>1
    <3>3. t.col + 1 < cols
      BY <3>1, <3>2
    <3>. QED
      BY <2>1, <3>1, <3>2, <3>3
  <2>2. CASE ~(Width(ch) = 2 /\ here.col + 1 >= here.cols)
    <3>1. Width(ch) = 2 => here.col + 1 < cols
      BY <1>2, <2>2
    <3>. QED
      BY <1>1, <2>2, <3>1
  <2>. QED
    BY <2>1, <2>2
<1>4. Printed(s, ch) = Placed(t, ch)
  BY <1>1, <1>3 DEF Printed
<1>5. PICK page \in Pages(rows, cols), at \in 1 .. rows : page = Page(t) /\ at = t.row + 1
  <2>1. t.row + 1 \in 1 .. rows
    <3>1. PICK r \in 0 .. rows - 1 : r = t.row
      BY DEF Screens
    <3>. QED
      BY <3>1
  <2>. QED
    BY <2>1, PageOf
<1>6. \A i \in 1 .. rows : LineIsWhole(page[i])
  BY <1>3, <1>5, WholePage
<1>7. PICK new \in Lines(cols) : new = OverwrittenLine(t, ch)
  BY OverwrittenIsLine
<1>8. LineIsWhole(new)
  <2>1. LineIsWhole(Line(t, t.row))
    BY <1>5, <1>6 DEF Line
  <2>. QED
    BY <1>3, <1>7, <2>1, OverwriteKeepsWhole
<1>9. Page(Placed(t, ch)) = [page EXCEPT ![at] = new]
  <2>1. Page(Placed(t, ch)) = PageWith(t, IF t.insert THEN InsertedLine(t, ch) ELSE OverwrittenLine(t, ch))
    BY Places
  <2>. QED
    BY <1>3, <1>5, <1>7, <2>1 DEF PageWith
<1>10. PICK p \in Pages(rows, cols) : p = [page EXCEPT ![at] = new]
  BY DEF Pages
<1>11. \A i \in 1 .. rows : LineIsWhole(p[i])
  <2>1. \A i \in 1 .. rows : p[i] = IF i = at THEN new ELSE page[i]
    BY <1>10 DEF Pages
  <2>. QED
    BY <1>6, <1>8, <2>1
<1>. QED
  BY <1>4, <1>9, <1>10, <1>11, WholePage

LEMMA MarkKeepsWhole ==
    ASSUME NEW rows \in Pos, NEW cols \in Pos, NEW s \in Screens(rows, cols),
           IsWhole(Page(s))
    PROVE  IsWhole(Page(Marked(s)))
<1>1. /\ s.cols = cols /\ s.row \in 0 .. rows - 1 /\ s.col \in 0 .. cols - 1
      /\ s.wrap \in BOOLEAN
  BY DEF Screens
<1>2. PICK start \in 0 .. cols : start = IF s.wrap THEN s.cols ELSE s.col
  BY <1>1
<1>3. PICK page \in Pages(rows, cols), row \in 1 .. rows : page = Page(s) /\ row = s.row + 1
  <2>1. s.row + 1 \in 1 .. rows
    BY <1>1
  <2>. QED
    BY <2>1, PageOf
<1>4. PICK line \in Lines(cols) : line = Line(s, s.row) /\ line = page[row]
  <2>1. Line(s, s.row) = page[row]
    BY <1>3 DEF Line
  <2>2. page[row] \in Lines(cols)
    BY DEF Pages
  <2>. QED
    BY <2>1, <2>2
<1>5. \A i \in 1 .. rows : LineIsWhole(page[i])
  BY <1>3, WholePage
<1>6. \A i \in 1 .. cols :
         /\ line[i].w = 2 => i < cols /\ line[i + 1].w = 0
         /\ line[i].w = 0 => i > 1 /\ line[i - 1].w = 2 /\ ~line[i].mark
  BY <1>4, <1>5, WholeLine
<1>7. CASE start = 0
  BY <1>2, <1>7 DEF Marked
<1>8. CASE start # 0
  <2>1. PICK at \in 1 .. cols : at = IF start > 1 /\ line[start].w = 0 THEN start - 1 ELSE start
    BY <1>8
  <2>2. line[at].w # 0
    <3>1. start \in 1 .. cols
      BY <1>8
    <3>. QED
      BY <1>6, <2>1, <3>1
  <2>3. PICK cell \in ProperCells : cell = line[at]
    BY DEF Lines
  <2>4. PICK marked \in ProperCells : marked = [cell EXCEPT !.mark = TRUE] /\ marked.w = cell.w
    <3>1. [cell EXCEPT !.mark = TRUE] \in ProperCells /\ [cell EXCEPT !.mark = TRUE].w = cell.w
      BY MarkedCell
    <3>. QED
      BY <3>1
  <2>5. PICK new \in Lines(cols) : new = [line EXCEPT ![at] = marked]
    BY DEF Lines
  <2>6. \A i \in 1 .. cols : new[i] = IF i = at THEN marked ELSE line[i]
    BY <2>5 DEF Lines
  <2>7. \A i \in 1 .. cols : new[i].w = line[i].w /\ (i # at => new[i].mark = line[i].mark)
    BY <2>3, <2>4, <2>6
  <2>8. LineIsWhole(new)
    BY <1>6, <2>2, <2>7, WholeLine
  <2>9. Marked(s) = WithLine(s, new)
    <3>1. new = [line EXCEPT ![at].mark = TRUE]
      BY <2>3, <2>4, <2>5 DEF Lines
    <3>. QED
      BY <1>2, <1>4, <1>8, <2>1, <3>1 DEF Marked
  <2>10. Page(WithLine(s, new)) = [page EXCEPT ![row] = new]
    <3>1. Page(WithLine(s, new)) = PageWith(s, new)
      BY LineSet
    <3>. QED
      BY <1>3, <3>1 DEF PageWith
  <2>11. PICK p \in Pages(rows, cols) : p = [page EXCEPT ![row] = new]
    BY DEF Pages
  <2>12. \A i \in 1 .. rows : LineIsWhole(p[i])
    <3>1. \A i \in 1 .. rows : p[i] = IF i = row THEN new ELSE page[i]
      BY <2>11 DEF Pages
    <3>. QED
      BY <1>5, <2>8, <3>1
  <2>. QED
    BY <2>9, <2>10, <2>11, <2>12, WholePage
<1>. QED
  BY <1>7, <1>8

\* Overwriting, wrapping and marking keep glyphs whole on a screen of whole glyphs.
THEOREM GlyphsStayWhole == ScreenSpec => []WritingKeepsGlyphsWhole
<1>1. ScreenIInv => WritingKeepsGlyphsWhole
  <2>. SUFFICES ASSUME ScreenIInv, g.cols > 1, ~g.insert, IsWhole(Page(g))
                PROVE  /\ \A ch \in Glyphs \cup {" "} : IsWhole(Page(Printed(g, ch)))
                       /\ IsWhole(Page(Marked(g)))
    BY DEF WritingKeepsGlyphsWhole
  <2>1. PICK rows \in Pos, cols \in Pos :
           rows = g.rows /\ cols = g.cols /\ <<rows, cols>> \in Sizes /\ g \in Screens(rows, cols)
    BY SizesAreNumbers DEF ScreenIInv
  <2>2. \A ch \in Chars : IsWhole(Page(Printed(g, ch)))
    BY <2>1, PrintKeepsWhole
  <2>3. IsWhole(Page(Marked(g)))
    BY <2>1, MarkKeepsWhole
  <2>. QED
    BY <2>2, <2>3 DEF Chars
<1>. QED
  BY <1>1, ScreenInv, PTL

---------------------------------------------
(* The replay.  It is a fold of folds; what each goes through is a function *)
(* on its places, and what holds at a place is carried to the next.  A fold *)
(* takes its operator as a parameter, so that there is one lemma for each. *)

\* A set of numbers that is not empty has a least one: the induction that is used below.
LEMMA LeastNumber == ASSUME NEW T, T \subseteq Nat, T # {} PROVE \E n \in T : \A m \in T : n <= m
<1>. DEFINE R == {ss \in Nat \X Nat : ss[1] < ss[2]}
<1>1. IsWellFoundedOn(R, Nat)
  BY NatLessThanWellFounded, Zenon DEF OpToRel
<1>. HIDE DEF R
<1>2. PICK n \in T : \A m \in T : ~(<<m, n>> \in R)
  BY <1>1, WFMin, Zenon
<1>3. \A m \in T : ~(m < n)
  BY <1>2 DEF R
<1>. QED
  BY <1>3

\* What holds of 0 and passes on from one number to the next holds up to n.
LEMMA Upward ==
    ASSUME NEW n \in Nat, NEW H, 0 \in H, \A k \in 1 .. n : k - 1 \in H => k \in H
    PROVE  \A k \in 0 .. n : k \in H
<1>. DEFINE T == {k \in 0 .. n : k \notin H}
<1>1. SUFFICES ASSUME T # {} PROVE FALSE
  OBVIOUS
<1>2. PICK k \in T : \A m \in T : k <= m
  <2>1. T \subseteq Nat
    OBVIOUS
  <2>. HIDE DEF T
  <2>. QED
    BY <1>1, <2>1, LeastNumber
<1>3. k \in 1 .. n /\ k - 1 \in 0 .. n /\ k \notin H
  OBVIOUS
<1>4. k - 1 \in H
  <2>1. ~(k <= k - 1)
    BY <1>3
  <2>. QED
    BY <1>2, <1>3, <2>1
<1>. QED
  BY <1>3, <1>4

\* The last of the first k places is k.
LEMMA MaxOfFirst ==
    ASSUME NEW k \in Pos PROVE Max(1 .. k) = k /\ (1 .. k) \ {k} = 1 .. k - 1
<1>1. k \in 1 .. k /\ \A y \in 1 .. k : k >= y
  OBVIOUS
<1>2. \A x \in 1 .. k : (\A y \in 1 .. k : x >= y) => x = k
  OBVIOUS
<1>3. (1 .. k) \ {k} = 1 .. k - 1
  OBVIOUS
<1>. QED
  BY <1>1, <1>2, <1>3 DEF Max

LEMMA MaxIsIn ==
    ASSUME NEW n \in Nat, NEW S, S \subseteq 1 .. n, S # {}
    PROVE  Max(S) \in S /\ \A x \in S : x <= Max(S)
<1>. DEFINE T == {n - x : x \in S}
<1>1. T \subseteq Nat /\ T # {}
  <2>1. \A x \in S : n - x \in Nat
    OBVIOUS
  <2>. QED
    BY <2>1
<1>2. PICK m \in T : \A k \in T : m <= k
  <2>. HIDE DEF T
  <2>. QED
    BY <1>1, LeastNumber
<1>3. PICK y \in S : m = n - y
  BY <1>2
<1>4. \A x \in S : y >= x
  BY <1>2, <1>3
<1>. QED
  BY <1>4 DEF Max

\* What a fold goes through: it takes the places in their order, and a step for each.
IsIter(iter, step, base, n) ==
    iter = [S \in SUBSET (1 .. n) |->
              IF S = {} THEN base ELSE step[<<iter[S \ {Max(S)}], Max(S)>>]]

LEMMA IterExtends ==
    ASSUME NEW n \in Nat, NEW k \in 1 .. n, NEW X, NEW base \in X, NEW step \in [X \X (1 .. n) -> X],
           NEW iter \in [SUBSET (1 .. k - 1) -> X], IsIter(iter, step, base, k - 1)
    PROVE  \E next \in [SUBSET (1 .. k) -> X] : IsIter(next, step, base, k)
<1>. DEFINE next == [S \in SUBSET (1 .. k) |->
                       IF S = {} THEN base ELSE step[<<iter[S \ {Max(S)}], Max(S)>>]]
<1>1. ASSUME NEW S \in SUBSET (1 .. k), S # {}
      PROVE  /\ Max(S) \in 1 .. n /\ S \ {Max(S)} \in SUBSET (1 .. k - 1)
             /\ S \ {Max(S)} \in SUBSET (1 .. k)
  <2>1. PICK m : m = Max(S)
    OBVIOUS
  <2>2. m \in S /\ \A x \in S : x <= m
    <3>1. PICK j \in Nat : j = k
      OBVIOUS
    <3>2. S \subseteq 1 .. j
      BY <3>1
    <3>. QED
      BY <1>1, <2>1, <3>2, MaxIsIn
  <2>3. m \in 1 .. n /\ S \ {m} \in SUBSET (1 .. k - 1) /\ S \ {m} \in SUBSET (1 .. k)
    BY <2>2
  <2>. QED
    BY <2>1, <2>3
<1>2. next \in [SUBSET (1 .. k) -> X]
  <2>1. ASSUME NEW S \in SUBSET (1 .. k), S # {}
        PROVE  step[<<iter[S \ {Max(S)}], Max(S)>>] \in X
    <3>1. iter[S \ {Max(S)}] \in X /\ Max(S) \in 1 .. n
      BY <1>1, <2>1
    <3>. QED
      BY <3>1
  <2>. QED
    BY <2>1
<1>3. ASSUME NEW S \in SUBSET (1 .. k - 1) PROVE next[S] = iter[S]
  <2>1. S \in SUBSET (1 .. k)
    OBVIOUS
  <2>2. next[S] = IF S = {} THEN base ELSE step[<<iter[S \ {Max(S)}], Max(S)>>]
    BY <2>1
  <2>3. iter[S] = IF S = {} THEN base ELSE step[<<iter[S \ {Max(S)}], Max(S)>>]
    BY DEF IsIter
  <2>. QED
    BY <2>2, <2>3
<1>4. ASSUME NEW S \in SUBSET (1 .. k)
      PROVE  next[S] = IF S = {} THEN base ELSE step[<<next[S \ {Max(S)}], Max(S)>>]
  <2>1. CASE S = {}
    BY <2>1
  <2>2. CASE S # {}
    <3>1. next[S \ {Max(S)}] = iter[S \ {Max(S)}]
      BY <1>1, <1>3, <2>2
    <3>2. next[S] = step[<<iter[S \ {Max(S)}], Max(S)>>]
      BY <2>2
    <3>. QED
      BY <2>2, <3>1, <3>2
  <2>. QED
    BY <2>1, <2>2
<1>5. next = [S \in SUBSET (1 .. k) |->
                IF S = {} THEN base ELSE step[<<next[S \ {Max(S)}], Max(S)>>]]
  <2>1. PICK f : f = next
    OBVIOUS
  <2>2. f \in [SUBSET (1 .. k) -> X] /\ \A S \in SUBSET (1 .. k) :
           f[S] = IF S = {} THEN base ELSE step[<<f[S \ {Max(S)}], Max(S)>>]
    BY <1>2, <1>4, <2>1
  <2>3. f = [S \in SUBSET (1 .. k) |-> IF S = {} THEN base ELSE step[<<f[S \ {Max(S)}], Max(S)>>]]
    BY <2>2
  <2>. QED
    BY <2>1, <2>3
<1>. QED
  BY <1>2, <1>5 DEF IsIter

HasIter(step, base, X, n) == \E iter \in [SUBSET (1 .. n) -> X] : IsIter(iter, step, base, n)

LEMMA IterExists ==
    ASSUME NEW n \in Nat, NEW X, NEW base \in X, NEW step \in [X \X (1 .. n) -> X]
    PROVE  HasIter(step, base, X, n)
<1>. DEFINE H == {k \in 0 .. n : HasIter(step, base, X, k)}
<1>1. 0 \in H
  <2>1. PICK iter : iter = [S \in SUBSET (1 .. 0) |-> base]
    OBVIOUS
  <2>2. \A S \in SUBSET (1 .. 0) : S = {}
    OBVIOUS
  <2>3. iter \in [SUBSET (1 .. 0) -> X] /\ IsIter(iter, step, base, 0)
    BY <2>1, <2>2 DEF IsIter
  <2>4. HasIter(step, base, X, 0)
    BY <2>3 DEF HasIter
  <2>. QED
    BY <2>4
<1>2. ASSUME NEW k \in 1 .. n, k - 1 \in H PROVE k \in H
  <2>0. HasIter(step, base, X, k - 1)
    BY <1>2
  <2>1. PICK iter \in [SUBSET (1 .. k - 1) -> X] : IsIter(iter, step, base, k - 1)
    BY <2>0 DEF HasIter
  <2>2. HasIter(step, base, X, k)
    BY <2>1, IterExtends DEF HasIter
  <2>. QED
    BY <2>2
<1>3. \A k \in 0 .. n : k \in H
  <2>. HIDE DEF H
  <2>. QED
    BY <1>1, <1>2, Upward
<1>4. n \in 0 .. n
  OBVIOUS
<1>5. n \in H
  <2>. HIDE DEF H
  <2>. QED
    BY <1>3, <1>4
<1>. QED
  BY <1>5

\* A fold goes through the values of its first k places.
StaysIn(iter, n, X) ==
    /\ iter[1 .. 0] \in X
    /\ \A k \in 1 .. n : iter[1 .. k - 1] \in X => iter[1 .. k] \in X

LEMMA GoesThrough ==
    ASSUME NEW n \in Nat, NEW X, NEW iter, StaysIn(iter, n, X)
    PROVE  \E x \in [0 .. n -> X] : \A k \in 0 .. n : x[k] = iter[1 .. k]
<1>. DEFINE H == {k \in 0 .. n : iter[1 .. k] \in X}
<1>1. 0 \in H
  BY DEF StaysIn
<1>2. ASSUME NEW k \in 1 .. n, k - 1 \in H PROVE k \in H
  BY <1>2 DEF StaysIn
<1>3. \A k \in 0 .. n : k \in H
  <2>. HIDE DEF H
  <2>. QED
    BY <1>1, <1>2, Upward
<1>4. \A k \in 0 .. n : iter[1 .. k] \in X
  BY <1>3
<1>5. [k \in 0 .. n |-> iter[1 .. k]] \in [0 .. n -> X]
  BY <1>4
<1>. QED
  BY <1>5

LEMMA FirstPlaces ==
    ASSUME NEW n \in Nat, NEW k \in 1 .. n
    PROVE  /\ 1 .. k \in SUBSET (1 .. n) /\ 1 .. k # {} /\ k \in 0 .. n /\ k - 1 \in 0 .. n
           /\ Max(1 .. k) = k /\ (1 .. k) \ {k} = 1 .. k - 1
<1>1. 1 .. k \subseteq 1 .. n
  OBVIOUS
<1>2. k \in 1 .. k /\ k \in 0 .. n /\ k - 1 \in 0 .. n /\ k \in Pos
  OBVIOUS
<1>3. Max(1 .. k) = k /\ (1 .. k) \ {k} = 1 .. k - 1
  BY <1>2, MaxOfFirst
<1>. QED
  BY <1>1, <1>2, <1>3

\* What the four folds of a replay go through: the cells of a row ...
PaintsWithin(X, seq, n) ==
    /\ DOMAIN seq = 1 .. n
    /\ \A u \in X : \A k \in 1 .. n : Painted(u, seq[k]) \in X

PaintsThrough(x, t, seq, n) ==
    /\ x[0] = t /\ x[n] = FoldLeft(Painted, t, seq)
    /\ \A k \in 1 .. n : x[k] = Painted(x[k - 1], seq[k])

LEMMA PaintingGoes ==
    ASSUME NEW X, NEW t \in X, NEW n \in Nat, NEW seq, PaintsWithin(X, seq, n)
    PROVE  \E x \in [0 .. n -> X] : PaintsThrough(x, t, seq, n)
<1>. USE DEF PaintsWithin
<1>. DEFINE D == 1 .. n
            step == [p \in X \X (1 .. n) |-> Painted(p[1], seq[p[2]])]
            iter[S \in SUBSET D] ==
                IF S = {} THEN t ELSE LET i == Max(S) IN Painted(iter[S \ {i}], seq[i])
<1>1. FoldLeft(Painted, t, seq) = iter[D]
  BY DEF FoldLeft, MapThenFoldSet
<1>2. iter = CHOOSE f : f = [S \in SUBSET D |->
                IF S = {} THEN t ELSE LET i == Max(S) IN Painted(f[S \ {i}], seq[i])]
  OBVIOUS
<1>. HIDE DEF iter
<1>3. step \in [X \X (1 .. n) -> X]
  OBVIOUS
<1>4. ASSUME NEW f \in [SUBSET D -> X], NEW S \in SUBSET D, S # {}
      PROVE  step[<<f[S \ {Max(S)}], Max(S)>>] = Painted(f[S \ {Max(S)}], seq[Max(S)])
  <2>1. Max(S) \in S
    BY <1>4, MaxIsIn
  <2>2. Max(S) \in 1 .. n /\ f[S \ {Max(S)}] \in X
    BY <2>1
  <2>. QED
    BY <2>2
<1>5. \E f : f = [S \in SUBSET D |->
                IF S = {} THEN t ELSE LET i == Max(S) IN Painted(f[S \ {i}], seq[i])]
  <2>1. PICK f \in [SUBSET D -> X] : IsIter(f, step, t, n)
    <3>. HIDE DEF step
    <3>. QED
      BY <1>3, IterExists DEF HasIter
  <2>2. \A S \in SUBSET D :
          (IF S = {} THEN t ELSE step[<<f[S \ {Max(S)}], Max(S)>>])
          = (IF S = {} THEN t ELSE LET i == Max(S) IN Painted(f[S \ {i}], seq[i]))
    BY <1>4
  <2>3. f = [S \in SUBSET D |->
                IF S = {} THEN t ELSE LET i == Max(S) IN Painted(f[S \ {i}], seq[i])]
    <3>. HIDE DEF step
    <3>. QED
      BY <2>1, <2>2, Zenon DEF IsIter
  <2>. QED
    BY <2>3
<1>6. iter = [S \in SUBSET D |->
                IF S = {} THEN t ELSE LET i == Max(S) IN Painted(iter[S \ {i}], seq[i])]
  BY <1>2, <1>5
<1>7. ASSUME NEW k \in 1 .. n PROVE iter[1 .. k] = Painted(iter[1 .. k - 1], seq[k])
  <2>1. /\ 1 .. k \in SUBSET D /\ 1 .. k # {}
        /\ Max(1 .. k) = k /\ (1 .. k) \ {k} = 1 .. k - 1
    BY FirstPlaces
  <2>2. iter[1 .. k] = Painted(iter[(1 .. k) \ {Max(1 .. k)}], seq[Max(1 .. k)])
    BY <1>6, <2>1
  <2>. QED
    BY <2>1, <2>2
<1>8. iter[1 .. 0] = t
  <2>1. 1 .. 0 = {}
    OBVIOUS
  <2>. QED
    BY <1>6, <2>1
<1>. HIDE DEF D, step, PaintsWithin
<1>9. PICK x \in [0 .. n -> X] : \A k \in 0 .. n : x[k] = iter[1 .. k]
  <2>1. ASSUME NEW k \in 1 .. n, iter[1 .. k - 1] \in X PROVE iter[1 .. k] \in X
    BY <1>7, <2>1 DEF PaintsWithin
  <2>2. iter[1 .. 0] \in X
    BY <1>8
  <2>3. StaysIn(iter, n, X)
    BY <2>1, <2>2 DEF StaysIn
  <2>. QED
    BY <2>3, GoesThrough
<1>10. /\ x[0] = t /\ x[n] = iter[1 .. n]
       /\ \A k \in 1 .. n : x[k] = Painted(x[k - 1], seq[k])
  BY <1>7, <1>8, <1>9, FirstPlaces
<1>. QED
  BY <1>1, <1>10 DEF D, PaintsThrough

\* ... the rows of the page ...
\* The fold that paints a row of a page.
RowAt(t, page, i) == FoldLeft(Painted, CursorSet(t, i - 1, 0), page[i])

PaintsPageWithin(X, seq, n, page) ==
    /\ DOMAIN seq = 1 .. n
    /\ \A u \in X : \A k \in 1 .. n : RowAt(u, page, seq[k]) \in X

PaintsPageThrough(x, t, seq, n, page) ==
    /\ x[0] = t /\ x[n] = FoldLeft(LAMBDA v, i : RowAt(v, page, i), t, seq)
    /\ \A k \in 1 .. n : x[k] = RowAt(x[k - 1], page, seq[k])

LEMMA PageGoes ==
    ASSUME NEW X, NEW t \in X, NEW n \in Nat, NEW seq, NEW page, PaintsPageWithin(X, seq, n, page)
    PROVE  \E x \in [0 .. n -> X] : PaintsPageThrough(x, t, seq, n, page)
<1>. USE DEF PaintsPageWithin
<1>. DEFINE D == 1 .. n
            step == [p \in X \X (1 .. n) |-> RowAt(p[1], page, seq[p[2]])]
            iter[S \in SUBSET D] ==
                IF S = {} THEN t ELSE LET i == Max(S) IN RowAt(iter[S \ {i}], page, seq[i])
<1>1. FoldLeft(LAMBDA v, i : RowAt(v, page, i), t, seq) = iter[D]
  BY DEF FoldLeft, MapThenFoldSet
<1>2. iter = CHOOSE f : f = [S \in SUBSET D |->
                IF S = {} THEN t ELSE LET i == Max(S) IN RowAt(f[S \ {i}], page, seq[i])]
  OBVIOUS
<1>. HIDE DEF iter
<1>3. step \in [X \X (1 .. n) -> X]
  OBVIOUS
<1>4. ASSUME NEW f \in [SUBSET D -> X], NEW S \in SUBSET D, S # {}
      PROVE  step[<<f[S \ {Max(S)}], Max(S)>>] = RowAt(f[S \ {Max(S)}], page, seq[Max(S)])
  <2>1. Max(S) \in S
    BY <1>4, MaxIsIn
  <2>2. Max(S) \in 1 .. n /\ f[S \ {Max(S)}] \in X
    BY <2>1
  <2>. QED
    BY <2>2
<1>5. \E f : f = [S \in SUBSET D |->
                IF S = {} THEN t ELSE LET i == Max(S) IN RowAt(f[S \ {i}], page, seq[i])]
  <2>1. PICK f \in [SUBSET D -> X] : IsIter(f, step, t, n)
    <3>. HIDE DEF step
    <3>. QED
      BY <1>3, IterExists DEF HasIter
  <2>2. \A S \in SUBSET D :
          (IF S = {} THEN t ELSE step[<<f[S \ {Max(S)}], Max(S)>>])
          = (IF S = {} THEN t ELSE LET i == Max(S) IN RowAt(f[S \ {i}], page, seq[i]))
    BY <1>4
  <2>3. f = [S \in SUBSET D |->
                IF S = {} THEN t ELSE LET i == Max(S) IN RowAt(f[S \ {i}], page, seq[i])]
    <3>. HIDE DEF step
    <3>. QED
      BY <2>1, <2>2, Zenon DEF IsIter
  <2>. QED
    BY <2>3
<1>6. iter = [S \in SUBSET D |->
                IF S = {} THEN t ELSE LET i == Max(S) IN RowAt(iter[S \ {i}], page, seq[i])]
  BY <1>2, <1>5
<1>7. ASSUME NEW k \in 1 .. n PROVE iter[1 .. k] = RowAt(iter[1 .. k - 1], page, seq[k])
  <2>1. /\ 1 .. k \in SUBSET D /\ 1 .. k # {}
        /\ Max(1 .. k) = k /\ (1 .. k) \ {k} = 1 .. k - 1
    BY FirstPlaces
  <2>2. iter[1 .. k] = RowAt(iter[(1 .. k) \ {Max(1 .. k)}], page, seq[Max(1 .. k)])
    BY <1>6, <2>1
  <2>. QED
    BY <2>1, <2>2
<1>8. iter[1 .. 0] = t
  <2>1. 1 .. 0 = {}
    OBVIOUS
  <2>. QED
    BY <1>6, <2>1
<1>. HIDE DEF D, step, PaintsPageWithin
<1>9. PICK x \in [0 .. n -> X] : \A k \in 0 .. n : x[k] = iter[1 .. k]
  <2>1. ASSUME NEW k \in 1 .. n, iter[1 .. k - 1] \in X PROVE iter[1 .. k] \in X
    BY <1>7, <2>1 DEF PaintsPageWithin
  <2>2. iter[1 .. 0] \in X
    BY <1>8
  <2>3. StaysIn(iter, n, X)
    BY <2>1, <2>2 DEF StaysIn
  <2>. QED
    BY <2>3, GoesThrough
<1>10. /\ x[0] = t /\ x[n] = iter[1 .. n]
       /\ \A k \in 1 .. n : x[k] = RowAt(x[k - 1], page, seq[k])
  BY <1>7, <1>8, <1>9, FirstPlaces
<1>. QED
  BY <1>1, <1>10 DEF D, PaintsPageThrough

\* ... the rows of the history, and the lines that push them off the screen.
ReplaysWithin(X, seq, n) ==
    /\ DOMAIN seq = 1 .. n
    /\ \A u \in X : \A k \in 1 .. n : HistoryRow(u, seq[k]) \in X

ReplaysThrough(x, t, seq, n) ==
    /\ x[0] = t /\ x[n] = FoldLeft(HistoryRow, t, seq)
    /\ \A k \in 1 .. n : x[k] = HistoryRow(x[k - 1], seq[k])

LEMMA HistoryGoes ==
    ASSUME NEW X, NEW t \in X, NEW n \in Nat, NEW seq, ReplaysWithin(X, seq, n)
    PROVE  \E x \in [0 .. n -> X] : ReplaysThrough(x, t, seq, n)
<1>. USE DEF ReplaysWithin
<1>. DEFINE D == 1 .. n
            step == [p \in X \X (1 .. n) |-> HistoryRow(p[1], seq[p[2]])]
            iter[S \in SUBSET D] ==
                IF S = {} THEN t ELSE LET i == Max(S) IN HistoryRow(iter[S \ {i}], seq[i])
<1>1. FoldLeft(HistoryRow, t, seq) = iter[D]
  BY DEF FoldLeft, MapThenFoldSet
<1>2. iter = CHOOSE f : f = [S \in SUBSET D |->
                IF S = {} THEN t ELSE LET i == Max(S) IN HistoryRow(f[S \ {i}], seq[i])]
  OBVIOUS
<1>. HIDE DEF iter
<1>3. step \in [X \X (1 .. n) -> X]
  OBVIOUS
<1>4. ASSUME NEW f \in [SUBSET D -> X], NEW S \in SUBSET D, S # {}
      PROVE  step[<<f[S \ {Max(S)}], Max(S)>>] = HistoryRow(f[S \ {Max(S)}], seq[Max(S)])
  <2>1. Max(S) \in S
    BY <1>4, MaxIsIn
  <2>2. Max(S) \in 1 .. n /\ f[S \ {Max(S)}] \in X
    BY <2>1
  <2>. QED
    BY <2>2
<1>5. \E f : f = [S \in SUBSET D |->
                IF S = {} THEN t ELSE LET i == Max(S) IN HistoryRow(f[S \ {i}], seq[i])]
  <2>1. PICK f \in [SUBSET D -> X] : IsIter(f, step, t, n)
    <3>. HIDE DEF step
    <3>. QED
      BY <1>3, IterExists DEF HasIter
  <2>2. \A S \in SUBSET D :
          (IF S = {} THEN t ELSE step[<<f[S \ {Max(S)}], Max(S)>>])
          = (IF S = {} THEN t ELSE LET i == Max(S) IN HistoryRow(f[S \ {i}], seq[i]))
    BY <1>4
  <2>3. f = [S \in SUBSET D |->
                IF S = {} THEN t ELSE LET i == Max(S) IN HistoryRow(f[S \ {i}], seq[i])]
    <3>. HIDE DEF step
    <3>. QED
      BY <2>1, <2>2, Zenon DEF IsIter
  <2>. QED
    BY <2>3
<1>6. iter = [S \in SUBSET D |->
                IF S = {} THEN t ELSE LET i == Max(S) IN HistoryRow(iter[S \ {i}], seq[i])]
  BY <1>2, <1>5
<1>7. ASSUME NEW k \in 1 .. n PROVE iter[1 .. k] = HistoryRow(iter[1 .. k - 1], seq[k])
  <2>1. /\ 1 .. k \in SUBSET D /\ 1 .. k # {}
        /\ Max(1 .. k) = k /\ (1 .. k) \ {k} = 1 .. k - 1
    BY FirstPlaces
  <2>2. iter[1 .. k] = HistoryRow(iter[(1 .. k) \ {Max(1 .. k)}], seq[Max(1 .. k)])
    BY <1>6, <2>1
  <2>. QED
    BY <2>1, <2>2
<1>8. iter[1 .. 0] = t
  <2>1. 1 .. 0 = {}
    OBVIOUS
  <2>. QED
    BY <1>6, <2>1
<1>. HIDE DEF D, step, ReplaysWithin
<1>9. PICK x \in [0 .. n -> X] : \A k \in 0 .. n : x[k] = iter[1 .. k]
  <2>1. ASSUME NEW k \in 1 .. n, iter[1 .. k - 1] \in X PROVE iter[1 .. k] \in X
    BY <1>7, <2>1 DEF ReplaysWithin
  <2>2. iter[1 .. 0] \in X
    BY <1>8
  <2>3. StaysIn(iter, n, X)
    BY <2>1, <2>2 DEF StaysIn
  <2>. QED
    BY <2>3, GoesThrough
<1>10. /\ x[0] = t /\ x[n] = iter[1 .. n]
       /\ \A k \in 1 .. n : x[k] = HistoryRow(x[k - 1], seq[k])
  BY <1>7, <1>8, <1>9, FirstPlaces
<1>. QED
  BY <1>1, <1>10 DEF D, ReplaysThrough

FeedsWithin(X, seq, n) ==
    /\ DOMAIN seq = 1 .. n
    /\ \A u \in X : \A k \in 1 .. n : NewLine(u) \in X

FeedsThrough(x, t, seq, n) ==
    /\ x[0] = t /\ x[n] = FoldLeft(LAMBDA v, i : NewLine(v), t, seq)
    /\ \A k \in 1 .. n : x[k] = NewLine(x[k - 1])

LEMMA LinesGo ==
    ASSUME NEW X, NEW t \in X, NEW n \in Nat, NEW seq, FeedsWithin(X, seq, n)
    PROVE  \E x \in [0 .. n -> X] : FeedsThrough(x, t, seq, n)
<1>. USE DEF FeedsWithin
<1>. DEFINE D == 1 .. n
            step == [p \in X \X (1 .. n) |-> NewLine(p[1])]
            iter[S \in SUBSET D] ==
                IF S = {} THEN t ELSE LET i == Max(S) IN NewLine(iter[S \ {i}])
<1>1. FoldLeft(LAMBDA v, i : NewLine(v), t, seq) = iter[D]
  BY DEF FoldLeft, MapThenFoldSet
<1>2. iter = CHOOSE f : f = [S \in SUBSET D |->
                IF S = {} THEN t ELSE LET i == Max(S) IN NewLine(f[S \ {i}])]
  OBVIOUS
<1>. HIDE DEF iter
<1>3. step \in [X \X (1 .. n) -> X]
  OBVIOUS
<1>4. ASSUME NEW f \in [SUBSET D -> X], NEW S \in SUBSET D, S # {}
      PROVE  step[<<f[S \ {Max(S)}], Max(S)>>] = NewLine(f[S \ {Max(S)}])
  <2>1. Max(S) \in S
    BY <1>4, MaxIsIn
  <2>2. Max(S) \in 1 .. n /\ f[S \ {Max(S)}] \in X
    BY <2>1
  <2>. QED
    BY <2>2
<1>5. \E f : f = [S \in SUBSET D |->
                IF S = {} THEN t ELSE LET i == Max(S) IN NewLine(f[S \ {i}])]
  <2>1. PICK f \in [SUBSET D -> X] : IsIter(f, step, t, n)
    <3>. HIDE DEF step
    <3>. QED
      BY <1>3, IterExists DEF HasIter
  <2>2. \A S \in SUBSET D :
          (IF S = {} THEN t ELSE step[<<f[S \ {Max(S)}], Max(S)>>])
          = (IF S = {} THEN t ELSE LET i == Max(S) IN NewLine(f[S \ {i}]))
    BY <1>4
  <2>3. f = [S \in SUBSET D |->
                IF S = {} THEN t ELSE LET i == Max(S) IN NewLine(f[S \ {i}])]
    <3>. HIDE DEF step
    <3>. QED
      BY <2>1, <2>2, Zenon DEF IsIter
  <2>. QED
    BY <2>3
<1>6. iter = [S \in SUBSET D |->
                IF S = {} THEN t ELSE LET i == Max(S) IN NewLine(iter[S \ {i}])]
  BY <1>2, <1>5
<1>7. ASSUME NEW k \in 1 .. n PROVE iter[1 .. k] = NewLine(iter[1 .. k - 1])
  <2>1. /\ 1 .. k \in SUBSET D /\ 1 .. k # {}
        /\ Max(1 .. k) = k /\ (1 .. k) \ {k} = 1 .. k - 1
    BY FirstPlaces
  <2>2. iter[1 .. k] = NewLine(iter[(1 .. k) \ {Max(1 .. k)}])
    BY <1>6, <2>1
  <2>. QED
    BY <2>1, <2>2
<1>8. iter[1 .. 0] = t
  <2>1. 1 .. 0 = {}
    OBVIOUS
  <2>. QED
    BY <1>6, <2>1
<1>. HIDE DEF D, step, FeedsWithin
<1>9. PICK x \in [0 .. n -> X] : \A k \in 0 .. n : x[k] = iter[1 .. k]
  <2>1. ASSUME NEW k \in 1 .. n, iter[1 .. k - 1] \in X PROVE iter[1 .. k] \in X
    BY <1>7, <2>1 DEF FeedsWithin
  <2>2. iter[1 .. 0] \in X
    BY <1>8
  <2>3. StaysIn(iter, n, X)
    BY <2>1, <2>2 DEF StaysIn
  <2>. QED
    BY <2>3, GoesThrough
<1>10. /\ x[0] = t /\ x[n] = iter[1 .. n]
       /\ \A k \in 1 .. n : x[k] = NewLine(x[k - 1])
  BY <1>7, <1>8, <1>9, FirstPlaces
<1>. QED
  BY <1>1, <1>10 DEF D, FeedsThrough

---------------------------------------------
(* A row is painted from its left, glyph by glyph.                         *)

\* What writing leaves alone.
Beside(t, s) ==
    /\ t.insert = s.insert /\ t.alt = s.alt /\ t.row = s.row
    /\ t.history = s.history /\ t.top = s.top /\ t.bottom = s.bottom

LEMMA PageBeside ==
    ASSUME NEW rows, NEW cols, NEW s \in Screens(rows, cols), NEW page
    PROVE  Beside(WithPage(s, page), s) /\ WithPage(s, page).col = s.col /\ WithPage(s, page).wrap = s.wrap
BY DEF WithPage, Beside, Screens

LEMMA PlacedBeside ==
    ASSUME NEW rows \in Pos, NEW cols \in Pos, NEW s \in Screens(rows, cols),
           NEW ch \in Chars
    PROVE  /\ Beside(Placed(s, ch), s)
           /\ Placed(s, ch).col = Least(s.col + Width(ch), cols - 1)
           /\ Placed(s, ch).wrap <=> s.col + Width(ch) >= cols
<1>1. PICK new \in Lines(cols) : new = IF s.insert THEN InsertedLine(s, ch) ELSE OverwrittenLine(s, ch)
  BY InsertedIsLine, OverwrittenIsLine
<1>2. PICK t \in Screens(rows, cols) : t = WithLine(s, new)
  BY LineSet
<1>3. Beside(t, s)
  BY <1>2, PageBeside DEF WithLine
<1>4. PICK c : c = Least(s.col + Width(ch), s.cols - 1)
  OBVIOUS
<1>5. PICK l : l = <<ch>>
  OBVIOUS
<1>6. s.cols = cols
  BY DEF Screens
<1>7. PICK b \in BOOLEAN : b = (s.col + Width(ch) >= s.cols)
  <2>1. CASE s.col + Width(ch) >= s.cols
    <3>1. TRUE = (s.col + Width(ch) >= s.cols)
      BY <2>1
    <3>. QED
      BY <3>1, Zenon
  <2>2. CASE ~(s.col + Width(ch) >= s.cols)
    <3>1. FALSE = (s.col + Width(ch) >= s.cols)
      BY <2>2
    <3>. QED
      BY <3>1, Zenon
  <2>. QED
    BY <2>1, <2>2
<1>8. Placed(s, ch) = [t EXCEPT !.last = l, !.col = c, !.wrap = b]
  BY <1>1, <1>2, <1>4, <1>5, <1>7
     DEF Placed, InsertedLine, OverwrittenLine, Half, Written
<1>9. Beside(Placed(s, ch), t) /\ Placed(s, ch).col = c /\ Placed(s, ch).wrap = b
  BY <1>8 DEF Beside, Screens
<1>. QED
  BY <1>3, <1>4, <1>6, <1>7, <1>9 DEF Beside

\* A row of a screen is painted up to a column, and blank from there.
IsPainted(t, s, line, m, rows, cols) ==
    /\ t \in Screens(rows, cols) /\ Beside(t, s)
    /\ t.col = Least(m, cols - 1) /\ (t.wrap <=> m >= cols)
    /\ \A i \in 1 .. rows : i # s.row + 1 => Page(t)[i] = Page(s)[i]
    /\ \A j \in 1 .. cols : Line(t, s.row)[j] = IF j <= m THEN line[j] ELSE Blank

\* A glyph of a row is painted.
LEMMA PrintsGlyph ==
    ASSUME NEW rows \in Pos, NEW cols \in Pos, NEW s \in Screens(rows, cols), ~s.insert,
           NEW line \in Lines(cols), LineIsWhole(line), NEW k \in 0 .. cols - 1, line[k + 1].w # 0,
           NEW t, IsPainted(t, s, line, k, rows, cols), NEW u, u = Printed(t, line[k + 1].ch)
    PROVE  /\ u \in Screens(rows, cols) /\ Beside(u, s)
           /\ k + line[k + 1].w <= cols /\ line[k + 1].w \in {1, 2}
           /\ u.col = Least(k + line[k + 1].w, cols - 1) /\ (u.wrap <=> k + line[k + 1].w >= cols)
           /\ \A i \in 1 .. rows : i # s.row + 1 => Page(u)[i] = Page(s)[i]
           /\ \A j \in 1 .. cols : Line(u, s.row)[j] =
                 IF j = k + 1 THEN Half(line[j].ch)
                 ELSE IF j <= k + line[k + 1].w THEN line[j] ELSE Blank
<1>1. t \in Screens(rows, cols) /\ Beside(t, s) /\ t.col = Least(k, cols - 1) /\ (t.wrap <=> k >= cols)
  BY DEF IsPainted
<1>2. t.col = k /\ ~t.wrap /\ t.cols = cols /\ t.row = s.row /\ s.row \in 0 .. rows - 1 /\ ~t.insert
  <2>1. Least(k, cols - 1) = k /\ ~(k >= cols)
    BY DEF Least
  <2>2. t.cols = cols /\ s.row \in 0 .. rows - 1
    BY <1>1 DEF Screens
  <2>. QED
    BY <1>1, <2>1, <2>2 DEF Beside
<1>3. PICK cell \in ProperCells : cell = line[k + 1]
  BY DEF Lines
<1>4. PICK ch \in Chars, w \in {1, 2} : ch = cell.ch /\ w = cell.w /\ w = Width(ch)
  BY <1>3, CellParts, Widths
<1>5. w = 2 => k + 1 < cols /\ line[k + 2] = Rest
  <2>. SUFFICES ASSUME w = 2 PROVE k + 1 < cols /\ line[k + 2] = Rest
    OBVIOUS
  <2>1. k + 1 \in 1 .. cols /\ k + 1 + 1 = k + 2
    OBVIOUS
  <2>2. k + 1 < cols /\ line[k + 2].w = 0
    <3>1. \A i \in 1 .. cols : line[i].w = 2 => i < cols /\ line[i + 1].w = 0
      BY WholeLine
    <3>2. line[k + 1].w = 2
      BY <1>3, <1>4
    <3>3. k + 1 < cols /\ line[k + 1 + 1].w = 0
      BY <2>1, <3>1, <3>2
    <3>. QED
      BY <2>1, <3>3
  <2>3. k + 2 \in 1 .. cols
    BY <2>2
  <2>4. ~line[k + 2].mark
    BY <2>2, <2>3, WholeLine
  <2>5. PICK rest \in ProperCells : rest = line[k + 2]
    BY <2>3 DEF Lines
  <2>6. rest.ch = Space /\ rest.mark = FALSE /\ rest.w = 0
    BY <2>2, <2>4, <2>5, CellParts, Widths
  <2>7. rest = [ch |-> rest.ch, w |-> rest.w, mark |-> rest.mark]
    BY CellParts
  <2>. QED
    BY <2>2, <2>5, <2>6, <2>7, BlankIs
<1>6. k + w <= cols /\ k + w \in Nat
  BY <1>5
<1>7. u = Placed(t, ch)
  <2>1. ~(Width(ch) = 2 /\ t.col + 1 >= t.cols)
    BY <1>2, <1>4, <1>5
  <2>. QED
    BY <1>2, <1>3, <1>4, <2>1 DEF Printed
<1>8. /\ u \in Screens(rows, cols) /\ Beside(u, t) /\ u.col = Least(k + w, cols - 1)
      /\ (u.wrap <=> k + w >= cols)
  BY <1>1, <1>2, <1>4, <1>7, PlacedBeside, Places
<1>9. PICK old \in Lines(cols) : old = Line(t, t.row)
  BY <1>1, <1>2, LineOf
<1>10. \A j \in 1 .. cols : old[j] = IF j <= k THEN line[j] ELSE Blank
  BY <1>2, <1>9 DEF IsPainted
<1>11. PICK new \in Lines(cols) : new = OverwrittenLine(t, ch)
  BY <1>1, OverwrittenIsLine
<1>12. \A j \in 1 .. cols : ClearOrphans(old, k, w)[j] = old[j]
  <2>1. DOMAIN old = 1 .. cols
    BY DEF Lines
  <2>2. k + 1 \in 1 .. cols /\ k + w \in 1 .. cols /\ ~(k + 1 <= k) /\ ~(k + w <= k)
    BY <1>6
  <2>3. old[k + 1] = Blank /\ old[k + w] = Blank
    BY <1>10, <2>2
  <2>4. old[k + 1].w # 0 /\ old[k + w].w # 2
    BY <2>3, BlankCells
  <2>. QED
    BY <2>1, <2>4 DEF ClearOrphans
<1>13. \A j \in 1 .. cols : new[j] =
          IF j = k + 1 THEN Half(ch) ELSE IF j = k + 2 /\ w = 2 THEN Rest ELSE old[j]
  <2>1. new = [j \in 1 .. cols |->
           IF j = k + 1 THEN Half(ch) ELSE IF j = k + 2 /\ w = 2 THEN Rest
           ELSE ClearOrphans(old, k, w)[j]]
    BY <1>2, <1>4, <1>9, <1>11 DEF OverwrittenLine
  <2>. QED
    BY <1>12, <2>1
<1>14. \A j \in 1 .. cols : new[j] =
          IF j = k + 1 THEN Half(line[j].ch) ELSE IF j <= k + w THEN line[j] ELSE Blank
  <2>. SUFFICES ASSUME NEW j \in 1 .. cols
                PROVE  new[j] = IF j = k + 1 THEN Half(line[j].ch)
                                ELSE IF j <= k + w THEN line[j] ELSE Blank
    OBVIOUS
  <2>1. CASE j = k + 1
    BY <1>3, <1>4, <1>13, <2>1
  <2>2. CASE j = k + 2 /\ w = 2
    <3>1. j # k + 1 /\ j <= k + w
      BY <2>2
    <3>. QED
      BY <1>5, <1>13, <2>2, <3>1
  <2>3. CASE j # k + 1 /\ ~(j = k + 2 /\ w = 2)
    <3>1. j <= k + w <=> j <= k
      BY <2>3
    <3>2. new[j] = old[j]
      BY <1>13, <2>3
    <3>. QED
      BY <1>10, <2>3, <3>1, <3>2
  <2>. QED
    BY <2>1, <2>2, <2>3
<1>15. PICK page \in Pages(rows, cols) : page = Page(t)
  BY <1>1, PageOf
<1>16. Page(u) = [page EXCEPT ![s.row + 1] = new]
  <2>1. Page(Placed(t, ch)) = PageWith(t, IF t.insert THEN InsertedLine(t, ch) ELSE OverwrittenLine(t, ch))
    BY <1>1, Places
  <2>. QED
    BY <1>2, <1>7, <1>11, <1>15, <2>1 DEF PageWith
<1>17. Line(u, s.row) = new
  <2>1. s.row + 1 \in 1 .. rows
    BY <1>2
  <2>. QED
    BY <1>16, <2>1 DEF Line, Pages
<1>18. \A i \in 1 .. rows : i # s.row + 1 => Page(u)[i] = Page(s)[i]
  <2>1. \A i \in 1 .. rows : i # s.row + 1 => Page(u)[i] = page[i]
    BY <1>16 DEF Pages
  <2>. QED
    BY <1>15, <2>1 DEF IsPainted
<1>19. Beside(u, s)
  BY <1>1, <1>8 DEF Beside
<1>20. w = line[k + 1].w
  BY <1>3, <1>4
<1>. QED
  BY <1>6, <1>8, <1>14, <1>17, <1>18, <1>19, <1>20

\* The mark goes to the glyph that was painted last.
LEMMA MarksGlyph ==
    ASSUME NEW rows \in Pos, NEW cols \in Pos, NEW u \in Screens(rows, cols),
           NEW c \in 0 .. cols - 1, NEW w \in {1, 2}, c + w <= cols,
           u.col = Least(c + w, cols - 1), u.wrap <=> c + w >= cols,
           Line(u, u.row)[c + 1].w = w, w = 2 => Line(u, u.row)[c + 2].w = 0
    PROVE  /\ Marked(u) \in Screens(rows, cols) /\ Beside(Marked(u), u)
           /\ Marked(u).col = u.col /\ Marked(u).wrap = u.wrap
           /\ \A i \in 1 .. rows : i # u.row + 1 => Page(Marked(u))[i] = Page(u)[i]
           /\ \A j \in 1 .. cols : Line(Marked(u), u.row)[j] =
                 IF j = c + 1 THEN [Line(u, u.row)[j] EXCEPT !.mark = TRUE] ELSE Line(u, u.row)[j]
<1>1. u.cols = cols /\ u.row \in 0 .. rows - 1 /\ u.wrap \in BOOLEAN
  BY DEF Screens
<1>2. PICK line \in Lines(cols) : line = Line(u, u.row)
  BY <1>1, LineOf
<1>3. PICK start \in 1 .. cols : start = c + w
  OBVIOUS
<1>4. start = IF u.wrap THEN u.cols ELSE u.col
  <2>1. CASE c + w >= cols
    BY <1>1, <1>3, <2>1
  <2>2. CASE ~(c + w >= cols)
    BY <1>1, <1>3, <2>2 DEF Least
  <2>. QED
    BY <2>1, <2>2
<1>5. PICK at \in 1 .. cols : at = c + 1
  OBVIOUS
<1>6. at = IF start > 1 /\ line[start].w = 0 THEN start - 1 ELSE start
  <2>1. CASE w = 1
    BY <1>2, <1>3, <1>5, <2>1
  <2>2. CASE w = 2
    BY <1>2, <1>3, <1>5, <2>2
  <2>. QED
    BY <2>1, <2>2
<1>7. PICK cell \in ProperCells : cell = line[at]
  BY DEF Lines
<1>8. PICK marked \in ProperCells : marked = [cell EXCEPT !.mark = TRUE]
  BY MarkedCell
<1>9. PICK new \in Lines(cols) : new = [line EXCEPT ![at] = marked]
  BY DEF Lines
<1>10. Marked(u) = WithLine(u, new)
  <2>1. new = [line EXCEPT ![at].mark = TRUE]
    BY <1>7, <1>8, <1>9 DEF Lines
  <2>2. start # 0
    OBVIOUS
  <2>. QED
    BY <1>2, <1>4, <1>6, <2>1, <2>2 DEF Marked
<1>11. \A j \in 1 .. cols : new[j] = IF j = at THEN marked ELSE line[j]
  BY <1>9 DEF Lines
<1>12. PICK page \in Pages(rows, cols) : page = Page(u)
  BY PageOf
<1>13. Page(Marked(u)) = [page EXCEPT ![u.row + 1] = new] /\ Marked(u) \in Screens(rows, cols)
  <2>1. Page(WithLine(u, new)) = PageWith(u, new) /\ WithLine(u, new) \in Screens(rows, cols)
    BY LineSet
  <2>. QED
    BY <1>10, <1>12, <2>1 DEF PageWith
<1>14. Line(Marked(u), u.row) = new /\ \A i \in 1 .. rows : i # u.row + 1 => Page(Marked(u))[i] = page[i]
  <2>1. u.row + 1 \in 1 .. rows
    BY <1>1
  <2>. QED
    BY <1>13, <2>1 DEF Line, Pages
<1>15. Beside(Marked(u), u) /\ Marked(u).col = u.col /\ Marked(u).wrap = u.wrap
  BY <1>10, PageBeside DEF WithLine
<1>. QED
  BY <1>2, <1>5, <1>7, <1>8, <1>11, <1>12, <1>13, <1>14, <1>15

\* A cell of a row is painted.
LEMMA PaintsCell ==
    ASSUME NEW rows \in Pos, NEW cols \in Pos, NEW s \in Screens(rows, cols), ~s.insert,
           NEW line \in Lines(cols), LineIsWhole(line), NEW k \in 0 .. cols - 1, line[k + 1].w # 0,
           NEW t, IsPainted(t, s, line, k, rows, cols)
    PROVE  /\ IsPainted(Painted(t, line[k + 1]), s, line, k + line[k + 1].w, rows, cols)
           /\ k + line[k + 1].w <= cols /\ line[k + 1].w \in {1, 2}
<1>1. PICK cell \in ProperCells : cell = line[k + 1]
  BY DEF Lines
<1>2. PICK u : u = Printed(t, cell.ch)
  OBVIOUS
<1>3. /\ u \in Screens(rows, cols) /\ Beside(u, s)
      /\ k + cell.w <= cols /\ cell.w \in {1, 2}
      /\ u.col = Least(k + cell.w, cols - 1) /\ (u.wrap <=> k + cell.w >= cols)
      /\ \A i \in 1 .. rows : i # s.row + 1 => Page(u)[i] = Page(s)[i]
      /\ \A j \in 1 .. cols : Line(u, s.row)[j] =
            IF j = k + 1 THEN Half(line[j].ch)
            ELSE IF j <= k + cell.w THEN line[j] ELSE Blank
  BY <1>1, <1>2, PrintsGlyph
<1>4. PICK w \in {1, 2} : w = cell.w
  BY <1>3
<1>5. PICK ch \in Chars, mark \in BOOLEAN :
         cell = [ch |-> ch, w |-> w, mark |-> mark] /\ w = Width(ch)
  BY <1>4, CellParts
<1>6. Half(cell.ch) = [ch |-> ch, w |-> w, mark |-> FALSE] /\ cell.ch = ch /\ cell.mark = mark
  BY <1>5, HalfIsCell
<1>7. k + 1 \in 1 .. cols /\ k + 1 <= k + w
  OBVIOUS
<1>8. CASE ~mark
  <2>1. Painted(t, cell) = u
    BY <1>2, <1>4, <1>6, <1>8 DEF Painted
  <2>2. Half(cell.ch) = cell
    BY <1>5, <1>6, <1>8
  <2>3. \A j \in 1 .. cols : Line(u, s.row)[j] = IF j <= k + w THEN line[j] ELSE Blank
    BY <1>1, <1>3, <1>4, <1>7, <2>2
  <2>. QED
    BY <1>1, <1>3, <1>4, <2>1, <2>3 DEF IsPainted
<1>9. CASE mark
  <2>1. Painted(t, cell) = Marked(u)
    BY <1>2, <1>4, <1>6, <1>9 DEF Painted
  <2>2. u.row = s.row
    BY <1>3 DEF Beside
  <2>3. Line(u, u.row)[k + 1].w = w
    BY <1>1, <1>3, <1>6, <1>7, <2>2
  <2>4. w = 2 => Line(u, u.row)[k + 2].w = 0
    <3>. SUFFICES ASSUME w = 2 PROVE Line(u, u.row)[k + 2].w = 0
      OBVIOUS
    <3>1. k + 2 \in 1 .. cols /\ k + 2 # k + 1 /\ k + 2 <= k + w /\ k + 1 + 1 = k + 2
      BY <1>3, <1>4
    <3>2. Line(u, u.row)[k + 2] = line[k + 2]
      BY <1>3, <1>4, <2>2, <3>1
    <3>3. \A i \in 1 .. cols : line[i].w = 2 => i < cols /\ line[i + 1].w = 0
      BY WholeLine
    <3>4. line[k + 1].w = 2
      BY <1>1, <1>4
    <3>5. line[k + 1 + 1].w = 0
      BY <1>7, <3>3, <3>4
    <3>. QED
      BY <3>1, <3>2, <3>5
  <2>5. /\ Marked(u) \in Screens(rows, cols) /\ Beside(Marked(u), u)
        /\ Marked(u).col = u.col /\ Marked(u).wrap = u.wrap
        /\ \A i \in 1 .. rows : i # u.row + 1 => Page(Marked(u))[i] = Page(u)[i]
        /\ \A j \in 1 .. cols : Line(Marked(u), u.row)[j] =
              IF j = k + 1 THEN [Line(u, u.row)[j] EXCEPT !.mark = TRUE] ELSE Line(u, u.row)[j]
    BY <1>3, <1>4, <2>3, <2>4, MarksGlyph
  <2>6. Line(u, s.row)[k + 1] = Half(cell.ch)
    BY <1>1, <1>3, <1>7
  <2>7. [Line(u, s.row)[k + 1] EXCEPT !.mark = TRUE] = cell
    <3>1. PICK no, yes : no = FALSE /\ yes = TRUE
      OBVIOUS
    <3>2. PICK half : half = Line(u, s.row)[k + 1] /\ half = [ch |-> ch, w |-> w, mark |-> no]
      BY <1>6, <2>6, <3>1
    <3>3. [half EXCEPT !.mark = yes] = [ch |-> ch, w |-> w, mark |-> yes]
      BY <3>2, MarkChanged
    <3>4. mark = yes
      BY <1>9, <3>1
    <3>. QED
      BY <1>5, <3>1, <3>2, <3>3, <3>4
  <2>8. \A j \in 1 .. cols : Line(Marked(u), s.row)[j] = IF j <= k + w THEN line[j] ELSE Blank
    <3>. SUFFICES ASSUME NEW j \in 1 .. cols
                  PROVE  Line(Marked(u), s.row)[j] = IF j <= k + w THEN line[j] ELSE Blank
      OBVIOUS
    <3>1. CASE j = k + 1
      BY <1>1, <1>7, <2>2, <2>5, <2>7, <3>1
    <3>2. CASE j # k + 1
      <4>1. Line(Marked(u), s.row)[j] = Line(u, s.row)[j]
        BY <2>2, <2>5, <3>2
      <4>2. Line(u, s.row)[j] = IF j <= k + cell.w THEN line[j] ELSE Blank
        BY <1>3, <3>2
      <4>. QED
        BY <1>4, <4>1, <4>2
    <3>. QED
      BY <3>1, <3>2
  <2>9. /\ Beside(Marked(u), s)
        /\ \A i \in 1 .. rows : i # s.row + 1 => Page(Marked(u))[i] = Page(s)[i]
    BY <1>3, <2>2, <2>5 DEF Beside
  <2>. QED
    BY <1>1, <1>3, <1>4, <2>1, <2>5, <2>8, <2>9 DEF IsPainted
<1>. QED
  BY <1>1, <1>3, <1>8, <1>9

\* How many columns the first k cells of a row cover
Covered(line, k) == IF k > 0 /\ line[k].w = 2 THEN k + 1 ELSE k

LEMMA PaintsMore ==
    ASSUME NEW rows \in Pos, NEW cols \in Pos, NEW s \in Screens(rows, cols), ~s.insert,
           NEW line \in Lines(cols), LineIsWhole(line), NEW k \in 1 .. cols,
           NEW t, IsPainted(t, s, line, Covered(line, k - 1), rows, cols)
    PROVE  IsPainted(Painted(t, line[k]), s, line, Covered(line, k), rows, cols)
<1>1. \A i \in 1 .. cols :
         /\ line[i].w = 2 => i < cols /\ line[i + 1].w = 0
         /\ line[i].w = 0 => i > 1 /\ line[i - 1].w = 2 /\ ~line[i].mark
  BY WholeLine
<1>2. CASE line[k].w = 0
  <2>1. k > 1 /\ line[k - 1].w = 2
    BY <1>1, <1>2
  <2>2. Covered(line, k - 1) = k /\ Covered(line, k) = k
    BY <1>2, <2>1 DEF Covered
  <2>3. Painted(t, line[k]) = t
    BY <1>2 DEF Painted
  <2>. QED
    BY <2>2, <2>3
<1>3. CASE line[k].w # 0
  <2>1. PICK m \in 0 .. cols - 1 : m = k - 1
    OBVIOUS
  <2>2. m + 1 = k
    BY <2>1
  <2>3. ~(m > 0 /\ line[m].w = 2)
    <3>. SUFFICES ASSUME m > 0, line[m].w = 2 PROVE FALSE
      OBVIOUS
    <3>1. m \in 1 .. cols
      OBVIOUS
    <3>. QED
      BY <1>1, <1>3, <2>2, <3>1
  <2>4. Covered(line, k - 1) = m
    BY <2>1, <2>3 DEF Covered
  <2>5. /\ IsPainted(Painted(t, line[m + 1]), s, line, m + line[m + 1].w, rows, cols)
        /\ line[m + 1].w \in {1, 2}
    BY <1>3, <2>2, <2>4, PaintsCell
  <2>6. m + line[m + 1].w = Covered(line, k)
    BY <2>2, <2>5 DEF Covered
  <2>. QED
    BY <2>2, <2>5, <2>6
<1>. QED
  BY <1>2, <1>3

\* The first n cells of a row are painted on a blank row.
LEMMA PaintsRow ==
    ASSUME NEW rows \in Pos, NEW cols \in Pos, NEW s \in Screens(rows, cols), ~s.insert,
           s.col = 0, ~s.wrap, \A j \in 1 .. cols : Line(s, s.row)[j] = Blank,
           NEW line \in Lines(cols), LineIsWhole(line), NEW n \in 0 .. cols,
           NEW seq, DOMAIN seq = 1 .. n, \A k \in 1 .. n : seq[k] = line[k]
    PROVE  IsPainted(FoldLeft(Painted, s, seq), s, line, Covered(line, n), rows, cols)
<1>. DEFINE X == Screens(rows, cols)
<1>0. n \in Nat /\ s \in X
  OBVIOUS
<1>1. ASSUME NEW u \in X, NEW cell \in ProperCells PROVE Painted(u, cell) \in X
  <2>1. cell.ch \in Chars
    BY CellParts
  <2>2. Printed(u, cell.ch) \in X
    BY <2>1, RowsWritten
  <2>3. Marked(Printed(u, cell.ch)) \in X
    BY <2>2, RowsWritten
  <2>. QED
    BY <2>2, <2>3 DEF Painted
<1>2. \A u \in X : \A k \in 1 .. n : Painted(u, seq[k]) \in X
  <2>1. \A k \in 1 .. n : seq[k] \in ProperCells
    BY DEF Lines
  <2>. QED
    BY <1>1, <2>1
<1>3. PICK x \in [0 .. n -> X] : PaintsThrough(x, s, seq, n)
  <2>1. PaintsWithin(X, seq, n)
    BY <1>2 DEF PaintsWithin
  <2>. HIDE DEF X
  <2>2. n \in Nat /\ s \in X
    BY <1>0
  <2>. QED
    BY <2>1, <2>2, PaintingGoes
<1>3a. /\ x[0] = s /\ x[n] = FoldLeft(Painted, s, seq)
       /\ \A k \in 1 .. n : x[k] = Painted(x[k - 1], seq[k])
  BY <1>3 DEF PaintsThrough
<1>. DEFINE H == {k \in 0 .. n : IsPainted(x[k], s, line, Covered(line, k), rows, cols)}
<1>4. 0 \in H
  <2>1. Covered(line, 0) = 0 /\ Least(0, cols - 1) = 0
    BY DEF Covered, Least
  <2>2. IsPainted(s, s, line, 0, rows, cols)
    BY <2>1 DEF IsPainted, Beside
  <2>. QED
    BY <1>3a, <2>1, <2>2
<1>5. ASSUME NEW k \in 1 .. n, k - 1 \in H PROVE k \in H
  <2>1. k \in 1 .. cols /\ k \in 0 .. n
    OBVIOUS
  <2>2. IsPainted(x[k - 1], s, line, Covered(line, k - 1), rows, cols)
    BY <1>5
  <2>3. IsPainted(Painted(x[k - 1], line[k]), s, line, Covered(line, k), rows, cols)
    BY <2>1, <2>2, PaintsMore
  <2>4. x[k] = Painted(x[k - 1], line[k])
    BY <1>3a
  <2>. QED
    BY <2>1, <2>3, <2>4
<1>6. \A k \in 0 .. n : k \in H
  <2>. HIDE DEF H
  <2>. QED
    BY <1>0, <1>4, <1>5, Upward
<1>7. n \in H
  <2>1. n \in 0 .. n
    OBVIOUS
  <2>. QED
    BY <1>6, <2>1
<1>. QED
  BY <1>3a, <1>7

---------------------------------------------
(* The page is painted row by row, on a screen that was cleared.           *)

\* Writing and moving lines leave the page that is shown and the insert mode alone.
SameMode(t, s) == t.alt = s.alt /\ t.insert = s.insert

LEMMA PageSameMode ==
    ASSUME NEW rows, NEW cols, NEW s \in Screens(rows, cols), NEW page
    PROVE  SameMode(WithPage(s, page), s)
BY DEF WithPage, SameMode, Screens

LEMMA ScrollSameMode ==
    ASSUME NEW rows \in Pos, NEW cols \in Pos, NEW s \in Screens(rows, cols)
    PROVE  SameMode(ScrolledUp(s), s)
<1>1. SameMode(s, s)
  BY DEF SameMode
<1>2. CASE s.top > s.bottom \/ s.alt
  BY <1>1, <1>2, PageSameMode DEF ScrolledUp, Moved
<1>3. CASE ~(s.top > s.bottom) /\ ~s.alt /\ s.top = 0 /\ s.bottom = s.rows - 1
  <2>1. PICK p, h : ScrolledUp(s) = [s EXCEPT !.primary = p, !.history = h]
    <3>1. PICK p : p = Append(Tail(s.primary), Blanks(s.cols))
      OBVIOUS
    <3>2. PICK h : h = IF HistoryCap = 0 THEN s.history
                       ELSE Append(IF Len(s.history) >= HistoryCap THEN Tail(s.history) ELSE s.history,
                                   Head(s.primary))
      OBVIOUS
    <3>3. ScrolledUp(s) = [s EXCEPT !.primary = p, !.history = h]
      BY <1>3, <3>1, <3>2, Zenon DEF ScrolledUp
    <3>. QED
      BY <3>3
  <2>. QED
    BY <2>1 DEF SameMode, Screens
<1>4. CASE ~(s.top > s.bottom) /\ ~s.alt /\ ~(s.top = 0 /\ s.bottom = s.rows - 1)
  <2>1. ScrolledUp(s) = Moved(s, s.top, s.bottom + 1)
    BY <1>4 DEF ScrolledUp
  <2>. QED
    BY <2>1, PageSameMode DEF Moved
<1>. QED
  BY <1>2, <1>3, <1>4

LEMMA FeedSameMode ==
    ASSUME NEW rows \in Pos, NEW cols \in Pos, NEW s \in Screens(rows, cols)
    PROVE  /\ SameMode(LineFed(s), s)
           /\ Returned(s) \in Screens(rows, cols) /\ SameMode(Returned(s), s)
           /\ NewLine(s) \in Screens(rows, cols) /\ SameMode(NewLine(s), s)
           /\ SameMode(Wrapped(s), s)
<1>1. ASSUME NEW u \in Screens(rows, cols) PROVE SameMode(LineFed(u), u)
  <2>1. CASE u.row = u.bottom
    BY <2>1, ScrollSameMode DEF LineFed
  <2>2. CASE u.row # u.bottom /\ u.row + 1 < u.rows
    <3>1. PICK r : LineFed(u) = [u EXCEPT !.row = r]
      BY <2>2, Zenon DEF LineFed
    <3>. QED
      BY <3>1 DEF SameMode, Screens
  <2>3. CASE u.row # u.bottom /\ ~(u.row + 1 < u.rows)
    BY <2>3 DEF LineFed, SameMode
  <2>. QED
    BY <2>1, <2>2, <2>3
<1>2. PICK r \in Screens(rows, cols) : r = Returned(s)
  BY Moves
<1>3. SameMode(r, s)
  BY <1>2 DEF Returned, Unwrapped, SameMode, Screens
<1>4. NewLine(s) \in Screens(rows, cols) /\ SameMode(NewLine(s), s)
  <2>1. NewLine(s) = LineFed(r)
    BY <1>2 DEF NewLine
  <2>2. LineFed(r) \in Screens(rows, cols) /\ SameMode(LineFed(r), r)
    BY <1>1, LinesMove
  <2>. QED
    BY <1>3, <2>1, <2>2 DEF SameMode
<1>5. SameMode(Wrapped(s), s)
  <2>1. Wrapped(s) = LineFed(r)
    BY <1>2 DEF Wrapped, Returned
  <2>. QED
    BY <1>1, <1>3, <2>1 DEF SameMode
<1>. QED
  BY <1>1, <1>2, <1>3, <1>4, <1>5

LEMMA WriteSameMode ==
    ASSUME NEW rows \in Pos, NEW cols \in Pos, NEW s \in Screens(rows, cols),
           NEW cell \in ProperCells
    PROVE  Painted(s, cell) \in Screens(rows, cols) /\ SameMode(Painted(s, cell), s)
<1>1. cell.ch \in Chars
  BY CellParts
<1>2. PICK here \in Screens(rows, cols) : here = (IF s.wrap THEN Wrapped(s) ELSE s) /\ SameMode(here, s)
  BY FeedSameMode, WrapKeepsWhole DEF SameMode
<1>3. PICK there \in Screens(rows, cols) :
         /\ there = IF Width(cell.ch) = 2 /\ here.col + 1 >= here.cols THEN Wrapped(here) ELSE here
         /\ SameMode(there, here)
  BY FeedSameMode, WrapKeepsWhole DEF SameMode
<1>4. PICK t \in Screens(rows, cols) : t = Printed(s, cell.ch) /\ SameMode(t, s)
  <2>1. Printed(s, cell.ch) = Placed(there, cell.ch)
    BY <1>2, <1>3, Zenon DEF Printed
  <2>2. Placed(there, cell.ch) \in Screens(rows, cols) /\ Beside(Placed(there, cell.ch), there)
    BY <1>1, PlacedBeside, Places
  <2>. QED
    BY <1>2, <1>3, <2>1, <2>2 DEF Beside, SameMode
<1>5. PICK u \in Screens(rows, cols) : u = Marked(t)
  BY RowsWritten
<1>6. SameMode(u, t)
  <2>1. CASE (IF t.wrap THEN t.cols ELSE t.col) = 0
    BY <1>5, <2>1 DEF Marked, SameMode
  <2>2. CASE (IF t.wrap THEN t.cols ELSE t.col) # 0
    BY <1>5, <2>2, PageSameMode DEF Marked, WithLine
  <2>. QED
    BY <2>1, <2>2
<1>. QED
  BY <1>4, <1>5, <1>6 DEF Painted, SameMode

\* What a move of the cursor does.
IsMoved(t, s, r, c, rows, cols) ==
    /\ t \in Screens(rows, cols) /\ SameMode(t, s)
    /\ t.row = Least(r, rows - 1) /\ t.col = Least(c, cols - 1) /\ ~t.wrap
    /\ Page(t) = Page(s) /\ t.primary = s.primary /\ t.history = s.history
    /\ t.top = s.top /\ t.bottom = s.bottom

LEMMA MovesSameMode ==
    ASSUME NEW rows \in Pos, NEW cols \in Pos, NEW s \in Screens(rows, cols),
           NEW r \in Nat, NEW c \in Nat
    PROVE  IsMoved(CursorSet(s, r, c), s, r, c, rows, cols)
<1>1. s.rows = rows /\ s.cols = cols
  BY DEF Screens
<1>2. PICK i, j : i = Least(r, rows - 1) /\ j = Least(c, cols - 1)
  OBVIOUS
<1>3. CursorSet(s, r, c) = [[s EXCEPT !.wrap = FALSE] EXCEPT !.row = i, !.col = j]
  BY <1>1, <1>2 DEF CursorSet, Unwrapped
<1>4. CursorSet(s, r, c) \in Screens(rows, cols)
  BY CursorMoves
<1>. QED
  BY <1>2, <1>3, <1>4 DEF IsMoved, SameMode, Page, Screens

KeptAs(rows, cols, s) == {t \in Screens(rows, cols) : SameMode(t, s)}

\* However cells are painted, the page that is shown and the insert mode stay.
LEMMA RowKeepsMode ==
    ASSUME NEW rows \in Pos, NEW cols \in Pos, NEW s, NEW t \in KeptAs(rows, cols, s),
           NEW n \in Nat, NEW seq, DOMAIN seq = 1 .. n, \A k \in 1 .. n : seq[k] \in ProperCells
    PROVE  FoldLeft(Painted, t, seq) \in KeptAs(rows, cols, s)
<1>. DEFINE X == KeptAs(rows, cols, s)
<1>1. \A u \in X : \A k \in 1 .. n : Painted(u, seq[k]) \in X
  BY WriteSameMode DEF KeptAs, SameMode
<1>2. PaintsWithin(X, seq, n) /\ t \in X
  BY <1>1 DEF PaintsWithin
<1>. HIDE DEF X
<1>3. PICK x \in [0 .. n -> X] : PaintsThrough(x, t, seq, n)
  BY <1>2, PaintingGoes
<1>4. x[n] \in X /\ x[n] = FoldLeft(Painted, t, seq)
  BY <1>3 DEF PaintsThrough
<1>. QED
  BY <1>4 DEF X

\* The rows of a page are painted up to one, and blank from there.
IsPagePainted(t, s, page, k, rows, cols) ==
    /\ t \in Screens(rows, cols) /\ SameMode(t, s) /\ t.history = s.history
    /\ \A i \in 1 .. rows : Page(t)[i] = IF i <= k THEN page[i] ELSE Blanks(cols)

LEMMA PaintsNextRow ==
    ASSUME NEW rows \in Pos, NEW cols \in Pos, NEW s \in Screens(rows, cols), ~s.insert,
           NEW page \in Pages(rows, cols), IsWhole(page), NEW k \in 1 .. rows,
           NEW t, IsPagePainted(t, s, page, k - 1, rows, cols)
    PROVE  IsPagePainted(RowAt(t, page, k), s, page, k, rows, cols)
<1>1. PICK v \in Screens(rows, cols) :
         /\ v = CursorSet(t, k - 1, 0) /\ SameMode(v, t) /\ v.row = k - 1 /\ v.col = 0 /\ ~v.wrap
         /\ Page(v) = Page(t) /\ v.history = t.history
  <2>1. PICK r \in Nat, c \in Nat : r = k - 1 /\ c = 0
    OBVIOUS
  <2>2. Least(r, rows - 1) = r /\ Least(c, cols - 1) = c
    BY <2>1 DEF Least
  <2>3. t \in Screens(rows, cols)
    BY DEF IsPagePainted
  <2>4. PICK v : v = CursorSet(t, r, c)
    OBVIOUS
  <2>5. /\ v \in Screens(rows, cols) /\ SameMode(v, t)
        /\ v.row = Least(r, rows - 1) /\ v.col = Least(c, cols - 1) /\ ~v.wrap
        /\ Page(v) = Page(t) /\ v.history = t.history
    <3>1. IsMoved(v, t, r, c, rows, cols)
      BY <2>3, <2>4, MovesSameMode
    <3>. QED
      BY <3>1 DEF IsMoved
  <2>. QED
    BY <2>1, <2>2, <2>4, <2>5
<1>2. ~v.insert /\ SameMode(v, s) /\ v.history = s.history
  BY <1>1 DEF IsPagePainted, SameMode
<1>3. PICK line \in Lines(cols) : line = page[k] /\ LineIsWhole(line)
  BY WholePage DEF Pages
<1>4. \A j \in 1 .. cols : Line(v, v.row)[j] = Blank
  <2>1. v.row + 1 = k /\ k \in 1 .. rows /\ ~(k <= k - 1)
    BY <1>1
  <2>2. Line(v, v.row) = Blanks(cols)
    BY <1>1, <2>1 DEF Line, IsPagePainted
  <2>. QED
    BY <2>2 DEF Blanks
<1>5. PICK u : u = FoldLeft(Painted, v, line)
  OBVIOUS
<1>6. IsPainted(u, v, line, Covered(line, cols), rows, cols)
  <2>1. DOMAIN line = 1 .. cols /\ cols \in 0 .. cols
    BY DEF Lines
  <2>2. IsPainted(FoldLeft(Painted, v, line), v, line, Covered(line, cols), rows, cols)
    BY <1>1, <1>2, <1>3, <1>4, <2>1, PaintsRow
  <2>. QED
    BY <1>5, <2>2
<1>7. Covered(line, cols) = cols
  <2>1. cols \in 1 .. cols /\ ~(cols < cols)
    OBVIOUS
  <2>2. line[cols].w # 2
    BY <1>3, <2>1, WholeLine
  <2>. QED
    BY <2>2 DEF Covered
<1>8. /\ u \in Screens(rows, cols) /\ Beside(u, v)
      /\ \A i \in 1 .. rows : i # v.row + 1 => Page(u)[i] = Page(v)[i]
      /\ \A j \in 1 .. cols : Line(u, v.row)[j] = line[j]
  BY <1>6, <1>7 DEF IsPainted
<1>9. Page(u)[k] = line
  <2>1. v.row \in 0 .. rows - 1 /\ v.row + 1 = k
    BY <1>1
  <2>2. PICK row \in Lines(cols) : row = Line(u, v.row)
    BY <1>8, <2>1, LineOf
  <2>3. row = line
    BY <1>8, <2>2 DEF Lines
  <2>. QED
    BY <2>1, <2>2, <2>3 DEF Line
<1>10. \A i \in 1 .. rows : Page(u)[i] = IF i <= k THEN page[i] ELSE Blanks(cols)
  <2>. SUFFICES ASSUME NEW i \in 1 .. rows PROVE Page(u)[i] = IF i <= k THEN page[i] ELSE Blanks(cols)
    OBVIOUS
  <2>1. CASE i = k
    BY <1>3, <1>9, <2>1
  <2>2. CASE i # k
    <3>1. Page(u)[i] = Page(t)[i]
      BY <1>1, <1>8, <2>2
    <3>2. Page(t)[i] = IF i <= k - 1 THEN page[i] ELSE Blanks(cols)
      BY DEF IsPagePainted
    <3>3. i <= k - 1 <=> i <= k
      BY <2>2
    <3>. QED
      BY <3>1, <3>2, <3>3
  <2>. QED
    BY <2>1, <2>2
<1>11. SameMode(u, s) /\ u.history = s.history
  BY <1>2, <1>8 DEF Beside, SameMode
<1>12. IsPagePainted(u, s, page, k, rows, cols)
  BY <1>8, <1>10, <1>11 DEF IsPagePainted
<1>. QED
  BY <1>1, <1>3, <1>5, <1>12 DEF RowAt

LEMMA PaintsPageWithout ==
    ASSUME NEW rows \in Pos, NEW cols \in Pos, NEW s, NEW page \in Pages(rows, cols),
           NEW seq, DOMAIN seq = 1 .. rows, \A i \in 1 .. rows : seq[i] = i
    PROVE  PaintsPageWithin(KeptAs(rows, cols, s), seq, rows, page)
<1>. DEFINE X == KeptAs(rows, cols, s)
<1>1. ASSUME NEW u \in X, NEW k \in 1 .. rows
      PROVE  RowAt(u, page, seq[k]) \in X
  <2>1. PICK r \in Nat, c \in Nat : r = k - 1 /\ c = 0
    OBVIOUS
  <2>2. PICK v \in X : v = CursorSet(u, r, c)
    <3>1. u \in Screens(rows, cols) /\ SameMode(u, s)
      BY DEF KeptAs
    <3>2. IsMoved(CursorSet(u, r, c), u, r, c, rows, cols)
      BY <3>1, MovesSameMode
    <3>. QED
      BY <3>1, <3>2 DEF IsMoved, KeptAs, SameMode
  <2>3. PICK line \in Lines(cols) : line = page[k]
    BY DEF Pages
  <2>4. DOMAIN line = 1 .. cols /\ \A j \in 1 .. cols : line[j] \in ProperCells
    BY DEF Lines
  <2>5. cols \in Nat /\ seq[k] = k
    OBVIOUS
  <2>6. FoldLeft(Painted, v, line) \in X
    BY <2>4, <2>5, RowKeepsMode
  <2>. QED
    BY <2>1, <2>2, <2>3, <2>5, <2>6 DEF RowAt
<1>. QED
  BY <1>1 DEF PaintsPageWithin

GoesByRows(x, s, seq, page, rows) ==
    /\ x[0] = s
    /\ \A k \in 1 .. rows : x[k] = RowAt(x[k - 1], page, seq[k])

IsBlankPage(page, rows, cols) == \A i \in 1 .. rows : page[i] = Blanks(cols)

LEMMA RowByRow ==
    ASSUME NEW rows \in Pos, NEW cols \in Pos, NEW s \in Screens(rows, cols), ~s.insert,
           IsBlankPage(Page(s), rows, cols),
           NEW page \in Pages(rows, cols), IsWhole(page),
           NEW seq, \A i \in 1 .. rows : seq[i] = i,
           NEW x, GoesByRows(x, s, seq, page, rows)
    PROVE  /\ x[rows] \in Screens(rows, cols) /\ SameMode(x[rows], s)
           /\ x[rows].history = s.history /\ Page(x[rows]) = page
<1>. DEFINE H == {k \in 0 .. rows : IsPagePainted(x[k], s, page, k, rows, cols)}
<1>1. 0 \in H
  <2>1. \A i \in 1 .. rows : ~(i <= 0)
    OBVIOUS
  <2>2. IsPagePainted(s, s, page, 0, rows, cols)
    BY <2>1 DEF IsPagePainted, SameMode, IsBlankPage
  <2>. QED
    BY <2>2 DEF GoesByRows
<1>2. ASSUME NEW k \in 1 .. rows, k - 1 \in H PROVE k \in H
  <2>1. IsPagePainted(x[k - 1], s, page, k - 1, rows, cols)
    BY <1>2
  <2>2. IsPagePainted(RowAt(x[k - 1], page, k), s, page, k, rows, cols)
    BY <2>1, PaintsNextRow
  <2>3. x[k] = RowAt(x[k - 1], page, k)
    BY DEF GoesByRows
  <2>4. k \in 0 .. rows
    OBVIOUS
  <2>. QED
    BY <2>2, <2>3, <2>4
<1>3. \A k \in 0 .. rows : k \in H
  <2>1. rows \in Nat
    OBVIOUS
  <2>. HIDE DEF H
  <2>. QED
    BY <1>1, <1>2, <2>1, Upward
<1>4. IsPagePainted(x[rows], s, page, rows, rows, cols)
  BY <1>3
<1>5. PICK p \in Pages(rows, cols) : p = Page(x[rows])
  BY <1>4, PageOf DEF IsPagePainted
<1>6. p = page
  <2>1. \A i \in 1 .. rows : p[i] = page[i]
    BY <1>4, <1>5 DEF IsPagePainted
  <2>. QED
    BY <2>1 DEF Pages
<1>. QED
  BY <1>4, <1>5, <1>6 DEF IsPagePainted

PaintedPage(s, page, seq) ==
    FoldLeft(LAMBDA v, i : RowAt(v, page, i), s, seq)

LEMMA PaintsPage ==
    ASSUME NEW rows \in Pos, NEW cols \in Pos, NEW s \in Screens(rows, cols), ~s.insert,
           IsBlankPage(Page(s), rows, cols),
           NEW page \in Pages(rows, cols), IsWhole(page),
           NEW seq, DOMAIN seq = 1 .. rows, \A i \in 1 .. rows : seq[i] = i
    PROVE  \E t \in Screens(rows, cols) :
              /\ t = PaintedPage(s, page, seq)
              /\ SameMode(t, s) /\ t.history = s.history /\ Page(t) = page
<1>. DEFINE X == KeptAs(rows, cols, s)
<1>1. s \in X /\ rows \in Nat
  BY DEF KeptAs, SameMode
<1>2. PaintsPageWithin(X, seq, rows, page)
  BY PaintsPageWithout
<1>. HIDE DEF X
<1>3. PICK x \in [0 .. rows -> X] : PaintsPageThrough(x, s, seq, rows, page)
  BY <1>1, <1>2, PageGoes
<1>4. GoesByRows(x, s, seq, page, rows)
  BY <1>3, Zenon DEF PaintsPageThrough, GoesByRows
<1>5. /\ x[rows] \in Screens(rows, cols) /\ SameMode(x[rows], s)
      /\ x[rows].history = s.history /\ Page(x[rows]) = page
  BY <1>4, RowByRow
<1>6. x[rows] = PaintedPage(s, page, seq)
  BY <1>3, Zenon DEF PaintsPageThrough, PaintedPage
<1>. QED
  BY <1>5, <1>6

\* Erasing leaves a blank page and everything else.
IsErased(t, s, rows, cols) ==
    /\ t \in Screens(rows, cols) /\ SameMode(t, s) /\ IsBlankPage(Page(t), rows, cols) /\ ~t.wrap
    /\ t.history = s.history /\ t.top = s.top /\ t.bottom = s.bottom /\ t.saved = s.saved

LEMMA ErasesAll ==
    ASSUME NEW rows \in Pos, NEW cols \in Pos, NEW s \in Screens(rows, cols)
    PROVE  IsErased(ErasedAll(s), s, rows, cols)
<1>1. s.rows = rows /\ s.cols = cols
  BY DEF Screens
<1>2. PICK blank \in Lines(cols) : blank = Blanks(cols)
  BY BlankLines
<1>3. PICK page \in Pages(rows, cols) : page = [i \in 1 .. rows |-> blank]
  BY DEF Pages
<1>4. PICK u \in Screens(rows, cols) : u = Unwrapped(s)
  BY Moves
<1>5. ErasedAll(s) = WithPage(u, page)
  <2>1. \A i \in 1 .. rows : i - 1 \in 0 .. rows
    OBVIOUS
  <2>2. [i \in 1 .. s.rows |-> IF i - 1 \in 0 .. s.rows THEN Blanks(s.cols) ELSE Page(s)[i]] = page
    BY <1>1, <1>2, <1>3, <2>1
  <2>. QED
    BY <1>4, <2>2 DEF ErasedAll, RowsErased
<1>6. /\ u.alt = s.alt /\ u.insert = s.insert /\ ~u.wrap /\ u.history = s.history
      /\ u.top = s.top /\ u.bottom = s.bottom /\ u.saved = s.saved
  BY <1>4 DEF Unwrapped, Screens
<1>7. /\ WithPage(u, page) \in Screens(rows, cols) /\ Page(WithPage(u, page)) = page
  BY PageSet
<1>8. /\ WithPage(u, page).alt = u.alt /\ WithPage(u, page).insert = u.insert
      /\ WithPage(u, page).wrap = u.wrap
      /\ WithPage(u, page).history = u.history /\ WithPage(u, page).top = u.top
      /\ WithPage(u, page).bottom = u.bottom /\ WithPage(u, page).saved = u.saved
  BY DEF WithPage, Screens
<1>9. IsBlankPage(page, rows, cols)
  BY <1>2, <1>3 DEF IsBlankPage
<1>. QED
  BY <1>5, <1>6, <1>7, <1>8, <1>9 DEF IsErased, SameMode

\* The screen that the replay of a page starts from.
IsReset(t, rows, cols) ==
    /\ t \in Screens(rows, cols) /\ ~t.insert /\ t.history = <<>>

\* The normal page of a screen that is new and reset, and the alternate page entered from one.
NormalOf(rows, cols) == Primary(ResetSoft(Fresh(rows, cols)), 1049)
AlternateOf(t)       == Alternate(t, 1049)

LEMMA ResetsPrimary ==
    ASSUME NEW rows \in Pos, NEW cols \in Pos,
           NEW t, t = NormalOf(rows, cols)
    PROVE  IsReset(t, rows, cols) /\ ~t.alt /\ t.top = 0 /\ t.bottom = rows - 1
<1>1. PICK no : no = FALSE
  OBVIOUS
<1>2. PICK f \in Screens(rows, cols) :
         f = Fresh(rows, cols) /\ f.alt = no /\ f.history = <<>>
  BY <1>1, FreshScreen DEF Fresh
<1>3. PICK r \in Screens(rows, cols) : r = ResetSoft(f)
  BY ModesChange
<1>4. /\ r.insert = no /\ r.alt = no /\ r.saved = <<>> /\ r.history = <<>>
      /\ r.top = 0 /\ r.bottom = rows - 1
  <2>1. f.rows = rows
    BY DEF Screens
  <2>2. PICK u \in Screens(rows, cols) : u = Unwrapped(f)
    BY Moves
  <2>3. u.alt = no /\ u.history = <<>>
    BY <1>2, <2>2 DEF Unwrapped, Screens
  <2>4. r = [u EXCEPT !.insert = no, !.saved = <<>>, !.top = 0, !.bottom = rows - 1]
    BY <1>1, <1>3, <2>1, <2>2 DEF ResetSoft
  <2>. QED
    BY <2>3, <2>4 DEF Screens
<1>5. PICK u \in Screens(rows, cols) : u = Unwrapped(r)
  BY Moves
<1>6. /\ u.insert = no /\ u.alt = no /\ u.saved = <<>> /\ u.history = <<>>
      /\ u.top = 0 /\ u.bottom = rows - 1
  BY <1>4, <1>5 DEF Unwrapped, Screens
<1>7. PICK e \in Screens(rows, cols) : e = ErasedAll(u)
  BY Erases
<1>8. /\ e.insert = no /\ e.saved = <<>> /\ e.history = <<>>
      /\ e.top = 0 /\ e.bottom = rows - 1
  BY <1>6, <1>7, ErasesAll DEF IsErased, SameMode
<1>9. PICK l \in Screens(rows, cols) : l = [e EXCEPT !.alt = no]
  BY <1>1, FieldSet
<1>10. /\ l.insert = no /\ l.saved = <<>> /\ l.history = <<>> /\ l.alt = no
       /\ l.top = 0 /\ l.bottom = rows - 1
  BY <1>8, <1>9 DEF Screens
<1>11. t = l
  <2>1. PICK mode : mode = 1049
    OBVIOUS
  <2>2. mode # 47 /\ mode # 1047
    BY <2>1
  <2>3. Restored(l) = l
    BY <1>10 DEF Restored
  <2>4. Left(e) = l
    BY <1>1, <1>9 DEF Left
  <2>5. Primary(r, mode) = Restored(Left(ErasedAll(Unwrapped(r))))
    BY <2>1, <2>2 DEF Primary
  <2>6. t = Primary(r, mode)
    BY <1>2, <1>3, <2>1 DEF NormalOf
  <2>. QED
    BY <1>5, <1>7, <2>3, <2>4, <2>5, <2>6
<1>. QED
  BY <1>1, <1>10, <1>11 DEF IsReset

LEMMA EntersAlternate ==
    ASSUME NEW rows \in Pos, NEW cols \in Pos, NEW t, IsReset(t, rows, cols),
           NEW u, u = AlternateOf(t)
    PROVE  IsReset(u, rows, cols) /\ u.alt
<1>1. PICK no, yes : no = FALSE /\ yes = TRUE
  OBVIOUS
<1>2. PICK v \in Screens(rows, cols) : v = Unwrapped(t)
  BY Moves DEF IsReset
<1>3. v.insert = no /\ v.history = <<>>
  <2>1. t.insert = no
    BY <1>1 DEF IsReset, Screens
  <2>. QED
    BY <1>2, <2>1 DEF IsReset, Unwrapped, Screens
<1>4. PICK w \in Screens(rows, cols) : w = Saved(v)
  BY Moves
<1>5. w.insert = no /\ w.history = <<>>
  BY <1>3, <1>4 DEF Saved, Screens
<1>6. PICK blank \in Pages(rows, cols) : blank = BlankPage(w.rows, w.cols)
  BY BlankLines DEF Screens
<1>7. u = [w EXCEPT !.alt = yes, !.alternate = blank, !.row = 0, !.col = 0]
  <2>1. PICK mode : mode = 1049
    OBVIOUS
  <2>2. mode # 47 /\ mode # 1047
    BY <2>1
  <2>3. Alternate(t, mode) = Entered(Saved(Unwrapped(t)), TRUE)
    BY <2>1, <2>2 DEF Alternate
  <2>4. u = Alternate(t, mode)
    BY <2>1, SMTT(30) DEF AlternateOf
  <2>5. u = Entered(w, TRUE)
    BY <1>2, <1>4, <2>3, <2>4, Zenon
  <2>. QED
    BY <1>1, <1>6, <2>5 DEF Entered
<1>8. PICK x \in Screens(rows, cols) : x = [w EXCEPT !.alt = yes]
  BY <1>1, FieldSet
<1>9. PICK y \in Screens(rows, cols) : y = [x EXCEPT !.alternate = blank]
  BY DEF Screens
<1>10. PICK z \in Screens(rows, cols) : z = [y EXCEPT !.row = 0]
  <2>1. 0 \in 0 .. rows - 1
    OBVIOUS
  <2>. QED
    BY <2>1, FieldSet
<1>11. [z EXCEPT !.col = 0] \in Screens(rows, cols)
  <2>1. 0 \in 0 .. cols - 1
    OBVIOUS
  <2>. QED
    BY <2>1, FieldSet
<1>12. u = [z EXCEPT !.col = 0]
  BY <1>7, <1>8, <1>9, <1>10
<1>13. u.alt = yes /\ u.insert = no /\ u.history = <<>>
  BY <1>5, <1>7 DEF Screens
<1>. QED
  BY <1>1, <1>11, <1>12, <1>13 DEF IsReset

\* A row is replayed up to its last character that is not blank.
LEMMA LastIsShown ==
    ASSUME NEW n \in Nat, NEW line, DOMAIN line = 1 .. n
    PROVE  /\ ReplayedWidth(line) \in 0 .. n
           /\ \A i \in 1 .. n : i > ReplayedWidth(line) => line[i].ch = Space
<1>. DEFINE shown == {i \in 1 .. n : line[i].ch # Space}
<1>1. ReplayedWidth(line) = IF shown = {} THEN 0 ELSE CHOOSE i \in shown : \A j \in shown : j <= i
  BY DEF ReplayedWidth, Space
<1>2. shown \subseteq 1 .. n /\ \A i \in 1 .. n : i \notin shown => line[i].ch = Space
  OBVIOUS
<1>. HIDE DEF shown
<1>3. CASE shown = {}
  BY <1>1, <1>2, <1>3
<1>4. CASE shown # {}
  <2>1. PICK m \in shown : \A j \in shown : j <= m
    <3>1. Max(shown) \in shown /\ \A j \in shown : j <= Max(shown)
      BY <1>2, <1>4, MaxIsIn
    <3>. QED
      BY <3>1
  <2>2. PICK w \in shown : w = ReplayedWidth(line) /\ \A j \in shown : j <= w
    BY <1>1, <1>4, <2>1
  <2>3. \A i \in 1 .. n : i > w => i \notin shown
    <3>. SUFFICES ASSUME NEW i \in shown, i \in 1 .. n, i > w PROVE FALSE
      OBVIOUS
    <3>1. w \in 1 .. n /\ i <= w
      BY <1>2, <2>2
    <3>. QED
      BY <3>1
  <2>. QED
    BY <1>2, <2>2, <2>3
<1>. QED
  BY <1>3, <1>4

\* The cells of a row that are replayed.
LEMMA ReplayedCells ==
    ASSUME NEW line \in Seq(ProperCells), NEW seq, seq = SubSeq(line, 1, ReplayedWidth(line))
    PROVE  /\ ReplayedWidth(line) \in Nat /\ DOMAIN seq = 1 .. ReplayedWidth(line)
           /\ \A k \in 1 .. ReplayedWidth(line) : seq[k] = line[k] /\ seq[k] \in ProperCells
<1>1. PICK n \in Nat : n = Len(line) /\ DOMAIN line = 1 .. n /\ \A k \in 1 .. n : line[k] \in ProperCells
  BY LenProperties, ElementOfSeq
<1>2. PICK w \in 0 .. n : w = ReplayedWidth(line)
  BY <1>1, LastIsShown
<1>3. /\ seq \in Seq(ProperCells) /\ Len(seq) = w /\ \A k \in 1 .. w : seq[k] = line[k]
  <2>1. \A k \in 1 .. w : line[k] \in ProperCells /\ 1 + k - 1 = k
    BY <1>1
  <2>2. 1 \in Int /\ w \in Int /\ (1 <= w \/ w = 0) /\ w - 1 + 1 = w
    OBVIOUS
  <2>3. /\ SubSeq(line, 1, w) \in Seq(ProperCells)
        /\ Len(SubSeq(line, 1, w)) = IF 1 <= w THEN w - 1 + 1 ELSE 0
        /\ \A k \in 1 .. w - 1 + 1 : SubSeq(line, 1, w)[k] = line[1 + k - 1]
    BY <2>1, <2>2, SubSeqProperties
  <2>. QED
    BY <1>2, <2>1, <2>2, <2>3
<1>4. DOMAIN seq = 1 .. w
  BY <1>3, LenProperties
<1>. QED
  BY <1>1, <1>2, <1>3, <1>4

LEMMA HistoryRowKeepsMode ==
    ASSUME NEW rows \in Pos, NEW cols \in Pos, NEW s, NEW t \in KeptAs(rows, cols, s),
           NEW line \in Seq(ProperCells)
    PROVE  HistoryRow(t, line) \in KeptAs(rows, cols, s)
<1>1. PICK seq : seq = SubSeq(line, 1, ReplayedWidth(line))
  OBVIOUS
<1>2. PICK w \in Nat : /\ DOMAIN seq = 1 .. w /\ \A k \in 1 .. w : seq[k] \in ProperCells
  BY <1>1, ReplayedCells
<1>3. PICK u \in KeptAs(rows, cols, s) : u = FoldLeft(Painted, t, seq)
  BY <1>2, RowKeepsMode
<1>4. HistoryRow(t, line) = NewLine(u)
  BY <1>1, <1>3 DEF HistoryRow
<1>5. NewLine(u) \in Screens(rows, cols) /\ SameMode(NewLine(u), u)
  BY FeedSameMode DEF KeptAs
<1>. QED
  BY <1>4, <1>5 DEF KeptAs, SameMode

\* What the replay of history starts from, and lays out.
Cleared(t) == CursorSet(ErasedAll(t), 0, 0)

LEMMA Clears ==
    ASSUME NEW rows \in Pos, NEW cols \in Pos, NEW s \in Screens(rows, cols)
    PROVE  /\ IsErased(Cleared(s), s, rows, cols)
           /\ Cleared(s).row = 0 /\ Cleared(s).col = 0 /\ ~Cleared(s).wrap
<1>1. PICK e \in Screens(rows, cols) : e = ErasedAll(s) /\ IsErased(e, s, rows, cols)
  BY ErasesAll DEF IsErased
<1>2. PICK z \in Nat : z = 0 /\ Least(z, rows - 1) = 0 /\ Least(z, cols - 1) = 0
  BY DEF Least
<1>3. PICK t : t = CursorSet(e, z, z)
  OBVIOUS
<1>4. IsMoved(t, e, z, z, rows, cols)
  BY <1>3, MovesSameMode
<1>5. t.saved = e.saved
  BY <1>3 DEF CursorSet, Unwrapped, Screens
<1>6. Cleared(s) = t
  BY <1>1, <1>2, <1>3 DEF Cleared
<1>. QED
  BY <1>1, <1>2, <1>4, <1>5, <1>6 DEF IsErased, IsMoved, SameMode

LEMMA HistoryKeepsMode ==
    ASSUME NEW rows \in Pos, NEW cols \in Pos, NEW t \in Screens(rows, cols),
           NEW lines \in Seq(Seq(ProperCells))
    PROVE  History(t, lines) \in KeptAs(rows, cols, t)
<1>. DEFINE X == KeptAs(rows, cols, t)
            rest == [i \in 1 .. t.rows - 1 |-> i]
<1>1. PICK c \in X : c = CursorSet(ErasedAll(t), 0, 0)
  BY Clears DEF IsErased, KeptAs, Cleared
<1>2. PICK n \in Nat : DOMAIN lines = 1 .. n /\ \A k \in 1 .. n : lines[k] \in Seq(ProperCells)
  BY LenProperties, ElementOfSeq
<1>3. PICK m \in Nat : DOMAIN rest = 1 .. m
  BY DEF Screens
<1>4. \A u \in X : \A k \in 1 .. n : HistoryRow(u, lines[k]) \in X
  BY <1>2, HistoryRowKeepsMode
<1>5. \A u \in X : NewLine(u) \in X
  BY FeedSameMode DEF KeptAs, SameMode
<1>6. ReplaysWithin(X, lines, n) /\ FeedsWithin(X, rest, m)
  BY <1>2, <1>3, <1>4, <1>5 DEF ReplaysWithin, FeedsWithin
<1>. HIDE DEF X, rest
<1>7. PICK laid \in X : laid = FoldLeft(HistoryRow, c, lines)
  <2>1. PICK x \in [0 .. n -> X] : ReplaysThrough(x, c, lines, n)
    BY <1>6, HistoryGoes
  <2>2. x[n] \in X /\ x[n] = FoldLeft(HistoryRow, c, lines)
    BY <2>1 DEF ReplaysThrough
  <2>. QED
    BY <2>2
<1>8. PICK x \in [0 .. m -> X] : FeedsThrough(x, laid, rest, m)
  BY <1>6, LinesGo
<1>9. x[m] \in X
  OBVIOUS
<1>10. x[m] = FoldLeft(LAMBDA v, i : NewLine(v), laid, rest)
  BY <1>8, Zenon DEF FeedsThrough
<1>11. History(t, lines) = FoldLeft(LAMBDA v, i : NewLine(v), laid, rest)
  BY <1>1, <1>7, Zenon DEF History, rest
<1>. QED
  BY <1>9, <1>10, <1>11, Zenon DEF X

---------------------------------------------
(* The replay of a screen, as one fold on the screen that it starts from.  *)

\* The parts of a replay: the rows of the history, the screen they are laid on, and
\* the one that the page is painted on.
ReplayedLines(s, newest) ==
    IF s.alt THEN <<>> ELSE SubSeq(s.history, Len(s.history) - newest + 1, Len(s.history))

BaseOf(s) == IF s.alt THEN AlternateOf(NormalOf(s.rows, s.cols)) ELSE NormalOf(s.rows, s.cols)

LaidOut(s, newest) ==
    IF ReplayedLines(s, newest) = <<>> THEN BaseOf(s) ELSE History(BaseOf(s), ReplayedLines(s, newest))

LEMMA ReplayIs ==
    ASSUME NEW s, NEW newest
    PROVE  Replay(s, newest, Fresh(s.rows, s.cols)) =
              CursorSet(PaintedPage(Cleared(LaidOut(s, newest)), Page(s), [i \in 1 .. s.rows |-> i]),
                        s.row, s.col)
BY Zenon DEF Replay, PaintedPage, RowAt, Cleared, LaidOut, BaseOf, NormalOf, AlternateOf, ReplayedLines

LEMMA BaseIsReset ==
    ASSUME NEW rows \in Pos, NEW cols \in Pos, NEW s \in Screens(rows, cols)
    PROVE  /\ IsReset(BaseOf(s), rows, cols) /\ BaseOf(s).alt = s.alt
           /\ ~s.alt => BaseOf(s).top = 0 /\ BaseOf(s).bottom = rows - 1
<1>1. s.rows = rows /\ s.cols = cols /\ s.alt \in BOOLEAN
  BY DEF Screens
<1>2. PICK t : t = NormalOf(rows, cols)
  OBVIOUS
<1>3. IsReset(t, rows, cols) /\ ~t.alt /\ t.top = 0 /\ t.bottom = rows - 1
  BY <1>2, ResetsPrimary
<1>4. CASE s.alt
  <2>1. PICK u : u = AlternateOf(t)
    OBVIOUS
  <2>2. IsReset(u, rows, cols) /\ u.alt
    BY <1>3, <2>1, EntersAlternate
  <2>3. BaseOf(s) = u
    BY <1>1, <1>2, <1>4, <2>1 DEF BaseOf
  <2>4. u.alt = s.alt
    BY <1>1, <1>4, <2>2 DEF IsReset, Screens
  <2>. QED
    BY <1>4, <2>2, <2>3, <2>4
<1>5. CASE ~s.alt
  <2>1. BaseOf(s) = t
    BY <1>1, <1>2, <1>5 DEF BaseOf
  <2>2. t.alt = s.alt
    BY <1>1, <1>3, <1>5 DEF IsReset, Screens
  <2>. QED
    BY <1>3, <2>1, <2>2
<1>. QED
  BY <1>1, <1>4, <1>5

LEMMA LinesOf ==
    ASSUME NEW rows \in Pos, NEW cols \in Pos, NEW s \in Screens(rows, cols),
           NEW newest \in 0 .. Len(s.history)
    PROVE  /\ ReplayedLines(s, newest) \in Seq(Seq(ProperCells))
           /\ ~s.alt => Len(ReplayedLines(s, newest)) = newest
           /\ ~s.alt => \A k \in 1 .. newest :
                 ReplayedLines(s, newest)[k] = s.history[Len(s.history) - newest + k]
<1>1. PICK h \in Histories : h = s.history
  BY DEF Screens
<1>2. PICK n \in Nat : n = Len(h) /\ \A k \in 1 .. n : h[k] \in Seq(ProperCells)
  BY LenProperties, ElementOfSeq DEF Histories
<1>3. newest \in 0 .. n /\ n - newest + 1 \in Int /\ n \in Int /\ n - (n - newest + 1) + 1 = newest
  BY <1>1, <1>2
<1>4. \A k \in n - newest + 1 .. n : h[k] \in Seq(ProperCells)
  BY <1>2, <1>3
<1>5. PICK part : part = SubSeq(h, n - newest + 1, n)
  OBVIOUS
<1>6. /\ part \in Seq(Seq(ProperCells))
      /\ Len(part) = IF n - newest + 1 <= n THEN n - (n - newest + 1) + 1 ELSE 0
      /\ \A k \in 1 .. n - (n - newest + 1) + 1 : part[k] = h[n - newest + 1 + k - 1]
  BY <1>3, <1>4, <1>5, SubSeqProperties
<1>7. Len(part) = newest /\ \A k \in 1 .. newest : part[k] = h[n - newest + k]
  <2>1. \A k \in 1 .. newest : n - newest + 1 + k - 1 = n - newest + k
    BY <1>3
  <2>2. Len(part) = newest
    BY <1>3, <1>6
  <2>3. \A k \in 1 .. newest : part[k] = h[n - newest + 1 + k - 1]
    BY <1>3, <1>6
  <2>. QED
    BY <2>1, <2>2, <2>3
<1>8. <<>> \in Seq(Seq(ProperCells))
  OBVIOUS
<1>9. ReplayedLines(s, newest) = IF s.alt THEN <<>> ELSE part
  BY <1>1, <1>2, <1>5 DEF ReplayedLines
<1>. QED
  BY <1>1, <1>2, <1>6, <1>7, <1>8, <1>9

\* The replay of a screen shows the screen, and has its cursor.
ShowsPage(t, s) ==
    Page(t) = Page(s) /\ t.alt = s.alt /\ t.row = s.row /\ t.col = s.col

LEMMA ReplayShows ==
    ASSUME NEW rows \in Pos, NEW cols \in Pos, NEW s \in Screens(rows, cols),
           IsWhole(Page(s)), NEW newest \in 0 .. Len(s.history),
           NEW t, t = Replay(s, newest, Fresh(rows, cols))
    PROVE  ShowsPage(t, s) /\ t.history = LaidOut(s, newest).history
<1>1. /\ s.rows = rows /\ s.cols = cols /\ s.alt \in BOOLEAN
      /\ s.row \in 0 .. rows - 1 /\ s.col \in 0 .. cols - 1
  BY DEF Screens
<1>2. PICK base \in Screens(rows, cols) : base = BaseOf(s) /\ ~base.insert /\ base.alt = s.alt
  BY BaseIsReset DEF IsReset
<1>3. PICK laid \in Screens(rows, cols) : laid = LaidOut(s, newest) /\ ~laid.insert /\ laid.alt = s.alt
  <2>1. PICK lines \in Seq(Seq(ProperCells)) : lines = ReplayedLines(s, newest)
    BY LinesOf
  <2>2. CASE lines = <<>>
    BY <1>2, <2>1, <2>2 DEF LaidOut
  <2>3. CASE lines # <<>>
    <3>1. LaidOut(s, newest) = History(base, lines)
      BY <1>2, <2>1, <2>3 DEF LaidOut
    <3>2. History(base, lines) \in KeptAs(rows, cols, base)
      BY HistoryKeepsMode
    <3>. QED
      BY <1>2, <3>1, <3>2 DEF KeptAs, SameMode
  <2>. QED
    BY <2>2, <2>3
<1>4. PICK c \in Screens(rows, cols) :
         /\ c = Cleared(laid) /\ ~c.insert /\ c.alt = s.alt /\ IsBlankPage(Page(c), rows, cols)
         /\ c.history = laid.history
  BY <1>3, Clears DEF IsErased, SameMode
<1>5. PICK page \in Pages(rows, cols) : page = Page(s) /\ IsWhole(page)
  BY PageOf
<1>6. PICK seq : seq = [i \in 1 .. rows |-> i]
  OBVIOUS
<1>7. PICK p \in Screens(rows, cols) :
         /\ p = PaintedPage(c, page, seq) /\ SameMode(p, c) /\ p.history = c.history /\ Page(p) = page
  <2>1. DOMAIN seq = 1 .. rows /\ \A i \in 1 .. rows : seq[i] = i
    BY <1>6
  <2>. QED
    BY <1>4, <1>5, <2>1, PaintsPage
<1>8. t = CursorSet(p, s.row, s.col)
  <2>1. t = Replay(s, newest, Fresh(s.rows, s.cols))
    BY <1>1
  <2>. QED
    BY <1>1, <1>3, <1>4, <1>5, <1>6, <1>7, <2>1, ReplayIs
<1>9. PICK r \in Nat, col \in Nat :
         /\ r = s.row /\ col = s.col
         /\ Least(r, rows - 1) = r /\ Least(col, cols - 1) = col
  BY <1>1 DEF Least
<1>10. IsMoved(t, p, r, col, rows, cols)
  <2>1. t = CursorSet(p, r, col)
    BY <1>8, <1>9
  <2>. QED
    BY <2>1, MovesSameMode
<1>11. Page(t) = Page(s) /\ t.history = laid.history
  BY <1>4, <1>5, <1>7, <1>10 DEF IsMoved
<1>12. t.alt = s.alt
  BY <1>4, <1>7, <1>10 DEF IsMoved, SameMode
<1>13. t.row = s.row /\ t.col = s.col
  BY <1>9, <1>10 DEF IsMoved
<1>. QED
  BY <1>3, <1>11, <1>12, <1>13 DEF ShowsPage

---------------------------------------------
(* The rows of the history are laid out and pushed off the screen.         *)

\* How many lines went off the screen after r line feeds from its top.
Off(r, rows) == IF r < rows THEN 0 ELSE r - (rows - 1)

LEMMA OffNone ==
    ASSUME NEW rows \in Pos, NEW r \in Nat, r < rows - 1
    PROVE  /\ Off(r, rows) = 0 /\ Off(r + 1, rows) = 0
           /\ Least(r, rows - 1) = r /\ Least(r + 1, rows - 1) = r + 1
BY DEF Off, Least

LEMMA OffMore ==
    ASSUME NEW rows \in Pos, NEW r \in Nat, ~(r < rows - 1)
    PROVE  /\ Off(r, rows) \in Nat /\ Off(r + 1, rows) = Off(r, rows) + 1
           /\ Off(r, rows) + rows = r + 1
           /\ Least(r, rows - 1) = rows - 1 /\ Least(r + 1, rows - 1) = rows - 1
BY DEF Off, Least

LEMMA OffBy ==
    ASSUME NEW rows \in Pos, NEW r \in Nat
    PROVE  /\ Off(r, rows) \in Nat /\ Off(r, rows) <= r /\ Least(r, rows - 1) \in 0 .. rows - 1
           /\ Off(r, rows) + Least(r, rows - 1) = r
BY DEF Off, Least

\* The elements of a row that lost its first one, and of a sequence that got one more.
IsShifted(t, s, n, e) ==
    /\ Head(s) = s[1]
    /\ \A j \in 1 .. n : t[j] = IF j < n THEN s[j + 1] ELSE e

LEMMA ShiftedElements ==
    ASSUME NEW n \in Pos, NEW X, NEW s \in [1 .. n -> X], NEW e \in X
    PROVE  IsShifted(Append(Tail(s), e), s, n, e)
<1>1. s \in Seq(X) /\ Len(s) = n /\ s # <<>>
  BY SeqOfRow
<1>2. Head(s) = s[1]
  BY <1>1
<1>3. PICK u \in Seq(X) : u = Tail(s) /\ Len(u) = n - 1 /\ \A j \in 1 .. n - 1 : u[j] = s[j + 1]
  <2>1. /\ Tail(s) \in Seq(X) /\ Len(Tail(s)) = Len(s) - 1
        /\ \A j \in 1 .. Len(Tail(s)) : Tail(s)[j] = s[j + 1]
    BY <1>1, HeadTailProperties, Zenon
  <2>2. PICK u \in Seq(X) : u = Tail(s)
    BY <2>1, Zenon
  <2>3. Len(u) = n - 1
    BY <1>1, <2>1, <2>2
  <2>4. \A j \in 1 .. n - 1 : u[j] = s[j + 1]
    BY <2>1, <2>2, <2>3, Zenon
  <2>. QED
    BY <2>2, <2>3, <2>4, Zenon
<1>4. \A j \in 1 .. n : Append(u, e)[j] = IF j < n THEN s[j + 1] ELSE e
  <2>1. Len(u) + 1 = n /\ \A j \in 1 .. Len(u) : Append(u, e)[j] = u[j]
    BY <1>3, AppendProperties
  <2>2. Append(u, e)[Len(u) + 1] = e
    BY AppendProperties
  <2>. SUFFICES ASSUME NEW j \in 1 .. n PROVE Append(u, e)[j] = IF j < n THEN s[j + 1] ELSE e
    OBVIOUS
  <2>3. CASE j < n
    <3>1. j \in 1 .. n - 1 /\ n - 1 = Len(u)
      BY <1>3, <2>3
    <3>2. Append(u, e)[j] = u[j] /\ u[j] = s[j + 1]
      BY <1>3, <2>1, <3>1
    <3>. QED
      BY <2>3, <3>2
  <2>4. CASE ~(j < n)
    <3>1. ~(j < n) /\ j = Len(u) + 1
      BY <2>1, <2>4
    <3>2. Append(u, e)[j] = e
      BY <2>2, <3>1
    <3>. QED
      BY <3>1, <3>2
  <2>. QED
    BY <2>3, <2>4
<1>. QED
  BY <1>2, <1>3, <1>4 DEF IsShifted

LEMMA OneMore ==
    ASSUME NEW X, NEW h \in Seq(X), NEW e \in X
    PROVE  /\ Len(Append(h, e)) = Len(h) + 1
           /\ \A k \in 1 .. Len(h) + 1 : Append(h, e)[k] = IF k <= Len(h) THEN h[k] ELSE e
<1>1. Len(h) \in Nat /\ Len(Append(h, e)) = Len(h) + 1
  BY AppendProperties, LenProperties
<1>2. \A k \in 1 .. Len(h) : Append(h, e)[k] = h[k]
  BY AppendProperties
<1>3. Append(h, e)[Len(h) + 1] = e
  BY AppendProperties
<1>. QED
  BY <1>1, <1>2, <1>3

\* The first i lines of a history are on a screen, from its top on, and r line feeds
\* moved them up.
IsLaid(t, lines, r, i, rows, cols) ==
    /\ t \in Screens(rows, cols) /\ ~t.alt /\ ~t.insert
    /\ t.top = 0 /\ t.bottom = rows - 1 /\ t.row = Least(r, rows - 1)
    /\ Len(t.history) = Off(r, rows)
    /\ \A k \in 1 .. Off(r, rows) : t.history[k] = lines[k]
    /\ \A j \in 1 .. rows :
          t.primary[j] = IF Off(r, rows) + j <= i THEN lines[Off(r, rows) + j] ELSE Blanks(cols)

AtStart(t) == t.col = 0 /\ ~t.wrap

LEMMA FeedsLine ==
    ASSUME NEW rows \in Pos, NEW cols \in Pos, NEW lines, NEW r \in Nat, NEW i \in Nat,
           i <= r + 1, Off(r + 1, rows) <= i, i <= HistoryCap,
           NEW t, IsLaid(t, lines, r, i, rows, cols)
    PROVE  IsLaid(NewLine(t), lines, r + 1, i, rows, cols) /\ AtStart(NewLine(t))
<1>1. PICK u \in Screens(rows, cols) : u = Returned(t)
  BY Moves DEF IsLaid
<1>2. u.col = 0 /\ ~u.wrap /\ IsLaid(u, lines, r, i, rows, cols)
  <2>1. PICK no : no = FALSE
    OBVIOUS
  <2>2. u = [[t EXCEPT !.wrap = no] EXCEPT !.col = 0]
    BY <1>1, <2>1 DEF Returned, Unwrapped
  <2>3. t \in Screens(rows, cols)
    BY DEF IsLaid
  <2>4. u.col = 0 /\ u.wrap = no
    BY <2>2, <2>3 DEF Screens
  <2>5. /\ u.alt = t.alt /\ u.insert = t.insert /\ u.top = t.top /\ u.bottom = t.bottom
        /\ u.row = t.row /\ u.history = t.history /\ u.primary = t.primary
    BY <2>2, <2>3 DEF Screens
  <2>6. IsLaid(u, lines, r, i, rows, cols)
    BY <1>1, <2>5 DEF IsLaid
  <2>. QED
    BY <2>1, <2>4, <2>6
<1>3. PICK v \in Screens(rows, cols) : v = NewLine(t) /\ v = LineFed(u)
  BY <1>1, LinesMove DEF NewLine
<1>4. /\ ~u.alt /\ ~u.insert /\ u.top = 0 /\ u.bottom = rows - 1 /\ u.row = Least(r, rows - 1)
      /\ u.rows = rows /\ u.cols = cols
      /\ Len(u.history) = Off(r, rows) /\ \A k \in 1 .. Off(r, rows) : u.history[k] = lines[k]
      /\ \A j \in 1 .. rows :
            u.primary[j] = IF Off(r, rows) + j <= i THEN lines[Off(r, rows) + j] ELSE Blanks(cols)
  BY <1>2 DEF IsLaid, Screens
<1>5. CASE r < rows - 1
  <2>1. PICK down \in 0 .. rows - 1 : down = r + 1
    BY <1>5
  <2>2. v = [u EXCEPT !.row = down]
    <3>1. u.row # u.bottom /\ u.row + 1 < u.rows /\ u.row + 1 = down
      <4>1. u.row = r
        BY <1>4, <1>5, OffNone
      <4>. QED
        BY <1>4, <1>5, <2>1, <4>1
    <3>. QED
      BY <1>3, <3>1 DEF LineFed
  <2>3. /\ v.alt = u.alt /\ v.insert = u.insert /\ v.top = u.top /\ v.bottom = u.bottom
        /\ v.row = down /\ v.history = u.history /\ v.primary = u.primary
        /\ v.col = u.col /\ v.wrap = u.wrap
    BY <2>2 DEF Screens
  <2>4. Off(r + 1, rows) = Off(r, rows) /\ Least(r + 1, rows - 1) = down
    BY <1>5, <2>1, OffNone
  <2>. QED
    BY <1>2, <1>3, <1>4, <2>3, <2>4 DEF IsLaid, AtStart
<1>6. CASE ~(r < rows - 1)
  <2>1. PICK m \in Nat : /\ m = Off(r, rows) /\ Off(r + 1, rows) = m + 1 /\ m + rows = r + 1
                         /\ u.row = rows - 1 /\ Least(r + 1, rows - 1) = rows - 1
    <3>1. /\ Off(r, rows) \in Nat /\ Off(r + 1, rows) = Off(r, rows) + 1
          /\ Off(r, rows) + rows = r + 1
          /\ Least(r, rows - 1) = rows - 1 /\ Least(r + 1, rows - 1) = rows - 1
      BY <1>6, OffMore
    <3>. QED
      BY <1>4, <3>1
  <2>2. PICK blank \in Lines(cols) : blank = Blanks(cols)
    BY BlankLines
  <2>3. PICK page \in Pages(rows, cols) : page = u.primary
    BY DEF Screens
  <2>4. PICK h \in Histories : h = u.history /\ Len(h) = m /\ \A k \in 1 .. m : h[k] = lines[k]
    BY <1>4, <2>1 DEF Screens
  <2>5. PICK p \in Pages(rows, cols) : p = Append(Tail(page), blank) /\ IsShifted(p, page, rows, blank)
    BY ShiftedRow, ShiftedElements DEF Pages
  <2>6. PICK first \in Lines(cols) : first = Head(page) /\ first = page[1]
    <3>1. page[1] \in Lines(cols)
      BY DEF Pages
    <3>. QED
      BY <2>5, <3>1 DEF IsShifted
  <2>7. first \in Seq(ProperCells)
    BY SeqOfRow DEF Lines
  <2>8. PICK g2 : g2 = Append(h, first)
    OBVIOUS
  <2>9. /\ Len(g2) = m + 1
        /\ \A k \in 1 .. m + 1 : g2[k] = IF k <= m THEN h[k] ELSE first
    <3>1. h \in Seq(Seq(ProperCells))
      BY DEF Histories
    <3>2. /\ Len(Append(h, first)) = Len(h) + 1
          /\ \A k \in 1 .. Len(h) + 1 : Append(h, first)[k] = IF k <= Len(h) THEN h[k] ELSE first
      BY <2>7, <3>1, OneMore
    <3>. QED
      BY <2>4, <2>8, <3>2
  <2>10. v = [u EXCEPT !.primary = p, !.history = g2]
    <3>1. HistoryCap # 0 /\ ~(m >= HistoryCap)
      BY <2>1, ConstantsAssumption
    <3>2. ScrolledUp(u) = [u EXCEPT !.primary = p, !.history = g2]
      <4>1. ~(u.top > u.bottom) /\ u.bottom = u.rows - 1
        BY <1>4
      <4>2. g2 = IF HistoryCap = 0 THEN u.history
                 ELSE Append(IF Len(u.history) >= HistoryCap THEN Tail(u.history) ELSE u.history,
                             Head(u.primary))
        BY <2>3, <2>4, <2>6, <2>8, <3>1
      <4>3. p = Append(Tail(u.primary), Blanks(u.cols))
        BY <1>4, <2>2, <2>3, <2>5
      <4>. QED
        BY <1>4, <4>1, <4>2, <4>3 DEF ScrolledUp
    <3>3. u.row = u.bottom
      BY <1>4, <2>1
    <3>. QED
      BY <1>3, <3>2, <3>3 DEF LineFed
  <2>11. /\ v.alt = u.alt /\ v.insert = u.insert /\ v.top = u.top /\ v.bottom = u.bottom
         /\ v.row = u.row /\ v.history = g2 /\ v.primary = p
         /\ v.col = u.col /\ v.wrap = u.wrap
    BY <2>10 DEF Screens
  <2>12. \A k \in 1 .. m + 1 : g2[k] = lines[k]
    <3>1. page[1] = lines[m + 1]
      <4>1. 1 \in 1 .. rows /\ m + 1 <= i
        BY <2>1
      <4>. QED
        BY <1>4, <2>1, <2>3, <4>1
    <3>2. first = lines[m + 1]
      BY <2>6, <3>1
    <3>3. \A k \in 1 .. m + 1 : k <= m \/ k = m + 1
      OBVIOUS
    <3>. QED
      BY <2>4, <2>9, <3>2, <3>3
  <2>13. \A j \in 1 .. rows : p[j] = IF m + 1 + j <= i THEN lines[m + 1 + j] ELSE Blanks(cols)
    <3>. SUFFICES ASSUME NEW j \in 1 .. rows
                  PROVE  p[j] = IF m + 1 + j <= i THEN lines[m + 1 + j] ELSE Blanks(cols)
      OBVIOUS
    <3>1. CASE j < rows
      <4>1. j + 1 \in 1 .. rows /\ m + (j + 1) = m + 1 + j
        BY <3>1
      <4>2. page[j + 1] = IF m + (j + 1) <= i THEN lines[m + (j + 1)] ELSE Blanks(cols)
        BY <1>4, <2>1, <2>3, <4>1
      <4>. QED
        BY <2>5, <3>1, <4>1, <4>2 DEF IsShifted
    <3>2. CASE j = rows
      <4>1. ~(m + 1 + j <= i)
        BY <2>1, <3>2
      <4>2. p[j] = blank
        <5>1. ~(j < rows)
          BY <3>2
        <5>. QED
          BY <2>5, <5>1 DEF IsShifted
      <4>. QED
        BY <2>2, <4>1, <4>2
    <3>. QED
      BY <3>1, <3>2
  <2>14. IsLaid(v, lines, r + 1, i, rows, cols)
    BY <1>4, <2>1, <2>9, <2>11, <2>12, <2>13 DEF IsLaid
  <2>. QED
    BY <1>2, <1>3, <2>11, <2>14 DEF AtStart
<1>. QED
  BY <1>5, <1>6

\* A row of the history that the replay can give back.
LineFits(line, cols) ==
    /\ line \in Lines(cols) /\ LineIsWhole(line)
    /\ \A j \in 1 .. cols : line[j].ch = Space => ~line[j].mark

\* What is not painted of such a row is blank.
LEMMA RestIsBlank ==
    ASSUME NEW cols \in Pos, NEW line, LineFits(line, cols),
           NEW j \in 1 .. cols, ~(j <= Covered(line, ReplayedWidth(line)))
    PROVE  line[j] = Blank
<1>1. line \in Lines(cols) /\ DOMAIN line = 1 .. cols
  BY DEF LineFits, Lines
<1>2. PICK w \in 0 .. cols :
         w = ReplayedWidth(line) /\ \A i \in 1 .. cols : i > w => line[i].ch = Space
  <2>1. cols \in Nat
    OBVIOUS
  <2>. QED
    BY <1>1, <2>1, LastIsShown
<1>3. j > w
  BY <1>2 DEF Covered
<1>4. PICK cell \in ProperCells : cell = line[j]
  BY <1>1 DEF Lines
<1>5. cell.ch = Space /\ ~cell.mark
  BY <1>2, <1>3, <1>4 DEF LineFits
<1>6. cell.w # 0
  <2>. SUFFICES ASSUME cell.w = 0 PROVE FALSE
    OBVIOUS
  <2>1. \A i \in 1 .. cols : line[i].w = 0 => i > 1 /\ line[i - 1].w = 2
    BY <1>1, WholeLine DEF LineFits
  <2>2. j > 1 /\ line[j - 1].w = 2
    BY <1>4, <2>1
  <2>3. PICK i \in 1 .. cols : i = j - 1
    BY <2>2
  <2>4. PICK left \in ProperCells : left = line[i] /\ left.w = 2
    BY <1>1, <2>2, <2>3 DEF Lines
  <2>5. left.ch # Space
    BY <2>4, CellParts, Widths
  <2>6. ~(i > w)
    BY <1>2, <2>4, <2>5
  <2>7. i = w /\ w > 0
    BY <1>3, <2>3, <2>6
  <2>8. Covered(line, w) = w + 1
    BY <2>4, <2>7 DEF Covered
  <2>. QED
    BY <1>2, <2>3, <2>7, <2>8
<1>7. cell.w = 1 /\ cell.mark = FALSE
  BY <1>5, <1>6, CellParts, Widths
<1>8. cell = [ch |-> cell.ch, w |-> cell.w, mark |-> cell.mark]
  BY CellParts
<1>9. Blank = [ch |-> Space, w |-> 1, mark |-> FALSE]
  BY BlankIs
<1>. QED
  BY <1>4, <1>5, <1>7, <1>8, <1>9

LEMMA PaintsHistory ==
    ASSUME NEW rows \in Pos, NEW cols \in Pos, NEW s \in Screens(rows, cols), ~s.insert,
           AtStart(s), \A j \in 1 .. cols : Line(s, s.row)[j] = Blank,
           NEW line, LineFits(line, cols),
           NEW u, u = FoldLeft(Painted, s, SubSeq(line, 1, ReplayedWidth(line)))
    PROVE  /\ u \in Screens(rows, cols) /\ Beside(u, s)
           /\ \A i \in 1 .. rows : i # s.row + 1 => Page(u)[i] = Page(s)[i]
           /\ Page(u)[s.row + 1] = line
<1>1. line \in Lines(cols) /\ LineIsWhole(line) /\ DOMAIN line = 1 .. cols /\ cols \in Nat
  BY DEF LineFits, Lines
<1>2. PICK w \in 0 .. cols : w = ReplayedWidth(line)
  BY <1>1, LastIsShown
<1>3. PICK seq : seq = SubSeq(line, 1, ReplayedWidth(line))
  OBVIOUS
<1>4. DOMAIN seq = 1 .. w /\ \A k \in 1 .. w : seq[k] = line[k]
  <2>1. line \in Seq(ProperCells)
    BY <1>1, SeqOfRow DEF Lines
  <2>. QED
    BY <1>2, <1>3, <2>1, ReplayedCells
<1>5. IsPainted(u, s, line, Covered(line, w), rows, cols)
  <2>1. s.col = 0 /\ ~s.wrap
    BY DEF AtStart
  <2>2. IsPainted(FoldLeft(Painted, s, seq), s, line, Covered(line, w), rows, cols)
    BY <1>1, <1>4, <2>1, PaintsRow
  <2>. QED
    BY <1>3, <2>2
<1>6. \A j \in 1 .. cols : Line(u, s.row)[j] = line[j]
  <2>1. \A j \in 1 .. cols : ~(j <= Covered(line, w)) => line[j] = Blank
    BY <1>2, RestIsBlank
  <2>2. \A j \in 1 .. cols : Line(u, s.row)[j] = IF j <= Covered(line, w) THEN line[j] ELSE Blank
    BY <1>5 DEF IsPainted
  <2>. QED
    BY <2>1, <2>2
<1>7. Page(u)[s.row + 1] = line
  <2>1. s.row \in 0 .. rows - 1 /\ u \in Screens(rows, cols)
    BY <1>5 DEF IsPainted, Screens
  <2>2. PICK row \in Lines(cols) : row = Line(u, s.row)
    BY <2>1, LineOf
  <2>3. row = line
    BY <1>1, <1>6, <2>2 DEF Lines
  <2>. QED
    BY <2>2, <2>3 DEF Line
<1>. QED
  BY <1>5, <1>7 DEF IsPainted

\* One row of the history is laid out.
LEMMA LaysLine ==
    ASSUME NEW rows \in Pos, NEW cols \in Pos, NEW lines, NEW i \in Nat, i + 1 <= HistoryCap,
           NEW t, IsLaid(t, lines, i, i, rows, cols), AtStart(t), LineFits(lines[i + 1], cols)
    PROVE  IsLaid(HistoryRow(t, lines[i + 1]), lines, i + 1, i + 1, rows, cols)
           /\ AtStart(HistoryRow(t, lines[i + 1]))
<1>1. /\ t \in Screens(rows, cols) /\ ~t.alt /\ ~t.insert
      /\ t.top = 0 /\ t.bottom = rows - 1 /\ t.row = Least(i, rows - 1)
      /\ Len(t.history) = Off(i, rows)
  BY DEF IsLaid
<1>old. \A k \in 1 .. Off(i, rows) : t.history[k] = lines[k]
  BY DEF IsLaid
<1>new. \A j \in 1 .. rows :
           t.primary[j] = IF Off(i, rows) + j <= i THEN lines[Off(i, rows) + j] ELSE Blanks(cols)
  BY DEF IsLaid
<1>2. PICK m \in Nat, r \in 0 .. rows - 1 :
         m = Off(i, rows) /\ r = Least(i, rows - 1) /\ m + r = i
  <2>1. /\ Off(i, rows) \in Nat /\ Least(i, rows - 1) \in 0 .. rows - 1
        /\ Off(i, rows) + Least(i, rows - 1) = i
    BY OffBy, SMTT(30)
  <2>. QED
    BY <2>1, Zenon
<1>3. PICK line : line = lines[i + 1]
  OBVIOUS
<1>4. PICK page : page = t.primary /\ page = Page(t)
  BY <1>1 DEF Page
<1>5. \A j \in 1 .. cols : Line(t, t.row)[j] = Blank
  <2>1. r + 1 \in 1 .. rows /\ ~(m + (r + 1) <= i)
    BY <1>2
  <2>2. page[r + 1] = Blanks(cols)
    BY <1>new, <1>2, <1>4, <2>1
  <2>. QED
    BY <1>1, <1>2, <1>4, <2>2 DEF Line, Blanks
<1>6. PICK u : u = FoldLeft(Painted, t, SubSeq(line, 1, ReplayedWidth(line)))
  OBVIOUS
<1>7. /\ u \in Screens(rows, cols) /\ Beside(u, t)
      /\ \A k \in 1 .. rows : k # t.row + 1 => Page(u)[k] = Page(t)[k]
      /\ Page(u)[t.row + 1] = line
  <2>1. LineFits(line, cols) /\ t \in Screens(rows, cols) /\ ~t.insert /\ AtStart(t)
    BY <1>1, <1>3
  <2>. QED
    BY <1>5, <1>6, <2>1, PaintsHistory
<1>8. u.primary = Page(u)
  BY <1>1, <1>7 DEF Beside, Page
<1>9. \A j \in 1 .. rows : u.primary[j] = IF m + j <= i + 1 THEN lines[m + j] ELSE Blanks(cols)
  <2>. SUFFICES ASSUME NEW j \in 1 .. rows
                PROVE  u.primary[j] = IF m + j <= i + 1 THEN lines[m + j] ELSE Blanks(cols)
    OBVIOUS
  <2>1. CASE j = r + 1
    <3>1. m + j = i + 1
      BY <1>2, <2>1
    <3>. QED
      BY <1>1, <1>2, <1>3, <1>7, <1>8, <2>1, <3>1
  <2>2. CASE j # r + 1
    <3>1. u.primary[j] = t.primary[j]
      BY <1>1, <1>2, <1>4, <1>7, <1>8, <2>2
    <3>2. m + j <= i + 1 <=> m + j <= i
      BY <1>2, <2>2
    <3>. QED
      BY <1>new, <1>2, <3>1, <3>2
  <2>. QED
    BY <2>1, <2>2
<1>10. IsLaid(u, lines, i, i + 1, rows, cols)
  BY <1>1, <1>old, <1>2, <1>7, <1>9 DEF IsLaid, Beside
<1>11. IsLaid(NewLine(u), lines, i + 1, i + 1, rows, cols) /\ AtStart(NewLine(u))
  <2>1. PICK n \in Nat : n = i + 1
    OBVIOUS
  <2>2. Off(i + 1, rows) <= n /\ n <= i + 1 /\ n <= HistoryCap
    BY <2>1, OffBy
  <2>3. IsLaid(u, lines, i, n, rows, cols)
    BY <1>10, <2>1
  <2>4. IsLaid(NewLine(u), lines, i + 1, n, rows, cols) /\ AtStart(NewLine(u))
    BY <2>2, <2>3, FeedsLine
  <2>. QED
    BY <2>1, <2>4
<1>12. HistoryRow(t, line) = NewLine(u)
  BY <1>6 DEF HistoryRow
<1>. QED
  BY <1>3, <1>11, <1>12

\* The rows of the history are laid out one after the other ...
LEMMA LineByLine ==
    ASSUME NEW rows \in Pos, NEW cols \in Pos, NEW lines, NEW n \in Nat, n <= HistoryCap,
           \A k \in 1 .. n : LineFits(lines[k], cols),
           NEW c, IsLaid(c, lines, 0, 0, rows, cols), AtStart(c),
           NEW x, ReplaysThrough(x, c, lines, n)
    PROVE  IsLaid(FoldLeft(HistoryRow, c, lines), lines, n, n, rows, cols)
<1>1. /\ x[0] = c /\ x[n] = FoldLeft(HistoryRow, c, lines)
      /\ \A k \in 1 .. n : x[k] = HistoryRow(x[k - 1], lines[k])
  BY DEF ReplaysThrough
<1>. DEFINE H == {k \in 0 .. n : IsLaid(x[k], lines, k, k, rows, cols) /\ AtStart(x[k])}
<1>2. 0 \in H
  BY <1>1
<1>3. ASSUME NEW k \in 1 .. n, k - 1 \in H PROVE k \in H
  <2>1. PICK i \in Nat : i = k - 1 /\ i + 1 = k /\ i + 1 <= HistoryCap /\ k \in 0 .. n
    BY ConstantsAssumption
  <2>2. IsLaid(x[i], lines, i, i, rows, cols) /\ AtStart(x[i])
    BY <1>3, <2>1
  <2>3. LineFits(lines[i + 1], cols)
    BY <2>1
  <2>4. IsLaid(HistoryRow(x[i], lines[i + 1]), lines, i + 1, i + 1, rows, cols)
        /\ AtStart(HistoryRow(x[i], lines[i + 1]))
    BY <2>1, <2>2, <2>3, LaysLine
  <2>5. x[k] = HistoryRow(x[i], lines[i + 1])
    BY <1>1, <2>1
  <2>. QED
    BY <2>1, <2>4, <2>5
<1>4. \A k \in 0 .. n : k \in H
  <2>. HIDE DEF H
  <2>. QED
    BY <1>2, <1>3, Upward
<1>5. IsLaid(x[n], lines, n, n, rows, cols)
  <2>1. n \in 0 .. n
    OBVIOUS
  <2>. QED
    BY <1>4, <2>1
<1>. QED
  BY <1>1, <1>5

\* ... and pushed off the screen.
GoesByFeeds(x, laid, m) == x[0] = laid /\ \A k \in 1 .. m : x[k] = NewLine(x[k - 1])

LEMMA FeedByFeed ==
    ASSUME NEW rows \in Pos, NEW cols \in Pos, NEW lines, NEW n \in Nat, n <= HistoryCap,
           NEW laid, IsLaid(laid, lines, n, n, rows, cols), NEW m \in Nat, m = rows - 1,
           NEW x, GoesByFeeds(x, laid, m)
    PROVE  Len(x[m].history) = n /\ \A k \in 1 .. n : x[m].history[k] = lines[k]
<1>. DEFINE H == {k \in 0 .. m : IsLaid(x[k], lines, n + k, n, rows, cols)}
<1>1. 0 \in H
  <2>1. n + 0 = n /\ 0 \in 0 .. m
    OBVIOUS
  <2>. QED
    BY <2>1 DEF GoesByFeeds
<1>2. ASSUME NEW k \in 1 .. m, k - 1 \in H PROVE k \in H
  <2>1. PICK r \in Nat : r = n + (k - 1) /\ r + 1 = n + k /\ n <= r + 1 /\ k \in 0 .. m
    OBVIOUS
  <2>2. Off(r + 1, rows) <= n
    BY <2>1 DEF Off
  <2>3. IsLaid(x[k - 1], lines, r, n, rows, cols)
    BY <1>2, <2>1
  <2>4. IsLaid(NewLine(x[k - 1]), lines, r + 1, n, rows, cols)
    BY <2>1, <2>2, <2>3, FeedsLine
  <2>5. x[k] = NewLine(x[k - 1])
    BY DEF GoesByFeeds
  <2>. QED
    BY <2>1, <2>4, <2>5
<1>3. \A k \in 0 .. m : k \in H
  <2>. HIDE DEF H
  <2>. QED
    BY <1>1, <1>2, Upward
<1>4. IsLaid(x[m], lines, n + m, n, rows, cols)
  <2>1. m \in 0 .. m
    OBVIOUS
  <2>. QED
    BY <1>3, <2>1
<1>5. Off(n + m, rows) = n
  BY DEF Off
<1>. QED
  BY <1>4, <1>5 DEF IsLaid

\* The replay of rows that fit gives them back.
LEMMA HistoryIsReplayed ==
    ASSUME NEW rows \in Pos, NEW cols \in Pos, NEW t, IsReset(t, rows, cols), ~t.alt,
           t.top = 0, t.bottom = rows - 1,
           NEW lines \in Seq(Seq(ProperCells)), Len(lines) <= HistoryCap,
           \A k \in 1 .. Len(lines) : LineFits(lines[k], cols)
    PROVE  History(t, lines).history = lines
<1>1. t \in Screens(rows, cols) /\ ~t.insert /\ t.history = <<>> /\ t.rows = rows
  BY DEF IsReset, Screens
<1>2. PICK n \in Nat : /\ n = Len(lines) /\ DOMAIN lines = 1 .. n
                       /\ \A k \in 1 .. n : lines[k] \in Seq(ProperCells)
  BY LenProperties, ElementOfSeq
<1>. DEFINE X == KeptAs(rows, cols, t)
            rest == [i \in 1 .. t.rows - 1 |-> i]
<1>3. PICK c \in X : c = Cleared(t) /\ IsErased(c, t, rows, cols) /\ c.row = 0 /\ c.col = 0 /\ ~c.wrap
  BY <1>1, Clears DEF IsErased, KeptAs
<1>4. IsLaid(c, lines, 0, 0, rows, cols) /\ AtStart(c)
  <2>1. Off(0, rows) = 0 /\ Least(0, rows - 1) = 0
    BY DEF Off, Least
  <2>2. ~c.alt /\ ~c.insert
    BY <1>1, <1>3 DEF IsErased, SameMode
  <2>3. c.history = <<>> /\ c.top = 0 /\ c.bottom = rows - 1 /\ c \in Screens(rows, cols)
    BY <1>1, <1>3 DEF IsErased
  <2>4. \A j \in 1 .. rows : c.primary[j] = Blanks(cols) /\ ~(0 + j <= 0)
    BY <1>3, <2>2 DEF IsErased, IsBlankPage, Page
  <2>5. Len(c.history) = 0
    BY <2>3
  <2>. QED
    BY <1>3, <2>1, <2>2, <2>3, <2>4, <2>5 DEF IsLaid, AtStart
<1>5. PICK m \in Nat : m = rows - 1 /\ DOMAIN rest = 1 .. m
  BY <1>1
<1>6. ReplaysWithin(X, lines, n)
  <2>1. \A u \in X : \A k \in 1 .. n : HistoryRow(u, lines[k]) \in X
    BY <1>2, HistoryRowKeepsMode
  <2>. QED
    BY <1>2, <2>1 DEF ReplaysWithin
<1>7. FeedsWithin(X, rest, m)
  <2>1. \A u \in X : NewLine(u) \in X
    BY FeedSameMode DEF KeptAs, SameMode
  <2>. QED
    BY <1>5, <2>1 DEF FeedsWithin
<1>. HIDE DEF X, rest
<1>8. PICK x \in [0 .. n -> X] : ReplaysThrough(x, c, lines, n)
  BY <1>6, HistoryGoes
<1>9. PICK laid \in X : laid = FoldLeft(HistoryRow, c, lines) /\ IsLaid(laid, lines, n, n, rows, cols)
  <2>1. x[n] \in X /\ x[n] = FoldLeft(HistoryRow, c, lines)
    BY <1>8 DEF ReplaysThrough
  <2>2. IsLaid(FoldLeft(HistoryRow, c, lines), lines, n, n, rows, cols)
    BY <1>2, <1>4, <1>8, LineByLine
  <2>. QED
    BY <2>1, <2>2
<1>10. PICK y \in [0 .. m -> X] : FeedsThrough(y, laid, rest, m)
  BY <1>7, LinesGo
<1>11. GoesByFeeds(y, laid, m)
  BY <1>10, Zenon DEF FeedsThrough, GoesByFeeds
<1>12. Len(y[m].history) = n /\ \A k \in 1 .. n : y[m].history[k] = lines[k]
  BY <1>2, <1>5, <1>9, <1>11, FeedByFeed
<1>13. y[m].history = lines
  <2>1. y[m] \in Screens(rows, cols)
    BY DEF X, KeptAs
  <2>2. PICK h \in Seq(Seq(ProperCells)) : h = y[m].history
    BY <2>1 DEF Screens, Histories
  <2>3. h \in [1 .. n -> Seq(ProperCells)]
    BY <1>12, <2>2, RowOfSeq
  <2>4. lines \in [1 .. n -> Seq(ProperCells)]
    BY <1>2, RowOfSeq
  <2>5. h = lines
    BY <1>12, <2>2, <2>3, <2>4
  <2>. QED
    BY <2>2, <2>5
<1>14. y[m] = FoldLeft(LAMBDA v, i : NewLine(v), laid, rest)
  BY <1>10, Zenon DEF FeedsThrough
<1>15. History(t, lines) = FoldLeft(LAMBDA v, i : NewLine(v), laid, rest)
  BY <1>3, <1>9, Zenon DEF History, Cleared, rest
<1>. QED
  BY <1>13, <1>14, <1>15, Zenon

LEMMA FittingHistory ==
    ASSUME NEW rows \in Pos, NEW cols \in Pos, NEW s \in Screens(rows, cols), ~s.alt,
           NEW newest \in 0 .. Len(s.history), IsWhole(s.history),
           \A i \in DOMAIN s.history :
              /\ Len(s.history[i]) = cols
              /\ \A j \in 1 .. cols : s.history[i][j].ch = Space => ~s.history[i][j].mark
    PROVE  LaidOut(s, newest).history = ReplayedLines(s, newest)
<1>1. PICK h \in Histories : h = s.history
  BY DEF Screens
<1>2. PICK n \in Nat : /\ n = Len(h) /\ n <= HistoryCap /\ DOMAIN h = 1 .. n
                       /\ \A k \in 1 .. n : h[k] \in Seq(ProperCells)
  BY LenProperties, ElementOfSeq DEF Histories
<1>3. ASSUME NEW k \in 1 .. n PROVE LineFits(h[k], cols)
  <2>1. Len(h[k]) = cols /\ h[k] \in Seq(ProperCells) /\ cols \in Nat
    BY <1>1, <1>2
  <2>2. h[k] \in Lines(cols)
    BY <2>1, RowOfSeq DEF Lines
  <2>3. LineIsWhole(h[k])
    BY <1>1, <1>2 DEF IsWhole
  <2>. QED
    BY <1>1, <1>2, <2>2, <2>3 DEF LineFits
<1>4. PICK lines \in Seq(Seq(ProperCells)) :
         /\ lines = ReplayedLines(s, newest) /\ Len(lines) = newest
         /\ \A k \in 1 .. newest : lines[k] = h[n - newest + k]
  <2>1. /\ ReplayedLines(s, newest) \in Seq(Seq(ProperCells))
        /\ Len(ReplayedLines(s, newest)) = newest
        /\ \A k \in 1 .. newest : ReplayedLines(s, newest)[k] = s.history[Len(s.history) - newest + k]
    BY LinesOf
  <2>. QED
    BY <1>1, <1>2, <2>1
<1>5. newest \in 0 .. n
  BY <1>1, <1>2
<1>6. \A k \in 1 .. Len(lines) : LineFits(lines[k], cols)
  <2>1. \A k \in 1 .. newest : n - newest + k \in 1 .. n
    BY <1>5
  <2>. QED
    BY <1>3, <1>4, <2>1
<1>7. PICK base : base = BaseOf(s)
  OBVIOUS
<1>8. IsReset(base, rows, cols) /\ ~base.alt /\ base.top = 0 /\ base.bottom = rows - 1
  BY <1>7, BaseIsReset
<1>9. CASE lines = <<>>
  BY <1>4, <1>7, <1>8, <1>9 DEF LaidOut, IsReset
<1>10. CASE lines # <<>>
  <2>1. Len(lines) <= HistoryCap
    BY <1>2, <1>4, <1>5, ConstantsAssumption
  <2>2. History(base, lines).history = lines
    BY <1>6, <1>8, <2>1, HistoryIsReplayed
  <2>. QED
    BY <1>4, <1>7, <1>10, <2>2 DEF LaidOut
<1>. QED
  BY <1>9, <1>10

\* A fresh screen that is fed the replay of a snapshot of any screen that the code can
\* reach shows that screen, with its cursor, and has the rows of its history.
THEOREM ReplaysAreFaithful == ScreenSpec => []ReplayIsFaithful
<1>1. ScreenIInv => ReplayIsFaithful
  <2>. SUFFICES ASSUME ScreenIInv, IsWhole(Page(g)), NEW newest \in 0 .. Len(g.history)
                PROVE  LET t == Replay(g, newest, Fresh(g.rows, g.cols)) IN
                       /\ Page(t) = Page(g) /\ <<t.alt, t.row, t.col>> = <<g.alt, g.row, g.col>>
                       /\ HistoryFits =>
                            t.history = SubSeq(g.history, Len(g.history) - newest + 1, Len(g.history))
    BY Zenon DEF ReplayIsFaithful
  <2>1. PICK rows \in Pos, cols \in Pos : rows = g.rows /\ cols = g.cols
    BY SizesAreNumbers DEF ScreenIInv
  <2>2. g \in Screens(rows, cols)
    BY <2>1 DEF ScreenIInv
  <2>3. PICK t : t = Replay(g, newest, Fresh(rows, cols))
    OBVIOUS
  <2>4. ShowsPage(t, g) /\ t.history = LaidOut(g, newest).history
    BY <2>2, <2>3, ReplayShows
  <2>5. ASSUME HistoryFits
        PROVE  t.history = SubSeq(g.history, Len(g.history) - newest + 1, Len(g.history))
    <3>1. ~g.alt /\ IsWhole(g.history)
      BY <2>5 DEF HistoryFits
    <3>2. \A i \in DOMAIN g.history :
             /\ Len(g.history[i]) = cols
             /\ \A j \in 1 .. cols : g.history[i][j].ch = Space => ~g.history[i][j].mark
      BY <2>1, <2>5 DEF HistoryFits, Space
    <3>3. LaidOut(g, newest).history = ReplayedLines(g, newest)
      BY <2>2, <3>1, <3>2, FittingHistory
    <3>. QED
      BY <2>4, <3>1, <3>3 DEF ReplayedLines
  <2>6. t = Replay(g, newest, Fresh(g.rows, g.cols))
    BY <2>1, <2>3
  <2>7. Page(t) = Page(g) /\ <<t.alt, t.row, t.col>> = <<g.alt, g.row, g.col>>
    BY <2>4 DEF ShowsPage
  <2>. QED
    BY <2>5, <2>6, <2>7, Zenon
<1>2. ScreenSpec => []ScreenIInv
  BY ScreenInv
<1>. QED
  BY <1>1, <1>2, PTL
---------------------------------------------
(* The trees of Layout are trees, and stay so when they are split and cut down.*)

Steps == [orientation : {"horizontal", "vertical"}, ratio : MinRatio .. Whole - MinRatio, side : {"a", "b"}]
Ways  == Seq(Steps)

\* The other side of the same split.
Opposite(step) == [step EXCEPT !.side = IF @ = "a" THEN "b" ELSE "a"]

LEMMA Opposites ==
    ASSUME NEW s \in Steps
    PROVE  Opposite(s) \in Steps /\ Opposite(s) # s /\ Opposite(Opposite(s)) = s
<1>1. Opposite(s) = [s EXCEPT !.side = IF s.side = "a" THEN "b" ELSE "a"]
  BY DEF Opposite
<1>2. s.side \in {"a", "b"}
  BY DEF Steps
<1>3. Opposite(s).side # s.side /\ Opposite(s) \in Steps
  BY <1>1, <1>2 DEF Steps
<1>. QED
  BY <1>1, <1>2, <1>3 DEF Opposite, Steps

\* Two ways part with step k.
PartAt(v, w, k) ==
    /\ k \in 1 .. Len(v) /\ k \in 1 .. Len(w)
    /\ \A i \in 1 .. k - 1 : w[i] = v[i]
    /\ w[k] = Opposite(v[k])

\* A tree's leaves part in pairs, and every split has two sides.
IsTree(t) ==
    /\ IsFiniteSet(Leaves(t)) /\ Leaves(t) # {}
    /\ t \in [Leaves(t) -> Ways]
    /\ \A p, q \in Leaves(t) : p # q => \E k \in Nat : PartAt(t[p], t[q], k)
    /\ \A p \in Leaves(t) : \A k \in 1 .. Len(t[p]) : \E q \in Leaves(t) : PartAt(t[p], t[q], k)

LEMMA PartSymmetric ==
    ASSUME NEW v \in Ways, NEW w \in Ways, NEW k \in Nat, PartAt(v, w, k)
    PROVE  PartAt(w, v, k)
<1>1. v[k] \in Steps
  BY DEF PartAt, Ways
<1>2. v[k] = Opposite(w[k])
  BY <1>1, Opposites DEF PartAt
<1>. QED
  BY <1>2 DEF PartAt

LEMMA PartOnce ==
    ASSUME NEW v \in Ways, NEW w \in Ways, NEW k \in Nat, PartAt(v, w, k),
           NEW j \in Nat, PartAt(v, w, j)
    PROVE  j = k
<1>1. v[k] \in Steps /\ v[j] \in Steps
  BY DEF PartAt, Ways
<1>2. w[k] # v[k] /\ w[j] # v[j]
  BY <1>1, Opposites DEF PartAt
<1>. QED
  BY <1>2 DEF PartAt

LEMMA NeverParts ==
    ASSUME NEW v \in Ways, NEW k \in Nat PROVE ~PartAt(v, v, k)
<1>1. SUFFICES ASSUME PartAt(v, v, k) PROVE FALSE
  OBVIOUS
<1>2. v[k] \in Steps
  BY <1>1 DEF PartAt, Ways
<1>. QED
  BY <1>1, <1>2, Opposites DEF PartAt

LEMMA TreeParts ==
    ASSUME NEW t, IsTree(t), NEW p \in Leaves(t), NEW q \in Leaves(t), p # q
    PROVE  \E k \in Nat : PartAt(t[p], t[q], k) /\ PartAt(t[q], t[p], k)
<1>1. PICK k \in Nat : PartAt(t[p], t[q], k)
  BY DEF IsTree
<1>2. t[p] \in Ways /\ t[q] \in Ways
  BY DEF IsTree
<1>. QED
  BY <1>1, <1>2, PartSymmetric

LEMMA TreeWays ==
    ASSUME NEW t, IsTree(t), NEW p \in Leaves(t)
    PROVE  /\ t[p] \in Ways /\ Len(t[p]) \in Nat
           /\ \A k \in 1 .. Len(t[p]) : t[p][k] \in Steps
<1>1. t[p] \in Ways
  BY DEF IsTree
<1>. QED
  BY <1>1 DEF Ways

\* The leaves under a node.
LEMMA UnderNode ==
    ASSUME NEW t, IsTree(t), NEW p \in Leaves(t), NEW q \in Leaves(t), NEW k \in 0 .. Len(t[p])
    PROVE  /\ q \in Under(t, p, k) <=> k <= Len(t[q]) /\ \A i \in 1 .. k : t[q][i] = t[p][i]
           /\ \A j \in Nat : PartAt(t[p], t[q], j) => (q \in Under(t, p, k) <=> k < j)
           /\ p \in Under(t, p, k)
<1>1. /\ t[p] \in Ways /\ Len(t[p]) \in Nat /\ t[q] \in Ways /\ Len(t[q]) \in Nat
      /\ \A i \in 1 .. Len(t[p]) : t[p][i] \in Steps
  BY TreeWays
<1>2. DOMAIN t[q] = 1 .. Len(t[q]) /\ DOMAIN t[p] = 1 .. Len(t[p])
  BY <1>1 DEF Ways
<1>3. q \in Under(t, p, k) <=> k <= Len(t[q]) /\ \A i \in 1 .. k : t[q][i] = t[p][i]
  <2>1. ASSUME \A i \in 1 .. k : i \in 1 .. Len(t[q]) PROVE k <= Len(t[q])
    <3>1. CASE k = 0
      BY <1>1, <3>1
    <3>2. CASE k # 0
      <4>1. k \in 1 .. k
        BY <1>1, <3>2
      <4>. QED
        BY <1>1, <2>1, <4>1
    <3>. QED
      BY <3>1, <3>2
  <2>2. ASSUME k <= Len(t[q]) PROVE \A i \in 1 .. k : i \in 1 .. Len(t[q])
    BY <1>1, <2>2
  <2>. QED
    BY <1>2, <2>1, <2>2 DEF Under
<1>4. ASSUME NEW j \in Nat, PartAt(t[p], t[q], j) PROVE q \in Under(t, p, k) <=> k < j
  <2>1. t[p][j] \in Steps
    BY <1>1, <1>4 DEF PartAt
  <2>2. t[q][j] # t[p][j]
    BY <1>4, <2>1, Opposites DEF PartAt
  <2>3. ASSUME k < j PROVE k <= Len(t[q]) /\ \A i \in 1 .. k : t[q][i] = t[p][i]
    BY <1>1, <1>4, <2>3 DEF PartAt
  <2>4. ASSUME ~(k < j) PROVE j \in 1 .. k
    BY <1>1, <1>4, <2>4 DEF PartAt
  <2>. QED
    BY <1>3, <2>2, <2>3, <2>4
<1>5. p \in Under(t, p, k)
  BY <1>1, <1>2 DEF Under
<1>. QED
  BY <1>3, <1>4, <1>5

\* A tree is one pane at first.
LEMMA LeafIsTree ==
    ASSUME NEW p PROVE IsTree(Leaf(p)) /\ Leaves(Leaf(p)) = {p} /\ Leaf(p)[p] = <<>>
<1>1. Leaves(Leaf(p)) = {p} /\ Leaf(p)[p] = <<>>
  BY DEF Leaf, Leaves
<1>2. IsFiniteSet({p})
  BY FS_Singleton
<1>3. Leaf(p) \in [{p} -> Ways]
  BY DEF Leaf, Ways
<1>4. Len(Leaf(p)[p]) = 0
  BY <1>1
<1>. QED
  BY <1>1, <1>2, <1>3, <1>4 DEF IsTree

\* A step more at the front or at the back of a way.
Before(s, w) == <<s>> \o w
After(w, s)  == w \o <<s>>

LEMMA AStepMore ==
    ASSUME NEW w \in Ways, NEW s \in Steps
    PROVE  /\ Before(s, w) \in Ways /\ Len(Before(s, w)) = Len(w) + 1
           /\ Before(s, w)[1] = s /\ \A i \in 1 .. Len(w) : Before(s, w)[i + 1] = w[i]
           /\ After(w, s) \in Ways /\ Len(After(w, s)) = Len(w) + 1
           /\ After(w, s)[Len(w) + 1] = s /\ \A i \in 1 .. Len(w) : After(w, s)[i] = w[i]
<1>0. PICK one : one = <<s>>
  OBVIOUS
<1>1. one \in Seq(Steps) /\ w \in Seq(Steps) /\ Len(one) = 1 /\ one[1] = s /\ Len(w) \in Nat
  BY <1>0 DEF Ways
<1>2. PICK x : x = one \o w
  OBVIOUS
<1>3. PICK y : y = w \o one
  OBVIOUS
<1>4. x = Before(s, w) /\ y = After(w, s)
  BY <1>0, <1>2, <1>3 DEF Before, After
<1>4a. /\ x \in Seq(Steps) /\ y \in Seq(Steps) /\ Len(x) = Len(w) + 1 /\ Len(y) = Len(w) + 1
       /\ \A i \in 1 .. 1 + Len(w) : x[i] = IF i <= Len(one) THEN one[i] ELSE w[i - Len(one)]
       /\ \A i \in 1 .. Len(w) + 1 : y[i] = IF i <= Len(w) THEN w[i] ELSE one[i - Len(w)]
  <2>1. /\ x \in Seq(Steps) /\ Len(x) = 1 + Len(w)
        /\ \A i \in 1 .. 1 + Len(w) : x[i] = IF i <= Len(one) THEN one[i] ELSE w[i - Len(one)]
    <3>1. /\ x \in Seq(Steps) /\ Len(x) = Len(one) + Len(w)
          /\ \A i \in 1 .. Len(one) + Len(w) : x[i] = IF i <= Len(one) THEN one[i] ELSE w[i - Len(one)]
      BY <1>1, <1>2, ConcatProperties
    <3>. QED
      BY <1>1, <3>1
  <2>2. /\ y \in Seq(Steps) /\ Len(y) = Len(w) + 1
        /\ \A i \in 1 .. Len(w) + 1 : y[i] = IF i <= Len(w) THEN w[i] ELSE one[i - Len(w)]
    <3>1. /\ y \in Seq(Steps) /\ Len(y) = Len(w) + Len(one)
          /\ \A i \in 1 .. Len(w) + Len(one) : y[i] = IF i <= Len(w) THEN w[i] ELSE one[i - Len(w)]
      BY <1>1, <1>3, ConcatProperties
    <3>. QED
      BY <1>1, <3>1
  <2>. QED
    BY <1>1, <2>1, <2>2
<1>5. /\ x \in Seq(Steps) /\ y \in Seq(Steps) /\ Len(x) = Len(w) + 1 /\ Len(y) = Len(w) + 1
      /\ \A i \in 1 .. Len(w) + 1 :
            x[i] = (IF i <= 1 THEN one[i] ELSE w[i - 1]) /\ y[i] = (IF i <= Len(w) THEN w[i] ELSE one[i - Len(w)])
  BY <1>1, <1>4a
<1>6. x[1] = s /\ y[Len(w) + 1] = s
  BY <1>1, <1>5
<1>7. ASSUME NEW i \in 1 .. Len(w) PROVE x[i + 1] = w[i] /\ y[i] = w[i]
  <2>1. i + 1 \in 1 .. Len(w) + 1 /\ i \in 1 .. Len(w) + 1 /\ ~(i + 1 <= 1) /\ i <= Len(w) /\ i + 1 - 1 = i
    BY <1>1
  <2>. QED
    BY <1>5, <2>1
<1>8. /\ x \in Ways /\ Len(x) = Len(w) + 1 /\ x[1] = s /\ \A i \in 1 .. Len(w) : x[i + 1] = w[i]
      /\ y \in Ways /\ Len(y) = Len(w) + 1 /\ y[Len(w) + 1] = s /\ \A i \in 1 .. Len(w) : y[i] = w[i]
  BY <1>5, <1>6, <1>7 DEF Ways
<1>. QED
  BY <1>4, <1>8

\* The leaf of p becomes a split with p on the side of s and new on the other.
Grown(t, p, new, s) ==
    [q \in Leaves(t) \cup {new} |->
        IF q = p THEN After(t[p], s) ELSE IF q = new THEN After(t[p], Opposite(s)) ELSE t[q]]

LEMMA GrownIsTree ==
    ASSUME NEW t, IsTree(t), NEW p \in Leaves(t), NEW new, new \notin Leaves(t), NEW s \in Steps
    PROVE  IsTree(Grown(t, p, new, s)) /\ Leaves(Grown(t, p, new, s)) = Leaves(t) \cup {new}
<1>. DEFINE u == Grown(t, p, new, s)
            n == Len(t[p])
<1>0. /\ Opposite(s) \in Steps /\ Opposite(Opposite(s)) = s
      /\ t[p] \in Ways /\ n \in Nat
  BY Opposites, TreeWays
<1>1. Leaves(u) = Leaves(t) \cup {new}
  BY DEF Grown, Leaves
<1>2. /\ u[p] = After(t[p], s) /\ u[new] = After(t[p], Opposite(s))
      /\ \A q \in Leaves(t) \ {p} : u[q] = t[q]
  BY DEF Grown
<1>3. u \in [Leaves(u) -> Ways]
  <2>1. \A q \in Leaves(t) : t[q] \in Ways
    BY TreeWays
  <2>2. After(t[p], s) \in Ways
    BY <1>0, AStepMore
  <2>3. After(t[p], Opposite(s)) \in Ways
    BY <1>0, AStepMore
  <2>. QED
    BY <2>1, <2>2, <2>3 DEF Grown, Leaves
<1>4. IsFiniteSet(Leaves(u)) /\ Leaves(u) # {}
  BY <1>1, FS_AddElement DEF IsTree
<1>5. /\ Len(u[p]) = n + 1 /\ u[p][n + 1] = s /\ \A i \in 1 .. n : u[p][i] = t[p][i]
      /\ Len(u[new]) = n + 1 /\ u[new][n + 1] = Opposite(s) /\ \A i \in 1 .. n : u[new][i] = t[p][i]
  <2>1. \A x \in Steps : /\ Len(After(t[p], x)) = n + 1 /\ After(t[p], x)[n + 1] = x
                        /\ \A i \in 1 .. n : After(t[p], x)[i] = t[p][i]
    BY <1>0, AStepMore
  <2>. HIDE DEF u
  <2>. QED
    BY <1>0, <1>2, <2>1
<1>6. PartAt(u[p], u[new], n + 1) /\ PartAt(u[new], u[p], n + 1)
  BY <1>0, <1>5 DEF PartAt
<1>7. ASSUME NEW q \in Leaves(t) \ {p}, NEW k \in Nat, PartAt(t[p], t[q], k)
      PROVE  /\ PartAt(u[p], u[q], k) /\ PartAt(u[new], u[q], k)
             /\ PartAt(u[q], u[p], k) /\ PartAt(u[q], u[new], k)
  <2>1. k \in 1 .. n /\ t[q] \in Ways
    BY <1>7, TreeWays DEF PartAt
  <2>2. u[q] = t[q]
    BY <1>2
  <2>3. PartAt(u[p], u[q], k) /\ PartAt(u[new], u[q], k)
    BY <1>0, <1>5, <1>7, <2>1, <2>2 DEF PartAt
  <2>4. u[p] \in Ways /\ u[q] \in Ways /\ u[new] \in Ways
    BY <1>1, <1>3
  <2>. QED
    BY <2>3, <2>4, PartSymmetric
<1>. HIDE DEF u, n
<1>8. ASSUME NEW q \in Leaves(u), NEW r \in Leaves(u), q # r
      PROVE  \E k \in Nat : PartAt(u[q], u[r], k)
  <2>0. n + 1 \in Nat
    BY <1>0
  <2>1. CASE q \notin {p, new} /\ r \notin {p, new}
    <3>1. PICK k \in Nat : PartAt(t[q], t[r], k)
      BY <1>1, <1>8, <2>1, TreeParts
    <3>. QED
      BY <1>1, <1>2, <2>1, <3>1
  <2>2. CASE q \in {p, new} /\ r \in {p, new}
    BY <1>6, <1>8, <2>0, <2>2
  <2>3. CASE q \in {p, new} /\ r \notin {p, new}
    <3>1. PICK k \in Nat : PartAt(t[p], t[r], k)
      BY <1>1, <2>3, TreeParts
    <3>. QED
      BY <1>1, <1>7, <2>3, <3>1
  <2>4. CASE q \notin {p, new} /\ r \in {p, new}
    <3>1. PICK k \in Nat : PartAt(t[p], t[q], k)
      BY <1>1, <2>4, TreeParts
    <3>. QED
      BY <1>1, <1>7, <2>4, <3>1
  <2>. QED
    BY <2>1, <2>2, <2>3, <2>4
<1>9. ASSUME NEW q \in Leaves(u), NEW k \in 1 .. Len(u[q])
      PROVE  \E r \in Leaves(u) : PartAt(u[q], u[r], k)
  <2>1. CASE q \notin {p, new}
    <3>0. q \in Leaves(t) \ {p} /\ u[q] = t[q] /\ t[q] \in Ways
      BY <1>1, <1>2, <2>1, TreeWays
    <3>1. PICK r \in Leaves(t) : PartAt(t[q], t[r], k)
      BY <1>9, <3>0 DEF IsTree
    <3>2. CASE r = p
      <4>1. PartAt(t[p], t[q], k)
        BY <1>0, <3>0, <3>1, <3>2, PartSymmetric
      <4>. QED
        BY <1>1, <1>7, <3>0, <4>1
    <3>3. CASE r # p
      BY <1>1, <1>2, <3>0, <3>1, <3>3
    <3>. QED
      BY <3>2, <3>3
  <2>2. CASE q \in {p, new}
    <3>1. k \in 1 .. n + 1 /\ k \in Nat
      BY <1>0, <1>5, <1>9, <2>2
    <3>2. CASE k = n + 1
      BY <1>1, <1>6, <2>2, <3>2
    <3>3. CASE k # n + 1
      <4>1. k \in 1 .. Len(t[p])
        BY <1>0, <3>1, <3>3 DEF n
      <4>2. PICK r \in Leaves(t) : PartAt(t[p], t[r], k)
        BY <4>1 DEF IsTree
      <4>3. r # p
        BY <1>0, <3>1, <4>2, NeverParts
      <4>. QED
        BY <1>1, <1>7, <2>2, <3>1, <4>2, <4>3
    <3>. QED
      BY <3>2, <3>3
  <2>. QED
    BY <2>1, <2>2
<1>10. IsTree(u)
  BY <1>3, <1>4, <1>8, <1>9 DEF IsTree
<1>. QED
  BY <1>1, <1>10 DEF u

LEMMA StepTypes ==
    /\ \A v \in Int : Refine(v) \in MinRatio .. Whole - MinRatio
    /\ \A o \in {"horizontal", "vertical"}, v \in Int, side \in {"a", "b"} :
          /\ Step(o, v, side) \in Steps
          /\ Step(o, v, side).side = side /\ Step(o, v, side).orientation = o
    /\ \A o \in {"horizontal", "vertical"}, v \in Int :
          /\ Step(o, v, "b") = Opposite(Step(o, v, "a")) /\ Step(o, v, "a") = Opposite(Step(o, v, "b"))
    /\ \A d : Orientation(d) \in {"horizontal", "vertical"}
    /\ Balanced \in Int /\ Whole - Balanced \in Int
<1>1. \A v \in Int : Refine(v) \in MinRatio .. Whole - MinRatio
  BY DEF Refine, Clamp, MinRatio, Whole
<1>2. \A d : Orientation(d) \in {"horizontal", "vertical"}
  BY DEF Orientation
<1>3. Balanced \in Int /\ Whole - Balanced \in Int
  BY DEF Balanced, Whole
<1>4. ASSUME NEW o \in {"horizontal", "vertical"}, NEW v \in Int, NEW side \in {"a", "b"}
      PROVE  /\ Step(o, v, side) \in Steps
             /\ Step(o, v, side).side = side /\ Step(o, v, side).orientation = o
  BY <1>1 DEF Step, Steps
<1>5. ASSUME NEW o, NEW v
      PROVE  /\ Step(o, v, "b") = Opposite(Step(o, v, "a")) /\ Step(o, v, "a") = Opposite(Step(o, v, "b"))
  BY DEF Step, Opposite
<1>. QED
  BY <1>1, <1>2, <1>3, <1>4, <1>5

\* A pane that is split off a leaf is beside it, and all the others stay where they are.
LEMMA SplitIsGrown ==
    ASSUME NEW t, IsTree(t), NEW p \in Leaves(t), NEW new, new \notin Leaves(t), NEW d
    PROVE  \E s \in Steps : SplitLeaf(t, p, new, d) = Grown(t, p, new, s)
<1>1. p # new
  OBVIOUS
<1>2. PICK s \in Steps : Halves(p, new, d)[p] = <<s>> /\ Halves(p, new, d)[new] = <<Opposite(s)>>
  <2>1. /\ Leaves(Leaf(p)) = {p} /\ Leaf(p)[p] = <<>> /\ Leaves(Leaf(new)) = {new} /\ Leaf(new)[new] = <<>>
    BY DEF Leaf, Leaves
  <2>2. CASE TowardB(d)
    <3>. DEFINE s == Step(Orientation(d), Balanced, "a")
    <3>1. s \in Steps /\ Opposite(s) = Step(Orientation(d), Balanced, "b")
      BY StepTypes
    <3>. HIDE DEF s
    <3>2. Halves(p, new, d)[p] = <<s>> \o <<>> /\ Halves(p, new, d)[new] = <<Opposite(s)>> \o <<>>
      BY <1>1, <2>1, <2>2, <3>1 DEF Halves, Split, s
    <3>. QED
      BY <3>1, <3>2
  <2>3. CASE ~TowardB(d)
    <3>. DEFINE s == Step(Orientation(d), Whole - Balanced, "b")
    <3>1. s \in Steps /\ Opposite(s) = Step(Orientation(d), Whole - Balanced, "a")
      BY StepTypes
    <3>. HIDE DEF s
    <3>2. Halves(p, new, d)[p] = <<s>> \o <<>> /\ Halves(p, new, d)[new] = <<Opposite(s)>> \o <<>>
      BY <1>1, <2>1, <2>3, <3>1 DEF Halves, Split, s
    <3>. QED
      BY <3>1, <3>2
  <2>. QED
    BY <2>2, <2>3
<1>3. SplitLeaf(t, p, new, d) = Grown(t, p, new, s)
  BY <1>1, <1>2 DEF SplitLeaf, Grown, After
<1>. QED
  BY <1>3

LEMMA SplitLeafIsTree ==
    ASSUME NEW t, IsTree(t), NEW p \in Leaves(t), NEW new, new \notin Leaves(t), NEW d
    PROVE  IsTree(SplitLeaf(t, p, new, d)) /\ Leaves(SplitLeaf(t, p, new, d)) = Leaves(t) \cup {new}
<1>1. PICK s \in Steps : SplitLeaf(t, p, new, d) = Grown(t, p, new, s)
  BY SplitIsGrown
<1>. QED
  BY <1>1, GrownIsTree

\* A way without its n-th step.
LEMMA AStepLess ==
    ASSUME NEW w \in Ways, NEW n \in 1 .. Len(w)
    PROVE  /\ RemoveAt(w, n) \in Ways /\ Len(RemoveAt(w, n)) = Len(w) - 1
           /\ \A i \in 1 .. Len(w) - 1 : RemoveAt(w, n)[i] = IF i < n THEN w[i] ELSE w[i + 1]
<1>0. Len(w) \in Nat /\ w \in Seq(Steps)
  BY DEF Ways
<1>1. PICK x : x = SubSeq(w, 1, n - 1)
  OBVIOUS
<1>2. PICK y : y = SubSeq(w, n + 1, Len(w))
  OBVIOUS
<1>3. PICK z : z = x \o y
  OBVIOUS
<1>4. z = RemoveAt(w, n)
  BY <1>1, <1>2, <1>3 DEF RemoveAt
<1>5. x \in Seq(Steps) /\ Len(x) = n - 1 /\ \A i \in 1 .. n - 1 : x[i] = w[i]
  BY <1>0, <1>1
<1>6. y \in Seq(Steps) /\ Len(y) = Len(w) - n /\ \A i \in 1 .. Len(w) - n : y[i] = w[n + i]
  BY <1>0, <1>2
<1>7. /\ z \in Seq(Steps) /\ Len(z) = Len(x) + Len(y)
      /\ \A i \in 1 .. Len(x) + Len(y) : z[i] = IF i <= Len(x) THEN x[i] ELSE y[i - Len(x)]
  BY <1>3, <1>5, <1>6, ConcatProperties
<1>8. z \in Ways /\ Len(z) = Len(w) - 1
  BY <1>0, <1>5, <1>6, <1>7 DEF Ways
<1>9. ASSUME NEW i \in 1 .. Len(w) - 1 PROVE z[i] = IF i < n THEN w[i] ELSE w[i + 1]
  <2>0. /\ i \in 1 .. Len(x) + Len(y) /\ Len(x) = n - 1 /\ (i <= n - 1 <=> i < n)
        /\ i < n => i \in 1 .. n - 1
    BY <1>0, <1>5, <1>6
  <2>0a. z[i] = IF i <= n - 1 THEN x[i] ELSE y[i - (n - 1)]
    BY <1>7, <2>0
  <2>1. CASE i < n
    BY <1>5, <2>0, <2>0a, <2>1
  <2>2. CASE ~(i < n)
    <3>1. i - (n - 1) \in 1 .. Len(w) - n /\ n + (i - (n - 1)) = i + 1
      BY <1>0, <2>2
    <3>2. z[i] = y[i - (n - 1)]
      BY <2>0, <2>0a, <2>2
    <3>3. y[i - (n - 1)] = w[n + (i - (n - 1))]
      BY <1>6, <3>1
    <3>. QED
      BY <2>2, <3>1, <3>2, <3>3
  <2>. QED
    BY <2>1, <2>2
<1>. QED
  BY <1>4, <1>8, <1>9

\* Ways that part still do so without a step that both have, and not those that keep it.
LEMMA PartWithout ==
    ASSUME NEW v \in Ways, NEW w \in Ways, NEW k \in Nat, PartAt(v, w, k),
           NEW n \in 1 .. Len(v), n < k
    PROVE  PartAt(RemoveAt(v, n), RemoveAt(w, n), k - 1)
<1>1. /\ k \in 1 .. Len(v) /\ k \in 1 .. Len(w) /\ n \in 1 .. Len(w)
      /\ Len(v) \in Nat /\ Len(w) \in Nat
      /\ \A i \in 1 .. k - 1 : w[i] = v[i]
      /\ w[k] = Opposite(v[k])
  BY DEF PartAt, Ways
<1>2. PICK x \in Ways : x = RemoveAt(v, n)
  BY AStepLess
<1>3. PICK y \in Ways : y = RemoveAt(w, n)
  BY <1>1, AStepLess
<1>4. /\ Len(x) = Len(v) - 1 /\ \A i \in 1 .. Len(v) - 1 : x[i] = IF i < n THEN v[i] ELSE v[i + 1]
      /\ Len(y) = Len(w) - 1 /\ \A i \in 1 .. Len(w) - 1 : y[i] = IF i < n THEN w[i] ELSE w[i + 1]
  BY <1>1, <1>2, <1>3, AStepLess
<1>5. x[k - 1] = v[k] /\ y[k - 1] = w[k]
  <2>1. k - 1 \in 1 .. Len(v) - 1 /\ k - 1 \in 1 .. Len(w) - 1 /\ ~(k - 1 < n) /\ k - 1 + 1 = k
    BY <1>1
  <2>. QED
    BY <1>4, <2>1
<1>6. ASSUME NEW i \in 1 .. k - 1 - 1 PROVE y[i] = x[i]
  <2>1. /\ i \in 1 .. Len(v) - 1 /\ i \in 1 .. Len(w) - 1
        /\ i \in 1 .. k - 1 /\ i + 1 \in 1 .. k - 1
    BY <1>1
  <2>. QED
    BY <1>1, <1>4, <2>1
<1>7. k - 1 \in 1 .. Len(x) /\ k - 1 \in 1 .. Len(y)
  BY <1>1, <1>4
<1>8. PartAt(x, y, k - 1)
  BY <1>1, <1>5, <1>6, <1>7 DEF PartAt
<1>. QED
  BY <1>2, <1>3, <1>8

LEMMA PartBefore ==
    ASSUME NEW v \in Ways, NEW w \in Ways, NEW x \in Ways, NEW y \in Ways,
           NEW k \in Nat, PartAt(v, w, k),
           Len(x) >= k, Len(y) >= k, \A i \in 1 .. k : x[i] = v[i], \A i \in 1 .. k : y[i] = w[i]
    PROVE  PartAt(x, y, k)
<1>1. k \in 1 .. k /\ Len(x) \in Nat /\ Len(y) \in Nat
  BY DEF PartAt, Ways
<1>. QED
  BY <1>1 DEF PartAt

\* The sibling of p's leaf: what parts from p's way with its last step.
Sibling(t, p) == {q \in Leaves(t) : PartAt(t[p], t[q], Len(t[p]))}

LEMMA SiblingLemma ==
    ASSUME NEW t, IsTree(t), NEW p \in Leaves(t), Leaves(t) # {p}
    PROVE  /\ Len(t[p]) \in Pos /\ Sibling(t, p) # {} /\ p \notin Sibling(t, p)
           /\ Under(t, p, Len(t[p]) - 1) = Sibling(t, p) \cup {p}
           /\ \A q \in Leaves(t) \ {p} : \A k \in Nat : PartAt(t[p], t[q], k) =>
                  k <= Len(t[p]) /\ (q \in Sibling(t, p) <=> k = Len(t[p]))
<1>1. t[p] \in Ways /\ Len(t[p]) \in Nat
  BY TreeWays
<1>2. PICK q0 \in Leaves(t) : q0 # p
  OBVIOUS
<1>3. PICK k0 \in Nat : PartAt(t[p], t[q0], k0)
  BY <1>2, TreeParts
<1>4. Len(t[p]) \in Pos /\ Len(t[p]) \in 1 .. Len(t[p]) /\ Len(t[p]) - 1 \in 0 .. Len(t[p])
  BY <1>1, <1>3 DEF PartAt
<1>5. Sibling(t, p) # {}
  BY <1>4 DEF IsTree, Sibling
<1>6. p \notin Sibling(t, p)
  BY <1>1, NeverParts DEF Sibling
<1>7. ASSUME NEW q \in Leaves(t) \ {p}, NEW k \in Nat, PartAt(t[p], t[q], k)
      PROVE  /\ k <= Len(t[p]) /\ (q \in Sibling(t, p) <=> k = Len(t[p]))
             /\ (q \in Sibling(t, p) <=> q \in Under(t, p, Len(t[p]) - 1))
  <2>1. t[q] \in Ways /\ k <= Len(t[p])
    BY <1>1, <1>7, TreeWays DEF PartAt
  <2>2. q \in Sibling(t, p) <=> k = Len(t[p])
    BY <1>1, <1>7, <2>1, PartOnce DEF Sibling
  <2>3. q \in Under(t, p, Len(t[p]) - 1) <=> Len(t[p]) - 1 < k
    BY <1>4, <1>7, UnderNode
  <2>. QED
    BY <1>1, <2>1, <2>2, <2>3
<1>8. Under(t, p, Len(t[p]) - 1) = Sibling(t, p) \cup {p}
  <2>1. p \in Under(t, p, Len(t[p]) - 1)
    BY <1>4, UnderNode
  <2>2. ASSUME NEW q \in Leaves(t) \ {p}
        PROVE  q \in Sibling(t, p) <=> q \in Under(t, p, Len(t[p]) - 1)
    BY <1>7, TreeParts
  <2>3. Under(t, p, Len(t[p]) - 1) \subseteq Leaves(t) /\ Sibling(t, p) \subseteq Leaves(t)
    BY DEF Under, Sibling
  <2>. QED
    BY <2>1, <2>2, <2>3
<1>. QED
  BY <1>4, <1>5, <1>6, <1>7, <1>8

\* One of the sibling and one that is not there part before the last step, one of the
\* sibling and another of it after it.
LEMMA SiblingParts ==
    ASSUME NEW t, IsTree(t), NEW p \in Leaves(t), Leaves(t) # {p},
           NEW q \in Sibling(t, p), NEW r \in Leaves(t) \ {p}, NEW k \in Nat, PartAt(t[q], t[r], k)
    PROVE  /\ k # Len(t[p]) /\ (r \in Sibling(t, p) <=> Len(t[p]) < k)
           /\ Len(t[p]) \in 1 .. Len(t[q])
           /\ \A i \in 1 .. Len(t[p]) - 1 : t[q][i] = t[p][i]
           /\ k < Len(t[p]) => PartAt(t[p], t[r], k)
<1>. DEFINE n == Len(t[p])
<1>1. /\ t[p] \in Ways /\ n \in Pos /\ q \in Leaves(t) /\ t[q] \in Ways /\ t[r] \in Ways
      /\ PartAt(t[p], t[q], n) /\ t[p][n] \in Steps
  <2>1. q \in Leaves(t) /\ PartAt(t[p], t[q], n)
    BY DEF Sibling
  <2>2. n \in Pos
    BY SiblingLemma
  <2>. QED
    BY <2>1, <2>2, TreeWays
<1>2. n \in 1 .. Len(t[q]) /\ \A i \in 1 .. n - 1 : t[q][i] = t[p][i]
  BY <1>1 DEF PartAt
<1>3. ASSUME k < n PROVE PartAt(t[p], t[r], k) /\ r \notin Sibling(t, p)
  <2>1. PartAt(t[p], t[r], k)
    BY <1>1, <1>2, <1>3 DEF PartAt
  <2>. QED
    BY <1>1, <1>3, <2>1, SiblingLemma
<1>4. ASSUME ~(k < n) PROVE r \in Sibling(t, p) /\ n < k
  <2>0. n - 1 \in 0 .. Len(t[p])
    BY <1>1
  <2>1. n - 1 <= Len(t[r]) /\ \A i \in 1 .. n - 1 : t[r][i] = t[p][i]
    BY <1>1, <1>2, <1>4 DEF PartAt, Ways
  <2>2. r \in Under(t, p, n - 1)
    BY <2>0, <2>1, UnderNode
  <2>3. r \in Sibling(t, p)
    BY <2>2, SiblingLemma
  <2>4. PartAt(t[p], t[r], n)
    BY <2>3 DEF Sibling
  <2>5. t[r][n] = t[q][n]
    BY <1>1, <2>4 DEF PartAt
  <2>6. k # n
    <3>1. t[q][n] \in Steps
      BY <1>1, <1>2 DEF Ways
    <3>2. Opposite(t[q][n]) # t[q][n]
      BY <3>1, Opposites
    <3>. QED
      BY <2>5, <3>2 DEF PartAt
  <2>. QED
    BY <1>1, <1>4, <2>3, <2>6
<1>. QED
  BY <1>1, <1>2, <1>3, <1>4

\* A way of the sibling, and what is left of it.
LEMMA SiblingMoves ==
    ASSUME NEW t, IsTree(t), NEW p \in Leaves(t), Leaves(t) # {p}, NEW q \in Sibling(t, p),
           NEW n, n = Len(t[p])
    PROVE  /\ n \in 1 .. Len(t[q]) /\ RemoveAt(t[q], n) \in Ways
           /\ Len(RemoveAt(t[q], n)) = Len(t[q]) - 1
           /\ \A i \in 1 .. n - 1 : RemoveAt(t[q], n)[i] = t[q][i] /\ t[q][i] = t[p][i]
           /\ t[q] \in Ways /\ Len(t[q]) \in Nat /\ n \in Pos
<1>1. q \in Leaves(t) /\ PartAt(t[p], t[q], n)
  BY DEF Sibling
<1>2. t[q] \in Ways /\ Len(t[q]) \in Nat /\ n \in Pos
  BY <1>1, TreeWays, SiblingLemma
<1>3. n \in 1 .. Len(t[q]) /\ \A i \in 1 .. n - 1 : t[q][i] = t[p][i]
  BY <1>1, <1>2 DEF PartAt
<1>4. PICK x : x = RemoveAt(t[q], n)
  OBVIOUS
<1>5. x \in Ways /\ Len(x) = Len(t[q]) - 1 /\ \A i \in 1 .. Len(t[q]) - 1 : x[i] = IF i < n THEN t[q][i] ELSE t[q][i + 1]
  BY <1>2, <1>3, <1>4, AStepLess
<1>6. ASSUME NEW i \in 1 .. n - 1 PROVE x[i] = t[q][i]
  <2>1. i \in 1 .. Len(t[q]) - 1 /\ i < n
    BY <1>2, <1>3
  <2>. QED
    BY <1>5, <2>1
<1>. QED
  BY <1>2, <1>3, <1>4, <1>5, <1>6

LEMMA RemovedParts ==
    ASSUME NEW t, IsTree(t), NEW p \in Leaves(t), Leaves(t) # {p}, NEW u, u = RemoveLeaf(t, p),
           NEW q \in Leaves(t) \ {p}, NEW r \in Leaves(t) \ {p}, NEW k \in Nat, PartAt(t[q], t[r], k)
    PROVE  /\ u[q] \in Ways /\ u[r] \in Ways
           /\ PartAt(u[q], u[r], IF q \in Sibling(t, p) /\ Len(t[p]) < k THEN k - 1 ELSE k)
<1>. DEFINE n == Len(t[p])
<1>0. /\ t[p] \in Ways /\ t[q] \in Ways /\ t[r] \in Ways /\ Len(t[q]) \in Nat /\ Len(t[r]) \in Nat /\ n \in Pos
  BY TreeWays, SiblingLemma
<1>1. ASSUME NEW x \in Leaves(t) \ {p}
      PROVE  u[x] = IF x \in Sibling(t, p) THEN RemoveAt(t[x], n) ELSE t[x]
  <2>1. x \in Sibling(t, p) <=> x \in Under(t, p, n - 1)
    BY SiblingLemma
  <2>. QED
    BY <2>1 DEF RemoveLeaf
<1>2. PartAt(t[r], t[q], k)
  BY <1>0, PartSymmetric
<1>. HIDE DEF n
<1>3. CASE q \in Sibling(t, p) /\ r \in Sibling(t, p)
  <2>1. n < k /\ n \in 1 .. Len(t[q])
    BY <1>3, SiblingParts DEF n
  <2>2. PartAt(RemoveAt(t[q], n), RemoveAt(t[r], n), k - 1)
    BY <1>0, <2>1, PartWithout
  <2>3. RemoveAt(t[q], n) \in Ways /\ RemoveAt(t[r], n) \in Ways
    BY <1>3, SiblingMoves DEF n
  <2>. QED
    BY <1>1, <1>3, <2>1, <2>2, <2>3 DEF n
<1>4. CASE q \in Sibling(t, p) /\ r \notin Sibling(t, p)
  <2>1. k # n /\ ~(n < k)
    BY <1>4, SiblingParts DEF n
  <2>2. PICK x : x = RemoveAt(t[q], n)
    OBVIOUS
  <2>3. x \in Ways /\ Len(x) = Len(t[q]) - 1 /\ n \in 1 .. Len(t[q]) /\ \A i \in 1 .. n - 1 : x[i] = t[q][i]
    BY <1>4, <2>2, SiblingMoves DEF n
  <2>4. k <= Len(x) /\ k <= Len(t[r]) /\ \A i \in 1 .. k : x[i] = t[q][i]
    BY <1>0, <2>1, <2>3 DEF PartAt
  <2>5. PartAt(x, t[r], k)
    BY <1>0, <2>3, <2>4, PartBefore
  <2>. QED
    BY <1>0, <1>1, <1>4, <2>1, <2>2, <2>3, <2>5 DEF n
<1>5. CASE q \notin Sibling(t, p) /\ r \in Sibling(t, p)
  <2>1. k # n /\ ~(n < k)
    BY <1>2, <1>5, SiblingParts DEF n
  <2>2. PICK x : x = RemoveAt(t[r], n)
    OBVIOUS
  <2>3. x \in Ways /\ Len(x) = Len(t[r]) - 1 /\ n \in 1 .. Len(t[r]) /\ \A i \in 1 .. n - 1 : x[i] = t[r][i]
    BY <1>5, <2>2, SiblingMoves DEF n
  <2>4. k <= Len(x) /\ k <= Len(t[q]) /\ \A i \in 1 .. k : x[i] = t[r][i]
    BY <1>0, <2>1, <2>3 DEF PartAt
  <2>5. PartAt(t[q], x, k)
    BY <1>0, <2>3, <2>4, PartBefore
  <2>. QED
    BY <1>0, <1>1, <1>5, <2>1, <2>2, <2>3, <2>5 DEF n
<1>6. CASE q \notin Sibling(t, p) /\ r \notin Sibling(t, p)
  BY <1>0, <1>1, <1>6 DEF n
<1>. QED
  BY <1>3, <1>4, <1>5, <1>6

\* Without the leaf of p and the split above it a tree is one still.
LEMMA RemoveLeafIsTree ==
    ASSUME NEW t, IsTree(t), NEW p \in Leaves(t), Leaves(t) # {p}
    PROVE  IsTree(RemoveLeaf(t, p)) /\ Leaves(RemoveLeaf(t, p)) = Leaves(t) \ {p}
<1>. DEFINE n == Len(t[p])
<1>0. PICK u : u = RemoveLeaf(t, p)
  OBVIOUS
<1>1. Leaves(u) = Leaves(t) \ {p}
  BY <1>0 DEF RemoveLeaf, Leaves
<1>2. t[p] \in Ways /\ n \in Pos /\ Sibling(t, p) # {} /\ p \notin Sibling(t, p) /\ Sibling(t, p) \subseteq Leaves(t)
  BY TreeWays, SiblingLemma DEF Sibling
<1>3. ASSUME NEW x \in Leaves(t) \ {p}
      PROVE  u[x] = (IF x \in Sibling(t, p) THEN RemoveAt(t[x], n) ELSE t[x]) /\ u[x] \in Ways
  <2>1. x \in Sibling(t, p) <=> x \in Under(t, p, n - 1)
    BY SiblingLemma
  <2>2. u[x] = IF x \in Sibling(t, p) THEN RemoveAt(t[x], n) ELSE t[x]
    BY <1>0, <2>1 DEF RemoveLeaf
  <2>3. t[x] \in Ways
    BY TreeWays
  <2>4. x \in Sibling(t, p) => RemoveAt(t[x], n) \in Ways
    BY SiblingMoves
  <2>. QED
    BY <2>2, <2>3, <2>4
<1>. HIDE DEF n
<1>4. u \in [Leaves(u) -> Ways]
  <2>1. u = [q \in Leaves(u) |-> u[q]]
    BY <1>0 DEF RemoveLeaf, Leaves
  <2>. QED
    BY <1>1, <1>3, <2>1
<1>5. IsFiniteSet(Leaves(u)) /\ Leaves(u) # {}
  <2>1. IsFiniteSet(Leaves(t))
    BY DEF IsTree
  <2>2. IsFiniteSet(Leaves(t) \ {p})
    BY <2>1, FS_RemoveElement
  <2>. QED
    BY <1>1, <2>2
<1>6. ASSUME NEW q \in Leaves(u), NEW r \in Leaves(u), q # r
      PROVE  \E k \in Nat : PartAt(u[q], u[r], k)
  <2>1. PICK k \in Nat : PartAt(t[q], t[r], k)
    BY <1>1, <1>6, TreeParts
  <2>2. PartAt(u[q], u[r], IF q \in Sibling(t, p) /\ Len(t[p]) < k THEN k - 1 ELSE k)
    BY <1>0, <1>1, <2>1, RemovedParts
  <2>3. CASE q \in Sibling(t, p) /\ n < k
    <3>1. k - 1 \in Nat
      BY <1>2, <2>3
    <3>. QED
      BY <2>2, <2>3, <3>1 DEF n
  <2>4. CASE ~(q \in Sibling(t, p) /\ n < k)
    BY <2>2, <2>4 DEF n
  <2>. QED
    BY <2>3, <2>4
<1>7. ASSUME NEW q \in Leaves(u) \ Sibling(t, p), NEW k \in 1 .. Len(u[q])
      PROVE  \E r \in Leaves(u) : PartAt(u[q], u[r], k)
  <2>1. u[q] = t[q] /\ t[q] \in Ways /\ k \in Nat
    BY <1>1, <1>3
  <2>2. PICK r \in Leaves(t) : PartAt(t[q], t[r], k)
    BY <1>1, <2>1 DEF IsTree
  <2>3. CASE r # p
    BY <1>0, <1>1, <2>1, <2>2, <2>3, RemovedParts
  <2>4. CASE r = p
    <3>1. PICK x \in Sibling(t, p) : TRUE
      BY <1>2
    <3>2. PartAt(t[p], t[q], k)
      BY <1>2, <2>1, <2>2, <2>4, PartSymmetric
    <3>3. k < n
      <4>1. k <= n /\ k # n
        BY <1>1, <1>7, <2>1, <3>2, SiblingLemma DEF n
      <4>. QED
        BY <1>2, <2>1, <4>1
    <3>4. x \in Leaves(t) \ {p} /\ t[x] \in Ways
      BY <1>2, TreeWays
    <3>5. n \in 1 .. Len(t[x]) /\ \A i \in 1 .. n - 1 : t[x][i] = t[p][i]
      BY SiblingMoves DEF n
    <3>6. k <= Len(t[x]) /\ \A i \in 1 .. k : t[x][i] = t[p][i]
      BY <1>2, <2>1, <3>3, <3>4, <3>5 DEF Ways
    <3>7. k <= Len(t[q])
      BY <2>2 DEF PartAt
    <3>8. PartAt(t[q], t[x], k)
      BY <1>2, <2>1, <2>2, <2>4, <3>4, <3>6, <3>7, PartBefore
    <3>. QED
      BY <1>0, <1>1, <1>7, <2>1, <3>4, <3>8, RemovedParts
  <2>. QED
    BY <2>3, <2>4
<1>8. ASSUME NEW q \in Sibling(t, p), NEW k \in 1 .. Len(u[q])
      PROVE  \E r \in Leaves(u) : PartAt(u[q], u[r], k)
  <2>1. q \in Leaves(t) \ {p} /\ u[q] = RemoveAt(t[q], n)
    BY <1>2, <1>3
  <2>2. /\ n \in 1 .. Len(t[q]) /\ Len(u[q]) = Len(t[q]) - 1 /\ t[q] \in Ways /\ Len(t[q]) \in Nat
        /\ \A i \in 1 .. n - 1 : t[q][i] = t[p][i]
    <3>1. Len(t[p]) \in 1 .. Len(t[q]) /\ Len(RemoveAt(t[q], Len(t[p]))) = Len(t[q]) - 1
      BY SiblingMoves
    <3>2. \A i \in 1 .. Len(t[p]) - 1 : t[q][i] = t[p][i]
      BY SiblingMoves
    <3>3. t[q] \in Ways /\ Len(t[q]) \in Nat
      BY <2>1, TreeWays
    <3>. QED
      BY <2>1, <3>1, <3>2, <3>3 DEF n
  <2>3. PICK j \in 1 .. Len(t[q]) : j = IF k < n THEN k ELSE k + 1
    BY <1>2, <2>2
  <2>4. PICK r \in Leaves(t) : PartAt(t[q], t[r], j)
    BY <2>1 DEF IsTree
  <2>5. t[r] \in Ways /\ j \in Nat
    BY <2>2, TreeWays
  <2>6. r # p
    <3>1. SUFFICES ASSUME r = p PROVE FALSE
      OBVIOUS
    <3>2. PartAt(t[p], t[q], j)
      BY <2>2, <2>4, <2>5, <3>1, PartSymmetric
    <3>3. j = n
      BY <2>1, <2>5, <3>2, SiblingLemma DEF n
    <3>. QED
      BY <1>2, <2>3, <3>3
  <2>7. PartAt(u[q], u[r], IF q \in Sibling(t, p) /\ Len(t[p]) < j THEN j - 1 ELSE j)
    BY <1>0, <2>1, <2>4, <2>5, <2>6, RemovedParts
  <2>8. (IF q \in Sibling(t, p) /\ n < j THEN j - 1 ELSE j) = k
    BY <1>2, <2>2, <2>3
  <2>. QED
    BY <1>1, <2>6, <2>7, <2>8 DEF n
<1>9. IsTree(u)
  <2>1. \A q \in Leaves(u) : \A k \in 1 .. Len(u[q]) : \E r \in Leaves(u) : PartAt(u[q], u[r], k)
    BY <1>7, <1>8
  <2>. QED
    BY <1>4, <1>5, <1>6, <2>1 DEF IsTree
<1>. QED
  BY <1>0, <1>1, <1>9
---------------------------------------------
(* A divider moves.                                                        *)

\* The divider of the split that p's way passes with step k moves by x.
Tuned(step, x) == [step EXCEPT !.ratio = Refine(@ + x)]
Retuned(t, p, k, x) ==
    [q \in Leaves(t) |-> IF q \in Under(t, p, k - 1) THEN [t[q] EXCEPT ![k] = Tuned(@, x)] ELSE t[q]]

LEMMA TunedSteps ==
    ASSUME NEW s \in Steps, NEW x \in Int
    PROVE  /\ Tuned(s, x) \in Steps /\ Opposite(Tuned(s, x)) = Tuned(Opposite(s), x)
           /\ Tuned(s, x).ratio = Refine(s.ratio + x)
           /\ Tuned(s, x).side = s.side /\ Tuned(s, x).orientation = s.orientation
<1>1. s.ratio + x \in Int
  BY DEF Steps, MinRatio, Whole
<1>2. PICK v \in MinRatio .. Whole - MinRatio : v = Refine(s.ratio + x)
  BY <1>1, StepTypes
<1>3. Opposite(s).ratio = s.ratio
  BY DEF Opposite, Steps
<1>4. Tuned(s, x) = [s EXCEPT !.ratio = v] /\ Tuned(Opposite(s), x) = [Opposite(s) EXCEPT !.ratio = v]
  BY <1>2, <1>3 DEF Tuned
<1>5. Tuned(s, x) \in Steps /\ Tuned(s, x).ratio = v /\ Tuned(s, x).side = s.side /\ Tuned(s, x).orientation = s.orientation
  BY <1>4 DEF Steps
<1>6. Opposite([s EXCEPT !.ratio = v]) = [Opposite(s) EXCEPT !.ratio = v]
  BY DEF Opposite, Steps
<1>. QED
  BY <1>2, <1>4, <1>5, <1>6

LEMMA RetunedWays ==
    ASSUME NEW t, IsTree(t), NEW p \in Leaves(t), NEW k \in 1 .. Len(t[p]), NEW x \in Int,
           NEW q \in Leaves(t), NEW w, w = Retuned(t, p, k, x)[q]
    PROVE  /\ w \in Ways /\ Len(w) = Len(t[q])
           /\ \A i \in 1 .. Len(t[q]) : w[i] = IF q \in Under(t, p, k - 1) /\ i = k THEN Tuned(t[q][i], x) ELSE t[q][i]
           /\ q \in Under(t, p, k - 1) => k \in 1 .. Len(t[q])
<1>1. t[p] \in Ways /\ Len(t[p]) \in Nat /\ t[q] \in Ways /\ Len(t[q]) \in Nat /\ t[q] \in Seq(Steps)
  BY TreeWays DEF Ways
<1>2. k - 1 \in 0 .. Len(t[p])
  BY <1>1
<1>3. CASE q \notin Under(t, p, k - 1)
  BY <1>1, <1>3 DEF Retuned
<1>4. CASE q \in Under(t, p, k - 1)
  <2>1. k \in 1 .. Len(t[q])
    <3>1. CASE q = p
      BY <3>1
    <3>2. CASE q # p
      <4>1. PICK j \in Nat : PartAt(t[p], t[q], j)
        BY <3>2, TreeParts
      <4>2. k - 1 < j
        BY <1>2, <1>4, <4>1, UnderNode
      <4>. QED
        BY <1>1, <4>1, <4>2 DEF PartAt
    <3>. QED
      BY <3>1, <3>2
  <2>2. w = [t[q] EXCEPT ![k] = Tuned(t[q][k], x)]
    BY <1>4 DEF Retuned
  <2>3. Tuned(t[q][k], x) \in Steps
    <3>1. t[q][k] \in Steps
      BY <1>1, <2>1
    <3>. QED
      BY <3>1, TunedSteps
  <2>4. PICK s \in Steps : s = Tuned(t[q][k], x)
    BY <2>3
  <2>5. w \in Seq(Steps) /\ Len(w) = Len(t[q]) /\ \A i \in 1 .. Len(t[q]) : w[i] = IF i = k THEN s ELSE t[q][i]
    BY <1>1, <2>1, <2>2, <2>4
  <2>. QED
    BY <1>4, <2>1, <2>4, <2>5 DEF Ways
<1>. QED
  BY <1>3, <1>4

LEMMA RetunedParts ==
    ASSUME NEW t, IsTree(t), NEW p \in Leaves(t), NEW k \in 1 .. Len(t[p]), NEW x \in Int,
           NEW u, u = Retuned(t, p, k, x),
           NEW q \in Leaves(t), NEW r \in Leaves(t), NEW j \in Nat, PartAt(t[q], t[r], j)
    PROVE  PartAt(u[q], u[r], j)
<1>0. /\ t[p] \in Ways /\ t[q] \in Ways /\ t[r] \in Ways
      /\ Len(t[p]) \in Nat /\ Len(t[q]) \in Nat /\ Len(t[r]) \in Nat
      /\ j \in 1 .. Len(t[q]) /\ j \in 1 .. Len(t[r])
      /\ \A i \in 1 .. j - 1 : t[r][i] = t[q][i]
      /\ t[r][j] = Opposite(t[q][j]) /\ t[q][j] \in Steps
  BY TreeWays DEF PartAt
<1>1. PICK v : v = u[q]
  OBVIOUS
<1>2. PICK w : w = u[r]
  OBVIOUS
<1>3. /\ Len(v) = Len(t[q]) /\ Len(w) = Len(t[r])
      /\ \A i \in 1 .. Len(t[q]) : v[i] = IF q \in Under(t, p, k - 1) /\ i = k THEN Tuned(t[q][i], x) ELSE t[q][i]
      /\ \A i \in 1 .. Len(t[r]) : w[i] = IF r \in Under(t, p, k - 1) /\ i = k THEN Tuned(t[r][i], x) ELSE t[r][i]
  <2>1. /\ Len(v) = Len(t[q])
        /\ \A i \in 1 .. Len(t[q]) : v[i] = IF q \in Under(t, p, k - 1) /\ i = k THEN Tuned(t[q][i], x) ELSE t[q][i]
    BY <1>1, RetunedWays
  <2>2. /\ Len(w) = Len(t[r])
        /\ \A i \in 1 .. Len(t[r]) : w[i] = IF r \in Under(t, p, k - 1) /\ i = k THEN Tuned(t[r][i], x) ELSE t[r][i]
    BY <1>2, RetunedWays
  <2>. QED
    BY <2>1, <2>2
<1>4. ASSUME k <= j PROVE q \in Under(t, p, k - 1) <=> r \in Under(t, p, k - 1)
  <2>1. k - 1 \in 0 .. Len(t[p])
    BY <1>0
  <2>2. k - 1 <= Len(t[q]) /\ k - 1 <= Len(t[r]) /\ \A i \in 1 .. k - 1 : t[q][i] = t[r][i]
    BY <1>0, <1>4
  <2>3. q \in Under(t, p, k - 1) <=> k - 1 <= Len(t[q]) /\ \A i \in 1 .. k - 1 : t[q][i] = t[p][i]
    BY <2>1, UnderNode
  <2>4. r \in Under(t, p, k - 1) <=> k - 1 <= Len(t[r]) /\ \A i \in 1 .. k - 1 : t[r][i] = t[p][i]
    BY <2>1, UnderNode
  <2>. QED
    BY <2>2, <2>3, <2>4
<1>5. ASSUME NEW i \in 1 .. j - 1 PROVE w[i] = v[i]
  <2>1. i \in 1 .. Len(t[q]) /\ i \in 1 .. Len(t[r]) /\ t[r][i] = t[q][i] /\ (i = k => k <= j)
    BY <1>0
  <2>. QED
    BY <1>3, <1>4, <2>1
<1>6. w[j] = Opposite(v[j])
  <2>1. CASE j = k /\ q \in Under(t, p, k - 1)
    <3>1. r \in Under(t, p, k - 1)
      BY <1>4, <2>1
    <3>2. v[j] = Tuned(t[q][j], x) /\ w[j] = Tuned(t[r][j], x)
      BY <1>0, <1>3, <2>1, <3>1
    <3>. QED
      BY <1>0, <3>2, TunedSteps
  <2>2. CASE ~(j = k /\ q \in Under(t, p, k - 1))
    <3>1. ~(j = k /\ r \in Under(t, p, k - 1))
      BY <1>4, <2>2
    <3>2. v[j] = t[q][j] /\ w[j] = t[r][j]
      BY <1>0, <1>3, <2>2, <3>1
    <3>. QED
      BY <1>0, <3>2
  <2>. QED
    BY <2>1, <2>2
<1>7. PartAt(v, w, j)
  BY <1>0, <1>3, <1>5, <1>6 DEF PartAt
<1>. QED
  BY <1>1, <1>2, <1>7

LEMMA RetunedIsTree ==
    ASSUME NEW t, IsTree(t), NEW p \in Leaves(t), NEW k \in 1 .. Len(t[p]), NEW x \in Int
    PROVE  IsTree(Retuned(t, p, k, x)) /\ Leaves(Retuned(t, p, k, x)) = Leaves(t)
<1>1. PICK u : u = Retuned(t, p, k, x)
  OBVIOUS
<1>2. Leaves(u) = Leaves(t) /\ u = [q \in Leaves(u) |-> u[q]]
  BY <1>1 DEF Retuned, Leaves
<1>3. \A q \in Leaves(t) : u[q] \in Ways /\ Len(u[q]) = Len(t[q])
  BY <1>1, RetunedWays
<1>4. u \in [Leaves(u) -> Ways]
  BY <1>2, <1>3
<1>5. \A q, r \in Leaves(t) : q # r => \E j \in Nat : PartAt(u[q], u[r], j)
  BY <1>1, TreeParts, RetunedParts
<1>6. ASSUME NEW q \in Leaves(t), NEW j \in 1 .. Len(t[q]) PROVE \E r \in Leaves(t) : PartAt(u[q], u[r], j)
  <2>1. PICK r \in Leaves(t) : PartAt(t[q], t[r], j)
    BY DEF IsTree
  <2>2. j \in Nat
    BY TreeWays
  <2>. QED
    BY <1>1, <2>1, <2>2, RetunedParts
<1>7. IsFiniteSet(Leaves(u)) /\ Leaves(u) # {}
  BY <1>2 DEF IsTree
<1>8. \A q \in Leaves(u) : \A j \in 1 .. Len(u[q]) : \E r \in Leaves(u) : PartAt(u[q], u[r], j)
  BY <1>2, <1>3, <1>6
<1>9. IsTree(u)
  BY <1>2, <1>4, <1>5, <1>7, <1>8 DEF IsTree
<1>. QED
  BY <1>1, <1>2, <1>9

\* The deepest divider that a pane shares with what lies on its side d.
Governing(t, p, d) == {k \in 1 .. Len(t[p]) : Governs(t[p][k], d)}

LEMMA ResizeIsRetuned ==
    ASSUME NEW t, IsTree(t), NEW p \in Leaves(t), NEW d, NEW delta \in Int
    PROVE  \/ ResizeLeaf(t, p, d, delta) = t
           \/ \E k \in Governing(t, p, d) : ResizeLeaf(t, p, d, delta) = Retuned(t, p, k, Slide(d, delta))
<1>1. t[p] \in Ways /\ Len(t[p]) \in Nat /\ DOMAIN t[p] = 1 .. Len(t[p])
  BY TreeWays DEF Ways
<1>2. PICK G : G = Governing(t, p, d)
  OBVIOUS
<1>3. G \subseteq 1 .. Len(t[p]) /\ G = {k \in DOMAIN t[p] : Governs(t[p][k], d)}
  BY <1>1, <1>2 DEF Governing
<1>4. ASSUME G = {} PROVE ResizeLeaf(t, p, d, delta) = t
  BY <1>3, <1>4 DEF ResizeLeaf
<1>5. ASSUME G # {} PROVE Max(G) \in G /\ ResizeLeaf(t, p, d, delta) = Retuned(t, p, Max(G), Slide(d, delta))
  <2>1. Max(G) \in G
    BY <1>1, <1>3, <1>5, MaxIsIn
  <2>2. PICK k : k = Max(G)
    OBVIOUS
  <2>3. ResizeLeaf(t, p, d, delta) =
          [q \in Leaves(t) |-> IF q \in Under(t, p, k - 1)
                               THEN [t[q] EXCEPT ![k].ratio = Refine(@ + Slide(d, delta))] ELSE t[q]]
    BY <1>3, <1>5, <2>2 DEF ResizeLeaf
  <2>4. Retuned(t, p, k, Slide(d, delta)) =
          [q \in Leaves(t) |-> IF q \in Under(t, p, k - 1)
                               THEN [t[q] EXCEPT ![k].ratio = Refine(@ + Slide(d, delta))] ELSE t[q]]
    BY DEF Retuned, Tuned
  <2>. QED
    BY <2>1, <2>2, <2>3, <2>4
<1>. QED
  BY <1>2, <1>4, <1>5

LEMMA ResizeLeafIsTree ==
    ASSUME NEW t, IsTree(t), NEW p \in Leaves(t), NEW d, NEW delta \in Int
    PROVE  IsTree(ResizeLeaf(t, p, d, delta)) /\ Leaves(ResizeLeaf(t, p, d, delta)) = Leaves(t)
<1>1. Slide(d, delta) \in Int
  BY DEF Slide
<1>2. CASE ResizeLeaf(t, p, d, delta) = t
  BY <1>2
<1>3. ASSUME NEW k \in Governing(t, p, d), ResizeLeaf(t, p, d, delta) = Retuned(t, p, k, Slide(d, delta))
      PROVE  IsTree(ResizeLeaf(t, p, d, delta)) /\ Leaves(ResizeLeaf(t, p, d, delta)) = Leaves(t)
  <2>1. k \in 1 .. Len(t[p])
    BY DEF Governing
  <2>. QED
    BY <1>1, <1>3, <2>1, RetunedIsTree
<1>. QED
  BY <1>2, <1>3, ResizeIsRetuned

Joined(v, w) == v \o w
IsJoined(z, v, w) ==
    /\ z \in Ways /\ Len(z) = Len(v) + Len(w) /\ Len(v) \in Nat /\ Len(w) \in Nat
    /\ \A i \in 1 .. Len(v) : z[i] = v[i]
    /\ \A i \in 1 .. Len(w) : z[Len(v) + i] = w[i]

LEMMA JoinedWays ==
    ASSUME NEW v \in Ways, NEW w \in Ways
    PROVE  IsJoined(Joined(v, w), v, w)
<1>0. v \in Seq(Steps) /\ w \in Seq(Steps) /\ Len(v) \in Nat /\ Len(w) \in Nat
  BY DEF Ways
<1>1. PICK z : z = v \o w
  OBVIOUS
<1>2. /\ z \in Seq(Steps) /\ Len(z) = Len(v) + Len(w)
      /\ \A i \in 1 .. Len(v) + Len(w) : z[i] = IF i <= Len(v) THEN v[i] ELSE w[i - Len(v)]
  BY <1>0, <1>1, ConcatProperties
<1>3. ASSUME NEW i \in 1 .. Len(v) PROVE z[i] = v[i]
  <2>1. i \in 1 .. Len(v) + Len(w) /\ i <= Len(v)
    BY <1>0
  <2>. QED
    BY <1>2, <2>1
<1>4. ASSUME NEW i \in 1 .. Len(w) PROVE z[Len(v) + i] = w[i]
  <2>1. Len(v) + i \in 1 .. Len(v) + Len(w) /\ ~(Len(v) + i <= Len(v)) /\ Len(v) + i - Len(v) = i
    BY <1>0
  <2>. QED
    BY <1>2, <2>1
<1>5. IsJoined(z, v, w)
  BY <1>0, <1>2, <1>3, <1>4 DEF IsJoined, Ways
<1>. QED
  BY <1>1, <1>5 DEF Joined

LEMMA JoinedParts ==
    ASSUME NEW c \in Ways, NEW d \in Ways, NEW v \in Ways, NEW w \in Ways, NEW k \in Nat
    PROVE  /\ PartAt(v, w, k) => PartAt(Joined(c, v), Joined(c, w), Len(c) + k) /\ Len(c) + k \in Nat
           /\ PartAt(c, d, k) => PartAt(Joined(c, v), Joined(d, w), k)
<1>1. /\ Len(c) \in Nat /\ Len(d) \in Nat /\ Len(v) \in Nat /\ Len(w) \in Nat
  BY DEF Ways
<1>2. ASSUME PartAt(v, w, k) PROVE PartAt(Joined(c, v), Joined(c, w), Len(c) + k)
  <2>1. PICK x : x = Joined(c, v) /\ IsJoined(x, c, v)
    BY JoinedWays
  <2>2. PICK y : y = Joined(c, w) /\ IsJoined(y, c, w)
    BY JoinedWays
  <2>3. /\ Len(x) = Len(c) + Len(v) /\ \A i \in 1 .. Len(c) : x[i] = c[i]
        /\ \A i \in 1 .. Len(v) : x[Len(c) + i] = v[i]
    BY <2>1 DEF IsJoined
  <2>4. /\ Len(y) = Len(c) + Len(w) /\ \A i \in 1 .. Len(c) : y[i] = c[i]
        /\ \A i \in 1 .. Len(w) : y[Len(c) + i] = w[i]
    BY <2>2 DEF IsJoined
  <2>5. ASSUME NEW i \in 1 .. Len(c) + k - 1 PROVE y[i] = x[i]
    <3>1. CASE i <= Len(c)
      BY <1>1, <2>3, <2>4, <3>1
    <3>2. CASE ~(i <= Len(c))
      <4>1. PICK m \in 1 .. k - 1 : i = Len(c) + m
        <5>1. i - Len(c) \in 1 .. k - 1 /\ i = Len(c) + (i - Len(c))
          BY <1>1, <3>2
        <5>. QED
          BY <5>1
      <4>2. m \in 1 .. Len(v) /\ m \in 1 .. Len(w) /\ w[m] = v[m]
        BY <1>1, <1>2 DEF PartAt
      <4>. QED
        BY <2>3, <2>4, <4>1, <4>2
    <3>. QED
      BY <3>1, <3>2
  <2>6. /\ Len(c) + k \in 1 .. Len(x) /\ Len(c) + k \in 1 .. Len(y)
        /\ x[Len(c) + k] = v[k] /\ y[Len(c) + k] = w[k] /\ w[k] = Opposite(v[k])
    BY <1>1, <1>2, <2>3, <2>4 DEF PartAt
  <2>7. PartAt(x, y, Len(c) + k)
    BY <2>5, <2>6 DEF PartAt
  <2>. QED
    BY <2>1, <2>2, <2>7
<1>3. ASSUME PartAt(c, d, k) PROVE PartAt(Joined(c, v), Joined(d, w), k)
  <2>1. PICK x : x = Joined(c, v) /\ IsJoined(x, c, v)
    BY JoinedWays
  <2>2. PICK y : y = Joined(d, w) /\ IsJoined(y, d, w)
    BY JoinedWays
  <2>3. /\ x \in Ways /\ Len(x) >= Len(c) /\ \A i \in 1 .. Len(c) : x[i] = c[i]
        /\ y \in Ways /\ Len(y) >= Len(d) /\ \A i \in 1 .. Len(d) : y[i] = d[i]
    BY <1>1, <2>1, <2>2 DEF IsJoined
  <2>4. /\ Len(x) >= k /\ Len(y) >= k /\ \A i \in 1 .. k : x[i] = c[i]
        /\ \A i \in 1 .. k : y[i] = d[i]
    <3>1. k <= Len(c) /\ k <= Len(d)
      BY <1>3 DEF PartAt
    <3>2. \A i \in 1 .. k : i \in 1 .. Len(c) /\ i \in 1 .. Len(d)
      BY <1>1, <3>1
    <3>3. Len(x) \in Nat /\ Len(y) \in Nat
      BY <2>3 DEF Ways
    <3>. QED
      BY <1>1, <2>3, <3>1, <3>2, <3>3
  <2>5. PartAt(x, y, k)
    BY <1>3, <2>3, <2>4, PartBefore
  <2>. QED
    BY <2>1, <2>2, <2>5
<1>. QED
  BY <1>1, <1>2, <1>3

\* Trees that have no leaf in common, put in the places of the leaves of another tree.
Forest(nodes, N) ==
    /\ \A i \in N : IsTree(nodes[i])
    /\ \A i, j \in N : i # j => Leaves(nodes[i]) \cap Leaves(nodes[j]) = {}

IsGraft(u, stems, nodes) ==
    /\ u = [p \in Leaves(u) |-> u[p]]
    /\ Leaves(u) = UNION {Leaves(nodes[i]) : i \in Leaves(stems)}
    /\ \A i \in Leaves(stems) : \A p \in Leaves(nodes[i]) : u[p] = Joined(stems[i], nodes[i][p])

LEMMA GraftIsTree ==
    ASSUME NEW stems, IsTree(stems), NEW nodes, Forest(nodes, Leaves(stems)),
           NEW u, IsGraft(u, stems, nodes), NEW S, IsFiniteSet(S), Leaves(u) \subseteq S
    PROVE  IsTree(u)
<1>1. ASSUME NEW i \in Leaves(stems), NEW p \in Leaves(nodes[i])
      PROVE  /\ p \in Leaves(u) /\ stems[i] \in Ways /\ nodes[i][p] \in Ways
             /\ u[p] = Joined(stems[i], nodes[i][p]) /\ u[p] \in Ways
             /\ Len(u[p]) = Len(stems[i]) + Len(nodes[i][p])
             /\ Len(stems[i]) \in Nat /\ Len(nodes[i][p]) \in Nat
  <2>1. IsTree(nodes[i])
    BY DEF Forest
  <2>2. stems[i] \in Ways /\ nodes[i][p] \in Ways
    BY <2>1, TreeWays
  <2>3. p \in Leaves(u) /\ u[p] = Joined(stems[i], nodes[i][p])
    BY DEF IsGraft
  <2>4. IsJoined(u[p], stems[i], nodes[i][p])
    BY <2>2, <2>3, JoinedWays
  <2>. QED
    BY <2>2, <2>3, <2>4 DEF IsJoined
<1>2. ASSUME NEW p \in Leaves(u) PROVE \E i \in Leaves(stems) : p \in Leaves(nodes[i])
  BY DEF IsGraft
<1>3. \A i \in Leaves(stems) : IsTree(nodes[i]) /\ \E p : p \in Leaves(nodes[i])
  BY DEF Forest, IsTree
<1>4. ASSUME NEW i \in Leaves(stems), NEW j \in Leaves(stems), NEW k \in Nat, PartAt(stems[i], stems[j], k),
             NEW p \in Leaves(nodes[i]), NEW q \in Leaves(nodes[j])
      PROVE  PartAt(u[p], u[q], k)
  <2>1. stems[i] \in Ways /\ nodes[i][p] \in Ways /\ u[p] = Joined(stems[i], nodes[i][p])
    BY <1>1
  <2>2. stems[j] \in Ways /\ nodes[j][q] \in Ways /\ u[q] = Joined(stems[j], nodes[j][q])
    BY <1>1
  <2>. QED
    BY <1>4, <2>1, <2>2, JoinedParts
<1>5. ASSUME NEW i \in Leaves(stems), NEW k \in Nat,
             NEW p \in Leaves(nodes[i]), NEW q \in Leaves(nodes[i]), PartAt(nodes[i][p], nodes[i][q], k)
      PROVE  PartAt(u[p], u[q], Len(stems[i]) + k) /\ Len(stems[i]) + k \in Nat
  <2>1. stems[i] \in Ways /\ nodes[i][p] \in Ways /\ u[p] = Joined(stems[i], nodes[i][p])
    BY <1>1
  <2>2. nodes[i][q] \in Ways /\ u[q] = Joined(stems[i], nodes[i][q])
    BY <1>1
  <2>3. PICK a \in Ways, v \in Ways, w \in Ways : a = stems[i] /\ v = nodes[i][p] /\ w = nodes[i][q]
    BY <2>1, <2>2
  <2>4. PartAt(Joined(a, v), Joined(a, w), Len(a) + k) /\ Len(a) + k \in Nat
    BY <1>5, <2>3, JoinedParts
  <2>. QED
    BY <2>1, <2>2, <2>3, <2>4
<1>6. ASSUME NEW p \in Leaves(u), NEW q \in Leaves(u), p # q PROVE \E k \in Nat : PartAt(u[p], u[q], k)
  <2>1. PICK i \in Leaves(stems) : p \in Leaves(nodes[i])
    BY <1>2
  <2>2. PICK j \in Leaves(stems) : q \in Leaves(nodes[j])
    BY <1>2
  <2>3. CASE i = j
    <3>1. PICK k \in Nat : PartAt(nodes[i][p], nodes[i][q], k)
      BY <1>3, <1>6, <2>1, <2>2, <2>3, TreeParts
    <3>. QED
      BY <1>5, <2>1, <2>2, <2>3, <3>1
  <2>4. CASE i # j
    <3>1. PICK k \in Nat : PartAt(stems[i], stems[j], k)
      BY <2>4, TreeParts
    <3>. QED
      BY <1>4, <2>1, <2>2, <3>1
  <2>. QED
    BY <2>3, <2>4
<1>7. ASSUME NEW p \in Leaves(u), NEW k \in 1 .. Len(u[p]) PROVE \E q \in Leaves(u) : PartAt(u[p], u[q], k)
  <2>1. PICK i \in Leaves(stems) : p \in Leaves(nodes[i])
    BY <1>2
  <2>1a. /\ Len(u[p]) = Len(stems[i]) + Len(nodes[i][p]) /\ Len(stems[i]) \in Nat /\ Len(nodes[i][p]) \in Nat
    BY <1>1, <2>1
  <2>1b. PICK a \in Nat, b \in Nat : a = Len(stems[i]) /\ b = Len(nodes[i][p]) /\ k \in 1 .. a + b
    BY <2>1a
  <2>2. k \in Nat
    BY <2>1b
  <2>3. CASE k <= Len(stems[i])
    <3>1. k \in 1 .. Len(stems[i])
      BY <2>1b, <2>3
    <3>2. PICK j \in Leaves(stems) : PartAt(stems[i], stems[j], k)
      BY <3>1 DEF IsTree
    <3>3. PICK q \in Leaves(nodes[j]) : TRUE
      BY <1>3
    <3>. QED
      BY <1>1, <1>4, <2>1, <2>2, <3>2
  <2>4. CASE ~(k <= Len(stems[i]))
    <3>1. PICK m \in 1 .. Len(nodes[i][p]) : k = Len(stems[i]) + m
      <4>0. k \in 1 .. a + b /\ ~(k <= a)
        BY <2>1b, <2>4
      <4>0a. k \in Nat /\ k - a \in Nat /\ 1 <= k - a /\ k - a <= b
        BY <4>0
      <4>1. k - a \in 1 .. b /\ k = a + (k - a)
        BY <4>0a
      <4>. QED
        BY <2>1b, <4>1
    <3>2. PICK q \in Leaves(nodes[i]) : PartAt(nodes[i][p], nodes[i][q], m)
      BY <1>3, <2>1 DEF IsTree
    <3>3. m \in Nat
      BY <2>1b
    <3>. QED
      BY <1>1, <1>5, <2>1, <3>1, <3>2, <3>3
  <2>. QED
    BY <2>3, <2>4
<1>8. u \in [Leaves(u) -> Ways]
  <2>1. \A p \in Leaves(u) : u[p] \in Ways
    BY <1>1, <1>2
  <2>. QED
    BY <2>1 DEF IsGraft
<1>9. IsFiniteSet(Leaves(u)) /\ Leaves(u) # {}
  <2>1. IsFiniteSet(Leaves(u))
    BY FS_Subset
  <2>2. PICK i \in Leaves(stems) : TRUE
    BY DEF IsTree
  <2>. QED
    BY <1>1, <1>3, <2>1, <2>2
<1>. QED
  BY <1>6, <1>7, <1>8, <1>9 DEF IsTree
---------------------------------------------
(* The presets.                                                            *)

LEMMA BothAreFinite ==
    ASSUME NEW S, IsFiniteSet(S), NEW T, IsFiniteSet(T) PROVE IsFiniteSet(S \cup T)
BY FS_Union

LEMMA FunctionIsWay ==
    ASSUME NEW m \in Nat, NEW f \in [1 .. m -> Steps]
    PROVE  f \in Ways /\ Len(f) = m
BY DEF Ways

LEMMA ShareIsInt == ASSUME NEW m \in Pos PROVE Whole \div m \in Int
BY DEF Whole

IsChain(c, o, n, i, m) ==
    /\ c \in Ways /\ Len(c) = m /\ m \in Nat
    /\ \A k \in 1 .. m : c[k] = Step(o, Whole \div (n - k + 1), IF k < i THEN "b" ELSE "a")

LEMMA ChainWay ==
    ASSUME NEW o \in {"horizontal", "vertical"}, NEW n \in Pos, NEW i \in 1 .. n,
           NEW c, c = Chain(o, n, i), NEW m, m = IF i < n THEN i ELSE n - 1
    PROVE  IsChain(c, o, n, i, m)
<1>1. m \in Nat /\ \A k \in 1 .. m : n - k + 1 \in Pos
  OBVIOUS
<1>2. c = [k \in 1 .. m |-> Step(o, Whole \div (n - k + 1), IF k < i THEN "b" ELSE "a")]
  BY DEF Chain
<1>3. ASSUME NEW k \in 1 .. m PROVE Step(o, Whole \div (n - k + 1), IF k < i THEN "b" ELSE "a") \in Steps
  <2>1. Whole \div (n - k + 1) \in Int
    BY <1>1, ShareIsInt
  <2>2. PICK v \in Int : v = Whole \div (n - k + 1)
    BY <2>1
  <2>3. (IF k < i THEN "b" ELSE "a") \in {"a", "b"}
    OBVIOUS
  <2>. QED
    BY <2>2, <2>3, StepTypes
<1>4. c \in [1 .. m -> Steps]
  BY <1>2, <1>3
<1>5. c \in Ways /\ Len(c) = m
  BY <1>1, <1>4, FunctionIsWay
<1>. QED
  BY <1>1, <1>2, <1>5 DEF IsChain

\* The i-th of the nodes parts from all that come after it, and only from them, at its split.
LEMMA ChainsPart ==
    ASSUME NEW o \in {"horizontal", "vertical"}, NEW n \in Pos,
           NEW i \in 1 .. n, NEW j \in 1 .. n, i < j
    PROVE  PartAt(Chain(o, n, i), Chain(o, n, j), i) /\ PartAt(Chain(o, n, j), Chain(o, n, i), i)
<1>1. PICK c : c = Chain(o, n, i)
  OBVIOUS
<1>2. PICK d : d = Chain(o, n, j)
  OBVIOUS
<1>3. PICK m : m = IF j < n THEN j ELSE n - 1
  OBVIOUS
<1>4. i \in Nat /\ i < n /\ (IF i < n THEN i ELSE n - 1) = i
  OBVIOUS
<1>5. /\ c \in Ways /\ Len(c) = i
      /\ \A k \in 1 .. i : c[k] = Step(o, Whole \div (n - k + 1), IF k < i THEN "b" ELSE "a")
  <2>1. IsChain(c, o, n, i, i)
    BY <1>1, <1>4, ChainWay
  <2>. QED
    BY <2>1 DEF IsChain
<1>6. /\ d \in Ways /\ Len(d) = m /\ m \in Nat
      /\ \A k \in 1 .. m : d[k] = Step(o, Whole \div (n - k + 1), IF k < j THEN "b" ELSE "a")
  <2>1. IsChain(d, o, n, j, m)
    BY <1>2, <1>3, ChainWay
  <2>. QED
    BY <2>1 DEF IsChain
<1>7. i \in 1 .. m /\ i \in 1 .. i /\ \A k \in 1 .. i : k \in 1 .. m /\ k < j
  BY <1>3, <1>4
<1>8. ASSUME NEW k \in 1 .. i - 1 PROVE d[k] = c[k]
  <2>1. k \in 1 .. i /\ k < i
    OBVIOUS
  <2>. QED
    BY <1>5, <1>6, <1>7, <2>1
<1>9. d[i] = Opposite(c[i])
  <2>1. n - i + 1 \in Pos
    BY <1>4
  <2>2. PICK v \in Int : v = Whole \div (n - i + 1)
    BY <2>1, ShareIsInt
  <2>3. c[i] = Step(o, v, "a") /\ d[i] = Step(o, v, "b")
    BY <1>5, <1>6, <1>7, <2>2
  <2>. QED
    BY <2>3, StepTypes
<1>10. PartAt(c, d, i)
  BY <1>4, <1>5, <1>6, <1>7, <1>8, <1>9 DEF PartAt
<1>11. PartAt(d, c, i)
  BY <1>4, <1>5, <1>6, <1>10, PartSymmetric
<1>. QED
  BY <1>1, <1>2, <1>10, <1>11

Stems(o, n) == [i \in 1 .. n |-> Chain(o, n, i)]

LEMMA StemsAreTree ==
    ASSUME NEW o \in {"horizontal", "vertical"}, NEW n \in Pos
    PROVE  IsTree(Stems(o, n)) /\ Leaves(Stems(o, n)) = 1 .. n
<1>1. PICK x : x = Stems(o, n)
  OBVIOUS
<1>2. Leaves(x) = 1 .. n /\ \A i \in 1 .. n : x[i] = Chain(o, n, i)
  BY <1>1 DEF Stems, Leaves
<1>3. ASSUME NEW i \in 1 .. n PROVE x[i] \in Ways /\ Len(x[i]) = IF i < n THEN i ELSE n - 1
  <2>1. IsChain(x[i], o, n, i, IF i < n THEN i ELSE n - 1)
    BY <1>2, ChainWay
  <2>. QED
    BY <2>1 DEF IsChain
<1>4. x \in [Leaves(x) -> Ways]
  BY <1>1, <1>2, <1>3 DEF Stems
<1>5. IsFiniteSet(1 .. n) /\ 1 .. n # {}
  <2>1. 1 \in Int /\ n \in Int /\ 1 \in 1 .. n
    OBVIOUS
  <2>2. IsFiniteSet(1 .. n)
    BY <2>1, FS_Interval
  <2>. QED
    BY <2>1, <2>2
<1>6. ASSUME NEW i \in 1 .. n, NEW j \in 1 .. n, i # j PROVE \E k \in Nat : PartAt(x[i], x[j], k)
  <2>1. CASE i < j
    BY <1>2, <2>1, ChainsPart
  <2>2. CASE j < i
    BY <1>2, <2>2, ChainsPart
  <2>. QED
    BY <1>6, <2>1, <2>2
<1>7. ASSUME NEW i \in 1 .. n, NEW k \in 1 .. Len(x[i]) PROVE \E j \in 1 .. n : PartAt(x[i], x[j], k)
  <2>1. k \in 1 .. n /\ k <= i /\ (k = i => i < n)
    BY <1>3
  <2>2. CASE k < i
    BY <1>2, <2>1, <2>2, ChainsPart
  <2>3. CASE k = i
    <3>1. i + 1 \in 1 .. n /\ i < i + 1
      BY <2>1, <2>3
    <3>. QED
      BY <1>2, <2>3, <3>1, ChainsPart
  <2>. QED
    BY <2>1, <2>2, <2>3
<1>8. IsTree(x)
  BY <1>2, <1>4, <1>5, <1>6, <1>7 DEF IsTree
<1>. QED
  BY <1>1, <1>2, <1>8

LEMMA EvenChainIsTree ==
    ASSUME NEW o \in {"horizontal", "vertical"}, NEW n \in Pos,
           NEW nodes, DOMAIN nodes = 1 .. n, Len(nodes) = n, Forest(nodes, 1 .. n),
           NEW S, IsFiniteSet(S), UNION {Leaves(nodes[i]) : i \in 1 .. n} \subseteq S
    PROVE  /\ IsTree(EvenChain(o, nodes))
           /\ Leaves(EvenChain(o, nodes)) = UNION {Leaves(nodes[i]) : i \in 1 .. n}
<1>1. PICK u : u = EvenChain(o, nodes)
  OBVIOUS
<1>2. PICK x : x = Stems(o, n)
  OBVIOUS
<1>3. IsTree(x) /\ Leaves(x) = 1 .. n /\ \A i \in 1 .. n : x[i] = Chain(o, n, i)
  BY <1>2, StemsAreTree DEF Stems
<1>4. /\ Leaves(u) = UNION {Leaves(nodes[i]) : i \in 1 .. n}
      /\ u = [p \in Leaves(u) |-> u[p]]
      /\ \A p \in Leaves(u) : u[p] = LET i == CHOOSE i \in 1 .. n : p \in Leaves(nodes[i])
                                     IN  Chain(o, n, i) \o nodes[i][p]
  BY <1>1 DEF EvenChain, Leaves
<1>5. ASSUME NEW i \in 1 .. n, NEW p \in Leaves(nodes[i]) PROVE u[p] = Joined(x[i], nodes[i][p])
  <2>1. p \in Leaves(u)
    BY <1>4
  <2>2. PICK j : j = CHOOSE m \in 1 .. n : p \in Leaves(nodes[m])
    OBVIOUS
  <2>3. j \in 1 .. n /\ p \in Leaves(nodes[j])
    BY <1>5, <2>2
  <2>4. j = i
    BY <1>5, <2>3 DEF Forest
  <2>. QED
    BY <1>3, <1>4, <2>1, <2>2, <2>4 DEF Joined
<1>6. IsGraft(u, x, nodes)
  BY <1>3, <1>4, <1>5 DEF IsGraft
<1>7. IsTree(u)
  BY <1>3, <1>4, <1>6, GraftIsTree
<1>. QED
  BY <1>1, <1>4, <1>7

\* A split of two trees.
LEMMA SplitIsTree ==
    ASSUME NEW o \in {"horizontal", "vertical"}, NEW ratio \in Int,
           NEW a, IsTree(a), NEW b, IsTree(b), Leaves(a) \cap Leaves(b) = {}
    PROVE  IsTree(Split(o, ratio, a, b)) /\ Leaves(Split(o, ratio, a, b)) = Leaves(a) \cup Leaves(b)
<1>1. PICK s \in Steps : s = Step(o, ratio, "a") /\ Opposite(s) = Step(o, ratio, "b") /\ Opposite(s) \in Steps
  BY StepTypes
<1>2. PICK x : x = [i \in 1 .. 2 |-> IF i = 1 THEN <<s>> ELSE <<Opposite(s)>>]
  OBVIOUS
<1>3. PICK nodes : nodes = [i \in 1 .. 2 |-> IF i = 1 THEN a ELSE b]
  OBVIOUS
<1>4. PICK u : u = Split(o, ratio, a, b)
  OBVIOUS
<1>5. PICK v : v = Grown(Leaf(1), 1, 2, s)
  OBVIOUS
<1>6. IsTree(v) /\ Leaves(v) = {1, 2}
  <2>1. IsTree(Leaf(1)) /\ Leaves(Leaf(1)) = {1}
    BY LeafIsTree
  <2>2. 1 \in Leaves(Leaf(1)) /\ 2 \notin Leaves(Leaf(1))
    BY <2>1
  <2>. QED
    BY <1>5, <2>1, <2>2, GrownIsTree
<1>7. v[1] = After(<<>>, s) /\ v[2] = After(<<>>, Opposite(s))
  <2>1. Leaves(Leaf(1)) = {1} /\ Leaf(1)[1] = <<>>
    BY LeafIsTree
  <2>. QED
    BY <1>5, <2>1 DEF Grown
<1>8. Leaves(v) = 1 .. 2 /\ nodes[1] = a /\ nodes[2] = b
  BY <1>3, <1>6
<1>9. Forest(nodes, Leaves(v))
  BY <1>6, <1>8 DEF Forest
<1>10. /\ Leaves(u) = Leaves(a) \cup Leaves(b) /\ u = [p \in Leaves(u) |-> u[p]]
       /\ \A p \in Leaves(a) : u[p] = <<s>> \o a[p]
       /\ \A p \in Leaves(b) : u[p] = <<Opposite(s)>> \o b[p]
  BY <1>1, <1>4 DEF Split, Leaves
<1>11. <<s>> = After(<<>>, s) /\ <<Opposite(s)>> = After(<<>>, Opposite(s))
  BY DEF After
<1>12. ASSUME NEW i \in {1, 2}, NEW p \in Leaves(nodes[i]) PROVE u[p] = Joined(v[i], nodes[i][p])
  <2>1. CASE i = 1
    BY <1>7, <1>8, <1>10, <1>11, <1>12, <2>1 DEF Joined
  <2>2. CASE i = 2
    BY <1>7, <1>8, <1>10, <1>11, <1>12, <2>2 DEF Joined
  <2>. QED
    BY <2>1, <2>2
<1>13. Leaves(u) = UNION {Leaves(nodes[i]) : i \in Leaves(v)}
  BY <1>6, <1>8, <1>10
<1>14. IsGraft(u, v, nodes)
  BY <1>6, <1>10, <1>12, <1>13 DEF IsGraft
<1>15. IsFiniteSet(Leaves(u))
  <2>1. IsFiniteSet(Leaves(a)) /\ IsFiniteSet(Leaves(b))
    BY DEF IsTree
  <2>. QED
    BY <1>10, <2>1, BothAreFinite
<1>16. IsTree(u)
  BY <1>6, <1>9, <1>14, <1>15, GraftIsTree
<1>. QED
  BY <1>4, <1>10, <1>16

LEMMA FunctionIsSeq ==
    ASSUME NEW X, NEW m \in Nat, NEW f \in [1 .. m -> X]
    PROVE  f \in Seq(X) /\ Len(f) = m /\ DOMAIN f = 1 .. m
OBVIOUS

\* Panes in a row, none of them twice.
IsRow(ps, m, X) == m \in Nat /\ ps \in [1 .. m -> X] /\ \A i, j \in 1 .. m : ps[i] = ps[j] => i = j
RowSet(ps, m)   == {ps[i] : i \in 1 .. m}

LEMMA ArrayIsTree ==
    ASSUME NEW o \in {"horizontal", "vertical"}, NEW X, IsFiniteSet(X), NEW m \in Pos,
           NEW ps, IsRow(ps, m, X)
    PROVE  /\ IsTree(EvenChain(o, LeavesOf(ps)))
           /\ Leaves(EvenChain(o, LeavesOf(ps))) = RowSet(ps, m)
<1>1. PICK nodes : nodes = LeavesOf(ps)
  OBVIOUS
<1>2. DOMAIN nodes = 1 .. m /\ \A i \in 1 .. m : nodes[i] = Leaf(ps[i])
  BY <1>1 DEF LeavesOf, IsRow
<1>3. Len(nodes) = m
  <2>1. nodes = [i \in 1 .. m |-> Leaf(ps[i])]
    BY <1>1 DEF LeavesOf, IsRow
  <2>2. PICK Y : Y = {nodes[i] : i \in 1 .. m}
    OBVIOUS
  <2>3. nodes \in [1 .. m -> Y]
    BY <2>1, <2>2
  <2>. QED
    BY <2>3, FunctionIsSeq
<1>4. ASSUME NEW i \in 1 .. m PROVE IsTree(nodes[i]) /\ Leaves(nodes[i]) = {ps[i]}
  BY <1>2, LeafIsTree
<1>5. Forest(nodes, 1 .. m)
  <2>1. ASSUME NEW i \in 1 .. m, NEW j \in 1 .. m, i # j
        PROVE  Leaves(nodes[i]) \cap Leaves(nodes[j]) = {}
    <3>1. ps[i] # ps[j]
      BY <2>1 DEF IsRow
    <3>. QED
      BY <1>4, <3>1
  <2>. QED
    BY <1>4, <2>1 DEF Forest
<1>6. UNION {Leaves(nodes[i]) : i \in 1 .. m} = RowSet(ps, m)
  BY <1>4 DEF RowSet
<1>7. RowSet(ps, m) \subseteq X
  BY DEF RowSet, IsRow
<1>8. UNION {Leaves(nodes[i]) : i \in 1 .. m} \subseteq X
  BY <1>6, <1>7
<1>9. /\ IsTree(EvenChain(o, nodes))
      /\ Leaves(EvenChain(o, nodes)) = UNION {Leaves(nodes[i]) : i \in 1 .. m}
  BY <1>2, <1>3, <1>5, <1>8, EvenChainIsTree
<1>. QED
  BY <1>1, <1>6, <1>9

LEMMA RowsForIsThere ==
    ASSUME NEW n \in Pos PROVE RowsFor(n) \in 1 .. n
<1>1. PICK T : T = {r \in 1 .. n : r * r >= n}
  OBVIOUS
<1>2. n \in 1 .. n /\ n * n >= n
  OBVIOUS
<1>3. T \subseteq Nat /\ T # {}
  <2>1. T \subseteq 1 .. n /\ 1 .. n \subseteq Nat
    BY <1>1
  <2>2. n \in T
    BY <1>1, <1>2
  <2>. QED
    BY <2>1, <2>2
<1>4. PICK r \in T : \A q \in T : r <= q
  BY <1>3, LeastNumber
<1>5. r \in 1 .. n /\ r * r >= n
  BY <1>1, <1>4
<1>6. ASSUME NEW q \in 1 .. r - 1 PROVE q * q < n
  <2>1. q \in 1 .. n /\ ~(r <= q)
    BY <1>5
  <2>2. q \notin T
    BY <1>4, <2>1
  <2>3. q * q \in Nat
    <3>1. q \in Nat
      BY <2>1
    <3>. QED
      BY <3>1
  <2>. QED
    BY <1>1, <2>1, <2>2, <2>3
<1>. QED
  BY <1>5, <1>6 DEF RowsFor

\* Where the r-th row begins.
RowFrom(per, long, r) == (r - 1) * per + (IF r - 1 < long THEN r - 1 ELSE long)

LEMMA RowSteps ==
    ASSUME NEW per \in Nat, NEW long \in Nat, NEW r \in Pos
    PROVE  /\ RowFrom(per, long, r) \in Nat
           /\ RowFrom(per, long, r + 1) = RowFrom(per, long, r) + per + IF r - 1 < long THEN 1 ELSE 0
<1>1. PICK q \in Nat : r = q + 1
  <2>1. r - 1 \in Nat /\ r = r - 1 + 1
    OBVIOUS
  <2>. QED
    BY <2>1
<1>2. q * per \in Nat /\ (q + 1) * per = q * per + per
  OBVIOUS
<1>3. RowFrom(per, long, r) = q * per + IF q < long THEN q ELSE long
  BY <1>1 DEF RowFrom
<1>4. RowFrom(per, long, r + 1) = (q + 1) * per + IF q + 1 < long THEN q + 1 ELSE long
  BY <1>1 DEF RowFrom
<1>5. r - 1 = q
  BY <1>1
<1>6. PICK x \in Nat : x = q * per
  BY <1>2
<1>. QED
  BY <1>2, <1>3, <1>4, <1>5, <1>6

LEMMA RowsUpward ==
    ASSUME NEW per \in Nat, NEW long \in Nat, NEW r \in Pos, NEW s \in Pos, r <= s
    PROVE  RowFrom(per, long, r) <= RowFrom(per, long, s)
<1>1. PICK a \in Nat, b \in Nat : r = a + 1 /\ s = a + b + 1
  <2>1. r - 1 \in Nat /\ s - r \in Nat /\ r = r - 1 + 1 /\ s = (r - 1) + (s - r) + 1
    OBVIOUS
  <2>. QED
    BY <2>1
<1>2. (a + b) * per = a * per + b * per /\ a * per \in Nat /\ b * per \in Nat
  OBVIOUS
<1>3. RowFrom(per, long, r) = a * per + IF a < long THEN a ELSE long
  BY <1>1 DEF RowFrom
<1>4. RowFrom(per, long, s) = (a + b) * per + IF a + b < long THEN a + b ELSE long
  BY <1>1 DEF RowFrom
<1>5. PICK x \in Nat, y \in Nat : x = a * per /\ y = b * per
  BY <1>2
<1>. QED
  BY <1>2, <1>3, <1>4, <1>5

\* n panes in rows: the first begins at none, every row has some and the last ends at n.
Filled(per, long, rows, n) ==
    /\ per \in Pos /\ long \in Nat
    /\ RowFrom(per, long, 1) = 0 /\ RowFrom(per, long, rows + 1) = n

LEMMA RowsAreFilled ==
    ASSUME NEW n \in Pos, NEW rows \in 1 .. n, NEW per, per = n \div rows, NEW long, long = n % rows
    PROVE  Filled(per, long, rows, n)
<1>1. rows \in Pos /\ rows <= n
  OBVIOUS
<1>2. /\ n = rows * per + long /\ per \in Int /\ long \in Nat /\ long < rows
  BY <1>1
<1>3. per \in Pos
  <2>1. SUFFICES ASSUME per <= 0 PROVE FALSE
    BY <1>2
  <2>2. PICK z \in Nat : per = 0 - z
    <3>1. 0 - per \in Nat /\ per = 0 - (0 - per)
      BY <1>2, <2>1
    <3>. QED
      BY <3>1
  <2>3. rows * z \in Nat /\ rows * per = 0 - rows * z
    BY <1>1, <2>2
  <2>. QED
    BY <1>1, <1>2, <2>3
<1>4. RowFrom(per, long, 1) = 0
  <2>1. RowFrom(per, long, 1) = 0 * per + IF 0 < long THEN 0 ELSE long
    BY DEF RowFrom
  <2>. QED
    BY <1>2, <1>3, <2>1
<1>5. RowFrom(per, long, rows + 1) = n
  <2>1. rows + 1 - 1 = rows
    BY <1>1
  <2>2. RowFrom(per, long, rows + 1) = rows * per + long
    BY <1>1, <1>2, <2>1 DEF RowFrom
  <2>. QED
    BY <1>2, <2>2
<1>. QED
  BY <1>2, <1>3, <1>4, <1>5 DEF Filled

\* The r-th of the rows of n panes.
IsPiece(s, ps, a, b, X) == IsRow(s, b - a, X) /\ RowSet(s, b - a) = {ps[i] : i \in a + 1 .. b}

LEMMA RowIsRow ==
    ASSUME NEW X, NEW n \in Pos, NEW ps, IsRow(ps, n, X),
           NEW a \in Nat, NEW b \in Nat, a < b, b <= n
    PROVE  IsPiece(SubSeq(ps, a + 1, b), ps, a, b, X)
<1>0. ps \in [1 .. n -> X] /\ \A i, j \in 1 .. n : ps[i] = ps[j] => i = j
  BY DEF IsRow
<1>1. ps \in Seq(X) /\ Len(ps) = n
  BY <1>0, FunctionIsSeq
<1>2. PICK s : s = SubSeq(ps, a + 1, b)
  OBVIOUS
<1>3. s = [i \in 1 .. b - a |-> ps[a + i]]
  <2>1. 1 + b - (a + 1) = b - a /\ \A i \in 1 .. b - a : i + (a + 1) - 1 = a + i
    OBVIOUS
  <2>2. s = [i \in 1 .. (1 + b - (a + 1)) |-> ps[i + (a + 1) - 1]]
    BY <1>1, <1>2
  <2>. QED
    BY <2>1, <2>2
<1>4. \A i \in 1 .. b - a : a + i \in 1 .. n
  OBVIOUS
<1>5. s \in [1 .. b - a -> X]
  BY <1>0, <1>3, <1>4
<1>6. \A i, j \in 1 .. b - a : s[i] = s[j] => i = j
  BY <1>0, <1>3, <1>4
<1>7. b - a \in Nat
  OBVIOUS
<1>8. RowSet(s, b - a) = {ps[i] : i \in a + 1 .. b}
  <2>1. \A i \in 1 .. b - a : a + i \in a + 1 .. b /\ s[i] = ps[a + i]
    BY <1>3
  <2>2. ASSUME NEW i \in a + 1 .. b PROVE \E j \in 1 .. b - a : s[j] = ps[i]
    <3>1. i - a \in 1 .. b - a /\ a + (i - a) = i
      OBVIOUS
    <3>. QED
      BY <1>3, <3>1
  <2>. QED
    BY <2>1, <2>2 DEF RowSet
<1>. QED
  BY <1>2, <1>5, <1>6, <1>7, <1>8 DEF IsRow, IsPiece

LEMMA TiledIsTree ==
    ASSUME NEW X, IsFiniteSet(X), NEW n \in Pos, NEW ps, IsRow(ps, n, X)
    PROVE  IsTree(Tiled(ps)) /\ Leaves(Tiled(ps)) = RowSet(ps, n)
<1>0. ps \in [1 .. n -> X] /\ \A i, j \in 1 .. n : ps[i] = ps[j] => i = j
  BY DEF IsRow
<1>1. Len(ps) = n
  BY <1>0, FunctionIsSeq
<1>2. PICK rows \in 1 .. n : rows = RowsFor(n)
  BY RowsForIsThere
<1>3. PICK per : per = n \div rows
  OBVIOUS
<1>4. PICK long : long = n % rows
  OBVIOUS
<1>. DEFINE F(r) == RowFrom(per, long, r)
            R(r) == SubSeq(ps, F(r) + 1, F(r + 1))
            V    == "vertical"
<1>5. PICK nodes : nodes = [r \in 1 .. rows |-> EvenChain(V, LeavesOf(R(r)))]
  OBVIOUS
<1>6. Tiled(ps) = EvenChain("horizontal", nodes)
  BY <1>1, <1>2, <1>3, <1>4, <1>5 DEF Tiled, RowFrom
<1>7. per \in Pos /\ long \in Nat /\ F(1) = 0 /\ F(rows + 1) = n
  <2>1. Filled(per, long, rows, n)
    BY <1>3, <1>4, RowsAreFilled
  <2>. QED
    BY <2>1 DEF Filled
<1>. HIDE DEF F
<1>8. ASSUME NEW r \in 1 .. rows
      PROVE  F(r) \in Nat /\ F(r + 1) \in Nat /\ F(r) < F(r + 1) /\ F(r + 1) <= n
  <2>1. r \in Pos /\ rows + 1 \in Pos /\ r + 1 \in Pos /\ r + 1 <= rows + 1
    OBVIOUS
  <2>2. F(r) \in Nat /\ F(r + 1) = F(r) + per + IF r - 1 < long THEN 1 ELSE 0
    BY <1>7, <2>1, RowSteps DEF F
  <2>3. F(r + 1) <= F(rows + 1)
    BY <1>7, <2>1, RowsUpward DEF F
  <2>. QED
    BY <1>7, <2>2, <2>3
<1>9. ASSUME NEW r \in 1 .. rows
      PROVE  IsTree(nodes[r]) /\ Leaves(nodes[r]) = {ps[i] : i \in F(r) + 1 .. F(r + 1)}
  <2>1. /\ IsRow(R(r), F(r + 1) - F(r), X)
        /\ RowSet(R(r), F(r + 1) - F(r)) = {ps[i] : i \in F(r) + 1 .. F(r + 1)}
    <3>1. F(r) \in Nat /\ F(r + 1) \in Nat /\ F(r) < F(r + 1) /\ F(r + 1) <= n
      BY <1>8
    <3>2. IsPiece(SubSeq(ps, F(r) + 1, F(r + 1)), ps, F(r), F(r + 1), X)
      BY <3>1, RowIsRow
    <3>. QED
      BY <3>2 DEF IsPiece
  <2>2. F(r + 1) - F(r) \in Pos
    BY <1>8
  <2>3. /\ IsTree(EvenChain(V, LeavesOf(R(r))))
        /\ Leaves(EvenChain(V, LeavesOf(R(r)))) = RowSet(R(r), F(r + 1) - F(r))
    <3>. HIDE DEF R
    <3>. QED
      BY <2>1, <2>2, ArrayIsTree
  <2>. QED
    BY <1>5, <2>1, <2>3
<1>10. ASSUME NEW r \in 1 .. rows, NEW s \in 1 .. rows, r < s
       PROVE  Leaves(nodes[r]) \cap Leaves(nodes[s]) = {}
  <2>1. r + 1 \in Pos /\ s \in Pos /\ r + 1 <= s
    BY <1>10
  <2>2. F(r + 1) <= F(s)
    BY <1>7, <2>1, RowsUpward DEF F
  <2>3. /\ F(r) \in Nat /\ F(r + 1) \in Nat /\ F(s) \in Nat /\ F(s + 1) \in Nat
        /\ F(r + 1) <= n /\ F(s + 1) <= n
    BY <1>8
  <2>4. ASSUME NEW i \in F(r) + 1 .. F(r + 1), NEW j \in F(s) + 1 .. F(s + 1) PROVE ps[i] # ps[j]
    <3>1. i \in 1 .. n /\ j \in 1 .. n /\ i # j
      BY <2>2, <2>3
    <3>. QED
      BY <1>0, <3>1
  <2>5. /\ Leaves(nodes[r]) = {ps[i] : i \in F(r) + 1 .. F(r + 1)}
        /\ Leaves(nodes[s]) = {ps[i] : i \in F(s) + 1 .. F(s + 1)}
    BY <1>9
  <2>. QED
    BY <2>4, <2>5
<1>11. Forest(nodes, 1 .. rows)
  <2>1. ASSUME NEW r \in 1 .. rows, NEW s \in 1 .. rows, r # s
        PROVE  Leaves(nodes[r]) \cap Leaves(nodes[s]) = {}
    <3>1. CASE r < s
      BY <1>10, <3>1
    <3>2. CASE s < r
      BY <1>10, <3>2
    <3>. QED
      BY <2>1, <3>1, <3>2
  <2>. QED
    BY <1>9, <2>1 DEF Forest
<1>12. ASSUME NEW i \in 1 .. n PROVE \E r \in 1 .. rows : i \in F(r) + 1 .. F(r + 1)
  <2>1. PICK T : T = {r \in 1 .. rows : i <= F(r + 1)}
    OBVIOUS
  <2>2. rows \in T /\ T \subseteq Nat
    BY <1>7, <2>1
  <2>3. PICK r \in T : \A q \in T : r <= q
    BY <2>2, LeastNumber
  <2>4. r \in 1 .. rows /\ i <= F(r + 1) /\ F(r) \in Nat /\ F(r + 1) \in Nat
    BY <1>8, <2>1, <2>3
  <2>5. F(r) < i
    <3>1. CASE r = 1
      BY <1>7, <3>1
    <3>2. CASE r # 1
      <4>1. PICK q \in 1 .. rows : r = q + 1
        <5>1. r - 1 \in 1 .. rows /\ r = r - 1 + 1
          BY <2>4, <3>2
        <5>. QED
          BY <5>1
      <4>2. q \notin T
        BY <2>3, <2>4, <4>1
      <4>3. ~(i <= F(q + 1))
        BY <2>1, <4>2
      <4>. QED
        BY <2>4, <4>1, <4>3
    <3>. QED
      BY <3>1, <3>2
  <2>. QED
    BY <2>4, <2>5
<1>13. UNION {Leaves(nodes[r]) : r \in 1 .. rows} = RowSet(ps, n)
  <2>1. ASSUME NEW r \in 1 .. rows, NEW x \in Leaves(nodes[r]) PROVE x \in RowSet(ps, n)
    <3>1. PICK i \in F(r) + 1 .. F(r + 1) : x = ps[i]
      BY <1>9, <2>1
    <3>2. i \in 1 .. n
      BY <1>8
    <3>. QED
      BY <3>1, <3>2 DEF RowSet
  <2>2. ASSUME NEW x \in RowSet(ps, n) PROVE \E r \in 1 .. rows : x \in Leaves(nodes[r])
    <3>1. PICK i \in 1 .. n : x = ps[i]
      BY <2>2 DEF RowSet
    <3>2. PICK r \in 1 .. rows : i \in F(r) + 1 .. F(r + 1)
      BY <1>12
    <3>. QED
      BY <1>9, <3>1, <3>2
  <2>. QED
    BY <2>1, <2>2
<1>14. DOMAIN nodes = 1 .. rows /\ Len(nodes) = rows /\ rows \in Pos
  <2>1. rows \in Pos
    OBVIOUS
  <2>2. PICK Y : Y = {nodes[r] : r \in 1 .. rows}
    OBVIOUS
  <2>3. nodes \in [1 .. rows -> Y]
    BY <1>5, <2>2
  <2>. QED
    BY <2>1, <2>3, FunctionIsSeq
<1>15. RowSet(ps, n) \subseteq X
  BY <1>0 DEF RowSet
<1>16. /\ IsTree(EvenChain("horizontal", nodes))
       /\ Leaves(EvenChain("horizontal", nodes)) = UNION {Leaves(nodes[r]) : r \in 1 .. rows}
  BY <1>11, <1>13, <1>14, <1>15, EvenChainIsTree
<1>. QED
  BY <1>6, <1>13, <1>16

\* However the panes are arranged, they are the leaves of a tree.
LEMMA FromKindIsTree ==
    ASSUME NEW X, IsFiniteSet(X), NEW n \in Pos, NEW ps, IsRow(ps, n, X), NEW kind \in Presets
    PROVE  IsTree(FromKind(kind, ps)) /\ Leaves(FromKind(kind, ps)) = RowSet(ps, n)
<1>0. ps \in [1 .. n -> X] /\ \A i, j \in 1 .. n : ps[i] = ps[j] => i = j
  BY DEF IsRow
<1>1. ps \in Seq(X) /\ Len(ps) = n
  BY <1>0, FunctionIsSeq
<1>2. CASE n = 1
  <2>1. FromKind(kind, ps) = Leaf(ps[1])
    BY <1>1, <1>2 DEF FromKind
  <2>2. RowSet(ps, n) = {ps[1]}
    BY <1>2 DEF RowSet
  <2>. QED
    BY <2>1, <2>2, LeafIsTree
<1>3. CASE n # 1
  <2>1. PICK rest : rest = Tail(ps)
    OBVIOUS
  <2>2. IsRow(rest, n - 1, X) /\ RowSet(rest, n - 1) = {ps[i] : i \in 2 .. n} /\ n - 1 \in Pos
    <3>1. rest = SubSeq(ps, 1 + 1, n)
      BY <1>1, <1>3, <2>1
    <3>2. 1 \in Nat /\ n \in Nat /\ 1 < n /\ n <= n /\ n - 1 \in Pos /\ 1 + 1 = 2
      BY <1>3
    <3>3. IsRow(SubSeq(ps, 1 + 1, n), n - 1, X) /\ RowSet(SubSeq(ps, 1 + 1, n), n - 1) = {ps[i] : i \in 1 + 1 .. n}
      <4>1. IsPiece(SubSeq(ps, 1 + 1, n), ps, 1, n, X)
        BY <3>2, RowIsRow
      <4>. QED
        BY <4>1 DEF IsPiece
    <3>. QED
      BY <3>1, <3>2, <3>3
  <2>3. RowSet(ps, n) = {ps[1]} \cup RowSet(rest, n - 1) /\ {ps[1]} \cap RowSet(rest, n - 1) = {}
    <3>1. 1 .. n = {1} \cup (2 .. n) /\ 1 \notin 2 .. n
      OBVIOUS
    <3>2. \A i \in 2 .. n : ps[i] # ps[1]
      BY <1>0
    <3>. QED
      BY <2>2, <3>1, <3>2 DEF RowSet
  <2>4. ASSUME NEW o \in {"horizontal", "vertical"}
        PROVE  /\ IsTree(EvenChain(o, LeavesOf(ps))) /\ Leaves(EvenChain(o, LeavesOf(ps))) = RowSet(ps, n)
               /\ IsTree(EvenChain(o, LeavesOf(rest))) /\ Leaves(EvenChain(o, LeavesOf(rest))) = RowSet(rest, n - 1)
    BY <2>2, ArrayIsTree
  <2>5. ASSUME NEW o \in {"horizontal", "vertical"}, NEW v \in {"horizontal", "vertical"}, NEW t,
                    t = Split(o, Balanced, Leaf(ps[1]), EvenChain(v, LeavesOf(rest)))
        PROVE  IsTree(t) /\ Leaves(t) = RowSet(ps, n)
    <3>1. IsTree(Leaf(ps[1])) /\ Leaves(Leaf(ps[1])) = {ps[1]}
      BY LeafIsTree
    <3>2. IsTree(EvenChain(v, LeavesOf(rest))) /\ Leaves(EvenChain(v, LeavesOf(rest))) = RowSet(rest, n - 1)
      BY <2>4
    <3>3. PICK b : b = EvenChain(v, LeavesOf(rest))
      OBVIOUS
    <3>4. PICK a : a = Leaf(ps[1])
      OBVIOUS
    <3>5. PICK ratio \in Int : ratio = Balanced
      BY StepTypes
    <3>6. IsTree(a) /\ IsTree(b) /\ Leaves(a) \cap Leaves(b) = {} /\ Leaves(a) \cup Leaves(b) = RowSet(ps, n)
      BY <2>3, <3>1, <3>2, <3>3, <3>4
    <3>7. IsTree(Split(o, ratio, a, b)) /\ Leaves(Split(o, ratio, a, b)) = Leaves(a) \cup Leaves(b)
      BY <3>6, SplitIsTree
    <3>. QED
      BY <2>5, <3>3, <3>4, <3>5, <3>6, <3>7
  <2>6. CASE kind = "even-horizontal"
    BY <1>1, <1>3, <2>4, <2>6 DEF FromKind
  <2>7. CASE kind = "even-vertical"
    BY <1>1, <1>3, <2>4, <2>7 DEF FromKind
  <2>8. CASE kind = "main-horizontal"
    <3>1. FromKind(kind, ps) = Split("horizontal", Balanced, Leaf(ps[1]), EvenChain("vertical", LeavesOf(rest)))
      BY <1>1, <1>3, <2>1, <2>8 DEF FromKind
    <3>. QED
      BY <2>5, <3>1
  <2>9. CASE kind = "main-vertical"
    <3>1. FromKind(kind, ps) = Split("vertical", Balanced, Leaf(ps[1]), EvenChain("horizontal", LeavesOf(rest)))
      BY <1>1, <1>3, <2>1, <2>9 DEF FromKind
    <3>. QED
      BY <2>5, <3>1
  <2>10. CASE kind = "tiled"
    <3>1. FromKind(kind, ps) = Tiled(ps)
      BY <1>1, <1>3, <2>10 DEF FromKind
    <3>. QED
      BY <3>1, TiledIsTree
  <2>. QED
    BY <2>6, <2>7, <2>8, <2>9, <2>10 DEF Presets
<1>. QED
  BY <1>2, <1>3
---------------------------------------------
(* The order of display.                                                   *)

\* Which of two leaves is displayed first is seen where their ways part.
LEMMA PrecedesAt ==
    ASSUME NEW t, IsTree(t), NEW p \in Leaves(t), NEW q \in Leaves(t), NEW j \in Nat, PartAt(t[p], t[q], j)
    PROVE  Precedes(t, p, q) <=> t[p][j].side = "a"
<1>1. /\ t[p] \in Ways /\ t[q] \in Ways /\ Len(t[p]) \in Nat /\ DOMAIN t[p] = 1 .. Len(t[p])
      /\ j \in 1 .. Len(t[p])
  BY TreeWays DEF Ways, PartAt
<1>2. ASSUME NEW k \in 1 .. Len(t[p])
      PROVE  q \in Under(t, p, k - 1) \ Under(t, p, k) <=> k = j
  <2>1. k - 1 \in 0 .. Len(t[p]) /\ k \in 0 .. Len(t[p]) /\ k \in Nat
    BY <1>1
  <2>2. q \in Under(t, p, k - 1) <=> k - 1 < j
    BY <2>1, UnderNode
  <2>3. q \in Under(t, p, k) <=> k < j
    BY <2>1, UnderNode
  <2>. QED
    BY <2>1, <2>2, <2>3
<1>. QED
  BY <1>1, <1>2 DEF Precedes

LEMMA OneSidePrecedes ==
    ASSUME NEW t, IsTree(t), NEW p \in Leaves(t), NEW q \in Leaves(t), p # q
    PROVE  Precedes(t, p, q) <=> ~Precedes(t, q, p)
<1>1. PICK k \in Nat : PartAt(t[p], t[q], k) /\ PartAt(t[q], t[p], k)
  BY TreeParts
<1>2. t[p][k] \in Steps /\ t[q][k] = Opposite(t[p][k])
  BY <1>1, TreeWays DEF PartAt
<1>3. t[p][k].side \in {"a", "b"} /\ (t[q][k].side = IF t[p][k].side = "a" THEN "b" ELSE "a")
  BY <1>2 DEF Steps, Opposite
<1>4. Precedes(t, p, q) <=> t[p][k].side = "a"
  BY <1>1, PrecedesAt
<1>5. Precedes(t, q, p) <=> t[q][k].side = "a"
  BY <1>1, PrecedesAt
<1>. QED
  BY <1>3, <1>4, <1>5

LEMMA NonePrecedesItself ==
    ASSUME NEW t, IsTree(t), NEW p \in Leaves(t) PROVE ~Precedes(t, p, p)
<1>1. t[p] \in Ways /\ Len(t[p]) \in Nat /\ DOMAIN t[p] = 1 .. Len(t[p])
  BY TreeWays DEF Ways
<1>2. ASSUME NEW k \in 1 .. Len(t[p]) PROVE p \in Under(t, p, k)
  <2>1. k \in 0 .. Len(t[p])
    BY <1>1
  <2>. QED
    BY <2>1, UnderNode
<1>. QED
  BY <1>1, <1>2 DEF Precedes

LEMMA OrderPassesOn ==
    ASSUME NEW t, IsTree(t), NEW p \in Leaves(t), NEW q \in Leaves(t), NEW r \in Leaves(t),
           Precedes(t, p, q), Precedes(t, q, r)
    PROVE  Precedes(t, p, r)
<1>1. p # q /\ q # r
  BY NonePrecedesItself
<1>2. PICK j \in Nat : PartAt(t[p], t[q], j)
  BY <1>1, TreeParts
<1>3. PICK k \in Nat : PartAt(t[q], t[r], k)
  BY <1>1, TreeParts
<1>4. t[p][j].side = "a" /\ t[q][k].side = "a"
  BY <1>2, <1>3, PrecedesAt
<1>5. t[p] \in Ways /\ t[q] \in Ways /\ t[r] \in Ways
  BY TreeWays
<1>6. CASE j < k
  <2>1. PartAt(t[p], t[r], j)
    BY <1>2, <1>3, <1>5, <1>6 DEF PartAt, Ways
  <2>. QED
    BY <1>4, <2>1, PrecedesAt
<1>7. CASE k < j
  <2>1. PartAt(t[p], t[r], k)
    BY <1>2, <1>3, <1>5, <1>7 DEF PartAt, Ways
  <2>2. t[p][k] = t[q][k]
    BY <1>2, <1>3, <1>7 DEF PartAt
  <2>. QED
    BY <1>4, <2>1, <2>2, PrecedesAt
<1>8. CASE j = k
  <2>1. t[p][j] \in Steps
    BY <1>2, <1>5 DEF PartAt, Ways
  <2>2. t[q][j].side = "b"
    BY <1>2, <1>4, <2>1 DEF PartAt, Opposite, Steps
  <2>. QED
    BY <1>4, <1>8, <2>2
<1>. QED
  BY <1>6, <1>7, <1>8

\* The place of a leaf among some.
Rank(t, S, p) == Cardinality({q \in S : Precedes(t, q, p)}) + 1

LEMMA RanksGrow ==
    ASSUME NEW t, IsTree(t), NEW S, S \subseteq Leaves(t), NEW p \in S
    PROVE  /\ Rank(t, S, p) \in 1 .. Cardinality(S)
           /\ \A q \in S : Precedes(t, p, q) => Rank(t, S, p) < Rank(t, S, q)
<1>1. IsFiniteSet(S)
  BY FS_Subset DEF IsTree
<1>2. ASSUME NEW q \in S
      PROVE  /\ IsFiniteSet({x \in S : Precedes(t, x, q)})
             /\ Cardinality({x \in S : Precedes(t, x, q)}) \in Nat
             /\ Cardinality({x \in S : Precedes(t, x, q)}) < Cardinality(S)
  <2>1. PICK T : T = {x \in S : Precedes(t, x, q)}
    OBVIOUS
  <2>2. T \in SUBSET S /\ q \notin T
    BY <2>1, NonePrecedesItself
  <2>3. IsFiniteSet(T) /\ Cardinality(T) <= Cardinality(S) /\ (Cardinality(S) = Cardinality(T) => S = T)
    BY <1>1, <2>2, FS_Subset
  <2>4. Cardinality(T) \in Nat /\ Cardinality(S) \in Nat
    BY <1>1, <2>3, FS_CardinalityType
  <2>. QED
    BY <2>1, <2>2, <2>3, <2>4
<1>3. Cardinality(S) \in Nat
  BY <1>1, FS_CardinalityType
<1>4. ASSUME NEW q \in S, Precedes(t, p, q) PROVE Rank(t, S, p) < Rank(t, S, q)
  <2>1. PICK T : T = {x \in S : Precedes(t, x, p)}
    OBVIOUS
  <2>2. PICK U : U = {x \in S : Precedes(t, x, q)}
    OBVIOUS
  <2>3. T \in SUBSET U
    BY <1>4, <2>1, <2>2, OrderPassesOn
  <2>4. p \in U /\ p \notin T
    BY <1>4, <2>1, <2>2, NonePrecedesItself
  <2>5. IsFiniteSet(U) /\ Cardinality(U) \in Nat /\ Cardinality(T) \in Nat
    BY <1>2, <2>1, <2>2
  <2>6. Cardinality(T) <= Cardinality(U) /\ (Cardinality(U) = Cardinality(T) => U = T)
    BY <2>3, <2>5, FS_Subset
  <2>7. Cardinality(T) < Cardinality(U)
    BY <2>4, <2>5, <2>6
  <2>. QED
    BY <2>1, <2>2, <2>5, <2>7 DEF Rank
<1>5. Rank(t, S, p) \in 1 .. Cardinality(S)
  BY <1>2, <1>3 DEF Rank
<1>. QED
  BY <1>4, <1>5

\* There is a display order, and every pane is in it once.
Sorted(t, s) == \A i, j \in DOMAIN s : i < j => Precedes(t, s[i], s[j])

LEMMA OrderIsThere ==
    ASSUME NEW t, IsTree(t), NEW S, S \subseteq Leaves(t)
    PROVE  /\ InOrder(t, S) \in Bijection(1 .. Cardinality(S), S) /\ Sorted(t, InOrder(t, S))
           /\ IsFiniteSet(S) /\ Cardinality(S) \in Nat
<1>1. IsFiniteSet(S)
  BY FS_Subset DEF IsTree
<1>2. PICK n \in Nat : n = Cardinality(S)
  BY <1>1, FS_CardinalityType
<1>3. PICK f : f = [p \in S |-> Rank(t, S, p)]
  OBVIOUS
<1>4. f \in [S -> 1 .. n] /\ \A p, q \in S : Precedes(t, p, q) => f[p] < f[q]
  BY <1>2, <1>3, RanksGrow
<1>5. \A p, q \in S : f[p] = f[q] => p = q
  <2>1. ASSUME NEW p \in S, NEW q \in S, p # q PROVE f[p] # f[q]
    <3>1. Precedes(t, p, q) \/ Precedes(t, q, p)
      BY <2>1, OneSidePrecedes
    <3>2. f[p] < f[q] \/ f[q] < f[p]
      BY <1>4, <3>1
    <3>3. f[p] \in Nat /\ f[q] \in Nat
      BY <1>4
    <3>. QED
      BY <3>2, <3>3
  <2>. QED
    BY <2>1
<1>6. f \in Injection(S, 1 .. n)
  BY <1>4, <1>5 DEF Injection, IsInjective
<1>7. IsFiniteSet(1 .. n) /\ Cardinality(1 .. n) = n
  <2>1. 1 \in Int /\ n \in Int
    OBVIOUS
  <2>2. IsFiniteSet(1 .. n) /\ Cardinality(1 .. n) = IF 1 > n THEN 0 ELSE n - 1 + 1
    BY <2>1, FS_Interval
  <2>. QED
    BY <2>2
<1>8. f \in Surjection(S, 1 .. n)
  BY <1>2, <1>6, <1>7, FS_Injection
<1>9. \A i \in 1 .. n : \E p \in S : f[p] = i
  BY <1>8 DEF Surjection
<1>10. PICK s : s = [i \in 1 .. n |-> CHOOSE p \in S : f[p] = i]
  OBVIOUS
<1>11. s \in [1 .. n -> S] /\ \A i \in 1 .. n : f[s[i]] = i
  BY <1>9, <1>10
<1>12. s \in Bijection(1 .. n, S)
  <2>1. \A i, j \in 1 .. n : s[i] = s[j] => i = j
    BY <1>11
  <2>2. ASSUME NEW p \in S PROVE \E i \in 1 .. n : s[i] = p
    <3>1. f[p] \in 1 .. n
      BY <1>4
    <3>2. f[s[f[p]]] = f[p] /\ s[f[p]] \in S
      BY <1>11, <3>1
    <3>. QED
      BY <1>5, <3>1, <3>2
  <2>. QED
    BY <1>11, <2>1, <2>2 DEF Bijection, Injection, Surjection, IsInjective
<1>13. Sorted(t, s)
  <2>1. ASSUME NEW i \in 1 .. n, NEW j \in 1 .. n, i < j PROVE Precedes(t, s[i], s[j])
    <3>1. s[i] \in S /\ s[j] \in S /\ f[s[i]] = i /\ f[s[j]] = j
      BY <1>11
    <3>2. s[i] # s[j]
      BY <2>1, <3>1
    <3>3. ~Precedes(t, s[j], s[i])
      BY <1>4, <2>1, <3>1
    <3>. QED
      BY <3>1, <3>2, <3>3, OneSidePrecedes
  <2>. QED
    BY <1>11, <2>1 DEF Sorted
<1>14. InOrder(t, S) = CHOOSE x \in Bijection(1 .. n, S) : Sorted(t, x)
  BY <1>2 DEF InOrder, Sorted
<1>15. InOrder(t, S) \in Bijection(1 .. n, S) /\ Sorted(t, InOrder(t, S))
  BY <1>12, <1>13, <1>14
<1>. QED
  BY <1>1, <1>2, <1>15

LEMMA OrderIsRow ==
    ASSUME NEW t, IsTree(t)
    PROVE  \E n \in Pos : IsRow(PanesOf(t), n, Leaves(t)) /\ RowSet(PanesOf(t), n) = Leaves(t)
<1>1. PICK n \in Nat : n = Cardinality(Leaves(t))
  BY OrderIsThere
<1>2. PICK s : s = PanesOf(t)
  OBVIOUS
<1>3. s \in Bijection(1 .. n, Leaves(t))
  BY <1>1, <1>2, OrderIsThere DEF PanesOf
<1>4. /\ s \in [1 .. n -> Leaves(t)] /\ \A i, j \in 1 .. n : s[i] = s[j] => i = j
      /\ \A p \in Leaves(t) : \E i \in 1 .. n : s[i] = p
  BY <1>3 DEF Bijection, Injection, Surjection, IsInjective
<1>5. RowSet(s, n) = Leaves(t)
  BY <1>4 DEF RowSet
<1>6. n # 0
  <2>1. PICK p : p \in Leaves(t)
    BY DEF IsTree
  <2>. QED
    BY <1>4, <2>1
<1>. QED
  BY <1>2, <1>4, <1>5, <1>6 DEF IsRow

\* A window's panes, arranged anew, are those it had.
LEMMA ArrangedIsTree ==
    ASSUME NEW t, IsTree(t), NEW kind \in Presets
    PROVE  IsTree(FromKind(kind, PanesOf(t))) /\ Leaves(FromKind(kind, PanesOf(t))) = Leaves(t)
<1>1. IsFiniteSet(Leaves(t))
  BY DEF IsTree
<1>. QED
  BY <1>1, OrderIsRow, FromKindIsTree
---------------------------------------------
(* The geometry: the rooms on the way to a leaf, and how leaves share a rectangle.*)

Rects == [x : Nat, y : Nat, w : Nat, h : Nat]

\* A cell of a rectangle.
Inside(c, r) ==
    /\ c \in Nat \X Nat
    /\ r.x <= c[1] /\ c[1] < r.x + r.w
    /\ r.y <= c[2] /\ c[2] < r.y + r.h

LEMMA CellsAreInside ==
    ASSUME NEW r \in Rects, NEW c PROVE c \in CellsOf(r) <=> Inside(c, r)
<1>1. PICK x \in Nat, y \in Nat, w \in Nat, h \in Nat : r = [x |-> x, y |-> y, w |-> w, h |-> h]
  BY DEF Rects
<1>2. CellsOf(r) = (x .. x + w - 1) \X (y .. y + h - 1)
  BY <1>1 DEF CellsOf, Right, Bottom
<1>3. Inside(c, r) <=> c \in Nat \X Nat /\ x <= c[1] /\ c[1] < x + w /\ y <= c[2] /\ c[2] < y + h
  BY <1>1 DEF Inside
<1>4. ASSUME c \in CellsOf(r) PROVE Inside(c, r)
  BY <1>2, <1>3, <1>4
<1>5. ASSUME Inside(c, r) PROVE c \in CellsOf(r)
  BY <1>2, <1>3, <1>5
<1>. QED
  BY <1>4, <1>5

LEMMA ExtentSplits ==
    ASSUME NEW total \in Nat, NEW ratio \in Int
    PROVE  /\ SplitExtent(total, ratio) \in 0 .. total
           /\ total >= 2 => SplitExtent(total, ratio) \in 1 .. total - 1
           /\ total <= 1 => SplitExtent(total, ratio) = total
<1>1. PICK v \in Int : v = 2 * total * ratio
  OBVIOUS
<1>2. PICK z \in Int : z = (v + Whole) \div (2 * Whole)
  BY DEF Whole
<1>3. SplitExtent(total, ratio) = IF total <= 1 THEN total ELSE Clamp(1, z, total - 1)
  BY <1>1, <1>2 DEF SplitExtent
<1>. QED
  BY <1>3 DEF Clamp

\* The extent of the split that a step enters.
Share(r, s) == SplitExtent(IF s.orientation = "vertical" THEN r.w ELSE r.h, s.ratio)

EntersAs(e, r, s, a) ==
    /\ a \in 0 .. IF s.orientation = "vertical" THEN r.w ELSE r.h
    /\ e = IF s.orientation = "vertical"
           THEN IF s.side = "a" THEN [r EXCEPT !.w = a]
                                ELSE [r EXCEPT !.x = r.x + a, !.w = r.w - a]
           ELSE IF s.side = "a" THEN [r EXCEPT !.h = a]
                                ELSE [r EXCEPT !.y = r.y + a, !.h = r.h - a]

LEMMA EnterIs ==
    ASSUME NEW r \in Rects, NEW s \in Steps PROVE EntersAs(Enter(r, s), r, s, Share(r, s))
<1>1. r.w \in Nat /\ r.h \in Nat /\ s.ratio \in Int /\ s.side \in {"a", "b"}
  BY DEF Rects, Steps, MinRatio, Whole
<1>2. Share(r, s) \in 0 .. IF s.orientation = "vertical" THEN r.w ELSE r.h
  BY <1>1, ExtentSplits DEF Share
<1>. QED
  BY <1>1, <1>2 DEF Enter, SplitRect, Share, EntersAs

\* The two sides of a split share its rectangle.
Halved(r, s) ==
    /\ Enter(r, s) \in Rects
    /\ \A c : Inside(c, r) <=> Inside(c, Enter(r, s)) \/ Inside(c, Enter(r, Opposite(s)))
    /\ \A c : ~(Inside(c, Enter(r, s)) /\ Inside(c, Enter(r, Opposite(s))))

LEMMA EnterHalves ==
    ASSUME NEW r \in Rects, NEW s \in Steps PROVE Halved(r, s)
<1>1. PICK x \in Nat, y \in Nat, w \in Nat, h \in Nat : r = [x |-> x, y |-> y, w |-> w, h |-> h]
  BY DEF Rects
<1>2. PICK a : a = Share(r, s)
  OBVIOUS
<1>3. PICK o \in Steps : o = Opposite(s)
  BY Opposites
<1>4. o.orientation = s.orientation /\ o.ratio = s.ratio /\ (o.side = IF s.side = "a" THEN "b" ELSE "a")
  BY <1>3 DEF Opposite, Steps
<1>5. s.side \in {"a", "b"} /\ s.orientation \in {"vertical", "horizontal"}
  BY DEF Steps
<1>6. Share(r, o) = a
  BY <1>2, <1>4 DEF Share
<1>6a. EntersAs(Enter(r, s), r, s, a) /\ EntersAs(Enter(r, o), r, o, a)
  BY <1>2, <1>6, EnterIs
<1>7. CASE s.orientation = "vertical"
  <2>1. a \in 0 .. w
    BY <1>1, <1>6a, <1>7 DEF EntersAs
  <2>2. PICK A : A = [x |-> x, y |-> y, w |-> a, h |-> h]
    OBVIOUS
  <2>3. PICK B : B = [x |-> x + a, y |-> y, w |-> w - a, h |-> h]
    OBVIOUS
  <2>4. Enter(r, s) = IF s.side = "a" THEN A ELSE B
    BY <1>1, <1>6a, <1>7, <2>2, <2>3 DEF EntersAs
  <2>5. Enter(r, o) = IF o.side = "a" THEN A ELSE B
    BY <1>1, <1>4, <1>6a, <1>7, <2>2, <2>3 DEF EntersAs
  <2>6. A \in Rects /\ B \in Rects
    BY <2>1, <2>2, <2>3 DEF Rects
  <2>7. ASSUME NEW c
        PROVE  /\ Inside(c, r) <=> Inside(c, A) \/ Inside(c, B)
               /\ ~(Inside(c, A) /\ Inside(c, B))
    BY <1>1, <2>1, <2>2, <2>3 DEF Inside
  <2>. QED
    BY <1>3, <1>4, <1>5, <2>4, <2>5, <2>6, <2>7 DEF Halved
<1>8. CASE s.orientation = "horizontal"
  <2>1. a \in 0 .. h
    BY <1>1, <1>5, <1>6a, <1>8 DEF EntersAs
  <2>2. PICK A : A = [x |-> x, y |-> y, w |-> w, h |-> a]
    OBVIOUS
  <2>3. PICK B : B = [x |-> x, y |-> y + a, w |-> w, h |-> h - a]
    OBVIOUS
  <2>4. Enter(r, s) = IF s.side = "a" THEN A ELSE B
    BY <1>1, <1>5, <1>6a, <1>8, <2>2, <2>3 DEF EntersAs
  <2>5. Enter(r, o) = IF o.side = "a" THEN A ELSE B
    BY <1>1, <1>4, <1>6a, <1>8, <2>2, <2>3 DEF EntersAs
  <2>6. A \in Rects /\ B \in Rects
    BY <2>1, <2>2, <2>3 DEF Rects
  <2>7. ASSUME NEW c
        PROVE  /\ Inside(c, r) <=> Inside(c, A) \/ Inside(c, B)
               /\ ~(Inside(c, A) /\ Inside(c, B))
    BY <1>1, <2>1, <2>2, <2>3 DEF Inside
  <2>. QED
    BY <1>3, <1>4, <1>5, <2>4, <2>5, <2>6, <2>7 DEF Halved
<1>. QED
  BY <1>5, <1>7, <1>8

\* The rectangles that a way enters, one after the other.
EntersThrough(x, r, w, n) ==
    /\ x[0] = r /\ x[n] = FoldLeft(Enter, r, w)
    /\ \A k \in 1 .. n : x[k] = Enter(x[k - 1], w[k])

EntersWithin(X, w, n) ==
    /\ DOMAIN w = 1 .. n
    /\ \A u \in X : \A k \in 1 .. n : Enter(u, w[k]) \in X

LEMMA EnteringGoes ==
    ASSUME NEW X, NEW t \in X, NEW n \in Nat, NEW seq, EntersWithin(X, seq, n)
    PROVE  \E x \in [0 .. n -> X] : EntersThrough(x, t, seq, n)
<1>. USE DEF EntersWithin
<1>. DEFINE D == 1 .. n
            step == [p \in X \X (1 .. n) |-> Enter(p[1], seq[p[2]])]
            iter[S \in SUBSET D] ==
                IF S = {} THEN t ELSE LET i == Max(S) IN Enter(iter[S \ {i}], seq[i])
<1>1. FoldLeft(Enter, t, seq) = iter[D]
  BY DEF FoldLeft, MapThenFoldSet
<1>2. iter = CHOOSE f : f = [S \in SUBSET D |->
                IF S = {} THEN t ELSE LET i == Max(S) IN Enter(f[S \ {i}], seq[i])]
  OBVIOUS
<1>. HIDE DEF iter
<1>3. step \in [X \X (1 .. n) -> X]
  OBVIOUS
<1>4. ASSUME NEW f \in [SUBSET D -> X], NEW S \in SUBSET D, S # {}
      PROVE  step[<<f[S \ {Max(S)}], Max(S)>>] = Enter(f[S \ {Max(S)}], seq[Max(S)])
  <2>1. Max(S) \in S
    BY <1>4, MaxIsIn
  <2>2. Max(S) \in 1 .. n /\ f[S \ {Max(S)}] \in X
    BY <2>1
  <2>. QED
    BY <2>2
<1>5. \E f : f = [S \in SUBSET D |->
                IF S = {} THEN t ELSE LET i == Max(S) IN Enter(f[S \ {i}], seq[i])]
  <2>1. PICK f \in [SUBSET D -> X] : IsIter(f, step, t, n)
    <3>. HIDE DEF step
    <3>. QED
      BY <1>3, IterExists DEF HasIter
  <2>2. \A S \in SUBSET D :
          (IF S = {} THEN t ELSE step[<<f[S \ {Max(S)}], Max(S)>>])
          = (IF S = {} THEN t ELSE LET i == Max(S) IN Enter(f[S \ {i}], seq[i]))
    BY <1>4
  <2>3. f = [S \in SUBSET D |->
                IF S = {} THEN t ELSE LET i == Max(S) IN Enter(f[S \ {i}], seq[i])]
    <3>. HIDE DEF step
    <3>. QED
      BY <2>1, <2>2, Zenon DEF IsIter
  <2>. QED
    BY <2>3
<1>6. iter = [S \in SUBSET D |->
                IF S = {} THEN t ELSE LET i == Max(S) IN Enter(iter[S \ {i}], seq[i])]
  BY <1>2, <1>5
<1>7. ASSUME NEW k \in 1 .. n PROVE iter[1 .. k] = Enter(iter[1 .. k - 1], seq[k])
  <2>1. /\ 1 .. k \in SUBSET D /\ 1 .. k # {}
        /\ Max(1 .. k) = k /\ (1 .. k) \ {k} = 1 .. k - 1
    BY FirstPlaces
  <2>2. iter[1 .. k] = Enter(iter[(1 .. k) \ {Max(1 .. k)}], seq[Max(1 .. k)])
    BY <1>6, <2>1
  <2>. QED
    BY <2>1, <2>2
<1>8. iter[1 .. 0] = t
  <2>1. 1 .. 0 = {}
    OBVIOUS
  <2>. QED
    BY <1>6, <2>1
<1>. HIDE DEF D, step, EntersWithin
<1>9. PICK x \in [0 .. n -> X] : \A k \in 0 .. n : x[k] = iter[1 .. k]
  <2>1. ASSUME NEW k \in 1 .. n, iter[1 .. k - 1] \in X PROVE iter[1 .. k] \in X
    BY <1>7, <2>1 DEF EntersWithin
  <2>2. iter[1 .. 0] \in X
    BY <1>8
  <2>3. StaysIn(iter, n, X)
    BY <2>1, <2>2 DEF StaysIn
  <2>. QED
    BY <2>3, GoesThrough
<1>10. /\ x[0] = t /\ x[n] = iter[1 .. n]
       /\ \A k \in 1 .. n : x[k] = Enter(x[k - 1], seq[k])
  BY <1>7, <1>8, <1>9, FirstPlaces
<1>. QED
  BY <1>1, <1>10 DEF D, EntersThrough

Rooms(r, w) == CHOOSE x \in [0 .. Len(w) -> Rects] : EntersThrough(x, r, w, Len(w))

LEMMA RoomsOfWay ==
    ASSUME NEW r \in Rects, NEW w \in Ways
    PROVE  /\ Rooms(r, w) \in [0 .. Len(w) -> Rects] /\ Len(w) \in Nat
           /\ EntersThrough(Rooms(r, w), r, w, Len(w))
<1>1. Len(w) \in Nat /\ DOMAIN w = 1 .. Len(w) /\ \A k \in 1 .. Len(w) : w[k] \in Steps
  BY DEF Ways
<1>2. PICK n \in Nat : n = Len(w)
  BY <1>1
<1>3. \A u \in Rects : \A k \in 1 .. n : Enter(u, w[k]) \in Rects
  BY <1>1, <1>2, EnterHalves DEF Halved
<1>4. EntersWithin(Rects, w, n)
  BY <1>1, <1>2, <1>3 DEF EntersWithin
<1>5. \E x \in [0 .. n -> Rects] : EntersThrough(x, r, w, n)
  BY <1>4, EnteringGoes
<1>6. Rooms(r, w) = CHOOSE x \in [0 .. n -> Rects] : EntersThrough(x, r, w, n)
  BY <1>2 DEF Rooms
<1>7. Rooms(r, w) \in [0 .. n -> Rects] /\ EntersThrough(Rooms(r, w), r, w, n)
  BY <1>5, <1>6
<1>. QED
  BY <1>1, <1>2, <1>7

\* What a way's rectangles are.
LEMMA RoomSteps ==
    ASSUME NEW r \in Rects, NEW w \in Ways, NEW k \in 1 .. Len(w)
    PROVE  /\ w[k] \in Steps /\ k - 1 \in 0 .. Len(w) /\ k \in 0 .. Len(w)
           /\ Rooms(r, w)[k - 1] \in Rects /\ Rooms(r, w)[k] \in Rects
           /\ Rooms(r, w)[k] = Enter(Rooms(r, w)[k - 1], w[k])
<1>1. Rooms(r, w) \in [0 .. Len(w) -> Rects] /\ Len(w) \in Nat /\ EntersThrough(Rooms(r, w), r, w, Len(w))
  BY RoomsOfWay
<1>2. w[k] \in Steps /\ k - 1 \in 0 .. Len(w) /\ k \in 0 .. Len(w)
  BY <1>1 DEF Ways
<1>. QED
  BY <1>1, <1>2 DEF EntersThrough

LEMMA RoomsBegin ==
    ASSUME NEW r \in Rects, NEW w \in Ways
    PROVE  Rooms(r, w)[0] = r /\ Len(w) \in Nat
<1>1. Len(w) \in Nat /\ EntersThrough(Rooms(r, w), r, w, Len(w))
  BY RoomsOfWay
<1>. QED
  BY <1>1 DEF EntersThrough

\* Ways enter the same rectangles as far as they agree.
LEMMA SameRooms ==
    ASSUME NEW r \in Rects, NEW v \in Ways, NEW w \in Ways, NEW n \in Nat, n <= Len(v), n <= Len(w),
           \A i \in 1 .. n : w[i] = v[i]
    PROVE  \A k \in 0 .. n : Rooms(r, w)[k] = Rooms(r, v)[k]
<1>. DEFINE H == {k \in 0 .. n : Rooms(r, w)[k] = Rooms(r, v)[k]}
<1>0. Len(v) \in Nat /\ Len(w) \in Nat
  BY RoomsOfWay
<1>1. 0 \in H
  <2>1. Rooms(r, w)[0] = r
    BY RoomsBegin
  <2>2. Rooms(r, v)[0] = r
    BY RoomsBegin
  <2>. QED
    BY <2>1, <2>2
<1>2. ASSUME NEW k \in 1 .. n, k - 1 \in H PROVE k \in H
  <2>1. k \in 1 .. Len(v) /\ k \in 1 .. Len(w)
    BY <1>0
  <2>2. Rooms(r, v)[k] = Enter(Rooms(r, v)[k - 1], v[k])
    BY <2>1, RoomSteps
  <2>3. Rooms(r, w)[k] = Enter(Rooms(r, w)[k - 1], w[k])
    BY <2>1, RoomSteps
  <2>. QED
    BY <1>2, <2>2, <2>3
<1>3. \A k \in 0 .. n : k \in H
  <2>. HIDE DEF H
  <2>. QED
    BY <1>1, <1>2, Upward
<1>. QED
  BY <1>3

\* Every rectangle lies in the ones before it.
LEMMA RoomsNest ==
    ASSUME NEW r \in Rects, NEW w \in Ways, NEW j \in 0 .. Len(w), NEW c,
           NEW k \in 0 .. Len(w), j <= k, Inside(c, Rooms(r, w)[k])
    PROVE  Inside(c, Rooms(r, w)[j])
<1>0. PICK n \in Nat : n = Len(w)
  BY RoomsOfWay
<1>. DEFINE H == {i \in 0 .. n : (j <= i /\ Inside(c, Rooms(r, w)[i])) => Inside(c, Rooms(r, w)[j])}
<1>1. 0 \in H
  BY <1>0
<1>2. ASSUME NEW i \in 1 .. n, i - 1 \in H PROVE i \in H
  <2>1. CASE j <= i - 1
    <3>1. /\ w[i] \in Steps /\ Rooms(r, w)[i - 1] \in Rects
          /\ Rooms(r, w)[i] = Enter(Rooms(r, w)[i - 1], w[i])
      BY <1>0, RoomSteps
    <3>2. Inside(c, Rooms(r, w)[i]) => Inside(c, Rooms(r, w)[i - 1])
      BY <3>1, EnterHalves DEF Halved
    <3>. QED
      BY <1>2, <2>1, <3>2
  <2>2. CASE ~(j <= i - 1)
    <3>1. j <= i => j = i
      BY <1>0, <2>2
    <3>. QED
      BY <3>1
  <2>. QED
    BY <2>1, <2>2
<1>3. \A i \in 0 .. n : i \in H
  <2>. HIDE DEF H
  <2>. QED
    BY <1>1, <1>2, Upward
<1>. QED
  BY <1>0, <1>3

LEMMA LeafLaidOut ==
    ASSUME NEW t, IsTree(t), NEW r \in Rects, NEW p \in Leaves(t)
    PROVE  /\ LayOut(t, r)[p] = Rooms(r, t[p])[Len(t[p])] /\ LayOut(t, r)[p] \in Rects
           /\ DOMAIN LayOut(t, r) = Leaves(t)
           /\ t[p] \in Ways /\ Len(t[p]) \in Nat
<1>1. t[p] \in Ways
  BY TreeWays
<1>2. /\ Rooms(r, t[p]) \in [0 .. Len(t[p]) -> Rects] /\ Len(t[p]) \in Nat
      /\ EntersThrough(Rooms(r, t[p]), r, t[p], Len(t[p]))
  BY <1>1, RoomsOfWay
<1>3. LayOut(t, r)[p] = FoldLeft(Enter, r, t[p]) /\ DOMAIN LayOut(t, r) = Leaves(t)
  BY DEF LayOut
<1>4. FoldLeft(Enter, r, t[p]) = Rooms(r, t[p])[Len(t[p])]
  BY <1>2 DEF EntersThrough
<1>5. Rooms(r, t[p])[Len(t[p])] \in Rects
  BY <1>2
<1>. QED
  BY <1>1, <1>2, <1>3, <1>4, <1>5

\* No two panes have a cell in common ...
LEMMA NoOverlap ==
    ASSUME NEW t, IsTree(t), NEW r \in Rects, NEW p \in Leaves(t), NEW q \in Leaves(t), p # q, NEW c
    PROVE  ~(Inside(c, LayOut(t, r)[p]) /\ Inside(c, LayOut(t, r)[q]))
<1>1. SUFFICES ASSUME Inside(c, LayOut(t, r)[p]), Inside(c, LayOut(t, r)[q]) PROVE FALSE
  OBVIOUS
<1>2. PICK k \in Nat : PartAt(t[p], t[q], k)
  BY TreeParts
<1>3. PICK v \in Ways : v = t[p]
  BY TreeWays
<1>4. PICK w \in Ways : w = t[q]
  BY TreeWays
<1>5. /\ k \in 1 .. Len(v) /\ k \in 1 .. Len(w) /\ Len(v) \in Nat /\ Len(w) \in Nat
      /\ \A i \in 1 .. k - 1 : w[i] = v[i]
      /\ w[k] = Opposite(v[k]) /\ v[k] \in Steps
  BY <1>2, <1>3, <1>4 DEF PartAt, Ways
<1>6. Inside(c, Rooms(r, v)[k])
  <2>1. Inside(c, Rooms(r, v)[Len(v)])
    BY <1>1, <1>3, LeafLaidOut
  <2>2. k \in 0 .. Len(v) /\ Len(v) \in 0 .. Len(v) /\ k <= Len(v)
    BY <1>5
  <2>. QED
    BY <2>1, <2>2, RoomsNest
<1>7. Inside(c, Rooms(r, w)[k])
  <2>1. Inside(c, Rooms(r, w)[Len(w)])
    BY <1>1, <1>4, LeafLaidOut
  <2>2. k \in 0 .. Len(w) /\ Len(w) \in 0 .. Len(w) /\ k <= Len(w)
    BY <1>5
  <2>. QED
    BY <2>1, <2>2, RoomsNest
<1>8. Rooms(r, w)[k - 1] = Rooms(r, v)[k - 1]
  <2>1. k - 1 \in Nat /\ k - 1 <= Len(v) /\ k - 1 <= Len(w) /\ k - 1 \in 0 .. k - 1
    BY <1>5
  <2>. QED
    BY <1>5, <2>1, SameRooms
<1>9. Rooms(r, v)[k] = Enter(Rooms(r, v)[k - 1], v[k]) /\ Rooms(r, v)[k - 1] \in Rects
  BY <1>5, RoomSteps
<1>10. Rooms(r, w)[k] = Enter(Rooms(r, v)[k - 1], Opposite(v[k]))
  BY <1>5, <1>8, RoomSteps
<1>. QED
  BY <1>5, <1>6, <1>7, <1>9, <1>10, EnterHalves DEF Halved

\* ... and none is left out.
LEMMA NoGap ==
    ASSUME NEW t, IsTree(t), NEW r \in Rects, NEW c, Inside(c, r)
    PROVE  \E p \in Leaves(t) : Inside(c, LayOut(t, r)[p])
<1>. DEFINE Room(p, k) == Rooms(r, t[p])[k]
            T == {m \in Nat : \E p \in Leaves(t) : \E k \in 0 .. Len(t[p]) :
                                 m = Cardinality(Under(t, p, k)) /\ Inside(c, Room(p, k))}
<1>0. ASSUME NEW p \in Leaves(t)
      PROVE  /\ t[p] \in Ways /\ Len(t[p]) \in Nat /\ Room(p, 0) = r
             /\ LayOut(t, r)[p] = Room(p, Len(t[p]))
             /\ \A k : IsFiniteSet(Under(t, p, k)) /\ Cardinality(Under(t, p, k)) \in Nat
  <2>1. t[p] \in Ways /\ Len(t[p]) \in Nat
    BY TreeWays
  <2>2. Room(p, 0) = r
    BY <2>1, RoomsOfWay DEF EntersThrough
  <2>3. LayOut(t, r)[p] = Room(p, Len(t[p]))
    BY LeafLaidOut
  <2>4. ASSUME NEW k PROVE IsFiniteSet(Under(t, p, k)) /\ Cardinality(Under(t, p, k)) \in Nat
    <3>1. Under(t, p, k) \in SUBSET Leaves(t) /\ IsFiniteSet(Leaves(t))
      BY DEF Under, IsTree
    <3>2. IsFiniteSet(Under(t, p, k))
      BY <3>1, FS_Subset
    <3>. QED
      BY <3>2, FS_CardinalityType
  <2>. QED
    BY <2>1, <2>2, <2>3, <2>4
<1>1. T \subseteq Nat /\ T # {}
  <2>1. PICK p \in Leaves(t) : TRUE
    BY DEF IsTree
  <2>2. 0 \in 0 .. Len(t[p]) /\ Inside(c, Room(p, 0)) /\ Cardinality(Under(t, p, 0)) \in Nat
    BY <1>0
  <2>. QED
    BY <2>2
<1>2. PICK m \in T : \A n \in T : m <= n
  <2>. HIDE DEF T
  <2>. QED
    BY <1>1, LeastNumber
<1>3a. PICK p \in Leaves(t) : \E k \in 0 .. Len(t[p]) : m = Cardinality(Under(t, p, k)) /\ Inside(c, Room(p, k))
  BY <1>2
<1>3. PICK k \in 0 .. Len(t[p]) : m = Cardinality(Under(t, p, k)) /\ Inside(c, Room(p, k))
  BY <1>3a
<1>4. ASSUME NEW q \in Leaves(t), NEW j \in 0 .. Len(t[q]), Inside(c, Room(q, j))
      PROVE  m <= Cardinality(Under(t, q, j))
  <2>1. Cardinality(Under(t, q, j)) \in T
    BY <1>0, <1>4
  <2>. HIDE DEF T
  <2>. QED
    BY <1>2, <2>1
<1>. HIDE DEF T
<1>5. CASE k = Len(t[p])
  BY <1>0, <1>3, <1>5
<1>6. CASE k # Len(t[p])
  <2>1. k + 1 \in 1 .. Len(t[p]) /\ k + 1 \in 0 .. Len(t[p]) /\ k + 1 - 1 = k /\ k + 1 \in Nat /\ k \in Nat
    BY <1>0, <1>6
  <2>2. PICK q \in Leaves(t) : PartAt(t[p], t[q], k + 1)
    BY <2>1 DEF IsTree
  <2>3. PICK v \in Ways : v = t[p]
    BY TreeWays
  <2>4. PICK w \in Ways : w = t[q]
    BY TreeWays
  <2>5. /\ k + 1 \in 1 .. Len(v) /\ k + 1 \in 1 .. Len(w) /\ Len(v) \in Nat /\ Len(w) \in Nat
        /\ \A i \in 1 .. k : w[i] = v[i]
        /\ w[k + 1] = Opposite(v[k + 1]) /\ v[k + 1] \in Steps
    BY <2>1, <2>2, <2>3, <2>4 DEF PartAt, Ways
  <2>6. Rooms(r, w)[k] = Rooms(r, v)[k]
    <3>1. k <= Len(v) /\ k <= Len(w) /\ k \in 0 .. k
      BY <2>1, <2>5
    <3>. QED
      BY <2>1, <2>5, <3>1, SameRooms
  <2>7. Rooms(r, v)[k + 1] = Enter(Rooms(r, v)[k], v[k + 1]) /\ Rooms(r, v)[k] \in Rects
    BY <2>1, <2>5, RoomSteps
  <2>8. Rooms(r, w)[k + 1] = Enter(Rooms(r, v)[k], Opposite(v[k + 1]))
    BY <2>1, <2>5, <2>6, RoomSteps
  <2>9. Inside(c, Room(p, k + 1)) \/ Inside(c, Room(q, k + 1))
    BY <1>3, <2>3, <2>4, <2>5, <2>7, <2>8, EnterHalves DEF Halved
  <2>10. /\ p \in Under(t, p, k) /\ q \in Under(t, p, k)
         /\ q \notin Under(t, p, k + 1) /\ p \notin Under(t, q, k + 1)
         /\ Under(t, p, k + 1) \subseteq Under(t, p, k)
         /\ Under(t, q, k + 1) \subseteq Under(t, p, k)
    <3>1. p \in Under(t, p, k) /\ q \in Under(t, p, k) /\ q \notin Under(t, p, k + 1)
      BY <2>1, <2>2, UnderNode
    <3>2. PartAt(t[q], t[p], k + 1)
      BY <2>1, <2>2, TreeWays, PartSymmetric
    <3>3. k + 1 \in 0 .. Len(t[q])
      BY <2>4, <2>5
    <3>4. p \notin Under(t, q, k + 1)
      BY <2>1, <3>2, <3>3, UnderNode
    <3>5. Under(t, p, k + 1) \subseteq Under(t, p, k)
      <4>1. \A i \in 1 .. k : i \in 1 .. k + 1
        BY <2>1
      <4>. QED
        BY <4>1 DEF Under
    <3>6. Under(t, q, k + 1) \subseteq Under(t, p, k)
      <4>1. \A i \in 1 .. k : t[q][i] = t[p][i] /\ i \in 1 .. k + 1
        BY <2>1, <2>3, <2>4, <2>5
      <4>. QED
        BY <4>1 DEF Under
    <3>. QED
      BY <3>1, <3>4, <3>5, <3>6
  <2>11. ASSUME NEW x \in {p, q}, Inside(c, Room(x, k + 1)) PROVE FALSE
    <3>1. k + 1 \in 0 .. Len(t[x])
      BY <2>1, <2>4, <2>5
    <3>2. m <= Cardinality(Under(t, x, k + 1))
      BY <1>4, <2>11, <3>1
    <3>3. Under(t, x, k + 1) \in SUBSET Under(t, p, k) /\ Under(t, x, k + 1) # Under(t, p, k)
      BY <2>10
    <3>4. IsFiniteSet(Under(t, p, k))
      BY <1>0
    <3>5. /\ Cardinality(Under(t, x, k + 1)) <= Cardinality(Under(t, p, k))
          /\ Cardinality(Under(t, p, k)) # Cardinality(Under(t, x, k + 1))
      BY <3>3, <3>4, FS_Subset
    <3>6. Cardinality(Under(t, x, k + 1)) \in Nat /\ Cardinality(Under(t, p, k)) \in Nat
      BY <1>0
    <3>. QED
      BY <1>3, <3>2, <3>5, <3>6
  <2>. QED
    BY <2>9, <2>11
<1>. QED
  BY <1>5, <1>6

\* A tree laid out in a rectangle tiles it.
LEMMA TreeTiles ==
    ASSUME NEW t, IsTree(t), NEW r \in Rects
    PROVE  /\ UNION {CellsOf(LayOut(t, r)[p]) : p \in Leaves(t)} = CellsOf(r)
           /\ \A p, q \in Leaves(t) : p # q => CellsOf(LayOut(t, r)[p]) \cap CellsOf(LayOut(t, r)[q]) = {}
<1>1. ASSUME NEW p \in Leaves(t), NEW c PROVE c \in CellsOf(LayOut(t, r)[p]) <=> Inside(c, LayOut(t, r)[p])
  BY LeafLaidOut, CellsAreInside
<1>2. ASSUME NEW p \in Leaves(t), NEW c, Inside(c, LayOut(t, r)[p]) PROVE Inside(c, r)
  <2>1. PICK w \in Ways : w = t[p]
    BY TreeWays
  <2>2. Inside(c, Rooms(r, w)[Len(w)])
    BY <1>2, <2>1, LeafLaidOut
  <2>3. 0 \in 0 .. Len(w) /\ Len(w) \in 0 .. Len(w) /\ 0 <= Len(w) /\ Rooms(r, w)[0] = r
    <3>1. Rooms(r, w)[0] = r /\ Len(w) \in Nat
      BY RoomsBegin
    <3>. QED
      BY <3>1
  <2>4. Inside(c, Rooms(r, w)[0])
    BY <2>2, <2>3, RoomsNest
  <2>. QED
    BY <2>3, <2>4
<1>3. \A c : c \in CellsOf(r) <=> Inside(c, r)
  BY CellsAreInside
<1>4. \A c : c \in CellsOf(r) => \E p \in Leaves(t) : c \in CellsOf(LayOut(t, r)[p])
  BY <1>1, <1>3, NoGap
<1>5. \A p \in Leaves(t) : \A c : c \in CellsOf(LayOut(t, r)[p]) => c \in CellsOf(r)
  BY <1>1, <1>2, <1>3
<1>6. UNION {CellsOf(LayOut(t, r)[p]) : p \in Leaves(t)} = CellsOf(r)
  BY <1>4, <1>5
<1>7. ASSUME NEW p \in Leaves(t), NEW q \in Leaves(t), p # q
      PROVE  CellsOf(LayOut(t, r)[p]) \cap CellsOf(LayOut(t, r)[q]) = {}
  BY <1>1, <1>7, NoOverlap
<1>. QED
  BY <1>6, <1>7
---------------------------------------------
(* Reflow: what a window and its callers are, step by step.                *)

\* What a window and its callers are.
Stages == {"idle", "spawn", "reflow", "unregister", "select", "pty", "grid", "record"}
Jobs   == [pane : Panes, to : CellSizes]
Calls  == {x \in [at : Stages, pane : Panes \cup {Nothing}, todo : Seq(Jobs), clean : BOOLEAN] :
             /\ x.at \in {"pty", "grid", "record"} => x.todo # <<>>
             /\ x.at \in {"spawn", "unregister", "select"} => x.pane \in Panes}
PaneSizes  == [Panes -> Extents \cup {Nothing}]
EndSizes   == [Panes -> CellSizes \cup {Nothing}]

WindowTyped ==
    /\ minted \subseteq Panes /\ size \in Extents
    /\ rec \in PaneSizes /\ pty \in EndSizes /\ grid \in EndSizes /\ unsized \subseteq Panes
    /\ call \in [Callers -> Calls] /\ settled \in BOOLEAN
    /\ tree # Nothing => IsTree(tree) /\ Leaves(tree) \subseteq minted

LEMMA IdleIsCall == Idle \in Calls
<1>1. <<>> \in Seq(Jobs)
  OBVIOUS
<1>. QED
  BY <1>1 DEF Idle, Calls, Stages

LEMMA BoundsAreRect ==
    ASSUME size \in Extents
    PROVE  Bounds \in Rects /\ Bounds.w = size.w /\ Bounds.h = size.h /\ size.w \in Pos /\ size.h \in Pos
BY DEF Extents, Bounds, Rect, Rects

\* How a step changes the calls: c's becomes x, and the others at most lose their company.
MovesOn(c, x) ==
    /\ call' \in [Callers -> Calls] /\ call'[c] = x
    /\ \A o \in Callers : o # c => call'[o].at = call[o].at
    /\ \A o \in Callers : o # c => call'[o].pane = call[o].pane
    /\ \A o \in Callers : o # c => call'[o].todo = call[o].todo
    /\ \A o \in Callers : o # c => (call'[o].clean => call[o].clean)

LEMMA BeginMoves ==
    ASSUME call \in [Callers -> Calls], NEW c \in Callers, NEW phase, NEW p, NEW todo, NEW clean,
           NEW x, x = [at |-> phase, pane |-> p, todo |-> todo, clean |-> clean /\ Alone(c)],
           x \in Calls, Begin(c, phase, p, todo, clean)
    PROVE  /\ MovesOn(c, x) /\ settled' = FALSE /\ overtaken' = overtaken /\ call[c].at = "idle"
           /\ \A o \in Callers \ {c} : call'[o].clean = FALSE
<1>1. call' = [o \in Callers |-> IF o = c THEN x ELSE [call[o] EXCEPT !.clean = FALSE]]
  BY DEF Begin
<1>2. ASSUME NEW o \in Callers
      PROVE  /\ [call[o] EXCEPT !.clean = FALSE] \in Calls
             /\ [call[o] EXCEPT !.clean = FALSE].at = call[o].at
             /\ [call[o] EXCEPT !.clean = FALSE].pane = call[o].pane
             /\ [call[o] EXCEPT !.clean = FALSE].todo = call[o].todo
             /\ [call[o] EXCEPT !.clean = FALSE].clean = FALSE
  <2>1. call[o] \in Calls
    OBVIOUS
  <2>. QED
    BY <2>1 DEF Calls
<1>3. call' \in [Callers -> Calls]
  BY <1>1, <1>2
<1>4. call'[c] = x
  BY <1>1
<1>5. \A o \in Callers \ {c} : call'[o] = [call[o] EXCEPT !.clean = FALSE]
  BY <1>1
<1>6. MovesOn(c, x)
  BY <1>2, <1>3, <1>4, <1>5 DEF MovesOn
<1>7. \A o \in Callers \ {c} : call'[o].clean = FALSE
  BY <1>2, <1>5
<1>. QED
  BY <1>6, <1>7 DEF Begin, At

LEMMA OneMoves ==
    ASSUME call \in [Callers -> Calls], NEW c \in Callers, NEW x \in Calls, call' = [call EXCEPT ![c] = x]
    PROVE  MovesOn(c, x) /\ \A o \in Callers \ {c} : call'[o] = call[o]
BY DEF MovesOn

LEMMA GoMoves ==
    ASSUME call \in [Callers -> Calls], NEW c \in Callers, NEW phase, NEW x,
           x = [call[c] EXCEPT !.at = phase], x \in Calls, Go(c, phase)
    PROVE  MovesOn(c, x) /\ settled' = settled /\ \A o \in Callers \ {c} : call'[o] = call[o]
<1>1. call' = [call EXCEPT ![c] = x]
  BY DEF Go
<1>. QED
  BY <1>1, OneMoves DEF Go

LEMMA FinishMoves ==
    ASSUME call \in [Callers -> Calls], NEW c \in Callers, NEW whole, Finish(c, whole)
    PROVE  MovesOn(c, Idle) /\ settled' = (whole /\ call[c].clean) /\ \A o \in Callers \ {c} : call'[o] = call[o]
BY IdleIsCall, OneMoves DEF Finish

\* What is left of a list of jobs.
LEMMA JobsLeft ==
    ASSUME NEW s \in Seq(Jobs), s # <<>>
    PROVE  /\ Head(s) \in Jobs /\ Head(s) = s[1] /\ Len(s) \in Pos /\ Tail(s) \in Seq(Jobs)
           /\ Len(Tail(s)) = Len(s) - 1 /\ \A i \in 1 .. Len(s) - 1 : Tail(s)[i] = s[i + 1]
           /\ Len(s) > 1 => Tail(s) # <<>>
OBVIOUS

LEMMA NextPaneMoves ==
    ASSUME call \in [Callers -> Calls], NEW c \in Callers, call[c].at \in {"pty", "grid", "record"}, NextPane(c)
    PROVE  \/ /\ Len(call[c].todo) > 1 /\ settled' = settled
              /\ MovesOn(c, [call[c] EXCEPT !.at = "pty", !.todo = Tail(call[c].todo)])
              /\ \A o \in Callers \ {c} : call'[o] = call[o]
           \/ /\ ~(Len(call[c].todo) > 1) /\ MovesOn(c, Idle) /\ settled' = call[c].clean
              /\ \A o \in Callers \ {c} : call'[o] = call[o]
<1>1. call[c] \in Calls /\ call[c].todo \in Seq(Jobs) /\ call[c].todo # <<>> /\ call[c].clean \in BOOLEAN
  BY DEF Calls
<1>2. CASE Len(call[c].todo) > 1
  <2>1. PICK x : x = [call[c] EXCEPT !.at = "pty", !.todo = Tail(call[c].todo)]
    OBVIOUS
  <2>2. Tail(call[c].todo) \in Seq(Jobs) /\ Tail(call[c].todo) # <<>>
    BY <1>1, <1>2, JobsLeft
  <2>3. x \in Calls
    BY <1>1, <2>1, <2>2 DEF Calls, Stages
  <2>4. call' = [call EXCEPT ![c] = x] /\ settled' = settled
    BY <1>2, <2>1 DEF NextPane
  <2>. QED
    BY <1>2, <2>1, <2>3, <2>4, OneMoves
<1>3. CASE ~(Len(call[c].todo) > 1)
  <2>1. Finish(c, TRUE)
    BY <1>3 DEF NextPane
  <2>2. MovesOn(c, Idle) /\ settled' = (TRUE /\ call[c].clean) /\ \A o \in Callers \ {c} : call'[o] = call[o]
    BY <2>1, FinishMoves
  <2>. QED
    BY <1>1, <1>3, <2>2
<1>. QED
  BY <1>2, <1>3

LEMMA OneOrMore ==
    ASSUME NEW r \in Rects
    PROVE  /\ AtLeastOne(r) \in Extents
           /\ ~IsEmpty(r) => SizeOf(r) \in CellSizes /\ AtLeastOne(SizeOf(r)) = AtLeastOne(r)
BY DEF Rects, AtLeastOne, SizeOf, IsEmpty, Extents, CellSizes

LEMMA OneCellOrMore == ASSUME NEW r \in CellSizes PROVE AtLeastOne(r) \in Extents
BY DEF AtLeastOne, Extents, CellSizes

LEMMA ExtentIsSize == Extents \subseteq CellSizes /\ \A r \in Extents : AtLeastOne(r) = r
BY DEF AtLeastOne, Extents, CellSizes

\* The panes that a reflow resizes: those that have cells, and there are some.
Todo(t, r) == LET order == InOrder(t, {p \in Leaves(t) : ~IsEmpty(LayOut(t, r)[p])})
              IN  [i \in DOMAIN order |-> [pane |-> order[i], to |-> SizeOf(LayOut(t, r)[order[i]])]]

IsTodo(todo, t, r) ==
    /\ todo \in Seq(Jobs) /\ todo # <<>>
    /\ \A i \in 1 .. Len(todo) : /\ todo[i].pane \in Leaves(t) /\ ~IsEmpty(LayOut(t, r)[todo[i].pane])
                                 /\ todo[i].to = SizeOf(LayOut(t, r)[todo[i].pane])
    /\ \A p \in Leaves(t) : ~IsEmpty(LayOut(t, r)[p]) => \E i \in 1 .. Len(todo) : todo[i].pane = p

LEMMA SomePaneHasCells ==
    ASSUME NEW t, IsTree(t), NEW r \in Rects, r.w > 0, r.h > 0
    PROVE  \E p \in Leaves(t) : ~IsEmpty(LayOut(t, r)[p])
<1>1. PICK x \in Nat, y \in Nat, w \in Nat, h \in Nat : r = [x |-> x, y |-> y, w |-> w, h |-> h]
  BY DEF Rects
<1>2. PICK c : c = <<x, y>>
  OBVIOUS
<1>3. Inside(c, r)
  BY <1>1, <1>2 DEF Inside
<1>4. PICK p \in Leaves(t) : Inside(c, LayOut(t, r)[p])
  BY <1>3, NoGap
<1>5. LayOut(t, r)[p] \in Rects
  BY LeafLaidOut
<1>6. ~IsEmpty(LayOut(t, r)[p])
  BY <1>4, <1>5 DEF Inside, IsEmpty, Rects
<1>. QED
  BY <1>6

LEMMA TodoIs ==
    ASSUME NEW t, IsTree(t), Leaves(t) \subseteq Panes, NEW r \in Rects, r.w > 0, r.h > 0
    PROVE  IsTodo(Todo(t, r), t, r)
<1>. DEFINE S == {p \in Leaves(t) : ~IsEmpty(LayOut(t, r)[p])}
<1>1. PICK order : order = InOrder(t, S)
  OBVIOUS
<1>2. PICK n \in Nat : n = Cardinality(S)
  <2>1. S \subseteq Leaves(t)
    OBVIOUS
  <2>. HIDE DEF S
  <2>. QED
    BY <2>1, OrderIsThere
<1>3. order \in Bijection(1 .. n, S)
  <2>1. S \subseteq Leaves(t)
    OBVIOUS
  <2>. HIDE DEF S
  <2>. QED
    BY <1>1, <1>2, <2>1, OrderIsThere
<1>4. order \in [1 .. n -> S] /\ DOMAIN order = 1 .. n /\ \A p \in S : \E i \in 1 .. n : order[i] = p
  BY <1>3 DEF Bijection, Injection, Surjection
<1>5. PICK todo : todo = Todo(t, r)
  OBVIOUS
<1>6. todo = [i \in 1 .. n |-> [pane |-> order[i], to |-> SizeOf(LayOut(t, r)[order[i]])]]
  BY <1>1, <1>4, <1>5 DEF Todo
<1>7. ASSUME NEW i \in 1 .. n
      PROVE  /\ order[i] \in Leaves(t) /\ ~IsEmpty(LayOut(t, r)[order[i]])
             /\ [pane |-> order[i], to |-> SizeOf(LayOut(t, r)[order[i]])] \in Jobs
  <2>1. order[i] \in Leaves(t) /\ ~IsEmpty(LayOut(t, r)[order[i]])
    BY <1>4
  <2>2. LayOut(t, r)[order[i]] \in Rects
    BY <2>1, LeafLaidOut
  <2>3. SizeOf(LayOut(t, r)[order[i]]) \in CellSizes
    BY <2>1, <2>2, OneOrMore
  <2>. QED
    BY <2>1, <2>3 DEF Jobs
<1>8. todo \in [1 .. n -> Jobs]
  BY <1>6, <1>7
<1>9. todo \in Seq(Jobs) /\ Len(todo) = n
  BY <1>8, FunctionIsSeq
<1>10. n # 0
  <2>1. PICK p \in S : TRUE
    BY SomePaneHasCells
  <2>. HIDE DEF S
  <2>. QED
    BY <1>4, <2>1
<1>11. todo # <<>>
  BY <1>9, <1>10
<1>12. \A i \in 1 .. n : todo[i].pane = order[i] /\ todo[i].to = SizeOf(LayOut(t, r)[order[i]])
  BY <1>6
<1>13. \A p \in Leaves(t) : ~IsEmpty(LayOut(t, r)[p]) => \E i \in 1 .. n : todo[i].pane = p
  BY <1>4, <1>12
<1>14. IsTodo(todo, t, r)
  <2>. HIDE DEF S
  <2>. QED
    BY <1>7, <1>9, <1>11, <1>12, <1>13 DEF IsTodo
<1>. QED
  BY <1>5, <1>14

\* The reflow's first step, in these terms.
LEMMA ComputeIs ==
    ASSUME WindowTyped, NEW c \in Callers, Compute(c), tree # Nothing
    PROVE  /\ IsTodo(Todo(tree, Bounds), tree, Bounds)
           /\ MovesOn(c, [call[c] EXCEPT !.at = "pty", !.todo = Todo(tree, Bounds)])
           /\ \A o \in Callers \ {c} : call'[o] = call[o]
           /\ rec' = [p \in Panes |-> IF p \in Leaves(tree) THEN AtLeastOne(LayOut(tree, Bounds)[p]) ELSE rec[p]]
           /\ rec' \in PaneSizes
<1>1. IsTree(tree) /\ Leaves(tree) \subseteq Panes /\ Bounds \in Rects /\ Bounds.w > 0 /\ Bounds.h > 0
  BY BoundsAreRect DEF WindowTyped
<1>2. PICK todo : todo = Todo(tree, Bounds)
  OBVIOUS
<1>3. IsTodo(todo, tree, Bounds)
  BY <1>1, <1>2, TodoIs
<1>4. DOMAIN LayOut(tree, Bounds) = Leaves(tree) /\ InWindow = Leaves(tree)
  BY DEF LayOut, InWindow
<1>5. call' = [call EXCEPT ![c].at = "pty", ![c].todo = todo]
  BY <1>2, <1>4 DEF Compute, Todo
<1>6. rec' = [p \in Panes |-> IF p \in Leaves(tree) THEN AtLeastOne(LayOut(tree, Bounds)[p]) ELSE rec[p]]
  BY <1>4 DEF Compute
<1>7. PICK x : x = [call[c] EXCEPT !.at = "pty", !.todo = todo]
  OBVIOUS
<1>8. call' = [call EXCEPT ![c] = x]
  BY <1>5, <1>7
<1>9. x \in Calls
  <2>1. call[c] \in Calls
    BY DEF WindowTyped
  <2>2. todo \in Seq(Jobs) /\ todo # <<>>
    BY <1>3 DEF IsTodo
  <2>. QED
    BY <1>7, <2>1, <2>2 DEF Calls, Stages
<1>10. MovesOn(c, x) /\ \A o \in Callers \ {c} : call'[o] = call[o]
  BY <1>8, <1>9, OneMoves DEF WindowTyped
<1>11. rec' \in PaneSizes
  <2>1. ASSUME NEW p \in Leaves(tree) PROVE AtLeastOne(LayOut(tree, Bounds)[p]) \in Extents
    BY <1>1, LeafLaidOut, OneOrMore
  <2>. QED
    BY <1>6, <2>1 DEF WindowTyped, PaneSizes
<1>. QED
  BY <1>2, <1>3, <1>6, <1>7, <1>10, <1>11

LEMMA LoneLeaf ==
    ASSUME NEW t, IsTree(t), NEW p, Leaves(t) = {p}
    PROVE  t = Leaf(p)
<1>1. t[p] \in Ways /\ Len(t[p]) \in Nat
  BY TreeWays
<1>2. Len(t[p]) = 0
  <2>1. SUFFICES ASSUME Len(t[p]) # 0 PROVE FALSE
    OBVIOUS
  <2>2. 1 \in 1 .. Len(t[p])
    BY <1>1, <2>1
  <2>3. PICK q \in Leaves(t) : PartAt(t[p], t[q], 1)
    BY <2>2 DEF IsTree
  <2>. QED
    BY <1>1, <2>3, NeverParts
<1>3. t[p] = <<>>
  BY <1>1, <1>2 DEF Ways
<1>4. t \in [{p} -> Ways]
  BY DEF IsTree
<1>. QED
  BY <1>3, <1>4 DEF Leaf

LEMMA FractionIsInt ==
    ASSUME size \in Extents, NEW d, NEW delta \in Int
    PROVE  Fraction(d, delta) \in Int /\ (delta > 0 => Fraction(d, delta) >= 0)
<1>1. PICK span \in Pos : span = IF Orientation(d) = "vertical" THEN size.w ELSE size.h
  BY BoundsAreRect
<1>2. Fraction(d, delta) = IF delta >= 0 THEN (delta * Whole) \div span ELSE 0 - ((0 - delta) * Whole) \div span
  BY <1>1 DEF Fraction
<1>3. (delta * Whole) \div span \in Int /\ ((0 - delta) * Whole) \div span \in Int
  BY <1>1 DEF Whole
<1>4. delta > 0 => (delta * Whole) \div span >= 0
  BY <1>1 DEF Whole
<1>. QED
  BY <1>2, <1>3, <1>4

\* The trees that the calls make.
NewTree(new) ==
    tree' # Nothing => IsTree(tree') /\ Leaves(tree') = new

LEMMA SplitPaneMakes ==
    ASSUME WindowTyped, NEW c \in Callers, SplitPane(c)
    PROVE  \E new \in Panes \ minted :
             /\ tree # Nothing /\ NewTree(Leaves(tree) \cup {new})
             /\ focus' = new /\ minted' = minted \cup {new}
             /\ rec' = [rec EXCEPT ![new] = Placeholder]
             /\ Begin(c, "spawn", new, <<>>, TRUE) /\ UNCHANGED <<size, pty, grid>>
<1>1. PICK new : new = CHOOSE q \in Panes \ minted : TRUE
  OBVIOUS
<1>2. new \in Panes \ minted
  BY <1>1 DEF SplitPane, WindowTyped
<1>3. PICK p \in InWindow, d \in Directions :
         /\ tree' = SplitLeaf(tree, p, new, d)
         /\ focus' = new /\ minted' = minted \cup {new}
         /\ rec' = [rec EXCEPT ![new] = Placeholder]
         /\ Begin(c, "spawn", new, <<>>, TRUE)
  BY <1>1 DEF SplitPane
<1>4. tree # Nothing /\ p \in Leaves(tree) /\ IsTree(tree) /\ new \notin Leaves(tree)
  BY <1>2, <1>3 DEF InWindow, WindowTyped
<1>5. IsTree(tree') /\ Leaves(tree') = Leaves(tree) \cup {new}
  BY <1>3, <1>4, SplitLeafIsTree
<1>. QED
  BY <1>2, <1>3, <1>4, <1>5 DEF NewTree, SplitPane

LEMMA KillPaneMakes ==
    ASSUME WindowTyped, NEW c \in Callers, KillPane(c)
    PROVE  \E p \in Panes :
             /\ tree # Nothing /\ p \in Leaves(tree)
             /\ Begin(c, "unregister", p, <<>>, TRUE) /\ UNCHANGED records
             /\ pty' = [pty EXCEPT ![p] = Nothing] /\ grid' = [grid EXCEPT ![p] = Nothing]
<1>1. PICK p \in InWindow :
         /\ Begin(c, "unregister", p, <<>>, TRUE)
         /\ pty' = [pty EXCEPT ![p] = Nothing] /\ grid' = [grid EXCEPT ![p] = Nothing]
  BY DEF KillPane
<1>2. tree # Nothing /\ p \in Leaves(tree) /\ p \in Panes
  BY <1>1 DEF InWindow, WindowTyped
<1>. QED
  BY <1>1, <1>2 DEF KillPane

\* What is left of the window when p is out of it.
LeavesWithout(p) ==
    /\ p \in Leaves(tree) /\ NewTree(Leaves(tree) \ {p}) /\ IsTree(tree') /\ Leaves(tree) # {p}
    /\ tree' = RemoveLeaf(tree, p)
    /\ focus' \in Leaves(tree) \ {p} \/ (focus' = focus /\ focus # p)

LEMMA UnregisterMakes ==
    ASSUME WindowTyped, NEW c \in Callers, Unregister(c)
    PROVE  LET p == call[c].pane IN
           /\ p \in Panes /\ UNCHANGED <<size, minted, pty, grid>> /\ At(c, "unregister")
           /\ overtaken' = overtaken \cup {q \in {p} : \E o \in Callers : At(o, "select") /\ call[o].pane = q}
           /\ \/ p \notin InWindow /\ Finish(c, FALSE) /\ UNCHANGED <<tree, focus, rec>>
              \/ /\ tree # Nothing /\ tree' = Nothing /\ Finish(c, FALSE)
                 /\ rec' = [rec EXCEPT ![p] = Nothing] /\ focus' = focus
              \/ /\ tree # Nothing /\ LeavesWithout(p) /\ Go(c, "reflow")
                 /\ rec' = [rec EXCEPT ![p] = Nothing]
<1>1. PICK p : p = call[c].pane
  OBVIOUS
<1>2. p \in Panes /\ At(c, "unregister")
  <2>1. call[c] \in Calls
    BY DEF WindowTyped
  <2>. QED
    BY <1>1, <2>1 DEF Unregister, At, Calls
<1>3. UNCHANGED <<size, minted, pty, grid>>
  BY <1>1 DEF Unregister, records
<1>4. overtaken' = overtaken \cup {q \in {p} : \E o \in Callers : At(o, "select") /\ call[o].pane = q}
  BY <1>1 DEF Unregister
<1>5. CASE p \notin InWindow
  <2>1. Finish(c, FALSE) /\ UNCHANGED records
    BY <1>1, <1>5 DEF Unregister
  <2>2. UNCHANGED <<tree, focus, rec>>
    BY <2>1 DEF records
  <2>. QED
    BY <1>1, <1>2, <1>3, <1>4, <1>5, <2>1, <2>2
<1>6. CASE p \in InWindow /\ tree = Leaf(p)
  <2>1. tree # Nothing
    BY <1>6 DEF InWindow
  <2>. QED
    BY <1>1, <1>2, <1>3, <1>4, <1>6, <2>1 DEF Unregister
<1>7. CASE p \in InWindow /\ tree # Leaf(p)
  <2>1. tree # Nothing /\ p \in Leaves(tree) /\ IsTree(tree)
    BY <1>7 DEF InWindow, WindowTyped
  <2>2. Leaves(tree) # {p}
    BY <1>7, <2>1, LoneLeaf
  <2>3. tree' = RemoveLeaf(tree, p) /\ focus' = Retarget(p) /\ rec' = [rec EXCEPT ![p] = Nothing] /\ Go(c, "reflow")
    BY <1>1, <1>7 DEF Unregister
  <2>4. IsTree(tree') /\ Leaves(tree') = Leaves(tree) \ {p}
    BY <2>1, <2>2, <2>3, RemoveLeafIsTree
  <2>5. focus' \in Leaves(tree) \ {p} \/ (focus' = focus /\ focus # p)
    <3>1. CASE focus = p
      <4>1. focus' = PanesOf(tree')[1]
        BY <2>3, <3>1 DEF Retarget
      <4>2. PICK u : u = tree'
        OBVIOUS
      <4>3. PICK n \in Pos : IsRow(PanesOf(u), n, Leaves(u))
        BY <2>4, <4>2, OrderIsRow
      <4>4. 1 \in 1 .. n
        OBVIOUS
      <4>5. PanesOf(u)[1] \in Leaves(u)
        BY <4>3, <4>4 DEF IsRow
      <4>. QED
        BY <2>4, <4>1, <4>2, <4>5
    <3>2. CASE focus # p
      BY <2>3, <3>2 DEF Retarget
    <3>. QED
      BY <3>1, <3>2
  <2>6. LeavesWithout(p)
    BY <2>1, <2>2, <2>3, <2>4, <2>5 DEF LeavesWithout, NewTree
  <2>. QED
    BY <1>1, <1>2, <1>3, <1>4, <2>1, <2>3, <2>6
<1>. QED
  BY <1>5, <1>6, <1>7

LEMMA ResizePaneMakes ==
    ASSUME WindowTyped, NEW c \in Callers, ResizePane(c)
    PROVE  \E p \in Panes :
             /\ tree # Nothing /\ NewTree(Leaves(tree)) /\ Begin(c, "reflow", p, <<>>, TRUE)
             /\ UNCHANGED <<size, focus, minted, rec, pty, grid>>
<1>1. PICK p \in InWindow, d \in Directions, delta \in Deltas : MoveDivider(c, p, d, delta)
  BY DEF ResizePane
<1>2. tree # Nothing /\ IsTree(tree) /\ p \in Leaves(tree) /\ p \in Panes /\ delta \in Int
  BY <1>1, WindowAssumption DEF InWindow, WindowTyped
<1>3. PICK f \in Int : f = Fraction(d, delta)
  BY <1>2, FractionIsInt DEF WindowTyped
<1>4. IsTree(tree') /\ Leaves(tree') = Leaves(tree)
  <2>1. tree' = ResizeLeaf(tree, p, d, f)
    BY <1>1, <1>3 DEF MoveDivider
  <2>. QED
    BY <1>2, <2>1, ResizeLeafIsTree
<1>. QED
  BY <1>1, <1>2, <1>4 DEF MoveDivider, NewTree

LEMMA ApplyLayoutMakes ==
    ASSUME WindowTyped, NEW c \in Callers, ApplyLayout(c)
    PROVE  /\ tree # Nothing /\ NewTree(Leaves(tree)) /\ Begin(c, "reflow", Nothing, <<>>, TRUE)
           /\ UNCHANGED <<size, focus, minted, rec, pty, grid>>
<1>1. PICK kind \in Presets : tree' = FromKind(kind, PanesOf(tree))
  BY DEF ApplyLayout
<1>2. tree # Nothing /\ IsTree(tree)
  BY DEF ApplyLayout, WindowTyped
<1>3. IsTree(tree') /\ Leaves(tree') = Leaves(tree)
  BY <1>1, <1>2, ArrangedIsTree
<1>. QED
  BY <1>2, <1>3 DEF ApplyLayout, NewTree

LEMMA JobIsJob ==
    ASSUME WindowTyped, NEW c \in Callers, call[c].at \in {"pty", "grid", "record"}
    PROVE  /\ Job(c) \in Jobs /\ Job(c).pane \in Panes /\ Job(c).to \in CellSizes
           /\ Job(c) = call[c].todo[1] /\ call[c].todo \in Seq(Jobs) /\ call[c].todo # <<>>
<1>1. call[c] \in Calls
  BY DEF WindowTyped
<1>2. call[c].todo \in Seq(Jobs) /\ call[c].todo # <<>>
  BY <1>1 DEF Calls
<1>3. Job(c) \in Jobs /\ Job(c) = call[c].todo[1]
  BY <1>2, JobsLeft DEF Job
<1>. QED
  BY <1>2, <1>3 DEF Jobs

\* The calls of a step are calls.
LEMMA CallsStayTyped ==
    ASSUME NEW c, NEW x, MovesOn(c, x) PROVE call' \in [Callers -> Calls]
BY DEF MovesOn

LEMMA BeginStaysTyped ==
    ASSUME WindowTyped, NEW c \in Callers, NEW phase \in {"spawn", "unregister", "reflow", "select"},
           NEW p \in Panes \cup {Nothing}, phase # "reflow" => p \in Panes,
           NEW clean \in BOOLEAN, Begin(c, phase, p, <<>>, clean)
    PROVE  /\ MovesOn(c, [at |-> phase, pane |-> p, todo |-> <<>>, clean |-> clean /\ Alone(c)])
           /\ settled' = FALSE /\ overtaken' = overtaken /\ call[c].at = "idle"
           /\ \A o \in Callers \ {c} : call'[o].clean = FALSE
<1>1. PICK x : x = [at |-> phase, pane |-> p, todo |-> <<>>, clean |-> clean /\ Alone(c)]
  OBVIOUS
<1>2. Alone(c) \in BOOLEAN
  BY DEF Alone
<1>3. <<>> \in Seq(Jobs)
  OBVIOUS
<1>4. x \in Calls
  BY <1>1, <1>2, <1>3 DEF Calls, Stages
<1>. QED
  BY <1>1, <1>4, BeginMoves DEF WindowTyped

LEMMA AbsoluteBegins ==
    ASSUME WindowTyped, NEW c \in Callers, ResizeAbsolute(c)
    PROVE  \E p \in Panes, s \in CellSizes :
             /\ tree # Nothing /\ p \in Leaves(tree) /\ pty[p] # Nothing
             /\ MovesOn(c, [at |-> "pty", pane |-> Nothing, todo |-> << [pane |-> p, to |-> s] >>,
                          clean |-> tree = Leaf(p) /\ Alone(c)])
             /\ settled' = FALSE /\ overtaken' = overtaken /\ call[c].at = "idle"
             /\ \A o \in Callers \ {c} : call'[o].clean = FALSE
             /\ UNCHANGED <<records, pty, grid>>
<1>1. PICK p \in InWindow, s \in ClientSizes :
         pty[p] # Nothing /\ Begin(c, "pty", Nothing, << [pane |-> p, to |-> s] >>, tree = Leaf(p))
  BY DEF ResizeAbsolute
<1>2. tree # Nothing /\ p \in Leaves(tree) /\ p \in Panes /\ s \in CellSizes
  BY <1>1, WindowAssumption DEF InWindow, WindowTyped
<1>3. PICK j \in Jobs : j = [pane |-> p, to |-> s]
  BY <1>2 DEF Jobs
<1>4. PICK todo : todo = <<j>>
  OBVIOUS
<1>5. todo \in Seq(Jobs) /\ todo # <<>>
  BY <1>4
<1>6. PICK b \in BOOLEAN : b = (tree = Leaf(p))
  OBVIOUS
<1>7. PICK x : x = [at |-> "pty", pane |-> Nothing, todo |-> todo, clean |-> b /\ Alone(c)]
  OBVIOUS
<1>8. Alone(c) \in BOOLEAN
  BY DEF Alone
<1>9. x \in Calls
  BY <1>5, <1>7, <1>8 DEF Calls, Stages
<1>10. Begin(c, "pty", Nothing, todo, b)
  BY <1>1, <1>3, <1>4, <1>6
<1>11. /\ MovesOn(c, x) /\ settled' = FALSE /\ overtaken' = overtaken /\ call[c].at = "idle"
       /\ \A o \in Callers \ {c} : call'[o].clean = FALSE
  BY <1>7, <1>9, <1>10, BeginMoves DEF WindowTyped
<1>. QED
  BY <1>1, <1>2, <1>3, <1>4, <1>6, <1>7, <1>11 DEF ResizeAbsolute

LEMMA TypedCalls ==
    ASSUME WindowTyped, NEW c \in Callers, Call(c)
    PROVE  WindowTyped'
<1>. USE DEF WindowTyped
<1>1. CASE SplitPane(c)
  <2>1. PICK new \in Panes \ minted :
             /\ tree # Nothing /\ NewTree(Leaves(tree) \cup {new})
             /\ focus' = new /\ minted' = minted \cup {new}
             /\ rec' = [rec EXCEPT ![new] = Placeholder]
             /\ Begin(c, "spawn", new, <<>>, TRUE) /\ UNCHANGED <<size, pty, grid>>
    BY <1>1, SplitPaneMakes
  <2>2. call' \in [Callers -> Calls] /\ settled' = FALSE
    BY <2>1, BeginStaysTyped DEF MovesOn
  <2>3. rec' \in PaneSizes
    BY <2>1, WindowAssumption DEF PaneSizes
  <2>. QED
    BY <2>1, <2>2, <2>3 DEF NewTree, Begin
<1>2. CASE KillPane(c)
  <2>1. PICK p \in Panes :
             /\ tree # Nothing /\ p \in Leaves(tree)
             /\ Begin(c, "unregister", p, <<>>, TRUE) /\ UNCHANGED records
             /\ pty' = [pty EXCEPT ![p] = Nothing] /\ grid' = [grid EXCEPT ![p] = Nothing]
    BY <1>2, KillPaneMakes
  <2>2. call' \in [Callers -> Calls] /\ settled' = FALSE
    BY <2>1, BeginStaysTyped DEF MovesOn
  <2>3. pty' \in EndSizes /\ grid' \in EndSizes
    BY <2>1 DEF EndSizes
  <2>. QED
    BY <2>1, <2>2, <2>3 DEF records, Begin
<1>3. CASE ResizePane(c)
  <2>1. PICK p \in Panes :
             /\ tree # Nothing /\ NewTree(Leaves(tree)) /\ Begin(c, "reflow", p, <<>>, TRUE)
             /\ UNCHANGED <<size, focus, minted, rec, pty, grid>>
    BY <1>3, ResizePaneMakes
  <2>2. call' \in [Callers -> Calls] /\ settled' = FALSE
    BY <2>1, BeginStaysTyped DEF MovesOn
  <2>. QED
    BY <2>1, <2>2 DEF NewTree, Begin
<1>4. CASE ApplyLayout(c)
  <2>1. /\ tree # Nothing /\ NewTree(Leaves(tree)) /\ Begin(c, "reflow", Nothing, <<>>, TRUE)
        /\ UNCHANGED <<size, focus, minted, rec, pty, grid>>
    BY <1>4, ApplyLayoutMakes
  <2>2. call' \in [Callers -> Calls] /\ settled' = FALSE
    BY <2>1, BeginStaysTyped DEF MovesOn
  <2>. QED
    BY <2>1, <2>2 DEF NewTree, Begin
<1>5. CASE ResizeAbsolute(c)
  <2>1. call' \in [Callers -> Calls] /\ settled' = FALSE /\ UNCHANGED <<records, pty, grid>>
    BY <1>5, AbsoluteBegins DEF MovesOn
  <2>2. unsized' = unsized
    BY <1>5 DEF ResizeAbsolute, Begin
  <2>. QED
    BY <2>1, <2>2 DEF records
<1>6. CASE SelectPane(c)
  <2>1. PICK p \in InWindow : Begin(c, "select", p, <<>>, FALSE)
    BY <1>6 DEF SelectPane
  <2>2. p \in Panes /\ UNCHANGED <<records, pty, grid>>
    BY <1>6, <2>1 DEF SelectPane, InWindow
  <2>3. call' \in [Callers -> Calls] /\ settled' = FALSE
    BY <2>1, <2>2, BeginStaysTyped DEF MovesOn
  <2>. QED
    BY <2>1, <2>2, <2>3 DEF records, Begin
<1>. QED
  BY <1>1, <1>2, <1>3, <1>4, <1>5, <1>6 DEF Call

LEMMA GoStaysTyped ==
    ASSUME WindowTyped, NEW c \in Callers, NEW phase \in {"reflow", "grid", "record"}, Go(c, phase),
           phase # "reflow" => call[c].at \in {"pty", "grid", "record"}
    PROVE  /\ MovesOn(c, [call[c] EXCEPT !.at = phase]) /\ settled' = settled
           /\ \A o \in Callers \ {c} : call'[o] = call[o]
<1>1. call[c] \in Calls
  BY DEF WindowTyped
<1>2. PICK x : x = [call[c] EXCEPT !.at = phase]
  OBVIOUS
<1>3. x \in Calls
  BY <1>1, <1>2 DEF Calls, Stages
<1>. QED
  BY <1>2, <1>3, GoMoves DEF WindowTyped

LEMMA TypedStages ==
    ASSUME WindowTyped, NEW c \in Callers, Stage(c)
    PROVE  WindowTyped'
<1>. USE DEF WindowTyped
<1>1. CASE SpawnShell(c)
  <2>1. call' \in [Callers -> Calls] /\ settled' = settled
    BY <1>1, GoStaysTyped DEF SpawnShell, MovesOn
  <2>2. pty' \in EndSizes /\ grid' \in EndSizes
    BY <1>1, ExtentIsSize, WindowAssumption DEF SpawnShell, EndSizes
  <2>. QED
    BY <1>1, <2>1, <2>2 DEF SpawnShell, records
<1>2. CASE SpawnFails(c)
  <2>1. call' \in [Callers -> Calls] /\ settled' \in BOOLEAN
    BY <1>2, FinishMoves DEF SpawnFails, MovesOn
  <2>. QED
    BY <1>2, <2>1 DEF SpawnFails, records
<1>3. CASE Unregister(c)
  <2>1. PICK p : p = call[c].pane
    OBVIOUS
  <2>2. /\ p \in Panes /\ UNCHANGED <<size, minted, pty, grid>>
        /\ \/ p \notin InWindow /\ Finish(c, FALSE) /\ UNCHANGED <<tree, focus, rec>>
           \/ /\ tree # Nothing /\ tree' = Nothing /\ Finish(c, FALSE)
              /\ rec' = [rec EXCEPT ![p] = Nothing] /\ focus' = focus
           \/ /\ tree # Nothing /\ LeavesWithout(p) /\ Go(c, "reflow")
              /\ rec' = [rec EXCEPT ![p] = Nothing]
    BY <1>3, <2>1, UnregisterMakes
  <2>3. call' \in [Callers -> Calls] /\ settled' \in BOOLEAN
    <3>1. CASE Finish(c, FALSE)
      BY <3>1, FinishMoves DEF MovesOn
    <3>2. CASE Go(c, "reflow")
      BY <3>2, GoStaysTyped DEF MovesOn
    <3>. QED
      BY <2>2, <3>1, <3>2
  <2>4. rec' \in PaneSizes
    BY <2>2 DEF PaneSizes
  <2>. QED
    BY <1>3, <2>2, <2>3, <2>4 DEF LeavesWithout, NewTree, Unregister
<1>4. CASE Select(c)
  <2>1. call' \in [Callers -> Calls] /\ settled' \in BOOLEAN
    BY <1>4, FinishMoves DEF Select, MovesOn
  <2>. QED
    BY <1>4, <2>1 DEF Select
<1>5. CASE Compute(c)
  <2>1. CASE tree = Nothing
    <3>1. Finish(c, FALSE) /\ UNCHANGED <<rec, tree, size, minted, pty, grid, unsized>>
      BY <1>5, <2>1 DEF Compute
    <3>2. call' \in [Callers -> Calls] /\ settled' \in BOOLEAN
      BY <3>1, FinishMoves DEF MovesOn
    <3>. QED
      BY <3>1, <3>2
  <2>2. CASE tree # Nothing
    <3>1. call' \in [Callers -> Calls] /\ rec' \in PaneSizes
      BY <1>5, <2>2, ComputeIs DEF MovesOn
    <3>2. UNCHANGED <<tree, size, minted, pty, grid, settled, unsized>>
      BY <1>5, <2>2 DEF Compute
    <3>. QED
      BY <3>1, <3>2
  <2>. QED
    BY <2>1, <2>2
<1>6. ASSUME NextPane(c), call[c].at \in {"pty", "grid", "record"}
      PROVE  call' \in [Callers -> Calls] /\ settled' \in BOOLEAN
  <2>1. call[c] \in Calls
    OBVIOUS
  <2>. QED
    BY <1>6, <2>1, NextPaneMoves DEF MovesOn, Calls
<1>7. CASE ResizePty(c)
  <2>1. Job(c).pane \in Panes /\ Job(c).to \in CellSizes /\ call[c].at \in {"pty", "grid", "record"}
    BY <1>7, JobIsJob DEF ResizePty, At
  <2>2. call' \in [Callers -> Calls] /\ settled' \in BOOLEAN
    <3>1. CASE NextPane(c)
      BY <1>6, <2>1, <3>1
    <3>2. CASE Go(c, "grid")
      BY <2>1, <3>2, GoStaysTyped DEF MovesOn
    <3>. QED
      BY <1>7, <3>1, <3>2 DEF ResizePty, NoPty, ResizeFails, PtyResizes
  <2>3. pty' \in EndSizes /\ unsized' \subseteq Panes
    BY <1>7, <2>1 DEF ResizePty, NoPty, ResizeFails, PtyResizes, EndSizes
  <2>. QED
    BY <1>7, <2>2, <2>3 DEF ResizePty, records
<1>8. CASE ResizeGrid(c)
  <2>1. Job(c).pane \in Panes /\ Job(c).to \in CellSizes /\ call[c].at \in {"pty", "grid", "record"}
    BY <1>8, JobIsJob DEF ResizeGrid, At
  <2>2. call' \in [Callers -> Calls] /\ settled' = settled
    BY <1>8, <2>1, GoStaysTyped DEF ResizeGrid, MovesOn
  <2>3. grid' \in EndSizes
    BY <1>8, <2>1 DEF ResizeGrid, ResizedGrid, EndSizes
  <2>. QED
    BY <1>8, <2>2, <2>3 DEF ResizeGrid, records
<1>9. CASE Record(c)
  <2>1. Job(c).pane \in Panes /\ Job(c).to \in CellSizes /\ call[c].at \in {"pty", "grid", "record"}
    BY <1>9, JobIsJob DEF Record, At
  <2>2. call' \in [Callers -> Calls] /\ settled' \in BOOLEAN
    BY <1>6, <1>9, <2>1 DEF Record
  <2>3. rec' \in PaneSizes /\ size' \in Extents
    BY <1>9, <2>1, OneCellOrMore DEF Record, PaneSizes
  <2>. QED
    BY <1>9, <2>2, <2>3 DEF Record
<1>. QED
  BY <1>1, <1>2, <1>3, <1>4, <1>5, <1>7, <1>8, <1>9 DEF Stage

LEMMA TypedAtFirst ==
    ASSUME WindowInit PROVE WindowTyped
<1>1. IsTree(Leaf(Seed)) /\ Leaves(Leaf(Seed)) = {Seed}
  BY LeafIsTree
<1>2. rec \in PaneSizes /\ pty \in EndSizes /\ grid \in EndSizes
  BY ExtentIsSize, WindowAssumption DEF WindowInit, PaneSizes, EndSizes
<1>. QED
  BY <1>1, <1>2, IdleIsCall, WindowAssumption DEF WindowInit, WindowTyped

LEMMA TypedStutters == ASSUME WindowTyped, UNCHANGED windowVars PROVE WindowTyped'
BY DEF WindowTyped, windowVars, records, history

\* However the callers' steps mix, the window stays a tree of its panes.
THEOREM WindowIsTyped == WindowSpec => []WindowTyped
<1>1. WindowInit => WindowTyped
  BY TypedAtFirst
<1>2. WindowTyped /\ [WindowNext]_windowVars => WindowTyped'
  BY TypedCalls, TypedStages, TypedStutters DEF WindowNext
<1>. QED
  BY <1>1, <1>2, PTL DEF WindowSpec

\* However a window has been split, arranged, squeezed and resized, each of its
\* cells belongs to exactly one pane (compute_rects, "no gap and no overlap").
THEOREM CellsAreShared == WindowSpec => []RectsTile
<1>1. WindowTyped => RectsTile
  <2>1. SUFFICES ASSUME WindowTyped, tree # Nothing
                 PROVE  LET rects == LayOut(tree, Bounds) IN
                          /\ UNION {CellsOf(rects[p]) : p \in InWindow} = CellsOf(Bounds)
                          /\ \A p, q \in InWindow : p # q => CellsOf(rects[p]) \cap CellsOf(rects[q]) = {}
    BY DEF RectsTile
  <2>2. IsTree(tree) /\ Bounds \in Rects /\ InWindow = Leaves(tree)
    BY <2>1, BoundsAreRect DEF WindowTyped, InWindow
  <2>. QED
    BY <2>2, TreeTiles
<1>. QED
  BY <1>1, WindowIsTyped, PTL
---------------------------------------------
(* Where the focus is.                                                     *)

\* Where the focus is, and where the callers that have located a pane will take it.
FocusInv ==
    tree # Nothing =>
        /\ focus \in Leaves(tree) \cup overtaken
        /\ \A c \in Callers : call[c].at = "select" => call[c].pane \in Leaves(tree) \cup overtaken

LEMMA OthersKeep ==
    ASSUME NEW c \in Callers, NEW x, MovesOn(c, x), NEW o \in Callers, o # c
    PROVE  /\ call'[o].at = call[o].at /\ call'[o].pane = call[o].pane
           /\ call'[o].todo = call[o].todo /\ (call'[o].clean => call[o].clean)
  BY DEF MovesOn

LEMMA FocusKept ==
    ASSUME FocusInv, tree # Nothing, tree' # Nothing,
           NEW c \in Callers, NEW x, MovesOn(c, x), x.at = "select" => x.pane \in Leaves(tree') \cup overtaken',
           \A q \in Leaves(tree) \cup overtaken : q \in Leaves(tree') \cup overtaken',
           focus' = focus \/ focus' \in Leaves(tree') \cup overtaken'
    PROVE  FocusInv'
<1>1. focus' \in Leaves(tree') \cup overtaken'
  BY DEF FocusInv
<1>2. ASSUME NEW o \in Callers, call'[o].at = "select" PROVE call'[o].pane \in Leaves(tree') \cup overtaken'
  <2>1. CASE o = c
    BY <1>2, <2>1 DEF MovesOn
  <2>2. CASE o # c
    <3>1. call'[o].at = call[o].at /\ call'[o].pane = call[o].pane
      BY <2>2, OthersKeep
    <3>. QED
      BY <1>2, <3>1 DEF FocusInv
  <2>. QED
    BY <2>1, <2>2
<1>. QED
  BY <1>1, <1>2 DEF FocusInv

LEMMA FocusOfCalls ==
    ASSUME WindowTyped, FocusInv, NEW c \in Callers, Call(c), tree' # Nothing
    PROVE  FocusInv'
<1>1. CASE SplitPane(c)
  <2>1. PICK new \in Panes \ minted :
             /\ tree # Nothing /\ NewTree(Leaves(tree) \cup {new})
             /\ focus' = new /\ Begin(c, "spawn", new, <<>>, TRUE)
    BY <1>1, SplitPaneMakes
  <2>2. PICK x : /\ x.at = "spawn" /\ MovesOn(c, x) /\ overtaken' = overtaken
    BY <2>1, BeginStaysTyped
  <2>3. Leaves(tree') = Leaves(tree) \cup {new}
    BY <2>1 DEF NewTree
  <2>. QED
    BY <2>1, <2>2, <2>3, FocusKept
<1>2. CASE KillPane(c)
  <2>1. PICK p \in Panes : tree # Nothing /\ Begin(c, "unregister", p, <<>>, TRUE) /\ UNCHANGED records
    BY <1>2, KillPaneMakes
  <2>2. PICK x : /\ x.at = "unregister" /\ MovesOn(c, x) /\ overtaken' = overtaken
    BY <2>1, BeginStaysTyped
  <2>3. tree' = tree /\ focus' = focus
    BY <2>1 DEF records
  <2>. QED
    BY <2>1, <2>2, <2>3, FocusKept
<1>3. CASE ResizePane(c)
  <2>1. PICK p \in Panes : /\ tree # Nothing /\ NewTree(Leaves(tree)) /\ Begin(c, "reflow", p, <<>>, TRUE)
                           /\ focus' = focus
    BY <1>3, ResizePaneMakes
  <2>2. PICK x : /\ x.at = "reflow" /\ MovesOn(c, x) /\ overtaken' = overtaken
    BY <2>1, BeginStaysTyped
  <2>3. Leaves(tree') = Leaves(tree)
    BY <2>1 DEF NewTree
  <2>. QED
    BY <2>1, <2>2, <2>3, FocusKept
<1>4. CASE ApplyLayout(c)
  <2>1. /\ tree # Nothing /\ NewTree(Leaves(tree)) /\ Begin(c, "reflow", Nothing, <<>>, TRUE)
        /\ focus' = focus
    BY <1>4, ApplyLayoutMakes
  <2>2. PICK x : /\ x.at = "reflow" /\ MovesOn(c, x) /\ overtaken' = overtaken
    BY <2>1, BeginStaysTyped
  <2>3. Leaves(tree') = Leaves(tree)
    BY <2>1 DEF NewTree
  <2>. QED
    BY <2>1, <2>2, <2>3, FocusKept
<1>5. CASE ResizeAbsolute(c)
  <2>1. PICK p \in Panes, s \in CellSizes :
          /\ tree # Nothing
          /\ MovesOn(c, [at |-> "pty", pane |-> Nothing, todo |-> << [pane |-> p, to |-> s] >>,
                       clean |-> tree = Leaf(p) /\ Alone(c)])
          /\ overtaken' = overtaken /\ UNCHANGED <<records, pty, grid>>
    BY <1>5, AbsoluteBegins
  <2>2. PICK x : x.at = "pty" /\ MovesOn(c, x)
    BY <2>1
  <2>3. tree' = tree /\ focus' = focus
    BY <2>1 DEF records
  <2>. QED
    BY <2>1, <2>2, <2>3, FocusKept
<1>6. CASE SelectPane(c)
  <2>1. PICK p \in InWindow : Begin(c, "select", p, <<>>, FALSE)
    BY <1>6 DEF SelectPane
  <2>2. p \in Panes /\ p \in Leaves(tree) /\ tree # Nothing /\ UNCHANGED <<records, pty, grid>>
    BY <1>6, <2>1 DEF SelectPane, InWindow, WindowTyped
  <2>3. PICK x : /\ x.at = "select" /\ x.pane = p /\ MovesOn(c, x) /\ overtaken' = overtaken
    BY <2>1, <2>2, BeginStaysTyped
  <2>4. tree' = tree /\ focus' = focus
    BY <2>2 DEF records
  <2>. QED
    BY <2>2, <2>3, <2>4, FocusKept
<1>. QED
  BY <1>1, <1>2, <1>3, <1>4, <1>5, <1>6 DEF Call

LEMMA FocusOfStages ==
    ASSUME WindowTyped, FocusInv, NEW c \in Callers, Stage(c), tree' # Nothing
    PROVE  FocusInv'
<1>0. Idle.at = "idle"
  BY DEF Idle
<1>0a. call[c] \in Calls /\ \A s \in Stages : [call[c] EXCEPT !.at = s].at = s
  <2>1. call[c] \in Calls
    BY DEF WindowTyped
  <2>. QED
    BY <2>1 DEF Calls
<1>1. CASE SpawnShell(c)
  <2>1. PICK x : x.at = "reflow" /\ MovesOn(c, x)
    BY <1>0a, <1>1, GoStaysTyped DEF SpawnShell, Stages
  <2>2. tree' = tree /\ focus' = focus /\ overtaken' = overtaken
    BY <1>1 DEF SpawnShell, records
  <2>. QED
    BY <2>1, <2>2, FocusKept
<1>2. CASE SpawnFails(c)
  <2>1. MovesOn(c, Idle)
    BY <1>2, FinishMoves DEF SpawnFails, WindowTyped
  <2>2. tree' = tree /\ focus' = focus /\ overtaken' = overtaken
    BY <1>2 DEF SpawnFails, records
  <2>. QED
    BY <1>0, <2>1, <2>2, FocusKept
<1>3. CASE Unregister(c)
  <2>1. PICK p : p = call[c].pane
    OBVIOUS
  <2>2. /\ p \in Panes
        /\ overtaken' = overtaken \cup {q \in {p} : \E o \in Callers : At(o, "select") /\ call[o].pane = q}
        /\ \/ p \notin InWindow /\ Finish(c, FALSE) /\ UNCHANGED <<tree, focus, rec>>
           \/ /\ tree # Nothing /\ tree' = Nothing
           \/ /\ tree # Nothing /\ LeavesWithout(p) /\ Go(c, "reflow")
    BY <1>3, <2>1, UnregisterMakes
  <2>3. CASE p \notin InWindow /\ Finish(c, FALSE) /\ UNCHANGED <<tree, focus, rec>>
    <3>1. MovesOn(c, Idle)
      BY <2>3, FinishMoves DEF WindowTyped
    <3>. QED
      BY <1>0, <2>2, <2>3, <3>1, FocusKept
  <2>4. CASE tree # Nothing /\ LeavesWithout(p) /\ Go(c, "reflow")
    <3>1. PICK x : x.at = "reflow" /\ MovesOn(c, x)
      BY <1>0a, <2>4, GoStaysTyped DEF Stages
    <3>2. Leaves(tree') = Leaves(tree) \ {p} /\ (focus' \in Leaves(tree') \/ (focus' = focus /\ focus # p))
      BY <2>4 DEF LeavesWithout, NewTree
    <3>3. focus' \in Leaves(tree') \cup overtaken'
      BY <2>2, <2>4, <3>2 DEF FocusInv
    <3>4. ASSUME NEW o \in Callers, call'[o].at = "select" PROVE call'[o].pane \in Leaves(tree') \cup overtaken'
      <4>1. o # c
        BY <3>1, <3>4 DEF MovesOn
      <4>2. call[o].at = "select" /\ call'[o].pane = call[o].pane
        <5>1. call'[o].at = call[o].at /\ call'[o].pane = call[o].pane
          BY <3>1, <4>1, OthersKeep
        <5>. QED
          BY <3>4, <5>1
      <4>3. call[o].pane \in Leaves(tree) \cup overtaken
        BY <2>4, <4>2 DEF FocusInv
      <4>4. call[o].pane = p => p \in overtaken'
        BY <2>2, <4>2 DEF At
      <4>. QED
        BY <2>2, <3>2, <4>2, <4>3, <4>4
    <3>. QED
      BY <3>3, <3>4 DEF FocusInv
  <2>. QED
    BY <2>2, <2>3, <2>4
<1>4. CASE Select(c)
  <2>1. MovesOn(c, Idle) /\ tree' = tree /\ overtaken' = overtaken /\ call[c].at = "select"
    BY <1>4, FinishMoves DEF Select, WindowTyped, At
  <2>2. focus' \in Leaves(tree') \cup overtaken'
    BY <1>4, <2>1 DEF Select, FocusInv
  <2>. QED
    BY <1>0, <2>1, <2>2, FocusKept
<1>5. CASE Compute(c)
  <2>1. tree' = tree /\ focus' = focus /\ overtaken' = overtaken
    BY <1>5 DEF Compute
  <2>2. MovesOn(c, [call[c] EXCEPT !.at = "pty", !.todo = Todo(tree, Bounds)])
    BY <1>5, <2>1, ComputeIs
  <2>3. PICK x : x.at = "pty" /\ MovesOn(c, x)
    <3>1. call[c] = [call[c] EXCEPT !.at = call[c].at] /\ "at" \in DOMAIN call[c] /\ "todo" \in DOMAIN call[c]
      BY <1>0a DEF Calls
    <3>2. [call[c] EXCEPT !.at = "pty", !.todo = Todo(tree, Bounds)].at = "pty"
      BY <3>1
    <3>. QED
      BY <2>2, <3>2
  <2>. QED
    BY <2>1, <2>3, FocusKept
<1>6. ASSUME NextPane(c), call[c].at \in {"pty", "grid", "record"}
      PROVE  \E x : x.at # "select" /\ MovesOn(c, x)
  <2>1. \/ MovesOn(c, Idle) \/ MovesOn(c, [call[c] EXCEPT !.at = "pty", !.todo = Tail(call[c].todo)])
    BY <1>6, NextPaneMoves DEF WindowTyped
  <2>2. [call[c] EXCEPT !.at = "pty", !.todo = Tail(call[c].todo)].at = "pty"
    BY <1>0a DEF Calls
  <2>. QED
    BY <1>0, <2>1, <2>2
<1>7. CASE ResizePty(c)
  <2>1. tree' = tree /\ focus' = focus /\ overtaken' = overtaken /\ call[c].at = "pty"
    BY <1>7 DEF ResizePty, records, At
  <2>2. PICK x : x.at # "select" /\ MovesOn(c, x)
    <3>1. CASE NextPane(c)
      BY <1>6, <2>1, <3>1
    <3>2. CASE Go(c, "grid")
      BY <1>0a, <2>1, <3>2, GoStaysTyped DEF Stages
    <3>. QED
      BY <1>7, <3>1, <3>2 DEF ResizePty, NoPty, ResizeFails, PtyResizes
  <2>. QED
    BY <2>1, <2>2, FocusKept
<1>8. CASE ResizeGrid(c)
  <2>1. tree' = tree /\ focus' = focus /\ overtaken' = overtaken /\ call[c].at = "grid" /\ Go(c, "record")
    BY <1>8 DEF ResizeGrid, records, At
  <2>2. PICK x : x.at = "record" /\ MovesOn(c, x)
    BY <1>0a, <2>1, GoStaysTyped DEF Stages
  <2>. QED
    BY <2>1, <2>2, FocusKept
<1>9. CASE Record(c)
  <2>1. tree' = tree /\ focus' = focus /\ overtaken' = overtaken /\ call[c].at = "record" /\ NextPane(c)
    BY <1>9 DEF Record, At
  <2>2. PICK x : x.at # "select" /\ MovesOn(c, x)
    BY <1>6, <2>1
  <2>. QED
    BY <2>1, <2>2, FocusKept
<1>. QED
  BY <1>1, <1>2, <1>3, <1>4, <1>5, <1>7, <1>8, <1>9 DEF Stage

\* The active pane is a leaf of the window (window.rs), unless it was killed while
\* the call that made it the active one held no lock.
THEOREM FocusStaysInWindow == WindowSpec => []FocusIsALeaf
<1>1. WindowInit => FocusInv
  <2>1. Leaves(Leaf(Seed)) = {Seed}
    BY LeafIsTree
  <2>. QED
    BY <2>1 DEF WindowInit, FocusInv, Idle
<1>2. ASSUME WindowTyped, FocusInv, [WindowNext]_windowVars PROVE FocusInv'
  <2>1. CASE UNCHANGED windowVars
    BY <1>2, <2>1 DEF windowVars, records, history, FocusInv
  <2>2. CASE tree' = Nothing
    BY <2>2 DEF FocusInv
  <2>3. CASE WindowNext /\ tree' # Nothing
    BY <1>2, <2>3, FocusOfCalls, FocusOfStages DEF WindowNext
  <2>. QED
    BY <1>2, <2>1, <2>2, <2>3
<1>3. FocusInv => FocusIsALeaf
  BY DEF FocusInv, FocusIsALeaf, InWindow
<1>. QED
  BY <1>1, <1>2, <1>3, WindowIsTyped, PTL DEF WindowSpec
---------------------------------------------
(* What the window shows after a call, and what a call still owes it.      *)

\* A pane's record says what the layout gives it; its pty and its grid follow the record,
\* unless the pty did not get its size.
HasCells(p) == ~IsEmpty(LayOut(tree, Bounds)[p])
Stated(p)   == rec[p] = AtLeastOne(LayOut(tree, Bounds)[p])
Applied(p)  == p \in unsized \/ (AtLeastOne(pty[p]) = rec[p] /\ grid[p] = pty[p])

\* The jobs that are left are what the window lacks.
IsDue(todo, i) ==
    /\ todo[i].pane \in Leaves(tree) /\ HasCells(todo[i].pane)
    /\ \/ todo[i].to = SizeOf(LayOut(tree, Bounds)[todo[i].pane])
       \/ tree = Leaf(todo[i].pane) /\ Len(todo) = 1
Owed(todo) ==
    /\ \A p \in Leaves(tree) : Stated(p)
    /\ \A i \in 1 .. Len(todo) : IsDue(todo, i)
    /\ \A p \in Leaves(tree) : pty[p] # Nothing /\ HasCells(p) =>
         Applied(p) \/ \E i \in 1 .. Len(todo) : todo[i].pane = p

\* How far the first job is.
Begun(x) ==
    x.todo[1].pane \notin unsized =>
        /\ x.at \in {"grid", "record"} => pty[x.todo[1].pane] = x.todo[1].to
        /\ x.at = "record" => grid[x.todo[1].pane] = x.todo[1].to

SameEnds == \A p \in Panes : pty[p] = Nothing <=> grid[p] = Nothing
Company  ==
    /\ settled => \A c \in Callers : call[c].at = "idle"
    /\ \A c \in Callers : call[c].clean => call[c].at # "idle" /\ \A o \in Callers : o # c => call[o].at = "idle"

Keeps(c) ==
    call[c].clean /\ call[c].at \in {"pty", "grid", "record"} =>
        tree # Nothing /\ Owed(call[c].todo) /\ Begun(call[c])

\* What the calls that nobody disturbs still owe the window.
DisplayInv ==
    /\ Company /\ SameEnds /\ DisplayMatchesLayout
    /\ \A c \in Callers : Keeps(c)

LEMMA LoneRoom ==
    ASSUME NEW p, NEW r \in Rects
    PROVE  LayOut(Leaf(p), r)[p] = r
<1>1. IsTree(Leaf(p)) /\ p \in Leaves(Leaf(p)) /\ Leaf(p)[p] = <<>>
  BY LeafIsTree
<1>2. LayOut(Leaf(p), r)[p] = Rooms(r, Leaf(p)[p])[Len(Leaf(p)[p])] /\ Leaf(p)[p] \in Ways
  BY <1>1, LeafLaidOut
<1>3. Rooms(r, Leaf(p)[p])[0] = r
  BY <1>2, RoomsBegin
<1>. QED
  BY <1>1, <1>2, <1>3

\* A call is only clean as long as it is alone: a step of another one ends that.
LEMMA LoneSize ==
    ASSUME WindowTyped, NEW p, tree = Leaf(p)
    PROVE  /\ tree # Nothing => p \in Panes /\ InWindow = {p} /\ Leaves(tree) = {p}
           /\ Bounds \in Rects /\ AtLeastOne(LayOut(tree, Bounds)[p]) = size /\ ~IsEmpty(LayOut(tree, Bounds)[p])
<1>1. /\ Bounds \in Rects /\ AtLeastOne(Bounds) = size /\ ~IsEmpty(Bounds)
  BY DEF WindowTyped, Bounds, Rect, Rects, AtLeastOne, IsEmpty, Extents
<1>. QED
  BY <1>1, LoneRoom, LeafIsTree DEF WindowTyped, InWindow

\* The only pane of a window has the window's size in its record, unless a reflow is to come.
Lone == \A p \in Panes :
          tree # Nothing /\ tree = Leaf(p) => rec[p] = size \/ \E c \in Callers : call[c].at = "reflow"

LEMMA LoneStays ==
    ASSUME Lone, NEW c \in Callers, call[c].at # "reflow", NEW x, MovesOn(c, x), UNCHANGED <<tree, size, rec>>
    PROVE  Lone'
<1>1. ASSUME NEW o \in Callers, call[o].at = "reflow" PROVE call'[o].at = "reflow"
  BY <1>1 DEF MovesOn
<1>. QED
  BY <1>1 DEF Lone

LEMMA LoneReflows == ASSUME NEW c \in Callers, NEW x, MovesOn(c, x), x.at = "reflow" PROVE Lone'
BY DEF Lone, MovesOn

LEMMA LoneKept ==
    ASSUME WindowTyped, WindowTyped', Lone, NEW c \in Callers, Call(c) \/ Stage(c)
    PROVE  Lone'
<1>0. call[c] \in Calls
  BY DEF WindowTyped
<1>1. CASE SplitPane(c)
  <2>1. PICK new \in Panes \ minted : NewTree(Leaves(tree) \cup {new}) /\ tree # Nothing
    BY <1>1, SplitPaneMakes
  <2>2. Leaves(tree) # {} /\ new \notin Leaves(tree)
    BY <2>1 DEF WindowTyped, IsTree
  <2>. QED
    BY <2>1, <2>2, LeafIsTree DEF Lone, NewTree
<1>2. CASE KillPane(c)
  <2>1. PICK p \in Panes : Begin(c, "unregister", p, <<>>, TRUE) /\ UNCHANGED records
    BY <1>2, KillPaneMakes
  <2>. QED
    BY <2>1, BeginStaysTyped, LoneStays DEF records
<1>3. CASE ResizePane(c) \/ ApplyLayout(c)
  <2>1. PICK p \in Panes \cup {Nothing} : Begin(c, "reflow", p, <<>>, TRUE)
    BY <1>3, ResizePaneMakes DEF ApplyLayout
  <2>2. MovesOn(c, [at |-> "reflow", pane |-> p, todo |-> <<>>, clean |-> TRUE /\ Alone(c)])
    BY <2>1, BeginStaysTyped
  <2>. QED
    BY <2>2, LoneReflows
<1>4. CASE ResizeAbsolute(c)
  BY <1>4, AbsoluteBegins, LoneStays DEF records
<1>5. CASE SelectPane(c)
  <2>1. PICK p \in InWindow : Begin(c, "select", p, <<>>, FALSE)
    BY <1>5 DEF SelectPane
  <2>2. p \in Panes /\ UNCHANGED records
    BY <1>5, <2>1 DEF SelectPane, InWindow, WindowTyped
  <2>. QED
    BY <2>1, <2>2, BeginStaysTyped, LoneStays DEF records
<1>6. ASSUME Go(c, "reflow") PROVE Lone'
  <2>1. MovesOn(c, [call[c] EXCEPT !.at = "reflow"])
    BY <1>6, GoStaysTyped
  <2>. QED
    BY <1>0, <2>1, LoneReflows DEF Calls
<1>7. ASSUME Finish(c, FALSE), call[c].at # "reflow", UNCHANGED <<tree, size, rec>> PROVE Lone'
  BY <1>7, FinishMoves, LoneStays DEF WindowTyped
<1>8. CASE SpawnShell(c) \/ SpawnFails(c)
  BY <1>6, <1>7, <1>8 DEF SpawnShell, SpawnFails, At, records
<1>9. CASE Unregister(c)
  <2>1. \/ Finish(c, FALSE) /\ UNCHANGED records
        \/ tree' = Nothing
        \/ Go(c, "reflow")
    BY <1>9 DEF Unregister
  <2>. QED
    BY <1>6, <1>7, <1>9, <2>1 DEF Unregister, At, records, Lone
<1>10. CASE Select(c)
  BY <1>7, <1>10 DEF Select, At
<1>11. CASE Compute(c)
  <2>1. CASE tree = Nothing
    BY <1>11, <2>1 DEF Compute, Lone
  <2>2. CASE tree # Nothing
    <3>1. rec' = [p \in Panes |-> IF p \in Leaves(tree) THEN AtLeastOne(LayOut(tree, Bounds)[p]) ELSE rec[p]]
      BY <1>11, <2>2, ComputeIs
    <3>2. UNCHANGED <<tree, size>>
      BY <1>11 DEF Compute
    <3>3. ASSUME NEW p \in Panes, tree = Leaf(p) PROVE rec'[p] = size
      <4>1. p \in Leaves(tree) /\ AtLeastOne(LayOut(tree, Bounds)[p]) = size
        BY <2>2, <3>3, LoneSize
      <4>. QED
        BY <3>1, <4>1
    <3>. QED
      BY <3>2, <3>3 DEF Lone
  <2>. QED
    BY <2>1, <2>2
<1>12. ASSUME NextPane(c), call[c].at \in {"pty", "grid", "record"}, UNCHANGED <<tree, size, rec>> PROVE Lone'
  BY <1>12, NextPaneMoves, LoneStays DEF WindowTyped
<1>13. ASSUME NEW phase \in {"grid", "record"}, Go(c, phase), call[c].at \in {"pty", "grid", "record"},
              UNCHANGED <<tree, size, rec>>
       PROVE  Lone'
  BY <1>13, GoStaysTyped, LoneStays
<1>14. CASE ResizePty(c) \/ ResizeGrid(c)
  BY <1>12, <1>13, <1>14 DEF ResizePty, NoPty, ResizeFails, PtyResizes, ResizeGrid, At, records
<1>15. CASE Record(c)
  <2>1. PICK j : j = Job(c).pane
    OBVIOUS
  <2>2. CASE j \notin InWindow
    BY <1>12, <1>15, <2>1, <2>2 DEF Record, At
  <2>3. CASE j \in InWindow
    <3>1. /\ rec' = [rec EXCEPT ![j] = AtLeastOne(Job(c).to)] /\ tree' = tree
          /\ size' = IF tree = Leaf(j) THEN AtLeastOne(Job(c).to) ELSE size
      BY <1>15, <2>1, <2>3 DEF Record
    <3>2. ASSUME NEW p \in Panes, tree # Nothing, tree = Leaf(p) PROVE rec'[p] = size'
      <4>1. p = j
        BY <2>3, <3>2, LoneSize
      <4>. QED
        BY <3>1, <3>2, <4>1 DEF WindowTyped, PaneSizes
    <3>. QED
      BY <3>1, <3>2 DEF Lone
  <2>. QED
    BY <2>2, <2>3
<1>. QED
  BY <1>1, <1>2, <1>3, <1>4, <1>5, <1>8, <1>9, <1>10, <1>11, <1>14, <1>15 DEF Call, Stage

LEMMA OnlyMine ==
    ASSUME WindowTyped, Company, NEW c \in Callers, call[c].at # "idle", NEW x, MovesOn(c, x)
    PROVE  \A o \in Callers : o # c => ~call'[o].clean
<1>1. ASSUME NEW o \in Callers, o # c, call'[o].clean PROVE FALSE
  <2>1. call[o].clean
    BY <1>1, OthersKeep
  <2>. QED
    BY <1>1, <2>1 DEF Company
<1>. QED
  BY <1>1

LEMMA CompanyBegins ==
    ASSUME NEW c \in Callers, NEW x, MovesOn(c, x), x.at # "idle",
           x.clean => Alone(c), settled' = FALSE, \A o \in Callers : o # c => ~call'[o].clean
    PROVE  Company'
<1>1. ASSUME NEW o \in Callers, call'[o].clean
      PROVE  call'[o].at # "idle" /\ \A a \in Callers : a # o => call'[a].at = "idle"
  <2>1. o = c
    BY <1>1
  <2>2. call'[c] = x
    BY DEF MovesOn
  <2>3. ASSUME NEW a \in Callers, a # c PROVE call'[a].at = "idle"
    <3>1. call[a].at = "idle"
      BY <1>1, <2>1, <2>2, <2>3 DEF Alone, At
    <3>. QED
      BY <2>3, <3>1, OthersKeep
  <2>. QED
    BY <2>1, <2>2, <2>3
<1>. QED
  BY <1>1 DEF Company

LEMMA CompanySteps ==
    ASSUME WindowTyped, Company, NEW c \in Callers, call[c].at # "idle", NEW x, MovesOn(c, x),
           \/ x.at # "idle" /\ x.clean = call[c].clean /\ settled' = settled
           \/ x = Idle /\ (settled' => call[c].clean)
    PROVE  Company' /\ \A o \in Callers : o # c => ~call'[o].clean
<1>1. \A o \in Callers : o # c => ~call'[o].clean
  BY OnlyMine
<1>2. call'[c] = x
  BY DEF MovesOn
<1>3. ASSUME call[c].clean, NEW a \in Callers, a # c PROVE call'[a].at = "idle"
  <2>1. call[a].at = "idle"
    BY <1>3 DEF Company
  <2>. QED
    BY <1>3, <2>1, OthersKeep
<1>4. ASSUME NEW o \in Callers, call'[o].clean
      PROVE  call'[o].at # "idle" /\ \A a \in Callers : a # o => call'[a].at = "idle"
  <2>1. o = c
    BY <1>1, <1>4
  <2>. QED
    BY <1>2, <1>3, <1>4, <2>1 DEF Idle
<1>5. ASSUME settled', NEW o \in Callers PROVE call'[o].at = "idle"
  <2>1. ~settled
    BY DEF Company
  <2>2. x = Idle /\ call[c].clean
    BY <1>5, <2>1
  <2>. QED
    BY <1>2, <1>3, <2>2 DEF Idle
<1>. QED
  BY <1>1, <1>4, <1>5 DEF Company

LEMMA KeptByAll ==
    ASSUME NEW c \in Callers, Keeps(c)', \A o \in Callers : o # c => ~call'[o].clean,
           Company', SameEnds', DisplayMatchesLayout'
    PROVE  DisplayInv'
<1>1. ASSUME NEW o \in Callers PROVE Keeps(o)'
  BY DEF Keeps
<1>. QED
  BY <1>1 DEF DisplayInv

\* Nothing is owed yet, or no more.
LEMMA NothingOwed ==
    ASSUME NEW c \in Callers, NEW x, MovesOn(c, x), x.clean => x.at \notin {"pty", "grid", "record"}
    PROVE  Keeps(c)'
BY DEF Keeps, MovesOn

LEMMA SomethingOwed ==
    ASSUME NEW c \in Callers, NEW x, MovesOn(c, x), x.clean => tree' # Nothing /\ Owed(x.todo)' /\ Begun(x)'
    PROVE  Keeps(c)'
BY DEF Keeps, MovesOn

LEMMA OwedStays ==
    ASSUME NEW s, Owed(s), UNCHANGED <<tree, size, rec, pty, grid, unsized>>
    PROVE  Owed(s)'
BY DEF Owed, IsDue, HasCells, Stated, Applied, Bounds

\* A pane without a pty, or whose pty did not get its size, is owed nothing.
LEMMA PassedOver ==
    ASSUME WindowTyped, NEW s \in Seq(Jobs), s # <<>>, Owed(s), UNCHANGED <<tree, size, rec, pty, grid>>,
           unsized \subseteq unsized', pty[s[1].pane] = Nothing \/ s[1].pane \in unsized'
    PROVE  Owed(Tail(s))'
<1>1. PICK n \in Nat : n = Len(s) /\ n > 0
  BY JobsLeft
<1>2. PICK r \in Seq(Jobs) : r = Tail(s) /\ Len(r) = n - 1 /\ \A i \in 1 .. n - 1 : r[i] = s[i + 1]
  BY <1>1, JobsLeft
<1>0. Bounds' = Bounds
  BY DEF Bounds
<1>3. ASSUME NEW p \in Leaves(tree) PROVE Stated(p)'
  BY <1>0, <1>3 DEF Owed, Stated
<1>4. ASSUME NEW i \in 1 .. n - 1 PROVE IsDue(r, i)'
  <2>1. i + 1 \in 1 .. n /\ n # 1
    OBVIOUS
  <2>2. IsDue(s, i + 1)
    BY <1>1, <2>1 DEF Owed
  <2>. QED
    BY <1>0, <1>1, <1>2, <2>1, <2>2 DEF IsDue, HasCells
<1>5. ASSUME NEW p \in Leaves(tree), pty'[p] # Nothing, HasCells(p)', ~Applied(p)'
      PROVE  \E i \in 1 .. n - 1 : r[i].pane = p
  <2>0. pty[p] # Nothing /\ HasCells(p) /\ ~Applied(p) /\ p \notin unsized'
    BY <1>0, <1>5 DEF HasCells, Applied
  <2>1. PICK i \in 1 .. n : s[i].pane = p
    BY <1>1, <2>0 DEF Owed
  <2>2. i # 1
    BY <2>0, <2>1
  <2>3. i - 1 \in 1 .. n - 1 /\ r[i - 1] = s[i]
    <3>1. i - 1 \in 1 .. n - 1 /\ (i - 1) + 1 = i
      BY <2>2
    <3>. QED
      BY <1>2, <3>1
  <2>. QED
    BY <2>1, <2>3
<1>. QED
  BY <1>2, <1>3, <1>4, <1>5 DEF Owed

\* A job is done when the record is written, also where it takes the window with it.
LEMMA JobDone ==
    ASSUME WindowTyped, WindowTyped', tree # Nothing, NEW s \in Seq(Jobs), s # <<>>, Owed(s),
           NEW j, j = s[1].pane, NEW to, to = AtLeastOne(s[1].to), UNCHANGED <<tree, pty, grid, unsized>>,
           j \notin unsized => pty[j] = s[1].to /\ grid[j] = s[1].to,
           rec' = [rec EXCEPT ![j] = to], size' = IF tree = Leaf(j) THEN to ELSE size
    PROVE  Owed(Tail(s))'
<1>1. PICK n \in Nat : n = Len(s) /\ n > 0
  BY JobsLeft
<1>2. PICK r \in Seq(Jobs) : r = Tail(s) /\ Len(r) = n - 1 /\ \A i \in 1 .. n - 1 : r[i] = s[i + 1]
  BY <1>1, JobsLeft
<1>3. j \in Leaves(tree) /\ HasCells(j) /\ (s[1].to = SizeOf(LayOut(tree, Bounds)[j]) \/ (tree = Leaf(j) /\ n = 1))
  <2>1. IsDue(s, 1)
    BY <1>1 DEF Owed
  <2>. QED
    BY <1>1, <2>1 DEF IsDue
<1>4. /\ IsTree(tree) /\ Leaves(tree) \subseteq Panes /\ Bounds \in Rects /\ Bounds' \in Rects
      /\ AtLeastOne(Bounds) = size /\ AtLeastOne(Bounds') = size' /\ to \in Extents
  <2>1. /\ IsTree(tree) /\ Leaves(tree) \subseteq Panes /\ size \in Extents /\ size' \in Extents
    BY DEF WindowTyped
  <2>2. s[1] \in Jobs
    BY JobsLeft
  <2>. QED
    BY <2>1, <2>2, OneCellOrMore DEF Bounds, Rect, Rects, AtLeastOne, Extents, Jobs
<1>5. rec'[j] = to /\ \A p \in Leaves(tree) : p # j => rec'[p] = rec[p]
  BY <1>3, <1>4 DEF WindowTyped, PaneSizes
<1>6. CASE s[1].to = SizeOf(LayOut(tree, Bounds)[j])
  <2>1. LayOut(tree, Bounds)[j] \in Rects
    BY <1>3, <1>4, LeafLaidOut
  <2>2. to = AtLeastOne(LayOut(tree, Bounds)[j])
    BY <1>3, <1>6, <2>1, OneOrMore DEF HasCells
  <2>3. size' = size
    <3>1. CASE tree = Leaf(j)
      BY <1>4, <2>2, <3>1, LoneRoom
    <3>. QED
      BY <3>1
  <2>4. Bounds' = Bounds
    BY <2>3 DEF Bounds
  <2>5. ASSUME NEW p \in Leaves(tree) PROVE Stated(p)'
    <3>1. CASE p = j
      BY <1>5, <2>2, <2>4, <3>1 DEF Stated
    <3>2. CASE p # j
      <4>1. Stated(p)
        BY <3>2 DEF Owed
      <4>. QED
        BY <1>5, <2>4, <3>2, <4>1 DEF Stated
    <3>. QED
      BY <3>1, <3>2
  <2>6. ASSUME NEW i \in 1 .. n - 1 PROVE IsDue(r, i)'
    <3>1. i + 1 \in 1 .. n /\ n # 1
      OBVIOUS
    <3>2. IsDue(s, i + 1)
      BY <1>1, <3>1 DEF Owed
    <3>. QED
      BY <1>1, <1>2, <2>4, <3>1, <3>2 DEF IsDue, HasCells
  <2>7. ASSUME NEW p \in Leaves(tree), pty'[p] # Nothing, HasCells(p)', ~Applied(p)'
        PROVE  \E i \in 1 .. n - 1 : r[i].pane = p
    <3>1. p # j
      BY <1>5, <2>7 DEF Applied
    <3>2. ~Applied(p) /\ HasCells(p) /\ pty[p] # Nothing
      BY <1>5, <2>4, <2>7, <3>1 DEF Applied, HasCells
    <3>3. PICK i \in 1 .. n : s[i].pane = p
      BY <1>1, <3>2 DEF Owed
    <3>4. i # 1
      BY <3>1, <3>3
    <3>5. i - 1 \in 1 .. n - 1 /\ r[i - 1] = s[i]
      <4>1. i - 1 \in 1 .. n - 1 /\ (i - 1) + 1 = i
        BY <3>4
      <4>. QED
        BY <1>2, <4>1
    <3>. QED
      BY <3>3, <3>5
  <2>8. Owed(r)'
    BY <1>2, <2>5, <2>6, <2>7 DEF Owed
  <2>. QED
    BY <1>2, <2>8
<1>7. CASE tree = Leaf(j) /\ n = 1
  <2>1. Leaves(tree) = {j} /\ Len(r) = 0
    BY <1>2, <1>7, LeafIsTree
  <2>2. size' = to /\ LayOut(tree, Bounds')[j] = Bounds'
    BY <1>4, <1>7, LoneRoom
  <2>3. Stated(j)'
    BY <1>4, <1>5, <2>2 DEF Stated
  <2>4. Applied(j)'
    BY <1>5 DEF Applied
  <2>5. Owed(r)'
    BY <2>1, <2>3, <2>4 DEF Owed
  <2>. QED
    BY <1>2, <2>5
<1>. QED
  BY <1>3, <1>6, <1>7

\* When no job is left, the panes are what the layout says.
LEMMA NothingLeft ==
    ASSUME NEW r, Len(r) = 0, Owed(r)'
    PROVE  DisplayMatchesLayout'
BY DEF Owed, Stated, Applied, HasCells, DisplayMatchesLayout, InWindow

LEMMA NextKeeps ==
    ASSUME WindowTyped, DisplayInv, NEW c \in Callers, call[c].at \in {"pty", "grid", "record"},
           NextPane(c), SameEnds', NEW r, r = Tail(call[c].todo), call[c].clean => tree' # Nothing /\ Owed(r)'
    PROVE  DisplayInv'
<1>1. call[c] \in Calls /\ call[c].todo \in Seq(Jobs) /\ call[c].todo # <<>>
  BY DEF WindowTyped, Calls
<1>2. ~settled /\ Company
  BY DEF DisplayInv, Company
<1>3. CASE Len(call[c].todo) > 1
  <2>1. PICK x : x = [call[c] EXCEPT !.at = "pty", !.todo = r]
    OBVIOUS
  <2>2. MovesOn(c, x) /\ settled' = settled
    BY <1>3, <2>1, NextPaneMoves DEF WindowTyped
  <2>3. x.at = "pty" /\ x.todo = r /\ x.clean = call[c].clean
    BY <1>1, <2>1 DEF Calls
  <2>4. Company' /\ \A o \in Callers : o # c => ~call'[o].clean
    BY <1>2, <2>2, <2>3, CompanySteps
  <2>5. Begun(x)'
    BY <2>3 DEF Begun
  <2>6. Keeps(c)'
    BY <2>2, <2>3, <2>5, SomethingOwed
  <2>7. DisplayMatchesLayout'
    BY <1>2, <2>2 DEF DisplayMatchesLayout
  <2>. QED
    BY <2>4, <2>6, <2>7, KeptByAll
<1>4. CASE ~(Len(call[c].todo) > 1)
  <2>1. MovesOn(c, Idle) /\ settled' = call[c].clean
    BY <1>4, NextPaneMoves DEF WindowTyped
  <2>2. Company' /\ \A o \in Callers : o # c => ~call'[o].clean
    BY <1>2, <2>1, CompanySteps
  <2>3. Keeps(c)'
    BY <2>1, NothingOwed DEF Idle
  <2>4. Len(r) = 0
    <3>1. PICK s \in Seq(Jobs) : s = call[c].todo
      BY <1>1
    <3>2. Len(s) \in Pos /\ Len(Tail(s)) = Len(s) - 1
      BY <1>1, <3>1, JobsLeft
    <3>3. PICK n \in Pos : n = Len(s) /\ ~(n > 1)
      BY <1>4, <3>1, <3>2
    <3>4. Len(r) = n - 1
      BY <3>1, <3>2, <3>3
    <3>5. n - 1 = 0
      BY <3>3
    <3>. QED
      BY <3>4, <3>5
  <2>5. DisplayMatchesLayout'
    <3>1. CASE settled'
      BY <2>1, <2>4, <3>1, NothingLeft
    <3>2. CASE ~settled'
      BY <3>2 DEF DisplayMatchesLayout
    <3>. QED
      BY <3>1, <3>2
  <2>. QED
    BY <2>2, <2>3, <2>5, KeptByAll
<1>. QED
  BY <1>3, <1>4

LEMMA EarlyKeeps ==
    ASSUME DisplayInv, NEW c \in Callers, NEW x, MovesOn(c, x),
           x.at \in {"spawn", "unregister", "reflow", "select"},
           x.clean => Alone(c), settled' = FALSE, \A o \in Callers \ {c} : call'[o].clean = FALSE, SameEnds'
    PROVE  DisplayInv'
<1>1. \A o \in Callers : o # c => ~call'[o].clean
  OBVIOUS
<1>2. Company'
  BY <1>1, CompanyBegins
<1>3. Keeps(c)'
  BY NothingOwed
<1>4. DisplayMatchesLayout'
  BY DEF DisplayMatchesLayout
<1>. QED
  BY <1>1, <1>2, <1>3, <1>4, KeptByAll

LEMMA EndsStay == ASSUME SameEnds, UNCHANGED <<pty, grid>> PROVE SameEnds'
BY DEF SameEnds

LEMMA DisplayOfCalls ==
    ASSUME WindowTyped, Lone, DisplayInv, NEW c \in Callers, Call(c)
    PROVE  DisplayInv'
<1>0. SameEnds
  BY DEF DisplayInv
<1>1. CASE SplitPane(c)
  <2>1. PICK new \in Panes \ minted : Begin(c, "spawn", new, <<>>, TRUE) /\ UNCHANGED <<size, pty, grid>>
    BY <1>1, SplitPaneMakes
  <2>2. PICK x : x = [at |-> "spawn", pane |-> new, todo |-> <<>>, clean |-> TRUE /\ Alone(c)]
    OBVIOUS
  <2>3. MovesOn(c, x) /\ settled' = FALSE /\ \A o \in Callers \ {c} : call'[o].clean = FALSE
    BY <2>1, <2>2, BeginStaysTyped
  <2>. QED
    BY <1>0, <2>1, <2>2, <2>3, EarlyKeeps, EndsStay
<1>2. CASE KillPane(c)
  <2>1. PICK p \in Panes : /\ Begin(c, "unregister", p, <<>>, TRUE)
                           /\ pty' = [pty EXCEPT ![p] = Nothing] /\ grid' = [grid EXCEPT ![p] = Nothing]
    BY <1>2, KillPaneMakes
  <2>2. PICK x : x = [at |-> "unregister", pane |-> p, todo |-> <<>>, clean |-> TRUE /\ Alone(c)]
    OBVIOUS
  <2>3. MovesOn(c, x) /\ settled' = FALSE /\ \A o \in Callers \ {c} : call'[o].clean = FALSE
    BY <2>1, <2>2, BeginStaysTyped
  <2>4. SameEnds'
    BY <1>0, <2>1 DEF SameEnds, WindowTyped, EndSizes
  <2>. QED
    BY <2>2, <2>3, <2>4, EarlyKeeps
<1>3. CASE ResizePane(c)
  <2>1. PICK p \in Panes : Begin(c, "reflow", p, <<>>, TRUE) /\ UNCHANGED <<size, focus, minted, rec, pty, grid>>
    BY <1>3, ResizePaneMakes
  <2>2. PICK x : x = [at |-> "reflow", pane |-> p, todo |-> <<>>, clean |-> TRUE /\ Alone(c)]
    OBVIOUS
  <2>3. MovesOn(c, x) /\ settled' = FALSE /\ \A o \in Callers \ {c} : call'[o].clean = FALSE
    BY <2>1, <2>2, BeginStaysTyped
  <2>. QED
    BY <1>0, <2>1, <2>2, <2>3, EarlyKeeps, EndsStay
<1>4. CASE ApplyLayout(c)
  <2>1. Begin(c, "reflow", Nothing, <<>>, TRUE) /\ UNCHANGED <<size, focus, minted, rec, pty, grid>>
    BY <1>4, ApplyLayoutMakes
  <2>2. PICK x : x = [at |-> "reflow", pane |-> Nothing, todo |-> <<>>, clean |-> TRUE /\ Alone(c)]
    OBVIOUS
  <2>3. MovesOn(c, x) /\ settled' = FALSE /\ \A o \in Callers \ {c} : call'[o].clean = FALSE
    BY <2>1, <2>2, BeginStaysTyped
  <2>. QED
    BY <1>0, <2>1, <2>2, <2>3, EarlyKeeps, EndsStay
<1>5. CASE ResizeAbsolute(c)
  <2>1. PICK p \in Panes, s \in CellSizes :
             /\ tree # Nothing /\ p \in Leaves(tree) /\ pty[p] # Nothing
             /\ MovesOn(c, [at |-> "pty", pane |-> Nothing, todo |-> << [pane |-> p, to |-> s] >>,
                          clean |-> tree = Leaf(p) /\ Alone(c)])
             /\ settled' = FALSE /\ \A o \in Callers \ {c} : call'[o].clean = FALSE
             /\ UNCHANGED <<records, pty, grid>>
    BY <1>5, AbsoluteBegins
  <2>2. PICK j : j = [pane |-> p, to |-> s]
    OBVIOUS
  <2>3. PICK todo : todo = <<j>>
    OBVIOUS
  <2>4. PICK x : x = [at |-> "pty", pane |-> Nothing, todo |-> todo, clean |-> tree = Leaf(p) /\ Alone(c)]
    OBVIOUS
  <2>5. MovesOn(c, x)
    BY <2>1, <2>2, <2>3, <2>4
  <2>6. \A o \in Callers : o # c => ~call'[o].clean
    BY <2>1
  <2>7. Company'
    BY <2>1, <2>4, <2>5, <2>6, CompanyBegins
  <2>8. Len(todo) = 1 /\ todo[1].pane = p
    BY <2>2, <2>3
  <2>9. ASSUME tree = Leaf(p), Alone(c) PROVE Owed(todo)
    <3>1. Leaves(tree) = {p}
      BY <2>9, LeafIsTree
    <3>2. HasCells(p)
      BY <2>9, LoneSize DEF HasCells
    <3>6. Stated(p)
      <4>1. \A o \in Callers : call[o].at # "reflow"
        BY <2>1, <2>9, AbsoluteBegins, <1>5 DEF Alone, At
      <4>2. rec[p] = size
        BY <2>1, <2>9, <4>1 DEF Lone
      <4>. QED
        BY <2>9, <4>2, LoneSize DEF Stated
    <3>3. \A i \in 1 .. Len(todo) : i = 1
      BY <2>8
    <3>4. \A i \in 1 .. Len(todo) : IsDue(todo, i)
      BY <2>8, <2>9, <3>1, <3>2, <3>3 DEF IsDue
    <3>5. 1 \in 1 .. Len(todo) /\ Len(todo) > 0
      BY <2>8
    <3>. QED
      BY <2>1, <2>8, <2>9, <3>1, <3>4, <3>5, <3>6 DEF Owed
  <2>10. x.clean => tree' # Nothing /\ Owed(x.todo)' /\ Begun(x)'
    <3>1. SUFFICES ASSUME tree = Leaf(p), Alone(c) PROVE tree' # Nothing /\ Owed(todo)' /\ Begun(x)'
      BY <2>4
    <3>2. Owed(todo)
      BY <2>9, <3>1
    <3>3. UNCHANGED <<tree, size, rec, pty, grid, unsized>>
      BY <1>5, <2>1 DEF records, ResizeAbsolute, Begin
    <3>4. Owed(todo)'
      BY <3>2, <3>3, OwedStays
    <3>5. Begun(x)'
      BY <2>4 DEF Begun
    <3>. QED
      BY <2>1, <3>3, <3>4, <3>5
  <2>11. Keeps(c)'
    BY <2>5, <2>10, SomethingOwed
  <2>12. DisplayMatchesLayout' /\ SameEnds'
    BY <1>0, <2>1, EndsStay DEF DisplayMatchesLayout
  <2>. QED
    BY <2>6, <2>7, <2>11, <2>12, KeptByAll
<1>6. CASE SelectPane(c)
  <2>1. PICK p \in InWindow : Begin(c, "select", p, <<>>, FALSE)
    BY <1>6 DEF SelectPane
  <2>2. p \in Panes /\ UNCHANGED <<records, pty, grid>>
    BY <1>6, <2>1 DEF SelectPane, InWindow, WindowTyped
  <2>3. PICK x : x = [at |-> "select", pane |-> p, todo |-> <<>>, clean |-> FALSE /\ Alone(c)]
    OBVIOUS
  <2>4. MovesOn(c, x) /\ settled' = FALSE /\ \A o \in Callers \ {c} : call'[o].clean = FALSE
    BY <2>1, <2>2, <2>3, BeginStaysTyped
  <2>. QED
    BY <1>0, <2>2, <2>3, <2>4, EarlyKeeps, EndsStay
<1>. QED
  BY <1>1, <1>2, <1>3, <1>4, <1>5, <1>6 DEF Call

\* A call goes on, or gives up.
LEMMA EarlySteps ==
    ASSUME WindowTyped, DisplayInv, NEW c \in Callers, call[c].at # "idle", NEW x, MovesOn(c, x),
           \/ x.at = "reflow" /\ x.clean = call[c].clean /\ settled' = settled
           \/ x = Idle /\ settled' = FALSE,
           SameEnds'
    PROVE  DisplayInv'
<1>1. Company' /\ \A o \in Callers : o # c => ~call'[o].clean
  BY CompanySteps DEF DisplayInv
<1>2. Keeps(c)'
  BY NothingOwed DEF Idle
<1>3. ~settled'
  BY DEF DisplayInv, Company
<1>4. DisplayMatchesLayout'
  BY <1>3 DEF DisplayMatchesLayout
<1>. QED
  BY <1>1, <1>2, <1>4, KeptByAll

LEMMA GivesUp ==
    ASSUME WindowTyped, DisplayInv, NEW c \in Callers, call[c].at # "idle", Finish(c, FALSE), SameEnds'
    PROVE  DisplayInv'
<1>1. MovesOn(c, Idle) /\ settled' = FALSE
  BY FinishMoves DEF WindowTyped
<1>. QED
  BY <1>1, EarlySteps

LEMMA Reflows ==
    ASSUME WindowTyped, DisplayInv, NEW c \in Callers, call[c].at # "idle", Go(c, "reflow"), SameEnds'
    PROVE  DisplayInv'
<1>1. PICK x : x = [call[c] EXCEPT !.at = "reflow"]
  OBVIOUS
<1>2. MovesOn(c, x) /\ settled' = settled
  BY <1>1, GoStaysTyped
<1>3. call[c] \in Calls
  BY DEF WindowTyped
<1>4. x.at = "reflow" /\ x.clean = call[c].clean
  BY <1>1, <1>3 DEF Calls
<1>. QED
  BY <1>2, <1>4, EarlySteps

LEMMA DisplayOfCompute ==
    ASSUME WindowTyped, DisplayInv, NEW c \in Callers, Compute(c)
    PROVE  DisplayInv'
<1>0. SameEnds' /\ call[c].at = "reflow"
  BY EndsStay DEF DisplayInv, Compute, At
<1>1. CASE tree = Nothing
  BY <1>0, <1>1, GivesUp DEF Compute
<1>2. CASE tree # Nothing
  <2>1. PICK todo : todo = Todo(tree, Bounds)
    OBVIOUS
  <2>2. PICK x : x = [call[c] EXCEPT !.at = "pty", !.todo = todo]
    OBVIOUS
  <2>3. /\ IsTodo(todo, tree, Bounds) /\ MovesOn(c, x)
        /\ rec' = [p \in Panes |-> IF p \in Leaves(tree) THEN AtLeastOne(LayOut(tree, Bounds)[p]) ELSE rec[p]]
    BY <1>2, <2>1, <2>2, ComputeIs
  <2>4. UNCHANGED <<tree, size, pty, grid, settled>>
    BY <1>2 DEF Compute
  <2>5. call[c] \in Calls
    BY DEF WindowTyped
  <2>6. x.at = "pty" /\ x.todo = todo /\ x.clean = call[c].clean
    BY <2>2, <2>5 DEF Calls
  <2>7. Company' /\ \A o \in Callers : o # c => ~call'[o].clean
    BY <1>0, <2>3, <2>4, <2>6, CompanySteps DEF DisplayInv
  <2>8. Bounds' = Bounds /\ Leaves(tree) \subseteq Panes
    BY <1>2, <2>4 DEF Bounds, WindowTyped
  <2>9. ASSUME NEW p \in Leaves(tree) PROVE Stated(p)'
    BY <2>3, <2>4, <2>8 DEF Stated
  <2>10. ASSUME NEW i \in 1 .. Len(todo) PROVE IsDue(todo, i)'
    BY <2>3, <2>4, <2>8 DEF IsTodo, IsDue, HasCells
  <2>11. ASSUME NEW p \in Leaves(tree), HasCells(p)' PROVE \E i \in 1 .. Len(todo) : todo[i].pane = p
    BY <2>3, <2>4, <2>8, <2>11 DEF IsTodo, HasCells
  <2>12. Owed(todo)'
    BY <2>4, <2>9, <2>10, <2>11 DEF Owed
  <2>13. Begun(x)'
    BY <2>6 DEF Begun
  <2>14. Keeps(c)'
    BY <1>2, <2>3, <2>4, <2>6, <2>12, <2>13, SomethingOwed
  <2>15. ~settled'
    BY <1>0, <2>4 DEF DisplayInv, Company
  <2>. QED
    BY <1>0, <2>7, <2>14, <2>15, KeptByAll DEF DisplayMatchesLayout
<1>. QED
  BY <1>1, <1>2

\* A call goes on with the job that it has begun.
LEMMA JobSteps ==
    ASSUME WindowTyped, DisplayInv, NEW c \in Callers, call[c].at \in {"pty", "grid"},
           NEW phase \in {"grid", "record"}, Go(c, phase), SameEnds',
           call[c].clean => /\ tree' # Nothing /\ Owed(call[c].todo)
                            /\ UNCHANGED <<tree, size, rec>>
                            /\ \A p \in Panes : p # Job(c).pane => UNCHANGED <<pty[p], grid[p]>>
                            /\ \A p \in Panes : p # Job(c).pane /\ p \in unsized => p \in unsized'
                            /\ Job(c).pane \notin unsized' =>
                                 /\ pty'[Job(c).pane] = Job(c).to
                                 /\ phase = "record" => grid'[Job(c).pane] = Job(c).to
    PROVE  DisplayInv'
<1>1. PICK x : x = [call[c] EXCEPT !.at = phase]
  OBVIOUS
<1>2. MovesOn(c, x) /\ settled' = settled
  BY <1>1, GoStaysTyped
<1>3. call[c] \in Calls
  BY DEF WindowTyped
<1>4. PICK s \in Seq(Jobs) : s = call[c].todo /\ s # <<>> /\ Job(c) = s[1] /\ s[1] \in Jobs
  BY JobIsJob
<1>5. x.at = phase /\ x.clean = call[c].clean /\ x.todo = s
  BY <1>1, <1>3, <1>4 DEF Calls
<1>6. Company' /\ \A o \in Callers : o # c => ~call'[o].clean
  BY <1>2, <1>5, CompanySteps DEF DisplayInv
<1>7. ASSUME call[c].clean PROVE tree' # Nothing /\ Owed(s)' /\ Begun(x)'
  <2>1. /\ tree' # Nothing /\ Owed(s) /\ UNCHANGED <<tree, size, rec>>
        /\ \A p \in Panes : p # s[1].pane => UNCHANGED <<pty[p], grid[p]>>
        /\ \A p \in Panes : p # s[1].pane /\ p \in unsized => p \in unsized'
        /\ s[1].pane \notin unsized' =>
             pty'[s[1].pane] = s[1].to /\ (phase = "record" => grid'[s[1].pane] = s[1].to)
    BY <1>4, <1>7
  <2>2. Begun(x)'
    BY <1>5, <2>1 DEF Begun
  <2>3. Bounds' = Bounds /\ Leaves(tree) \subseteq Panes
    BY <2>1 DEF Bounds, WindowTyped
  <2>4. PICK n \in Nat : n = Len(s) /\ n > 0
    BY <1>4, JobsLeft
  <2>6. ASSUME NEW p \in Leaves(tree) PROVE Stated(p)'
    BY <2>1, <2>3 DEF Owed, Stated
  <2>7. ASSUME NEW i \in 1 .. n PROVE IsDue(s, i)'
    <3>1. IsDue(s, i)
      BY <2>1, <2>4 DEF Owed
    <3>. QED
      BY <2>1, <2>3, <3>1 DEF IsDue, HasCells
  <2>8. ASSUME NEW p \in Leaves(tree), pty'[p] # Nothing, HasCells(p)', ~Applied(p)'
        PROVE  \E i \in 1 .. n : s[i].pane = p
    <3>1. CASE p = s[1].pane
      BY <2>4, <3>1
    <3>2. CASE p # s[1].pane
      <4>1. pty[p] # Nothing /\ HasCells(p) /\ ~Applied(p)
        BY <2>1, <2>3, <2>8, <3>2 DEF HasCells, Applied
      <4>. QED
        BY <2>1, <2>4, <4>1 DEF Owed
    <3>. QED
      BY <3>1, <3>2
  <2>9. Owed(s)'
    BY <2>1, <2>4, <2>6, <2>7, <2>8 DEF Owed
  <2>. QED
    BY <2>1, <2>2, <2>9
<1>8. Keeps(c)'
  BY <1>2, <1>5, <1>7, SomethingOwed
<1>9. ~settled'
  BY <1>2 DEF DisplayInv, Company
<1>. QED
  BY <1>6, <1>8, <1>9, KeptByAll DEF DisplayMatchesLayout

LEMMA DisplayOfStages ==
    ASSUME WindowTyped, DisplayInv, NEW c \in Callers, Stage(c)
    PROVE  DisplayInv'
<1>0. SameEnds /\ Keeps(c) /\ WindowTyped'
  BY TypedStages DEF DisplayInv
<1>1. CASE SpawnShell(c)
  <2>1. call[c].at = "spawn" /\ Go(c, "reflow")
    BY <1>1 DEF SpawnShell, At
  <2>2. SameEnds'
    <3>1. Placeholder # Nothing
      BY ExtentIsSize, WindowAssumption
    <3>. QED
      BY <1>0, <1>1, <3>1 DEF SpawnShell, SameEnds, WindowTyped, EndSizes
  <2>. QED
    BY <2>1, <2>2, Reflows
<1>2. CASE SpawnFails(c)
  BY <1>0, <1>2, EndsStay, GivesUp DEF SpawnFails, At
<1>3. CASE Unregister(c)
  <2>1. call[c].at = "unregister" /\ SameEnds'
    BY <1>0, <1>3, EndsStay DEF Unregister, At
  <2>2. Finish(c, FALSE) \/ Go(c, "reflow")
    BY <1>3 DEF Unregister
  <2>. QED
    BY <2>1, <2>2, GivesUp, Reflows
<1>4. CASE Select(c)
  BY <1>0, <1>4, EndsStay, GivesUp DEF Select, At
<1>5. CASE Compute(c)
  BY <1>5, DisplayOfCompute
<1>6. ASSUME call[c].at \in {"pty", "grid", "record"}, NEW s, s = call[c].todo
      PROVE  /\ s \in Seq(Jobs) /\ s # <<>> /\ Job(c) = s[1] /\ s[1].pane \in Panes /\ s[1].to \in CellSizes
             /\ s[1].to # Nothing
             /\ call[c].clean => /\ tree # Nothing /\ Owed(s) /\ Begun(call[c]) /\ s[1].pane \in Leaves(tree)
  <2>1. /\ s \in Seq(Jobs) /\ s # <<>> /\ Job(c) = s[1] /\ s[1].pane \in Panes /\ s[1].to \in CellSizes
    BY <1>6, JobIsJob
  <2>2. s[1].to # Nothing
    BY <2>1, WindowAssumption
  <2>3. ASSUME call[c].clean PROVE tree # Nothing /\ Owed(s) /\ Begun(call[c])
    BY <1>0, <1>6, <2>3 DEF Keeps
  <2>4. 1 \in 1 .. Len(s)
    BY <2>1, JobsLeft
  <2>5. ASSUME call[c].clean PROVE s[1].pane \in Leaves(tree)
    BY <2>3, <2>4, <2>5 DEF Owed, IsDue
  <2>. QED
    BY <2>1, <2>2, <2>3, <2>5
<1>7. CASE ResizePty(c)
  <2>1. PICK s : s = call[c].todo
    OBVIOUS
  <2>2. call[c].at = "pty" /\ UNCHANGED <<records, grid>>
    BY <1>7 DEF ResizePty, At
  <2>3. /\ s \in Seq(Jobs) /\ s # <<>> /\ Job(c) = s[1] /\ s[1].pane \in Panes /\ s[1].to \in CellSizes
        /\ s[1].to # Nothing
        /\ call[c].clean => tree # Nothing /\ Owed(s)
    BY <1>6, <2>1, <2>2
  <2>4. CASE NoPty(c) \/ ResizeFails(c)
    <3>1. /\ NextPane(c) \/ (Go(c, "grid") /\ s[1].pane \in unsized')
          /\ UNCHANGED <<tree, size, rec, pty, grid>>
          /\ unsized \subseteq unsized' /\ (pty[s[1].pane] = Nothing \/ s[1].pane \in unsized')
      BY <2>2, <2>3, <2>4 DEF NoPty, ResizeFails, records
    <3>2. PICK r : r = Tail(s)
      OBVIOUS
    <3>3. ASSUME call[c].clean PROVE tree' # Nothing /\ Owed(r)'
      <4>1. Owed(r)'
        BY <2>3, <3>1, <3>2, <3>3, PassedOver
      <4>. QED
        BY <2>3, <3>1, <3>3, <4>1
    <3>4. SameEnds'
      BY <1>0, <3>1, EndsStay
    <3>5. CASE NextPane(c)
      BY <2>1, <2>2, <3>2, <3>3, <3>4, <3>5, NextKeeps
    <3>6. CASE Go(c, "grid") /\ s[1].pane \in unsized'
      BY <2>1, <2>2, <2>3, <3>1, <3>4, <3>6, JobSteps
    <3>. QED
      BY <3>1, <3>5, <3>6
  <2>5. CASE PtyResizes(c)
    <3>1. /\ pty' = [pty EXCEPT ![s[1].pane] = s[1].to] /\ Go(c, "grid")
          /\ pty[s[1].pane] # Nothing /\ unsized' = unsized \ {s[1].pane}
      BY <2>3, <2>5 DEF PtyResizes
    <3>2. /\ pty'[s[1].pane] = s[1].to
          /\ \A p \in Panes : p # s[1].pane => pty'[p] = pty[p] /\ grid'[p] = grid[p]
      BY <2>2, <2>3, <3>1 DEF WindowTyped, EndSizes
    <3>3. SameEnds'
      BY <1>0, <2>2, <2>3, <3>1, <3>2 DEF SameEnds
    <3>4. UNCHANGED <<tree, size, rec>>
      BY <2>2 DEF records
    <3>. QED
      BY <2>1, <2>2, <2>3, <3>1, <3>2, <3>3, <3>4, JobSteps
  <2>. QED
    BY <1>7, <2>4, <2>5 DEF ResizePty
<1>8. CASE ResizeGrid(c)
  <2>1. PICK s : s = call[c].todo
    OBVIOUS
  <2>2. call[c].at = "grid" /\ Go(c, "record") /\ UNCHANGED <<tree, size, rec, pty, unsized>>
    BY <1>8 DEF ResizeGrid, At, records
  <2>3. /\ s \in Seq(Jobs) /\ s # <<>> /\ Job(c) = s[1] /\ s[1].pane \in Panes /\ s[1].to \in CellSizes
        /\ s[1].to # Nothing
        /\ call[c].clean => tree # Nothing /\ Owed(s) /\ Begun(call[c])
    BY <1>6, <2>1, <2>2
  <2>4. grid' = IF grid[s[1].pane] = Nothing THEN grid ELSE [grid EXCEPT ![s[1].pane] = s[1].to]
    BY <1>8, <2>3 DEF ResizeGrid, ResizedGrid
  <2>5. /\ \A p \in Panes : p # s[1].pane => pty'[p] = pty[p] /\ grid'[p] = grid[p]
        /\ grid'[s[1].pane] = IF grid[s[1].pane] = Nothing THEN Nothing ELSE s[1].to
    BY <2>2, <2>3, <2>4 DEF WindowTyped, EndSizes
  <2>6. SameEnds'
    BY <1>0, <2>2, <2>3, <2>5 DEF SameEnds
  <2>7. ASSUME call[c].clean, s[1].pane \notin unsized
        PROVE  pty'[s[1].pane] = s[1].to /\ grid'[s[1].pane] = s[1].to
    <3>1. pty[s[1].pane] = s[1].to
      BY <2>1, <2>2, <2>3, <2>7 DEF Begun
    <3>2. grid[s[1].pane] # Nothing
      BY <1>0, <2>3, <3>1 DEF SameEnds
    <3>. QED
      BY <2>2, <2>3, <2>5, <3>1, <3>2
  <2>. QED
    BY <2>1, <2>2, <2>3, <2>5, <2>6, <2>7, JobSteps
<1>9. CASE Record(c)
  <2>1. PICK s : s = call[c].todo
    OBVIOUS
  <2>2. call[c].at = "record" /\ NextPane(c) /\ UNCHANGED <<tree, pty, grid>>
    BY <1>9 DEF Record, At
  <2>7. unsized' = unsized
    BY <1>9 DEF Record
  <2>3. /\ s \in Seq(Jobs) /\ s # <<>> /\ Job(c) = s[1] /\ s[1].pane \in Panes /\ s[1].to \in CellSizes
        /\ call[c].clean => tree # Nothing /\ Owed(s) /\ Begun(call[c]) /\ s[1].pane \in Leaves(tree)
    BY <1>6, <2>1, <2>2
  <2>4. PICK r : r = Tail(s)
    OBVIOUS
  <2>5. ASSUME call[c].clean PROVE tree' # Nothing /\ Owed(r)'
    <3>1. PICK j \in Panes : j = s[1].pane
      BY <2>3
    <3>5. PICK to : to = AtLeastOne(s[1].to)
      OBVIOUS
    <3>2. tree # Nothing /\ Owed(s) /\ j \in InWindow
      BY <2>3, <2>5, <3>1 DEF InWindow
    <3>3. j \notin unsized => pty[j] = s[1].to /\ grid[j] = s[1].to
      BY <2>1, <2>2, <2>3, <2>5, <3>1 DEF Begun
    <3>4. rec' = [rec EXCEPT ![j] = to] /\ size' = IF tree = Leaf(j) THEN to ELSE size
      BY <1>9, <2>3, <3>1, <3>2, <3>5 DEF Record
    <3>. QED
      BY <1>0, <2>2, <2>3, <2>4, <2>7, <3>1, <3>2, <3>3, <3>4, <3>5, JobDone
  <2>6. SameEnds'
    BY <1>0, <2>2, EndsStay
  <2>. QED
    BY <2>1, <2>2, <2>4, <2>5, <2>6, NextKeeps
<1>. QED
  BY <1>1, <1>2, <1>3, <1>4, <1>5, <1>7, <1>8, <1>9 DEF Stage

LEMMA LoneIsStated == WindowSpec => []Lone
<1>1. WindowInit => Lone
  <2>1. SUFFICES ASSUME WindowInit, NEW p \in Panes, tree = Leaf(p) PROVE rec[p] = size
    BY DEF Lone
  <2>. QED
    <3>1. p = Seed
      BY <2>1, LeafIsTree DEF WindowInit
    <3>. QED
      BY <2>1, <3>1, WindowAssumption DEF WindowInit
<1>2. ASSUME WindowTyped, WindowTyped', Lone, [WindowNext]_windowVars PROVE Lone'
  <2>1. CASE UNCHANGED windowVars
    BY <1>2, <2>1 DEF Lone, windowVars, records
  <2>. QED
    BY <1>2, <2>1, LoneKept DEF WindowNext
<1>. QED
  BY <1>1, <1>2, WindowIsTyped, PTL DEF WindowSpec

\* After a call that nobody disturbed the records, the ptys and the grids have the
\* sizes of the layout, whatever the calls before it left (apply_layout_geometry),
\* but of a pane whose pty did not get its size, and where one cell stands for none.
THEOREM DisplayIsTheLayout == WindowSpec => []DisplayMatchesLayout
<1>1. WindowInit => DisplayInv
  <2>1. SUFFICES ASSUME WindowInit PROVE DisplayInv
    OBVIOUS
  <2>2. Company /\ \A c \in Callers : Keeps(c)
    BY <2>1 DEF WindowInit, Company, Keeps, Idle
  <2>3. SameEnds
    BY <2>1, WindowAssumption DEF WindowInit, SameEnds
  <2>4. DisplayMatchesLayout
    <3>1. WindowTyped
      BY <2>1, TypedAtFirst
    <3>3. AtLeastOne(LayOut(tree, Bounds)[Seed]) = size /\ InWindow \subseteq {Seed}
      BY <2>1, <3>1, LoneSize DEF WindowInit, InWindow
    <3>4. rec[Seed] = size /\ pty = rec /\ grid = rec /\ AtLeastOne(size) = size
      BY <2>1, ExtentIsSize, WindowAssumption DEF WindowInit
    <3>. QED
      BY <3>3, <3>4 DEF DisplayMatchesLayout
  <2>. QED
    BY <2>2, <2>3, <2>4 DEF DisplayInv
<1>2. ASSUME WindowTyped, Lone, DisplayInv, [WindowNext]_windowVars PROVE DisplayInv'
  <2>1. CASE UNCHANGED windowVars
    <3>1. UNCHANGED <<tree, size, rec, pty, grid, call, settled, unsized>>
      BY <2>1 DEF windowVars, records, history
    <3>2. Company' /\ SameEnds' /\ DisplayMatchesLayout'
      BY <1>2, <3>1, EndsStay DEF DisplayInv, Company, DisplayMatchesLayout, Bounds, InWindow
    <3>3. ASSUME NEW c \in Callers PROVE Keeps(c)'
      <4>1. PICK x : x = call[c]
        OBVIOUS
      <4>2. Keeps(c)
        BY <1>2 DEF DisplayInv
      <4>3. x.clean /\ x.at \in {"pty", "grid", "record"} => tree' # Nothing /\ Owed(x.todo)' /\ Begun(x)'
        BY <3>1, <4>1, <4>2, OwedStays DEF Keeps, Begun
      <4>. QED
        BY <3>1, <4>1, <4>3 DEF Keeps
    <3>. QED
      BY <3>2, <3>3 DEF DisplayInv
  <2>2. CASE WindowNext
    BY <1>2, <2>2, DisplayOfCalls, DisplayOfStages DEF WindowNext
  <2>. QED
    BY <1>2, <2>1, <2>2
<1>3. DisplayInv => DisplayMatchesLayout
  BY DEF DisplayInv
<1>. QED
  BY <1>1, <1>2, <1>3, WindowIsTyped, LoneIsStated, PTL DEF WindowSpec
---------------------------------------------
(* Who gains and who loses room.                                           *)

LEMMA DividesUp ==
    ASSUME NEW v \in Int, NEW u \in Int, NEW m \in Nat, v <= u, u <= v + 120 * m
    PROVE  v \div 120 <= u \div 120 /\ u \div 120 <= v \div 120 + m
<1>1. PICK a \in Int : a = v \div 120
  OBVIOUS
<1>2. PICK b \in Int : b = u \div 120
  OBVIOUS
<1>3. 120 * a <= v /\ v < 120 * a + 120
  BY <1>1
<1>4. 120 * b <= u /\ u < 120 * b + 120
  BY <1>2
<1>5. a <= b
  BY <1>3, <1>4
<1>6. b <= a + m
  BY <1>3, <1>4
<1>. QED
  BY <1>1, <1>2, <1>5, <1>6

\* The cells before a divider, when every side of it has one.
Rounded(total, ratio) == (2 * total * ratio + Whole) \div (2 * Whole)

LEMMA ExtentIs ==
    ASSUME NEW total \in Nat, NEW ratio \in Int
    PROVE  SplitExtent(total, ratio) = IF total <= 1 THEN total ELSE Clamp(1, Rounded(total, ratio), total - 1)
BY DEF SplitExtent, Rounded

\* Where there is more to share neither side gets less ...
LEMMA CellsGrow ==
    ASSUME NEW t \in Nat, NEW u \in Nat, t <= u, NEW ratio \in 0 .. 60
    PROVE  /\ Rounded(t, ratio) \in Int /\ Rounded(u, ratio) \in Int
           /\ Rounded(t, ratio) <= Rounded(u, ratio) /\ Rounded(u, ratio) <= Rounded(t, ratio) + (u - t)
<1>1. PICK m \in Nat : m = u - t
  OBVIOUS
<1>2. PICK x \in Int : x = t * ratio
  OBVIOUS
<1>3. PICK y \in Int : y = m * ratio
  OBVIOUS
<1>4. 0 <= y /\ y <= 60 * m
  BY <1>3
<1>5. u * ratio = x + y
  BY <1>1, <1>2, <1>3
<1>6. 2 * t * ratio = 2 * x /\ 2 * u * ratio = 2 * x + 2 * y
  BY <1>2, <1>5
<1>7. PICK v \in Int : v = 2 * x + 60
  OBVIOUS
<1>8. PICK w \in Int : w = 2 * x + 2 * y + 60
  OBVIOUS
<1>9. v <= w /\ w <= v + 120 * m
  BY <1>4, <1>7, <1>8
<1>10. Rounded(t, ratio) = v \div 120 /\ Rounded(u, ratio) = w \div 120
  BY <1>6, <1>7, <1>8 DEF Rounded, Whole
<1>11. v \div 120 <= w \div 120 /\ w \div 120 <= v \div 120 + m
  BY <1>9, DividesUp
<1>. QED
  BY <1>1, <1>10, <1>11

LEMMA ExtentGrows ==
    ASSUME NEW t \in Nat, NEW u \in Nat, t <= u, NEW ratio \in 0 .. 60
    PROVE  /\ SplitExtent(t, ratio) <= SplitExtent(u, ratio)
           /\ t - SplitExtent(t, ratio) <= u - SplitExtent(u, ratio)
<1>1. PICK x \in Int : x = Rounded(t, ratio)
  BY CellsGrow
<1>2. PICK y \in Int : y = Rounded(u, ratio)
  BY CellsGrow
<1>3. x <= y /\ y <= x + (u - t)
  BY <1>1, <1>2, CellsGrow
<1>4. /\ SplitExtent(t, ratio) = IF t <= 1 THEN t ELSE Clamp(1, x, t - 1)
      /\ SplitExtent(u, ratio) = IF u <= 1 THEN u ELSE Clamp(1, y, u - 1)
  BY <1>1, <1>2, ExtentIs
<1>5. CASE t <= 1 /\ u <= 1
  BY <1>4, <1>5
<1>6. CASE t <= 1 /\ u > 1
  BY <1>4, <1>6 DEF Clamp
<1>7. CASE t > 1 /\ u > 1
  BY <1>3, <1>4, <1>7 DEF Clamp
<1>. QED
  BY <1>5, <1>6, <1>7

\* ... and where the divider moves on, the side before it.
LEMMA RatioGrows ==
    ASSUME NEW t \in Nat, NEW ratio \in Int, NEW more \in Int, ratio <= more
    PROVE  SplitExtent(t, ratio) <= SplitExtent(t, more)
<1>1. PICK n \in Nat : n = more - ratio
  OBVIOUS
<1>2. PICK x \in Int : x = t * ratio
  OBVIOUS
<1>3. PICK y \in Nat : y = t * n
  OBVIOUS
<1>4. t * more = x + y
  BY <1>1, <1>2, <1>3
<1>5. 2 * t * ratio = 2 * x /\ 2 * t * more = 2 * x + 2 * y
  BY <1>2, <1>4
<1>6. PICK v \in Int : v = 2 * x + 60
  OBVIOUS
<1>7. PICK w \in Int : w = 2 * x + 2 * y + 60
  OBVIOUS
<1>8. Rounded(t, ratio) = v \div 120 /\ Rounded(t, more) = w \div 120
  BY <1>5, <1>6, <1>7 DEF Rounded, Whole
<1>9. v <= w /\ w <= v + 120 * y
  BY <1>6, <1>7
<1>10. v \div 120 <= w \div 120
  BY <1>9, DividesUp
<1>11. PICK a \in Int : a = v \div 120
  OBVIOUS
<1>12. PICK b \in Int : b = w \div 120
  OBVIOUS
<1>13. /\ SplitExtent(t, ratio) = IF t <= 1 THEN t ELSE Clamp(1, a, t - 1)
       /\ SplitExtent(t, more) = IF t <= 1 THEN t ELSE Clamp(1, b, t - 1)
  BY <1>8, <1>11, <1>12, ExtentIs
<1>. QED
  BY <1>10, <1>11, <1>12, <1>13 DEF Clamp

\* What is entered is no larger, and larger where there is more to enter.
LEMMA EnterShrinks ==
    ASSUME NEW r \in Rects, NEW s \in Steps PROVE Within(Enter(r, s), r)
<1>1. PICK a \in Int : a = Share(r, s) /\ EntersAs(Enter(r, s), r, s, a)
  <2>1. EntersAs(Enter(r, s), r, s, Share(r, s))
    BY EnterIs
  <2>2. r.w \in Nat /\ r.h \in Nat
    BY DEF Rects
  <2>3. Share(r, s) \in Int
    BY <2>1, <2>2 DEF EntersAs
  <2>. QED
    BY <2>1, <2>3
<1>2. r.w \in Nat /\ r.h \in Nat /\ a >= 0 /\ a <= IF s.orientation = "vertical" THEN r.w ELSE r.h
  BY <1>1 DEF Rects, EntersAs
<1>. QED
  BY <1>1, <1>2 DEF EntersAs, Within, Rects

EnterSize(e, r, s, a) ==
    /\ e.w = IF s.orientation # "vertical" THEN r.w ELSE IF s.side = "a" THEN a ELSE r.w - a
    /\ e.h = IF s.orientation = "vertical" THEN r.h ELSE IF s.side = "a" THEN a ELSE r.h - a

LEMMA EnterSizes ==
    ASSUME NEW r \in Rects, NEW s \in Steps
    PROVE  EnterSize(Enter(r, s), r, s, Share(r, s)) /\ Share(r, s) \in Nat
<1>1. EntersAs(Enter(r, s), r, s, Share(r, s))
  BY EnterIs
<1>2. r.w \in Nat /\ r.h \in Nat
  BY DEF Rects
<1>. QED
  BY <1>1, <1>2 DEF EntersAs, EnterSize, Rects

LEMMA EnterGrows ==
    ASSUME NEW r \in Rects, NEW q \in Rects, Within(r, q), NEW s \in Steps
    PROVE  Within(Enter(r, s), Enter(q, s))
<1>1. PICK a \in Nat : a = Share(r, s) /\ EnterSize(Enter(r, s), r, s, a)
  BY EnterSizes
<1>2. PICK b \in Nat : b = Share(q, s) /\ EnterSize(Enter(q, s), q, s, b)
  BY EnterSizes
<1>3. r.w \in Nat /\ r.h \in Nat /\ q.w \in Nat /\ q.h \in Nat /\ r.w <= q.w /\ r.h <= q.h /\ s.ratio \in 0 .. 60
  BY DEF Rects, Within, Steps, MinRatio, Whole
<1>4. CASE s.orientation = "vertical"
  <2>1. a <= b /\ r.w - a <= q.w - b
    BY <1>1, <1>2, <1>3, <1>4, ExtentGrows DEF Share
  <2>. QED
    BY <1>1, <1>2, <1>3, <1>4, <2>1 DEF EnterSize, Within
<1>5. CASE s.orientation # "vertical"
  <2>1. a <= b /\ r.h - a <= q.h - b
    BY <1>1, <1>2, <1>3, <1>5, ExtentGrows DEF Share
  <2>. QED
    BY <1>1, <1>2, <1>3, <1>5, <2>1 DEF EnterSize, Within
<1>. QED
  BY <1>4, <1>5

\* A divider that slides away from a pane's side of it.
LEMMA TunedGrows ==
    ASSUME NEW r \in Rects, NEW s \in Steps, NEW x \in Int, IF s.side = "a" THEN x >= 0 ELSE x <= 0
    PROVE  Within(Enter(r, s), Enter(r, Tuned(s, x)))
<1>1. PICK u \in Steps : /\ u = Tuned(s, x) /\ u.ratio = Refine(s.ratio + x)
                         /\ u.side = s.side /\ u.orientation = s.orientation
  BY TunedSteps
<1>2. PICK a \in Nat : a = Share(r, s) /\ EnterSize(Enter(r, s), r, s, a)
  BY EnterSizes
<1>3. PICK b \in Nat : b = Share(r, u) /\ EnterSize(Enter(r, u), r, u, b)
  BY EnterSizes
<1>4. /\ r.w \in Nat /\ r.h \in Nat /\ s.ratio \in Int /\ u.ratio \in Int
      /\ IF s.side = "a" THEN s.ratio <= u.ratio ELSE u.ratio <= s.ratio
  BY <1>1 DEF Rects, Steps, MinRatio, Whole, Refine, Clamp
<1>5. IF s.side = "a" THEN a <= b ELSE b <= a
  BY <1>1, <1>2, <1>3, <1>4, RatioGrows DEF Share
<1>. QED
  BY <1>1, <1>2, <1>3, <1>4, <1>5 DEF EnterSize, Within

LEMMA WithinIsOrder ==
    ASSUME NEW r \in Rects, NEW s \in Rects, NEW q \in Rects
    PROVE  Within(r, r) /\ (Within(r, s) /\ Within(s, q) => Within(r, q))
BY DEF Rects, Within

\* A way that has more room somewhere, and enters no less of it from there on.
LEMMA RoomGrows ==
    ASSUME NEW r \in Rects, NEW v \in Ways, NEW w \in Ways, NEW m \in Nat, NEW n \in Nat, NEW k \in Nat,
           m + k = Len(v), n + k = Len(w), Within(Rooms(r, v)[m], Rooms(r, w)[n]),
           \A i \in 1 .. k : \A s \in Rects : Within(Enter(s, v[m + i]), Enter(s, w[n + i]))
    PROVE  Within(Rooms(r, v)[m + k], Rooms(r, w)[n + k])
<1>. DEFINE H == {i \in 0 .. k : Within(Rooms(r, v)[m + i], Rooms(r, w)[n + i])}
<1>1. 0 \in H
  OBVIOUS
<1>2. ASSUME NEW i \in 1 .. k, i - 1 \in H PROVE i \in H
  <2>1. PICK a \in 1 .. Len(v) : a = m + i /\ a - 1 = m + (i - 1)
    OBVIOUS
  <2>2. PICK b \in 1 .. Len(w) : b = n + i /\ b - 1 = n + (i - 1)
    OBVIOUS
  <2>3. /\ v[a] \in Steps /\ Rooms(r, v)[a - 1] \in Rects /\ Rooms(r, v)[a] \in Rects
        /\ Rooms(r, v)[a] = Enter(Rooms(r, v)[a - 1], v[a])
    BY RoomSteps
  <2>4. /\ w[b] \in Steps /\ Rooms(r, w)[b - 1] \in Rects /\ Rooms(r, w)[b] \in Rects
        /\ Rooms(r, w)[b] = Enter(Rooms(r, w)[b - 1], w[b])
    BY RoomSteps
  <2>5. Within(Rooms(r, v)[a - 1], Rooms(r, w)[b - 1])
    BY <1>2, <2>1, <2>2
  <2>6. PICK x \in Rects : x = Rooms(r, v)[a - 1]
    BY <2>3
  <2>7. PICK y \in Rects : y = Rooms(r, w)[b - 1]
    BY <2>4
  <2>8. Within(Enter(x, v[a]), Enter(y, v[a]))
    BY <2>3, <2>5, <2>6, <2>7, EnterGrows
  <2>9. Within(Enter(y, v[a]), Enter(y, w[b]))
    BY <2>1, <2>2
  <2>10. Enter(x, v[a]) \in Rects /\ Enter(y, v[a]) \in Rects /\ Enter(y, w[b]) \in Rects
    BY <2>3, <2>4, EnterHalves DEF Halved
  <2>11. Within(Enter(x, v[a]), Enter(y, w[b]))
    BY <2>8, <2>9, <2>10, WithinIsOrder
  <2>12. Within(Rooms(r, v)[a], Rooms(r, w)[b])
    BY <2>3, <2>4, <2>6, <2>7, <2>11
  <2>. QED
    BY <2>1, <2>2, <2>12
<1>3. \A i \in 0 .. k : i \in H
  <2>. HIDE DEF H
  <2>. QED
    BY <1>1, <1>2, Upward
<1>4. k \in H
  BY <1>3
<1>. QED
  BY <1>4

\* Nobody has less room when a pane has left.
LEMMA RemoveGrows ==
    ASSUME NEW t, IsTree(t), NEW p \in Leaves(t), Leaves(t) # {p}, NEW r \in Rects,
           NEW u, u = RemoveLeaf(t, p), NEW q \in Leaves(t) \ {p}
    PROVE  Within(LayOut(t, r)[q], LayOut(u, r)[q])
<1>1. IsTree(u) /\ Leaves(u) = Leaves(t) \ {p}
  BY RemoveLeafIsTree
<1>2. /\ LayOut(t, r)[q] = Rooms(r, t[q])[Len(t[q])] /\ LayOut(t, r)[q] \in Rects
      /\ t[q] \in Ways /\ Len(t[q]) \in Nat
  BY LeafLaidOut
<1>3. /\ LayOut(u, r)[q] = Rooms(r, u[q])[Len(u[q])] /\ u[q] \in Ways /\ Len(u[q]) \in Nat
  BY <1>1, LeafLaidOut
<1>4. PICK n \in Pos : n = Len(t[p])
  BY SiblingLemma
<1>5. /\ Under(t, p, n - 1) = Sibling(t, p) \cup {p}
      /\ u[q] = IF q \in Under(t, p, n - 1) THEN RemoveAt(t[q], n) ELSE t[q]
  BY <1>4, SiblingLemma DEF RemoveLeaf
<1>6. CASE q \notin Sibling(t, p)
  <2>1. u[q] = t[q]
    BY <1>5, <1>6
  <2>. QED
    BY <1>2, <1>3, <2>1, WithinIsOrder
<1>7. CASE q \in Sibling(t, p)
  <2>1. PICK v \in Ways : v = t[q]
    BY <1>2
  <2>2. PICK w \in Ways : w = RemoveAt(v, n) /\ w = u[q]
    BY <1>3, <1>5, <1>7, <2>1
  <2>3. n \in 1 .. Len(v)
    BY <1>4, <1>7, <2>1, SiblingMoves
  <2>4. PICK k \in Nat : n + k = Len(v)
    <3>1. Len(v) - n \in Nat /\ n + (Len(v) - n) = Len(v)
      BY <1>2, <2>1, <2>3
    <3>. QED
      BY <3>1
  <2>5. Len(w) = Len(v) - 1 /\ \A i \in 1 .. Len(v) - 1 : w[i] = IF i < n THEN v[i] ELSE v[i + 1]
    BY <2>2, <2>3, AStepLess
  <2>6. PICK m \in Nat : m = n - 1 /\ m + k = Len(w) /\ m <= Len(v) /\ m <= Len(w)
    <3>1. PICK l \in Nat : l = Len(v)
      BY <1>2, <2>1
    <3>2. n - 1 \in Nat /\ (n - 1) + k = l - 1 /\ n - 1 <= l /\ n - 1 <= l - 1
      BY <1>4, <2>4, <3>1
    <3>3. Len(w) = l - 1
      BY <2>5, <3>1
    <3>. QED
      BY <3>1, <3>2, <3>3
  <2>7. \A i \in 1 .. m : w[i] = v[i]
    BY <2>3, <2>4, <2>5, <2>6
  <2>8. Rooms(r, w)[m] = Rooms(r, v)[m]
    BY <2>6, <2>7, SameRooms
  <2>9. /\ Rooms(r, v)[n - 1] \in Rects /\ v[n] \in Steps
        /\ Rooms(r, v)[n] = Enter(Rooms(r, v)[n - 1], v[n])
    BY <2>3, RoomSteps
  <2>10. Within(Rooms(r, v)[n], Rooms(r, w)[m])
    BY <2>6, <2>8, <2>9, EnterShrinks
  <2>11. ASSUME NEW i \in 1 .. k, NEW s \in Rects PROVE Within(Enter(s, v[n + i]), Enter(s, w[m + i]))
    <3>1. n + i \in 1 .. Len(v) /\ m + i \in 1 .. Len(v) - 1 /\ ~(m + i < n) /\ (m + i) + 1 = n + i
      BY <2>4, <2>6
    <3>2. w[m + i] = v[n + i]
      BY <2>5, <3>1
    <3>3. v[n + i] \in Steps
      BY <3>1, RoomSteps
    <3>4. Enter(s, v[n + i]) \in Rects
      BY <3>3, EnterHalves DEF Halved
    <3>. QED
      BY <3>2, <3>4, WithinIsOrder
  <2>12. Within(Rooms(r, v)[n + k], Rooms(r, w)[m + k])
    BY <2>4, <2>6, <2>10, <2>11, RoomGrows
  <2>. QED
    BY <1>2, <1>3, <2>1, <2>2, <2>4, <2>6, <2>12
<1>. QED
  BY <1>6, <1>7

\* A pane has no less room when its divider moves away from it.
LEMMA ResizeGrows ==
    ASSUME NEW t, IsTree(t), NEW p \in Leaves(t), NEW r \in Rects, NEW d, NEW f \in Nat,
           NEW u, u = ResizeLeaf(t, p, d, f)
    PROVE  Within(LayOut(t, r)[p], LayOut(u, r)[p])
<1>1. /\ LayOut(t, r)[p] = Rooms(r, t[p])[Len(t[p])] /\ LayOut(t, r)[p] \in Rects
      /\ t[p] \in Ways /\ Len(t[p]) \in Nat
  BY LeafLaidOut
<1>2. CASE u = t
  BY <1>1, <1>2, WithinIsOrder
<1>3. ASSUME NEW k \in Governing(t, p, d), u = Retuned(t, p, k, Slide(d, f))
      PROVE  Within(LayOut(t, r)[p], LayOut(u, r)[p])
  <2>1. k \in 1 .. Len(t[p]) /\ Governs(t[p][k], d)
    BY DEF Governing
  <2>2. PICK x \in Int : x = Slide(d, f)
    BY DEF Slide
  <2>3. PICK v \in Ways : v = t[p]
    BY <1>1
  <2>4. p \in Under(t, p, k - 1)
    BY <1>1, <2>1 DEF Under
  <2>5. PICK w : w = u[p]
    OBVIOUS
  <2>6. /\ w \in Ways /\ Len(w) = Len(v)
        /\ \A i \in 1 .. Len(v) : w[i] = IF i = k THEN Tuned(v[i], x) ELSE v[i]
    BY <1>3, <2>1, <2>2, <2>3, <2>4, <2>5, RetunedWays
  <2>7. IsTree(u) /\ Leaves(u) = Leaves(t)
    BY <1>3, <2>1, <2>2, RetunedIsTree
  <2>8. LayOut(u, r)[p] = Rooms(r, w)[Len(w)]
    BY <2>5, <2>7, LeafLaidOut
  <2>9. IF v[k].side = "a" THEN x >= 0 ELSE x <= 0
    <3>1. v[k].side = IF TowardB(d) THEN "a" ELSE "b"
      BY <2>1, <2>3 DEF Governs
    <3>. QED
      BY <2>2, <3>1 DEF Slide
  <2>10. PICK n \in Nat : n = Len(v) /\ n = Len(w)
    BY <1>1, <2>3, <2>6
  <2>11. ASSUME NEW i \in 1 .. n, NEW s \in Rects PROVE Within(Enter(s, v[0 + i]), Enter(s, w[0 + i]))
    <3>1. v[i] \in Steps
      BY <2>10, RoomSteps
    <3>2. CASE i = k
      BY <2>6, <2>9, <2>10, <3>1, <3>2, TunedGrows
    <3>3. CASE i # k
      <4>1. w[i] = v[i] /\ Enter(s, v[i]) \in Rects
        BY <2>6, <2>10, <3>1, <3>3, EnterHalves DEF Halved
      <4>. QED
        BY <4>1, WithinIsOrder
    <3>. QED
      BY <3>2, <3>3
  <2>12. Within(Rooms(r, v)[0], Rooms(r, w)[0])
    <3>1. Rooms(r, v)[0] = r /\ Rooms(r, w)[0] = r
      BY <2>6, RoomsBegin
    <3>. QED
      BY <3>1, WithinIsOrder
  <2>13. 0 + n = Len(v) /\ 0 + n = Len(w)
    BY <2>10
  <2>14. Within(Rooms(r, v)[0 + n], Rooms(r, w)[0 + n])
    BY <2>6, <2>11, <2>12, <2>13, RoomGrows
  <2>. QED
    BY <1>1, <2>3, <2>8, <2>10, <2>14
<1>. QED
  BY <1>2, <1>3, ResizeIsRetuned

LEMMA UnregisterGrows ==
    ASSUME WindowTyped, NEW c \in Callers, Unregister(c), tree' # tree, tree' # Nothing
    PROVE  /\ DOMAIN LayOut(tree', Bounds) = InWindow \ {call[c].pane}
           /\ \A p \in DOMAIN LayOut(tree', Bounds) : Within(LayOut(tree, Bounds)[p], LayOut(tree', Bounds)[p])
<1>1. PICK p : p = call[c].pane
  OBVIOUS
<1>2. p \in InWindow /\ tree # Leaf(p) /\ tree' = RemoveLeaf(tree, p)
  BY <1>1 DEF Unregister, records
<1>3. IsTree(tree) /\ p \in Leaves(tree) /\ InWindow = Leaves(tree) /\ Bounds \in Rects
  BY <1>2, BoundsAreRect DEF InWindow, WindowTyped
<1>4. Leaves(tree) # {p}
  BY <1>2, <1>3, LoneLeaf
<1>5. PICK u : u = tree'
  OBVIOUS
<1>6. Leaves(u) = Leaves(tree) \ {p}
  BY <1>2, <1>3, <1>4, <1>5, RemoveLeafIsTree
<1>7. DOMAIN LayOut(u, Bounds) = Leaves(u)
  BY DEF LayOut
<1>8. \A q \in Leaves(u) : Within(LayOut(tree, Bounds)[q], LayOut(u, Bounds)[q])
  BY <1>2, <1>3, <1>4, <1>5, <1>6, RemoveGrows
<1>. QED
  BY <1>1, <1>3, <1>5, <1>6, <1>7, <1>8

LEMMA MoveDividerGrows ==
    ASSUME WindowTyped, NEW c \in Callers, NEW p \in InWindow, NEW d, NEW delta \in Deltas,
           MoveDivider(c, p, d, delta), delta > 0
    PROVE  Within(LayOut(tree, Bounds)[p], LayOut(tree', Bounds)[p])
<1>1. IsTree(tree) /\ p \in Leaves(tree) /\ Bounds \in Rects /\ size \in Extents /\ delta \in Int
  BY BoundsAreRect, WindowAssumption DEF InWindow, WindowTyped
<1>2. PICK f \in Nat : f = Fraction(d, delta)
  <2>1. Fraction(d, delta) \in Int /\ Fraction(d, delta) >= 0
    BY <1>1, FractionIsInt
  <2>. QED
    BY <2>1
<1>3. PICK u : u = tree' /\ u = ResizeLeaf(tree, p, d, f)
  BY <1>2 DEF MoveDivider
<1>. QED
  BY <1>1, <1>3, ResizeGrows

\* No operation takes room from a pane that should keep it or gain: a kill leaves every
\* other pane and makes none smaller (remove_leaf), and a divider that moves away from a
\* pane, whatever lies between and however cells are rounded, makes it no smaller (resize_leaf).
THEOREM RoomIsNotLost == WindowSpec => NoneIsSqueezed
<1>1. ASSUME WindowTyped
      PROVE  [\A c \in Callers : At(c, "unregister") /\ tree' # tree /\ tree' # Nothing /\ Unregister(c) =>
                LET before == LayOut(tree, Bounds) after == LayOut(tree', Bounds)
                IN  /\ DOMAIN after = InWindow \ {call[c].pane}
                    /\ \A p \in DOMAIN after : Within(before[p], after[p])]_<<tree>>
  BY <1>1, UnregisterGrows
<1>2. ASSUME WindowTyped
      PROVE  [\A c \in Callers : At(c, "idle") /\ call'[c].at = "reflow" /\ tree' # tree =>
                \A p \in InWindow, d \in Directions, delta \in Deltas :
                  MoveDivider(c, p, d, delta) /\ delta > 0 =>
                    Within(LayOut(tree, Bounds)[p], LayOut(tree', Bounds)[p])]_<<tree>>
  BY <1>2, MoveDividerGrows
<1>. QED
  BY <1>1, <1>2, WindowIsTyped, PTL DEF NoneIsSqueezed, KillOnlyGrows, ResizeGrowsTarget
=============================================================================
