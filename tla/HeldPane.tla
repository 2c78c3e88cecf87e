------------------------------ MODULE HeldPane ------------------------------
(***************************************************************************)
(* The life of one held pane: the holders that are spawned for it          *)
(* (tamotsu/src/holder.rs), the socket and the tombstone that they leave   *)
(* in the file system (makimono/src/store.rs), the daemon that launches,   *)
(* adopts, follows and revives them (tamotsu/src/held.rs,                  *)
(* tear-core/src/inproc/durable.rs), and the human who kills the pane      *)
(* (tear-core/src/inproc.rs).                                              *)
(*                                                                         *)
(* Bytes are in Delivery, several daemons and their lease in Authority.    *)
(* One daemon runs at a time, with the pane in its session document; what  *)
(* becomes of a pane that is killed while it is opened is left out.        *)
(***************************************************************************)
EXTENDS Naturals, FiniteSets

CONSTANTS
    Holders,        \* bound: the holder processes ever spawned for the pane
    None,
    ReviveBudget,   \* REVIVE_BUDGET, of one follow loop
    MaxFaults,      \* bound: holders that are killed, links that stall and are cut, and
                    \* calls on the tombstone that fail
    MaxSlow,        \* bound: waits for a holder that end before it answers
    MaxStarts       \* bound: daemon starts

ASSUME BoundsAreSane ==
    /\ None \notin Holders \cup {"exited", "human", "failed"}
    /\ ReviveBudget \in Nat /\ MaxFaults \in Nat
    /\ MaxSlow \in Nat /\ MaxStarts \in Nat

VARIABLES
    stage,      \* x -> "free", "opening", "serving", "gone"
    shell,      \* x -> "none", "runs", "exited"
    human,      \* x -> Holder::human_end
    request,    \* x -> how far its connection thread is with an End
    timer,      \* x -> the thread that end() leaves: "off", "armed", "killed"
    final,      \* x -> how far the thread that finalizes has come
    ending,     \* x -> the ending it finalizes with, then the one it read back
    socket,     \* the holder that the socket file names, dead or alive
    tomb,       \* the tombstone
    failed,     \* how many calls on it have failed
    thread,     \* where the daemon stands with the pane
    own,        \* the pane's shell when it is the daemon's own child
    link,       \* the holder its connection leads to
    open,       \* whether that connection is up
    exited,     \* the ending of the Exited message that waits on the link
    reported,   \* what on_exit was called with
    kill,       \* how far the kill of the pane has come
    revivals, deaths, cuts, slow, starts

process == <<stage, shell, human, request, timer, final, ending>>
files   == <<socket, tomb, failed>>
conn    == <<link, open, exited>>
daemon  == <<thread, own, reported, kill, revivals>>
bounds  == <<deaths, cuts, slow, starts>>
vars    == <<process, files, conn, daemon, bounds>>

\* Ending: a shell that exited by itself, or a human's end
Endings == {"exited", "human"}

Init ==
    /\ stage = [x \in Holders |-> "free"] /\ shell = [x \in Holders |-> "none"]
    /\ human = [x \in Holders |-> FALSE] /\ request = [x \in Holders |-> "no"]
    /\ timer = [x \in Holders |-> "off"] /\ final = [x \in Holders |-> "no"]
    /\ ending = [x \in Holders |-> None]
    /\ socket = None /\ tomb = None /\ failed = 0
    /\ thread = "off" /\ own = "none" /\ link = None /\ open = FALSE /\ exited = None
    /\ reported = None /\ kill = "no" /\ revivals = 0
    /\ deaths = 0 /\ cuts = 0 /\ slow = 0 /\ starts = 0

Serves(x) == stage[x] = "serving"
\* a connection to the socket reaches a holder that answers
Reachable == socket # None /\ Serves(socket)
Opening == {x \in Holders : stage[x] = "opening"}

\* A holder that answers is given up on when it is slow to.
Slow == slow < MaxSlow /\ slow' = slow + 1
\* One attempt to connect, that waits for nobody,
GiveUp == IF Reachable THEN Slow ELSE UNCHANGED slow
\* and attempts until a deadline, by which a holder that opens is there unless slow.
\* Mutant: a holder that still opens is not waited for.
GiveUpAtOnce == GiveUp
GiveUpWaiting == IF Reachable \/ Opening # {} THEN Slow ELSE UNCHANGED slow

\* A call on the tombstone fails.  A reader takes that for a pane without one.
Faults == deaths + cuts + failed
Fails == Faults < MaxFaults /\ failed' = failed + 1
NoTombstoneIsRead == IF tomb = None THEN UNCHANGED failed ELSE Fails

----------------------------------------------------------------------------
(* A holder.                                                               *)

\* The path is the holder's, whatever was on it.
Bound(x) == x

\* run: bind removes what is on the socket's path; then the shell is spawned.
Bind(x) ==
    /\ stage[x] = "opening"
    /\ stage' = [stage EXCEPT ![x] = "serving"]
    /\ shell' = [shell EXCEPT ![x] = "runs"]
    /\ socket' = Bound(x)
    /\ UNCHANGED <<human, request, timer, final, ending, tomb, failed, conn, daemon, bounds>>

ShellExits(x) ==
    /\ Serves(x) /\ shell[x] = "runs"
    /\ shell' = [shell EXCEPT ![x] = "exited"]
    /\ UNCHANGED <<stage, human, request, timer, final, ending, files, conn, daemon, bounds>>

\* the second step of write_tombstone
Writes(how) ==
    \/ tomb' = how /\ UNCHANGED failed
    \/ UNCHANGED tomb /\ Fails

\* Holder::end, on the connection's thread: write_tombstone looks ...
EndLooks(x) ==
    /\ Serves(x) /\ request[x] = "asked"
    /\ human' = [human EXCEPT ![x] = TRUE]
    /\ \/ /\ request' = [request EXCEPT ![x] = IF tomb = None THEN "writes" ELSE "signals"]
          /\ UNCHANGED failed
       \/ request' = [request EXCEPT ![x] = "signals"] /\ Fails
    /\ UNCHANGED <<stage, shell, timer, final, ending, socket, tomb, conn, daemon, bounds>>

\* ... and writes, and what fails of the two is ignored,
EndWrites(x) ==
    /\ Serves(x) /\ request[x] = "writes"
    /\ Writes("human")
    /\ request' = [request EXCEPT ![x] = "signals"]
    /\ UNCHANGED <<stage, shell, human, timer, final, ending, socket, conn, daemon, bounds>>

\* Mutant: nothing comes after SIGHUP.
EndSignalsOnly(x) ==
    /\ Serves(x) /\ request[x] = "signals"
    /\ request' = [request EXCEPT ![x] = "no"]
    /\ shell' = [shell EXCEPT ![x] = IF @ = "runs" THEN "exited" ELSE @]
             \/ UNCHANGED shell
    /\ UNCHANGED <<stage, human, timer, final, ending, files, conn, daemon, bounds>>

\* and SIGHUP goes to the shell, which may ignore it.
EndSignals(x) ==
    /\ Serves(x) /\ request[x] = "signals"
    /\ request' = [request EXCEPT ![x] = "no"]
    /\ timer' = [timer EXCEPT ![x] = "armed"]
    /\ shell' = [shell EXCEPT ![x] = IF @ = "runs" THEN "exited" ELSE @]
             \/ UNCHANGED shell
    /\ UNCHANGED <<stage, human, final, ending, files, conn, daemon, bounds>>

\* END_GRACE later: SIGKILL, unless the holder has finalized.
TimerKills(x) ==
    /\ Serves(x) /\ timer[x] = "armed"
    /\ timer' = [timer EXCEPT ![x] = IF final[x] = "no" THEN "killed" ELSE "off"]
    /\ shell' = [shell EXCEPT ![x] = IF final[x] = "no" THEN "exited" ELSE @]
    /\ UNCHANGED <<stage, human, request, final, ending, files, conn, daemon, bounds>>

\* Mutant: the human's ending for the wrong case.
EndingSwapped(x) == IF human[x] THEN "exited" ELSE "human"
EndingOf(x) == IF human[x] THEN "human" ELSE "exited"

\* finalize, by the main thread when the shell is gone, or by the timer's: the
\* first to come does it all.
Finalize(x) ==
    /\ Serves(x) /\ final[x] = "no"
    /\ \/ /\ shell[x] = "exited"
          /\ ending' = [ending EXCEPT ![x] = EndingOf(x)]
       \/ /\ timer[x] = "killed"
          /\ ending' = [ending EXCEPT ![x] = "human"]
    /\ final' = [final EXCEPT ![x] = "looks"]
    /\ UNCHANGED <<stage, shell, human, request, timer, files, conn, daemon, bounds>>

\* what follows the look of write_tombstone
AfterLook == IF tomb = None THEN "writes" ELSE "reads"

\* write_tombstone looks ...
FinalLooks(x) ==
    /\ Serves(x) /\ final[x] = "looks"
    /\ \/ final' = [final EXCEPT ![x] = AfterLook] /\ UNCHANGED failed
       \/ final' = [final EXCEPT ![x] = "reads"] /\ Fails
    /\ UNCHANGED <<stage, shell, human, request, timer, ending, socket, tomb, conn, daemon, bounds>>

\* ... and writes, and what fails of the two is ignored,
FinalWrites(x) ==
    /\ Serves(x) /\ final[x] = "writes"
    /\ Writes(ending[x])
    /\ final' = [final EXCEPT ![x] = "reads"]
    /\ UNCHANGED <<stage, shell, human, request, timer, ending, socket, conn, daemon, bounds>>

\* the recorded ending is read back; without one the holder's own stands,
FinalReads(x) ==
    /\ Serves(x) /\ final[x] = "reads"
    /\ \/ tomb # None /\ ending' = [ending EXCEPT ![x] = tomb] /\ UNCHANGED failed
       \/ UNCHANGED ending /\ NoTombstoneIsRead
    /\ final' = [final EXCEPT ![x] = "tells"]
    /\ UNCHANGED <<stage, shell, human, request, timer, socket, tomb, conn, daemon, bounds>>

Told(x) == IF link = x /\ open THEN ending[x] ELSE exited

\* and the daemon that is attached is told; remove_file takes the socket's path,
\* whoever is bound to it by now, and the holder exits.
FinalTells(x) ==
    /\ Serves(x) /\ final[x] = "tells"
    /\ exited' = Told(x)
    /\ open' = (open /\ link # x)
    /\ socket' = None
    /\ stage' = [stage EXCEPT ![x] = "gone"]
    /\ UNCHANGED <<shell, human, request, timer, final, ending, tomb, failed, link, daemon, bounds>>

\* A holder is killed, and its shell is hung up with its pty.
Die(x) ==
    /\ stage[x] \in {"opening", "serving"} /\ Faults < MaxFaults /\ deaths' = deaths + 1
    /\ stage' = [stage EXCEPT ![x] = "gone"]
    /\ shell' = [shell EXCEPT ![x] = IF @ = "runs" THEN "none" ELSE @]
    /\ open' = (open /\ link # x)
    /\ UNCHANGED <<human, request, timer, final, ending, files, link, exited, daemon, cuts, slow, starts>>
----------------------------------------------------------------------------
(* The daemon.                                                             *)

Free == {x \in Holders : stage[x] = "free"}

Spawn ==
    /\ Free # {}
    /\ stage' = [stage EXCEPT ![CHOOSE x \in Free : TRUE] = "opening"]
    /\ UNCHANGED <<shell, human, request, timer, final, ending>>

\* A daemon that starts finds the pane in its store, or is asked to open it.
Start ==
    /\ thread = "off" /\ starts < MaxStarts /\ starts' = starts + 1
    /\ thread' = IF starts = 0 THEN "launch" ELSE "classify"
    /\ reported' = None /\ revivals' = 0
    /\ UNCHANGED <<process, files, conn, own, kill, deaths, cuts, slow>>

NoLink == link' = None /\ open' = FALSE /\ exited' = None

\* A daemon stops or crashes; its holders do not notice, a shell of its own is hung up.
Stop ==
    /\ thread # "off" /\ thread' = "off"
    /\ NoLink
    /\ own' = IF own = "runs" THEN "none" ELSE own
    /\ kill' = IF kill = "no" THEN "no" ELSE "past"
    /\ UNCHANGED <<process, files, reported, revivals, bounds>>

\* on_exit, or the mark of a pane that could not be restored
Report(how) == thread' = "done" /\ reported' = how

\* A new pane that gets no holder runs in the daemon itself, one that is restored is
\* marked as failed.
NotHeld ==
    \/ /\ thread \in {"launch", "connect"} /\ thread' = "local" /\ own' = "runs"
       /\ UNCHANGED reported
    \/ thread \in {"resurrect", "revived"} /\ Report("failed") /\ UNCHANGED own

\* launch_held and attach_restored: the files are written and the process spawned,
\* if that can be
Launch ==
    /\ thread \in {"launch", "resurrect"}
    /\ \/ /\ Spawn
          /\ thread' = IF thread = "launch" THEN "connect" ELSE "revived"
          /\ UNCHANGED <<own, reported>>
       \/ NotHeld /\ UNCHANGED process
    /\ UNCHANGED <<files, conn, kill, revivals, bounds>>

\* restore_session: the tombstone is read, then the holder is probed,
Classify ==
    /\ thread = "classify"
    /\ \/ tomb # None /\ Report(tomb) /\ UNCHANGED failed
       \/ NoTombstoneIsRead /\ thread' = "probe" /\ UNCHANGED reported
    /\ UNCHANGED <<process, socket, tomb, conn, own, kill, revivals, bounds>>

Probe ==
    /\ thread = "probe"
    /\ \/ Reachable /\ thread' = "adopt" /\ UNCHANGED slow
       \/ GiveUp /\ thread' = "resurrect"
    /\ UNCHANGED <<process, files, conn, own, reported, kill, revivals, deaths, cuts, starts>>

Connected == link' = socket /\ open' = TRUE /\ exited' = None

\* and adopted: HeldPty::adopt
Adopt ==
    /\ thread = "adopt"
    /\ \/ Reachable /\ thread' = "follow" /\ Connected /\ UNCHANGED slow
       \/ GiveUp /\ thread' = "resurrect" /\ UNCHANGED conn
    /\ UNCHANGED <<process, files, own, reported, kill, revivals, deaths, cuts, starts>>

\* HeldPty::launch waits for the holder that it spawned.
Connect ==
    /\ thread \in {"connect", "revived"}
    /\ \/ /\ Reachable /\ thread' = "follow" /\ Connected
          /\ UNCHANGED <<own, reported, slow>>
       \/ GiveUpWaiting /\ NotHeld /\ UNCHANGED conn
    /\ UNCHANGED <<process, files, kill, revivals, deaths, cuts, starts>>

\* The shell of a pane of the daemon itself exits: its on_exit keeps the first ending,
\* and ignores that it could not.
LocalExits ==
    /\ thread = "local"
    /\ \/ tomb' = (IF tomb = None THEN "exited" ELSE tomb) /\ UNCHANGED failed
       \/ UNCHANGED tomb /\ Fails
    /\ Report("exited") /\ own' = "exited"
    /\ UNCHANGED <<process, socket, conn, kill, revivals, bounds>>

\* follow, with a repaired link: unless it was let go in the meantime ...
Rejoin == IF kill = "over" THEN thread' = "done" /\ NoLink ELSE thread' = "joining" /\ Connected

\* connect_when_ready and the handshake of a revived holder
Reconnect ==
    /\ thread = "reconnect"
    /\ \/ Reachable /\ Rejoin /\ UNCHANGED <<reported, slow>>
       \/ GiveUpWaiting /\ Report("failed") /\ UNCHANGED conn
    /\ UNCHANGED <<process, files, own, kill, revivals, deaths, cuts, starts>>

\* ... it is written to the link, and followed.
Join ==
    /\ thread = "joining" /\ thread' = "follow"
    /\ UNCHANGED <<process, files, conn, own, reported, kill, revivals, bounds>>

ReadExited ==
    /\ thread = "follow" /\ exited # None
    /\ Report(exited) /\ NoLink
    /\ UNCHANGED <<process, files, own, kill, revivals, bounds>>

\* The stream ends: a recorded ending is the pane's; without one its holder is lost.
ReadEnd ==
    /\ thread = "follow" /\ exited = None /\ ~open
    /\ \/ tomb # None /\ Report(tomb) /\ UNCHANGED failed
       \/ NoTombstoneIsRead /\ thread' = "repair" /\ UNCHANGED reported
    /\ NoLink
    /\ UNCHANGED <<process, socket, tomb, own, kill, revivals, bounds>>

HasBudget == revivals < ReviveBudget

\* Mutant: a pane whose budget is spent is let go.
RevivesOrForgets ==
    \/ /\ HasBudget /\ revivals' = revivals + 1
       /\ \/ Spawn /\ thread' = "reconnect" /\ UNCHANGED reported
          \/ Report("failed") /\ UNCHANGED process
    \/ ~HasBudget /\ thread' = "done" /\ UNCHANGED <<process, reported, revivals>>

\* a holder is spawned within the budget, if it can be
Revives ==
    \/ /\ HasBudget /\ revivals' = revivals + 1
       /\ \/ Spawn /\ thread' = "reconnect" /\ UNCHANGED reported
          \/ Report("failed") /\ UNCHANGED process
    \/ ~HasBudget /\ Report("failed") /\ UNCHANGED <<process, revivals>>

\* repair: a holder on the socket is followed again; without one, the pane is revived.
Repair ==
    /\ thread = "repair"
    /\ \/ Reachable /\ Rejoin /\ UNCHANGED <<process, reported, revivals, slow>>
       \/ GiveUpWaiting /\ Revives /\ UNCHANGED conn
    /\ UNCHANGED <<files, own, kill, deaths, cuts, starts>>

\* A link that stalls is cut, by the holder or by the check thread.
Cut ==
    /\ thread = "follow" /\ open /\ Faults < MaxFaults /\ cuts' = cuts + 1
    /\ open' = FALSE
    /\ UNCHANGED <<process, files, link, exited, daemon, deaths, slow, starts>>
----------------------------------------------------------------------------
(* A human kills the pane (kill_pane, kill_window, kill_session), once.    *)

\* record_human_end: write_tombstone looks ...
KillLooks ==
    /\ kill = "no" /\ thread \in {"follow", "joining", "repair", "reconnect", "local", "done"}
    /\ \/ kill' = (IF tomb = None THEN "writes" ELSE "ends") /\ UNCHANGED failed
       \/ kill' = "ends" /\ Fails
    /\ UNCHANGED <<process, socket, tomb, conn, thread, own, reported, revivals, bounds>>

\* ... and writes; an error of the two is logged, and the kill goes on;
KillWrites ==
    /\ kill = "writes" /\ Writes("human") /\ kill' = "ends"
    /\ UNCHANGED <<process, socket, conn, thread, own, reported, revivals, bounds>>

\* HeldPty::end: the holder is asked, if the daemon has a link to it.
EndSent(x) == link = x /\ open /\ thread = "follow"

\* end_all: End is sent, the link dropped, or the daemon's own shell killed. A thread
\* that repairs its link goes on until it has; one that follows may read what came.
KillEnds ==
    /\ kill = "ends" /\ kill' = "over"
    /\ request' = [x \in Holders |-> IF EndSent(x) THEN "asked" ELSE request[x]]
    /\ IF thread \in {"follow", "local"}
       THEN /\ thread' = "done" /\ NoLink
            /\ reported' \in {reported} \cup ({exited} \ {None})
       ELSE UNCHANGED <<thread, conn, reported>>
    /\ own' = IF own = "runs" THEN "exited" ELSE own
    /\ UNCHANGED <<stage, shell, human, timer, final, ending, files, revivals, bounds>>
----------------------------------------------------------------------------
HolderStep(x) ==
    \/ Bind(x) \/ EndLooks(x) \/ EndWrites(x) \/ EndSignals(x) \/ TimerKills(x)
    \/ Finalize(x) \/ FinalLooks(x) \/ FinalWrites(x) \/ FinalReads(x) \/ FinalTells(x)

FollowStep == Launch \/ Classify \/ Probe \/ Adopt \/ Connect \/ Reconnect \/ Join
              \/ ReadExited \/ ReadEnd \/ Repair
KillStep == KillWrites \/ KillEnds

Next ==
    \/ \E x \in Holders : HolderStep(x) \/ ShellExits(x) \/ Die(x)
    \/ FollowStep \/ KillStep
    \/ Start \/ Stop \/ LocalExits \/ Cut \/ KillLooks

Spec == Init /\ [][Next]_vars

(* Every thread runs, a connection's apart from the one that finalizes.    *)
(* Shells, deaths, cuts, starts and kills owe nothing.                     *)
FairSpec ==
    /\ Spec
    /\ \A x \in Holders : WF_vars(HolderStep(x))
    /\ WF_vars(FollowStep) /\ WF_vars(KillStep)
----------------------------------------------------------------------------
(* Properties.                                                             *)

Runs == {x \in Holders : shell[x] = "runs"}
AShellRuns == Runs # {} \/ own = "runs"

\* Every variable has its type.
TypeOK ==
    /\ stage \in [Holders -> {"free", "opening", "serving", "gone"}]
    /\ shell \in [Holders -> {"none", "runs", "exited"}]
    /\ human \in [Holders -> BOOLEAN]
    /\ request \in [Holders -> {"no", "asked", "writes", "signals"}]
    /\ timer \in [Holders -> {"off", "armed", "killed"}]
    /\ final \in [Holders -> {"no", "looks", "writes", "reads", "tells"}]
    /\ ending \in [Holders -> Endings \cup {None}]
    /\ socket \in Holders \cup {None} /\ tomb \in Endings \cup {None} /\ failed \in 0..MaxFaults
    /\ thread \in {"off", "launch", "classify", "probe", "adopt", "resurrect", "connect",
                   "revived", "reconnect", "local", "joining", "follow", "repair", "done"}
    /\ own \in {"none", "runs", "exited"}
    /\ link \in Holders \cup {None} /\ open \in BOOLEAN
    /\ exited \in Endings \cup {None}
    /\ reported \in Endings \cup {None, "failed"}
    /\ kill \in {"no", "writes", "ends", "over", "past"}
    /\ revivals \in 0..ReviveBudget
    /\ deaths \in 0..MaxFaults /\ cuts \in 0..MaxFaults
    /\ slow \in 0..MaxSlow /\ starts \in 0..MaxStarts

\* One daemon, and holders that answer within its deadlines.
Undisturbed == starts <= 1 /\ slow = 0

\* A pane runs in one shell, its holder's or the daemon's: repair and revival never
\* start a second one beside it, whatever dies or is cut (held.rs repair); and a
\* holder's shell can be reached through the pane's socket, though all holders of a
\* pane bind and remove one path (holder.rs bind and finalize).
OneShell ==
    Undisturbed => /\ \A x, y \in Runs : x = y
                   /\ \A x \in Runs : socket = x
                   /\ own = "runs" => Runs = {}

\* Nothing but a human or a shell ends a pane: no tombstone comes from the death of
\* a holder or of a daemon, from a lost link or from a spent budget (store.rs
\* write_tombstone and its callers).
NoInvoluntaryEnding ==
    /\ tomb = "human" => kill # "no"
    /\ tomb = "exited" => own = "exited" \/ \E x \in Holders : shell[x] = "exited"

\* What the daemon reports of a pane's end is what happened, recorded or not.
ReportsAreTrue ==
    /\ reported = "human" => kill # "no"
    /\ reported = "exited" => own = "exited" \/ \E x \in Holders : shell[x] = "exited"

\* A pane that was reported to have ended is recorded as ended, so that no later
\* daemon revives it (holder.rs finalize, held.rs follow, inproc.rs on_exit), unless
\* a call on its tombstone failed: all who make one ignore that.
ReportedIsRecorded == reported \in Endings /\ failed = 0 => tomb # None

\* What a pane's end is told and recorded as, is what happened, and it is recorded first
\* if it can be.
EndingsAreTrue == NoInvoluntaryEnding /\ ReportsAreTrue /\ ReportedIsRecorded

\* A pane without a shell does not look alive for ever: it gets a shell, or its end
\* is reported, unless the daemon stops or the pane is killed (held.rs follow).
NeverLeftDead ==
    ~AShellRuns ~> \/ AShellRuns \/ reported # None \/ thread = "off" \/ kill # "no"
                   \/ Free = {}

\* A holder that is asked to end loses its shell, also one that ignores SIGHUP
\* (holder.rs end and finalize).
AskedHolderEnds == \A x \in Holders : request[x] = "asked" ~> shell[x] # "runs"
=============================================================================
