------------------------------- MODULE Places -------------------------------
(***************************************************************************)
(* The daemon's memory of places (praca, tear-daemon/src/praca_store.rs    *)
(* and the hooks of tear-daemon/src/lib.rs): which session was opened for  *)
(* which project, kept in one document on disk so that it survives the     *)
(* daemon.                                                                 *)
(*                                                                         *)
(* Connections run in threads.  A request acts on the multiplexer first,   *)
(* then on the memory under the store's lock, and then writes what the     *)
(* memory was, without that lock: three steps and more.  Every writer of a *)
(* daemon uses the same temporary file.                                    *)
(*                                                                         *)
(* A place is the anchor of a directory: its project root, or itself.      *)
(* Session ids are minted, so that no session is registered twice and no   *)
(* earlier visits are folded in: visits, times and tags are left out.  A   *)
(* document stands for its text, and is as long as what it holds.          *)
(***************************************************************************)
EXTENDS Naturals, FiniteSets

CONSTANTS
    Sessions,       \* every session that is ever created
    Held,           \* those whose shells outlive the daemon in holder processes
    Anchors,        \* the places that sessions are opened in
    Calls,          \* connection threads with a request to serve
    Inodes,         \* files that the temporary name and the document can have
    None,
    MaxStarts       \* bound: starts of a daemon

Record == [root: Anchors, name: {"auto", "given"}]

ASSUME ConstantsAssumption ==
    /\ Held \subseteq Sessions
    /\ None \notin Sessions \cup Anchors \cup Inodes \cup Record
    /\ IsFiniteSet(Sessions) /\ IsFiniteSet(Anchors)
    /\ IsFiniteSet(Calls) /\ IsFiniteSet(Inodes)
    /\ Cardinality(Inodes) > Cardinality(Calls) + 1
    /\ MaxStarts \in Nat

VARIABLES
    up,             \* the daemon runs
    starts,         \* how often one was started
    session,        \* a session of the multiplexer: "no", "live", "killed" or "exited"
    praca,          \* the memory: [index, binding]
    call,           \* how far a request is: [at, op, id, snap, inode]
    tmp, file,      \* the inodes that the temporary name and the document have
    content,        \* what an inode holds: a document, Empty or Torn
    synced,         \* the inodes whose content is on the disk for sure
    overlapped,     \* two requests persisted at once: a history variable
    failed,         \* the last request to persist could not: likewise
    missed          \* sessions whose ending the memory, or the document, missed: likewise

daemon == <<up, starts>>
mux    == <<session, missed>>
disk   == <<tmp, file, content, synced>>
faults == <<overlapped, failed>>
vars   == <<daemon, mux, praca, call, disk, faults>>

Praca  == [index: [Sessions -> Record \cup {None}], binding: [Anchors -> Sessions \cup {None}]]

Indexed(p) == {s \in Sessions : p.index[s] # None}
Bound(p)   == {a \in Anchors : p.binding[a] # None}
NewPraca   == [index |-> [s \in Sessions |-> None], binding |-> [a \in Anchors |-> None]]

\* What a file holds: nothing, a document, or bytes that are none.
Text       == [kind: {"empty", "torn", "whole"}, doc: Praca]
Empty      == [kind |-> "empty", doc |-> NewPraca]
Torn       == [kind |-> "torn", doc |-> NewPraca]
Whole(d)   == [kind |-> "whole", doc |-> d]

\* The length of a text, in entries of its document.
Length(t) == Cardinality(Indexed(t.doc)) + Cardinality(Bound(t.doc))

Idle    == [at |-> "idle", op |-> None, id |-> None, snap |-> NewPraca, inode |-> None]
Writers == {c \in Calls : call[c].at \in {"open", "write", "sync", "rename"}}

Init ==
    /\ up = FALSE /\ starts = 0
    /\ session = [s \in Sessions |-> "no"]
    /\ praca = NewPraca
    /\ call = [c \in Calls |-> Idle]
    /\ tmp = None /\ file = None
    /\ content = [i \in Inodes |-> Empty] /\ synced = {}
    /\ overlapped = FALSE /\ failed = FALSE /\ missed = {}
-----------------------------------------------------------------------------
(* Requests, and what they do to the multiplexer first.                    *)

Begin(c, op, s) ==
    /\ up /\ call[c].at = "idle"
    /\ call' = [call EXCEPT ![c] = [Idle EXCEPT !.at = "mutate", !.op = op, !.id = s]]

NewSession(c, s) ==
    /\ session[s] = "no" /\ Begin(c, "create", s)
    /\ session' = [session EXCEPT ![s] = "live"]
    /\ UNCHANGED <<daemon, missed, praca, disk, faults>>

\* A session ends, and the memory misses it while its creation has not been recorded.
Creating(s) == \E c \in Calls : call[c].op = "create" /\ call[c].id = s /\ call[c].at = "mutate"
End(s, how) ==
    /\ session[s] = "live"
    /\ session' = [session EXCEPT ![s] = how]
    /\ missed' = IF Creating(s) THEN missed \cup {s} ELSE missed

KillSession(c, s) ==
    /\ Begin(c, "forget", s) /\ End(s, "killed")
    /\ UNCHANGED <<daemon, praca, disk, faults>>

\* Bound: a session is named when it has a record, and once.
RenameSession(c, s) ==
    /\ session[s] = "live" /\ praca.index[s] # None /\ praca.index[s].name = "auto"
    /\ Begin(c, "rename", s)
    /\ UNCHANGED <<daemon, mux, praca, disk, faults>>

\* Its last shell exits: the reader reaps the session, and no hook is called.
ShellExits(s) ==
    /\ up /\ End(s, "exited")
    /\ UNCHANGED <<daemon, praca, call, disk, faults>>
-----------------------------------------------------------------------------
(* The memory is changed, and copied, under the store's lock.              *)

Remember(p, s, a) ==
    [index   |-> [p.index EXCEPT ![s] = [root |-> a, name |-> "auto"]],
     binding |-> [p.binding EXCEPT ![a] = s]]

\* Mutant: the record goes and the bindings stay.
ForgetRecord(p, s) == [p EXCEPT !.index[s] = None]
Forget(p, s) ==
    [index   |-> [p.index EXCEPT ![s] = None],
     binding |-> [a \in Anchors |-> IF p.binding[a] = s THEN None ELSE p.binding[a]]]

Rename(p, s) == IF p.index[s] = None THEN p ELSE [p EXCEPT !.index[s].name = "given"]

\* The directory is the spawn environment's, which any connection may have set since the
\* session was spawned; without one the hook of a creation is skipped.
Changed(k) ==
    CASE k.op = "create" -> {Remember(praca, k.id, a) : a \in Anchors}
      [] k.op = "forget" -> {Forget(praca, k.id)}
      [] k.op = "rename" -> {Rename(praca, k.id)}

NoSpawnCwd(c) ==
    /\ call[c].at = "mutate" /\ call[c].op = "create"
    /\ call' = [call EXCEPT ![c] = Idle]
    /\ UNCHANGED <<daemon, mux, praca, disk, faults>>

\* Mutant: what is persisted was copied before the change.
MutateLate(c) ==
    /\ call[c].at = "mutate"
    /\ praca' \in Changed(call[c])
    /\ call' = [call EXCEPT ![c].at = "open", ![c].snap = praca]
    /\ overlapped' = (overlapped \/ Writers # {})
    /\ UNCHANGED <<daemon, mux, disk, failed>>
Mutate(c) ==
    /\ call[c].at = "mutate"
    /\ praca' \in Changed(call[c])
    /\ call' = [call EXCEPT ![c].at = "open", ![c].snap = praca']
    /\ overlapped' = (overlapped \/ Writers # {})
    /\ UNCHANGED <<daemon, mux, disk, failed>>
-----------------------------------------------------------------------------
(* makimono::atomic::write: a temporary file, its sync, and the rename.    *)

\* A file that has neither a name nor a handle is gone.
Used(c)        == {call[d].inode : d \in Calls \ {c}}
Kept(is, text) == [i \in Inodes |-> IF i \in is THEN text[i] ELSE Empty]
FreeInode      == CHOOSE i \in Inodes : i \notin {tmp, file} \cup {call[c].inode : c \in Calls}

\* The name is that of the process: a second writer truncates the first one's file.
OpenTmp(c) ==
    /\ call[c].at = "open"
    /\ LET i == IF tmp = None THEN FreeInode ELSE tmp IN
       /\ tmp' = i
       /\ content' = [content EXCEPT ![i] = Empty] /\ synced' = synced \ {i}
       /\ call' = [call EXCEPT ![c].at = "write", ![c].inode = i]
    /\ UNCHANGED <<daemon, mux, praca, file, faults>>

\* Written from the start: a longer text that is there already keeps its end.
WriteAll(c) ==
    /\ call[c].at = "write"
    /\ LET i == call[c].inode  new == Whole(call[c].snap) IN
       /\ content' = [content EXCEPT ![i] = IF @ = Torn \/ Length(@) > Length(new) THEN Torn ELSE new]
       /\ synced' = synced \ {i}
    /\ call' = [call EXCEPT ![c].at = "sync"]
    /\ UNCHANGED <<daemon, mux, praca, tmp, file, faults>>

\* Mutant: the bytes are not forced to the disk before the name is.
SkipSync(c) ==
    /\ call[c].at = "sync"
    /\ call' = [call EXCEPT ![c].at = "rename"]
    /\ UNCHANGED <<daemon, mux, praca, disk, faults>>
SyncAll(c) ==
    /\ call[c].at = "sync"
    /\ call' = [call EXCEPT ![c].at = "rename"]
    /\ synced' = synced \cup {call[c].inode}
    /\ UNCHANGED <<daemon, mux, praca, tmp, file, content, faults>>

\* Whatever has the temporary name becomes the document; without one the rename fails.
RenameTmp(c) ==
    /\ call[c].at = "rename"
    /\ call' = [call EXCEPT ![c] = Idle]
    /\ file' = (IF tmp = None THEN file ELSE tmp) /\ tmp' = None
    /\ content' = Kept({file'} \cup Used(c), content) /\ synced' = synced \cap ({file'} \cup Used(c))
    /\ failed' = (tmp = None)
    /\ UNCHANGED <<daemon, mux, praca, overlapped>>

\* The disk is full, and part of the text is there: the temporary name is removed.
WriteFails(c) ==
    /\ call[c].at \in {"open", "write", "sync"}
    /\ content' = Kept({file} \cup Used(c), IF call[c].at = "write"
                                            THEN [content EXCEPT ![call[c].inode] = Torn] ELSE content)
    /\ synced' = synced \cap ({file} \cup Used(c))
    /\ tmp' = None
    /\ call' = [call EXCEPT ![c] = Idle]
    /\ failed' = TRUE
    /\ UNCHANGED <<daemon, mux, praca, file, overlapped>>
-----------------------------------------------------------------------------
(* The daemon starts, and goes down at any point.                          *)

\* A file that does not parse is an empty memory, like no file.
Loaded(f, text) == IF f = None \/ text[f].kind # "whole" THEN NewPraca ELSE text[f].doc

Open ==
    /\ ~up /\ starts < MaxStarts
    /\ up' = TRUE /\ starts' = starts + 1
    /\ praca' = Loaded(file, content)
    /\ failed' = FALSE
    /\ UNCHANGED <<mux, call, disk, overlapped>>

\* Its temporary name is not used again: the next process has a name of its own.
Down(survivors, text) ==
    /\ up /\ up' = FALSE
    /\ praca' = NewPraca /\ tmp' = None
    /\ call' = [c \in Calls |-> Idle]
    /\ session' = [s \in Sessions |-> IF session[s] = "live" /\ s \notin survivors THEN "exited" ELSE session[s]]
    /\ missed' = missed \cup {s \in Sessions : Loaded(file, text).index[s] # None /\ session[s] = "killed"}
    /\ content' = Kept({file}, text) /\ synced' = synced \cap {file}
    /\ UNCHANGED <<starts, file, faults>>

DaemonDies == Down(Held, content)

\* What was not synced is not all there afterwards.
PowerIsLost == Down({}, [i \in Inodes |-> IF i \in synced THEN content[i] ELSE Torn])

Next ==
    \/ Open \/ DaemonDies \/ PowerIsLost
    \/ \E s \in Sessions : ShellExits(s)
    \/ \E c \in Calls :
         \/ \E s \in Sessions : NewSession(c, s) \/ KillSession(c, s) \/ RenameSession(c, s)
         \/ NoSpawnCwd(c) \/ Mutate(c)
         \/ OpenTmp(c) \/ WriteAll(c) \/ SyncAll(c) \/ RenameTmp(c) \/ WriteFails(c)

Spec == Init /\ [][Next]_vars
-----------------------------------------------------------------------------
Call == [at: {"idle", "mutate", "open", "write", "sync", "rename"},
         op: {"create", "forget", "rename", None}, id: Sessions \cup {None},
         snap: Praca, inode: Inodes \cup {None}]

TypeOK ==
    /\ up \in BOOLEAN /\ starts \in 0..MaxStarts
    /\ session \in [Sessions -> {"no", "live", "killed", "exited"}] /\ missed \subseteq Sessions
    /\ praca \in Praca
    /\ call \in [Calls -> Call]
    /\ tmp \in Inodes \cup {None} /\ file \in Inodes \cup {None}
    /\ content \in [Inodes -> Text] /\ synced \subseteq Inodes
    /\ overlapped \in BOOLEAN /\ failed \in BOOLEAN

\* A place that is bound to a session is the place of that session's record: whatever is
\* created, killed, rebound or reloaded, in any order, no binding points at a session the
\* index does not have or has for another place.
PlacesAgree == \A a \in Anchors, s \in Sessions :
    praca.binding[a] = s => praca.index[s] # None /\ praca.index[s].root = a

\* When nothing is being persisted, the document is the memory: a restart loses nothing,
\* unless the disk failed last or two requests have persisted at once.
Remembers ==
    up /\ Writers = {} /\ ~overlapped /\ ~failed => Loaded(file, content) = praca

\* What a reload would find changes only by a rename, to the document just written, through
\* crashes, power loss and full disks: it is the old one or the new one (unless two overlapped).
OldOrNew == [][
    overlapped' \/ Loaded(file, content)' = Loaded(file, content)
    \/ \E c \in Calls : call[c].at = "rename" /\ Loaded(file, content)' = call[c].snap]_vars

\* A killed session has no record and no binding once its kill has been noted, but for one
\* killed before its creation was recorded and one that a document behind the memory brought back.
KilledAreForgotten == \A s \in Sessions :
    praca.index[s] # None /\ session[s] = "killed" =>
        s \in missed \/ \E c \in Calls : call[c].op = "forget" /\ call[c].id = s /\ call[c].at = "mutate"

\* The index is sound: it binds no place to a session that it does not have there, and
\* has no session that was killed.
IndexIsSound == PlacesAgree /\ KilledAreForgotten
=============================================================================
