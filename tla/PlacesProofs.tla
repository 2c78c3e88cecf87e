---------------------------- MODULE PlacesProofs ----------------------------
(* Proofs about Places, for every value of its constants.                  *)
EXTENDS Places, FiniteSetTheorems, TLAPS

\* A request that is about to change the memory says how and for which session; only
\* one that has opened the temporary file holds an inode; none outlives the daemon.
CallsAreSane ==
    /\ ~up => \A c \in Calls : call[c] = Idle
    /\ \A c \in Calls : call[c].at = "mutate" =>
           call[c].op \in {"create", "forget", "rename"} /\ call[c].id \in Sessions
    /\ \A c \in Calls : call[c].at \in {"idle", "mutate", "open"} => call[c].inode = None
    /\ \A c \in Calls : call[c].at \in {"write", "sync", "rename"} => call[c].inode \in Inodes

CreatesOnce ==
    /\ \A c, d \in Calls :
           /\ call[c].at = "mutate" /\ call[c].op = "create"
           /\ call[d].at = "mutate" /\ call[d].op = "create"
           /\ call[c].id = call[d].id
           => c = d
    /\ \A s \in Sessions : Creating(s) =>
           session[s] # "no" /\ (session[s] = "live" \/ s \in missed)

\* A document binds a place only to a session that it has there ...
Agrees(p) == \A a \in Anchors, s \in Sessions :
    p.binding[a] = s => p.index[s] # None /\ p.index[s].root = a

\* ... and has only sessions whose creation was recorded.
Recorded(p) == \A s \in Sessions : p.index[s] # None => session[s] # "no" /\ ~Creating(s)

Sound(p) == Agrees(p) /\ Recorded(p)

\* The memory, every copy of it and everything on the disk.
DocsAreSound ==
    /\ Sound(praca)
    /\ \A c \in Calls : Sound(call[c].snap)
    /\ \A i \in Inodes : Sound(content[i].doc)

\* While the daemon is down, the document has killed sessions only if their kill was missed.
KillsAreMissed == ~up => \A s \in Sessions :
    Loaded(file, content).index[s] # None /\ session[s] = "killed" => s \in missed

IndexInv == CallsAreSane /\ CreatesOnce /\ DocsAreSound /\ KilledAreForgotten /\ KillsAreMissed

\* How far the one request is that persists, and what it has written.
WriterInv(c) ==
    /\ call[c].snap = praca
    /\ call[c].at = "open" => tmp = None
    /\ call[c].at # "open" => tmp = call[c].inode
    /\ call[c].at = "write" => content[tmp] = Empty
    /\ call[c].at \in {"sync", "rename"} => content[tmp] = Whole(call[c].snap)
    /\ call[c].at = "rename" => tmp \in synced

\* Requests that persist one at a time.
OneAtATime == ~overlapped =>
    /\ \A c, d \in Writers : c = d
    /\ \A c \in Writers : WriterInv(c)
    /\ Writers = {} => tmp = None
    /\ file # None => file \in synced

DiskInv == (tmp # None => tmp # file) /\ OneAtATime /\ Remembers

IndInv == TypeOK /\ IndexInv /\ DiskInv
-----------------------------------------------------------------------------
LEMMA Constants ==
    /\ None \notin Sessions /\ None \notin Anchors /\ None \notin Inodes /\ None \notin Record
    /\ Held \subseteq Sessions /\ MaxStarts \in Nat
BY ConstantsAssumption

\* What the documents and texts of the model are.
LEMMA DocTypes ==
    /\ NewPraca \in Praca /\ Empty \in Text /\ Torn \in Text
    /\ \A p \in Praca : Whole(p) \in Text /\ Whole(p).kind = "whole" /\ Whole(p).doc = p
    /\ \A p \in Praca, s \in Sessions :
           /\ Forget(p, s) \in Praca /\ Rename(p, s) \in Praca
           /\ \A a \in Anchors : Remember(p, s, a) \in Praca
<1>1. NewPraca \in Praca
  BY DEF NewPraca, Praca
<1>2. Empty \in Text /\ Torn \in Text
  BY <1>1 DEF Empty, Torn, Text
<1>3. \A p \in Praca : Whole(p) \in Text /\ Whole(p).kind = "whole" /\ Whole(p).doc = p
  BY DEF Whole, Text
<1>4. ASSUME NEW p \in Praca, NEW s \in Sessions
      PROVE  /\ Forget(p, s) \in Praca /\ Rename(p, s) \in Praca
             /\ \A a \in Anchors : Remember(p, s, a) \in Praca
  <2>1. \A a \in Anchors : Remember(p, s, a) \in Praca
    BY <1>4 DEF Remember, Praca, Record
  <2>2. Forget(p, s) \in Praca
    BY <1>4 DEF Forget, Praca
  <2>3. Rename(p, s) \in Praca
    BY <1>4 DEF Rename, Praca, Record
  <2>. QED
    BY <2>1, <2>2, <2>3
<1>. QED
  BY <1>1, <1>2, <1>3, <1>4

\* There is an inode for a new temporary file.
LEMMA FreeInodeLemma ==
    ASSUME TypeOK, tmp = None
    PROVE  /\ FreeInode \in Inodes /\ FreeInode # file
           /\ \A c \in Calls : FreeInode # call[c].inode
<1>. DEFINE f    == [c \in Calls |-> call[c].inode]
            Taken == {call[c].inode : c \in Calls}
<1>1. f \in Surjection(Calls, Taken)
  BY DEF Surjection
<1>2. IsFiniteSet(Taken) /\ Cardinality(Taken) <= Cardinality(Calls)
  BY <1>1, FS_Surjection, ConstantsAssumption
<1>3. IsFiniteSet(Taken \cup {file}) /\ Cardinality(Taken \cup {file}) <= Cardinality(Calls) + 1
  <2>1. Cardinality(Taken) \in Nat /\ Cardinality(Calls) \in Nat
    BY <1>2, ConstantsAssumption, FS_CardinalityType
  <2>2. IsFiniteSet(Taken \cup {file})
        /\ Cardinality(Taken \cup {file}) = IF file \in Taken THEN Cardinality(Taken) ELSE Cardinality(Taken) + 1
    BY <1>2, FS_AddElement
  <2>. QED
    BY <1>2, <2>1, <2>2
<1>4. ~(Inodes \subseteq Taken \cup {file})
  <2>. SUFFICES ASSUME Inodes \subseteq Taken \cup {file} PROVE FALSE
    OBVIOUS
  <2>1. Cardinality(Inodes) <= Cardinality(Taken \cup {file})
    BY <1>3, FS_Subset
  <2>2. Cardinality(Inodes) \in Nat /\ Cardinality(Calls) \in Nat /\ Cardinality(Taken \cup {file}) \in Nat
    BY <1>3, ConstantsAssumption, FS_CardinalityType
  <2>. QED
    BY <1>3, <2>1, <2>2, ConstantsAssumption
<1>5. PICK i \in Inodes : i \notin Taken \cup {file}
  BY <1>4
<1>6. i \notin {tmp, file} \cup {call[c].inode : c \in Calls}
  BY <1>5, Constants
<1>. QED
  BY <1>5, <1>6 DEF FreeInode

\* Before a daemon has started there is nothing.
LEMMA InitInd == Init => IndInv
<1>. SUFFICES ASSUME Init PROVE IndInv
  OBVIOUS
<1>1. TypeOK
  <2>1. Idle \in Call
    BY DocTypes DEF Idle, Call
  <2>2. call \in [Calls -> Call] /\ content \in [Inodes -> Text] /\ praca \in Praca
    BY <2>1, DocTypes DEF Init
  <2>3. starts \in 0..MaxStarts
    BY Constants DEF Init
  <2>. QED
    BY <2>2, <2>3 DEF Init, TypeOK
<1>2. \A c \in Calls : call[c].at = "idle" /\ call[c].inode = None /\ call[c].snap = NewPraca
  BY DEF Init, Idle
<1>3. Writers = {}
  BY <1>2 DEF Writers
<1>4. CallsAreSane /\ CreatesOnce
  BY <1>2 DEF Init, CallsAreSane, CreatesOnce, Creating
<1>5. Sound(NewPraca)
  BY Constants DEF Sound, Agrees, Recorded, NewPraca
<1>6. DocsAreSound
  BY <1>2, <1>5 DEF DocsAreSound, Init, Empty
<1>7. KilledAreForgotten /\ KillsAreMissed
  BY DEF Init, KilledAreForgotten, KillsAreMissed
<1>8. DiskInv
  BY <1>3 DEF Init, DiskInv, OneAtATime, Remembers
<1>. QED
  BY <1>1, <1>4, <1>6, <1>7, <1>8 DEF IndInv, IndexInv
-----------------------------------------------------------------------------
\* A request that has got further is still one.
LEMMA CallLemma ==
    ASSUME TypeOK, CallsAreSane, NEW c \in Calls
    PROVE  /\ Idle \in Call /\ call[c] \in Call
           /\ \A at \in {"idle", "mutate", "open", "write", "sync", "rename"} :
                  [call[c] EXCEPT !.at = at] \in Call
           /\ \A i \in Inodes \cup {None} : [call[c] EXCEPT !.at = "write", !.inode = i] \in Call
           /\ \A p \in Praca : [call[c] EXCEPT !.at = "open", !.snap = p] \in Call
           /\ \A op \in {"create", "forget", "rename"}, s \in Sessions :
                  [Idle EXCEPT !.at = "mutate", !.op = op, !.id = s] \in Call
<1>1. call[c] \in Call
  BY DEF TypeOK
<1>2. Idle \in Call
  BY DocTypes DEF Idle, Call
<1>. QED
  BY <1>1, <1>2 DEF Call

\* What a request makes of the memory.
LEMMA ChangedLemma ==
    ASSUME TypeOK, CallsAreSane, NEW c \in Calls, call[c].at = "mutate", NEW p \in Changed(call[c])
    PROVE  /\ p \in Praca /\ call[c].id \in Sessions
           /\ \/ call[c].op = "create" /\ \E a \in Anchors : p = Remember(praca, call[c].id, a)
              \/ call[c].op = "forget" /\ p = Forget(praca, call[c].id)
              \/ call[c].op = "rename" /\ p = Rename(praca, call[c].id)
<1>1. call[c].op \in {"create", "forget", "rename"} /\ call[c].id \in Sessions
  BY DEF CallsAreSane
<1>2. \/ call[c].op = "create" /\ \E a \in Anchors : p = Remember(praca, call[c].id, a)
      \/ call[c].op = "forget" /\ p = Forget(praca, call[c].id)
      \/ call[c].op = "rename" /\ p = Rename(praca, call[c].id)
  BY <1>1 DEF Changed
<1>3. praca \in Praca
  BY DEF TypeOK
<1>. QED
  BY <1>1, <1>2, <1>3, DocTypes

\* What a reload finds is a document that was on the disk, or nothing.
LEMMA LoadedLemma ==
    ASSUME NEW f \in Inodes \cup {None}, NEW text \in [Inodes -> Text]
    PROVE  /\ Loaded(f, text) \in Praca
           /\ Loaded(f, text) = NewPraca \/ \E i \in Inodes : Loaded(f, text) = text[i].doc
<1>1. \A i \in Inodes : text[i].doc \in Praca
  BY DEF Text
<1>. QED
  BY <1>1, DocTypes DEF Loaded

\* Every variable keeps its type.
LEMMA TypeKept ==
    ASSUME TypeOK, CallsAreSane, [Next]_vars PROVE TypeOK'
<1>. USE DEF TypeOK
<1>1. \A is : Kept(is, content) \in [Inodes -> Text]
  BY DocTypes DEF Kept
<1>2. CASE UNCHANGED vars
  BY <1>2 DEF vars, daemon, mux, disk, faults
<1>3. CASE Open
  <2>1. praca' \in Praca
    BY <1>3, LoadedLemma DEF Open
  <2>2. starts' \in 0..MaxStarts
    BY <1>3, Constants DEF Open
  <2>. QED
    BY <1>3, <2>1, <2>2 DEF Open, mux, disk
<1>4. ASSUME NEW survivors, NEW text \in [Inodes -> Text], Down(survivors, text) PROVE TypeOK'
  <2>1. Kept({file}, text) \in [Inodes -> Text]
    BY DocTypes DEF Kept
  <2>2. [c \in Calls |-> Idle] \in [Calls -> Call]
    BY CallLemma
  <2>. QED
    BY <1>4, <2>1, <2>2, DocTypes DEF Down, faults
<1>5. CASE DaemonDies
  BY <1>4, <1>5 DEF DaemonDies
<1>6. CASE PowerIsLost
  <2>1. [i \in Inodes |-> IF i \in synced THEN content[i] ELSE Torn] \in [Inodes -> Text]
    BY DocTypes
  <2>. QED
    BY <1>4, <1>6, <2>1 DEF PowerIsLost
<1>7. ASSUME NEW s \in Sessions, ShellExits(s) PROVE TypeOK'
  BY <1>7 DEF ShellExits, End, daemon, disk, faults
<1>8. ASSUME NEW c \in Calls, NEW s \in Sessions,
             NewSession(c, s) \/ KillSession(c, s) \/ RenameSession(c, s) PROVE TypeOK'
  <2>1. PICK op \in {"create", "forget", "rename"} :
            call' = [call EXCEPT ![c] = [Idle EXCEPT !.at = "mutate", !.op = op, !.id = s]]
    BY <1>8 DEF NewSession, KillSession, RenameSession, Begin
  <2>2. call' \in [Calls -> Call]
    BY <2>1, CallLemma
  <2>. QED
    BY <1>8, <2>2 DEF NewSession, KillSession, RenameSession, End, daemon, mux, disk, faults
<1>9. ASSUME NEW c \in Calls, NoSpawnCwd(c) PROVE TypeOK'
  BY <1>9, CallLemma DEF NoSpawnCwd, daemon, mux, disk, faults
<1>10. ASSUME NEW c \in Calls, Mutate(c) PROVE TypeOK'
  <2>1. praca' \in Praca
    BY <1>10, ChangedLemma DEF Mutate
  <2>2. call' \in [Calls -> Call]
    BY <1>10, <2>1, CallLemma DEF Mutate
  <2>. QED
    BY <1>10, <2>1, <2>2 DEF Mutate, daemon, mux, disk
<1>11. ASSUME NEW c \in Calls, OpenTmp(c) PROVE TypeOK'
  <2>1. PICK i \in Inodes : /\ tmp' = i /\ content' = [content EXCEPT ![i] = Empty]
                            /\ synced' = synced \ {i}
                            /\ call' = [call EXCEPT ![c] = [call[c] EXCEPT !.at = "write", !.inode = i]]
    BY <1>11, FreeInodeLemma DEF OpenTmp
  <2>2. call' \in [Calls -> Call]
    BY <2>1, CallLemma
  <2>. QED
    BY <1>11, <2>1, <2>2, DocTypes DEF OpenTmp, daemon, mux, faults
<1>12. ASSUME NEW c \in Calls, WriteAll(c) PROVE TypeOK'
  <2>1. call[c].snap \in Praca
    BY DEF Call
  <2>2. Whole(call[c].snap) \in Text
    BY <2>1, DocTypes
  <2>3. content' \in [Inodes -> Text]
    BY <1>12, <2>2, DocTypes DEF WriteAll
  <2>4. call' \in [Calls -> Call]
    BY <1>12, CallLemma DEF WriteAll
  <2>. QED
    BY <1>12, <2>3, <2>4 DEF WriteAll, daemon, mux, faults
<1>13. ASSUME NEW c \in Calls, SyncAll(c) PROVE TypeOK'
  <2>1. call[c].inode \in Inodes
    BY <1>13 DEF SyncAll, CallsAreSane
  <2>. QED
    BY <1>13, <2>1, CallLemma DEF SyncAll, daemon, mux, faults
<1>14. ASSUME NEW c \in Calls, RenameTmp(c) PROVE TypeOK'
  BY <1>1, <1>14, CallLemma DEF RenameTmp, daemon, mux
<1>15. ASSUME NEW c \in Calls, WriteFails(c) PROVE TypeOK'
  <2>1. [content EXCEPT ![call[c].inode] = Torn] \in [Inodes -> Text]
    BY DocTypes
  <2>2. content' \in [Inodes -> Text]
    BY <1>15, <2>1, DocTypes DEF WriteFails, Kept
  <2>. QED
    BY <1>15, <2>2, CallLemma DEF WriteFails, daemon, mux
<1>. QED
  BY <1>2, <1>3, <1>5, <1>6, <1>7, <1>8, <1>9, <1>10, <1>11, <1>12, <1>13, <1>14, <1>15 DEF Next
-----------------------------------------------------------------------------
\* The steps of a request after it has changed the memory.
Persists(c) == OpenTmp(c) \/ WriteAll(c) \/ SyncAll(c) \/ RenameTmp(c) \/ WriteFails(c)

\* They leave sessions and memory alone, and what waits to change it.
LEMMA PersistLemma ==
    ASSUME TypeOK, CallsAreSane, NEW c \in Calls, Persists(c)
    PROVE  /\ UNCHANGED <<up, session, missed, praca>>
           /\ call[c].at \in {"open", "write", "sync", "rename"} /\ call'[c].at # "mutate"
           /\ \A d \in Calls : d # c => call'[d] = call[d]
           /\ call'[c].snap \in {call[c].snap, NewPraca}
<1>1. call[c] \in Call
  BY DEF TypeOK
<1>2. \/ call' = [call EXCEPT ![c] = Idle]
      \/ call' = [call EXCEPT ![c].at = "sync"] \/ call' = [call EXCEPT ![c].at = "rename"]
      \/ \E i : call' = [call EXCEPT ![c].at = "write", ![c].inode = i]
  BY DEF Persists, OpenTmp, WriteAll, SyncAll, RenameTmp, WriteFails
<1>3. Idle.at # "mutate" /\ Idle.snap = NewPraca
  BY DEF Idle
<1>4. /\ UNCHANGED <<up, session, missed, praca>>
      /\ call[c].at \in {"open", "write", "sync", "rename"}
  BY DEF Persists, OpenTmp, WriteAll, SyncAll, RenameTmp, WriteFails, daemon, mux
<1>. QED
  BY <1>1, <1>2, <1>3, <1>4 DEF TypeOK, Call

\* A step is one of these: the cases of the lemmas below.
LEMMA StepLemma ==
    ASSUME TypeOK, CallsAreSane, [Next]_vars
    PROVE  \/ UNCHANGED vars \/ Open
           \/ \E survivors \in SUBSET Sessions, text \in [Inodes -> Text] :
                  /\ Down(survivors, text)
                  /\ \A i \in synced : text[i] = content[i]
           \/ \E s \in Sessions : ShellExits(s)
           \/ \E c \in Calls : NoSpawnCwd(c) \/ Mutate(c) \/ Persists(c)
           \/ \E c \in Calls, s \in Sessions : NewSession(c, s) \/ KillSession(c, s) \/ RenameSession(c, s)
<1>1. CASE DaemonDies
  BY <1>1, ConstantsAssumption DEF DaemonDies, TypeOK
<1>2. CASE PowerIsLost
  <2>. DEFINE text == [i \in Inodes |-> IF i \in synced THEN content[i] ELSE Torn]
  <2>1. text \in [Inodes -> Text] /\ \A i \in synced : text[i] = content[i]
    BY DocTypes DEF TypeOK
  <2>. QED
    BY <1>2, <2>1 DEF PowerIsLost
<1>. QED
  BY <1>1, <1>2 DEF Next, Persists

\* What a request is that has begun.
LEMMA BeginLemma ==
    ASSUME TypeOK, NEW c \in Calls, NEW s \in Sessions, NEW op, Begin(c, op, s)
    PROVE  /\ call'[c].at = "mutate" /\ call'[c].op = op /\ call'[c].id = s
           /\ call'[c].inode = None /\ call'[c].snap = NewPraca
           /\ up /\ call[c].at = "idle" /\ \A d \in Calls : d # c => call'[d] = call[d]
BY DEF Begin, Idle, TypeOK

\* Requests stay sane.
LEMMA CallsKept ==
    ASSUME TypeOK, IndexInv, [Next]_vars PROVE CallsAreSane' /\ CreatesOnce'
<1>. USE DEF IndexInv, CallsAreSane, CreatesOnce
<1>0. \A c \in Calls : call[c] \in Call /\ Idle.at = "idle" /\ Idle.inode = None
  BY DEF TypeOK, Idle
<1>1. CASE UNCHANGED vars
  BY <1>1 DEF vars, daemon, mux, Creating
<1>2. CASE Open
  BY <1>2 DEF Open, mux, Creating, Idle
<1>3. ASSUME NEW survivors, NEW text, Down(survivors, text) PROVE CallsAreSane' /\ CreatesOnce'
  BY <1>0, <1>3 DEF Down, Creating
<1>4. ASSUME NEW s \in Sessions, ShellExits(s) PROVE CallsAreSane' /\ CreatesOnce'
  <2>1. /\ UNCHANGED <<up, call>> /\ missed \subseteq missed' /\ up
        /\ \A t \in Sessions : session'[t] = session[t] \/ (t = s /\ session[t] = "live" /\ session'[t] = "exited")
    BY <1>4 DEF ShellExits, End, daemon, TypeOK
  <2>2. Creating(s) => s \in missed'
    BY <1>4 DEF ShellExits, End
  <2>. QED
    BY <2>1, <2>2 DEF Creating
<1>5. ASSUME NEW c \in Calls, NEW s \in Sessions, NewSession(c, s) PROVE CallsAreSane' /\ CreatesOnce'
  <2>1. Begin(c, "create", s) /\ session[s] = "no" /\ session' = [session EXCEPT ![s] = "live"]
        /\ UNCHANGED <<missed, up>>
    BY <1>5 DEF NewSession, daemon
  <2>. QED
    BY <1>0, <2>1, BeginLemma DEF TypeOK, Creating
<1>6. ASSUME NEW c \in Calls, NEW s \in Sessions, KillSession(c, s) PROVE CallsAreSane' /\ CreatesOnce'
  <2>1. Begin(c, "forget", s) /\ End(s, "killed") /\ UNCHANGED up
    BY <1>6 DEF KillSession, daemon
  <2>. QED
    BY <1>0, <2>1, BeginLemma DEF TypeOK, Creating, End
<1>7. ASSUME NEW c \in Calls, NEW s \in Sessions, RenameSession(c, s) PROVE CallsAreSane' /\ CreatesOnce'
  <2>1. Begin(c, "rename", s) /\ UNCHANGED <<up, session, missed>>
    BY <1>7 DEF RenameSession, daemon, mux
  <2>. QED
    BY <1>0, <2>1, BeginLemma DEF TypeOK, Creating
<1>8. ASSUME NEW c \in Calls, NoSpawnCwd(c) PROVE CallsAreSane' /\ CreatesOnce'
  <2>1. call[c].at = "mutate" /\ call' = [call EXCEPT ![c] = Idle] /\ UNCHANGED <<up, session, missed>>
    BY <1>8 DEF NoSpawnCwd, daemon, mux
  <2>. QED
    BY <1>0, <2>1 DEF TypeOK, Creating
<1>9. ASSUME NEW c \in Calls, Mutate(c) PROVE CallsAreSane' /\ CreatesOnce'
  <2>1. call[c].at = "mutate" /\ call' = [call EXCEPT ![c].at = "open", ![c].snap = praca']
        /\ UNCHANGED <<up, session, missed>>
    BY <1>9 DEF Mutate, daemon, mux
  <2>2. call'[c].at = "open" /\ call'[c].inode = None /\ \A d \in Calls : d # c => call'[d] = call[d]
    BY <1>0, <2>1 DEF TypeOK, Call
  <2>. QED
    BY <1>0, <2>1, <2>2 DEF TypeOK, Creating
<1>10. ASSUME NEW c \in Calls, Persists(c) PROVE CallsAreSane' /\ CreatesOnce'
  <2>1. CreatesOnce'
    BY <1>10, PersistLemma DEF Creating
  <2>2. call'[c].at \in {"idle", "mutate", "open"} => call'[c].inode = None
    <3>1. call'[c] = Idle \/ call'[c].at \in {"write", "sync", "rename"}
      BY <1>0, <1>10 DEF Persists, OpenTmp, WriteAll, SyncAll, RenameTmp, WriteFails, TypeOK, Call
    <3>. QED
      BY <1>0, <3>1
  <2>3. call'[c].at \in {"write", "sync", "rename"} => call'[c].inode \in Inodes
    <3>1. CASE OpenTmp(c)
      BY <1>0, <3>1, FreeInodeLemma DEF OpenTmp, TypeOK, Call
    <3>2. CASE WriteAll(c) \/ SyncAll(c)
      <4>1. call[c].at \in {"write", "sync"} /\ call'[c].inode = call[c].inode
        BY <1>0, <3>2 DEF WriteAll, SyncAll, TypeOK, Call
      <4>. QED
        BY <4>1
    <3>3. CASE RenameTmp(c) \/ WriteFails(c)
      BY <1>0, <3>3 DEF RenameTmp, WriteFails, TypeOK
    <3>. QED
      BY <1>10, <3>1, <3>2, <3>3 DEF Persists
  <2>4. /\ UNCHANGED up /\ call[c] # Idle /\ call'[c].at # "mutate"
        /\ \A d \in Calls : d # c => call'[d] = call[d]
    BY <1>0, <1>10, PersistLemma
  <2>. QED
    BY <2>1, <2>2, <2>3, <2>4
<1>. QED
  BY <1>1, <1>2, <1>3, <1>4, <1>5, <1>6, <1>7, <1>8, <1>9, <1>10, StepLemma
-----------------------------------------------------------------------------
\* What the hooks make of a document that binds places to their sessions.
LEMMA AgreesLemma ==
    /\ Agrees(NewPraca)
    /\ \A p \in Praca, s \in Sessions : Agrees(p) =>
           /\ Agrees(Forget(p, s)) /\ Agrees(Rename(p, s))
           /\ p.index[s] = None => \A a \in Anchors : Agrees(Remember(p, s, a))
<1>1. Agrees(NewPraca)
  BY Constants DEF Agrees, NewPraca
<1>. SUFFICES ASSUME NEW p \in Praca, NEW s \in Sessions, Agrees(p)
              PROVE  /\ Agrees(Forget(p, s)) /\ Agrees(Rename(p, s))
                     /\ p.index[s] = None => \A a \in Anchors : Agrees(Remember(p, s, a))
  BY <1>1
<1>2. /\ p.index \in [Sessions -> Record \cup {None}]
      /\ p.binding \in [Anchors -> Sessions \cup {None}]
  BY DEF Praca
<1>3. Agrees(Forget(p, s))
  BY <1>2, Constants DEF Agrees, Forget
<1>4. Agrees(Rename(p, s))
  <2>. SUFFICES ASSUME p.index[s] # None PROVE Agrees([p EXCEPT !.index[s].name = "given"])
    BY DEF Rename
  <2>1. p.index[s] \in Record
    BY <1>2
  <2>2. [p.index[s] EXCEPT !.name = "given"] \in Record
        /\ [p.index[s] EXCEPT !.name = "given"].root = p.index[s].root
    BY <2>1 DEF Record
  <2>3. /\ [p EXCEPT !.index[s].name = "given"].binding = p.binding
        /\ [p EXCEPT !.index[s].name = "given"].index =
               [p.index EXCEPT ![s] = [p.index[s] EXCEPT !.name = "given"]]
    BY DEF Praca
  <2>. QED
    BY <1>2, <2>2, <2>3, Constants DEF Agrees
<1>5. ASSUME p.index[s] = None, NEW a \in Anchors PROVE Agrees(Remember(p, s, a))
  <2>1. [root |-> a, name |-> "auto"] \in Record
    BY DEF Record
  <2>. QED
    BY <1>2, <1>5, <2>1, Constants DEF Agrees, Remember
<1>. QED
  BY <1>3, <1>4, <1>5

\* The sessions that a document has after a hook.
LEMMA IndexLemma ==
    ASSUME NEW p \in Praca, NEW s \in Sessions
    PROVE  \A t \in Sessions :
               /\ Forget(p, s).index[t] = IF t = s THEN None ELSE p.index[t]
               /\ Rename(p, s).index[t] # None <=> p.index[t] # None
               /\ \A a \in Anchors : Remember(p, s, a).index[t] # None => t = s \/ p.index[t] # None
<1>1. p.index \in [Sessions -> Record \cup {None}]
  BY DEF Praca
<1>2. \A t \in Sessions : Forget(p, s).index[t] = IF t = s THEN None ELSE p.index[t]
  BY <1>1 DEF Forget
<1>3. \A t \in Sessions, a \in Anchors : Remember(p, s, a).index[t] # None => t = s \/ p.index[t] # None
  BY <1>1 DEF Remember
<1>4. \A t \in Sessions : Rename(p, s).index[t] # None <=> p.index[t] # None
  <2>. SUFFICES ASSUME p.index[s] # None
                PROVE  \A t \in Sessions : [p EXCEPT !.index[s].name = "given"].index[t] # None
                                              <=> p.index[t] # None
    BY DEF Rename
  <2>1. [p EXCEPT !.index[s].name = "given"].index =
               [p.index EXCEPT ![s] = [p.index[s] EXCEPT !.name = "given"]]
    BY DEF Praca
  <2>2. p.index[s] \in Record
    BY <1>1
  <2>3. [p.index[s] EXCEPT !.name = "given"] # None
    BY <2>2, Constants DEF Record
  <2>. QED
    BY <1>1, <2>1, <2>3
<1>. QED
  BY <1>2, <1>3, <1>4

\* A session that there has been is not created again.
LEMMA MonotoneLemma ==
    ASSUME TypeOK, IndexInv, [Next]_vars, NEW s \in Sessions, session[s] # "no"
    PROVE  session'[s] # "no" /\ (~Creating(s) => ~Creating(s)')
<1>. DEFINE Goal == session'[s] # "no" /\ (~Creating(s) => ~Creating(s)')
<1>1. CASE UNCHANGED vars
  BY <1>1 DEF vars, mux, Creating
<1>2. CASE Open
  BY <1>2 DEF Open, mux, Creating
<1>3. ASSUME NEW survivors, NEW text, Down(survivors, text) PROVE Goal
  BY <1>3 DEF Down, Creating, Idle
<1>4. ASSUME NEW t \in Sessions, ShellExits(t) PROVE Goal
  BY <1>4 DEF ShellExits, End, Creating, TypeOK
<1>5. ASSUME NEW c \in Calls, NEW t \in Sessions, NewSession(c, t) PROVE Goal
  <2>1. Begin(c, "create", t) /\ session[t] = "no" /\ session' = [session EXCEPT ![t] = "live"]
    BY <1>5 DEF NewSession
  <2>. QED
    BY <2>1, BeginLemma DEF Creating, TypeOK
<1>6. ASSUME NEW c \in Calls, NEW t \in Sessions, KillSession(c, t) PROVE Goal
  <2>1. Begin(c, "forget", t) /\ session' = [session EXCEPT ![t] = "killed"]
    BY <1>6 DEF KillSession, End
  <2>. QED
    BY <2>1, BeginLemma DEF Creating, TypeOK
<1>7. ASSUME NEW c \in Calls, NEW t \in Sessions, RenameSession(c, t) PROVE Goal
  <2>1. Begin(c, "rename", t) /\ session' = session
    BY <1>7 DEF RenameSession, mux
  <2>. QED
    BY <2>1, BeginLemma DEF Creating
<1>8. ASSUME NEW c \in Calls, NoSpawnCwd(c) \/ Mutate(c) PROVE Goal
  <2>1. /\ call'[c].at # "mutate" /\ \A d \in Calls : d # c => call'[d] = call[d]
        /\ session' = session
    BY <1>8 DEF NoSpawnCwd, Mutate, mux, Idle, TypeOK, Call
  <2>. QED
    BY <2>1 DEF Creating
<1>9. ASSUME NEW c \in Calls, Persists(c) PROVE Goal
  BY <1>9, PersistLemma DEF IndexInv, Creating
<1>. QED
  BY <1>1, <1>2, <1>3, <1>4, <1>5, <1>6, <1>7, <1>8, <1>9, StepLemma DEF IndexInv

\* A document that was sound stays so.
LEMMA StaysSound ==
    ASSUME TypeOK, IndexInv, [Next]_vars
    PROVE  \A p : Sound(p) => Agrees(p) /\ \A s \in Sessions :
               p.index[s] # None => session'[s] # "no" /\ ~Creating(s)'
BY MonotoneLemma DEF Sound, Recorded

\* Whatever is in memory, in a copy or on the disk after a step was there before it, is
\* empty, or is what the step has made of the memory.
LEMMA DocsLemma ==
    ASSUME TypeOK, CallsAreSane, [Next]_vars
    PROVE  LET Before == {NewPraca, praca} \cup {call[c].snap : c \in Calls}
                             \cup {content[i].doc : i \in Inodes}
               Known  == Before \cup {praca'}
           IN  /\ praca' \in Before \/ \E c \in Calls : Mutate(c)
               /\ \A c \in Calls : call'[c].snap \in Known
               /\ \A i \in Inodes : content'[i].doc \in Known
<1>. DEFINE Before == {NewPraca, praca} \cup {call[c].snap : c \in Calls}
                         \cup {content[i].doc : i \in Inodes}
            Known  == Before \cup {praca'}
            Goal   == /\ praca' \in Before \/ \E c \in Calls : Mutate(c)
                      /\ \A c \in Calls : call'[c].snap \in Known
                      /\ \A i \in Inodes : content'[i].doc \in Known
<1>0. Idle.snap = NewPraca /\ Empty.doc = NewPraca /\ Torn.doc = NewPraca
  BY DEF Idle, Empty, Torn
<1>1. CASE UNCHANGED vars
  BY <1>1 DEF vars, disk
<1>2. CASE Open
  BY <1>2, LoadedLemma DEF Open, disk, TypeOK
<1>3. ASSUME NEW text \in [Inodes -> Text], NEW survivors, Down(survivors, text),
             \A i \in Inodes : text[i].doc \in Before
      PROVE  Goal
  BY <1>0, <1>3 DEF Down, Kept
<1>4. CASE DaemonDies
  BY <1>3, <1>4 DEF DaemonDies, TypeOK
<1>5. CASE PowerIsLost
  <2>. DEFINE text == [i \in Inodes |-> IF i \in synced THEN content[i] ELSE Torn]
  <2>1. text \in [Inodes -> Text] /\ \A i \in Inodes : text[i].doc \in Before
    BY <1>0, DocTypes DEF TypeOK
  <2>. QED
    BY <1>3, <1>5, <2>1 DEF PowerIsLost
<1>6. ASSUME NEW s \in Sessions, ShellExits(s) PROVE Goal
  BY <1>6 DEF ShellExits, disk
<1>7. ASSUME NEW c \in Calls, NEW s \in Sessions, NewSession(c, s) \/ KillSession(c, s) \/ RenameSession(c, s)
      PROVE  Goal
  <2>1. PICK op : Begin(c, op, s) /\ UNCHANGED <<praca, content>>
    BY <1>7 DEF NewSession, KillSession, RenameSession, disk
  <2>. QED
    BY <2>1, BeginLemma
<1>8. ASSUME NEW c \in Calls, NoSpawnCwd(c) PROVE Goal
  BY <1>0, <1>8 DEF NoSpawnCwd, disk, TypeOK
<1>9. ASSUME NEW c \in Calls, Mutate(c) PROVE Goal
  BY <1>9 DEF Mutate, disk, TypeOK, Call
<1>10. ASSUME NEW c \in Calls, Persists(c) PROVE Goal
  <2>1. UNCHANGED praca /\ \A d \in Calls : call'[d].snap \in Known
    BY <1>10, PersistLemma
  <2>2. call[c].snap \in Praca
    BY DEF TypeOK, Call
  <2>3. \A i \in Inodes : content'[i].doc \in Known
    <3>1. CASE OpenTmp(c)
      BY <1>0, <3>1 DEF OpenTmp, TypeOK
    <3>2. CASE WriteAll(c)
      <4>1. Whole(call[c].snap).doc = call[c].snap
        BY DEF Whole
      <4>. QED
        BY <1>0, <3>2, <4>1 DEF WriteAll, TypeOK
    <3>3. CASE SyncAll(c)
      BY <3>3 DEF SyncAll
    <3>4. CASE RenameTmp(c)
      BY <1>0, <3>4 DEF RenameTmp, Kept
    <3>5. CASE WriteFails(c)
      BY <1>0, <3>5 DEF WriteFails, Kept, TypeOK
    <3>. QED
      BY <1>10, <3>1, <3>2, <3>3, <3>4, <3>5 DEF Persists
  <2>. QED
    BY <2>1, <2>3
<1>. QED
  BY <1>1, <1>2, <1>4, <1>5, <1>6, <1>7, <1>8, <1>9, <1>10 DEF Next, Persists

\* A request leaves a sound memory.
LEMMA MutateSound ==
    ASSUME TypeOK, IndexInv, NEW c \in Calls, Mutate(c) PROVE Sound(praca)'
<1>0. PICK s \in Sessions : s = call[c].id
  BY ChangedLemma DEF Mutate, IndexInv
<1>1. \/ call[c].op = "create" /\ \E a \in Anchors : praca' = Remember(praca, s, a)
      \/ call[c].op = "forget" /\ praca' = Forget(praca, s)
      \/ call[c].op = "rename" /\ praca' = Rename(praca, s)
  BY <1>0, ChangedLemma DEF Mutate, IndexInv
<1>2. praca \in Praca /\ Sound(praca) /\ call[c].at = "mutate" /\ session' = session
  BY DEF TypeOK, IndexInv, DocsAreSound, Mutate, mux
<1>3. /\ call'[c].at = "open" /\ \A d \in Calls : d # c => call'[d] = call[d]
  BY DEF Mutate, TypeOK, Call
<1>4. \A t \in Sessions : Creating(t)' => Creating(t)
  BY <1>3 DEF Creating
<1>5. CASE call[c].op = "create"
  <2>1. Creating(s) /\ ~Creating(s)' /\ session[s] # "no"
    <3>1. Creating(s) /\ session[s] # "no"
      BY <1>0, <1>1, <1>2, <1>5 DEF Creating, IndexInv, CreatesOnce
    <3>2. \A d \in Calls : call[d].op = "create" /\ call[d].id = s /\ call[d].at = "mutate" => d = c
      BY <1>0, <1>2, <1>5 DEF IndexInv, CreatesOnce
    <3>. QED
      BY <1>3, <3>1, <3>2 DEF Creating
  <2>2. praca.index[s] = None
    BY <1>1, <1>2, <2>1 DEF Sound, Recorded
  <2>3. PICK a \in Anchors : praca' = Remember(praca, s, a)
    BY <1>1, <1>5
  <2>4. Agrees(praca)'
    BY <1>1, <1>2, <2>2, <2>3, AgreesLemma DEF Sound, Agrees
  <2>5. \A t \in Sessions : praca'.index[t] # None => t = s \/ praca.index[t] # None
    BY <1>1, <1>2, <2>3, IndexLemma
  <2>6. Recorded(praca)'
    BY <1>2, <1>4, <2>1, <2>5 DEF Sound, Recorded
  <2>. QED
    BY <2>4, <2>6 DEF Sound
<1>6. CASE call[c].op # "create"
  <2>1. praca' = Forget(praca, s) \/ praca' = Rename(praca, s)
    BY <1>1, <1>6
  <2>2. Agrees(praca)'
    BY <1>1, <1>2, <2>1, AgreesLemma DEF Sound, Agrees
  <2>3. \A t \in Sessions : praca'.index[t] # None => praca.index[t] # None
    BY <1>1, <1>2, <2>1, IndexLemma
  <2>4. Recorded(praca)'
    BY <1>2, <1>4, <2>3 DEF Sound, Recorded
  <2>. QED
    BY <2>2, <2>4 DEF Sound
<1>. QED
  BY <1>5, <1>6

LEMMA DocsKept ==
    ASSUME TypeOK, IndexInv, [Next]_vars PROVE DocsAreSound'
<1>. DEFINE Before == {NewPraca, praca} \cup {call[c].snap : c \in Calls}
                         \cup {content[i].doc : i \in Inodes}
            SoundAfter(p) == Agrees(p) /\ \A s \in Sessions :
                             p.index[s] # None => session'[s] # "no" /\ ~Creating(s)'
<1>1. Sound(NewPraca)
  BY AgreesLemma DEF Sound, Recorded, NewPraca
<1>2. \A p \in Before : SoundAfter(p)
  BY <1>1, StaysSound DEF IndexInv, DocsAreSound
<1>3. SoundAfter(praca')
  <2>1. ASSUME NEW c \in Calls, Mutate(c) PROVE SoundAfter(praca')
    BY <2>1, MutateSound DEF Sound, Agrees, Recorded
  <2>. QED
    BY <1>2, <2>1, DocsLemma DEF IndexInv
<1>4. /\ \A c \in Calls : SoundAfter(call'[c].snap)
      /\ \A i \in Inodes : SoundAfter(content'[i].doc)
  BY <1>2, <1>3, DocsLemma DEF IndexInv
<1>. QED
  BY <1>3, <1>4 DEF DocsAreSound, Sound, Agrees, Recorded

\* No record of a killed session is left that nobody has missed.
LEMMA KilledKept ==
    ASSUME TypeOK, IndexInv, [Next]_vars PROVE KilledAreForgotten' /\ KillsAreMissed'
<1>. DEFINE Goal == KilledAreForgotten' /\ KillsAreMissed'
<1>. USE DEF IndexInv, KilledAreForgotten, KillsAreMissed
<1>1. CASE UNCHANGED vars
  BY <1>1 DEF vars, mux, daemon, disk
<1>2. CASE Open
  BY <1>2 DEF Open, mux
<1>3. ASSUME NEW survivors, NEW text \in [Inodes -> Text], Down(survivors, text) PROVE Goal
  <2>1. praca' = NewPraca /\ NewPraca.index = [s \in Sessions |-> None]
    BY <1>3 DEF Down, NewPraca
  <2>2. Loaded(file, content)' = Loaded(file, text)
    BY <1>3, Constants DEF Down, Loaded, Kept, TypeOK
  <2>3. \A s \in Sessions : session'[s] = "killed" <=> session[s] = "killed"
    BY <1>3 DEF Down, TypeOK
  <2>4. missed' = missed \cup {s \in Sessions : Loaded(file, text).index[s] # None /\ session[s] = "killed"}
    BY <1>3 DEF Down
  <2>. QED
    BY <2>1, <2>2, <2>3, <2>4
<1>4. ASSUME NEW s \in Sessions, ShellExits(s) PROVE Goal
  <2>1. /\ UNCHANGED <<up, praca, call>> /\ missed \subseteq missed' /\ up
        /\ \A t \in Sessions : session'[t] = "killed" => session[t] = "killed"
    BY <1>4 DEF ShellExits, End, daemon, TypeOK
  <2>. QED
    BY <2>1
<1>5. ASSUME NEW c \in Calls, NEW s \in Sessions, NewSession(c, s) \/ RenameSession(c, s) PROVE Goal
  <2>1. PICK op : /\ Begin(c, op, s)
                  /\ \A t \in Sessions : session'[t] = "killed" => session[t] = "killed"
                  /\ UNCHANGED <<up, praca, missed>>
    BY <1>5 DEF NewSession, RenameSession, mux, daemon, TypeOK
  <2>. QED
    BY <2>1, BeginLemma
<1>6. ASSUME NEW c \in Calls, NEW s \in Sessions, KillSession(c, s) PROVE Goal
  <2>1. /\ Begin(c, "forget", s) /\ session' = [session EXCEPT ![s] = "killed"]
        /\ UNCHANGED <<up, praca>> /\ missed \subseteq missed'
    BY <1>6 DEF KillSession, End, daemon
  <2>. QED
    BY <2>1, BeginLemma DEF TypeOK
<1>7. ASSUME NEW c \in Calls, NoSpawnCwd(c) PROVE Goal
  <2>1. /\ call[c].op = "create" /\ \A d \in Calls : d # c => call'[d] = call[d]
        /\ UNCHANGED <<up, session, missed, praca>> /\ up
    BY <1>7 DEF NoSpawnCwd, daemon, mux, CallsAreSane, Idle
  <2>. QED
    BY <2>1
<1>8. ASSUME NEW c \in Calls, Mutate(c) PROVE Goal
  <2>. DEFINE s == call[c].id
  <2>1. /\ call[c].at = "mutate" /\ \A d \in Calls : d # c => call'[d] = call[d]
        /\ UNCHANGED <<up, session, missed>> /\ up /\ praca \in Praca
    BY <1>8 DEF Mutate, daemon, mux, CallsAreSane, Idle, TypeOK
  <2>2. /\ s \in Sessions
        /\ \/ call[c].op = "create" /\ \E a \in Anchors : praca' = Remember(praca, s, a)
           \/ call[c].op = "forget" /\ praca' = Forget(praca, s)
           \/ call[c].op = "rename" /\ praca' = Rename(praca, s)
    BY <1>8, ChangedLemma DEF Mutate
  <2>3. call[c].op = "create" => session[s] = "live" \/ s \in missed
    BY <2>1, <2>2 DEF CreatesOnce, Creating
  <2>. HIDE DEF s
  <2>4. \A t \in Sessions : praca'.index[t] # None =>
            \/ t = s /\ call[c].op = "create"
            \/ praca.index[t] # None /\ (call[c].op = "forget" => t # s)
    BY <2>1, <2>2, IndexLemma
  <2>. QED
    BY <2>1, <2>3, <2>4 DEF s
<1>9. ASSUME NEW c \in Calls, Persists(c) PROVE Goal
  <2>1. /\ UNCHANGED <<up, session, missed, praca>> /\ up
        /\ call[c].at # "mutate" /\ \A d \in Calls : d # c => call'[d] = call[d]
    BY <1>9, PersistLemma DEF CallsAreSane, Idle
  <2>. QED
    BY <2>1
<1>. QED
  BY <1>1, <1>2, <1>3, <1>4, <1>5, <1>6, <1>7, <1>8, <1>9, StepLemma

LEMMA IndexKept == TypeOK /\ IndexInv /\ [Next]_vars => IndexInv'
BY CallsKept, DocsKept, KilledKept DEF IndexInv
-----------------------------------------------------------------------------
\* Texts have lengths, and nothing is shorter than an empty one.
LEMMA LengthLemma == \A t \in Text : Length(t) \in Nat /\ ~(Length(Empty) > Length(t))
<1>1. ASSUME NEW t \in Text PROVE Length(t) \in Nat
  <2>1. Indexed(t.doc) \subseteq Sessions /\ Bound(t.doc) \subseteq Anchors
    BY DEF Indexed, Bound
  <2>2. Cardinality(Indexed(t.doc)) \in Nat /\ Cardinality(Bound(t.doc)) \in Nat
    BY <2>1, FS_Subset, FS_CardinalityType, ConstantsAssumption
  <2>. QED
    BY <2>2 DEF Length
<1>2. Length(Empty) = 0
  <2>1. Indexed(Empty.doc) = {} /\ Bound(Empty.doc) = {}
    BY DEF Indexed, Bound, Empty, NewPraca
  <2>. QED
    BY <2>1, FS_EmptySet DEF Length
<1>. QED
  BY <1>1, <1>2

\* A request that persists alone.
Alone(c) == ~overlapped /\ Writers = {c} /\ WriterInv(c) /\ (file # None => file \in synced)

LEMMA AloneLemma ==
    ASSUME DiskInv, NEW c \in Writers, ~overlapped PROVE Alone(c)
BY DEF DiskInv, OneAtATime, Alone

\* What a step does to the requests that persist.
LEMMA WritersLemma ==
    ASSUME TypeOK, NEW c \in Calls, \A d \in Calls : d # c => call'[d] = call[d]
    PROVE  /\ call'[c].at \in {"idle", "mutate"} => Writers' = Writers \ {c}
           /\ call'[c].at \in {"open", "write", "sync", "rename"} => Writers' = Writers \cup {c}
BY DEF Writers

\* A step that is no part of persisting.
LEMMA QuietDisk ==
    ASSUME DiskInv, UNCHANGED <<disk, praca, faults, up>>, Writers' = Writers,
           \A c \in Writers : call'[c] = call[c]
    PROVE  DiskInv' /\ Loaded(file, content)' = Loaded(file, content)
BY DEF DiskInv, OneAtATime, WriterInv, Remembers, disk, faults, Loaded

\* What a step may do to what a reload would find.
OldOrNewStep ==
    \/ overlapped' \/ Loaded(file, content)' = Loaded(file, content)
    \/ \E c \in Calls : call[c].at = "rename" /\ Loaded(file, content)' = call[c].snap

\* The steps of a request that persists keep the disk in order.
LEMMA PersistDisk ==
    ASSUME TypeOK, CallsAreSane, DiskInv, NEW c \in Calls, Persists(c)
    PROVE  DiskInv' /\ OldOrNewStep
<1>. DEFINE Goal == DiskInv' /\ OldOrNewStep
<1>0. /\ c \in Writers /\ (~overlapped => Alone(c)) /\ overlapped' = overlapped
      /\ \A d \in Calls : d # c => call'[d] = call[d]
      /\ call[c] \in Call /\ UNCHANGED praca /\ Idle.at = "idle"
  BY AloneLemma, PersistLemma DEF Writers, TypeOK, Persists, OpenTmp, WriteAll, SyncAll,
     RenameTmp, WriteFails, faults, Idle
<1>1. ASSUME OpenTmp(c) PROVE Goal
  <2>1. PICK i \in Inodes : /\ i # file /\ tmp' = i /\ content' = [content EXCEPT ![i] = Empty]
                            /\ synced' = synced \ {i} /\ file' = file
                            /\ call'[c].at = "write" /\ call'[c].inode = i
                            /\ call'[c].snap = call[c].snap
    <3>1. (IF tmp = None THEN FreeInode ELSE tmp) \in Inodes \ {file}
      BY FreeInodeLemma DEF TypeOK, DiskInv
    <3>. QED
      BY <1>0, <1>1, <3>1 DEF OpenTmp, TypeOK, Call
  <2>2. tmp' # None => tmp' # file'
    BY <2>1
  <2>3. OneAtATime' /\ Writers' # {}
    <3>1. Writers' = Writers \cup {c}
      BY <1>0, <2>1, WritersLemma
    <3>2. ~overlapped => WriterInv(c)'
      BY <1>0, <2>1 DEF TypeOK, Alone, WriterInv
    <3>. QED
      BY <1>0, <2>1, <3>1, <3>2 DEF OneAtATime, Alone
  <2>4. Loaded(file, content)' = Loaded(file, content)
    BY <2>1 DEF Loaded, TypeOK
  <2>. QED
    BY <2>2, <2>3, <2>4 DEF DiskInv, Remembers, OldOrNewStep
<1>2. ASSUME WriteAll(c) PROVE Goal
  <2>. DEFINE i == call[c].inode
  <2>1. /\ i \in Inodes /\ UNCHANGED <<tmp, file>>
        /\ content' = [content EXCEPT ![i] = IF @ = Torn \/ Length(@) > Length(Whole(call[c].snap))
                                             THEN Torn ELSE Whole(call[c].snap)]
        /\ synced' = synced \ {i}
        /\ call'[c] = [call[c] EXCEPT !.at = "sync"]
    BY <1>2 DEF WriteAll, CallsAreSane, TypeOK
  <2>2. call'[c].at = "sync" /\ call'[c].inode = i /\ call'[c].snap = call[c].snap
    BY <1>0, <2>1 DEF Call
  <2>3. ~overlapped => i = tmp /\ i # file /\ content'[i] = Whole(call[c].snap)
    <3>. SUFFICES ASSUME ~overlapped PROVE i = tmp /\ i # file /\ content'[i] = Whole(call[c].snap)
      OBVIOUS
    <3>1. i = tmp /\ i # file /\ content[i] = Empty
      BY <1>0, <1>2, <2>1, Constants DEF WriteAll, Alone, WriterInv, DiskInv
    <3>2. Empty # Torn /\ Whole(call[c].snap) \in Text
      BY <1>0, DocTypes DEF Empty, Torn, Call
    <3>. QED
      BY <2>1, <3>1, <3>2, LengthLemma DEF TypeOK
  <2>4. OneAtATime' /\ Writers' # {}
    BY <1>0, <2>1, <2>2, <2>3, WritersLemma DEF OneAtATime, Alone, WriterInv
  <2>5. overlapped' \/ Loaded(file, content)' = Loaded(file, content)
    BY <1>0, <2>1, <2>3 DEF Loaded, TypeOK
  <2>. QED
    BY <2>1, <2>4, <2>5 DEF DiskInv, Remembers, OldOrNewStep
<1>3. ASSUME SyncAll(c) PROVE Goal
  <2>1. /\ UNCHANGED <<tmp, file, content>> /\ synced' = synced \cup {call[c].inode}
        /\ call'[c] = [call[c] EXCEPT !.at = "rename"] /\ call[c].at = "sync"
    BY <1>3 DEF SyncAll, TypeOK
  <2>2. call'[c].at = "rename" /\ call'[c].inode = call[c].inode /\ call'[c].snap = call[c].snap
    BY <1>0, <2>1 DEF Call
  <2>3. OneAtATime' /\ Writers' # {}
    <3>1. Writers' = Writers \cup {c}
      BY <1>0, <2>2, WritersLemma
    <3>2. call[c].inode \in Inodes
      BY <2>1 DEF CallsAreSane
    <3>3. ~overlapped => WriterInv(c)'
      BY <1>0, <2>1, <2>2, <3>2, Constants DEF Alone, WriterInv
    <3>. QED
      BY <1>0, <2>1, <3>1, <3>3 DEF OneAtATime, Alone
  <2>. QED
    BY <2>1, <2>3 DEF DiskInv, Remembers, OldOrNewStep, Loaded
<1>4. ASSUME RenameTmp(c) PROVE Goal
  <2>1. /\ call[c].at = "rename" /\ call'[c].at = "idle" /\ tmp' = None
        /\ file' = (IF tmp = None THEN file ELSE tmp)
        /\ content' = Kept({file'} \cup Used(c), content)
        /\ synced' = synced \cap ({file'} \cup Used(c))
    BY <1>0, <1>4 DEF RenameTmp, TypeOK
  <2>2. file' # None => content'[file'] = content[file']
    BY <2>1 DEF Kept, TypeOK
  <2>3. ~overlapped => /\ Loaded(file, content)' = praca /\ praca = call[c].snap
                       /\ file' \in synced' /\ Writers' = {}
    <3>. SUFFICES ASSUME ~overlapped
                  PROVE  /\ Loaded(file, content)' = praca /\ praca = call[c].snap
                         /\ file' \in synced' /\ Writers' = {}
      OBVIOUS
    <3>1. /\ tmp = call[c].inode /\ tmp \in synced /\ content[tmp] = Whole(call[c].snap)
          /\ praca = call[c].snap /\ tmp \in Inodes /\ praca \in Praca
      BY <1>0, <2>1 DEF Alone, WriterInv, CallsAreSane, TypeOK
    <3>2. file' = tmp /\ content'[file'] = Whole(praca) /\ file' # None
      BY <2>1, <2>2, <3>1, Constants
    <3>3. Loaded(file, content)' = praca
      BY <3>1, <3>2, DocTypes DEF Loaded
    <3>. QED
      BY <1>0, <2>1, <3>1, <3>2, <3>3, WritersLemma DEF Alone
  <2>4. OneAtATime'
    BY <1>0, <2>1, <2>3 DEF OneAtATime
  <2>. QED
    BY <1>0, <2>1, <2>3, <2>4 DEF DiskInv, Remembers, OldOrNewStep
<1>5. ASSUME WriteFails(c) PROVE Goal
  <2>1. /\ call[c].at \in {"open", "write", "sync"} /\ call'[c].at = "idle" /\ tmp' = None
        /\ content' = Kept({file} \cup Used(c), IF call[c].at = "write"
                          THEN [content EXCEPT ![call[c].inode] = Torn] ELSE content)
        /\ synced' = synced \cap ({file} \cup Used(c)) /\ file' = file /\ failed'
    BY <1>0, <1>5 DEF WriteFails, TypeOK
  <2>2. ~overlapped => Writers' = {} /\ (call[c].at = "write" => call[c].inode # file)
    BY <1>0, <2>1, WritersLemma, Constants DEF Alone, WriterInv, DiskInv, CallsAreSane
  <2>3. ~overlapped /\ file # None => content'[file] = content[file]
    BY <2>1, <2>2 DEF Kept, TypeOK
  <2>4. OneAtATime'
    BY <1>0, <2>1, <2>2 DEF OneAtATime, Alone
  <2>. QED
    BY <1>0, <2>1, <2>3, <2>4 DEF DiskInv, Remembers, OldOrNewStep, Loaded
<1>. QED
  BY <1>1, <1>2, <1>3, <1>4, <1>5 DEF Persists

\* Every step keeps the disk in order.
LEMMA DiskKept ==
    ASSUME TypeOK, CallsAreSane, DiskInv, [Next]_vars
    PROVE  DiskInv' /\ OldOrNewStep
<1>. DEFINE Goal == DiskInv' /\ OldOrNewStep
<1>0. \A c \in Calls : call[c] \in Call /\ Idle.at = "idle"
  BY DEF TypeOK, Idle
<1>1. CASE UNCHANGED vars
  <2>1. UNCHANGED <<disk, praca, faults, up, call>>
    BY <1>1 DEF vars, daemon
  <2>. QED
    BY <2>1, QuietDisk DEF Writers, OldOrNewStep
<1>2. CASE Open
  <2>1. Writers' = {} /\ Writers = {} /\ UNCHANGED <<tmp, file, content, synced, overlapped>>
        /\ praca' = Loaded(file, content)
    BY <1>2, <1>0 DEF Open, disk, CallsAreSane, Writers
  <2>. QED
    BY <2>1 DEF DiskInv, OneAtATime, Remembers, OldOrNewStep, Loaded
<1>3. ASSUME NEW survivors \in SUBSET Sessions, NEW text \in [Inodes -> Text], Down(survivors, text),
             \A i \in synced : text[i] = content[i]
      PROVE  Goal
  <2>1. /\ Writers' = {} /\ tmp' = None /\ content' = Kept({file}, text) /\ file' = file
        /\ synced' = synced \cap {file} /\ overlapped' = overlapped /\ ~up'
    BY <1>0, <1>3 DEF Down, Writers, faults
  <2>2. ~overlapped /\ file # None => content'[file] = content[file] /\ file \in synced'
    BY <1>3, <2>1 DEF Kept, TypeOK, DiskInv, OneAtATime
  <2>3. OneAtATime'
    BY <2>1, <2>2 DEF OneAtATime
  <2>. QED
    BY <2>1, <2>2, <2>3 DEF DiskInv, Remembers, OldOrNewStep, Loaded
<1>4. ASSUME NEW s \in Sessions, ShellExits(s) PROVE Goal
  <2>1. UNCHANGED <<disk, praca, faults, up, call>>
    BY <1>4 DEF ShellExits, daemon
  <2>. QED
    BY <2>1, QuietDisk DEF Writers, OldOrNewStep
<1>5. ASSUME NEW c \in Calls, NEW s \in Sessions,
             NewSession(c, s) \/ KillSession(c, s) \/ RenameSession(c, s)
      PROVE  Goal
  <2>1. PICK op : Begin(c, op, s) /\ UNCHANGED <<disk, praca, faults, up>>
    BY <1>5 DEF NewSession, KillSession, RenameSession, daemon
  <2>2. call[c].at = "idle" /\ call'[c].at = "mutate" /\ \A d \in Calls : d # c => call'[d] = call[d]
    BY <2>1, BeginLemma
  <2>. QED
    BY <2>1, <2>2, QuietDisk, WritersLemma DEF Writers, OldOrNewStep
<1>6. ASSUME NEW c \in Calls, NoSpawnCwd(c) PROVE Goal
  <2>1. /\ UNCHANGED <<disk, praca, faults, up>> /\ call[c].at = "mutate"
        /\ call'[c].at = "idle" /\ \A d \in Calls : d # c => call'[d] = call[d]
    BY <1>0, <1>6 DEF NoSpawnCwd, daemon, TypeOK
  <2>. QED
    BY <2>1, QuietDisk, WritersLemma DEF Writers, OldOrNewStep
<1>7. ASSUME NEW c \in Calls, Mutate(c) PROVE Goal
  <2>1. /\ UNCHANGED <<tmp, file, content, synced, up>> /\ call[c].at = "mutate"
        /\ overlapped' = (overlapped \/ Writers # {})
        /\ call'[c].at = "open" /\ call'[c].snap = praca'
        /\ \A d \in Calls : d # c => call'[d] = call[d]
    BY <1>0, <1>7 DEF Mutate, daemon, disk, TypeOK, Call
  <2>2. Writers' = Writers \cup {c}
    BY <2>1, WritersLemma
  <2>3. OneAtATime'
    BY <2>1, <2>2 DEF OneAtATime, WriterInv, DiskInv
  <2>. QED
    BY <2>1, <2>2, <2>3 DEF DiskInv, Remembers, OldOrNewStep, Loaded
<1>8. ASSUME NEW c \in Calls, Persists(c) PROVE Goal
  BY <1>8, PersistDisk
<1>. QED
  BY <1>1, <1>2, <1>3, <1>4, <1>5, <1>6, <1>7, <1>8, StepLemma
-----------------------------------------------------------------------------
\* The invariant holds of every behaviour.
THEOREM Inductive == Spec => []IndInv
<1>1. IndInv /\ [Next]_vars => IndInv'
  BY TypeKept, IndexKept, DiskKept DEF IndInv, IndexInv
<1>. QED
  BY InitInd, <1>1, PTL DEF Spec

\* Every variable keeps its type: there is always an inode for the temporary file.
THEOREM TypeCorrect == Spec => []TypeOK
<1>1. IndInv => TypeOK
  BY DEF IndInv
<1>. QED
  BY Inductive, <1>1, PTL

\* No binding points at a session that the index does not have there, and no killed session
\* is left in it, with any number of sessions, places, connections and daemons.
THEOREM TheIndexIsSound == Spec => []IndexIsSound
<1>1. IndInv => IndexIsSound
  BY DEF IndInv, IndexInv, DocsAreSound, Sound, Agrees, IndexIsSound, PlacesAgree
<1>. QED
  BY Inductive, <1>1, PTL

\* The document is the memory whenever nothing is being persisted, but for failures and
\* requests that persisted at once.
THEOREM RestartsRemember == Spec => []Remembers
<1>1. IndInv => Remembers
  BY DEF IndInv, DiskInv
<1>. QED
  BY Inductive, <1>1, PTL

\* What a reload would find is never anything but the old document or the new one.
THEOREM DocumentIsAtomic == Spec => OldOrNew
<1>1. IndInv /\ [Next]_vars => [OldOrNewStep]_vars
  BY DiskKept DEF IndInv, IndexInv
<1>. QED
  BY Inductive, <1>1, PTL DEF Spec, OldOrNew, OldOrNewStep
=============================================================================
