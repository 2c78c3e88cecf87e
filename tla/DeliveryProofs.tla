-------------------------- MODULE DeliveryProofs --------------------------
(* Proofs about Delivery: the bytes of a pane rise with their offsets in   *)
(* the journal, and shown, wire and pty, end to end, rise with them.       *)
EXTENDS Delivery, FiniteSetTheorems, SequenceTheorems, TLAPS

\* What the bounds are, apart from what they bound.
LEMMA Bounds == MaxChunk \in Nat \ {0} /\ ReviveBudget \in Nat
BY BoundsAreNatural

\* The operands of the arithmetic on offsets are numbers.
LEMMA WireTypes ==
    ASSUME TypeOK
    PROVE  /\ DOMAIN wire = 1 .. Len(wire) /\ Len(wire) \in Nat
           /\ \A i \in DOMAIN wire :
                 /\ wire[i] \in Message /\ wire[i].at \in Nat
                 /\ Len(wire[i].data) \in Nat /\ DOMAIN wire[i].data = 1 .. Len(wire[i].data)
                 /\ \A k \in DOMAIN wire[i].data : wire[i].data[k] \in Nat
<1>1. wire \in Seq(Message)
  BY DEF TypeOK
<1>2. DOMAIN wire = 1 .. Len(wire) /\ Len(wire) \in Nat /\ \A i \in DOMAIN wire : wire[i] \in Message
  BY <1>1, LenProperties, ElementOfSeq
<1>3. ASSUME NEW m \in Message
      PROVE  /\ m.at \in Nat /\ Len(m.data) \in Nat /\ DOMAIN m.data = 1 .. Len(m.data)
             /\ \A k \in DOMAIN m.data : m.data[k] \in Nat
  <2>1. m.at \in Nat /\ m.data \in Seq(Nat)
    BY DEF Message
  <2>. QED
    BY <2>1, LenProperties, ElementOfSeq
<1>. QED
  BY <1>2, <1>3

LEMMA StreamTypes ==
    ASSUME TypeOK
    PROVE  /\ DOMAIN pty = 1 .. Len(pty) /\ Len(pty) \in Nat
           /\ \A i \in DOMAIN pty : pty[i] \in Nat
           /\ DOMAIN shown = 1 .. Len(shown) /\ Len(shown) \in Nat
           /\ \A i \in DOMAIN shown : shown[i] \in Nat
           /\ \A o \in DOMAIN log : o \in Nat /\ log[o] \in Nat
           /\ written \in Nat /\ end \in Nat /\ reach \in Nat /\ next \in Nat
<1>1. pty \in Seq(Nat) /\ shown \in Seq(Nat)
  BY DEF TypeOK
<1>2. DOMAIN log \subseteq Nat /\ log \in [DOMAIN log -> Nat]
  BY DEF TypeOK
<1>3. /\ DOMAIN pty = 1 .. Len(pty) /\ Len(pty) \in Nat
      /\ \A i \in DOMAIN pty : pty[i] \in Nat
      /\ DOMAIN shown = 1 .. Len(shown) /\ Len(shown) \in Nat
      /\ \A i \in DOMAIN shown : shown[i] \in Nat
  BY <1>1, LenProperties, ElementOfSeq
<1>4. \A o \in DOMAIN log : o \in Nat /\ log[o] \in Nat
  BY <1>2
<1>. QED
  BY <1>3, <1>4 DEF TypeOK

\* The next byte goes past every byte of the files.
LEMMA EdgeLemma ==
    ASSUME TypeOK, LogRises
    PROVE  Edge \in Nat /\ reach \in Nat /\ \A o \in DOMAIN log : o < Edge /\ o < reach
BY StreamTypes DEF Edge, TypeOK, LogRises

LEMMA InitInd == Init => IndInv
<1>. SUFFICES ASSUME Init PROVE IndInv
  OBVIOUS
<1>1. /\ log = <<>> /\ DOMAIN log = {} /\ pty = <<>> /\ wire = <<>> /\ shown = <<>>
      /\ DOMAIN wire = {} /\ DOMAIN pty = {} /\ DOMAIN shown = {}
      /\ unlisted = {} /\ skipped = {} /\ reach = 0
      /\ holder = "new" /\ link = "none" /\ thread = "off" /\ exit = "no" /\ next = 0 /\ end = 0
      /\ ~Alive /\ ~Opening
  BY DEF Init, Alive, Opening
<1>2. TypeOK
  <2>1. log \in [DOMAIN log -> Nat]
    BY <1>1
  <2>2. pty \in Seq(Nat) /\ wire \in Seq(Message) /\ shown \in Seq(Nat)
    BY <1>1
  <2>3. revivals \in 0 .. ReviveBudget
    BY Bounds DEF Init
  <2>4. /\ end \in Nat /\ next \in Nat /\ from \in Nat /\ written \in Nat
        /\ deaths \in Nat /\ faults \in Nat /\ stalls \in Nat /\ starts \in Nat
    BY DEF Init
  <2>5. shell \in BOOLEAN /\ tomb \in BOOLEAN /\ forgot \in BOOLEAN
    BY DEF Init
  <2>6. DOMAIN log \subseteq Nat /\ unlisted \subseteq DOMAIN log /\ skipped \subseteq Nat /\ reach \in Nat
    BY <1>1
  <2>. QED
    BY <1>1, <2>1, <2>2, <2>3, <2>4, <2>5, <2>6 DEF TypeOK
<1>3. LogRises /\ PtyIsAhead /\ LinkIsOwn /\ ShownIsBehind
  BY <1>1, FS_EmptySet DEF LogRises, PtyIsAhead, LinkIsOwn, ShownIsBehind, ShownInOrder, Alive, Opening
<1>4. WireIsSound /\ WireRises /\ WireIsContiguous /\ WireIsGapless
  BY <1>1 DEF WireIsSound, WireRises, WireIsContiguous, WireIsGapless
<1>5. NothingPassedIsLost /\ ExitedIsLast /\ FinalOutputIsShown
  BY <1>1 DEF NothingPassedIsLost, ExitedIsLast, FinalOutputIsShown, Edge
<1>. QED
  BY <1>2, <1>3, <1>4, <1>5 DEF IndInv

-----------------------------------------------------------------------------
(* The holder.                                                             *)

\* A new byte is past all that were written.
LEMMA WriteInd == ASSUME IndInv, Write PROVE IndInv'
<1>1. /\ TypeOK /\ holder = "up" /\ Alive /\ ~Opening
      /\ written' = written + 1 /\ pty' = Append(pty, written + 1)
      /\ UNCHANGED <<holder, shell, log, unlisted, reach, end, tomb, forgot, skipped, link, from,
                     wire, thread, next,
                     shown, exit, revivals, deaths, faults, stalls, starts>>
      /\ Alive' = Alive /\ Opening' = Opening /\ Edge' = Edge
  BY DEF IndInv, Write, files, conn, daemon, bounds, Alive, Opening, Edge
<1>2. /\ DOMAIN pty' = 1 .. Len(pty) + 1
      /\ \A i \in DOMAIN pty' : pty'[i] = IF i \in DOMAIN pty THEN pty[i] ELSE written + 1
      /\ \A i \in DOMAIN pty' : i \notin DOMAIN pty => i = Len(pty) + 1
      /\ pty' \in Seq(Nat) /\ Len(pty) \in Nat /\ DOMAIN pty = 1 .. Len(pty)
  <2>1. pty \in Seq(Nat) /\ written + 1 \in Nat /\ pty' = Append(pty, written + 1)
    BY <1>1 DEF TypeOK
  <2>2. PICK b \in Nat : b = written + 1
    BY <2>1
  <2>3. pty \in Seq(Nat) /\ pty' = Append(pty, b)
    BY <2>1, <2>2
  <2>4. /\ pty' \in Seq(Nat) /\ Len(pty') = Len(pty) + 1 /\ pty'[Len(pty) + 1] = b
        /\ \A i \in 1 .. Len(pty) : pty'[i] = pty[i]
    BY <2>3, AppendProperties
  <2>5. /\ Len(pty) \in Nat /\ DOMAIN pty = 1 .. Len(pty) /\ DOMAIN pty' = 1 .. Len(pty) + 1
    BY <2>3, <2>4, LenProperties
  <2>. QED
    BY <2>2, <2>4, <2>5
<1>3. TypeOK'
  BY <1>1, <1>2 DEF TypeOK
<1>4. LogRises'
  BY <1>1, StreamTypes DEF IndInv, LogRises
<1>5. PtyIsAhead'
  <2>1. ASSUME NEW i \in DOMAIN pty'
        PROVE  /\ pty'[i] <= written'
               /\ \A o \in DOMAIN log : log[o] < pty'[i]
               /\ \A j \in DOMAIN shown : shown[j] < pty'[i]
    BY <1>1, <1>2, StreamTypes DEF IndInv, PtyIsAhead, LogRises, ShownIsBehind
  <2>2. ASSUME NEW i \in DOMAIN pty', NEW j \in DOMAIN pty', i < j
        PROVE  pty'[i] < pty'[j]
    <3>1. i \in DOMAIN pty /\ pty[i] <= written
      BY <1>2, <2>2 DEF IndInv, PtyIsAhead
    <3>. QED
      BY <1>1, <1>2, <2>2, <3>1, StreamTypes DEF IndInv, PtyIsAhead
  <2>. QED
    BY <1>1, <2>1, <2>2 DEF PtyIsAhead
<1>6. LinkIsOwn' /\ WireRises' /\ WireIsContiguous' /\ WireIsGapless' /\ NothingPassedIsLost'
  BY <1>1 DEF IndInv, LinkIsOwn, WireRises, WireIsContiguous, WireIsGapless, NothingPassedIsLost,
     Covers
<1>7. ShownIsBehind'
  BY <1>1, StreamTypes DEF IndInv, ShownIsBehind, ShownInOrder
<1>8. WireIsSound'
  <2>. SUFFICES ASSUME NEW i \in DOMAIN wire PROVE MessageIsSound(wire[i])'
    BY <1>1 DEF WireIsSound
  <2>1. PICK m : m = wire[i]
    OBVIOUS
  <2>2. MessageIsSound(m) /\ m \in Message /\ \A k \in DOMAIN m.data : m.data[k] \in Nat
    BY <1>1, <2>1, WireTypes DEF IndInv, WireIsSound
  <2>3. ASSUME NEW k \in DOMAIN m.data
        PROVE  m.data[k] <= written' /\ \A j \in DOMAIN pty' : m.data[k] < pty'[j]
    <3>1. m.data[k] \in Nat /\ written \in Nat /\ m.data[k] <= written
      BY <1>1, <2>2, StreamTypes DEF MessageIsSound
    <3>2. \A j \in DOMAIN pty : m.data[k] < pty[j]
      BY <2>2 DEF MessageIsSound
    <3>. QED
      BY <1>1, <1>2, <3>1, <3>2
  <2>4. MessageIsSound(m)'
    BY <1>1, <2>2, <2>3 DEF MessageIsSound
  <2>. QED
    BY <1>1, <2>1, <2>4
<1>9. ExitedIsLast' /\ FinalOutputIsShown'
  BY <1>1 DEF IndInv, ExitedIsLast, FinalOutputIsShown, Covers
<1>. QED
  BY <1>3, <1>4, <1>5, <1>6, <1>7, <1>8, <1>9 DEF IndInv

\* A holder that ends, by its exit or by its death, takes what it counted past its
\* files with it, and owns up to it.
LEMMA HolderEnds ==
    ASSUME IndInv, TypeOK', Alive \/ Opening, holder' \in {"dead", "gone"}, pty' = <<>>,
           end' = 0, forgot' = (forgot \/ end > reach), Hangup, stalls' = stalls,
           UNCHANGED <<written, log, reach, skipped, from, wire, thread, next, shown, exit>>
    PROVE  IndInv'
<1>1. /\ TypeOK /\ ~Alive' /\ ~Opening' /\ Edge = end /\ Edge' = reach
      /\ reach \in Nat /\ end \in Nat /\ next \in Nat /\ forgot \in BOOLEAN
      /\ \A o \in DOMAIN log : o < reach
  <2>1. TypeOK /\ ~Alive' /\ ~Opening' /\ Edge = end
    BY DEF IndInv, Alive, Opening, Edge
  <2>2. Edge' = reach
    BY <2>1 DEF Edge
  <2>. QED
    BY <2>1, <2>2, EdgeLemma DEF IndInv, TypeOK
<1>2. link' = IF link \in {"asked", "live"} THEN "shut" ELSE link
  BY DEF Hangup
<1>3. ~forgot' => ~forgot /\ end <= reach
  <2>1. ~forgot' => ~forgot /\ ~(end > reach)
    BY Zenon
  <2>. QED
    BY <1>1, <2>1
<1>4. LogRises'
  BY <1>1 DEF IndInv, LogRises
<1>5. PtyIsAhead'
  BY <1>1 DEF PtyIsAhead
<1>6. LinkIsOwn'
  BY <1>1, <1>2 DEF IndInv, LinkIsOwn
<1>7. ShownIsBehind'
  BY DEF IndInv, ShownIsBehind, ShownInOrder
<1>8. WireIsSound'
  <2>. SUFFICES ASSUME NEW i \in DOMAIN wire PROVE MessageIsSound(wire[i])'
    BY DEF WireIsSound
  <2>1. PICK m : m = wire[i]
    OBVIOUS
  <2>2. MessageIsSound(m) /\ m.at \in Nat /\ Len(m.data) \in Nat
    BY <1>1, <2>1, WireTypes DEF IndInv, WireIsSound
  <2>3. Alive' \/ ~forgot' => m.at + Len(m.data) <= Edge'
    BY <1>1, <1>3, <2>2 DEF MessageIsSound
  <2>4. MessageIsSound(m)'
    BY <2>2, <2>3 DEF MessageIsSound
  <2>. QED
    BY <2>1, <2>4
<1>9. WireRises' /\ WireIsContiguous' /\ WireIsGapless'
  BY <1>2 DEF IndInv, WireRises, WireIsContiguous, WireIsGapless, Covers
<1>10. NothingPassedIsLost'
  BY <1>1, <1>3 DEF IndInv, NothingPassedIsLost
<1>11. ExitedIsLast' /\ FinalOutputIsShown'
  BY <1>3 DEF IndInv, ExitedIsLast, FinalOutputIsShown, Covers
<1>. QED
  BY <1>4, <1>5, <1>6, <1>7, <1>8, <1>9, <1>10, <1>11 DEF IndInv

LEMMA ExitHolderInd == ASSUME IndInv, ExitHolder PROVE IndInv'
<1>1. /\ Alive \/ Opening
      /\ holder' \in {"dead", "gone"} /\ pty' = <<>> /\ end' = 0 /\ Hangup
      /\ forgot' = (forgot \/ end > reach)
      /\ UNCHANGED <<shell, written, log, unlisted, reach, tomb, skipped, from, wire, thread, next,
                     shown, exit, revivals, deaths, faults, stalls, starts>>
  BY DEF ExitHolder, Alive, Opening, Forget, files, daemon, bounds
<1>2. TypeOK'
  BY <1>1 DEF IndInv, TypeOK, Hangup
<1>. QED
  BY <1>1, <1>2, HolderEnds

LEMMA DieInd == ASSUME IndInv, Die PROVE IndInv'
<1>1. /\ Alive \/ Opening
      /\ holder' = "dead" /\ pty' = <<>> /\ end' = 0 /\ Hangup /\ shell' = FALSE
      /\ forgot' = (forgot \/ end > reach) /\ deaths' = deaths + 1
      /\ UNCHANGED <<written, log, unlisted, reach, tomb, skipped, from, wire, thread, next,
                     shown, exit,
                     revivals, faults, stalls, starts>>
  BY DEF Die, Forget, files, daemon
<1>2. TypeOK'
  <2>1. link' \in {"none", "asked", "live", "shut"} /\ deaths' \in Nat
    BY <1>1 DEF IndInv, TypeOK, Hangup
  <2>2. forgot' \in BOOLEAN /\ pty' \in Seq(Nat) /\ end' \in Nat
    BY <1>1
  <2>3. shell' \in BOOLEAN
    BY <1>1, Zenon
  <2>. QED
    BY <1>1, <2>1, <2>2, <2>3 DEF IndInv, TypeOK
<1>. QED
  BY <1>1, <1>2, HolderEnds

\* A step that changes none of the bytes and of the offsets; it may shut the link.
LEMMA FlagStep ==
    ASSUME IndInv, TypeOK', ExitedIsLast', stalls' >= stalls,
           Alive' = Alive, Opening' = Opening,
           link' = link \/ (link \in {"asked", "live"} /\ link' = "shut"),
           UNCHANGED <<log, reach, skipped, pty, written, end, forgot, from, wire, thread, next,
                       shown, exit>>
    PROVE  IndInv'
<1>1. Edge' = Edge /\ stalls \in Nat /\ stalls' \in Nat
  BY DEF Edge, IndInv, TypeOK
<1>2. LogRises' /\ PtyIsAhead' /\ LinkIsOwn'
  BY <1>1 DEF IndInv, LogRises, PtyIsAhead, LinkIsOwn
<1>3. ShownIsBehind'
  BY DEF IndInv, ShownIsBehind, ShownInOrder
<1>4. WireIsSound'
  BY <1>1 DEF IndInv, WireIsSound, MessageIsSound
<1>5. WireRises' /\ WireIsContiguous' /\ WireIsGapless'
  BY DEF IndInv, WireRises, WireIsContiguous, WireIsGapless, Covers
<1>6. NothingPassedIsLost' /\ FinalOutputIsShown'
  BY <1>1 DEF IndInv, NothingPassedIsLost, FinalOutputIsShown
<1>. QED
  BY <1>2, <1>3, <1>4, <1>5, <1>6 DEF IndInv

LEMMA ShellExitsInd == ASSUME IndInv, ShellExits PROVE IndInv'
<1>1. /\ holder = "up" /\ shell' = FALSE
      /\ UNCHANGED <<holder, pty, written, log, unlisted, reach, end, tomb, forgot, skipped, link,
                     from, wire, thread,
                     next, shown, exit, revivals, deaths, faults, stalls, starts>>
  BY DEF ShellExits, files, conn, daemon, bounds
<1>2. TypeOK' /\ stalls' >= stalls
  <2>1. shell' \in BOOLEAN /\ stalls \in Nat
    BY <1>1 DEF IndInv, TypeOK
  <2>. QED
    BY <1>1, <2>1 DEF IndInv, TypeOK
<1>3. ExitedIsLast'
  BY <1>1 DEF IndInv, ExitedIsLast, Covers
<1>4. Alive' = Alive /\ Opening' = Opening
  BY <1>1 DEF Alive, Opening
<1>. QED
  BY <1>1, <1>2, <1>3, <1>4, FlagStep

LEMMA FinalizeInd == ASSUME IndInv, Finalize PROVE IndInv'
<1>1. /\ holder = "up" /\ holder' = "tombed" /\ tomb' \in {tomb, TRUE}
      /\ \/ pty = <<>> /\ stalls' = stalls
         \/ stalls' = stalls + 1
      /\ faults' \in {faults, faults + 1}
      /\ UNCHANGED <<shell, pty, written, log, unlisted, reach, end, forgot, skipped, link, from,
                     wire, thread, next, shown, exit, revivals, deaths, starts>>
  BY DEF Finalize, files, conn, daemon, Drained, Stall, Fault
<1>2. TypeOK' /\ stalls' >= stalls /\ stalls \in Nat
  <2>1. stalls \in Nat /\ stalls' \in Nat /\ stalls' >= stalls
    BY <1>1 DEF IndInv, TypeOK
  <2>2. faults' \in Nat
    BY <1>1 DEF IndInv, TypeOK
  <2>3. tomb' \in BOOLEAN
    BY <1>1 DEF IndInv, TypeOK
  <2>. QED
    BY <1>1, <2>1, <2>2, <2>3 DEF IndInv, TypeOK
<1>3. ExitedIsLast'
  BY <1>1, <1>2 DEF IndInv, ExitedIsLast, Covers
<1>4. Alive' = Alive /\ Opening' = Opening
  BY <1>1 DEF Alive, Opening
<1>. QED
  BY <1>1, <1>2, <1>3, <1>4, FlagStep

\* A message on its way leaves those before it where they are.
LEMMA AppendWire ==
    ASSUME TypeOK, NEW m \in Message, wire' = Append(wire, m)
    PROVE  /\ wire' \in Seq(Message) /\ DOMAIN wire' = 1 .. Len(wire) + 1
           /\ Len(wire') = Len(wire) + 1 /\ Len(wire) \in Nat /\ DOMAIN wire = 1 .. Len(wire)
           /\ \A i \in DOMAIN wire : i \in DOMAIN wire' /\ wire'[i] = wire[i]
           /\ wire'[Len(wire) + 1] = m
           /\ \A i \in DOMAIN wire' : i \in DOMAIN wire \/ i = Len(wire) + 1
<1>1. wire \in Seq(Message)
  BY DEF TypeOK
<1>. QED
  BY <1>1, AppendProperties, LenProperties

LEMMA ExitedType == Exited \in Message /\ Exited.at = 0 /\ Exited.data = <<>> /\ Len(Exited.data) = 0
BY DEF Exited, Bytes, Message

\* The Exited is the last that a daemon is sent, and all that it needs is before it.
LEMMA TellExitedInd == ASSUME IndInv, TellExited PROVE IndInv'
<1>1. /\ TypeOK /\ holder = "tombed" /\ holder' = "told" /\ Send(Exited)
      /\ UNCHANGED <<shell, pty, written, log, unlisted, reach, end, tomb, forgot, skipped, from,
                     thread, next, shown,
                     exit, revivals, deaths, faults, starts>>
      /\ Alive /\ Alive' /\ ~Opening /\ ~Opening'
  BY DEF IndInv, TellExited, files, daemon, Alive, Opening
<1>2. CASE link = "live" /\ wire' = Append(wire, Exited) /\ UNCHANGED <<link, stalls>>
  <2>1. /\ wire' \in Seq(Message) /\ DOMAIN wire' = 1 .. Len(wire) + 1
        /\ Len(wire') = Len(wire) + 1 /\ Len(wire) \in Nat /\ DOMAIN wire = 1 .. Len(wire)
        /\ \A i \in DOMAIN wire : i \in DOMAIN wire' /\ wire'[i] = wire[i]
        /\ wire'[Len(wire) + 1] = Exited
        /\ \A i \in DOMAIN wire' : i \in DOMAIN wire \/ i = Len(wire) + 1
    BY <1>1, <1>2, AppendWire, ExitedType
  <2>2. TypeOK'
    BY <1>1, <1>2, <2>1 DEF TypeOK
  <2>3. Edge' = Edge /\ Edge \in Nat
    BY <1>1, EdgeLemma DEF Edge, IndInv
  <2>4. LogRises' /\ PtyIsAhead' /\ LinkIsOwn' /\ ShownIsBehind' /\ NothingPassedIsLost'
    BY <1>1, <1>2, <2>3 DEF IndInv, LogRises, PtyIsAhead, LinkIsOwn, ShownIsBehind, ShownInOrder,
       NothingPassedIsLost
  <2>5. WireIsSound'
    <3>1. MessageIsSound(Exited)'
      BY <2>3, ExitedType DEF MessageIsSound
    <3>2. ASSUME NEW m, MessageIsSound(m) PROVE MessageIsSound(m)'
      BY <1>1, <2>3, <3>2 DEF MessageIsSound
    <3>3. \A i \in DOMAIN wire : MessageIsSound(wire[i])
      BY DEF IndInv, WireIsSound
    <3>. SUFFICES ASSUME NEW i \in DOMAIN wire' PROVE MessageIsSound(wire[i])'
      BY DEF WireIsSound
    <3>4. PICK m : m = wire'[i]
      OBVIOUS
    <3>5. MessageIsSound(m)'
      BY <2>1, <3>1, <3>2, <3>3, <3>4
    <3>. QED
      BY <3>4, <3>5
  <2>6. WireRises'
    BY <2>1, ExitedType DEF IndInv, WireRises
  <2>7. WireIsContiguous'
    <3>. SUFFICES ASSUME NEW i \in DOMAIN wire', NEW o \in DOMAIN log \ skipped, o >= next, o < wire'[i].at
                  PROVE  \E j \in 1 .. i - 1 : Covers(wire'[j], o)
      BY <1>1 DEF WireIsContiguous, Covers
    <3>1. i \in DOMAIN wire
      BY <1>1, <2>1, ExitedType, StreamTypes
    <3>2. PICK j \in 1 .. i - 1 : Covers(wire[j], o)
      BY <2>1, <3>1 DEF IndInv, WireIsContiguous
    <3>3. j \in DOMAIN wire
      BY <2>1, <3>1
    <3>. QED
      BY <2>1, <3>2, <3>3
  <2>8. WireIsGapless'
    BY <1>1, <1>2, <2>1 DEF IndInv, WireIsGapless, Covers
  <2>9. ExitedIsLast'
    <3>. SUFFICES ASSUME stalls = 0 PROVE ExitedIsLast'
      BY <1>2 DEF ExitedIsLast
    <3>1. pty = <<>> /\ exit # "told" /\ \A i \in DOMAIN wire : wire[i] # Exited
      BY <1>1 DEF IndInv, ExitedIsLast
    <3>2. ASSUME NEW o \in DOMAIN log \ skipped, o >= next PROVE \E j \in DOMAIN wire' : Covers(wire'[j], o)
      <4>1. o < end
        <5>1. Edge = end
          BY <1>1 DEF Edge, Alive
        <5>. QED
          BY <5>1, EdgeLemma DEF IndInv
      <4>2. PICK j \in DOMAIN wire : Covers(wire[j], o)
        BY <1>2, <3>2, <4>1 DEF IndInv, WireIsGapless
      <4>. QED
        BY <2>1, <4>2
    <3>3. ASSUME NEW i \in DOMAIN wire', wire'[i] = Exited
          PROVE  i = Len(wire')
      BY <2>1, <3>1, <3>3
    <3>. QED
      BY <1>1, <1>2, <3>1, <3>2, <3>3 DEF ExitedIsLast, Covers
  <2>10. FinalOutputIsShown'
    BY <1>1, <1>2 DEF IndInv, FinalOutputIsShown
  <2>. QED
    BY <2>2, <2>4, <2>5, <2>6, <2>7, <2>8, <2>9, <2>10 DEF IndInv
<1>3. CASE ~(link = "live" /\ wire' = Append(wire, Exited) /\ UNCHANGED <<link, stalls>>)
  <2>1. /\ wire' = wire /\ (link' = link \/ (link = "live" /\ link' = "shut"))
        /\ link = "live" => stalls' = stalls + 1
        /\ stalls' = stalls \/ stalls' = stalls + 1
    BY <1>1, <1>3 DEF Send, Stall, Retired
  <2>2. stalls \in Nat /\ stalls' \in Nat /\ stalls' >= stalls
    BY <1>1, <2>1 DEF TypeOK
  <2>3. TypeOK'
    BY <1>1, <2>1, <2>2 DEF TypeOK
  <2>4. ExitedIsLast'
    BY <1>1, <2>1, <2>2 DEF IndInv, ExitedIsLast, Covers
  <2>5. link' = link \/ (link \in {"asked", "live"} /\ link' = "shut")
    BY <2>1
  <2>6. Alive' = Alive /\ Opening' = Opening
    BY <1>1 DEF Alive, Opening
  <2>. QED
    BY <1>1, <2>1, <2>2, <2>3, <2>4, <2>5, <2>6, FlagStep
<1>. QED
  BY <1>2, <1>3

\* The files after an append that is done or failed: below the end nothing is written,
\* from it on the new bytes, and nothing is past the newest file.
AppendKeeps(data) ==
    /\ log' = [o \in DOMAIN log' |-> log'[o]]
    /\ \A o \in DOMAIN log' :
          \/ o \in DOMAIN log /\ o < end /\ log'[o] = log[o]
          \/ /\ o >= end /\ o < end + Len(data)
             /\ o - end + 1 \in DOMAIN data /\ log'[o] = data[o - end + 1]
    /\ \A o \in DOMAIN log' : o \in Nat /\ o < reach'
    /\ unlisted' \subseteq DOMAIN log' /\ reach' \in Nat /\ reach' <= end + Len(data)

LEMMA StoredIs ==
    ASSUME IndInv, Alive \/ Opening, NEW data \in Seq(Nat)
    PROVE  /\ DOMAIN Stored(data) = DOMAIN log \cup (end .. end + Len(data) - 1)
           /\ \A o \in DOMAIN Stored(data) :
                 /\ o \in Nat /\ o < end + Len(data)
                 /\ \/ o \in DOMAIN log /\ o < end /\ Stored(data)[o] = log[o]
                    \/ /\ o >= end
                       /\ o - end + 1 \in DOMAIN data /\ Stored(data)[o] = data[o - end + 1]
<1>1. /\ end \in Nat /\ Len(data) \in Nat /\ DOMAIN data = 1 .. Len(data)
      /\ \A o \in DOMAIN log : o \in Nat /\ o < end
  <2>1. \A o \in DOMAIN log : o \in Nat /\ o < reach /\ reach <= end /\ reach \in Nat /\ end \in Nat
    BY StreamTypes DEF IndInv, LogRises
  <2>. QED
    BY <2>1, LenProperties DEF IndInv, TypeOK
<1>2. DOMAIN Stored(data) = DOMAIN log \cup (end .. end + Len(data) - 1)
  BY DEF Stored
<1>3. ASSUME NEW o \in DOMAIN log
      PROVE  o \in Nat /\ o < end + Len(data) /\ o < end /\ Stored(data)[o] = log[o]
  <2>1. ~(o >= end) /\ o < end + Len(data)
    BY <1>1
  <2>. QED
    BY <1>1, <1>2, <2>1 DEF Stored
<1>4. ASSUME NEW o \in end .. end + Len(data) - 1
      PROVE  /\ o \in Nat /\ o < end + Len(data) /\ o >= end
             /\ o - end + 1 \in DOMAIN data /\ Stored(data)[o] = data[o - end + 1]
  <2>1. o \in Nat /\ o >= end /\ o < end + Len(data) /\ o - end + 1 \in 1 .. Len(data)
    BY <1>1
  <2>. QED
    BY <1>1, <1>2, <2>1 DEF Stored
<1>. QED
  BY <1>2, <1>3, <1>4

LEMMA AppendIs ==
    ASSUME IndInv, Alive \/ Opening, NEW data \in Seq(Nat), data # <<>>,
           NEW counted \in {0, Len(data)},
           (Appends(data) /\ counted = Len(data)) \/ AppendFails(data, counted)
    PROVE  /\ AppendKeeps(data)
           /\ counted = Len(data) => reach' = end + Len(data)
           /\ counted = 0 => reach' = reach \/ (end <= reach' /\ reach' < end + Len(data))
<1>1. /\ TypeOK /\ end \in Nat /\ reach \in Nat /\ reach <= end /\ unlisted \subseteq DOMAIN log
      /\ Len(data) \in Nat \ {0} /\ DOMAIN data = 1 .. Len(data)
      /\ \A o \in DOMAIN log : o \in Nat /\ o < end /\ o < reach
      /\ log = [o \in DOMAIN log |-> log[o]]
  <2>1. /\ TypeOK /\ end \in Nat /\ reach \in Nat /\ reach <= end /\ unlisted \subseteq DOMAIN log
        /\ log = [o \in DOMAIN log |-> log[o]]
    BY DEF IndInv, TypeOK, LogRises
  <2>2. \A o \in DOMAIN log : o \in Nat /\ o < reach
    BY StreamTypes DEF IndInv, LogRises
  <2>3. Len(data) \in Nat \ {0} /\ DOMAIN data = 1 .. Len(data)
    BY LenProperties, EmptySeq
  <2>. QED
    BY <2>1, <2>2, <2>3
<1>2. ASSUME NEW removed, NEW listed, StoreAndEvict(data, removed, listed)
      PROVE  AppendKeeps(data) /\ reach' = end + Len(data)
  <2>1. PICK kept \in SUBSET {o \in unlisted : o < removed} :
           /\ log' = [o \in kept \cup {o \in DOMAIN Stored(data) : o >= removed} |-> Stored(data)[o]]
           /\ unlisted' = {o \in DOMAIN log' : o \in unlisted \cup (removed .. listed - 1)}
           /\ reach' = end + Len(data)
    BY <1>2 DEF StoreAndEvict
  <2>2. kept \subseteq DOMAIN Stored(data)
    BY <1>1, StoredIs
  <2>3. /\ DOMAIN log' \subseteq DOMAIN Stored(data) /\ \A o \in DOMAIN log' : log'[o] = Stored(data)[o]
        /\ log' = [o \in DOMAIN log' |-> log'[o]]
    BY <2>1, <2>2
  <2>4. unlisted' \subseteq DOMAIN log' /\ reach' \in Nat /\ reach' <= end + Len(data)
    BY <1>1, <2>1
  <2>5. \A o \in DOMAIN log' : o \in Nat /\ o < reach'
    BY <2>1, <2>3, StoredIs
  <2>6. \A o \in DOMAIN log' :
          \/ o \in DOMAIN log /\ o < end /\ log'[o] = log[o]
          \/ /\ o >= end /\ o < end + Len(data)
             /\ o - end + 1 \in DOMAIN data /\ log'[o] = data[o - end + 1]
    BY <2>3, StoredIs
  <2>. QED
    BY <2>1, <2>3, <2>4, <2>5, <2>6 DEF AppendKeeps
<1>3. ASSUME UNCHANGED files
      PROVE  AppendKeeps(data) /\ reach' = reach
  <2>1. log' = log /\ unlisted' = unlisted /\ reach' = reach
    BY <1>3 DEF files
  <2>. QED
    BY <1>1, <2>1 DEF AppendKeeps
<1>4. ASSUME NEW n \in 0 .. Len(data) - 1, log' = Stored(SubSeq(data, 1, n)),
             unlisted' = unlisted \cup (end .. end + n - 1), reach' = end + n
      PROVE  AppendKeeps(data) /\ end <= reach' /\ reach' < end + Len(data)
  <2>1. PICK part : part = SubSeq(data, 1, n)
    OBVIOUS
  <2>2. /\ part \in Seq(Nat) /\ Len(part) = n /\ n \in Nat /\ n < Len(data)
        /\ DOMAIN part = 1 .. n /\ \A k \in 1 .. n : k \in DOMAIN data /\ part[k] = data[k]
    <3>1. n \in Nat /\ n < Len(data)
      BY <1>1
    <3>2. Len(part) = n /\ part = [k \in 1 .. n |-> data[k]]
      BY <1>1, <2>1, <3>1
    <3>3. \A k \in 1 .. n : k \in DOMAIN data /\ data[k] \in Nat
      BY <1>1, <3>1, ElementOfSeq
    <3>. QED
      BY <3>1, <3>2, <3>3
  <2>3. log' = Stored(part)
    BY <1>4, <2>1
  <2>4. log' = [o \in DOMAIN log' |-> log'[o]]
    BY <2>3 DEF Stored
  <2>5. /\ DOMAIN log' = DOMAIN log \cup (end .. end + n - 1)
        /\ \A o \in DOMAIN log' :
              /\ o \in Nat /\ o < end + n
              /\ \/ o \in DOMAIN log /\ o < end /\ log'[o] = log[o]
                 \/ o >= end /\ o - end + 1 \in 1 .. n /\ log'[o] = part[o - end + 1]
    BY <2>2, <2>3, StoredIs
  <2>6. \A o \in DOMAIN log' : o \in Nat /\ o < reach' /\ o < end + Len(data)
    BY <1>1, <1>4, <2>2, <2>5
  <2>7. unlisted' \subseteq DOMAIN log' /\ reach' \in Nat /\ end <= reach' /\ reach' < end + Len(data)
        /\ reach' <= end + Len(data)
    BY <1>1, <1>4, <2>2, <2>5
  <2>. QED
    BY <2>2, <2>4, <2>5, <2>6, <2>7 DEF AppendKeeps
<1>5. CASE Appends(data) /\ counted = Len(data)
  BY <1>1, <1>2, <1>5 DEF Appends
<1>6. CASE AppendFails(data, counted)
  BY <1>1, <1>2, <1>3, <1>4, <1>6 DEF AppendFails
<1>. QED
  BY <1>5, <1>6

\* Bytes that are put at the top of the log keep it rising, whatever is evicted
\* below them.
LEMMA StoreLemma ==
    ASSUME IndInv, Alive \/ Opening, NEW data \in Seq(Nat), data # <<>>, written' \in Nat,
           \A k, l \in DOMAIN data : k < l => data[k] < data[l],
           \A k \in DOMAIN data : data[k] <= written',
           written' >= written,
           \A k \in DOMAIN data : \A o \in DOMAIN log : log[o] < data[k],
           AppendKeeps(data)
    PROVE  /\ DOMAIN log' \subseteq Nat /\ log' \in [DOMAIN log' -> Nat]
           /\ IsFiniteSet(DOMAIN log')
           /\ \A o, p \in DOMAIN log' : o < p => log'[o] < log'[p]
           /\ \A o \in DOMAIN log' : log'[o] <= written' /\ o < reach'
           /\ unlisted' \subseteq DOMAIN log' /\ reach' \in Nat
<1>1. /\ TypeOK /\ LogRises /\ end \in Nat /\ written \in Nat
      /\ Len(data) \in Nat \ {0} /\ DOMAIN data = 1 .. Len(data)
      /\ \A k \in DOMAIN data : data[k] \in Nat
      /\ \A o \in DOMAIN log : o \in Nat /\ log[o] \in Nat /\ log[o] <= written
  <2>1. TypeOK /\ LogRises
    BY DEF IndInv
  <2>2. Len(data) \in Nat \ {0} /\ DOMAIN data = 1 .. Len(data) /\ \A k \in DOMAIN data : data[k] \in Nat
    BY LenProperties, ElementOfSeq, EmptySeq
  <2>. QED
    BY <2>1, <2>2, StreamTypes DEF LogRises
<1>2. ASSUME NEW o \in DOMAIN log'
      PROVE  /\ o \in Nat /\ log'[o] \in Nat /\ log'[o] <= written' /\ o < reach'
             /\ \/ o \in DOMAIN log /\ o < end /\ log'[o] = log[o]
                \/ /\ o >= end /\ o < end + Len(data) /\ o \in end .. end + Len(data) - 1
                   /\ o - end + 1 \in DOMAIN data /\ log'[o] = data[o - end + 1]
  <2>1. CASE o \in DOMAIN log /\ o < end /\ log'[o] = log[o]
    BY <1>1, <2>1 DEF AppendKeeps
  <2>2. CASE /\ o >= end /\ o < end + Len(data)
             /\ o - end + 1 \in DOMAIN data /\ log'[o] = data[o - end + 1]
    <3>1. o \in Nat /\ o \in end .. end + Len(data) - 1
      <4>1. o \in Nat
        BY DEF AppendKeeps
      <4>. QED
        BY <1>1, <2>2, <4>1
    <3>. QED
      BY <1>1, <2>2, <3>1 DEF AppendKeeps
  <2>. QED
    BY <2>1, <2>2 DEF AppendKeeps
<1>3. IsFiniteSet(DOMAIN log')
  <2>1. IsFiniteSet(DOMAIN log) /\ IsFiniteSet(end .. end + Len(data) - 1)
    BY <1>1, FS_Interval DEF LogRises
  <2>2. IsFiniteSet(DOMAIN log \cup (end .. end + Len(data) - 1))
    BY <2>1, FS_Union
  <2>3. DOMAIN log' \subseteq DOMAIN log \cup (end .. end + Len(data) - 1)
    BY <1>2
  <2>. QED
    BY <2>2, <2>3, FS_Subset
<1>5. ASSUME NEW o \in DOMAIN log', NEW p \in DOMAIN log', o < p
      PROVE  log'[o] < log'[p]
  <2>1. CASE o \in DOMAIN log /\ o < end /\ log'[o] = log[o]
    <3>1. CASE p \in DOMAIN log /\ p < end /\ log'[p] = log[p]
      BY <1>1, <1>5, <2>1, <3>1 DEF LogRises
    <3>2. CASE p >= end /\ p - end + 1 \in DOMAIN data /\ log'[p] = data[p - end + 1]
      BY <2>1, <3>2
    <3>. QED
      BY <1>2, <3>1, <3>2
  <2>2. CASE o >= end /\ o - end + 1 \in DOMAIN data /\ log'[o] = data[o - end + 1]
    <3>1. p >= end /\ p - end + 1 \in DOMAIN data /\ log'[p] = data[p - end + 1]
      <4>1. o \in Nat /\ p \in Nat
        BY <1>2
      <4>2. ~(p < end)
        BY <1>1, <1>5, <2>2, <4>1
      <4>. QED
        BY <1>2, <4>2
    <3>2. o - end + 1 < p - end + 1
      BY <1>1, <1>2, <1>5
    <3>. QED
      BY <2>2, <3>1, <3>2
  <2>. QED
    BY <1>2, <2>1, <2>2
<1>. QED
  BY <1>2, <1>3, <1>5 DEF AppendKeeps

\* Without a connection nothing waits on it.
LEMMA NoWire ==
    ASSUME wire' = <<>>, link' # "live"
    PROVE  WireIsSound' /\ WireRises' /\ WireIsContiguous' /\ WireIsGapless'
<1>1. DOMAIN wire' = {}
  OBVIOUS
<1>. QED
  BY <1>1 DEF WireIsSound, WireRises, WireIsContiguous, WireIsGapless

\* The banner of a resurrection is past all that the shells before it wrote.
LEMMA BindInd == ASSUME IndInv, Bind PROVE IndInv'
<1>1. /\ TypeOK /\ Opening /\ ~Alive /\ pty = <<>>
      /\ UNCHANGED <<pty, tomb, forgot, skipped, link, from, wire, thread, next, shown, exit,
                     revivals, deaths, stalls, starts>>
  BY DEF IndInv, Bind, conn, daemon, Alive, Opening, PtyIsAhead
<1>2. /\ thread \notin {"follow", "repair"} /\ link = "none" /\ wire = <<>>
      /\ exit = "told" => stalls # 0
      /\ end \in Nat /\ written \in Nat /\ next \in Nat
  BY <1>1 DEF IndInv, LinkIsOwn, ExitedIsLast, Opening, TypeOK
<1>3. Edge = end /\ end = reach
  BY <1>1 DEF IndInv, LogRises, Edge
<1>4. CASE /\ holder' = "up" /\ shell' = TRUE
           /\ UNCHANGED <<written, files, end, faults>>
  <2>1. Alive' /\ ~Opening' /\ Edge' = end
    BY <1>4 DEF Alive, Opening, Edge
  <2>2. /\ TypeOK' /\ UNCHANGED <<log, unlisted, reach, written, end>>
    BY <1>1, <1>4 DEF TypeOK, files
  <2>3. LogRises' /\ PtyIsAhead' /\ LinkIsOwn' /\ ShownIsBehind' /\ NothingPassedIsLost'
    BY <1>1, <1>2, <1>3, <1>4, <2>1, <2>2 DEF IndInv, LogRises, PtyIsAhead, LinkIsOwn, ShownIsBehind,
       ShownInOrder, NothingPassedIsLost
  <2>4. ExitedIsLast' /\ FinalOutputIsShown'
    BY <1>1, <1>2, <1>4 DEF ExitedIsLast, FinalOutputIsShown
  <2>. QED
    BY <1>1, <1>2, <2>2, <2>3, <2>4, NoWire DEF IndInv
<1>. DEFINE data == <<written + 1>>
<1>5. ASSUME written' = written + 1, NEW counted \in {0, Len(data)}, end' = end + counted,
             \/ /\ Appends(data) /\ counted = Len(data)
                /\ holder' = "up" /\ shell' = TRUE /\ faults' = faults
             \/ /\ AppendFails(data, counted)
                /\ holder' = "failed" /\ shell' = shell /\ faults' = faults + 1
      PROVE  IndInv'
  <2>1. /\ data \in Seq(Nat) /\ data # <<>> /\ Len(data) = 1 /\ DOMAIN data = 1 .. 1
        /\ data[1] = written + 1 /\ \A k \in DOMAIN data : k = 1
    BY <1>2
  <2>2. \A o \in DOMAIN log : o \in Nat /\ log[o] \in Nat /\ log[o] <= written
    BY <1>1, StreamTypes DEF IndInv, LogRises
  <2>3. \A k \in DOMAIN data : data[k] <= written' /\ \A o \in DOMAIN log : log[o] < data[k]
    BY <1>2, <1>5, <2>1, <2>2
  <2>4. \A k, l \in DOMAIN data : k < l => data[k] < data[l]
    BY <2>1
  <2>. HIDE DEF data
  <2>5. /\ AppendKeeps(data)
        /\ counted = Len(data) => reach' = end + Len(data)
        /\ counted = 0 => reach' = reach \/ (end <= reach' /\ reach' < end + Len(data))
    BY <1>1, <1>5, <2>1, AppendIs
  <2>6. /\ DOMAIN log' \subseteq Nat /\ log' \in [DOMAIN log' -> Nat]
        /\ IsFiniteSet(DOMAIN log')
        /\ \A o, p \in DOMAIN log' : o < p => log'[o] < log'[p]
        /\ \A o \in DOMAIN log' : log'[o] <= written' /\ o < reach'
        /\ unlisted' \subseteq DOMAIN log' /\ reach' \in Nat
    <3>1. written' \in Nat /\ written' >= written
      BY <1>2, <1>5
    <3>. QED
      BY <1>1, <2>1, <2>3, <2>4, <2>5, <3>1, StoreLemma
  <2>7. reach' = end' /\ end' \in Nat /\ end' >= end
    BY <1>2, <1>3, <1>5, <2>1, <2>5, <2>6
  <2>8. /\ Edge' = end' /\ (Opening' => holder' = "failed")
        /\ holder' \in {"up", "failed"} /\ shell' \in BOOLEAN /\ faults' \in Nat
        /\ Alive' \/ Opening'
    <3>1. holder' \in {"up", "failed"}
      BY <1>5
    <3>2. shell' \in BOOLEAN
      BY <1>1, <1>5 DEF TypeOK
    <3>3. faults' \in Nat
      BY <1>1, <1>5 DEF TypeOK
    <3>. QED
      BY <3>1, <3>2, <3>3 DEF Alive, Opening, Edge
  <2>9. \A o \in DOMAIN log' : \/ o \in DOMAIN log /\ o < end /\ log'[o] = log[o]
                               \/ o >= end /\ log'[o] = written + 1
    BY <2>1, <2>5 DEF AppendKeeps
  <2>10. TypeOK'
    <3>1. written' \in Nat
      BY <1>2, <1>5
    <3>. QED
      BY <1>1, <2>6, <2>7, <2>8, <3>1 DEF TypeOK
  <2>11. LogRises'
    BY <2>6, <2>7, <2>8 DEF LogRises
  <2>12. PtyIsAhead' /\ LinkIsOwn'
    BY <1>1, <1>2, <2>8 DEF IndInv, PtyIsAhead, LinkIsOwn
  <2>13. ShownIsBehind'
    <3>1. ASSUME NEW j \in DOMAIN shown
          PROVE  /\ shown[j] <= written'
                 /\ \A o \in DOMAIN log' : o >= next => shown[j] < log'[o]
      BY <1>1, <1>2, <1>5, <2>9, StreamTypes DEF IndInv, ShownIsBehind
    <3>. QED
      BY <1>1, <3>1 DEF IndInv, ShownIsBehind, ShownInOrder
  <2>14. NothingPassedIsLost'
    <3>1. ASSUME ~forgot, NEW o \in DOMAIN log', o \notin skipped, o < next
          PROVE  log'[o] \in Sets(shown)
      <4>1. o \in Nat /\ next <= end
        BY <1>2, <1>3, <2>6, <3>1 DEF IndInv, NothingPassedIsLost
      <4>2. o \in DOMAIN log /\ log'[o] = log[o]
        BY <1>2, <2>9, <3>1, <4>1
      <4>. QED
        BY <3>1, <4>2 DEF IndInv, NothingPassedIsLost
    <3>2. ~forgot => next <= end'
      BY <1>2, <1>3, <2>7 DEF IndInv, NothingPassedIsLost
    <3>3. Edge' = end' /\ forgot' = forgot /\ next' = next /\ skipped' = skipped /\ shown' = shown
      BY <1>1, <2>8
    <3>. QED
      BY <3>1, <3>2, <3>3 DEF NothingPassedIsLost, Sets
  <2>15. ExitedIsLast' /\ FinalOutputIsShown'
    BY <1>1, <1>2, <1>5 DEF ExitedIsLast, FinalOutputIsShown
  <2>. QED
    BY <1>1, <1>2, <2>10, <2>11, <2>12, <2>13, <2>14, <2>15, NoWire DEF IndInv
<1>6. CASE ~(/\ holder' = "up" /\ shell' = TRUE
             /\ UNCHANGED <<written, files, end, faults>>)
  <2>1. Len(data) = 1 /\ {0, Len(data)} = 0 .. 1
    OBVIOUS
  <2>. HIDE DEF data
  <2>2. /\ written' = written + 1
        /\ \E counted \in 0 .. 1 :
              /\ end' = end + counted
              /\ \/ /\ Appends(data) /\ counted = 1
                    /\ holder' = "up" /\ shell' = TRUE /\ faults' = faults
                 \/ /\ AppendFails(data, counted)
                    /\ holder' = "failed" /\ shell' = shell /\ faults' = faults + 1
    BY <1>6 DEF Bind, Fault, data
  <2>. QED
    BY <1>5, <2>1, <2>2
<1>. QED
  BY <1>4, <1>6

\* The pump takes the first bytes of the pty, and they are past all that was stored,
\* shown or sent.
LEMMA ReadPty ==
    ASSUME IndInv, NEW n \in 1 .. Len(pty), NEW data, data = SubSeq(pty, 1, n),
           pty' = SubSeq(pty, n + 1, Len(pty))
    PROVE  /\ data \in Seq(Nat) /\ data # <<>> /\ Len(data) = n /\ DOMAIN data = 1 .. n
           /\ \A k, l \in DOMAIN data : k < l => data[k] < data[l]
           /\ \A k \in DOMAIN data :
                 /\ data[k] <= written
                 /\ \A o \in DOMAIN log : log[o] < data[k]
                 /\ \A j \in DOMAIN shown : shown[j] < data[k]
                 /\ \A i \in DOMAIN pty' : data[k] < pty'[i]
                 /\ \A i \in DOMAIN wire : \A l \in DOMAIN wire[i].data : wire[i].data[l] < data[k]
           /\ pty' \in Seq(Nat)
           /\ \A i, j \in DOMAIN pty' : i < j => pty'[i] < pty'[j]
           /\ \A i \in DOMAIN pty' : \E l \in DOMAIN pty : pty'[i] = pty[l]
<1>1. /\ TypeOK /\ pty \in Seq(Nat) /\ Len(pty) \in Nat /\ DOMAIN pty = 1 .. Len(pty)
      /\ n \in Nat /\ n >= 1 /\ n <= Len(pty)
  <2>1. TypeOK
    BY DEF IndInv
  <2>2. pty \in Seq(Nat)
    BY <2>1 DEF TypeOK
  <2>3. Len(pty) \in Nat /\ DOMAIN pty = 1 .. Len(pty)
    BY <2>2, LenProperties
  <2>. QED
    BY <2>1, <2>2, <2>3
<1>2. /\ data \in Seq(Nat) /\ Len(data) = n /\ DOMAIN data = 1 .. n
      /\ \A k \in 1 .. n : data[k] = pty[k]
  <2>1. Len(data) = n /\ data = [k \in 1 .. n |-> pty[k]]
    BY <1>1
  <2>2. \A k \in 1 .. n : pty[k] \in Nat
    BY <1>1
  <2>. QED
    BY <1>1, <2>1, <2>2
<1>3. /\ pty' \in Seq(Nat) /\ DOMAIN pty' = 1 .. Len(pty) - n
      /\ \A i \in DOMAIN pty' : n + i \in DOMAIN pty /\ pty'[i] = pty[n + i]
  <2>1. n + 1 \in Int /\ Len(pty) \in Int /\ \A i \in n + 1 .. Len(pty) : pty[i] \in Nat
    BY <1>1
  <2>2. /\ pty' \in Seq(Nat)
        /\ Len(pty') = IF n + 1 <= Len(pty) THEN Len(pty) - (n + 1) + 1 ELSE 0
        /\ \A i \in 1 .. Len(pty) - (n + 1) + 1 : pty'[i] = pty[n + 1 + i - 1]
    BY <2>1, SubSeqProperties
  <2>3. Len(pty') = Len(pty) - n
    <3>1. ASSUME NEW a \in Nat, NEW b \in Nat, b <= a
          PROVE  (IF b + 1 <= a THEN a - (b + 1) + 1 ELSE 0) = a - b
      BY <3>1
    <3>. QED
      BY <1>1, <2>2, <3>1
  <2>4. DOMAIN pty' = 1 .. Len(pty) - n
    BY <2>2, <2>3, LenProperties
  <2>5. ASSUME NEW i \in 1 .. Len(pty) - n
        PROVE  n + i \in 1 .. Len(pty) /\ pty'[i] = pty[n + i]
    <3>1. i \in 1 .. Len(pty) - (n + 1) + 1 /\ n + 1 + i - 1 = n + i /\ n + i \in 1 .. Len(pty)
      BY <1>1
    <3>. QED
      BY <2>2, <3>1
  <2>. QED
    BY <1>1, <2>2, <2>4, <2>5
<1>4. \A k \in DOMAIN data : k \in DOMAIN pty /\ data[k] = pty[k] /\ data[k] \in Nat
  BY <1>1, <1>2
<1>5. \A k, l \in DOMAIN data : k < l => data[k] < data[l]
  BY <1>4 DEF IndInv, PtyIsAhead
<1>6. ASSUME NEW k \in DOMAIN data
      PROVE  /\ data[k] <= written
             /\ \A o \in DOMAIN log : log[o] < data[k]
             /\ \A j \in DOMAIN shown : shown[j] < data[k]
  BY <1>4 DEF IndInv, PtyIsAhead
<1>7. ASSUME NEW k \in DOMAIN data, NEW i \in DOMAIN pty'
      PROVE  data[k] < pty'[i]
  <2>1. k < n + i
    BY <1>1, <1>2, <1>3
  <2>. QED
    BY <1>3, <1>4, <2>1 DEF IndInv, PtyIsAhead
<1>8. ASSUME NEW k \in DOMAIN data, NEW i \in DOMAIN wire, NEW l \in DOMAIN wire[i].data
      PROVE  wire[i].data[l] < data[k]
  <2>1. MessageIsSound(wire[i])
    BY DEF IndInv, WireIsSound
  <2>. QED
    BY <1>4, <2>1 DEF MessageIsSound
<1>9. \A i, j \in DOMAIN pty' : i < j => pty'[i] < pty'[j]
  BY <1>1, <1>3 DEF IndInv, PtyIsAhead
<1>10. \A i \in DOMAIN pty' : \E l \in DOMAIN pty : pty'[i] = pty[l]
  BY <1>3
<1>11. data # <<>>
  BY <1>1, <1>2
<1>. HIDE DEF IndInv
<1>. QED
  BY <1>2, <1>3, <1>5, <1>6, <1>7, <1>8, <1>9, <1>10, <1>11

\* What the journal holds after an append, with the eviction at its end or with a
\* failure at any point of it.
LEMMA StoreOutcome ==
    ASSUME IndInv, Alive, NEW data \in Seq(Nat), data # <<>>, written' = written, Store(data),
           Alive',
           \A k, l \in DOMAIN data : k < l => data[k] < data[l],
           \A k \in DOMAIN data : data[k] <= written,
           \A k \in DOMAIN data : \A o \in DOMAIN log : log[o] < data[k]
    PROVE  /\ DOMAIN log' \subseteq Nat /\ log' \in [DOMAIN log' -> Nat]
           /\ unlisted' \subseteq DOMAIN log' /\ reach' \in Nat
           /\ end' \in Nat /\ end' >= end + Len(data) /\ faults' \in Nat
           /\ LogRises'
           /\ \A o \in DOMAIN log' :
                 \/ o \in DOMAIN log /\ o < end /\ log'[o] = log[o]
                 \/ /\ o >= end /\ o < end + Len(data)
                    /\ o - end + 1 \in DOMAIN data /\ log'[o] = data[o - end + 1]
<1>1. /\ TypeOK /\ LogRises /\ end \in Nat /\ faults \in Nat /\ written \in Nat
      /\ Len(data) \in Nat \ {0} /\ ~Opening'
  <2>1. TypeOK /\ LogRises /\ ~Opening'
    BY DEF IndInv, Alive, Opening
  <2>2. Len(data) \in Nat \ {0}
    BY LenProperties, EmptySeq
  <2>. QED
    BY <2>1, <2>2 DEF TypeOK
<1>2. PICK counted \in {0, Len(data)} :
         /\ (Appends(data) /\ counted = Len(data)) \/ AppendFails(data, counted)
         /\ end' \in {end + Len(data), end + counted + Len(data)}
         /\ faults' \in {faults, faults + 1}
  BY DEF Store, Fault
<1>3. AppendKeeps(data)
  BY <1>2, AppendIs
<1>4. end' \in Nat /\ end' >= end + Len(data) /\ faults' \in Nat
  BY <1>1, <1>2
<1>5. /\ DOMAIN log' \subseteq Nat /\ log' \in [DOMAIN log' -> Nat]
      /\ IsFiniteSet(DOMAIN log')
      /\ \A o, p \in DOMAIN log' : o < p => log'[o] < log'[p]
      /\ \A o \in DOMAIN log' : log'[o] <= written' /\ o < reach'
      /\ unlisted' \subseteq DOMAIN log' /\ reach' \in Nat
  <2>1. written' \in Nat /\ written' >= written /\ \A k \in DOMAIN data : data[k] <= written'
    BY <1>1
  <2>. QED
    BY <1>3, <2>1, StoreLemma
<1>6. reach' <= end'
  BY <1>1, <1>3, <1>4, <1>5 DEF AppendKeeps
<1>7. LogRises'
  BY <1>1, <1>5, <1>6 DEF LogRises
<1>. HIDE DEF LogRises
<1>. QED
  BY <1>3, <1>4, <1>5, <1>7 DEF AppendKeeps

\* What the pump reads is on top of the log, and last on the wire.
LEMMA PumpInd == ASSUME IndInv, Pump PROVE IndInv'
<1>1. PICK n \in 1 .. MaxChunk :
         /\ n <= Len(pty)
         /\ pty' = SubSeq(pty, n + 1, Len(pty))
         /\ Store(SubSeq(pty, 1, n))
         /\ Send(Bytes(end, SubSeq(pty, 1, n)))
  BY DEF Pump
<1>2. /\ TypeOK /\ Alive /\ Alive' /\ ~Opening /\ ~Opening' /\ pty # <<>>
      /\ UNCHANGED <<holder, shell, written, tomb, forgot, skipped, from, thread, next, shown, exit,
                     revivals, deaths, starts>>
  BY DEF IndInv, Pump, Alive, Opening, files, daemon
<1>3. PICK data : data = SubSeq(pty, 1, n)
  OBVIOUS
<1>4. n \in 1 .. Len(pty)
  BY <1>1, <1>2, StreamTypes, Bounds
<1>5. /\ data \in Seq(Nat) /\ data # <<>> /\ Len(data) = n /\ DOMAIN data = 1 .. n
      /\ \A k, l \in DOMAIN data : k < l => data[k] < data[l]
      /\ \A k \in DOMAIN data :
            /\ data[k] <= written
            /\ \A o \in DOMAIN log : log[o] < data[k]
            /\ \A j \in DOMAIN shown : shown[j] < data[k]
            /\ \A i \in DOMAIN pty' : data[k] < pty'[i]
            /\ \A i \in DOMAIN wire : \A l \in DOMAIN wire[i].data : wire[i].data[l] < data[k]
      /\ pty' \in Seq(Nat)
      /\ \A i, j \in DOMAIN pty' : i < j => pty'[i] < pty'[j]
      /\ \A i \in DOMAIN pty' : \E l \in DOMAIN pty : pty'[i] = pty[l]
  BY <1>1, <1>3, <1>4, ReadPty
<1>6. Store(data) /\ Send(Bytes(end, data))
  BY <1>1, <1>3
<1>7. /\ DOMAIN log' \subseteq Nat /\ log' \in [DOMAIN log' -> Nat]
      /\ unlisted' \subseteq DOMAIN log' /\ reach' \in Nat
      /\ end' \in Nat /\ end' >= end + Len(data) /\ faults' \in Nat
      /\ LogRises'
      /\ \A o \in DOMAIN log' :
            \/ o \in DOMAIN log /\ o < end /\ log'[o] = log[o]
            \/ /\ o >= end /\ o < end + Len(data)
               /\ o - end + 1 \in DOMAIN data /\ log'[o] = data[o - end + 1]
  BY <1>2, <1>5, <1>6, StoreOutcome
<1>8. /\ end \in Nat /\ next \in Nat /\ written \in Nat /\ Len(data) \in Nat \ {0}
      /\ Edge = end /\ Edge' = end' /\ stalls \in Nat
      /\ \A o \in DOMAIN log : o \in Nat /\ o < end /\ log[o] \in Nat
      /\ \A k \in DOMAIN data : data[k] \in Nat
      /\ \A j \in DOMAIN shown : shown[j] \in Nat
      /\ \A o \in DOMAIN log' : o \in Nat
  <2>1. Edge = end /\ Edge' = end' /\ stalls \in Nat
    BY <1>2 DEF Edge, TypeOK
  <2>2. Len(data) \in Nat \ {0} /\ \A k \in DOMAIN data : data[k] \in Nat
    BY <1>4, <1>5, <1>2, StreamTypes, ElementOfSeq
  <2>3. \A o \in DOMAIN log : o \in Nat /\ o < end /\ log[o] \in Nat
    BY <1>2, StreamTypes DEF IndInv, LogRises
  <2>. QED
    BY <1>2, <1>7, <2>1, <2>2, <2>3, StreamTypes
<1>9. PtyIsAhead'
  <2>1. ASSUME NEW i \in DOMAIN pty'
        PROVE  /\ pty'[i] <= written'
               /\ \A o \in DOMAIN log' : log'[o] < pty'[i]
               /\ \A j \in DOMAIN shown' : shown'[j] < pty'[i]
    <3>1. PICK l \in DOMAIN pty : pty'[i] = pty[l]
      BY <1>5
    <3>2. pty[l] <= written /\ (\A o \in DOMAIN log : log[o] < pty[l])
          /\ \A j \in DOMAIN shown : shown[j] < pty[l]
      BY DEF IndInv, PtyIsAhead
    <3>3. \A o \in DOMAIN log' : log'[o] < pty'[i]
      BY <1>5, <1>7, <3>1, <3>2
    <3>. QED
      BY <1>2, <3>1, <3>2, <3>3
  <2>. QED
    BY <1>2, <1>5, <2>1 DEF PtyIsAhead
<1>10. ShownIsBehind'
  <2>1. ASSUME NEW j \in DOMAIN shown, NEW o \in DOMAIN log', o >= next
        PROVE  shown[j] < log'[o]
    BY <1>5, <1>7, <2>1 DEF IndInv, ShownIsBehind
  <2>. QED
    BY <1>2, <2>1 DEF IndInv, ShownIsBehind, ShownInOrder
<1>11. NothingPassedIsLost'
  <2>1. ~forgot => next <= end'
    BY <1>7, <1>8 DEF IndInv, NothingPassedIsLost
  <2>2. ASSUME ~forgot, NEW o \in DOMAIN log' \ skipped, o < next
        PROVE  log'[o] \in Sets(shown)
    <3>1. next <= end /\ o < end
      BY <1>8, <2>2 DEF IndInv, NothingPassedIsLost
    <3>2. o \in DOMAIN log /\ log'[o] = log[o]
      BY <1>7, <1>8, <2>2, <3>1
    <3>. QED
      BY <2>2, <3>2 DEF IndInv, NothingPassedIsLost
  <2>. QED
    BY <1>2, <1>8, <2>1, <2>2 DEF NothingPassedIsLost
<1>12. ASSUME NEW m \in Message, MessageIsSound(m),
              \A k \in DOMAIN m.data, l \in DOMAIN data : m.data[k] < data[l]
       PROVE  MessageIsSound(m)'
  <2>1. m.at \in Nat /\ Len(m.data) \in Nat /\ DOMAIN m.data = 1 .. Len(m.data)
    BY LenProperties DEF Message
  <2>2. m.at + Len(m.data) <= end /\ m.at + Len(m.data) <= end'
    BY <1>2, <1>7, <1>8, <1>12, <2>1 DEF MessageIsSound
  <2>3. ASSUME NEW k \in DOMAIN m.data
        PROVE  /\ m.data[k] <= written'
               /\ \A i \in DOMAIN pty' : m.data[k] < pty'[i]
               /\ m.at + k > next' => \A j \in DOMAIN shown' : shown'[j] < m.data[k]
               /\ \A o \in DOMAIN log' :
                     /\ o >= m.at + Len(m.data) => m.data[k] < log'[o]
                     /\ o = m.at + k - 1 => log'[o] = m.data[k]
    <3>1. \A i \in DOMAIN pty' : m.data[k] < pty'[i]
      BY <1>5, <1>12 DEF MessageIsSound
    <3>2. ASSUME NEW o \in DOMAIN log', o >= m.at + Len(m.data)
          PROVE  m.data[k] < log'[o]
      BY <1>7, <1>12, <3>2 DEF MessageIsSound
    <3>3. ASSUME NEW o \in DOMAIN log', o = m.at + k - 1
          PROVE  log'[o] = m.data[k]
      <4>1. o < end
        BY <1>8, <2>1, <2>2, <3>3
      <4>2. o \in DOMAIN log /\ log'[o] = log[o]
        BY <1>7, <1>8, <4>1
      <4>. QED
        BY <1>12, <3>3, <4>2 DEF MessageIsSound
    <3>. QED
      BY <1>2, <1>12, <3>1, <3>2, <3>3 DEF MessageIsSound
  <2>. QED
    BY <1>2, <1>8, <1>12, <2>2, <2>3 DEF MessageIsSound
<1>13. \A i \in DOMAIN wire :
          /\ MessageIsSound(wire[i]) /\ wire[i] \in Message
          /\ \A k \in DOMAIN wire[i].data, l \in DOMAIN data : wire[i].data[k] < data[l]
          /\ wire[i].at \in Nat /\ Len(wire[i].data) \in Nat
          /\ wire[i].at + Len(wire[i].data) <= end
  <2>1. \A i \in DOMAIN wire : MessageIsSound(wire[i])
    BY DEF IndInv, WireIsSound
  <2>2. \A i \in DOMAIN wire : wire[i] \in Message /\ wire[i].at \in Nat /\ Len(wire[i].data) \in Nat
    BY <1>2, WireTypes
  <2>. QED
    BY <1>2, <1>5, <1>8, <2>1, <2>2 DEF MessageIsSound
<1>14. ASSUME NEW i \in DOMAIN wire, NEW o \in DOMAIN log' \ skipped, o >= next, o < wire[i].at
       PROVE  \E j \in 1 .. i - 1 : Covers(wire[j], o)
  <2>1. o < end
    BY <1>8, <1>13, <1>14
  <2>2. o \in DOMAIN log
    BY <1>7, <1>8, <2>1
  <2>. QED
    BY <1>14, <2>2 DEF IndInv, WireIsContiguous
<1>15. stalls = 0 => exit # "told" /\ \A i \in DOMAIN wire : wire[i] # Exited
  BY <1>2 DEF IndInv, ExitedIsLast, Alive
<1>16. CASE link = "live" /\ wire' = Append(wire, Bytes(end, data)) /\ UNCHANGED <<link, stalls>>
  <2>1. PICK m : m = Bytes(end, data)
    OBVIOUS
  <2>2. m \in Message /\ m.at = end /\ m.data = data /\ m # Exited
    <3>1. data # Exited.data
      BY <1>5, ExitedType
    <3>. QED
      BY <1>5, <1>8, <2>1, <3>1 DEF Bytes, Message
  <2>3. /\ wire' \in Seq(Message) /\ DOMAIN wire' = 1 .. Len(wire) + 1
        /\ Len(wire') = Len(wire) + 1 /\ Len(wire) \in Nat /\ DOMAIN wire = 1 .. Len(wire)
        /\ \A i \in DOMAIN wire : i \in DOMAIN wire' /\ wire'[i] = wire[i]
        /\ wire'[Len(wire) + 1] = m
        /\ \A i \in DOMAIN wire' : i \in DOMAIN wire \/ i = Len(wire) + 1
    BY <1>2, <1>16, <2>1, <2>2, AppendWire
  <2>4. TypeOK'
    BY <1>2, <1>5, <1>7, <1>16, <2>3 DEF TypeOK
  <2>5. LinkIsOwn'
    BY <1>2, <1>16 DEF IndInv, LinkIsOwn
  <2>6. WireIsSound'
    <3>1. MessageIsSound(m)'
      <4>1. ASSUME NEW k \in DOMAIN data
            PROVE  /\ data[k] <= written'
                   /\ \A i \in DOMAIN pty' : data[k] < pty'[i]
                   /\ \A j \in DOMAIN shown' : shown'[j] < data[k]
                   /\ \A o \in DOMAIN log' :
                         /\ o >= end + Len(data) => data[k] < log'[o]
                         /\ o = end + k - 1 => log'[o] = data[k]
        <5>1. ASSUME NEW o \in DOMAIN log' PROVE ~(o >= end + Len(data))
          BY <1>7, <1>8
        <5>2. ASSUME NEW o \in DOMAIN log', o = end + k - 1 PROVE log'[o] = data[k]
          <6>1. k \in Nat /\ k >= 1 /\ o - end + 1 = k /\ ~(o < end)
            BY <1>4, <1>5, <1>8, <5>2
          <6>. QED
            BY <1>7, <6>1
        <5>. QED
          BY <1>2, <1>5, <5>1, <5>2
      <4>. QED
        BY <1>5, <1>7, <1>8, <2>2, <4>1 DEF MessageIsSound
    <3>. SUFFICES ASSUME NEW i \in DOMAIN wire' PROVE MessageIsSound(wire[i])'
      BY DEF WireIsSound
    <3>2. PICK w : w = wire'[i]
      OBVIOUS
    <3>3. CASE i = Len(wire) + 1
      BY <2>3, <3>1, <3>2, <3>3
    <3>4. CASE i \in DOMAIN wire
      <4>1. w = wire[i]
        BY <2>3, <3>2, <3>4
      <4>2. MessageIsSound(w)'
        BY <1>12, <1>13, <3>4, <4>1
      <4>. QED
        BY <3>2, <4>2
    <3>. QED
      BY <2>3, <3>3, <3>4
  <2>7. WireRises'
    <3>. SUFFICES ASSUME NEW i \in DOMAIN wire', NEW j \in DOMAIN wire', i < j
                  PROVE  /\ wire'[j].data # <<>> =>
                               wire'[i].at + Len(wire'[i].data) <= wire'[j].at
                         /\ \A k \in DOMAIN wire'[i].data, l \in DOMAIN wire'[j].data :
                               wire'[i].data[k] < wire'[j].data[l]
      BY DEF WireRises
    <3>1. i \in DOMAIN wire
      BY <2>3
    <3>2. CASE j \in DOMAIN wire
      BY <2>3, <3>1, <3>2 DEF IndInv, WireRises
    <3>3. CASE j = Len(wire) + 1
      BY <1>13, <2>2, <2>3, <3>1, <3>3
    <3>. QED
      BY <2>3, <3>2, <3>3
  <2>8. WireIsContiguous'
    <3>. SUFFICES ASSUME NEW i \in DOMAIN wire', NEW o \in DOMAIN log' \ skipped, o >= next, o < wire'[i].at
                  PROVE  \E j \in 1 .. i - 1 : Covers(wire'[j], o)
      BY <1>2 DEF WireIsContiguous, Covers
    <3>1. CASE i \in DOMAIN wire
      <4>1. PICK j \in 1 .. i - 1 : Covers(wire[j], o)
        BY <1>14, <2>3, <3>1
      <4>2. j \in DOMAIN wire
        BY <2>3, <3>1
      <4>. QED
        BY <2>3, <4>1, <4>2
    <3>2. CASE i = Len(wire) + 1
      <4>1. o < end /\ o \in DOMAIN log
        BY <1>7, <1>8, <2>2, <2>3, <3>2
      <4>2. PICK j \in DOMAIN wire : Covers(wire[j], o)
        BY <1>16, <4>1 DEF IndInv, WireIsGapless
      <4>3. j \in 1 .. i - 1
        BY <2>3, <3>2
      <4>. QED
        BY <2>3, <4>2, <4>3
    <3>. QED
      BY <2>3, <3>1, <3>2
  <2>9. WireIsGapless'
    <3>. SUFFICES ASSUME NEW o \in DOMAIN log' \ skipped, o >= next
                  PROVE  \E j \in DOMAIN wire' : Covers(wire'[j], o)
      BY <1>2 DEF WireIsGapless, Covers
    <3>1. CASE o \in DOMAIN log /\ o < end
      <4>1. PICK j \in DOMAIN wire : Covers(wire[j], o)
        BY <1>16, <3>1 DEF IndInv, WireIsGapless
      <4>. QED
        BY <2>3, <4>1
    <3>2. CASE o >= end /\ o < end + Len(data)
      BY <2>2, <2>3, <3>2 DEF Covers
    <3>. QED
      BY <1>7, <3>1, <3>2
  <2>10. ExitedIsLast' /\ FinalOutputIsShown'
    <3>1. stalls = 0 => \A i \in DOMAIN wire' : wire'[i] # Exited
      BY <1>15, <2>2, <2>3
    <3>2. holder \notin {"tombed", "told", "gone"} \/ stalls # 0
      BY <1>2 DEF IndInv, ExitedIsLast
    <3>. QED
      BY <1>2, <1>15, <1>16, <3>1, <3>2 DEF ExitedIsLast, FinalOutputIsShown
  <2>. QED
    BY <1>7, <1>9, <1>10, <1>11, <2>4, <2>5, <2>6, <2>7, <2>8, <2>9, <2>10 DEF IndInv
<1>17. CASE ~(link = "live" /\ wire' = Append(wire, Bytes(end, data)) /\ UNCHANGED <<link, stalls>>)
  <2>1. /\ wire' = wire /\ link' # "live" /\ (link' = link \/ (link = "live" /\ link' = "shut"))
        /\ stalls' = stalls \/ stalls' = stalls + 1
    BY <1>6, <1>17 DEF Send, Stall, Retired
  <2>2. stalls' \in Nat /\ (stalls' = 0 => stalls = 0)
    BY <1>8, <2>1
  <2>3. TypeOK'
    <3>1. /\ holder' = holder /\ shell' = shell /\ written' = written /\ tomb' = tomb /\ forgot' = forgot /\ skipped' = skipped
          /\ from' = from /\ thread' = thread /\ next' = next /\ shown' = shown /\ exit' = exit
          /\ revivals' = revivals /\ deaths' = deaths /\ starts' = starts /\ wire' = wire
          /\ pty' \in Seq(Nat) /\ end' \in Nat /\ faults' \in Nat /\ stalls' \in Nat
          /\ DOMAIN log' \subseteq Nat /\ log' \in [DOMAIN log' -> Nat]
          /\ unlisted' \subseteq DOMAIN log' /\ reach' \in Nat
      BY <1>2, <1>5, <1>7, <2>1, <2>2
    <3>2. TypeOK /\ link' \in {link, "shut"}
      BY <1>2, <2>1
    <3>3. link' \in {"none", "asked", "live", "shut"}
      BY <3>2 DEF TypeOK
    <3>4. skipped' \subseteq Nat
      BY <3>1, <3>2 DEF TypeOK
    <3>. QED
      BY <3>1, <3>2, <3>3, <3>4 DEF TypeOK
  <2>4. LinkIsOwn'
    BY <1>2, <2>1 DEF IndInv, LinkIsOwn
  <2>5. WireIsSound'
    <3>. SUFFICES ASSUME NEW i \in DOMAIN wire PROVE MessageIsSound(wire[i])'
      BY <2>1 DEF WireIsSound
    <3>1. PICK w : w = wire[i]
      OBVIOUS
    <3>2. MessageIsSound(w)'
      BY <1>12, <1>13, <3>1
    <3>. QED
      BY <2>1, <3>1, <3>2
  <2>6. WireRises' /\ WireIsGapless'
    BY <2>1 DEF IndInv, WireRises, WireIsGapless
  <2>7. WireIsContiguous'
    BY <1>2, <1>14, <2>1 DEF WireIsContiguous, Covers
  <2>8. ExitedIsLast' /\ FinalOutputIsShown'
    <3>1. holder \notin {"tombed", "told", "gone"} \/ stalls # 0
      BY <1>2 DEF IndInv, ExitedIsLast
    <3>. QED
      BY <1>2, <1>15, <2>1, <2>2, <3>1 DEF ExitedIsLast, FinalOutputIsShown
  <2>. QED
    BY <1>7, <1>9, <1>10, <1>11, <2>3, <2>4, <2>5, <2>6, <2>7, <2>8 DEF IndInv
<1>. QED
  BY <1>16, <1>17

\* The part of a replay that goes on the wire: bytes of the log in order, from the
\* offset that the loop wants, and all of them that it does not pass over, if no write
\* stalls.
LEMMA AttachWire ==
    ASSUME IndInv, Attach
    PROVE  \E n \in Nat : \E s \in [1 .. n -> DOMAIN log] :
              /\ \A i \in 1 .. n : next <= s[i] /\ s[i] < end
              /\ \A i, j \in 1 .. n : i < j => s[i] < s[j]
              /\ \A i \in 1 .. n : \A o \in DOMAIN log \ skipped' :
                    o >= next /\ o < s[i] => \E j \in 1 .. i - 1 : s[j] = o
              /\ link' = "live" =>
                    \A o \in DOMAIN log \ skipped' : o >= next /\ o < end => \E i \in 1 .. n : s[i] = o
              /\ wire' = [i \in 1 .. n |-> Bytes(s[i], <<log[s[i]]>>)]
<1>1. /\ TypeOK /\ LogRises /\ from = next /\ wire = <<>> /\ next \in Nat /\ end \in Nat
      /\ \A o \in DOMAIN log : o \in Nat /\ log[o] \in Nat
  BY StreamTypes DEF IndInv, Attach, LinkIsOwn
<1>. DEFINE S == {o \in DOMAIN log \ unlisted : o >= from /\ o < end}
            N == Cardinality(S)
<1>2. N \in Nat
  BY <1>1, FS_Subset, FS_CardinalityType DEF LogRises
<1>3. PICK replay \in Replays(from), n \in Int :
         /\ n \in 0 .. Len(replay)
         /\ wire' = wire \o SubSeq(replay, 1, n)
         /\ skipped \cup {o \in unlisted : o >= from} \subseteq skipped'
         /\ link' = "live" =>
               n = Len(replay) \/ {replay[i].at : i \in n + 1 .. Len(replay)} \subseteq skipped'
  BY DEF Attach
<1>4. PICK s \in [1 .. N -> S] :
         /\ \A i, j \in DOMAIN s : i < j => s[i] < s[j]
         /\ \A o \in S : \E i \in DOMAIN s : s[i] = o
         /\ replay = [i \in DOMAIN s |-> Bytes(s[i], <<log[s[i]]>>)]
  BY <1>3 DEF Replays, ReplaysOf
<1>5. DOMAIN s = 1 .. N /\ \A i \in 1 .. N : s[i] \in DOMAIN log /\ next <= s[i] /\ s[i] < end
  BY <1>1, <1>4
<1>6. \A o \in DOMAIN log \ skipped' : o >= next /\ o < end => o \in S
  BY <1>1, <1>3
<1>. HIDE DEF S, N
<1>7. /\ replay \in Seq(Message) /\ Len(replay) = N
      /\ \A i \in 1 .. N : replay[i] = Bytes(s[i], <<log[s[i]]>>)
  <2>1. \A i \in 1 .. N : Bytes(s[i], <<log[s[i]]>>) \in Message
    BY <1>1, <1>5 DEF Bytes, Message
  <2>2. replay = [i \in 1 .. N |-> Bytes(s[i], <<log[s[i]]>>)]
    BY <1>4, <1>5
  <2>. QED
    BY <1>2, <2>1, <2>2
<1>8. n \in 0 .. N /\ n \in Nat /\ \A i \in 1 .. n : i \in 1 .. N
  <2>1. n \in 0 .. N
    BY <1>3, <1>7
  <2>. QED
    BY <1>2, <2>1
<1>9. wire' = [i \in 1 .. n |-> replay[i]]
  <2>1. SubSeq(replay, 1, n) \in Seq(Message) /\ SubSeq(replay, 1, n) = [i \in 1 .. n |-> replay[i]]
    BY <1>2, <1>7, <1>8
  <2>. QED
    BY <1>1, <1>3, <2>1, ConcatEmptySeq
<1>10. ASSUME link' = "live", NEW i \in 1 .. N, s[i] \notin skipped' PROVE i \in 1 .. n
  <2>. SUFFICES ASSUME i \notin 1 .. n PROVE FALSE
    OBVIOUS
  <2>1. i \in n + 1 .. Len(replay) /\ n # Len(replay)
    BY <1>2, <1>7, <1>8
  <2>2. replay[i].at = s[i]
    BY <1>7 DEF Bytes
  <2>. QED
    BY <1>3, <1>10, <2>1, <2>2
<1>11. PICK t : t = [i \in 1 .. n |-> s[i]]
  OBVIOUS
<1>12. t \in [1 .. n -> DOMAIN log] /\ \A i \in 1 .. n : t[i] = s[i]
  BY <1>5, <1>8, <1>11
<1>13. \A i \in 1 .. n : next <= t[i] /\ t[i] < end
  BY <1>5, <1>8, <1>12
<1>14. \A i, j \in 1 .. n : i < j => t[i] < t[j]
  BY <1>4, <1>5, <1>8, <1>12
<1>15. ASSUME NEW i \in 1 .. n, NEW o \in DOMAIN log \ skipped', o >= next, o < t[i]
       PROVE  \E j \in 1 .. i - 1 : t[j] = o
  <2>1. o \in S /\ t[i] \in Nat /\ o \in Nat
    <3>1. o < end
      BY <1>1, <1>12, <1>13, <1>15
    <3>. QED
      BY <1>1, <1>6, <1>12, <1>15, <3>1
  <2>2. PICK j \in 1 .. N : s[j] = o
    BY <1>4, <1>5, <2>1
  <2>3. j < i
    <3>. SUFFICES ASSUME ~(j < i) PROVE FALSE
      OBVIOUS
    <3>1. i \in 1 .. N /\ s[i] = t[i] /\ (j = i \/ i < j)
      BY <1>2, <1>8, <1>12
    <3>2. s[i] <= s[j]
      BY <1>4, <1>5, <2>1, <2>2, <3>1
    <3>. QED
      BY <1>15, <2>1, <2>2, <3>1, <3>2
  <2>4. j \in 1 .. i - 1 /\ j \in 1 .. n
    BY <1>2, <1>8, <2>3
  <2>. QED
    BY <1>12, <2>2, <2>4
<1>16. ASSUME link' = "live", NEW o \in DOMAIN log \ skipped', o >= next, o < end
       PROVE  \E i \in 1 .. n : t[i] = o
  <2>1. PICK i \in 1 .. N : s[i] = o
    BY <1>4, <1>5, <1>6, <1>16
  <2>2. i \in 1 .. n
    BY <1>10, <1>16, <2>1
  <2>. QED
    BY <1>12, <2>1, <2>2
<1>17. wire' = [i \in 1 .. n |-> Bytes(t[i], <<log[t[i]]>>)]
  BY <1>7, <1>8, <1>9, <1>12
<1>. QED
  BY <1>8, <1>12, <1>13, <1>14, <1>15, <1>16, <1>17

LEMMA ReplayIs ==
    ASSUME TypeOK, IsFiniteSet(DOMAIN log), NEW offset \in Nat, NEW replay \in Replays(offset)
    PROVE  replay \in Seq(Message)
<1>. DEFINE S == {o \in DOMAIN log \ unlisted : o >= offset /\ o < end}
            N == Cardinality(S)
<1>1. N \in Nat
  BY FS_Subset, FS_CardinalityType
<1>2. PICK s \in [1 .. N -> S] : replay = [i \in DOMAIN s |-> Bytes(s[i], <<log[s[i]]>>)]
  BY DEF Replays, ReplaysOf
<1>3. ASSUME NEW o \in S PROVE Bytes(o, <<log[o]>>) \in Message
  <2>1. o \in Nat /\ log[o] \in Nat
    BY StreamTypes
  <2>. QED
    BY <2>1 DEF Bytes, Message
<1>. HIDE DEF S, N
<1>4. replay \in [1 .. N -> Message]
  BY <1>2, <1>3
<1>. QED
  BY <1>1, <1>4

\* A replay continues what is shown.
LEMMA AttachInd == ASSUME IndInv, Attach PROVE IndInv'
<1>1. /\ TypeOK /\ Alive /\ Alive' /\ ~Opening /\ ~Opening' /\ link = "asked" /\ link' \in {"live", "shut"}
      /\ thread = "follow" /\ exit = "no" /\ Edge = end /\ Edge' = end'
      /\ stalls' = stalls \/ stalls' = stalls + 1
      /\ faults' \in {faults, faults + 1} /\ skipped \subseteq skipped' /\ skipped' \subseteq Nat
      /\ UNCHANGED <<holder, shell, pty, written, log, unlisted, reach, end, tomb, forgot, from,
                     thread, next,
                     shown, exit, revivals, deaths, starts>>
  <2>1. /\ TypeOK /\ Alive /\ link = "asked" /\ link' \in {"live", "shut"}
        /\ stalls' = stalls \/ stalls' = stalls + 1
        /\ faults' \in {faults, faults + 1} /\ skipped \subseteq skipped' /\ skipped' \subseteq Nat
        /\ UNCHANGED <<holder, shell, pty, written, log, unlisted, reach, end, tomb, forgot, from,
                       thread, next,
                       shown, exit, revivals, deaths, starts>>
    <3>1. TypeOK
      BY DEF IndInv
    <3>2. from \in Nat /\ IsFiniteSet(DOMAIN log)
      BY DEF IndInv, TypeOK, LogRises
    <3>3. ASSUME NEW replay \in Replays(from), NEW n \in 0 .. Len(replay)
          PROVE  /\ {o \in unlisted : o >= from} \subseteq Nat
                 /\ {replay[i].at : i \in n + 1 .. Len(replay)} \subseteq Nat
      <4>1. replay \in Seq(Message)
        BY <3>1, <3>2, <3>3, ReplayIs
      <4>2. ASSUME NEW i \in n + 1 .. Len(replay) PROVE replay[i].at \in Nat
        <5>1. i \in 1 .. Len(replay)
          BY <3>3, <4>1, <4>2
        <5>2. replay[i] \in Message
          BY <4>1, <5>1
        <5>. QED
          BY <5>2 DEF Message
      <4>. QED
        BY <3>1, <4>2 DEF TypeOK
    <3>. QED
      BY <3>1, <3>3 DEF Attach, files, holders, daemon, Stall, Fault, TypeOK
  <2>2. thread = "follow" /\ exit = "no"
    BY <2>1 DEF IndInv, LinkIsOwn, TypeOK
  <2>. QED
    BY <2>1, <2>2 DEF Alive, Opening, Edge
<1>2. /\ written \in Nat /\ end \in Nat /\ next \in Nat /\ stalls \in Nat /\ stalls' \in Nat
      /\ \A o \in DOMAIN log : o \in Nat /\ log[o] \in Nat
  BY <1>1, StreamTypes DEF TypeOK
<1>3. PICK n \in Nat : \E s \in [1 .. n -> DOMAIN log] :
              /\ \A i \in 1 .. n : next <= s[i] /\ s[i] < end
              /\ \A i, j \in 1 .. n : i < j => s[i] < s[j]
              /\ \A i \in 1 .. n : \A o \in DOMAIN log \ skipped' :
                    o >= next /\ o < s[i] => \E j \in 1 .. i - 1 : s[j] = o
              /\ link' = "live" =>
                    \A o \in DOMAIN log \ skipped' : o >= next /\ o < end => \E i \in 1 .. n : s[i] = o
              /\ wire' = [i \in 1 .. n |-> Bytes(s[i], <<log[s[i]]>>)]
  BY AttachWire
<1>4. PICK s \in [1 .. n -> DOMAIN log] :
              /\ \A i \in 1 .. n : next <= s[i] /\ s[i] < end
              /\ \A i, j \in 1 .. n : i < j => s[i] < s[j]
              /\ \A i \in 1 .. n : \A o \in DOMAIN log \ skipped' :
                    o >= next /\ o < s[i] => \E j \in 1 .. i - 1 : s[j] = o
              /\ link' = "live" =>
                    \A o \in DOMAIN log \ skipped' : o >= next /\ o < end => \E i \in 1 .. n : s[i] = o
              /\ wire' = [i \in 1 .. n |-> Bytes(s[i], <<log[s[i]]>>)]
  BY <1>3
<1>5. /\ DOMAIN wire' = 1 .. n /\ Len(wire') = n
      /\ \A i \in 1 .. n : /\ s[i] \in DOMAIN log /\ wire'[i] = Bytes(s[i], <<log[s[i]]>>)
                           /\ wire'[i].at = s[i] /\ wire'[i].data = <<log[s[i]]>>
                           /\ Len(wire'[i].data) = 1
                           /\ wire'[i] \in Message
  <2>1. DOMAIN wire' = 1 .. n /\ Len(wire') = n
    BY <1>4
  <2>2. \A i \in 1 .. n : s[i] \in DOMAIN log /\ wire'[i] = Bytes(s[i], <<log[s[i]]>>)
    BY <1>4
  <2>3. ASSUME NEW o \in DOMAIN log
        PROVE  /\ Bytes(o, <<log[o]>>).at = o /\ Bytes(o, <<log[o]>>).data = <<log[o]>>
               /\ Len(Bytes(o, <<log[o]>>).data) = 1 /\ Bytes(o, <<log[o]>>) \in Message
    BY <1>2 DEF Bytes, Message
  <2>. QED
    BY <2>1, <2>2, <2>3
<1>6. TypeOK'
  <2>1. wire' \in [1 .. n -> Message]
    BY <1>4, <1>5
  <2>2. faults' \in Nat
    BY <1>1 DEF TypeOK
  <2>3. wire' \in Seq(Message)
    BY <2>1
  <2>. QED
    BY <1>1, <1>2, <2>1, <2>2, <2>3 DEF TypeOK
<1>7. LogRises' /\ PtyIsAhead' /\ LinkIsOwn' /\ ShownIsBehind' /\ NothingPassedIsLost'
  BY <1>1 DEF IndInv, LogRises, PtyIsAhead, LinkIsOwn, ShownIsBehind, ShownInOrder,
     NothingPassedIsLost
<1>8. WireIsSound'
  <2>1. ASSUME NEW m, NEW o \in DOMAIN log, m.at = o, m.data = <<log[o]>>, Len(m.data) = 1,
               next <= o, o < end
        PROVE  MessageIsSound(m)'
    <3>1. DOMAIN m.data = 1 .. 1 /\ m.data[1] = log[o] /\ \A k \in DOMAIN m.data : k = 1
      BY <2>1
    <3>2. log[o] <= written /\ (\A i \in DOMAIN pty : log[o] < pty[i])
          /\ (\A j \in DOMAIN shown : shown[j] < log[o])
          /\ \A p \in DOMAIN log : o < p => log[o] < log[p]
      BY <1>2, <2>1 DEF IndInv, LogRises, PtyIsAhead, ShownIsBehind
    <3>3. ASSUME NEW p \in DOMAIN log
          PROVE  /\ p >= o + 1 => log[o] < log[p]
                 /\ p = o + 1 - 1 => log[p] = log[o]
      BY <1>2, <3>2
    <3>. QED
      BY <1>1, <1>2, <2>1, <3>1, <3>2, <3>3 DEF MessageIsSound
  <2>. SUFFICES ASSUME NEW i \in DOMAIN wire' PROVE MessageIsSound(wire[i])'
    BY DEF WireIsSound
  <2>2. PICK m : m = wire'[i]
    OBVIOUS
  <2>3. MessageIsSound(m)'
    BY <1>4, <1>5, <2>1, <2>2
  <2>. QED
    BY <2>2, <2>3
<1>9. WireRises'
  <2>. SUFFICES ASSUME NEW i \in 1 .. n, NEW j \in 1 .. n, i < j
                PROVE  /\ wire'[i].at + Len(wire'[i].data) <= wire'[j].at
                       /\ \A k \in DOMAIN wire'[i].data, l \in DOMAIN wire'[j].data :
                             wire'[i].data[k] < wire'[j].data[l]
    BY <1>5 DEF WireRises
  <2>1. s[i] < s[j] /\ s[i] \in DOMAIN log /\ s[j] \in DOMAIN log
    BY <1>4, <1>5
  <2>2. log[s[i]] < log[s[j]]
    BY <2>1 DEF IndInv, LogRises
  <2>3. s[i] \in Nat /\ s[j] \in Nat /\ s[i] + 1 <= s[j]
    BY <1>2, <2>1
  <2>4. wire'[i].at + Len(wire'[i].data) <= wire'[j].at
    BY <1>5, <2>3
  <2>5. wire'[i].data = <<log[s[i]]>> /\ wire'[j].data = <<log[s[j]]>>
    BY <1>5
  <2>6. ASSUME NEW k \in DOMAIN <<log[s[i]]>>, NEW l \in DOMAIN <<log[s[j]]>>
        PROVE  <<log[s[i]]>>[k] < <<log[s[j]]>>[l]
    BY <2>2
  <2>. QED
    BY <2>4, <2>5, <2>6
<1>10. ASSUME NEW i \in 1 .. n PROVE Covers(wire'[i], s[i])
  <2>1. s[i] \in Nat /\ wire'[i].at = s[i] /\ Len(wire'[i].data) = 1
    BY <1>2, <1>5
  <2>. QED
    BY <2>1 DEF Covers
<1>11. WireIsContiguous'
  <2>. SUFFICES ASSUME NEW i \in 1 .. n, NEW o \in DOMAIN log \ skipped', o >= next, o < wire'[i].at
                PROVE  \E j \in 1 .. i - 1 : Covers(wire'[j], o)
    BY <1>1, <1>5 DEF WireIsContiguous, Covers
  <2>1. PICK j \in 1 .. i - 1 : s[j] = o
    BY <1>4, <1>5
  <2>2. j \in 1 .. n
    OBVIOUS
  <2>. QED
    BY <1>10, <2>1, <2>2
<1>12. WireIsGapless'
  <2>. SUFFICES ASSUME link' = "live", NEW o \in DOMAIN log \ skipped', o >= next, o < end
                PROVE  \E j \in 1 .. n : Covers(wire'[j], o)
    BY <1>1, <1>5 DEF WireIsGapless, Covers
  <2>1. PICK j \in 1 .. n : s[j] = o
    BY <1>4
  <2>. QED
    BY <1>10, <2>1
<1>13. ExitedIsLast' /\ FinalOutputIsShown'
  <2>1. \A i \in DOMAIN wire' : wire'[i] # Exited
    <3>. SUFFICES ASSUME NEW i \in 1 .. n, wire'[i] = Exited PROVE FALSE
      BY <1>5
    <3>1. PICK m : m = wire'[i]
      OBVIOUS
    <3>2. Len(m.data) = 1 /\ m = Exited
      BY <1>5, <3>1
    <3>3. Len(m.data) = 0
      BY <3>2, ExitedType
    <3>4. 1 # 0
      OBVIOUS
    <3>. QED
      BY <3>2, <3>3, <3>4, Zenon
  <2>. QED
    BY <1>1, <1>2, <2>1 DEF IndInv, ExitedIsLast, FinalOutputIsShown
<1>. QED
  BY <1>6, <1>7, <1>8, <1>9, <1>11, <1>12, <1>13 DEF IndInv

-----------------------------------------------------------------------------
(* The daemon.                                                             *)

\* A step of the daemon after which nothing waits on a connection, and that leaves the
\* loop where it is.
LEMMA Dropped ==
    ASSUME IndInv, TypeOK', LinkIsOwn', wire' = <<>>, link' # "live",
           \/ exit' # "told"
           \/ exit' = exit
           \/ ExitedIsLast' /\ FinalOutputIsShown',
           UNCHANGED <<holder, pty, written, log, reach, skipped, end, forgot, next, shown, stalls>>
    PROVE  IndInv'
<1>1. Alive' = Alive /\ Opening' = Opening /\ Edge' = Edge
  BY DEF Alive, Opening, Edge
<1>2. LogRises' /\ PtyIsAhead' /\ ShownIsBehind' /\ NothingPassedIsLost'
  BY <1>1 DEF IndInv, LogRises, PtyIsAhead, ShownIsBehind, ShownInOrder, NothingPassedIsLost
<1>3. ExitedIsLast' /\ FinalOutputIsShown'
  <2>1. DOMAIN wire' = {}
    OBVIOUS
  <2>2. CASE exit' # "told" \/ exit' = exit
    BY <2>1, <2>2 DEF IndInv, ExitedIsLast, FinalOutputIsShown
  <2>. QED
    BY <2>2
<1>. QED
  BY <1>2, <1>3, NoWire DEF IndInv

LEMMA StopInd == ASSUME IndInv, Stop PROVE IndInv'
<1>1. /\ thread' = "off" /\ link' = "none" /\ wire' = <<>>
      /\ UNCHANGED <<holder, shell, pty, written, log, unlisted, reach, end, tomb, forgot,
                     skipped, from, next, shown, exit,
                     revivals, deaths, faults, stalls, starts>>
  BY DEF Stop, files, holders, bounds
<1>2. TypeOK'
  BY <1>1 DEF IndInv, TypeOK
<1>3. LinkIsOwn'
  BY <1>1 DEF IndInv, LinkIsOwn
<1>. QED
  BY <1>1, <1>2, <1>3, Dropped

\* A new loop has shown nothing and wants all.
LEMMA StartInd == ASSUME IndInv, Start PROVE IndInv'
<1>1. /\ TypeOK /\ thread = "off" /\ starts' = starts + 1 /\ thread' = "restore"
      /\ next' = 0 /\ shown' = <<>> /\ exit' = "no" /\ revivals' = 0
      /\ UNCHANGED <<holder, shell, pty, written, log, unlisted, reach, end, tomb, forgot,
                     skipped, link, from, wire,
                     deaths, faults, stalls>>
  BY DEF IndInv, Start, files, holders, conn
<1>2. link = "none" /\ wire = <<>> /\ DOMAIN shown' = {}
  BY <1>1 DEF IndInv, LinkIsOwn
<1>3. TypeOK'
  <2>1. starts' \in Nat /\ revivals' \in 0 .. ReviveBudget /\ shown' \in Seq(Nat) /\ next' \in Nat
    BY <1>1, Bounds DEF TypeOK
  <2>. QED
    BY <1>1, <2>1 DEF TypeOK
<1>4. Alive' = Alive /\ Opening' = Opening /\ Edge' = Edge /\ Edge \in Nat
  BY <1>1, EdgeLemma DEF IndInv, Alive, Opening, Edge
<1>5. LogRises' /\ PtyIsAhead' /\ LinkIsOwn' /\ ShownIsBehind'
  BY <1>1, <1>2, <1>4 DEF IndInv, LogRises, PtyIsAhead, LinkIsOwn, ShownIsBehind, ShownInOrder
<1>6. NothingPassedIsLost'
  <2>1. \A o \in DOMAIN log : ~(o < 0)
    BY <1>1, StreamTypes
  <2>. QED
    BY <1>1, <1>4, <2>1 DEF NothingPassedIsLost
<1>7. ExitedIsLast' /\ FinalOutputIsShown'
  BY <1>1, <1>2 DEF IndInv, ExitedIsLast, FinalOutputIsShown
<1>. QED
  BY <1>1, <1>2, <1>3, <1>5, <1>6, <1>7, NoWire DEF IndInv

\* A holder that is spawned continues where the files end, and no loop reads it yet.
LEMMA Spawned ==
    ASSUME IndInv, TypeOK', thread \in {"restore", "repair"}, ~Alive, ~Opening,
           holder' \in {"opening", "resurrecting"}, end' = reach,
           thread' \in {"launched", "revived"}, thread' = "launched" => thread = "restore",
           UNCHANGED <<pty, written, log, reach, skipped, forgot, link, from, wire, next, shown,
                       exit, stalls>>
    PROVE  IndInv'
<1>1. /\ TypeOK /\ link = "none" /\ wire = <<>> /\ exit # "told" /\ pty = <<>>
      /\ ~Alive' /\ Opening' /\ Edge = reach /\ Edge' = reach /\ reach \in Nat
      /\ \A o \in DOMAIN log : o < reach
  <2>1. TypeOK /\ link = "none" /\ wire = <<>> /\ exit # "told" /\ pty = <<>>
    BY DEF IndInv, LinkIsOwn, PtyIsAhead
  <2>2. ~Alive' /\ Opening' /\ Edge = reach
    BY DEF Alive, Opening, Edge
  <2>3. Edge' = end'
    BY <2>2 DEF Edge
  <2>. QED
    BY <2>1, <2>2, <2>3, EdgeLemma DEF IndInv
<1>2. LogRises' /\ PtyIsAhead'
  BY <1>1 DEF IndInv, LogRises, PtyIsAhead
<1>3. LinkIsOwn' /\ ShownIsBehind' /\ NothingPassedIsLost'
  BY <1>1 DEF IndInv, LinkIsOwn, ShownIsBehind, ShownInOrder, NothingPassedIsLost
<1>4. ExitedIsLast' /\ FinalOutputIsShown'
  BY <1>1 DEF ExitedIsLast, FinalOutputIsShown
<1>. QED
  BY <1>1, <1>2, <1>3, <1>4, NoWire DEF IndInv

LEMMA RestoreInd == ASSUME IndInv, Restore PROVE IndInv'
<1>1. /\ TypeOK /\ thread = "restore" /\ next = 0 /\ link = "none" /\ wire = <<>>
      /\ UNCHANGED <<next, shown, revivals, deaths, faults, stalls, starts>>
  BY DEF IndInv, Restore, LinkIsOwn, files, bounds
<1>2. CASE /\ thread' = "done" /\ exit' = "recorded"
           /\ UNCHANGED <<holders, conn>>
  <2>1. UNCHANGED <<holder, shell, pty, written, log, unlisted, reach, end, tomb, forgot, skipped,
                    link, from, wire>>
    BY <1>2 DEF files, holders, conn
  <2>2. TypeOK'
    BY <1>1, <1>2, <2>1 DEF TypeOK
  <2>3. LinkIsOwn'
    BY <1>1, <1>2, <2>1 DEF LinkIsOwn
  <2>. QED
    BY <1>1, <1>2, <2>1, <2>2, <2>3, Dropped
<1>3. CASE /\ Alive /\ Ask(0) /\ thread' = "follow"
           /\ UNCHANGED <<holders, exit>>
  <2>1. /\ UNCHANGED <<holder, shell, pty, written, log, unlisted, reach, end, tomb, forgot,
                       skipped, exit>>
        /\ link' = "asked" /\ from' = 0 /\ wire' = <<>>
    BY <1>3 DEF files, holders, Ask
  <2>2. TypeOK'
    BY <1>1, <1>3, <2>1 DEF TypeOK
  <2>3. LinkIsOwn'
    BY <1>1, <1>3, <2>1 DEF IndInv, LinkIsOwn, Alive, Opening
  <2>. QED
    BY <1>1, <1>3, <2>1, <2>2, <2>3, Dropped
<1>4. CASE /\ ~Alive /\ ~Opening
           /\ SpawnHolder(IF holder = "new" THEN "opening" ELSE "resurrecting")
           /\ thread' = "launched"
           /\ UNCHANGED <<conn, exit>>
  <2>1. /\ holder' \in {"opening", "resurrecting"} /\ end' = reach /\ reach \in Nat
        /\ unlisted' = {}
        /\ UNCHANGED <<shell, pty, written, log, reach, tomb, forgot, skipped, link, from, wire,
                       exit>>
    BY <1>4, EdgeLemma DEF IndInv, SpawnHolder, Top, files, conn
  <2>2. TypeOK'
    BY <1>1, <1>4, <2>1 DEF TypeOK
  <2>. QED
    BY <1>1, <1>4, <2>1, <2>2, Spawned
<1>. QED
  BY <1>2, <1>3, <1>4 DEF Restore, OnExit

LEMMA LaunchedInd == ASSUME IndInv, Launched PROVE IndInv'
<1>1. /\ TypeOK /\ thread = "launched" /\ next = 0 /\ link = "none" /\ wire = <<>>
      /\ UNCHANGED <<holder, shell, pty, written, log, unlisted, reach, end, tomb, forgot,
                     skipped, next, shown, revivals,
                     deaths, faults, stalls, starts>>
  BY DEF IndInv, Launched, LinkIsOwn, files, bounds, holders
<1>2. \/ Alive /\ link' = "asked" /\ from' = 0 /\ wire' = <<>> /\ thread' = "follow" /\ exit' = exit
      \/ thread' = "done" /\ exit' = "failed" /\ UNCHANGED <<link, from, wire>>
  BY DEF Launched, Ask, OnExit, files, conn
<1>3. TypeOK'
  BY <1>1, <1>2 DEF TypeOK
<1>4. LinkIsOwn'
  BY <1>1, <1>2 DEF IndInv, LinkIsOwn, Alive, Opening
<1>. QED
  BY <1>1, <1>2, <1>3, <1>4, Dropped

LEMMA ReadEndInd == ASSUME IndInv, ReadEnd PROVE IndInv'
<1>1. /\ TypeOK /\ thread = "follow" /\ link' = "none" /\ wire' = <<>> /\ from' = from
      /\ \/ thread' = "done" /\ exit' = "recorded"
         \/ thread' = "repair" /\ exit' = exit
      /\ UNCHANGED <<holder, shell, pty, written, log, unlisted, reach, end, tomb, forgot,
                     skipped, next, shown, revivals,
                     deaths, stalls, starts>>
      /\ faults' \in {faults, faults + 1}
  BY DEF IndInv, ReadEnd, OnExit, Leave, Fault, files, bounds, holders
<1>2. TypeOK'
  <2>1. faults' \in Nat
    BY <1>1 DEF TypeOK
  <2>. QED
    BY <1>1, <2>1 DEF TypeOK
<1>3. LinkIsOwn'
  BY <1>1 DEF IndInv, LinkIsOwn, Opening
<1>. QED
  BY <1>1, <1>2, <1>3, Dropped

LEMMA ReconnectInd == ASSUME IndInv, Reconnect PROVE IndInv'
<1>1. /\ TypeOK /\ thread = "repair" /\ Alive /\ thread' = "follow"
      /\ link' = "asked" /\ from' = next /\ wire' = <<>>
      /\ UNCHANGED <<holder, shell, pty, written, log, unlisted, reach, end, tomb, forgot,
                     skipped, next, shown, exit, revivals,
                     deaths, faults, stalls, starts>>
  BY DEF IndInv, Reconnect, Ask, files, bounds, holders
<1>2. TypeOK'
  BY <1>1 DEF TypeOK
<1>3. LinkIsOwn'
  BY <1>1 DEF IndInv, LinkIsOwn, Alive, Opening
<1>. QED
  BY <1>1, <1>2, <1>3, Dropped

LEMMA ReviveInd == ASSUME IndInv, Revive PROVE IndInv'
<1>1. /\ TypeOK /\ thread = "repair" /\ ~Alive /\ ~Opening /\ link = "none" /\ wire = <<>>
      /\ UNCHANGED <<link, from, wire, next, shown, deaths, faults, stalls, starts>>
  BY DEF IndInv, Revive, LinkIsOwn, files, bounds, conn
<1>2. CASE HasBudget
  <2>1. /\ holder' = "resurrecting" /\ end' = reach /\ reach \in Nat /\ thread' = "revived"
        /\ unlisted' = {}
        /\ revivals' = revivals + 1
        /\ UNCHANGED <<shell, pty, written, log, reach, tomb, forgot, skipped, exit>>
    BY <1>2, EdgeLemma DEF IndInv, Revive, SpawnHolder, Top
  <2>2. revivals' \in 0 .. ReviveBudget
    BY <1>1, <1>2, <2>1, Bounds DEF TypeOK, HasBudget
  <2>3. TypeOK'
    BY <1>1, <2>1, <2>2 DEF TypeOK
  <2>. QED
    BY <1>1, <2>1, <2>3, Spawned
<1>3. CASE ~HasBudget
  <2>1. /\ thread' = "done" /\ exit' = "failed"
        /\ UNCHANGED <<holder, shell, pty, written, log, unlisted, reach, end, tomb, forgot,
                       skipped, revivals>>
    BY <1>3 DEF Revive, OnExit, files, holders
  <2>2. TypeOK'
    BY <1>1, <2>1 DEF TypeOK
  <2>3. LinkIsOwn'
    BY <1>1, <2>1 DEF LinkIsOwn
  <2>. QED
    BY <1>1, <2>1, <2>2, <2>3, Dropped
<1>. QED
  BY <1>2, <1>3

\* A revived loop goes back to the new holder's end at most: there is nothing at or past
\* that end, and below it nothing changes for the loop.
LEMMA RevivedInd == ASSUME IndInv, Revived PROVE IndInv'
<1>1. /\ TypeOK /\ thread = "revived" /\ ~Opening /\ link = "none" /\ wire = <<>> /\ exit # "told"
      /\ next \in Nat /\ end \in Nat
      /\ UNCHANGED <<holder, shell, pty, written, log, unlisted, reach, end, tomb, forgot,
                     skipped, shown, revivals,
                     deaths, faults, stalls, starts>>
  BY DEF IndInv, Revived, LinkIsOwn, files, bounds, holders, TypeOK
<1>2. CASE Alive
  <2>1. /\ next' = Resumed /\ link' = "asked" /\ from' = next' /\ wire' = <<>>
        /\ thread' = "follow" /\ exit' = exit
    BY <1>2 DEF Revived, Ask
  <2>2. /\ next' \in Nat /\ next' <= next /\ (next' = next \/ next' = end)
        /\ (\A o \in DOMAIN log : o \in Nat /\ o < end)
    BY <1>1, <1>2, <2>1, StreamTypes DEF IndInv, LogRises, Resumed
  <2>3. TypeOK'
    BY <1>1, <2>1, <2>2 DEF TypeOK
  <2>4. Alive' = Alive /\ Opening' = Opening /\ Edge' = Edge /\ Edge = end
    BY <1>1, <1>2 DEF Alive, Opening, Edge
  <2>5. LogRises' /\ PtyIsAhead' /\ LinkIsOwn'
    BY <1>1, <1>2, <2>1, <2>4 DEF IndInv, LogRises, PtyIsAhead, LinkIsOwn
  <2>6. ShownIsBehind'
    <3>1. ASSUME NEW o \in DOMAIN log, o >= next', NEW j \in DOMAIN shown
          PROVE  shown[j] < log[o]
      BY <2>2, <3>1 DEF IndInv, ShownIsBehind
    <3>. QED
      BY <1>1, <3>1 DEF IndInv, ShownIsBehind, ShownInOrder
  <2>7. NothingPassedIsLost'
    <3>1. ASSUME ~forgot PROVE next' <= end
      BY <1>1, <2>2, <2>4, <3>1 DEF IndInv, NothingPassedIsLost
    <3>2. ASSUME ~forgot, NEW o \in DOMAIN log \ skipped, o < next' PROVE log[o] \in Sets(shown)
      BY <1>1, <2>2, <3>2 DEF IndInv, NothingPassedIsLost
    <3>. QED
      BY <1>1, <2>4, <3>1, <3>2 DEF NothingPassedIsLost
  <2>8. ExitedIsLast' /\ FinalOutputIsShown'
    BY <1>1, <2>1 DEF IndInv, ExitedIsLast, FinalOutputIsShown
  <2>. QED
    BY <2>1, <2>3, <2>5, <2>6, <2>7, <2>8, NoWire DEF IndInv
<1>3. CASE ~Alive
  <2>1. thread' = "done" /\ exit' = "failed" /\ UNCHANGED <<link, from, wire, next>>
    BY <1>3 DEF Revived, OnExit, files, conn
  <2>2. TypeOK'
    BY <1>1, <2>1 DEF TypeOK
  <2>3. LinkIsOwn'
    BY <1>1, <2>1 DEF LinkIsOwn
  <2>. QED
    BY <1>1, <2>1, <2>2, <2>3, Dropped
<1>. QED
  BY <1>2, <1>3

LEMMA CutInd == ASSUME IndInv, Cut PROVE IndInv'
<1>1. /\ TypeOK /\ thread = "follow" /\ link \in {"asked", "live"} /\ link' = "shut"
      /\ stalls' = stalls + 1 /\ stalls \in Nat
      /\ UNCHANGED <<holder, shell, pty, written, log, unlisted, reach, end, tomb, forgot,
                     skipped, from, wire, thread, next,
                     shown, exit, revivals, deaths, faults, starts>>
  BY DEF IndInv, Cut, Stall, files, holders, daemon, TypeOK
<1>2. TypeOK' /\ stalls' >= stalls /\ stalls' # 0
  <2>1. stalls' \in Nat /\ stalls' >= stalls /\ stalls' # 0
    BY <1>1
  <2>2. TypeOK'
    BY <1>1, <2>1 DEF TypeOK
  <2>. QED
    BY <2>1, <2>2
<1>3. ExitedIsLast'
  BY <1>2 DEF ExitedIsLast
<1>4. Alive' = Alive /\ Opening' = Opening
  BY <1>1 DEF Alive, Opening
<1>. QED
  BY <1>1, <1>2, <1>3, <1>4, FlagStep

\* The rest of the wire, when its first message is read.
LEMMA TailWire ==
    ASSUME TypeOK, wire # <<>>, wire' = Tail(wire)
    PROVE  /\ wire' \in Seq(Message) /\ DOMAIN wire = 1 .. Len(wire) /\ Len(wire) \in Nat \ {0}
           /\ DOMAIN wire' = 1 .. Len(wire) - 1 /\ Len(wire') = Len(wire) - 1
           /\ \A i \in DOMAIN wire' : i + 1 \in DOMAIN wire /\ wire'[i] = wire[i + 1]
           /\ Head(wire) = wire[1] /\ 1 \in DOMAIN wire
<1>1. wire \in Seq(Message)
  BY DEF TypeOK
<1>2. /\ wire' \in Seq(Message) /\ Len(wire') = Len(wire) - 1
      /\ \A i \in 1 .. Len(wire') : wire'[i] = wire[i + 1]
  BY <1>1, HeadTailProperties
<1>3. DOMAIN wire = 1 .. Len(wire) /\ Len(wire) \in Nat \ {0} /\ DOMAIN wire' = 1 .. Len(wire')
  BY <1>1, <1>2, LenProperties, EmptySeq
<1>4. Head(wire) = wire[1]
  BY <1>1, <1>3
<1>. QED
  BY <1>2, <1>3, <1>4

\* Fresh leaves out what is below the offset that the loop wants, and nothing else.
LEMMA FreshLemma ==
    ASSUME NEW m \in Message, next \in Nat, next < m.at + Len(m.data)
    PROVE  /\ Fresh(m) \in Seq(Nat)
           /\ \E d \in Nat :
                 /\ \A x \in DOMAIN Fresh(m) : /\ d + x \in DOMAIN m.data
                                               /\ Fresh(m)[x] = m.data[d + x]
                                               /\ m.at + d + x > next
                 /\ \A k \in DOMAIN m.data : m.at + k > next =>
                       \E x \in DOMAIN Fresh(m) : Fresh(m)[x] = m.data[k]
<1>1. /\ m.at \in Nat /\ m.data \in Seq(Nat) /\ Len(m.data) \in Nat
      /\ DOMAIN m.data = 1 .. Len(m.data) /\ \A k \in DOMAIN m.data : m.data[k] \in Nat
  BY LenProperties, ElementOfSeq DEF Message
<1>2. CASE m.at >= next
  <2>1. Fresh(m) = m.data
    BY <1>2 DEF Fresh
  <2>2. \A x \in DOMAIN m.data : 0 + x \in DOMAIN m.data /\ m.data[x] = m.data[0 + x] /\ m.at + 0 + x > next
    BY <1>1, <1>2
  <2>3. 0 \in Nat /\ \A k \in DOMAIN m.data : \E x \in DOMAIN m.data : m.data[x] = m.data[k]
    OBVIOUS
  <2>. QED
    BY <1>1, <2>1, <2>2, <2>3, Zenon
<1>3. CASE ~(m.at >= next)
  <2>. DEFINE d == next - m.at
              fresh == SubSeq(m.data, d + 1, Len(m.data))
  <2>1. Fresh(m) = fresh
    BY <1>3 DEF Fresh
  <2>2. d \in Nat /\ d < Len(m.data) /\ m.at + d = next
    BY <1>1, <1>3
  <2>. HIDE DEF d
  <2>3. \A i \in d + 1 .. Len(m.data) : m.data[i] \in Nat
    BY <1>1, <2>2
  <2>4. d + 1 \in Int /\ Len(m.data) \in Int
    BY <1>1, <2>2
  <2>5. /\ fresh \in Seq(Nat)
        /\ Len(fresh) = IF d + 1 <= Len(m.data) THEN Len(m.data) - (d + 1) + 1 ELSE 0
        /\ \A i \in 1 .. Len(m.data) - (d + 1) + 1 : fresh[i] = m.data[d + 1 + i - 1]
    BY <2>3, <2>4, SubSeqProperties
  <2>. HIDE DEF fresh
  <2>6. DOMAIN fresh = 1 .. Len(m.data) - d
    <3>1. Len(fresh) = Len(m.data) - d
      BY <1>1, <2>2, <2>5
    <3>. QED
      BY <2>5, <3>1, LenProperties
  <2>7. ASSUME NEW x \in DOMAIN fresh
        PROVE  d + x \in DOMAIN m.data /\ fresh[x] = m.data[d + x] /\ m.at + d + x > next
    <3>1. /\ x \in 1 .. Len(m.data) - (d + 1) + 1 /\ d + 1 + x - 1 = d + x
          /\ d + x \in 1 .. Len(m.data) /\ m.at + d + x > next
      <4>1. PICK a \in Nat, b \in Nat : a = m.at /\ b = Len(m.data)
        BY <1>1
      <4>2. x \in 1 .. b - d /\ d < b /\ a + d = next
        BY <2>2, <2>6, <4>1
      <4>3. x \in 1 .. b - (d + 1) + 1 /\ d + 1 + x - 1 = d + x /\ d + x \in 1 .. b /\ a + d + x > next
        BY <2>2, <4>2
      <4>. QED
        BY <4>1, <4>3
    <3>. QED
      BY <1>1, <2>5, <3>1
  <2>8. ASSUME NEW k \in DOMAIN m.data, m.at + k > next
        PROVE  \E x \in DOMAIN fresh : fresh[x] = m.data[k]
    <3>1. k - d \in DOMAIN fresh /\ d + (k - d) = k
      <4>1. PICK a \in Nat, b \in Nat : a = m.at /\ b = Len(m.data)
        BY <1>1
      <4>2. k \in 1 .. b /\ a + k > next /\ a + d = next
        BY <1>1, <2>2, <2>8, <4>1
      <4>3. k - d \in 1 .. b - d /\ d + (k - d) = k
        BY <2>2, <4>2
      <4>. QED
        BY <2>6, <4>1, <4>3
    <3>. QED
      BY <2>7, <3>1
  <2>. QED
    BY <2>1, <2>2, <2>5, <2>7, <2>8
<1>. QED
  BY <1>2, <1>3

\* What is handed to the grid by one message: bytes of it past all that was shown, and
\* all of it that the loop has not passed.
LEMMA ReadLemma ==
    ASSUME IndInv, ReadBytes, NEW m, m = Head(wire)
    PROVE  /\ shown' \in Seq(Nat) /\ next' \in Nat
           /\ next' >= next /\ next' >= m.at + Len(m.data)
           /\ next' = next \/ next' = m.at + Len(m.data)
           /\ \A i, j \in DOMAIN shown' : i < j => shown'[i] < shown'[j]
           /\ Sets(shown) \subseteq Sets(shown')
           /\ \A j \in DOMAIN shown' :
                 \/ j \in DOMAIN shown /\ shown'[j] = shown[j]
                 \/ \E k \in DOMAIN m.data : shown'[j] = m.data[k] /\ m.at + k > next
           /\ \A k \in DOMAIN m.data : m.at + k > next => m.data[k] \in Sets(shown')
<1>1. /\ TypeOK /\ wire # <<>> /\ wire' = Tail(wire) /\ shown \in Seq(Nat) /\ next \in Nat
  BY DEF IndInv, ReadBytes, TypeOK
<1>2. /\ m \in Message /\ MessageIsSound(m) /\ m.at \in Nat /\ Len(m.data) \in Nat
      /\ DOMAIN m.data = 1 .. Len(m.data) /\ \A k \in DOMAIN m.data : m.data[k] \in Nat
  <2>1. m = wire[1] /\ 1 \in DOMAIN wire
    BY <1>1, TailWire
  <2>. QED
    BY <1>1, <2>1, WireTypes DEF IndInv, WireIsSound
<1>3. \A i, j \in DOMAIN shown : i < j => shown[i] < shown[j]
  BY DEF IndInv, ShownIsBehind, ShownInOrder
<1>4. CASE m.at + Len(m.data) <= next
  <2>1. next' = next /\ shown' = shown
    BY <1>4 DEF ReadBytes
  <2>2. \A k \in DOMAIN m.data : ~(m.at + k > next)
    BY <1>1, <1>2, <1>4
  <2>. QED
    BY <1>1, <1>2, <1>3, <1>4, <2>1, <2>2 DEF Sets
<1>5. CASE ~(m.at + Len(m.data) <= next)
  <2>1. next' = m.at + Len(m.data) /\ shown' = shown \o Fresh(m) /\ next < m.at + Len(m.data)
    BY <1>1, <1>2, <1>5 DEF ReadBytes
  <2>2. PICK fresh : fresh = Fresh(m)
    OBVIOUS
  <2>3. /\ fresh \in Seq(Nat)
        /\ \E d \in Nat :
              /\ \A x \in DOMAIN fresh : /\ d + x \in DOMAIN m.data
                                         /\ fresh[x] = m.data[d + x]
                                         /\ m.at + d + x > next
              /\ \A k \in DOMAIN m.data : m.at + k > next =>
                    \E x \in DOMAIN fresh : fresh[x] = m.data[k]
    BY <1>1, <1>2, <2>1, <2>2, FreshLemma
  <2>4. PICK d \in Nat :
              /\ \A x \in DOMAIN fresh : /\ d + x \in DOMAIN m.data
                                         /\ fresh[x] = m.data[d + x]
                                         /\ m.at + d + x > next
              /\ \A k \in DOMAIN m.data : m.at + k > next =>
                    \E x \in DOMAIN fresh : fresh[x] = m.data[k]
    BY <2>3
  <2>5. /\ Len(shown) \in Nat /\ DOMAIN shown = 1 .. Len(shown)
        /\ Len(fresh) \in Nat /\ DOMAIN fresh = 1 .. Len(fresh)
        /\ shown' \in Seq(Nat) /\ DOMAIN shown' = 1 .. Len(shown) + Len(fresh)
        /\ \A j \in 1 .. Len(shown) + Len(fresh) :
              shown'[j] = IF j <= Len(shown) THEN shown[j] ELSE fresh[j - Len(shown)]
    BY <1>1, <2>1, <2>2, <2>3, ConcatProperties, LenProperties
  <2>6. ASSUME NEW j \in DOMAIN shown'
        PROVE  \/ j \in DOMAIN shown /\ shown'[j] = shown[j]
               \/ /\ j > Len(shown) /\ j - Len(shown) \in DOMAIN fresh
                  /\ shown'[j] = fresh[j - Len(shown)]
    BY <2>5
  <2>7. ASSUME NEW i \in DOMAIN shown', NEW j \in DOMAIN shown', i < j
        PROVE  shown'[i] < shown'[j]
    <3>1. CASE j \in DOMAIN shown /\ shown'[j] = shown[j]
      BY <1>3, <2>5, <2>7, <3>1
    <3>2. CASE /\ j > Len(shown) /\ j - Len(shown) \in DOMAIN fresh
               /\ shown'[j] = fresh[j - Len(shown)]
      <4>. DEFINE y == j - Len(shown)
      <4>1. y \in DOMAIN fresh /\ shown'[j] = m.data[d + y] /\ d + y \in DOMAIN m.data /\ m.at + (d + y) > next
        <5>1. y \in DOMAIN fresh /\ shown'[j] = fresh[y] /\ y \in Nat
          BY <2>5, <3>2
        <5>. HIDE DEF y
        <5>2. d + y \in DOMAIN m.data /\ fresh[y] = m.data[d + y] /\ m.at + d + y > next
          BY <2>4, <5>1
        <5>. QED
          BY <1>2, <5>1, <5>2
      <4>2. CASE i \in DOMAIN shown /\ shown'[i] = shown[i]
        BY <1>2, <4>1, <4>2 DEF MessageIsSound
      <4>3. CASE /\ i > Len(shown) /\ i - Len(shown) \in DOMAIN fresh
                 /\ shown'[i] = fresh[i - Len(shown)]
        <5>1. /\ d + (i - Len(shown)) \in DOMAIN m.data
              /\ shown'[i] = m.data[d + (i - Len(shown))]
              /\ d + (i - Len(shown)) < d + y
          <6>1. PICK x \in DOMAIN fresh : x = i - Len(shown)
            BY <4>3
          <6>2. d + x \in DOMAIN m.data /\ shown'[i] = m.data[d + x]
            BY <2>4, <4>3, <6>1
          <6>3. i \in Nat /\ j \in Nat /\ i < j
            BY <2>5, <2>7
          <6>4. x < y
            BY <2>5, <6>1, <6>3
          <6>5. x \in Nat /\ y \in Nat
            BY <2>5, <4>1
          <6>6. d + x < d + y
            BY <6>4, <6>5
          <6>. QED
            BY <6>1, <6>2, <6>6
        <5>. HIDE DEF y
        <5>. QED
          BY <1>2, <4>1, <5>1 DEF MessageIsSound
      <4>. QED
        BY <2>6, <4>2, <4>3
    <3>. QED
      BY <2>6, <3>1, <3>2
  <2>8. Sets(shown) \subseteq Sets(shown')
    BY <2>5 DEF Sets
  <2>9. ASSUME NEW j \in DOMAIN shown'
        PROVE  \/ j \in DOMAIN shown /\ shown'[j] = shown[j]
               \/ \E k \in DOMAIN m.data : shown'[j] = m.data[k] /\ m.at + k > next
    <3>1. ASSUME NEW x \in DOMAIN fresh
          PROVE  \E k \in DOMAIN m.data : fresh[x] = m.data[k] /\ m.at + k > next
      <4>1. d + x \in DOMAIN m.data /\ fresh[x] = m.data[d + x] /\ m.at + d + x > next
        BY <2>4
      <4>2. m.at + (d + x) > next
        BY <1>2, <2>5, <4>1
      <4>. QED
        BY <4>1, <4>2
    <3>. QED
      BY <2>6, <3>1
  <2>10. ASSUME NEW k \in DOMAIN m.data, m.at + k > next
         PROVE  m.data[k] \in Sets(shown')
    <3>1. PICK x \in DOMAIN fresh : fresh[x] = m.data[k]
      BY <2>4, <2>10
    <3>2. Len(shown) + x \in DOMAIN shown' /\ shown'[Len(shown) + x] = fresh[x]
      <4>1. Len(shown) + x \in 1 .. Len(shown) + Len(fresh) /\ ~(Len(shown) + x <= Len(shown))
            /\ (Len(shown) + x) - Len(shown) = x
        BY <2>5
      <4>. QED
        BY <2>5, <4>1
    <3>. QED
      BY <3>1, <3>2 DEF Sets
  <2>11. /\ next' \in Nat /\ next' >= next /\ next' >= m.at + Len(m.data)
         /\ next' = next \/ next' = m.at + Len(m.data)
    BY <1>1, <1>2, <2>1
  <2>. QED
    BY <2>5, <2>7, <2>8, <2>9, <2>10, <2>11, Zenon
<1>. QED
  BY <1>4, <1>5

\* Reading a message moves the loop to its end, and shows what it had not shown.
LEMMA ReadBytesInd == ASSUME IndInv, ReadBytes PROVE IndInv'
<1>1. /\ TypeOK /\ thread = "follow" /\ wire # <<>> /\ Head(wire) # Exited /\ wire' = Tail(wire)
      /\ UNCHANGED <<holder, shell, pty, written, log, unlisted, reach, end, tomb, forgot,
                     skipped, link, from, thread, exit,
                     revivals, deaths, faults, stalls, starts>>
      /\ exit # "told"
  BY DEF IndInv, ReadBytes, files, holders, bounds, LinkIsOwn
<1>2. PICK m : m = Head(wire)
  OBVIOUS
<1>3. /\ shown' \in Seq(Nat) /\ next' \in Nat
      /\ next' >= next /\ next' >= m.at + Len(m.data)
      /\ next' = next \/ next' = m.at + Len(m.data)
      /\ \A i, j \in DOMAIN shown' : i < j => shown'[i] < shown'[j]
      /\ Sets(shown) \subseteq Sets(shown')
      /\ \A j \in DOMAIN shown' :
            \/ j \in DOMAIN shown /\ shown'[j] = shown[j]
            \/ \E k \in DOMAIN m.data : shown'[j] = m.data[k] /\ m.at + k > next
      /\ \A k \in DOMAIN m.data : m.at + k > next => m.data[k] \in Sets(shown')
  BY <1>2, ReadLemma
<1>4. /\ wire' \in Seq(Message) /\ DOMAIN wire = 1 .. Len(wire) /\ Len(wire) \in Nat \ {0}
      /\ DOMAIN wire' = 1 .. Len(wire) - 1 /\ Len(wire') = Len(wire) - 1
      /\ \A i \in DOMAIN wire' : i + 1 \in DOMAIN wire /\ wire'[i] = wire[i + 1]
      /\ m = wire[1] /\ 1 \in DOMAIN wire
  BY <1>1, <1>2, TailWire
<1>5. /\ MessageIsSound(m) /\ m \in Message /\ m.at \in Nat /\ Len(m.data) \in Nat
      /\ DOMAIN m.data = 1 .. Len(m.data) /\ \A k \in DOMAIN m.data : m.data[k] \in Nat
  BY <1>1, <1>4, WireTypes DEF IndInv, WireIsSound
<1>6. /\ next \in Nat /\ end \in Nat /\ Edge' = Edge /\ Edge \in Nat
      /\ Alive' = Alive /\ Opening' = Opening
      /\ \A o \in DOMAIN log : o \in Nat /\ log[o] \in Nat
  <2>1. Alive' = Alive /\ Opening' = Opening /\ Edge' = Edge
    BY <1>1 DEF Alive, Opening, Edge
  <2>. QED
    BY <1>1, <2>1, StreamTypes, EdgeLemma DEF IndInv
<1>7. TypeOK'
  BY <1>1, <1>3, <1>4 DEF TypeOK
<1>8. LogRises'
  BY <1>1, <1>6 DEF IndInv, LogRises
<1>9. PtyIsAhead'
  <2>1. ASSUME NEW i \in DOMAIN pty, NEW j \in DOMAIN shown'
        PROVE  shown'[j] < pty[i]
    BY <1>3, <1>5 DEF IndInv, PtyIsAhead, MessageIsSound
  <2>. QED
    BY <1>1, <1>6, <2>1 DEF IndInv, PtyIsAhead
<1>10. LinkIsOwn'
  BY <1>1, <1>6 DEF IndInv, LinkIsOwn
<1>11. ShownIsBehind'
  <2>1. ASSUME NEW j \in DOMAIN shown'
        PROVE  /\ shown'[j] <= written
               /\ \A o \in DOMAIN log : o >= next' => shown'[j] < log[o]
    <3>1. CASE j \in DOMAIN shown /\ shown'[j] = shown[j]
      <4>1. \A o \in DOMAIN log : o >= next' => o >= next
        BY <1>3, <1>6
      <4>. QED
        BY <3>1, <4>1 DEF IndInv, ShownIsBehind
    <3>2. ASSUME NEW k \in DOMAIN m.data, shown'[j] = m.data[k]
          PROVE  /\ shown'[j] <= written
                 /\ \A o \in DOMAIN log : o >= next' => shown'[j] < log[o]
      <4>1. \A o \in DOMAIN log : o >= next' => o >= m.at + Len(m.data)
        BY <1>3, <1>5, <1>6
      <4>. QED
        BY <1>5, <3>2, <4>1 DEF MessageIsSound
    <3>. QED
      BY <1>3, <3>1, <3>2
  <2>. QED
    BY <1>1, <1>3, <2>1 DEF ShownIsBehind, ShownInOrder
<1>12. ASSUME NEW i \in DOMAIN wire'
       PROVE  /\ MessageIsSound(wire[i + 1]) /\ wire[i + 1] \in Message
              /\ \A k \in DOMAIN m.data, l \in DOMAIN wire[i + 1].data :
                    m.data[k] < wire[i + 1].data[l]
  <2>1. 1 < i + 1 /\ i + 1 \in DOMAIN wire
    BY <1>4
  <2>2. MessageIsSound(wire[i + 1])
    BY <2>1 DEF IndInv, WireIsSound
  <2>3. wire[i + 1] \in Message
    BY <1>1, <2>1, WireTypes
  <2>. QED
    BY <1>4, <2>1, <2>2, <2>3 DEF IndInv, WireRises
<1>13. WireIsSound'
  <2>. SUFFICES ASSUME NEW i \in DOMAIN wire' PROVE MessageIsSound(wire[i])'
    BY DEF WireIsSound
  <2>1. PICK w : w = wire'[i]
    OBVIOUS
  <2>2. w = wire[i + 1]
    BY <1>4, <2>1
  <2>3. MessageIsSound(w) /\ w.at \in Nat /\ DOMAIN w.data = 1 .. Len(w.data) /\ Len(w.data) \in Nat
        /\ \A k \in DOMAIN m.data, l \in DOMAIN w.data : m.data[k] < w.data[l]
    <3>1. w \in Message
      BY <1>12, <2>2
    <3>. QED
      BY <1>12, <2>2, <3>1, LenProperties DEF Message
  <2>4. ASSUME NEW l \in DOMAIN w.data, w.at + l > next', NEW j \in DOMAIN shown'
        PROVE  shown'[j] < w.data[l]
    <3>1. w.at + l > next
      BY <1>3, <1>6, <2>3, <2>4
    <3>. QED
      BY <1>3, <2>3, <3>1 DEF MessageIsSound
  <2>5. MessageIsSound(w)'
    BY <1>1, <1>6, <2>3, <2>4 DEF MessageIsSound
  <2>. QED
    BY <2>1, <2>5
<1>14. WireRises'
  <2>. SUFFICES ASSUME NEW i \in DOMAIN wire', NEW j \in DOMAIN wire', i < j
                PROVE  /\ wire'[j].data # <<>> =>
                             wire'[i].at + Len(wire'[i].data) <= wire'[j].at
                       /\ \A k \in DOMAIN wire'[i].data, l \in DOMAIN wire'[j].data :
                             wire'[i].data[k] < wire'[j].data[l]
    BY DEF WireRises
  <2>1. i + 1 < j + 1 /\ i + 1 \in DOMAIN wire /\ j + 1 \in DOMAIN wire
    BY <1>4
  <2>. QED
    BY <1>4, <2>1 DEF IndInv, WireRises
<1>15. ASSUME NEW o \in DOMAIN log \ skipped, o >= next'
       PROVE  o >= next /\ ~Covers(m, o)
  BY <1>3, <1>5, <1>6, <1>15 DEF Covers
<1>16. WireIsContiguous'
  <2>. SUFFICES ASSUME NEW i \in DOMAIN wire', NEW o \in DOMAIN log \ skipped, o >= next', o < wire'[i].at
                PROVE  \E j \in 1 .. i - 1 : Covers(wire'[j], o)
    BY <1>1 DEF WireIsContiguous, Covers
  <2>1. i + 1 \in DOMAIN wire /\ o < wire[i + 1].at /\ i \in Nat
    BY <1>4
  <2>2. PICK j \in 1 .. (i + 1) - 1 : Covers(wire[j], o)
    BY <1>15, <2>1 DEF IndInv, WireIsContiguous
  <2>3. j # 1
    BY <1>4, <1>15, <2>2
  <2>4. j - 1 \in 1 .. i - 1 /\ j - 1 \in DOMAIN wire' /\ (j - 1) + 1 = j
    BY <1>4, <2>1, <2>3
  <2>5. wire'[j - 1] = wire[j]
    BY <1>4, <2>4
  <2>. QED
    BY <2>2, <2>4, <2>5
<1>17. ASSUME NEW o \in DOMAIN log \ skipped, o >= next', \E j \in DOMAIN wire : Covers(wire[j], o)
       PROVE  \E j \in DOMAIN wire' : Covers(wire'[j], o)
  <2>1. PICK j \in DOMAIN wire : Covers(wire[j], o)
    BY <1>17
  <2>2. j # 1
    BY <1>4, <1>15, <1>17, <2>1
  <2>3. j - 1 \in DOMAIN wire' /\ (j - 1) + 1 = j
    BY <1>4, <2>2
  <2>4. wire'[j - 1] = wire[j]
    BY <1>4, <2>3
  <2>. QED
    BY <2>1, <2>3, <2>4
<1>18. WireIsGapless'
  <2>. SUFFICES ASSUME link = "live", NEW o \in DOMAIN log \ skipped, o >= next', o < end
                PROVE  \E j \in DOMAIN wire' : Covers(wire'[j], o)
    BY <1>1 DEF WireIsGapless, Covers
  <2>1. \E j \in DOMAIN wire : Covers(wire[j], o)
    BY <1>15 DEF IndInv, WireIsGapless
  <2>. QED
    BY <1>17, <2>1
<1>19. NothingPassedIsLost'
  <2>. SUFFICES ASSUME ~forgot
                PROVE  next' <= Edge /\ \A o \in DOMAIN log \ skipped : o < next' => log[o] \in Sets(shown')
    BY <1>1, <1>6 DEF NothingPassedIsLost
  <2>1. next' <= Edge
    BY <1>3, <1>5 DEF IndInv, NothingPassedIsLost, MessageIsSound
  <2>2. ASSUME NEW o \in DOMAIN log \ skipped, o < next' PROVE log[o] \in Sets(shown')
    <3>1. CASE o < next
      BY <1>3, <3>1 DEF IndInv, NothingPassedIsLost
    <3>2. CASE ~(o < next)
      <4>1. ~(o < m.at)
        <5>. SUFFICES ASSUME o < m.at PROVE FALSE
          OBVIOUS
        <5>1. o >= next
          BY <1>6, <3>2
        <5>2. \E j \in 1 .. 1 - 1 : Covers(wire[j], o)
          BY <1>4, <5>1 DEF IndInv, WireIsContiguous
        <5>. QED
          BY <5>2
      <4>2. next' = m.at + Len(m.data)
        BY <1>3, <2>2, <3>2
      <4>3. PICK k : k = o - m.at + 1
        OBVIOUS
      <4>4. k \in DOMAIN m.data /\ o = m.at + k - 1 /\ m.at + k > next
        <5>1. PICK a \in Nat, b \in Nat : a = m.at /\ b = Len(m.data)
          BY <1>5
        <5>2. o \in Nat /\ ~(o < a) /\ o < a + b /\ ~(o < next) /\ k = o - a + 1
          BY <1>6, <2>2, <3>2, <4>1, <4>2, <4>3, <5>1
        <5>3. k \in 1 .. b /\ o = a + k - 1 /\ a + k > next
          BY <1>6, <5>2
        <5>. QED
          BY <1>5, <5>1, <5>3
      <4>5. log[o] = m.data[k]
        BY <1>5, <4>4 DEF MessageIsSound
      <4>. QED
        BY <1>3, <4>4, <4>5
    <3>. QED
      BY <3>1, <3>2
  <2>. QED
    BY <2>1, <2>2
<1>20. ExitedIsLast'
  <2>. SUFFICES ASSUME stalls = 0 PROVE ExitedIsLast'
    BY <1>1 DEF ExitedIsLast
  <2>1. ASSUME NEW i \in DOMAIN wire', wire'[i] = Exited
        PROVE  /\ i = Len(wire') /\ holder \in {"told", "gone", "dead"}
               /\ \A o \in DOMAIN log \ skipped : o >= next' => \E j \in DOMAIN wire' : Covers(wire'[j], o)
    <3>1. /\ i + 1 = Len(wire) /\ holder \in {"told", "gone", "dead"}
          /\ \A o \in DOMAIN log \ skipped : o >= next => \E j \in DOMAIN wire : Covers(wire[j], o)
      <4>1. i + 1 \in DOMAIN wire /\ wire[i + 1] = Exited
        BY <1>4, <2>1
      <4>. QED
        BY <4>1 DEF IndInv, ExitedIsLast
    <3>2. i = Len(wire')
      BY <1>4, <3>1
    <3>3. \A o \in DOMAIN log \ skipped : o >= next' => \E j \in DOMAIN wire' : Covers(wire'[j], o)
      BY <1>15, <1>17, <3>1
    <3>. QED
      BY <3>1, <3>2, <3>3
  <2>. QED
    BY <1>1, <2>1 DEF IndInv, ExitedIsLast, Covers
<1>21. FinalOutputIsShown'
  BY <1>1 DEF FinalOutputIsShown
<1>. QED
  BY <1>7, <1>8, <1>9, <1>10, <1>11, <1>13, <1>14, <1>16, <1>18, <1>19, <1>20, <1>21 DEF IndInv

\* What is before the Exited of a holder that was in time is all that it stored.
LEMMA ReadExitedInd == ASSUME IndInv, ReadExited PROVE IndInv'
<1>1. /\ TypeOK /\ thread = "follow" /\ wire # <<>> /\ Head(wire) = Exited
      /\ thread' = "done" /\ exit' = "told" /\ link' = "none" /\ wire' = <<>> /\ from' = from
      /\ UNCHANGED <<holder, shell, pty, written, log, unlisted, reach, end, tomb, forgot,
                     skipped, next, shown, revivals,
                     deaths, faults, stalls, starts>>
  BY DEF IndInv, ReadExited, OnExit, Leave, files, holders, bounds
<1>2. TypeOK'
  BY <1>1 DEF TypeOK
<1>3. LinkIsOwn'
  BY <1>1 DEF IndInv, LinkIsOwn
<1>4. DOMAIN wire = 1 .. Len(wire) /\ Len(wire) \in Nat \ {0} /\ wire[1] = Exited /\ 1 \in DOMAIN wire
  <2>1. wire \in Seq(Message)
    BY <1>1 DEF TypeOK
  <2>. QED
    BY <1>1, <2>1, LenProperties, EmptySeq
<1>5. ASSUME stalls = 0
      PROVE  /\ holder \in {"told", "gone", "dead"} /\ 1 = Len(wire)
             /\ \A o \in DOMAIN log \ skipped : o >= next => \E j \in DOMAIN wire : Covers(wire[j], o)
  BY <1>4, <1>5 DEF IndInv, ExitedIsLast
<1>6. ASSUME stalls = 0, ~forgot, NEW o \in DOMAIN log \ skipped
      PROVE  log[o] \in Sets(shown)
  <2>1. o \in Nat /\ next \in Nat
    BY <1>1, StreamTypes
  <2>2. ~(o >= next)
    <3>. SUFFICES ASSUME o >= next PROVE FALSE
      OBVIOUS
    <3>1. PICK j \in DOMAIN wire : Covers(wire[j], o)
      BY <1>5, <1>6
    <3>2. j = 1
      <4>1. Len(wire) = 1
        BY <1>5, <1>6
      <4>2. j \in 1 .. Len(wire)
        BY <1>4
      <4>. QED
        BY <4>1, <4>2
    <3>3. PICK m : m = Exited
      OBVIOUS
    <3>4. Covers(m, o) /\ m.at = 0 /\ Len(m.data) = 0
      BY <1>4, <3>1, <3>2, <3>3, ExitedType
    <3>. QED
      BY <2>1, <3>4 DEF Covers
  <2>3. o < next
    BY <2>1, <2>2
  <2>. QED
    BY <1>6, <2>3 DEF IndInv, NothingPassedIsLost
<1>7. ExitedIsLast' /\ FinalOutputIsShown'
  BY <1>1, <1>5, <1>6 DEF IndInv, ExitedIsLast, FinalOutputIsShown
<1>. QED
  BY <1>1, <1>2, <1>3, <1>7, Dropped

LEMMA StutterInd == ASSUME IndInv, UNCHANGED vars PROVE IndInv'
<1>1. UNCHANGED <<holder, shell, pty, written, log, unlisted, reach, end, tomb, forgot, skipped,
                  link, from, wire, thread,
                  next, shown, exit, revivals, deaths, faults, stalls, starts>>
  BY DEF vars, files, holders, conn, daemon, bounds
<1>2. Alive' = Alive /\ Opening' = Opening /\ stalls' >= stalls
  BY <1>1 DEF Alive, Opening, IndInv, TypeOK
<1>3. TypeOK'
  BY <1>1 DEF IndInv, TypeOK
<1>4. ExitedIsLast'
  BY <1>1 DEF IndInv, ExitedIsLast, Covers
<1>. QED
  BY <1>1, <1>2, <1>3, <1>4, FlagStep

LEMMA NextInd == IndInv /\ [Next]_vars => IndInv'
<1>. SUFFICES ASSUME IndInv, [Next]_vars PROVE IndInv'
  OBVIOUS
<1>1. CASE HolderStep
  BY <1>1, BindInd, PumpInd, AttachInd, FinalizeInd, TellExitedInd, ExitHolderInd DEF HolderStep
<1>2. CASE DaemonStep
  BY <1>2, RestoreInd, LaunchedInd, ReadBytesInd, ReadExitedInd, ReadEndInd, ReconnectInd, ReviveInd,
     RevivedInd DEF DaemonStep
<1>3. CASE Environment
  BY <1>3, WriteInd, ShellExitsInd, DieInd, StartInd, StopInd, CutInd DEF Environment
<1>. QED
  BY <1>1, <1>2, <1>3, StutterInd DEF Next

-----------------------------------------------------------------------------
(* The theorems.                                                           *)

\* In the journal, the grid, the wire and the pty the bytes rise, each of them ahead of the
\* one before, over every stall, cut, fault, death and restart.
THEOREM Inductive == Spec => []IndInv
BY InitInd, NextInd, PTL DEF Spec

\* Every variable keeps its type.
THEOREM TypeCorrect == Spec => []TypeOK
<1>1. IndInv => TypeOK
  BY DEF IndInv
<1>. QED
  BY Inductive, <1>1, PTL

\* The grid of a daemon gets the bytes of a pane in order and none twice (follow's next
\* and Fresh, held.rs).
THEOREM TheShownRises == Spec => []ShownInOrder
<1>1. IndInv => ShownInOrder
  BY DEF IndInv, ShownIsBehind
<1>. QED
  BY Inductive, <1>1, PTL

\* Neither the loop nor its connection passes over a byte that the journal holds, but
\* for those that a replay passed over (a failed write or eviction that the holder does
\* not list, a replay that cannot read), and as long as no lost count was forgotten.
THEOREM NothingIsPassedOver == Spec => []NoHole
<1>1. IndInv => NoHole
  BY DEF IndInv, NoHole, NothingIsSkippedUnlessLost, NothingIsSkipped, NothingPassedIsLost
<1>. QED
  BY Inductive, <1>1, PTL

\* Who is told of an exit has been given the output before it, with the same exceptions,
\* if the pump read all of it in time.
THEOREM TheExitIsLast == Spec => []FinalOutputIsShown
<1>1. IndInv => FinalOutputIsShown
  BY DEF IndInv
<1>. QED
  BY Inductive, <1>1, PTL

-----------------------------------------------------------------------------
(* The refinement.                                                         *)

HasJournal == Alive \/ Opening

\* What a step does to the log, its end and the holder's hold on it.
LEMMA LogSteps ==
    ASSUME IndInv, Next
    PROVE  Contract!Next \/ UNCHANGED <<log, end, HasJournal>>
<1>1. TypeOK /\ LogRises /\ end \in Nat
  BY DEF IndInv, TypeOK
<1>2. ASSUME HasJournal, HasJournal', UNCHANGED <<log, end>>
      PROVE  UNCHANGED <<log, end, HasJournal>>
  BY <1>2
<1>3. ASSUME UNCHANGED <<holder, log, end>>
      PROVE  UNCHANGED <<log, end, HasJournal>>
  BY <1>3 DEF HasJournal, Alive, Opening
<1>4. ASSUME Alive \/ Opening, holder' \in {"dead", "gone"}, end' = 0, log' = log
      PROVE  Contract!Next
  BY <1>4 DEF Contract!Next, Contract!Die, Alive, Opening
<1>5. ASSUME NEW step \in {"opening", "resurrecting"}, ~Alive, ~Opening, SpawnHolder(step)
      PROVE  Contract!Next
  BY <1>1, <1>5, EdgeLemma DEF SpawnHolder, Top, Contract!Next, Contract!Open, Alive, Opening
<1>6. CASE Write \/ ShellExits \/ Start \/ Stop \/ Cut
  BY <1>3, <1>6 DEF Write, ShellExits, Start, Stop, Cut, files, holders
<1>7. CASE Attach \/ Launched \/ ReadBytes \/ ReadExited \/ ReadEnd \/ Reconnect \/ Revived
  BY <1>3, <1>7 DEF Attach, Launched, ReadBytes, ReadExited, ReadEnd, Reconnect, Revived, files, holders
<1>8. CASE Finalize \/ TellExited
  BY <1>2, <1>8 DEF Finalize, TellExited, files, HasJournal, Alive
<1>9. CASE ExitHolder \/ Die
  BY <1>4, <1>9 DEF ExitHolder, Die, Forget, Alive, Opening, files
<1>10. CASE Restore
  BY <1>3, <1>5, <1>10 DEF Restore, files, holders
<1>11. CASE Revive
  BY <1>3, <1>5, <1>11 DEF Revive, files, holders
<1>12. CASE Bind
  <2>1. CASE holder' = "up" /\ UNCHANGED <<files, end>>
    BY <1>2, <1>12, <2>1 DEF Bind, HasJournal, Alive, Opening, files
  <2>2. CASE ~(holder' = "up" /\ UNCHANGED <<files, end>>)
    <3>. DEFINE data == <<written + 1>>
    <3>1. PICK counted \in 0 .. 1 :
             /\ end' = end + counted
             /\ (Appends(data) /\ counted = 1) \/ AppendFails(data, counted)
             /\ holder' \in {"up", "failed"}
      BY <1>12, <2>2 DEF Bind
    <3>2. /\ data \in Seq(Nat) /\ data # <<>> /\ Len(data) = 1 /\ 0 .. 1 = {0, Len(data)}
          /\ DOMAIN data = 1 .. 1
      BY <1>1 DEF TypeOK
    <3>. HIDE DEF data
    <3>3. /\ AppendKeeps(data) /\ Opening /\ HasJournal /\ HasJournal' /\ reach = end
          /\ counted = 1 => reach' = end + 1
          /\ counted = 0 => reach' = reach \/ (end <= reach' /\ reach' < end + 1)
      <4>1. Opening
        BY <1>12 DEF Bind, Opening
      <4>2. HasJournal /\ HasJournal' /\ reach = end
        BY <1>1, <3>1, <4>1 DEF HasJournal, Alive, Opening, LogRises
      <4>. QED
        BY <3>1, <3>2, <4>1, <4>2, AppendIs
    <3>4. end' = reach' /\ end' \in Nat /\ end' >= end
      BY <1>1, <3>1, <3>3 DEF AppendKeeps
    <3>5. ASSUME NEW o \in DOMAIN log'
          PROVE  \/ o \in end .. end' - 1
                 \/ o \in DOMAIN log /\ o < end /\ log'[o] = log[o]
      <4>1. o < end'
        BY <3>3, <3>4 DEF AppendKeeps
      <4>2. CASE o >= end
        <5>0. o \in Nat /\ end \in Nat
          BY <1>1, <3>3 DEF AppendKeeps
        <5>1. o - end + 1 \in DOMAIN data /\ o \in Nat
          BY <3>3, <4>2, <5>0 DEF AppendKeeps
        <5>2. o = end
          BY <1>1, <3>2, <5>1
        <5>. QED
          BY <1>1, <3>4, <4>1, <5>2
      <4>. QED
        BY <3>3, <4>2 DEF AppendKeeps
    <3>6. (Alive \/ Opening) /\ (Alive' \/ Opening')
      BY <3>3 DEF HasJournal
    <3>7. Contract!Grow
      BY <3>4, <3>5, <3>6 DEF Contract!Grow
    <3>. QED
      BY <3>7 DEF Contract!Next
  <2>. QED
    BY <2>1, <2>2
<1>13. CASE Pump
  <2>1. PICK n \in 1 .. MaxChunk :
           /\ n <= Len(pty)
           /\ pty' = SubSeq(pty, n + 1, Len(pty))
           /\ Store(SubSeq(pty, 1, n))
    BY <1>13 DEF Pump
  <2>2. Alive /\ Alive' /\ written' = written /\ pty # <<>>
    BY <1>13 DEF Pump, Alive
  <2>3. PICK data : data = SubSeq(pty, 1, n)
    OBVIOUS
  <2>4. n \in 1 .. Len(pty)
    BY <1>1, <2>1, StreamTypes, Bounds
  <2>5. /\ data \in Seq(Nat) /\ data # <<>> /\ Len(data) \in Nat
        /\ \A k, l \in DOMAIN data : k < l => data[k] < data[l]
        /\ \A k \in DOMAIN data : data[k] <= written
        /\ \A k \in DOMAIN data : \A o \in DOMAIN log : log[o] < data[k]
    <3>1. Len(data) = n /\ n \in Nat
      BY <2>1, <2>3, <2>4, ReadPty, Bounds
    <3>. QED
      BY <2>1, <2>3, <2>4, <3>1, ReadPty
  <2>6. /\ end' \in Nat /\ end' >= end + Len(data)
        /\ \A o \in DOMAIN log' :
              \/ o \in DOMAIN log /\ o < end /\ log'[o] = log[o]
              \/ o >= end /\ o < end + Len(data)
        /\ DOMAIN log' \subseteq Nat
    BY <2>1, <2>2, <2>3, <2>5, StoreOutcome
  <2>7. end' >= end /\ \A o \in DOMAIN log' :
           o >= end /\ o < end + Len(data) => o \in end .. end' - 1
    BY <1>1, <2>5, <2>6
  <2>. QED
    BY <2>2, <2>6, <2>7 DEF Contract!Next, Contract!Grow
<1>. QED
  BY <1>6, <1>7, <1>8, <1>9, <1>10, <1>11, <1>12, <1>13
  DEF Next, HolderStep, DaemonStep, Environment

\* Every append, eviction, fault, death and opening of the journal under its holder is a
\* step that ByteLog allows: the bytes of an offset are never written over.
THEOREM LogImplementsByteLog == Spec => LogIsByteLog
<1>1. Init => Contract!Init
  BY DEF Init, Contract!Init, Alive, Opening
<1>2. IndInv /\ [Next]_vars => [Contract!Next]_(Contract!vars)
  <2>. SUFFICES ASSUME IndInv, [Next]_vars PROVE Contract!Next \/ UNCHANGED Contract!vars
    OBVIOUS
  <2>1. CASE Next
    BY <2>1, LogSteps DEF Contract!vars, HasJournal
  <2>2. CASE UNCHANGED vars
    BY <2>2 DEF vars, files, holders, Contract!vars, Alive, Opening
  <2>. QED
    BY <2>1, <2>2
<1>. QED
  BY Inductive, <1>1, <1>2, PTL DEF Spec, LogIsByteLog, Contract!Spec
=============================================================================
