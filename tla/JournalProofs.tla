--------------------------- MODULE JournalProofs ---------------------------
(* Proofs about Journal, for every value of its constants. *)
EXTENDS Journal, FiniteSetTheorems, SequenceTheorems, WellFoundedInduction, TLAPS

\* The last segment of a list of segments is a segment.
LEMMA LastSegment ==
    ASSUME NEW s \in Seq(Segment), s # <<>>
    PROVE  /\ Len(s) \in Nat \ {0}
           /\ Len(s) \in DOMAIN s
           /\ Last(s) = s[Len(s)]
           /\ Last(s) \in Segment
           /\ Last(s).start \in Nat
           /\ Last(s).len \in Nat
<1>1. Len(s) \in Nat \ {0} /\ Len(s) \in 1 .. Len(s)
  BY EmptySeq, LenProperties
<1>2. Last(s) = s[Len(s)]
  BY DEF Last
<1>3. s[Len(s)] \in Segment
  BY <1>1, ElementOfSeq
<1>. QED
  BY <1>1, <1>2, <1>3, LenProperties DEF Segment

\* The end offset is a natural number.
LEMMA EndType == TypeOK => End \in Nat
<1>. SUFFICES ASSUME TypeOK PROVE End \in Nat
  OBVIOUS
<1>1. CASE segments = <<>>
  BY <1>1 DEF End, TypeOK
<1>2. CASE segments # <<>>
  BY <1>2, LastSegment DEF End, TypeOK, SegEnd
<1>. QED BY <1>1, <1>2

\* A holder that has not opened its journal over an empty directory is consistent.
LEMMA InitInd == Init => IndInv
<1>. SUFFICES ASSUME Init PROVE IndInv
  OBVIOUS
<1>1. TypeOK
  BY DEF Init, TypeOK
<1>2. IsFiniteSet(DOMAIN files)
  BY FS_EmptySet DEF Init
<1>. QED
  BY <1>1, <1>2 DEF Init, IndInv, FilesAreDisjoint, FilesAreFaithful,
     ListMatchesDirectory, OnlyTheNewestFileIsAtRisk, HandIsConsistent, ListIsSorted,
     NewestFileIsListed, AppendInProgress

\* Opening the journal lists the files as they are (Journal::open).
LEMMA OpenInd == IndInv /\ Open => IndInv'
<1>. SUFFICES ASSUME IndInv, Open PROVE IndInv'
  OBVIOUS
<1>1. PICK starts \in Listings :
         segments' = [i \in DOMAIN starts |->
                        [start |-> starts[i], len |-> Len(files[starts[i]])]]
  BY DEF Open
<1>. DEFINE n == Cardinality(DOMAIN files)
<1>2. n \in Nat
  BY FS_CardinalityType DEF IndInv
<1>3. /\ starts \in [1 .. n -> DOMAIN files]
      /\ \A i, j \in 1 .. n : i < j => starts[i] < starts[j]
      /\ \A f \in DOMAIN files : \E i \in 1 .. n : starts[i] = f
  BY <1>1 DEF Listings
<1>4. /\ DOMAIN files \subseteq Nat
      /\ \A f \in DOMAIN files : files[f] \in Seq(Nat) /\ Len(files[f]) \in Nat
  BY DEF TypeOK, IndInv
<1>5. /\ segments' \in Seq(Segment)
      /\ Len(segments') = n
      /\ \A i \in 1 .. n : /\ segments'[i].start = starts[i]
                           /\ segments'[i].len = Len(files[starts[i]])
  <2>1. DOMAIN starts = 1 .. n /\ \A i \in 1 .. n : starts[i] \in DOMAIN files
    BY <1>3
  <2>2. segments' = [i \in 1 .. n |-> [start |-> starts[i], len |-> Len(files[starts[i]])]]
    BY <1>1, <2>1
  <2>3. \A i \in 1 .. n : [start |-> starts[i], len |-> Len(files[starts[i]])] \in Segment
    BY <1>4, <2>1 DEF Segment
  <2>. QED
    BY <1>2, <2>2, <2>3
<1>6. TypeOK'
  BY <1>5 DEF Open, TypeOK, disk, hand, bounds, IndInv
<1>7. UNCHANGED <<files, durable, origin, chunk, at>> /\ lost' = 0 /\ pc' = "idle"
  BY DEF Open, disk, hand
<1>8. ListIsSorted'
  <2>. SUFFICES ASSUME NEW i \in 1 .. n, NEW j \in 1 .. n, i < j
                PROVE  /\ segments'[i].start < segments'[j].start
                       /\ SegEnd(segments'[i]) <= segments'[j].start
    BY <1>5 DEF ListIsSorted
  <2>1. starts[i] < starts[j] /\ starts[i] \in DOMAIN files /\ starts[j] \in DOMAIN files
    BY <1>3
  <2>2. starts[i] + Len(files[starts[i]]) <= starts[j]
    BY <2>1 DEF IndInv, FilesAreDisjoint
  <2>. QED
    BY <1>5, <2>1, <2>2 DEF SegEnd
<1>9. NewestFileIsListed'
  <2>. SUFFICES ASSUME NEW f \in DOMAIN files
                PROVE  /\ segments' # <<>>
                       /\ f <= Last(segments').start
                       /\ f + Len(files[f]) <= End'
    BY <1>7 DEF NewestFileIsListed
  <2>1. PICK i \in 1 .. n : starts[i] = f
    BY <1>3
  <2>2. n \in 1 .. n /\ segments' # <<>> /\ Last(segments') = segments'[n]
    BY <1>2, <1>5, <2>1, LastSegment
  <2>3. starts[n] \in DOMAIN files /\ f <= starts[n]
    BY <1>2, <1>3, <1>4, <2>1, <2>2
  <2>4. End' = starts[n] + Len(files[starts[n]])
    BY <1>4, <1>5, <1>7, <2>2, <2>3 DEF End, SegEnd
  <2>5. f + Len(files[f]) <= starts[n] + Len(files[starts[n]])
    <3>1. CASE f = starts[n]
      BY <3>1, <1>4, <2>3
    <3>2. CASE f < starts[n]
      BY <3>2, <1>4, <2>3 DEF IndInv, FilesAreDisjoint
    <3>. QED
      BY <1>4, <2>3, <3>1, <3>2
  <2>. QED
    BY <1>5, <2>2, <2>3, <2>4, <2>5
<1>10. ListMatchesDirectory'
  BY <1>3, <1>4, <1>5, <1>7 DEF ListMatchesDirectory
<1>11. HandIsConsistent'
  BY <1>7 DEF HandIsConsistent, AppendInProgress
<1>12. /\ IsFiniteSet(DOMAIN files)'
       /\ (\A f \in DOMAIN durable : durable[f] <= Len(files[f]))'
       /\ FilesAreDisjoint' /\ FilesAreFaithful' /\ OnlyTheNewestFileIsAtRisk'
  BY <1>7 DEF IndInv, FilesAreDisjoint, FilesAreFaithful, OnlyTheNewestFileIsAtRisk, DurableLength
<1>. QED
  BY <1>6, <1>8, <1>9, <1>10, <1>11, <1>12 DEF IndInv

\* What is known of an offset after bytes were read at and above another one.
LEMMA OverwriteLemma ==
    ASSUME NEW f, DOMAIN f \subseteq Nat, f \in [DOMAIN f -> Nat],
           NEW o \in Nat, NEW s \in Seq(Nat)
    PROVE  /\ DOMAIN Overwrite(f, o, s) \subseteq Nat
           /\ Overwrite(f, o, s) \in [DOMAIN Overwrite(f, o, s) -> Nat]
           /\ DOMAIN f \subseteq DOMAIN Overwrite(f, o, s)
           /\ \A x \in DOMAIN f : x < o => Overwrite(f, o, s)[x] = f[x]
           /\ \A i \in DOMAIN s : /\ o + i - 1 \in DOMAIN Overwrite(f, o, s)
                                  /\ Overwrite(f, o, s)[o + i - 1] = s[i]
<1>. DEFINE new == o .. (o + Len(s) - 1)
            val(x) == IF x \in new THEN s[x - o + 1] ELSE f[x]
<1>1. /\ Len(s) \in Nat /\ DOMAIN s = 1 .. Len(s)
      /\ \A i \in 1 .. Len(s) : s[i] \in Nat
  BY LenProperties, ElementOfSeq
<1>2. Overwrite(f, o, s) = [x \in DOMAIN f \cup new |-> val(x)]
  BY DEF Overwrite
<1>3. new \subseteq Nat /\ \A x \in new : x - o + 1 \in 1 .. Len(s)
  BY <1>1
<1>4. \A x \in DOMAIN f \cup new : val(x) \in Nat
  BY <1>1, <1>3
<1>5. ASSUME NEW i \in DOMAIN s
      PROVE  o + i - 1 \in new /\ val(o + i - 1) = s[i]
  <2>1. i \in 1 .. Len(s) /\ o + i - 1 \in new /\ (o + i - 1) - o + 1 = i
    BY <1>1
  <2>. QED
    BY <2>1
<1>6. ASSUME NEW x \in DOMAIN f, x < o
      PROVE  val(x) = f[x]
  BY <1>6, <1>1
<1>. HIDE DEF val, new
<1>. QED
  BY <1>2, <1>3, <1>4, <1>5, <1>6

\* Taking a chunk from the terminal disturbs neither the files nor the list.
LEMMA IngestInd == ASSUME NEW n \in 1 .. MaxChunk, IndInv, Ingest(n) PROVE IndInv'
<1>0. n \in Nat /\ End \in Nat /\ fed \in Nat
  <2>1. End \in Nat
    BY EndType DEF IndInv
  <2>. QED
    BY <2>1, BoundsAreNormalized DEF IndInv, TypeOK
<1>1. /\ chunk' \in Seq(Nat) /\ DOMAIN chunk' = 1 .. n /\ at' \in Nat /\ at' = End
      /\ fed' \in Nat /\ pc' \in {"rotate", "write"}
  <2>1. chunk' = [i \in 1 .. n |-> fed + i] /\ \A i \in 1 .. n : fed + i \in Nat
    BY <1>0 DEF Ingest
  <2>2. chunk' \in Seq(Nat) /\ DOMAIN chunk' = 1 .. n
    BY <1>0, <2>1
  <2>. QED
    BY <1>0, <2>2 DEF Ingest
<1>2. /\ origin' = Overwrite(origin, End, chunk')
      /\ UNCHANGED <<segments, lost, unsynced, files, durable, announced, faults, crashes>>
      /\ pc = "idle" /\ pc' = IF MustRotate THEN "rotate" ELSE "write"
  BY DEF Ingest, memory, disk
<1>3. /\ DOMAIN origin' \subseteq Nat /\ origin' \in [DOMAIN origin' -> Nat]
      /\ DOMAIN origin \subseteq DOMAIN origin'
      /\ \A x \in DOMAIN origin : x < End => origin'[x] = origin[x]
      /\ \A i \in DOMAIN chunk' : at' + i - 1 \in DOMAIN origin'
                                  /\ origin'[at' + i - 1] = chunk'[i]
  <2>1. DOMAIN origin \subseteq Nat /\ origin \in [DOMAIN origin -> Nat]
    BY DEF IndInv, TypeOK
  <2>. QED
    BY <1>0, <1>1, <1>2, <2>1, OverwriteLemma
<1>4. TypeOK'
  BY <1>1, <1>2, <1>3 DEF IndInv, TypeOK
<1>5. FilesAreFaithful'
  <2>. SUFFICES ASSUME NEW f \in DOMAIN files, NEW i \in DOMAIN files[f]
                PROVE  /\ f + i - 1 \in DOMAIN origin'
                       /\ origin'[f + i - 1] = files[f][i]
    BY <1>2 DEF FilesAreFaithful
  <2>1. f \in Nat /\ i \in 1 .. Len(files[f]) /\ Len(files[f]) \in Nat
    BY LenProperties DEF IndInv, TypeOK
  <2>2. f + Len(files[f]) <= End
    BY <1>2 DEF IndInv, NewestFileIsListed
  <2>3. f + i - 1 \in DOMAIN origin /\ origin[f + i - 1] = files[f][i]
    BY DEF IndInv, FilesAreFaithful
  <2>. QED
    BY <1>1, <1>3, <2>1, <2>2, <2>3
<1>6. HandIsConsistent'
  <2>1. End' = End /\ MustRotate' = MustRotate
    BY <1>2 DEF End, MustRotate
  <2>2. ~MustRotate => segments # <<>> /\ lost = 0
    BY DEF MustRotate, IndInv, TypeOK
  <2>. QED
    BY <1>1, <1>2, <1>3, <2>1, <2>2 DEF HandIsConsistent
<1>7. /\ IsFiniteSet(DOMAIN files)'
      /\ (\A f \in DOMAIN durable : durable[f] <= Len(files[f]))'
      /\ FilesAreDisjoint' /\ OnlyTheNewestFileIsAtRisk'
      /\ ListMatchesDirectory' /\ ListIsSorted' /\ NewestFileIsListed'
  BY <1>2 DEF IndInv, FilesAreDisjoint, OnlyTheNewestFileIsAtRisk, DurableLength,
     ListMatchesDirectory, ListIsSorted, NewestFileIsListed, End
<1>. QED
  BY <1>4, <1>5, <1>6, <1>7 DEF IndInv

\* What every failed step does besides its own change to the list and the files.
LEMMA LoseLemma ==
    ASSUME IndInv, Lose
    PROVE  /\ lost \in Nat /\ lost' = lost + Len(chunk) /\ Len(chunk) \in Nat
           /\ DOMAIN announced' \subseteq Nat /\ announced' \in [DOMAIN announced' -> Nat]
           /\ chunk' = <<>> /\ pc' = "idle" /\ faults' \in Nat
           /\ UNCHANGED <<at, origin, fed, crashes>>
<1>1. /\ DOMAIN announced \subseteq Nat /\ announced \in [DOMAIN announced -> Nat]
      /\ at \in Nat /\ chunk \in Seq(Nat) /\ lost \in Nat /\ faults \in Nat
  BY DEF IndInv, TypeOK
<1>2. /\ announced' = Overwrite(announced, at, chunk) /\ chunk' = <<>> /\ pc' = "idle"
      /\ UNCHANGED <<at, origin, fed, crashes>>
      /\ lost' = lost + Len(chunk) /\ faults' = faults + 1
  BY DEF Lose, Announce
<1>3. Len(chunk) \in Nat
  BY <1>1, LenProperties
<1>. QED
  BY <1>1, <1>2, <1>3, OverwriteLemma, SMTT(30)

\* Syncing the last listed file makes it durable in full and changes no other.
LEMMA SyncLastLemma ==
    ASSUME IndInv, SyncLast, pc # "down"
    PROVE  /\ DOMAIN durable' \subseteq DOMAIN files
           /\ durable' \in [DOMAIN durable' -> Nat]
           /\ \A f \in DOMAIN durable' : durable'[f] <= Len(files[f])
           /\ \A f \in DOMAIN files : DurableLength(f)' \in {DurableLength(f), Len(files[f])}
           /\ \A f \in DOMAIN files :
                 (\A g \in DOMAIN files : g <= f) => DurableLength(f)' = Len(files[f])
<1>1. /\ DOMAIN durable \subseteq DOMAIN files /\ durable \in [DOMAIN durable -> Nat]
      /\ DOMAIN files \subseteq Nat /\ segments \in Seq(Segment)
      /\ \A f \in DOMAIN files : Len(files[f]) \in Nat
      /\ \A f \in DOMAIN durable : durable[f] <= Len(files[f])
  BY LenProperties DEF IndInv, TypeOK
<1>2. CASE segments = <<>>
  <2>1. durable' = durable
    BY <1>2 DEF SyncLast
  <2>2. DOMAIN files = {}
    BY <1>2 DEF IndInv, NewestFileIsListed
  <2>. QED
    BY <1>1, <2>1, <2>2
<1>3. CASE segments # <<>>
  <2>. DEFINE last == Last(segments).start
  <2>1. durable' = Put(durable, last, Len(files[last]))
    BY <1>3 DEF SyncLast
  <2>2. last \in DOMAIN files
    BY <1>1, <1>3, LastSegment DEF IndInv, ListMatchesDirectory
  <2>3. \A f \in DOMAIN files : f <= last
    BY DEF IndInv, NewestFileIsListed
  <2>4. /\ DOMAIN durable' = DOMAIN durable \cup {last}
        /\ \A f \in DOMAIN durable' : durable'[f] = IF f = last THEN Len(files[f]) ELSE durable[f]
        /\ durable' = [f \in DOMAIN durable \cup {last} |->
                          IF f = last THEN Len(files[f]) ELSE durable[f]]
    BY <2>1 DEF Put
  <2>5. /\ DOMAIN durable' \subseteq DOMAIN files
        /\ \A f \in DOMAIN durable' : durable'[f] \in Nat /\ durable'[f] <= Len(files[f])
    BY <1>1, <2>2, <2>4
  <2>6. \A f \in DOMAIN files : DurableLength(f)' =
           IF f = last THEN Len(files[f]) ELSE DurableLength(f)
    BY <1>1, <2>2, <2>4 DEF DurableLength
  <2>7. \A f \in DOMAIN files : (\A g \in DOMAIN files : g <= f) => f = last
    BY <1>1, <2>2, <2>3
  <2>. HIDE DEF last
  <2>. QED
    BY <2>4, <2>5, <2>6, <2>7
<1>. QED
  BY <1>2, <1>3

\* The operands of the end offset are numbers.
LEMMA EndBase ==
    ASSUME IndInv
    PROVE  /\ lost \in Nat
           /\ (IF segments = <<>> THEN 0 ELSE SegEnd(Last(segments))) \in Nat
           /\ Len(chunk) \in Nat
BY LastSegment, LenProperties DEF IndInv, TypeOK, SegEnd

\* A step back to idle that touches neither the list nor what the files hold:
\* bytes may have been lost, the open file may have been synced.
LEMMA QuietStep ==
    ASSUME IndInv, pc # "down", pc' = "idle",
           UNCHANGED <<segments, files, origin, at>>,
           lost' \in Nat, lost' >= lost, unsynced' \in Nat,
           chunk' \in Seq(Nat), fed' \in Nat, faults' \in Nat, crashes' \in Nat,
           DOMAIN announced' \subseteq Nat, announced' \in [DOMAIN announced' -> Nat],
           durable' = durable \/ SyncLast
    PROVE  IndInv'
<1>1. /\ DOMAIN durable' \subseteq DOMAIN files /\ durable' \in [DOMAIN durable' -> Nat]
      /\ \A f \in DOMAIN durable' : durable'[f] <= Len(files[f])
      /\ \A f \in DOMAIN files : DurableLength(f)' \in {DurableLength(f), Len(files[f])}
  <2>1. CASE durable' = durable
    BY <2>1 DEF IndInv, TypeOK, DurableLength
  <2>2. CASE SyncLast
    BY <2>2, SyncLastLemma
  <2>. QED
    BY <2>1, <2>2
<1>2. TypeOK'
  BY <1>1 DEF IndInv, TypeOK
<1>3. OnlyTheNewestFileIsAtRisk'
  BY <1>1 DEF IndInv, OnlyTheNewestFileIsAtRisk
<1>4. End \in Nat /\ End' \in Nat /\ End' >= End
  <2>1. End' = End - lost + lost' /\ lost \in Nat
    <3>1. CASE segments = <<>>
      BY <3>1 DEF End, IndInv, TypeOK
    <3>2. CASE segments # <<>>
      BY <3>2, LastSegment, SMTT(30) DEF End, IndInv, TypeOK, SegEnd
    <3>. QED
      BY <3>1, <3>2
  <2>2. End \in Nat /\ End >= lost
    <3>. DEFINE base == IF segments = <<>> THEN 0 ELSE SegEnd(Last(segments))
    <3>1. base \in Nat /\ lost \in Nat
      BY EndBase
    <3>2. End = base + lost
      BY DEF End
    <3>. HIDE DEF base
    <3>. QED
      BY <3>1, <3>2
  <2>. QED
    BY <2>1, <2>2
<1>5. NewestFileIsListed'
  <2>. SUFFICES ASSUME NEW f \in DOMAIN files
                PROVE  /\ segments # <<>> /\ f <= Last(segments).start
                       /\ f + Len(files[f]) <= End'
    BY DEF NewestFileIsListed
  <2>1. f + Len(files[f]) <= End /\ segments # <<>> /\ f <= Last(segments).start
    BY DEF IndInv, NewestFileIsListed
  <2>2. f + Len(files[f]) \in Nat
    BY LenProperties DEF IndInv, TypeOK
  <2>. QED
    BY <1>4, <2>1, <2>2
<1>6. ListMatchesDirectory'
  BY DEF IndInv, ListMatchesDirectory, TypeOK
<1>7. HandIsConsistent'
  BY DEF HandIsConsistent, AppendInProgress
<1>. QED
  BY <1>1, <1>2, <1>3, <1>5, <1>6, <1>7 DEF IndInv, FilesAreDisjoint, FilesAreFaithful,
     ListIsSorted

\* An fsync makes the newest file durable (Journal::sync).
LEMMA SyncInd == ASSUME IndInv, Sync PROVE IndInv'
<1>. SUFFICES UNCHANGED <<segments, files, origin, at, lost, chunk, fed, faults, crashes,
                          announced>> /\ pc = "idle" /\ pc' = "idle" /\ SyncLast
              /\ unsynced' = 0
  BY QuietStep, SMTT(30) DEF IndInv, TypeOK
<1>. QED
  BY DEF Sync, hand, bounds

\* A rotation that fails after its fsync or its create leaves the list alone.
LEMMA RotateFailsInd == ASSUME IndInv, RotateFails PROVE IndInv'
<1>1. Lose
  BY DEF RotateFails
<1>2. /\ UNCHANGED <<segments, unsynced, files>> /\ pc = "rotate"
      /\ (durable' = durable \/ SyncLast)
  BY DEF RotateFails
<1>3. lost \in Nat /\ unsynced \in Nat /\ fed \in Nat /\ crashes \in Nat
  BY DEF IndInv, TypeOK
<1>. QED
  BY <1>1, <1>2, <1>3, LoseLemma, QuietStep

\* A failed fsync leaves the files and the list alone.
LEMMA SyncFailsInd == ASSUME IndInv, SyncFails PROVE IndInv'
<1>1. Lose
  BY DEF SyncFails
<1>2. UNCHANGED <<segments, unsynced, files, durable>> /\ pc = "sync"
  BY DEF SyncFails, disk
<1>3. lost \in Nat /\ unsynced \in Nat /\ fed \in Nat /\ crashes \in Nat
  BY DEF IndInv, TypeOK
<1>. QED
  BY <1>1, <1>2, <1>3, LoseLemma, QuietStep

\* The end of an append disturbs neither the files nor the list.
LEMMA FinishAppendInd == ASSUME IndInv, FinishAppend PROVE IndInv'
<1>1. /\ DOMAIN announced \subseteq Nat /\ announced \in [DOMAIN announced -> Nat]
      /\ at \in Nat /\ chunk \in Seq(Nat) /\ lost \in Nat /\ faults \in Nat
      /\ unsynced \in Nat /\ fed \in Nat /\ crashes \in Nat
  BY DEF IndInv, TypeOK
<1>2. /\ announced' = Overwrite(announced, at, chunk) /\ chunk' = <<>>
      /\ pc = "sync" /\ pc' = "idle"
      /\ UNCHANGED <<at, origin, fed, crashes, segments, lost, files, faults>>
  BY DEF FinishAppend, Announce
<1>3. /\ durable' = durable \/ SyncLast
      /\ unsynced' \in {unsynced, 0}
  BY DEF FinishAppend
<1>4. DOMAIN announced' \subseteq Nat /\ announced' \in [DOMAIN announced' -> Nat]
  BY <1>1, <1>2, OverwriteLemma
<1>5. chunk' \in Seq(Nat)
  BY <1>2
<1>. QED
  BY <1>1, <1>2, <1>3, <1>4, <1>5, QuietStep

\* An append with nothing to evict goes on to its fsync or its end.
LEMMA EvictDoneInd == ASSUME IndInv, EvictDone PROVE IndInv'
<1>1. /\ UNCHANGED <<segments, lost, unsynced, files, durable, chunk, at, origin,
                      announced, fed, faults, crashes>>
      /\ pc = "evict" /\ pc' = "sync"
  BY DEF EvictDone, memory, disk, hand, bounds
<1>. QED
  BY <1>1 DEF IndInv, TypeOK, FilesAreDisjoint, FilesAreFaithful, ListMatchesDirectory,
     OnlyTheNewestFileIsAtRisk, DurableLength, HandIsConsistent, AppendInProgress,
     ListIsSorted, NewestFileIsListed, End

\* A rotation starts an empty file at the end offset (Journal::rotate).
LEMMA RotateInd == ASSUME IndInv, Rotate PROVE IndInv'
<1>1. /\ segments \in Seq(Segment) /\ lost \in Nat /\ unsynced \in Nat
      /\ DOMAIN files \subseteq Nat /\ DOMAIN durable \subseteq DOMAIN files
      /\ \A f \in DOMAIN files : files[f] \in Seq(Nat) /\ Len(files[f]) \in Nat
      /\ End \in Nat
  BY EndType, LenProperties DEF IndInv, TypeOK
<1>2. /\ pc = "rotate" /\ pc' = "write" /\ SyncLast
      /\ segments' = Append(segments, [start |-> End, len |-> 0]) /\ lost' = 0
      /\ UNCHANGED <<unsynced, chunk, at, origin, announced, fed, faults, crashes>>
  BY DEF Rotate, hand, bounds
<1>3. at = End /\ MustRotate
  BY <1>2 DEF IndInv, HandIsConsistent
<1>4. \A f \in DOMAIN files : f < End /\ f + Len(files[f]) <= End
  <2>. SUFFICES ASSUME NEW f \in DOMAIN files PROVE f < End /\ f + Len(files[f]) <= End
    OBVIOUS
  <2>1. segments # <<>> /\ f <= Last(segments).start /\ f + Len(files[f]) <= End
    BY <1>2 DEF IndInv, NewestFileIsListed
  <2>2. Last(segments).start < End
    <3>1. lost > 0 \/ Last(segments).len > 0
      BY <1>1, <1>3, <2>1, LastSegment, BoundsAreNormalized DEF MustRotate
    <3>2. End = Last(segments).start + Last(segments).len + lost
      BY <2>1 DEF End, SegEnd
    <3>. QED
      BY <1>1, <2>1, <3>1, <3>2, LastSegment
  <2>. QED
    BY <1>1, <2>1, <2>2, LastSegment
<1>5. End \notin DOMAIN files
  BY <1>1, <1>4
<1>6. /\ DOMAIN files' = DOMAIN files \cup {End}
      /\ \A f \in DOMAIN files : files'[f] = files[f]
      /\ files'[End] = <<>>
      /\ files' = [f \in DOMAIN files \cup {End} |-> IF f = End THEN <<>> ELSE files[f]]
  BY <1>5 DEF Rotate, Put
<1>7. /\ segments' \in Seq(Segment) /\ segments' # <<>>
      /\ Len(segments') = Len(segments) + 1 /\ Len(segments) \in Nat
      /\ DOMAIN segments' = 1 .. Len(segments) + 1 /\ DOMAIN segments = 1 .. Len(segments)
      /\ \A i \in DOMAIN segments : segments'[i] = segments[i]
      /\ segments'[Len(segments) + 1] = [start |-> End, len |-> 0]
      /\ Last(segments') = [start |-> End, len |-> 0]
  <2>1. [start |-> End, len |-> 0] \in Segment
    BY <1>1 DEF Segment
  <2>2. /\ segments' \in Seq(Segment) /\ Len(segments') = Len(segments) + 1
        /\ Len(segments) \in Nat
        /\ \A i \in 1 .. Len(segments) : segments'[i] = segments[i]
        /\ segments'[Len(segments) + 1] = [start |-> End, len |-> 0]
    BY <1>1, <1>2, <2>1, AppendProperties, LenProperties
  <2>. QED
    BY <1>1, <2>2, LenProperties DEF Last
<1>8. End' = End
  BY <1>1, <1>2, <1>7 DEF End, SegEnd
<1>9. /\ DOMAIN durable' \subseteq DOMAIN files /\ durable' \in [DOMAIN durable' -> Nat]
      /\ \A f \in DOMAIN durable' : durable'[f] <= Len(files[f])
      /\ \A f \in DOMAIN files : DurableLength(f)' \in {DurableLength(f), Len(files[f])}
      /\ \A f \in DOMAIN files :
            (\A g \in DOMAIN files : g <= f) => DurableLength(f)' = Len(files[f])
  BY <1>2, SyncLastLemma
<1>10. TypeOK'
  <2>1. files' \in [DOMAIN files' -> Seq(Nat)] /\ DOMAIN files' \subseteq Nat
    BY <1>1, <1>6
  <2>. QED
    BY <1>2, <1>6, <1>7, <1>9, <2>1 DEF IndInv, TypeOK
<1>11. IsFiniteSet(DOMAIN files)'
  BY <1>6, FS_AddElement DEF IndInv
<1>12. \A f \in DOMAIN durable' : durable'[f] <= Len(files'[f])
  BY <1>6, <1>9
<1>13. FilesAreDisjoint'
  BY <1>1, <1>4, <1>6 DEF IndInv, FilesAreDisjoint
<1>14. FilesAreFaithful'
  BY <1>2, <1>6 DEF IndInv, FilesAreFaithful
<1>15. ListMatchesDirectory'
  BY <1>1, <1>2, <1>6, <1>7 DEF IndInv, ListMatchesDirectory
<1>16. OnlyTheNewestFileIsAtRisk'
  <2>. SUFFICES ASSUME NEW f \in DOMAIN files', NEW g \in DOMAIN files', f < g
                PROVE  DurableLength(f)' = Len(files'[f])
    BY DEF OnlyTheNewestFileIsAtRisk
  <2>1. f \in DOMAIN files /\ files'[f] = files[f]
    BY <1>1, <1>4, <1>6
  <2>2. CASE \A h \in DOMAIN files : h <= f
    BY <1>9, <2>1, <2>2
  <2>3. CASE \E h \in DOMAIN files : f < h
    BY <1>9, <2>1, <2>3 DEF IndInv, OnlyTheNewestFileIsAtRisk
  <2>. QED
    BY <1>1, <2>1, <2>2, <2>3
<1>17. HandIsConsistent'
  BY <1>2, <1>3, <1>7, <1>8 DEF IndInv, HandIsConsistent, AppendInProgress
<1>18. ListIsSorted'
  <2>. SUFFICES ASSUME NEW i \in DOMAIN segments', NEW j \in DOMAIN segments', i < j
                PROVE  /\ segments'[i].start < segments'[j].start
                       /\ SegEnd(segments'[i]) <= segments'[j].start
    BY DEF ListIsSorted
  <2>1. i \in DOMAIN segments /\ segments'[i] = segments[i]
    BY <1>7
  <2>2. CASE j \in DOMAIN segments
    BY <1>7, <2>1, <2>2 DEF IndInv, ListIsSorted
  <2>3. CASE j = Len(segments) + 1
    <3>1. /\ segments[i].start \in DOMAIN files
          /\ segments[i].len <= Len(files[segments[i].start])
      BY <2>1 DEF IndInv, ListMatchesDirectory
    <3>2. segments[i].start \in Nat /\ segments[i].len \in Nat
      <4>1. i \in 1 .. Len(segments)
        BY <1>7, <2>1
      <4>2. segments[i] \in Segment
        BY <1>1, <4>1, ElementOfSeq
      <4>. QED
        BY <4>2 DEF Segment
    <3>3. segments[i].start < End /\ segments[i].start + segments[i].len <= End
      BY <1>1, <1>4, <3>1, <3>2
    <3>. QED
      BY <1>7, <2>1, <2>3, <3>3 DEF SegEnd
  <2>. QED
    BY <1>7, <2>2, <2>3
<1>19. NewestFileIsListed'
  BY <1>1, <1>4, <1>6, <1>7, <1>8 DEF NewestFileIsListed
<1>. QED
  BY <1>10, <1>11, <1>12, <1>13, <1>14, <1>15, <1>16, <1>17, <1>18, <1>19 DEF IndInv

\* Appending a part of the chunk to the open file: where every byte of it lands.
LEMMA ExtendLemma ==
    ASSUME IndInv, pc = "write", NEW part \in Seq(Nat),
           Len(part) <= Len(chunk), \A i \in DOMAIN part : part[i] = chunk[i],
           files' = [files EXCEPT ![Last(segments).start] = @ \o part]
    PROVE  /\ Last(segments).start \in DOMAIN files /\ DOMAIN files' = DOMAIN files
           /\ files' \in [DOMAIN files -> Seq(Nat)]
           /\ \A f \in DOMAIN files : f # Last(segments).start => files'[f] = files[f]
           /\ Len(files'[Last(segments).start]) = Len(files[Last(segments).start]) + Len(part)
           /\ Last(segments).start + Len(files[Last(segments).start]) = End
           /\ Last(segments).len = Len(files[Last(segments).start])
           /\ \A f \in DOMAIN files : f # Last(segments).start => f < Last(segments).start
           /\ FilesAreDisjoint'
           /\ (UNCHANGED origin => FilesAreFaithful')
<1>. DEFINE last == Last(segments).start
<1>1. /\ segments \in Seq(Segment) /\ chunk \in Seq(Nat) /\ files \in [DOMAIN files -> Seq(Nat)]
      /\ DOMAIN files \subseteq Nat /\ at \in Nat
      /\ \A f \in DOMAIN files : files[f] \in Seq(Nat) /\ Len(files[f]) \in Nat
      /\ \A f \in DOMAIN files : DOMAIN files[f] = 1 .. Len(files[f])
  BY LenProperties DEF IndInv, TypeOK
<1>2. segments # <<>> /\ lost = 0 /\ at = End
  BY DEF IndInv, HandIsConsistent
<1>3. /\ last \in Nat /\ Last(segments).len \in Nat
      /\ Len(segments) \in DOMAIN segments /\ Last(segments) = segments[Len(segments)]
      /\ Len(segments) \in Nat
  BY <1>1, <1>2, LastSegment
<1>4. last \in DOMAIN files /\ Last(segments).len <= Len(files[last])
  BY <1>3 DEF IndInv, ListMatchesDirectory
<1>5. Last(segments).len = Len(files[last])
  <2>1. Last(segments).len < Len(files[last]) => FALSE
    BY <1>2, <1>3 DEF IndInv, ListMatchesDirectory
  <2>. QED
    BY <1>1, <1>3, <1>4, <2>1
<1>6. last + Len(files[last]) = End
  BY <1>1, <1>2, <1>3, <1>4, <1>5 DEF End, SegEnd
<1>7. \A f \in DOMAIN files : f # last => f < last
  BY <1>1, <1>3 DEF IndInv, NewestFileIsListed
<1>8. /\ DOMAIN files' = DOMAIN files
      /\ \A f \in DOMAIN files : f # last => files'[f] = files[f]
      /\ files'[last] = files[last] \o part
  BY <1>4
<1>9. /\ files'[last] \in Seq(Nat) /\ Len(part) \in Nat
      /\ Len(files'[last]) = Len(files[last]) + Len(part)
      /\ DOMAIN files'[last] = 1 .. Len(files[last]) + Len(part)
      /\ DOMAIN part = 1 .. Len(part)
      /\ \A i \in 1 .. Len(files[last]) + Len(part) :
            files'[last][i] = IF i <= Len(files[last]) THEN files[last][i]
                              ELSE part[i - Len(files[last])]
  <2>1. files[last] \in Seq(Nat) /\ Len(part) \in Nat /\ DOMAIN part = 1 .. Len(part)
    BY <1>1, <1>4, LenProperties
  <2>. QED
    BY <1>8, <2>1, ConcatProperties, LenProperties
<1>10. files' \in [DOMAIN files -> Seq(Nat)]
  <2>1. \A f \in DOMAIN files : files'[f] \in Seq(Nat)
    BY <1>1, <1>8, <1>9
  <2>. QED
    BY <1>8, <2>1
<1>. HIDE DEF last
<1>11. FilesAreDisjoint'
  <2>. SUFFICES ASSUME NEW f \in DOMAIN files, NEW g \in DOMAIN files, f < g
                PROVE  f + Len(files'[f]) <= g
    BY <1>8 DEF FilesAreDisjoint
  <2>0. f \in Nat /\ g \in Nat
    BY <1>1
  <2>1. f # last
    BY <1>3, <1>7, <2>0
  <2>. QED
    BY <1>8, <2>1 DEF IndInv, FilesAreDisjoint
<1>12. ASSUME UNCHANGED origin PROVE FilesAreFaithful'
  <2>. SUFFICES ASSUME NEW f \in DOMAIN files, NEW i \in DOMAIN files'[f]
                PROVE  f + i - 1 \in DOMAIN origin /\ origin[f + i - 1] = files'[f][i]
    BY <1>8, <1>12 DEF FilesAreFaithful
  <2>1. CASE f # last
    <3>1. i \in DOMAIN files[f] /\ files'[f][i] = files[f][i]
      BY <1>8, <2>1
    <3>. QED
      BY <3>1 DEF IndInv, FilesAreFaithful
  <2>2. CASE f = last /\ i <= Len(files[last])
    <3>1. i \in DOMAIN files[last] /\ files'[f][i] = files[last][i]
      <4>1. i \in 1 .. Len(files[last]) + Len(part)
        BY <1>9, <2>2
      <4>2. DOMAIN files[last] = 1 .. Len(files[last]) /\ Len(files[last]) \in Nat
        BY <1>1, <1>4
      <4>3. i \in 1 .. Len(files[last])
        BY <1>9, <2>2, <4>1, <4>2
      <4>. QED
        BY <1>9, <2>2, <4>1, <4>2, <4>3
    <3>. QED
      BY <1>4, <2>2, <3>1 DEF IndInv, FilesAreFaithful
  <2>3. CASE f = last /\ ~(i <= Len(files[last]))
    <3>. DEFINE k == i - Len(files[last])
    <3>1. k \in DOMAIN part /\ files'[f][i] = part[k] /\ i \in Nat
      <4>1. i \in 1 .. Len(files[last]) + Len(part)
        BY <1>9, <2>3
      <4>2. Len(files[last]) \in Nat /\ Len(part) \in Nat
        BY <1>1, <1>4, <1>9
      <4>3. i \in Nat /\ k \in 1 .. Len(part)
        BY <2>3, <4>1, <4>2
      <4>4. files'[last][i] = part[k]
        BY <1>9, <2>3, <4>1
      <4>. QED
        BY <1>9, <2>3, <4>3, <4>4
    <3>2. k \in DOMAIN chunk /\ part[k] = chunk[k] /\ k \in Nat
      <4>1. DOMAIN chunk = 1 .. Len(chunk) /\ Len(chunk) \in Nat
        BY <1>1, LenProperties
      <4>2. k \in 1 .. Len(part) /\ Len(part) \in Nat /\ part[k] = chunk[k]
        BY <1>9, <3>1
      <4>. QED
        BY <4>1, <4>2
    <3>3. at + k - 1 \in DOMAIN origin /\ origin[at + k - 1] = chunk[k]
      BY <3>2 DEF IndInv, HandIsConsistent, AppendInProgress
    <3>4. at + k - 1 = f + i - 1
      <4>1. f = last /\ at = last + Len(files[last]) /\ Len(files[last]) \in Nat
        BY <1>1, <1>2, <1>4, <1>6, <2>3
      <4>. QED
        BY <1>3, <3>1, <4>1
    <3>. QED
      BY <3>1, <3>2, <3>3, <3>4
  <2>. QED
    BY <2>1, <2>2, <2>3
<1>. QED
  BY <1>4, <1>5, <1>6, <1>7, <1>8, <1>9, <1>10, <1>11, <1>12 DEF last

\* A whole write extends the newest file and its segment by the chunk.
LEMMA WriteInd == ASSUME IndInv, Write PROVE IndInv'
<1>. DEFINE last == Last(segments).start
            n == Len(segments)
<1>1. /\ segments \in Seq(Segment) /\ chunk \in Seq(Nat) /\ Len(chunk) \in Nat
      /\ lost \in Nat /\ unsynced \in Nat /\ at \in Nat
      /\ DOMAIN files \subseteq Nat
      /\ \A f \in DOMAIN files : Len(files[f]) \in Nat
  BY LenProperties DEF IndInv, TypeOK
<1>2. /\ pc = "write" /\ pc' = "evict"
      /\ files' = [files EXCEPT ![last] = @ \o chunk]
      /\ segments' = [segments EXCEPT ![n].len = @ + Len(chunk)]
      /\ unsynced' = unsynced + Len(chunk)
      /\ UNCHANGED <<lost, durable, chunk, at, origin, announced, fed, faults, crashes>>
  BY DEF Write, hand, bounds
<1>3. segments # <<>> /\ lost = 0 /\ at = End
  BY <1>2 DEF IndInv, HandIsConsistent
<1>4. /\ last \in DOMAIN files /\ DOMAIN files' = DOMAIN files
      /\ files' \in [DOMAIN files -> Seq(Nat)]
      /\ \A f \in DOMAIN files : f # last => files'[f] = files[f]
      /\ Len(files'[last]) = Len(files[last]) + Len(chunk)
      /\ last + Len(files[last]) = End
      /\ Last(segments).len = Len(files[last])
      /\ \A f \in DOMAIN files : f # last => f < last
      /\ FilesAreDisjoint' /\ FilesAreFaithful'
  <2>. HIDE DEF last
  <2>1. files' = [files EXCEPT ![Last(segments).start] = @ \o chunk] /\ UNCHANGED origin
    BY <1>2 DEF last
  <2>2. Len(chunk) <= Len(chunk) /\ \A i \in DOMAIN chunk : chunk[i] = chunk[i]
    BY <1>1
  <2>. QED
    BY <1>1, <1>2, <2>1, <2>2, ExtendLemma DEF last
<1>5. /\ n \in Nat \ {0} /\ n \in DOMAIN segments /\ DOMAIN segments = 1 .. n
      /\ Last(segments) = segments[n]
      /\ segments[n] \in Segment /\ last \in Nat /\ segments[n].len \in Nat
      /\ \A i \in DOMAIN segments : segments[i] \in Segment
  BY <1>1, <1>3, LastSegment, ElementOfSeq, LenProperties
<1>6. /\ DOMAIN segments' = DOMAIN segments
      /\ \A i \in DOMAIN segments : i # n => segments'[i] = segments[i]
      /\ segments'[n] = [segments[n] EXCEPT !.len = @ + Len(chunk)]
      /\ segments'[n].start = last
      /\ segments'[n].len = segments[n].len + Len(chunk)
      /\ segments'[n] \in Segment
  <2>. HIDE DEF last, n
  <2>1. /\ DOMAIN segments' = DOMAIN segments
        /\ \A i \in DOMAIN segments : i # n => segments'[i] = segments[i]
        /\ segments'[n] = [segments[n] EXCEPT !.len = @ + Len(chunk)]
    BY <1>2, <1>5
  <2>2. segments[n].start = last
    BY <1>5 DEF last
  <2>3. segments[n].len + Len(chunk) \in Nat
    BY <1>1, <1>5
  <2>. QED
    BY <1>5, <2>1, <2>2, <2>3 DEF Segment
<1>7. /\ segments' \in Seq(Segment) /\ Len(segments') = n /\ segments' # <<>>
      /\ Last(segments') = segments'[n]
  <2>1. \A i \in 1 .. n : segments'[i] \in Segment
    BY <1>5, <1>6
  <2>2. segments' = [i \in 1 .. n |-> segments'[i]]
    BY <1>2, <1>5
  <2>3. segments' \in Seq(Segment) /\ Len(segments') = n
    BY <1>5, <2>1, <2>2
  <2>. QED
    BY <1>5, <2>3, LenProperties DEF Last
<1>. HIDE DEF n, last
<1>8. /\ \A i \in DOMAIN segments : segments'[i].start = segments[i].start
      /\ \A i \in DOMAIN segments : i # n => SegEnd(segments'[i]) = SegEnd(segments[i])
  BY <1>5, <1>6 DEF SegEnd, last
<1>9. End' = End + Len(chunk) /\ End \in Nat
  <2>1. End = last + segments[n].len + lost
    BY <1>3, <1>5 DEF End, SegEnd, last
  <2>2. End' = last + segments[n].len + Len(chunk) + lost
    <3>1. SegEnd(segments'[n]) = last + (segments[n].len + Len(chunk))
      BY <1>6 DEF SegEnd
    <3>2. End' = SegEnd(segments'[n]) + lost
      BY <1>2, <1>7 DEF End
    <3>. QED
      BY <1>1, <1>5, <3>1, <3>2
  <2>. QED
    BY <1>1, <1>5, <2>1, <2>2
<1>10. TypeOK'
  <2>1. files' \in [DOMAIN files' -> Seq(Nat)] /\ unsynced' \in Nat
    BY <1>1, <1>2, <1>4
  <2>. QED
    BY <1>2, <1>4, <1>7, <2>1 DEF IndInv, TypeOK
<1>11. \A f \in DOMAIN durable' : durable'[f] <= Len(files'[f])
  <2>. SUFFICES ASSUME NEW f \in DOMAIN durable PROVE durable[f] <= Len(files'[f])
    BY <1>2
  <2>1. f \in DOMAIN files /\ durable[f] \in Nat /\ durable[f] <= Len(files[f])
    BY DEF IndInv, TypeOK
  <2>2. Len(files[f]) \in Nat /\ (f = last \/ files'[f] = files[f])
    BY <1>1, <1>4, <2>1
  <2>. QED
    BY <1>1, <1>4, <2>1, <2>2
<1>12. ListMatchesDirectory'
  <2>. SUFFICES ASSUME NEW i \in DOMAIN segments
                PROVE  /\ segments[i].start \in DOMAIN files
                       /\ segments'[i].len <= Len(files'[segments[i].start])
                       /\ segments'[i].len < Len(files'[segments[i].start])
                             => i < n \/ lost > 0
    BY <1>2, <1>4, <1>6, <1>7, <1>8, ZenonT(30) DEF ListMatchesDirectory
  <2>1. CASE i = n
    <3>1. segments[n].start = last /\ segments[n].len = Len(files[last])
      BY <1>4, <1>5 DEF last
    <3>2. segments'[n].len = Len(files'[last]) /\ Len(files'[last]) \in Nat
      BY <1>1, <1>4, <1>6, <3>1
    <3>. QED
      BY <1>4, <2>1, <3>1, <3>2
  <2>2. CASE i # n
    <3>1. segments[i].start < last
      BY <1>5, <2>2 DEF IndInv, ListIsSorted, last
    <3>2. segments'[i] = segments[i] /\ segments[i].start \in DOMAIN files /\ i < n
      BY <1>5, <1>6, <2>2 DEF IndInv, ListMatchesDirectory
    <3>3. files'[segments[i].start] = files[segments[i].start]
      BY <1>4, <1>5, <3>1, <3>2
    <3>. QED
      BY <3>2, <3>3 DEF IndInv, ListMatchesDirectory
  <2>. QED
    BY <2>1, <2>2
<1>13. OnlyTheNewestFileIsAtRisk'
  <2>. SUFFICES ASSUME NEW f \in DOMAIN files, NEW g \in DOMAIN files, f < g
                PROVE  DurableLength(f) = Len(files'[f])
    BY <1>2, <1>4 DEF OnlyTheNewestFileIsAtRisk, DurableLength
  <2>1. f \in Nat /\ g \in Nat
    BY <1>1
  <2>2. f # last
    <3>1. \A h \in DOMAIN files : h # last => h < last
      BY <1>4
    <3>. QED
      BY <1>5, <2>1, <3>1
  <2>. QED
    BY <1>4, <2>2 DEF IndInv, OnlyTheNewestFileIsAtRisk
<1>14. HandIsConsistent'
  BY <1>1, <1>2, <1>3, <1>7, <1>9 DEF IndInv, HandIsConsistent, AppendInProgress
<1>15. ListIsSorted'
  <2>. SUFFICES ASSUME NEW i \in DOMAIN segments, NEW j \in DOMAIN segments, i < j
                PROVE  /\ segments'[i].start < segments'[j].start
                       /\ SegEnd(segments'[i]) <= segments'[j].start
    BY <1>6 DEF ListIsSorted
  <2>1. i # n
    BY <1>5
  <2>. QED
    BY <1>8, <2>1 DEF IndInv, ListIsSorted
<1>16. NewestFileIsListed'
  <2>. SUFFICES ASSUME NEW f \in DOMAIN files
                PROVE  f <= last /\ f + Len(files'[f]) <= End'
    BY <1>4, <1>6, <1>7 DEF NewestFileIsListed
  <2>1. f \in Nat /\ Len(files[f]) \in Nat /\ f + Len(files[f]) <= End
    BY <1>1, <1>2 DEF IndInv, NewestFileIsListed
  <2>2. CASE f = last
    BY <1>1, <1>4, <1>9, <2>1, <2>2
  <2>3. CASE f # last
    BY <1>1, <1>4, <1>5, <1>9, <2>1, <2>3
  <2>. QED
    BY <2>2, <2>3
<1>. QED
  BY <1>4, <1>10, <1>11, <1>12, <1>13, <1>14, <1>15, <1>16 DEF IndInv

\* A partial write leaves a file that is longer than its segment, behind the next rotation.
LEMMA WriteFailsInd == ASSUME IndInv, WriteFails PROVE IndInv'
<1>. DEFINE last == Last(segments).start
<1>1. /\ segments \in Seq(Segment) /\ chunk \in Seq(Nat) /\ Len(chunk) \in Nat
      /\ lost \in Nat /\ unsynced \in Nat /\ at \in Nat /\ End \in Nat
      /\ DOMAIN files \subseteq Nat
      /\ \A f \in DOMAIN files : Len(files[f]) \in Nat
  BY EndType, LenProperties DEF IndInv, TypeOK
<1>2. Lose /\ pc = "write" /\ UNCHANGED <<segments, unsynced, durable>>
  BY DEF WriteFails
<1>3. PICK k \in 0 .. Len(chunk) - 1 :
         files' = [files EXCEPT ![last] = @ \o SubSeq(chunk, 1, k)]
  BY DEF WriteFails
<1>. DEFINE part == SubSeq(chunk, 1, k)
<1>4. /\ lost' = lost + Len(chunk)
      /\ DOMAIN announced' \subseteq Nat /\ announced' \in [DOMAIN announced' -> Nat]
      /\ chunk' = <<>> /\ pc' = "idle" /\ faults' \in Nat
      /\ UNCHANGED <<at, origin, fed, crashes>>
  BY <1>2, LoseLemma
<1>5. /\ part \in Seq(Nat) /\ Len(part) = k
      /\ \A i \in DOMAIN part : part[i] = chunk[i]
  <2>1. k \in Nat /\ k <= Len(chunk)
    BY <1>1
  <2>2. \A i \in 1 .. k : chunk[i] \in Nat
    BY <1>1, <2>1, ElementOfSeq
  <2>. QED
    BY <1>1, <2>1, <2>2, SubSeqProperties
<1>. HIDE DEF part
<1>6. /\ last \in DOMAIN files /\ DOMAIN files' = DOMAIN files
      /\ files' \in [DOMAIN files -> Seq(Nat)]
      /\ \A f \in DOMAIN files : f # last => files'[f] = files[f]
      /\ Len(files'[last]) = Len(files[last]) + k
      /\ last + Len(files[last]) = End
      /\ Last(segments).len = Len(files[last])
      /\ \A f \in DOMAIN files : f # last => f < last
      /\ FilesAreDisjoint' /\ FilesAreFaithful'
  <2>1. files' = [files EXCEPT ![Last(segments).start] = @ \o part]
    BY <1>3 DEF part
  <2>2. Len(part) <= Len(chunk)
    BY <1>1, <1>5
  <2>. QED
    BY <1>2, <1>4, <1>5, <2>1, <2>2, ExtendLemma
<1>7. segments # <<>> /\ lost = 0
  BY <1>2 DEF IndInv, HandIsConsistent
<1>8. /\ Len(segments) \in DOMAIN segments /\ Last(segments) = segments[Len(segments)]
      /\ DOMAIN segments = 1 .. Len(segments) /\ Len(segments) \in Nat
      /\ last \in Nat /\ \A i \in DOMAIN segments : segments[i] \in Segment
  BY <1>1, <1>7, LastSegment, ElementOfSeq, LenProperties
<1>. HIDE DEF last
<1>9. End' = End + Len(chunk)
  <2>1. End = SegEnd(Last(segments)) + lost /\ End' = SegEnd(Last(segments)) + lost'
    BY <1>2, <1>7 DEF End
  <2>2. SegEnd(Last(segments)) \in Nat
    BY <1>8 DEF SegEnd, Segment
  <2>. QED
    BY <1>1, <1>4, <2>1, <2>2
<1>10. TypeOK'
  <2>1. files' \in [DOMAIN files' -> Seq(Nat)] /\ lost' \in Nat /\ chunk' \in Seq(Nat)
    BY <1>1, <1>4, <1>6, SMTT(30)
  <2>. QED
    BY <1>2, <1>4, <1>6, <2>1 DEF IndInv, TypeOK
<1>11. \A f \in DOMAIN files : Len(files[f]) <= Len(files'[f])
                               /\ Len(files'[f]) <= Len(files[f]) + k
                               /\ Len(files'[f]) \in Nat
  <2>. SUFFICES ASSUME NEW f \in DOMAIN files
                PROVE  /\ Len(files[f]) <= Len(files'[f])
                       /\ Len(files'[f]) <= Len(files[f]) + k /\ Len(files'[f]) \in Nat
    OBVIOUS
  <2>1. CASE f = last
    BY <1>1, <1>6, <2>1
  <2>2. CASE f # last
    BY <1>1, <1>6, <2>2
  <2>. QED
    BY <2>1, <2>2
<1>12. \A f \in DOMAIN durable' : durable'[f] <= Len(files'[f])
  <2>. SUFFICES ASSUME NEW f \in DOMAIN durable PROVE durable[f] <= Len(files'[f])
    BY <1>2
  <2>1. f \in DOMAIN files /\ durable[f] \in Nat /\ durable[f] <= Len(files[f])
    BY DEF IndInv, TypeOK
  <2>. QED
    BY <1>1, <1>11, <2>1
<1>13. ListMatchesDirectory'
  <2>. SUFFICES ASSUME NEW i \in DOMAIN segments
                PROVE  /\ segments[i].start \in DOMAIN files
                       /\ segments[i].len <= Len(files'[segments[i].start])
                       /\ segments[i].len < Len(files'[segments[i].start])
                             => i < Len(segments) \/ lost' > 0
    BY <1>2, <1>6 DEF ListMatchesDirectory
  <2>1. lost' > 0
    BY <1>1, <1>4
  <2>2. segments[i].start \in DOMAIN files /\ segments[i].len <= Len(files[segments[i].start])
    BY DEF IndInv, ListMatchesDirectory
  <2>3. segments[i].len \in Nat
    BY <1>8 DEF Segment
  <2>. QED
    BY <1>1, <1>11, <2>1, <2>2, <2>3
<1>14. OnlyTheNewestFileIsAtRisk'
  <2>. SUFFICES ASSUME NEW f \in DOMAIN files, NEW g \in DOMAIN files, f < g
                PROVE  DurableLength(f) = Len(files'[f])
    BY <1>2, <1>6 DEF OnlyTheNewestFileIsAtRisk, DurableLength
  <2>1. f \in Nat /\ g \in Nat
    BY <1>1
  <2>2. f # last
    <3>1. \A h \in DOMAIN files : h # last => h < last
      BY <1>6
    <3>. QED
      BY <1>8, <2>1, <3>1
  <2>. QED
    BY <1>6, <2>2 DEF IndInv, OnlyTheNewestFileIsAtRisk
<1>15. HandIsConsistent'
  BY <1>4 DEF HandIsConsistent, AppendInProgress
<1>16. NewestFileIsListed'
  <2>. SUFFICES ASSUME NEW f \in DOMAIN files
                PROVE  f <= Last(segments).start /\ f + Len(files'[f]) <= End'
    BY <1>2, <1>6, <1>7 DEF NewestFileIsListed
  <2>1. /\ f \in Nat /\ Len(files[f]) \in Nat /\ f + Len(files[f]) <= End
        /\ f <= Last(segments).start
    BY <1>1, <1>2 DEF IndInv, NewestFileIsListed
  <2>. QED
    BY <1>1, <1>9, <1>11, <2>1
<1>. QED
  BY <1>2, <1>6, <1>10, <1>12, <1>13, <1>14, <1>15, <1>16 DEF IndInv, ListIsSorted

\* What the tail of a sequence keeps of the sequence.
LEMMA TailLemma ==
    ASSUME NEW s \in Seq(Segment), Len(s) > 1
    PROVE  /\ Tail(s) \in Seq(Segment) /\ Tail(s) # <<>>
           /\ Len(Tail(s)) = Len(s) - 1
           /\ DOMAIN Tail(s) = 1 .. Len(s) - 1 /\ DOMAIN s = 1 .. Len(s)
           /\ \A i \in DOMAIN Tail(s) : i + 1 \in DOMAIN s /\ Tail(s)[i] = s[i + 1]
           /\ Last(Tail(s)) = Last(s)
           /\ Head(s) = s[1]
<1>1. Len(s) \in Nat /\ s # <<>> /\ DOMAIN s = 1 .. Len(s)
  BY LenProperties, EmptySeq
<1>2. /\ Head(s) = s[1] /\ Tail(s) \in Seq(Segment) /\ Len(Tail(s)) = Len(s) - 1
      /\ \A i \in 1 .. Len(Tail(s)) : Tail(s)[i] = s[i + 1]
  BY <1>1, HeadTailProperties
<1>3. DOMAIN Tail(s) = 1 .. Len(s) - 1 /\ Tail(s) # <<>>
  <2>1. DOMAIN Tail(s) = 1 .. Len(Tail(s))
    BY <1>2, LenProperties
  <2>2. Len(Tail(s)) # 0
    BY <1>1, <1>2
  <2>. QED
    BY <1>2, <2>1, <2>2, EmptySeq
<1>4. Last(Tail(s)) = Last(s)
  BY <1>1, <1>2, <1>3 DEF Last
<1>. QED
  BY <1>1, <1>2, <1>3, <1>4

\* The list without its oldest segment still fits the directory, whether or not
\* the oldest file is gone from it.
LEMMA PopLemma ==
    ASSUME IndInv, pc # "down", Len(segments) > 1, segments' = Tail(segments),
           lost' = lost \/ (lost' \in Nat /\ lost' >= lost),
           \/ UNCHANGED files
           \/ files' = [f \in DOMAIN files \ {Start} |-> files[f]],
           pc' # "down"
    PROVE  /\ segments' \in Seq(Segment) /\ segments' # <<>>
           /\ Last(segments') = Last(segments)
           /\ End' = End - lost + lost' /\ End \in Nat /\ lost \in Nat
           /\ ListIsSorted' /\ ListMatchesDirectory' /\ NewestFileIsListed'
           /\ Start \in DOMAIN files
<1>1. /\ segments \in Seq(Segment) /\ lost \in Nat /\ End \in Nat
      /\ Len(segments) \in Nat
      /\ \A f \in DOMAIN files : Len(files[f]) \in Nat /\ f \in Nat
      /\ \A i \in DOMAIN segments : segments[i] \in Segment
  BY EndType, LenProperties, ElementOfSeq DEF IndInv, TypeOK
<1>2. /\ segments' \in Seq(Segment) /\ segments' # <<>>
      /\ Len(segments') = Len(segments) - 1
      /\ DOMAIN segments' = 1 .. Len(segments) - 1 /\ DOMAIN segments = 1 .. Len(segments)
      /\ \A i \in DOMAIN segments' : i + 1 \in DOMAIN segments /\ segments'[i] = segments[i + 1]
      /\ Last(segments') = Last(segments)
      /\ Head(segments) = segments[1]
  BY <1>1, TailLemma
<1>3. segments # <<>> /\ 1 \in DOMAIN segments /\ Start = segments[1].start
  BY <1>1, <1>2, EmptySeq DEF Start
<1>4. Start \in DOMAIN files
  BY <1>3 DEF IndInv, ListMatchesDirectory
<1>5. End' = End - lost + lost'
  <2>1. End = SegEnd(Last(segments)) + lost /\ End' = SegEnd(Last(segments)) + lost'
    BY <1>2, <1>3 DEF End
  <2>2. SegEnd(Last(segments)) \in Nat
    BY <1>1, <1>3, LastSegment DEF SegEnd
  <2>. QED
    BY <1>1, <2>1, <2>2
<1>6. ListIsSorted'
  <2>. SUFFICES ASSUME NEW i \in DOMAIN segments', NEW j \in DOMAIN segments', i < j
                PROVE  /\ segments'[i].start < segments'[j].start
                       /\ SegEnd(segments'[i]) <= segments'[j].start
    BY DEF ListIsSorted
  <2>1. /\ i + 1 \in DOMAIN segments /\ j + 1 \in DOMAIN segments /\ i + 1 < j + 1
        /\ segments'[i] = segments[i + 1] /\ segments'[j] = segments[j + 1]
    BY <1>1, <1>2
  <2>. QED
    BY <2>1 DEF IndInv, ListIsSorted
<1>7. \A i \in DOMAIN segments' : /\ segments'[i].start \in DOMAIN files'
                                  /\ files'[segments'[i].start] = files[segments'[i].start]
  <2>. SUFFICES ASSUME NEW i \in DOMAIN segments'
                PROVE  /\ segments'[i].start \in DOMAIN files'
                       /\ files'[segments'[i].start] = files[segments'[i].start]
    OBVIOUS
  <2>1. i + 1 \in DOMAIN segments /\ 1 < i + 1 /\ segments'[i] = segments[i + 1]
    BY <1>1, <1>2
  <2>2. segments[i + 1].start \in DOMAIN files /\ Start < segments[i + 1].start
    BY <1>3, <2>1 DEF IndInv, ListMatchesDirectory, ListIsSorted
  <2>3. segments[i + 1].start # Start
    BY <1>1, <1>4, <2>2
  <2>. QED
    BY <2>1, <2>2, <2>3
<1>8. ListMatchesDirectory'
  <2>. SUFFICES ASSUME NEW i \in DOMAIN segments'
                PROVE  /\ segments'[i].len <= Len(files'[segments'[i].start])
                       /\ segments'[i].len < Len(files'[segments'[i].start])
                             => i < Len(segments') \/ lost' > 0
    BY <1>7 DEF ListMatchesDirectory
  <2>1. i + 1 \in DOMAIN segments /\ segments'[i] = segments[i + 1] /\ i \in Nat
    BY <1>1, <1>2
  <2>2. /\ segments[i + 1].len <= Len(files[segments[i + 1].start])
        /\ segments[i + 1].len < Len(files[segments[i + 1].start])
              => i + 1 < Len(segments) \/ lost > 0
    BY <2>1 DEF IndInv, ListMatchesDirectory
  <2>3. lost > 0 => lost' > 0
    BY <1>1
  <2>. QED
    BY <1>1, <1>2, <1>7, <2>1, <2>2, <2>3
<1>9. NewestFileIsListed'
  <2>. SUFFICES ASSUME NEW f \in DOMAIN files'
                PROVE  f <= Last(segments').start /\ f + Len(files'[f]) <= End'
    BY <1>2 DEF NewestFileIsListed
  <2>1. f \in DOMAIN files /\ files'[f] = files[f]
    OBVIOUS
  <2>2. f <= Last(segments).start /\ f + Len(files[f]) <= End
    BY <2>1 DEF IndInv, NewestFileIsListed
  <2>. QED
    BY <1>1, <1>2, <1>5, <2>1, <2>2
<1>. QED
  BY <1>1, <1>2, <1>4, <1>5, <1>6, <1>8, <1>9

\* An eviction whose unlink fails forgets a segment and keeps its file.
LEMMA EvictFailsInd == ASSUME IndInv, EvictFails PROVE IndInv'
<1>1. /\ Lose /\ segments' = Tail(segments) /\ UNCHANGED <<unsynced, files, durable>>
      /\ pc = "evict" /\ Len(segments) > 1
  BY DEF EvictFails, MustEvict, disk
<1>2. /\ lost \in Nat /\ lost' = lost + Len(chunk) /\ Len(chunk) \in Nat
      /\ DOMAIN announced' \subseteq Nat /\ announced' \in [DOMAIN announced' -> Nat]
      /\ chunk' = <<>> /\ pc' = "idle" /\ faults' \in Nat
      /\ UNCHANGED <<at, origin, fed, crashes>>
  BY <1>1, LoseLemma
<1>3. lost' \in Nat /\ lost' >= lost
  BY <1>2
<1>4. /\ segments' \in Seq(Segment)
      /\ ListIsSorted' /\ ListMatchesDirectory' /\ NewestFileIsListed'
  BY <1>1, <1>2, <1>3, PopLemma
<1>5. TypeOK'
  BY <1>1, <1>2, <1>3, <1>4 DEF IndInv, TypeOK
<1>6. HandIsConsistent'
  BY <1>2 DEF HandIsConsistent, AppendInProgress
<1>. QED
  BY <1>1, <1>2, <1>4, <1>5, <1>6 DEF IndInv, FilesAreDisjoint, FilesAreFaithful,
     OnlyTheNewestFileIsAtRisk, DurableLength

\* An eviction removes the oldest file with its segment.
LEMMA EvictInd == ASSUME IndInv, Evict PROVE IndInv'
<1>1. /\ segments' = Tail(segments)
      /\ files' = [f \in DOMAIN files \ {Start} |-> files[f]]
      /\ durable' = [f \in DOMAIN durable \ {Start} |-> durable[f]]
      /\ UNCHANGED <<lost, unsynced, pc, chunk, at, origin, announced, fed, faults, crashes>>
      /\ pc = "evict" /\ Len(segments) > 1
  BY DEF Evict, MustEvict, hand, bounds
<1>2. /\ segments' \in Seq(Segment) /\ segments' # <<>> /\ lost \in Nat
      /\ End' = End - lost + lost' /\ End \in Nat
      /\ ListIsSorted' /\ ListMatchesDirectory' /\ NewestFileIsListed'
  BY <1>1, PopLemma
<1>3. End' = End
  BY <1>1, <1>2
<1>4. TypeOK'
  BY <1>1, <1>2 DEF IndInv, TypeOK
<1>5. IsFiniteSet(DOMAIN files)'
  BY <1>1, FS_RemoveElement DEF IndInv
<1>6. HandIsConsistent'
  BY <1>1, <1>2, <1>3 DEF IndInv, HandIsConsistent, AppendInProgress
<1>. QED
  BY <1>1, <1>2, <1>4, <1>5, <1>6 DEF IndInv, TypeOK, FilesAreDisjoint, FilesAreFaithful,
     OnlyTheNewestFileIsAtRisk, DurableLength

\* The death of the holder leaves the files and forgets the list.
LEMMA HolderDiesInd == ASSUME IndInv, HolderDies PROVE IndInv'
<1>1. /\ pc' = "down" /\ segments' = <<>> /\ lost' = 0 /\ unsynced' = 0
      /\ chunk' = <<>> /\ at' = 0 /\ crashes' = crashes + 1
      /\ UNCHANGED <<files, durable, origin, announced, fed, faults>>
  BY DEF HolderDies, Die, disk
<1>2. TypeOK'
  BY <1>1 DEF IndInv, TypeOK
<1>. QED
  BY <1>1, <1>2 DEF IndInv, FilesAreDisjoint, FilesAreFaithful, ListMatchesDirectory,
     OnlyTheNewestFileIsAtRisk, DurableLength, HandIsConsistent, AppendInProgress,
     ListIsSorted, NewestFileIsListed

\* The death of the machine shortens the newest file to what is durable or more.
LEMMA MachineDiesInd == ASSUME IndInv, MachineDies PROVE IndInv'
<1>1. /\ pc' = "down" /\ segments' = <<>> /\ lost' = 0 /\ unsynced' = 0
      /\ chunk' = <<>> /\ at' = 0 /\ crashes' = crashes + 1 /\ announced' = <<>>
      /\ UNCHANGED <<origin, fed, faults>>
  BY DEF MachineDies, Die
<1>2. PICK kept \in [DOMAIN files -> 0 .. MaxFed] :
         /\ \A f \in DOMAIN files : kept[f] \in DurableLength(f) .. Len(files[f])
         /\ files' = [f \in DOMAIN files |-> SubSeq(files[f], 1, kept[f])]
         /\ durable' = kept
  BY DEF MachineDies
<1>3. /\ DOMAIN files \subseteq Nat
      /\ \A f \in DOMAIN files : files[f] \in Seq(Nat) /\ Len(files[f]) \in Nat
      /\ \A f \in DOMAIN files : DOMAIN files[f] = 1 .. Len(files[f])
      /\ \A f \in DOMAIN files : DurableLength(f) \in Nat
  BY LenProperties DEF IndInv, TypeOK, DurableLength
<1>4. \A f \in DOMAIN files : kept[f] \in Nat /\ kept[f] <= Len(files[f])
  BY <1>2, <1>3
<1>5. ASSUME NEW f \in DOMAIN files
      PROVE  /\ files'[f] \in Seq(Nat) /\ Len(files'[f]) = kept[f]
             /\ DOMAIN files'[f] = 1 .. kept[f]
             /\ \A i \in 1 .. kept[f] : i \in DOMAIN files[f] /\ files'[f][i] = files[f][i]
  <2>1. files'[f] = SubSeq(files[f], 1, kept[f])
    BY <1>2
  <2>2. \A i \in 1 .. kept[f] : i \in 1 .. Len(files[f]) /\ files[f][i] \in Nat
    BY <1>3, <1>4, ElementOfSeq
  <2>3. SubSeq(files[f], 1, kept[f]) \in Seq(Nat) /\ Len(SubSeq(files[f], 1, kept[f])) = kept[f]
        /\ \A i \in 1 .. kept[f] : SubSeq(files[f], 1, kept[f])[i] = files[f][i]
    BY <1>3, <1>4, <2>2, SubSeqProperties
  <2>. QED
    BY <1>3, <2>1, <2>2, <2>3, LenProperties
<1>6. DOMAIN files' = DOMAIN files /\ DOMAIN durable' = DOMAIN files
  BY <1>2
<1>7. TypeOK'
  <2>1. files' \in [DOMAIN files' -> Seq(Nat)]
    BY <1>2, <1>5, <1>6
  <2>2. durable' \in [DOMAIN durable' -> Nat]
    BY <1>2, <1>4, <1>6
  <2>. QED
    BY <1>1, <1>6, <2>1, <2>2 DEF IndInv, TypeOK
<1>8. \A f \in DOMAIN durable' : durable'[f] = Len(files'[f]) /\ durable'[f] <= Len(files'[f])
  BY <1>2, <1>4, <1>5, <1>6
<1>9. FilesAreDisjoint'
  <2>. SUFFICES ASSUME NEW f \in DOMAIN files, NEW g \in DOMAIN files, f < g
                PROVE  f + Len(files'[f]) <= g
    BY <1>6 DEF FilesAreDisjoint
  <2>1. f + Len(files[f]) <= g
    BY DEF IndInv, FilesAreDisjoint
  <2>. QED
    BY <1>3, <1>4, <1>5, <2>1
<1>10. FilesAreFaithful'
  BY <1>1, <1>5, <1>6 DEF IndInv, FilesAreFaithful
<1>11. OnlyTheNewestFileIsAtRisk'
  BY <1>6, <1>8 DEF OnlyTheNewestFileIsAtRisk, DurableLength
<1>. QED
  BY <1>1, <1>6, <1>7, <1>8, <1>9, <1>10, <1>11 DEF IndInv, ListMatchesDirectory,
     HandIsConsistent, AppendInProgress, ListIsSorted, NewestFileIsListed

\* A stuttering step preserves the invariant.
LEMMA StutterInd == ASSUME IndInv, UNCHANGED vars PROVE IndInv'
BY DEF vars, memory, disk, hand, bounds, IndInv, TypeOK, FilesAreDisjoint, FilesAreFaithful,
   ListMatchesDirectory, OnlyTheNewestFileIsAtRisk, DurableLength, HandIsConsistent,
   AppendInProgress, MustRotate, ListIsSorted, NewestFileIsListed, End

\* Every step of the journal preserves the invariant.
LEMMA NextInd == IndInv /\ [Next]_vars => IndInv'
<1>. SUFFICES ASSUME IndInv, [Next]_vars PROVE IndInv'
  OBVIOUS
<1>1. CASE Open                               BY <1>1, OpenInd
<1>2. CASE \E n \in 1 .. MaxChunk : Ingest(n) BY <1>2, IngestInd
<1>3. CASE Rotate                             BY <1>3, RotateInd
<1>4. CASE RotateFails                        BY <1>4, RotateFailsInd
<1>5. CASE Write                              BY <1>5, WriteInd
<1>6. CASE WriteFails                         BY <1>6, WriteFailsInd
<1>7. CASE Evict                              BY <1>7, EvictInd
<1>8. CASE EvictFails                         BY <1>8, EvictFailsInd
<1>9. CASE EvictDone                          BY <1>9, EvictDoneInd
<1>10. CASE FinishAppend                      BY <1>10, FinishAppendInd
<1>11. CASE SyncFails                         BY <1>11, SyncFailsInd
<1>12. CASE Sync                              BY <1>12, SyncInd
<1>13. CASE HolderDies                        BY <1>13, HolderDiesInd
<1>14. CASE MachineDies                       BY <1>14, MachineDiesInd
<1>15. CASE UNCHANGED vars                    BY <1>15, StutterInd
<1>. QED
  BY <1>1, <1>2, <1>3, <1>4, <1>5, <1>6, <1>7, <1>8, <1>9, <1>10, <1>11, <1>12, <1>13,
     <1>14, <1>15 DEF Next

\* The inductive invariant holds of every behaviour of the journal.
THEOREM Inductive == Spec => []IndInv
<1>1. Init => IndInv
  BY InitInd
<1>2. IndInv /\ [Next]_vars => IndInv'
  BY NextInd
<1>. QED
  BY <1>1, <1>2, PTL DEF Spec

\* Every reachable state is well typed.
THEOREM TypeCorrect == Spec => []TypeOK
<1>1. IndInv => TypeOK
  BY DEF IndInv
<1>. QED
  BY <1>1, Inductive, PTL

\* No offset is held by two segment files.
THEOREM Disjointness == Spec => []FilesAreDisjoint
<1>1. IndInv => FilesAreDisjoint
  BY DEF IndInv
<1>. QED
  BY <1>1, Inductive, PTL

\* A file never gives, for an offset, another byte than the one last read for it.
THEOREM Faithfulness == Spec => []FilesAreFaithful
<1>1. IndInv => FilesAreFaithful
  BY DEF IndInv
<1>. QED
  BY <1>1, Inductive, PTL

\* The list of segments never claims a byte that its file does not hold, and a
\* file that holds more than the list knows is never appended to.
THEOREM Agreement == Spec => []ListMatchesDirectory
<1>1. IndInv => ListMatchesDirectory
  BY DEF IndInv
<1>. QED
  BY <1>1, Inductive, PTL

\* A dead machine can only shorten the newest file.
THEOREM RiskIsConfined == Spec => []OnlyTheNewestFileIsAtRisk
<1>1. IndInv => OnlyTheNewestFileIsAtRisk
  BY DEF IndInv
<1>. QED
  BY <1>1, Inductive, PTL

\* The files are the log, whatever system call failed and whoever died: they and the
\* list hold each offset once, under the byte that was read for it, and only the
\* end of the log is at risk (journal.rs).
THEOREM LogIsKept == Spec => []FilesAreTheLog
<1>1. IndInv => FilesAreTheLog
  BY DEF IndInv, FilesAreTheLog
<1>. QED
  BY <1>1, Inductive, PTL

\* A step of a holder that lives never moves its end back.
LEMMA EndGrows == ASSUME IndInv, Next, pc # "down", pc' # "down" PROVE End' >= End
<1>. DEFINE base == IF segments = <<>> THEN 0 ELSE SegEnd(Last(segments))
<1>0. lost \in Nat /\ base \in Nat /\ Len(chunk) \in Nat /\ End = base + lost
      /\ End \in Nat
  BY EndBase DEF End
<1>1. ASSUME UNCHANGED segments, lost' \in Nat, lost' >= lost
      PROVE  End' >= End
  <2>1. PICK b \in Nat : base = b
    BY <1>0
  <2>2. End = b + lost /\ End' = b + lost'
    BY <1>1, <2>1 DEF End, SegEnd
  <2>. QED
    BY <1>0, <1>1, <2>2
<1>2. Lose => lost' \in Nat /\ lost' >= lost
  BY <1>0, LoseLemma
<1>3. CASE Open
  BY <1>3 DEF Open
<1>4. CASE \E n \in 1 .. MaxChunk : Ingest(n)
  <2>1. PICK n \in 1 .. MaxChunk : Ingest(n)
    BY <1>4
  <2>2. UNCHANGED <<segments, lost>>
    BY <2>1 DEF Ingest, memory
  <2>. QED
    BY <1>0, <1>1, <2>2
<1>5. CASE Rotate
  <2>1. segments' = Append(segments, [start |-> End, len |-> 0]) /\ lost' = 0
        /\ segments \in Seq(Segment) /\ [start |-> End, len |-> 0] \in Segment
    BY <1>0, <1>5 DEF Rotate, IndInv, TypeOK, Segment
  <2>2. /\ segments' \in Seq(Segment) /\ segments' # <<>>
        /\ Last(segments') = [start |-> End, len |-> 0]
    <3>1. /\ Len(segments') = Len(segments) + 1 /\ Len(segments) \in Nat
          /\ segments' \in Seq(Segment)
          /\ segments'[Len(segments) + 1] = [start |-> End, len |-> 0]
      BY <2>1, AppendProperties, LenProperties
    <3>. QED
      BY <3>1, EmptySeq DEF Last
  <2>3. End' = End + 0 + 0
    BY <2>1, <2>2 DEF End, SegEnd
  <2>. QED
    BY <1>0, <2>3
<1>6. CASE RotateFails
  BY <1>1, <1>2, <1>6 DEF RotateFails
<1>7. CASE Write
  <2>1. /\ segments \in Seq(Segment) /\ segments # <<>> /\ lost' = lost
        /\ segments' = [segments EXCEPT ![Len(segments)].len = @ + Len(chunk)]
    BY <1>7 DEF Write, IndInv, TypeOK, HandIsConsistent
  <2>2. /\ Len(segments) \in Nat \ {0} /\ DOMAIN segments = 1 .. Len(segments)
        /\ Last(segments) = segments[Len(segments)]
        /\ segments[Len(segments)] \in Segment
        /\ \A i \in DOMAIN segments : segments[i] \in Segment
    BY <2>1, LastSegment, LenProperties, ElementOfSeq
  <2>3. /\ Len(segments') = Len(segments) /\ segments' # <<>>
        /\ segments'[Len(segments)] =
              [segments[Len(segments)] EXCEPT !.len = @ + Len(chunk)]
    <3>1. DOMAIN segments' = 1 .. Len(segments)
      BY <2>1, <2>2
    <3>2. /\ segments'[Len(segments)] =
                [segments[Len(segments)] EXCEPT !.len = @ + Len(chunk)]
          /\ \A i \in 1 .. Len(segments) : segments'[i] \in Segment
      <4>. DEFINE n == Len(segments)
                  grown == [segments[n] EXCEPT !.len = @ + Len(chunk)]
      <4>1. grown \in Segment
        BY <1>0, <2>2 DEF Segment
      <4>2. segments' = [segments EXCEPT ![n] = grown] /\ n \in DOMAIN segments
        BY <2>1, <2>2
      <4>. HIDE DEF n, grown
      <4>3. segments'[n] = grown
        BY <4>2
      <4>4. \A i \in 1 .. n : segments'[i] \in Segment
        BY <2>2, <4>1, <4>2 DEF n
      <4>. QED
        BY <4>3, <4>4 DEF n, grown
    <3>3. segments' = [i \in 1 .. Len(segments) |-> segments'[i]]
      BY <2>1, <2>2
    <3>4. segments' \in Seq(Segment) /\ Len(segments') = Len(segments)
      BY <2>2, <3>2, <3>3
    <3>. QED
      BY <2>2, <3>2, <3>4, EmptySeq
  <2>4. SegEnd(Last(segments')) = segments[Len(segments)].start
                                  + (segments[Len(segments)].len + Len(chunk))
    BY <2>2, <2>3 DEF Last, SegEnd, Segment
  <2>5. base = segments[Len(segments)].start + segments[Len(segments)].len
    BY <2>1, <2>2 DEF SegEnd
  <2>6. End' = SegEnd(Last(segments')) + lost
    BY <2>1, <2>3 DEF End
  <2>. HIDE DEF base
  <2>. QED
    BY <1>0, <2>2, <2>4, <2>5, <2>6 DEF Segment
<1>8. CASE WriteFails
  BY <1>1, <1>2, <1>8 DEF WriteFails
<1>9. CASE Evict
  <2>1. /\ Len(segments) > 1 /\ segments' = Tail(segments) /\ lost' = lost
        /\ files' = [f \in DOMAIN files \ {Start} |-> files[f]]
    BY <1>9 DEF Evict, MustEvict
  <2>2. End' = End - lost + lost'
    BY <2>1, PopLemma
  <2>. QED
    BY <1>0, <2>1, <2>2
<1>10. CASE EvictFails
  <2>1. Len(segments) > 1 /\ segments' = Tail(segments) /\ UNCHANGED files /\ Lose
    BY <1>10 DEF EvictFails, MustEvict, disk
  <2>2. End' = End - lost + lost'
    BY <1>2, <2>1, PopLemma
  <2>. QED
    BY <1>0, <1>2, <2>1, <2>2
<1>11. CASE EvictDone
  BY <1>0, <1>1, <1>11 DEF EvictDone, memory
<1>12. CASE FinishAppend
  BY <1>0, <1>1, <1>12 DEF FinishAppend
<1>13. CASE SyncFails
  BY <1>1, <1>2, <1>13 DEF SyncFails
<1>14. CASE Sync
  BY <1>0, <1>1, <1>14 DEF Sync
<1>15. CASE HolderDies \/ MachineDies
  BY <1>15 DEF HolderDies, MachineDies, Die
<1>. QED
  BY <1>3, <1>4, <1>5, <1>6, <1>7, <1>8, <1>9, <1>10, <1>11, <1>12, <1>13, <1>14, <1>15
     DEF Next

\* The end offset never goes back while a holder lives.
THEOREM EndMonotone == Spec => EndNeverGoesBack
<1>1. ASSUME IndInv, [Next]_vars
      PROVE  [pc # "down" /\ pc' # "down" => End' >= End]_vars
  BY <1>1, EndGrows
<1>. QED
  BY <1>1, Inductive, PTL DEF Spec, EndNeverGoesBack

----------------------------------------------------------------------------
(* The journal implements ByteLog.                                         *)

\* file f holds offset o
Has(f, o) == f <= o /\ o < f + Len(files[f])

LogIsOfFiles ==
    /\ DOMAIN Log \subseteq Nat
    /\ Log = [o \in DOMAIN Log |-> Log[o]]
    /\ \A o \in Nat : o \in DOMAIN Log <=> \E f \in DOMAIN files : Has(f, o)
    /\ \A o \in Nat, f \in DOMAIN files : Has(f, o) => Log[o] = files[f][o - f + 1]

\* The log holds an offset when a file does, under the byte of that file: files that do
\* not overlap have one file at most for each offset.
LEMMA LogLemma == IndInv => LogIsOfFiles
<1>. SUFFICES ASSUME IndInv PROVE LogIsOfFiles
  OBVIOUS
<1>1. DOMAIN files \subseteq Nat /\ \A f \in DOMAIN files : Len(files[f]) \in Nat
  BY LenProperties DEF IndInv, TypeOK
<1>2. DOMAIN Log = Held /\ Log = [o \in DOMAIN Log |-> Log[o]]
  BY DEF Log
<1>3. \A o : o \in Held <=> o \in Nat /\ \E f \in DOMAIN files : Has(f, o)
  <2>1. ASSUME NEW f \in DOMAIN files, NEW o
        PROVE  o \in f .. f + Len(files[f]) - 1 <=> o \in Nat /\ Has(f, o)
    <3>1. f \in Nat /\ Len(files[f]) \in Nat
      BY <1>1
    <3>. QED
      BY <3>1 DEF Has
  <2>. QED
    BY <2>1 DEF Held
<1>4. ASSUME NEW o \in Nat, NEW f \in DOMAIN files, Has(f, o)
      PROVE  Log[o] = files[f][o - f + 1]
  <2>1. ASSUME NEW g \in DOMAIN files, Has(g, o) PROVE g = f
    <3>1. f \in Nat /\ g \in Nat /\ Len(files[f]) \in Nat /\ Len(files[g]) \in Nat
      BY <1>1
    <3>2. /\ f < g => f + Len(files[f]) <= g
          /\ g < f => g + Len(files[g]) <= f
      BY DEF IndInv, FilesAreDisjoint
    <3>. QED
      BY <1>4, <2>1, <3>1, <3>2 DEF Has
  <2>2. Holding(o) = {f}
    BY <1>4, <2>1 DEF Holding, Has
  <2>3. (CHOOSE g \in Holding(o) : TRUE) = f
    BY <2>2
  <2>4. o \in Held
    BY <1>3, <1>4
  <2>. QED
    BY <2>3, <2>4 DEF Log
<1>. QED
  BY <1>2, <1>3, <1>4 DEF LogIsOfFiles

\* What a live holder has on disk lies below its end.
LEMMA LogIsBelowEnd == IndInv /\ pc # "down" => \A o \in DOMAIN Log : o < End
<1>. SUFFICES ASSUME IndInv, pc # "down", NEW o \in DOMAIN Log PROVE o < End
  OBVIOUS
<1>1. LogIsOfFiles /\ o \in Nat
  BY LogLemma DEF LogIsOfFiles
<1>2. PICK f \in DOMAIN files : Has(f, o)
  BY <1>1 DEF LogIsOfFiles
<1>3. f \in Nat /\ Len(files[f]) \in Nat /\ End \in Nat
  BY LenProperties, EndType DEF IndInv, TypeOK
<1>4. f + Len(files[f]) <= End
  BY DEF IndInv, NewestFileIsListed
<1>. QED
  BY <1>1, <1>2, <1>3, <1>4 DEF Has

\* A step under which each file keeps what it gives for the offsets below the end is a
\* Grow of the log.
LEMMA GrowsLog ==
    ASSUME IndInv, IndInv', pc # "down", pc' # "down", End' >= End,
           \A f \in DOMAIN files', o \in Nat : Has(f, o)' =>
              \/ o >= End /\ o < End'
              \/ f \in DOMAIN files /\ Has(f, o) /\ files'[f][o - f + 1] = files[f][o - f + 1]
    PROVE  Contract!Next
<1>1. LogIsOfFiles
  BY LogLemma
<1>2. (IndInv => LogIsOfFiles)'
  BY LogLemma, PTL
<1>3. LogIsOfFiles'
  BY <1>2
<1>4. End \in Nat
  BY EndType DEF IndInv
<1>5. End' \in Nat
  <2>1. (TypeOK => End \in Nat)'
    BY EndType, PTL
  <2>. QED
    BY <2>1 DEF IndInv
<1>6. ASSUME NEW o \in DOMAIN Log'
      PROVE  \/ o \in End .. End' - 1
             \/ o \in DOMAIN Log /\ o < End /\ Log'[o] = Log[o]
  <2>1. o \in Nat
    BY <1>3, <1>6 DEF LogIsOfFiles
  <2>2. PICK f \in DOMAIN files' : Has(f, o)'
    BY <1>3, <1>6, <2>1 DEF LogIsOfFiles
  <2>3. CASE o >= End /\ o < End'
    BY <1>4, <1>5, <2>1, <2>3
  <2>4. CASE /\ f \in DOMAIN files /\ Has(f, o)
             /\ files'[f][o - f + 1] = files[f][o - f + 1]
    <3>1. o \in DOMAIN Log /\ Log[o] = files[f][o - f + 1]
      BY <1>1, <2>1, <2>4 DEF LogIsOfFiles
    <3>2. Log'[o] = files'[f][o - f + 1]
      BY <1>3, <2>1, <2>2 DEF LogIsOfFiles
    <3>. QED
      BY <2>4, <3>1, <3>2, LogIsBelowEnd
  <2>. QED
    BY <2>1, <2>2, <2>3, <2>4
<1>. QED
  BY <1>4, <1>5, <1>6 DEF Contract!Next, Contract!Grow

\* Steps that leave the files alone.
LEMMA SameFiles == ASSUME UNCHANGED files PROVE Log' = Log
BY DEF Log, Held, Holding

LEMMA RestGrowsLog ==
    ASSUME IndInv, IndInv', Next, pc # "down", pc' # "down", UNCHANGED files
    PROVE  Contract!Next
<1>1. End' >= End
  BY EndGrows
<1>2. \A f \in DOMAIN files', o \in Nat : Has(f, o)' =>
         f \in DOMAIN files /\ Has(f, o) /\ files'[f][o - f + 1] = files[f][o - f + 1]
  BY DEF Has
<1>. QED
  BY <1>1, <1>2, GrowsLog

\* A write puts its bytes at the end of the newest file, and from there on nothing is
\* stored: whole or in part they take the offsets between the two ends.
LEMMA AppendsGrow ==
    ASSUME IndInv, IndInv', pc = "write", pc' # "down", End' = End + Len(chunk),
           NEW n \in 0 .. Len(chunk),
           files' = [files EXCEPT ![Last(segments).start] = @ \o SubSeq(chunk, 1, n)]
    PROVE  Contract!Next
<1>. DEFINE g == Last(segments).start
<1>1. /\ g \in DOMAIN files /\ g \in Nat /\ Len(files[g]) \in Nat /\ files[g] \in Seq(Nat)
      /\ g + Len(files[g]) = End
  <2>1. segments \in Seq(Segment) /\ segments # <<>> /\ lost = 0
    BY DEF IndInv, TypeOK, HandIsConsistent
  <2>2. /\ Len(segments) \in DOMAIN segments /\ Last(segments) = segments[Len(segments)]
        /\ Last(segments).start \in Nat /\ Last(segments).len \in Nat
        /\ Len(segments) \in Nat
    BY <2>1, LastSegment
  <2>3. /\ g \in DOMAIN files /\ Last(segments).len <= Len(files[g])
        /\ ~(Last(segments).len < Len(files[g]))
    BY <2>1, <2>2 DEF IndInv, ListMatchesDirectory
  <2>4. End = g + Last(segments).len + 0
    BY <2>1 DEF End, SegEnd
  <2>5. files[g] \in Seq(Nat) /\ Len(files[g]) \in Nat
    BY <2>3, LenProperties DEF IndInv, TypeOK
  <2>. QED
    BY <2>2, <2>3, <2>4, <2>5
<1>2. /\ chunk \in Seq(Nat) /\ Len(chunk) \in Nat /\ n \in Nat /\ n <= Len(chunk)
      /\ SubSeq(chunk, 1, n) \in Seq(Nat) /\ Len(SubSeq(chunk, 1, n)) = n
  <2>1. chunk \in Seq(Nat) /\ Len(chunk) \in Nat
    BY LenProperties DEF IndInv, TypeOK
  <2>2. \A i \in 1 .. n : chunk[i] \in Nat
    BY <2>1, ElementOfSeq
  <2>. QED
    BY <2>1, <2>2, SubSeqProperties
<1>. HIDE DEF g
<1>3. /\ DOMAIN files' = DOMAIN files
      /\ \A f \in DOMAIN files : f # g => files'[f] = files[f]
      /\ files'[g] = files[g] \o SubSeq(chunk, 1, n)
  BY <1>1 DEF g
<1>4. /\ Len(files'[g]) = Len(files[g]) + n
      /\ \A i \in 1 .. Len(files[g]) : files'[g][i] = files[g][i]
  <2>1. PICK old \in Seq(Nat) : old = files[g]
    BY <1>1
  <2>2. PICK new \in Seq(Nat) : new = SubSeq(chunk, 1, n)
    BY <1>2
  <2>3. /\ Len(old \o new) = Len(old) + Len(new)
        /\ \A i \in 1 .. Len(old) : (old \o new)[i] = old[i]
    BY ConcatProperties, LenProperties
  <2>. QED
    BY <1>2, <1>3, <2>1, <2>2, <2>3
<1>5. End \in Nat /\ End' \in Nat /\ End' >= End
  BY <1>1, <1>2
<1>6. ASSUME NEW f \in DOMAIN files', NEW o \in Nat, Has(f, o)'
      PROVE  \/ o >= End /\ o < End'
             \/ f \in DOMAIN files /\ Has(f, o) /\ files'[f][o - f + 1] = files[f][o - f + 1]
  <2>1. CASE f # g
    <3>1. f \in DOMAIN files /\ files'[f] = files[f]
      BY <1>3, <2>1
    <3>2. f <= o /\ o < f + Len(files'[f])
      BY <1>6 DEF Has
    <3>. QED
      BY <3>1, <3>2 DEF Has
  <2>2. CASE f = g /\ o < End
    <3>1. Has(g, o)
      BY <1>1, <1>6, <2>2 DEF Has
    <3>2. o - g + 1 \in 1 .. Len(files[g])
      BY <1>1, <3>1 DEF Has
    <3>. QED
      BY <1>1, <1>4, <2>2, <3>1, <3>2
  <2>3. CASE f = g /\ ~(o < End)
    <3>1. o < g + Len(files'[g])
      BY <1>6, <2>3 DEF Has
    <3>2. Len(files'[g]) = Len(files[g]) + n
      BY <1>4
    <3>3. g + Len(files[g]) = End /\ End' = End + Len(chunk)
      BY <1>1
    <3>4. g + (Len(files[g]) + n) = End + n
      BY <1>1, <1>2, <3>3
    <3>5. o < End + n
      <4>1. o < g + (Len(files[g]) + n)
        BY <3>1, <3>2
      <4>. QED
        BY <3>4, <4>1
    <3>. o >= End
      BY <1>5, <2>3
    <3>6. o < End'
      BY <1>2, <1>5, <3>3, <3>5
    <3>. QED
      BY <3>5, <3>6
  <2>. QED
    BY <2>1, <2>2, <2>3
<1>. QED
  BY <1>5, <1>6, GrowsLog

LEMMA WritesGrow == ASSUME IndInv, IndInv', Write \/ WriteFails PROVE Contract!Next
<1>1. /\ chunk \in Seq(Nat) /\ Len(chunk) \in Nat /\ End \in Nat /\ lost = 0
      /\ segments \in Seq(Segment) /\ segments # <<>> /\ pc = "write"
  BY EndType, LenProperties DEF Write, WriteFails, IndInv, TypeOK, HandIsConsistent
<1>2. CASE WriteFails
  <2>1. PICK k \in 0 .. Len(chunk) - 1 :
           files' = [files EXCEPT ![Last(segments).start] = @ \o SubSeq(chunk, 1, k)]
    BY <1>2 DEF WriteFails
  <2>2. k \in 0 .. Len(chunk)
    BY <1>1, <2>1
  <2>3. UNCHANGED segments /\ lost' = lost + Len(chunk) /\ pc' = "idle"
    BY <1>2 DEF WriteFails, Lose, Announce
  <2>4. PICK b : b = (IF segments = <<>> THEN 0 ELSE SegEnd(Last(segments)))
    OBVIOUS
  <2>5. End = b + lost /\ End' = b + (lost + Len(chunk)) /\ b \in Nat
    <3>1. b \in Nat
      BY <1>1, <2>4, EndBase
    <3>. QED
      BY <2>3, <2>4, <3>1 DEF End, SegEnd
  <2>6. End' = End + Len(chunk)
    BY <1>1, <2>5
  <2>. QED
    BY <1>1, <2>1, <2>2, <2>3, <2>6, AppendsGrow
<1>3. CASE Write
  <2>1. /\ files' = [files EXCEPT ![Last(segments).start] = @ \o chunk]
        /\ pc' = "evict" /\ UNCHANGED <<at, chunk>> /\ at = End
    BY <1>3 DEF Write, hand, IndInv, HandIsConsistent
  <2>2. SubSeq(chunk, 1, Len(chunk)) = chunk
    BY <1>1
  <2>3. End' = End + Len(chunk)
    <3>1. (at + Len(chunk) = End)'
      BY <2>1 DEF IndInv, HandIsConsistent
    <3>. QED
      BY <2>1, <3>1
  <2>4. Len(chunk) \in 0 .. Len(chunk)
    BY <1>1
  <2>. QED
    BY <1>1, <2>1, <2>2, <2>3, <2>4, AppendsGrow
<1>. QED
  BY <1>2, <1>3

\* A new segment is empty, and an eviction takes a whole file from the front.
LEMMA RotatesGrow == ASSUME IndInv, IndInv', Rotate PROVE Contract!Next
<1>1. /\ End \in Nat /\ pc # "down" /\ pc' # "down"
      /\ files' = IF End \in DOMAIN files THEN files ELSE Put(files, End, <<>>)
  BY EndType DEF Rotate, IndInv, TypeOK
<1>2. End' >= End
  BY <1>1, EndGrows DEF Next
<1>3. CASE End \in DOMAIN files
  BY <1>1, <1>3, RestGrowsLog DEF Next
<1>4. CASE End \notin DOMAIN files
  <2>1. /\ DOMAIN files' = DOMAIN files \cup {End} /\ files'[End] = <<>>
        /\ \A f \in DOMAIN files : files'[f] = files[f]
    BY <1>1, <1>4 DEF Put
  <2>2. ASSUME NEW f \in DOMAIN files', NEW o \in Nat, Has(f, o)'
        PROVE  f \in DOMAIN files /\ Has(f, o) /\ files'[f][o - f + 1] = files[f][o - f + 1]
    <3>1. f <= o /\ o < f + Len(files'[f])
      BY <2>2 DEF Has
    <3>2. f # End
      <4>. SUFFICES ASSUME f = End PROVE FALSE
        OBVIOUS
      <4>1. End <= o /\ o < End + 0
        BY <2>1, <3>1
      <4>. QED
        BY <1>1, <4>1
    <3>3. f \in DOMAIN files /\ files'[f] = files[f]
      BY <2>1, <3>2
    <3>. QED
      BY <3>1, <3>3 DEF Has
  <2>. QED
    BY <1>1, <1>2, <2>2, GrowsLog
<1>. QED
  BY <1>3, <1>4

LEMMA EvictsGrow == ASSUME IndInv, IndInv', Evict PROVE Contract!Next
<1>1. /\ files' = [f \in DOMAIN files \ {Start} |-> files[f]] /\ pc # "down" /\ pc' # "down"
  BY DEF Evict
<1>2. End' >= End
  BY <1>1, EndGrows DEF Next
<1>3. ASSUME NEW f \in DOMAIN files', NEW o \in Nat, Has(f, o)'
      PROVE  f \in DOMAIN files /\ Has(f, o) /\ files'[f][o - f + 1] = files[f][o - f + 1]
  <2>1. f \in DOMAIN files /\ files'[f] = files[f]
    BY <1>1
  <2>2. f <= o /\ o < f + Len(files'[f])
    BY <1>3 DEF Has
  <2>. QED
    BY <2>1, <2>2 DEF Has
<1>. QED
  BY <1>1, <1>2, <1>3, GrowsLog

\* Opening numbers the next byte past all that the files hold.
LEMMA OpensLog == ASSUME IndInv, IndInv', Open PROVE Contract!Next
<1>1. pc = "down" /\ pc' # "down" /\ UNCHANGED files
  BY DEF Open, disk
<1>2. \A o \in DOMAIN Log' : o < End'
  <2>1. (IndInv /\ pc # "down" => \A o \in DOMAIN Log : o < End)'
    BY LogIsBelowEnd, PTL
  <2>. QED
    BY <1>1, <2>1
<1>3. End' \in Nat
  <2>1. (TypeOK => End \in Nat)'
    BY EndType, PTL
  <2>. QED
    BY <2>1 DEF IndInv
<1>. QED
  BY <1>1, <1>2, <1>3, SameFiles DEF Contract!Next, Contract!Open

\* What the machine takes with it is the end of the newest file, hence of the log.
LEMMA MachineShortens ==
    ASSUME IndInv, IndInv', MachineDies
    PROVE  Log' = Log \/ \E n \in DOMAIN Log : Log' = Contract!KeepBelow(n)
<1>1. PICK kept \in [DOMAIN files -> 0 .. MaxFed] :
         /\ \A f \in DOMAIN files : kept[f] \in DurableLength(f) .. Len(files[f])
         /\ files' = [f \in DOMAIN files |-> SubSeq(files[f], 1, kept[f])]
  BY DEF MachineDies
<1>2. /\ DOMAIN files \subseteq Nat
      /\ \A f \in DOMAIN files : files[f] \in Seq(Nat) /\ Len(files[f]) \in Nat
      /\ \A f \in DOMAIN files : DurableLength(f) \in Nat
  BY LenProperties DEF IndInv, TypeOK, DurableLength
<1>3. \A f \in DOMAIN files : kept[f] \in Nat /\ kept[f] <= Len(files[f])
  BY <1>1, <1>2
<1>4. ASSUME NEW f \in DOMAIN files
      PROVE  /\ Len(files'[f]) = kept[f]
             /\ \A i \in 1 .. kept[f] : files'[f][i] = files[f][i]
  <2>1. files'[f] = SubSeq(files[f], 1, kept[f])
    BY <1>1
  <2>2. \A i \in 1 .. kept[f] : i \in 1 .. Len(files[f]) /\ files[f][i] \in Nat
    BY <1>2, <1>3, ElementOfSeq
  <2>3. /\ Len(SubSeq(files[f], 1, kept[f])) = kept[f]
        /\ \A i \in 1 .. kept[f] : SubSeq(files[f], 1, kept[f])[i] = files[f][i]
    BY <1>2, <1>3, <2>2, SubSeqProperties
  <2>. QED
    BY <2>1, <2>3
<1>5. LogIsOfFiles /\ LogIsOfFiles'
  <2>1. (IndInv => LogIsOfFiles)'
    BY LogLemma, PTL
  <2>. QED
    BY <2>1, LogLemma
<1>6. DOMAIN files' = DOMAIN files
  BY <1>1
<1>7. \A f \in DOMAIN files, o \in Nat : Has(f, o)' <=> f <= o /\ o < f + kept[f]
  <2>1. \A f \in DOMAIN files, o \in Nat : Has(f, o)' <=> f <= o /\ o < f + Len(files'[f])
    BY DEF Has
  <2>. QED
    BY <1>4, <2>1
<1>8. ASSUME NEW f \in DOMAIN files, NEW o \in Nat, Has(f, o)'
      PROVE  Has(f, o) /\ o \in DOMAIN Log /\ o \in DOMAIN Log' /\ Log'[o] = Log[o]
  <2>1. f <= o /\ o < f + kept[f] /\ f \in Nat /\ kept[f] \in Nat /\ Len(files[f]) \in Nat
        /\ kept[f] <= Len(files[f])
    BY <1>2, <1>3, <1>7, <1>8
  <2>2. Has(f, o)
    BY <2>1 DEF Has
  <2>3. o - f + 1 \in 1 .. kept[f]
    BY <2>1
  <2>4. o \in DOMAIN Log /\ Log[o] = files[f][o - f + 1]
    BY <1>5, <2>2 DEF LogIsOfFiles
  <2>5. o \in DOMAIN Log' /\ Log'[o] = files'[f][o - f + 1]
    BY <1>5, <1>6, <1>8 DEF LogIsOfFiles
  <2>. QED
    BY <1>4, <2>2, <2>3, <2>4, <2>5
<1>9. \A o \in DOMAIN Log' : o \in Nat /\ o \in DOMAIN Log /\ Log'[o] = Log[o]
  <2>. SUFFICES ASSUME NEW o \in DOMAIN Log'
                PROVE  o \in Nat /\ o \in DOMAIN Log /\ Log'[o] = Log[o]
    OBVIOUS
  <2>1. o \in Nat
    BY <1>5 DEF LogIsOfFiles
  <2>2. PICK f \in DOMAIN files : Has(f, o)'
    BY <1>5, <1>6, <2>1 DEF LogIsOfFiles
  <2>. QED
    BY <1>8, <2>1, <2>2
<1>10. Log' = [o \in DOMAIN Log' |-> Log[o]]
  <2>1. Log' = [o \in DOMAIN Log' |-> Log'[o]]
    BY <1>5 DEF LogIsOfFiles
  <2>. QED
    BY <1>9, <2>1
<1>11. CASE \A f \in DOMAIN files : kept[f] = Len(files[f])
  <2>1. ASSUME NEW o \in DOMAIN Log PROVE o \in DOMAIN Log'
    <3>1. o \in Nat
      BY <1>5 DEF LogIsOfFiles
    <3>2. PICK f \in DOMAIN files : Has(f, o)
      BY <1>5, <3>1 DEF LogIsOfFiles
    <3>3. Has(f, o)'
      BY <1>7, <1>11, <3>1, <3>2 DEF Has
    <3>. QED
      BY <1>8, <3>1, <3>3
  <2>2. DOMAIN Log' = DOMAIN Log
    BY <1>9, <2>1
  <2>3. Log = [o \in DOMAIN Log |-> Log[o]]
    BY <1>5 DEF LogIsOfFiles
  <2>. QED
    BY <1>10, <2>2, <2>3
<1>12. CASE \E g \in DOMAIN files : kept[g] # Len(files[g])
  <2>1. PICK g \in DOMAIN files : kept[g] # Len(files[g])
    BY <1>12
  <2>2. g \in Nat /\ kept[g] \in Nat /\ Len(files[g]) \in Nat /\ kept[g] < Len(files[g])
    BY <1>2, <1>3, <2>1
  <2>3. \A f \in DOMAIN files : f <= g
    <3>. SUFFICES ASSUME NEW f \in DOMAIN files, ~(f <= g) PROVE FALSE
      OBVIOUS
    <3>1. g < f
      BY <1>2
    <3>2. DurableLength(g) = Len(files[g])
      BY <3>1 DEF IndInv, OnlyTheNewestFileIsAtRisk
    <3>. QED
      BY <1>1, <1>2, <2>2, <3>2
  <2>4. PICK n \in Nat : n = g + kept[g]
    BY <2>2
  <2>5. n \in DOMAIN Log
    <3>1. Has(g, n)
      BY <2>2, <2>4 DEF Has
    <3>. QED
      BY <1>5, <3>1 DEF LogIsOfFiles
  <2>6. ASSUME NEW o \in DOMAIN Log' PROVE o < n
    <3>1. o \in Nat
      BY <1>9
    <3>2. PICK f \in DOMAIN files : Has(f, o)'
      BY <1>5, <1>6, <3>1 DEF LogIsOfFiles
    <3>3. o < f + kept[f] /\ f <= g /\ f \in Nat /\ kept[f] \in Nat
          /\ Len(files[f]) \in Nat /\ kept[f] <= Len(files[f])
      BY <1>2, <1>3, <1>7, <2>3, <3>1, <3>2
    <3>4. CASE f = g
      BY <2>4, <3>3, <3>4
    <3>5. CASE f < g
      <4>1. f + Len(files[f]) <= g
        BY <3>5 DEF IndInv, FilesAreDisjoint
      <4>. QED
        BY <2>2, <2>4, <3>1, <3>3, <4>1
    <3>. QED
      BY <2>2, <3>3, <3>4, <3>5
  <2>7. ASSUME NEW o \in DOMAIN Log, o < n PROVE o \in DOMAIN Log'
    <3>1. o \in Nat
      BY <1>5 DEF LogIsOfFiles
    <3>2. PICK f \in DOMAIN files : Has(f, o)
      BY <1>5, <3>1 DEF LogIsOfFiles
    <3>3. f \in Nat /\ kept[f] \in Nat /\ Len(files[f]) \in Nat /\ kept[f] <= Len(files[f])
          /\ f <= g /\ f <= o /\ o < f + Len(files[f])
      BY <1>2, <1>3, <2>3, <3>2 DEF Has
    <3>4. CASE f = g
      <4>1. f <= o /\ o < f + kept[f]
        BY <2>4, <2>7, <3>3, <3>4
      <4>. QED
        BY <1>7, <1>8, <3>1, <4>1
    <3>5. CASE f # g
      <4>1. f < g
        BY <2>2, <3>3, <3>5
      <4>2. DurableLength(f) = Len(files[f])
        BY <4>1 DEF IndInv, OnlyTheNewestFileIsAtRisk
      <4>3. kept[f] = Len(files[f])
        BY <1>1, <1>2, <3>3, <4>2
      <4>. QED
        BY <1>7, <1>8, <3>1, <3>3, <4>3
    <3>. QED
      BY <3>4, <3>5
  <2>8. DOMAIN Log' = {o \in DOMAIN Log : o < n}
    BY <1>9, <2>6, <2>7
  <2>9. Log' = Contract!KeepBelow(n)
    BY <1>10, <2>8 DEF Contract!KeepBelow, Contract!Below
  <2>. QED
    BY <2>5, <2>9
<1>. QED
  BY <1>11, <1>12

LEMMA DiesWithLog == ASSUME IndInv, IndInv', HolderDies \/ MachineDies PROVE Contract!Next
<1>1. /\ pc # "down" /\ pc' = "down" /\ segments' = <<>> /\ lost' = 0
  BY DEF HolderDies, MachineDies, Die
<1>2. End' = 0
  BY <1>1 DEF End
<1>3. Log' = Log \/ \E n \in DOMAIN Log : Log' = Contract!KeepBelow(n)
  BY MachineShortens, SameFiles DEF HolderDies, disk
<1>. QED
  BY <1>1, <1>2, <1>3 DEF Contract!Next, Contract!Die

\* An empty directory is an empty log.
LEMMA EmptyLog == Init => Contract!Init
<1>. SUFFICES ASSUME Init PROVE Contract!Init
  OBVIOUS
<1>1. DOMAIN files = {} /\ segments = <<>> /\ lost = 0 /\ pc = "down"
  BY DEF Init
<1>2. Held = {}
  BY <1>1 DEF Held
<1>3. DOMAIN Log = {} /\ Log = [o \in {} |-> Log[o]]
  BY <1>2 DEF Log
<1>4. Log = <<>>
  BY <1>3
<1>5. End = 0
  BY <1>1 DEF End
<1>. QED
  BY <1>1, <1>4, <1>5 DEF Contract!Init

\* Every step of the journal is one of the byte log, or leaves it as it is.
LEMMA StepOfLog == ASSUME IndInv, IndInv', Next PROVE Contract!Next
<1>1. CASE Open
  BY <1>1, OpensLog
<1>2. CASE Rotate
  BY <1>2, RotatesGrow
<1>3. CASE Write \/ WriteFails
  BY <1>3, WritesGrow
<1>4. CASE Evict
  BY <1>4, EvictsGrow
<1>5. CASE HolderDies \/ MachineDies
  BY <1>5, DiesWithLog
<1>6. CASE \E n \in 1 .. MaxChunk : Ingest(n)
  <2>1. pc # "down" /\ pc' # "down" /\ UNCHANGED files
    BY <1>6 DEF Ingest, disk
  <2>. QED
    BY <2>1, RestGrowsLog
<1>7. CASE RotateFails \/ EvictFails \/ SyncFails
  <2>1. pc # "down" /\ pc' # "down" /\ UNCHANGED files
    BY <1>7 DEF RotateFails, EvictFails, SyncFails, Lose, Announce, disk
  <2>. QED
    BY <2>1, RestGrowsLog
<1>8. CASE EvictDone \/ FinishAppend \/ Sync
  <2>1. pc # "down" /\ pc' # "down" /\ UNCHANGED files
    BY <1>8 DEF EvictDone, FinishAppend, Sync, Announce, disk
  <2>. QED
    BY <2>1, RestGrowsLog
<1>. QED
  BY <1>1, <1>2, <1>3, <1>4, <1>5, <1>6, <1>7, <1>8 DEF Next

\* Through every failure and every death the journal is an append-only log: no offset
\* below its end is written, and a death takes at most a suffix of it.
THEOREM JournalImplementsByteLog == Spec => ImplementsByteLog
<1>1. Init => Contract!Init
  BY EmptyLog
<1>2. IndInv /\ IndInv' /\ [Next]_vars => [Contract!Next]_(Contract!vars)
  <2>. SUFFICES ASSUME IndInv, IndInv', [Next]_vars PROVE [Contract!Next]_(Contract!vars)
    OBVIOUS
  <2>1. CASE Next
    BY <2>1, StepOfLog
  <2>2. CASE UNCHANGED vars
    BY <2>2, SameFiles DEF vars, disk, memory, Contract!vars, End
  <2>. QED
    BY <2>1, <2>2
<1>. QED
  BY <1>1, <1>2, Inductive, PTL DEF Spec, ImplementsByteLog, Contract!Spec

----------------------------------------------------------------------------
(* Offsets that were sent.                                                 *)

\* The newest file ends where the journal does.
LEMMA NewestEndsLog ==
    ASSUME IndInv, pc # "down", segments # <<>>, lost = 0
    PROVE  \E f \in DOMAIN files : End <= f + Len(files[f])
<1>1. segments \in Seq(Segment)
  BY DEF IndInv, TypeOK
<1>2. /\ Len(segments) \in DOMAIN segments /\ Last(segments) = segments[Len(segments)]
      /\ Last(segments).start \in Nat /\ Last(segments).len \in Nat
  BY <1>1, LastSegment
<1>. DEFINE g == Last(segments).start
<1>3. g \in DOMAIN files /\ Last(segments).len <= Len(files[g])
  BY <1>2 DEF IndInv, ListMatchesDirectory
<1>4. End = g + Last(segments).len + 0
  BY DEF End, SegEnd
<1>5. Len(files[g]) \in Nat
  BY <1>3, LenProperties DEF IndInv, TypeOK
<1>. HIDE DEF g
<1>6. End <= g + Len(files[g])
  BY <1>2, <1>3, <1>4, <1>5 DEF g
<1>. QED
  BY <1>3, <1>6

\* A step that keeps the files, or lengthens them, keeps what was sent behind them.
LEMMA BehindLongerFiles ==
    ASSUME IndInv, IndInv', AnnouncedIsBehind, faults' = faults, lost' = 0,
           UNCHANGED announced,
           \A f \in DOMAIN files : f \in DOMAIN files' /\ Len(files[f]) <= Len(files'[f]),
           AppendInProgress' => AppendInProgress /\ at' = at
    PROVE  AnnouncedIsBehind'
<1>. SUFFICES ASSUME faults = 0
              PROVE  /\ \A o \in DOMAIN announced :
                           \E f \in DOMAIN files' : o < f + Len(files'[f])
                     /\ AppendInProgress' => \A o \in DOMAIN announced : o < at'
  BY DEF AnnouncedIsBehind
<1>1. ASSUME NEW o \in DOMAIN announced
      PROVE  \E f \in DOMAIN files' : o < f + Len(files'[f])
  <2>1. PICK f \in DOMAIN files : o < f + Len(files[f])
    BY DEF AnnouncedIsBehind
  <2>2. f \in DOMAIN files' /\ Len(files[f]) <= Len(files'[f])
    OBVIOUS
  <2>3. f \in Nat /\ Len(files[f]) \in Nat /\ Len(files'[f]) \in Nat /\ o \in Nat
    BY <2>2, LenProperties DEF IndInv, TypeOK
  <2>4. o < f + Len(files'[f])
    BY <2>1, <2>2, <2>3
  <2>. QED
    BY <2>2, <2>4
<1>. QED
  BY <1>1 DEF AnnouncedIsBehind

\* An eviction takes the first file of several: a later one ends after it.
LEMMA EvictBehind == ASSUME IndInv, IndInv', AnnouncedIsBehind, Evict PROVE AnnouncedIsBehind'
<1>1. /\ files' = [f \in DOMAIN files \ {Start} |-> files[f]] /\ pc = "evict" /\ pc' = "evict"
      /\ UNCHANGED <<lost, announced, faults, at>> /\ Len(segments) > 1
  BY DEF Evict, MustEvict, hand, bounds
<1>. SUFFICES ASSUME faults = 0
              PROVE  \A o \in DOMAIN announced :
                        \E f \in DOMAIN files' : o < f + Len(files'[f])
  BY <1>1 DEF AnnouncedIsBehind, AppendInProgress
<1>2. /\ segments \in Seq(Segment) /\ segments # <<>> /\ Len(segments) \in Nat
      /\ DOMAIN segments = 1 .. Len(segments)
  BY <1>1, LenProperties, LastSegment DEF IndInv, TypeOK, HandIsConsistent
<1>. DEFINE g == segments[Len(segments)].start
<1>3. Start = segments[1].start /\ Start < g
  BY <1>1, <1>2 DEF Start, IndInv, ListIsSorted
<1>4. g \in DOMAIN files
  BY <1>1, <1>2 DEF IndInv, ListMatchesDirectory
<1>. HIDE DEF g
<1>5. /\ DOMAIN files \subseteq Nat /\ \A f \in DOMAIN files : Len(files[f]) \in Nat
      /\ DOMAIN announced \subseteq Nat
  BY LenProperties DEF IndInv, TypeOK
<1>6. DOMAIN files' = DOMAIN files \ {Start} /\ \A f \in DOMAIN files' : files'[f] = files[f]
  BY <1>1
<1>7. ASSUME NEW o \in DOMAIN announced
      PROVE  \E f \in DOMAIN files' : o < f + Len(files'[f])
  <2>1. PICK f \in DOMAIN files : o < f + Len(files[f])
    BY DEF AnnouncedIsBehind
  <2>2. CASE f # Start
    BY <1>6, <2>1, <2>2
  <2>3. CASE f = Start
    <3>1. f + Len(files[f]) <= g
      BY <1>3, <1>4, <2>3 DEF IndInv, FilesAreDisjoint
    <3>2. g # Start
      BY <1>3, <1>4, <1>5, <2>3
    <3>3. o < g + Len(files[g])
      BY <1>4, <1>5, <2>1, <3>1
    <3>4. g \in DOMAIN files' /\ files'[g] = files[g]
      BY <1>4, <1>6, <3>2
    <3>. QED
      BY <3>3, <3>4
  <2>. QED
    BY <2>2, <2>3
<1>. QED
  BY <1>7

\* What is sent when an append ends is what its file ends with.
LEMMA AnnounceBehind ==
    ASSUME IndInv, IndInv', AnnouncedIsBehind, FinishAppend PROVE AnnouncedIsBehind'
<1>1. /\ pc = "sync" /\ pc' = "idle" /\ UNCHANGED <<lost, files, faults>>
      /\ announced' = Overwrite(announced, at, chunk)
  BY DEF FinishAppend, Announce
<1>. SUFFICES ASSUME faults = 0
              PROVE  \A o \in DOMAIN announced' : \E f \in DOMAIN files : o < f + Len(files[f])
  BY <1>1 DEF AnnouncedIsBehind, AppendInProgress
<1>2. /\ at \in Nat /\ Len(chunk) \in Nat /\ End = at + Len(chunk) /\ End \in Nat
      /\ segments # <<>> /\ lost = 0
  BY <1>1, EndType, LenProperties DEF IndInv, TypeOK, HandIsConsistent
<1>3. /\ DOMAIN files \subseteq Nat /\ \A f \in DOMAIN files : Len(files[f]) \in Nat
  BY LenProperties DEF IndInv, TypeOK
<1>4. ASSUME NEW o \in DOMAIN announced'
      PROVE  \E f \in DOMAIN files : o < f + Len(files[f])
  <2>1. o \in DOMAIN announced \/ o \in at .. at + Len(chunk) - 1
    BY <1>1 DEF Overwrite
  <2>2. CASE o \in DOMAIN announced
    BY <2>2 DEF AnnouncedIsBehind
  <2>3. CASE o \in at .. at + Len(chunk) - 1
    <3>1. o \in Nat /\ o < End
      BY <1>2, <2>3
    <3>2. PICK f \in DOMAIN files : End <= f + Len(files[f])
      BY <1>1, <1>2, NewestEndsLog
    <3>. QED
      BY <1>2, <1>3, <3>1, <3>2
  <2>. QED
    BY <2>1, <2>2, <2>3
<1>. QED
  BY <1>4

\* The pump numbers what it reads past all that was sent.
LEMMA IngestBehind ==
    ASSUME IndInv, IndInv', AnnouncedIsBehind, NEW n \in 1 .. MaxChunk, Ingest(n)
    PROVE  AnnouncedIsBehind'
<1>1. /\ pc = "idle" /\ at' = End /\ UNCHANGED <<lost, files, announced, faults>>
  BY DEF Ingest, memory, disk
<1>2. /\ DOMAIN files \subseteq Nat /\ \A f \in DOMAIN files : Len(files[f]) \in Nat
      /\ DOMAIN announced \subseteq Nat /\ End \in Nat
  BY LenProperties, EndType DEF IndInv, TypeOK
<1>3. ASSUME faults = 0, NEW o \in DOMAIN announced PROVE o < End
  <2>1. PICK f \in DOMAIN files : o < f + Len(files[f])
    BY <1>3 DEF AnnouncedIsBehind
  <2>2. f + Len(files[f]) <= End
    BY <1>1 DEF IndInv, NewestFileIsListed
  <2>. QED
    BY <1>2, <2>1, <2>2
<1>. QED
  BY <1>1, <1>3 DEF AnnouncedIsBehind

\* A write that succeeds lengthens its file.
LEMMA WriteBehind == ASSUME IndInv, IndInv', AnnouncedIsBehind, Write PROVE AnnouncedIsBehind'
<1>1. /\ pc = "write" /\ pc' = "evict" /\ UNCHANGED <<lost, announced, faults, at>> /\ lost = 0
      /\ files' = [files EXCEPT ![Last(segments).start] = @ \o chunk]
      /\ chunk \in Seq(Nat) /\ files \in [DOMAIN files -> Seq(Nat)]
  BY DEF Write, hand, bounds, IndInv, HandIsConsistent, TypeOK
<1>2. DOMAIN files' = DOMAIN files
  BY <1>1
<1>3. ASSUME NEW f \in DOMAIN files PROVE Len(files[f]) <= Len(files'[f])
  <2>1. PICK s \in Seq(Nat) : s = files[f]
    BY <1>1
  <2>2. Len(s \o chunk) = Len(s) + Len(chunk) /\ Len(s) \in Nat /\ Len(chunk) \in Nat
    BY <1>1, ConcatProperties, LenProperties
  <2>3. files'[f] = s \/ files'[f] = s \o chunk
    BY <1>1, <2>1
  <2>. QED
    BY <2>1, <2>2, <2>3
<1>. QED
  BY <1>1, <1>2, <1>3, BehindLongerFiles DEF AppendInProgress

\* A step between two appends, or within one, that leaves every file as it is.
LEMMA SameFilesBehind ==
    ASSUME IndInv, IndInv', AnnouncedIsBehind, UNCHANGED <<files, announced, faults>>,
           lost' = lost \/ lost' = 0,
           AppendInProgress' => AppendInProgress /\ at' = at
    PROVE  AnnouncedIsBehind'
<1>1. \A f \in DOMAIN files : Len(files[f]) <= Len(files[f])
  BY LenProperties DEF IndInv, TypeOK
<1>2. CASE faults = 0
  BY <1>1, <1>2, BehindLongerFiles DEF AnnouncedIsBehind
<1>3. CASE faults # 0
  BY <1>3 DEF AnnouncedIsBehind
<1>. QED
  BY <1>2, <1>3

LEMMA RotateBehind == ASSUME IndInv, IndInv', AnnouncedIsBehind, Rotate PROVE AnnouncedIsBehind'
<1>1. /\ pc = "rotate" /\ lost' = 0 /\ UNCHANGED <<announced, faults, at>>
      /\ files' = IF End \in DOMAIN files THEN files ELSE Put(files, End, <<>>)
  BY DEF Rotate, hand, bounds
<1>2. ASSUME NEW f \in DOMAIN files PROVE f \in DOMAIN files' /\ files'[f] = files[f]
  BY <1>1 DEF Put
<1>3. \A f \in DOMAIN files : Len(files[f]) <= Len(files[f])
  BY LenProperties DEF IndInv, TypeOK
<1>. QED
  BY <1>1, <1>2, <1>3, BehindLongerFiles DEF AppendInProgress

\* The step of the invariant.
LEMMA BehindInd ==
    ASSUME IndInv, IndInv', AnnouncedIsBehind, [Next]_vars PROVE AnnouncedIsBehind'
<1>1. CASE Lose
  <2>1. faults' = faults + 1 /\ faults \in Nat
    BY <1>1 DEF Lose, IndInv, TypeOK
  <2>2. faults' # 0
    BY <2>1
  <2>. QED
    BY <2>2 DEF AnnouncedIsBehind
<1>2. CASE RotateFails \/ WriteFails \/ EvictFails \/ SyncFails
  BY <1>1, <1>2 DEF RotateFails, WriteFails, EvictFails, SyncFails
<1>3. CASE \E n \in 1 .. MaxChunk : Ingest(n)
  BY <1>3, IngestBehind
<1>4. CASE Rotate
  BY <1>4, RotateBehind
<1>5. CASE Write
  BY <1>5, WriteBehind
<1>6. CASE Evict
  BY <1>6, EvictBehind
<1>7. CASE FinishAppend
  BY <1>7, AnnounceBehind
<1>8. CASE Open \/ EvictDone \/ Sync \/ UNCHANGED vars
  <2>1. /\ UNCHANGED <<files, announced, faults>>
        /\ lost' \in {lost, 0}
    BY <1>8 DEF Open, EvictDone, Sync, memory, disk, bounds, vars
  <2>2. /\ AppendInProgress' => AppendInProgress
        /\ at' = at
    BY <1>8 DEF Open, EvictDone, Sync, hand, vars, AppendInProgress
  <2>. QED
    BY <2>1, <2>2, SameFilesBehind
<1>9. CASE HolderDies
  <2>1. /\ UNCHANGED <<files, announced, faults>> /\ lost' = 0 /\ pc' = "down"
    BY <1>9 DEF HolderDies, Die, disk
  <2>. QED
    BY <2>1, SameFilesBehind DEF AppendInProgress
<1>10. CASE MachineDies
  BY <1>10 DEF MachineDies, Die, AnnouncedIsBehind
<1>. QED
  BY <1>2, <1>3, <1>4, <1>5, <1>6, <1>7, <1>8, <1>9, <1>10 DEF Next

\* An offset under which a byte was sent to a daemon never comes to name another one while
\* no call of the journal fails, whoever dies in between.
THEOREM NoOffsetIsReused == Spec => OffsetsAreNeverReused
<1>1. Init => AnnouncedIsBehind
  BY DEF Init, AnnouncedIsBehind, AppendInProgress
<1>2. IndInv /\ IndInv' /\ AnnouncedIsBehind /\ [Next]_vars => AnnouncedIsBehind'
  BY BehindInd
<1>3. Spec => []AnnouncedIsBehind
  BY <1>1, <1>2, Inductive, PTL DEF Spec
<1>4. ASSUME IndInv, AnnouncedIsBehind, [Next]_vars
      PROVE  [faults' = 0 =>
                \A o \in DOMAIN announced \cap DOMAIN announced' :
                   announced'[o] = announced[o]]_vars
  <2>. SUFFICES ASSUME Next, faults' = 0, NEW o \in DOMAIN announced, o \in DOMAIN announced'
                PROVE  announced'[o] = announced[o]
    BY <1>4
  <2>1. ~Lose
    BY <1>4 DEF Lose, IndInv, TypeOK
  <2>2. CASE FinishAppend
    <3>1. /\ faults = 0 /\ pc = "sync" /\ announced' = Overwrite(announced, at, chunk)
      BY <2>2 DEF FinishAppend, Announce
    <3>2. o < at
      BY <1>4, <3>1 DEF AnnouncedIsBehind, AppendInProgress
    <3>3. at \in Nat /\ o \in Nat /\ Len(chunk) \in Nat
      BY <1>4, LenProperties DEF IndInv, TypeOK
    <3>4. o \notin at .. at + Len(chunk) - 1
      BY <3>2, <3>3
    <3>. QED
      BY <3>1, <3>4 DEF Overwrite
  <2>3. CASE MachineDies
    BY <2>3 DEF MachineDies
  <2>4. CASE UNCHANGED announced
    BY <2>4
  <2>. QED
    BY <2>1, <2>2, <2>3, <2>4
    DEF Next, Open, Ingest, Rotate, RotateFails, Write, WriteFails, Evict, EvictFails,
        EvictDone, SyncFails, Sync, HolderDies
<1>. QED
  BY <1>3, <1>4, Inductive, PTL DEF Spec, OffsetsAreNeverReused

----------------------------------------------------------------------------
(* Sums.  What a fold over the directory or over the list adds up is the   *)
(* number of the bytes, each named by its file and its place there.        *)

\* A set of numbers that is not empty has a least one: the induction that is used below.
LEMMA LeastNumber == ASSUME NEW T, T \subseteq Nat, T # {} PROVE \E n \in T : \A m \in T : n <= m
<1>. DEFINE R == {ss \in Nat \X Nat : ss[1] < ss[2]}
<1>1. IsWellFoundedOn(R, Nat)
  BY NatLessThanWellFounded, Zenon DEF OpToRel
<1>. HIDE DEF R
<1>2. PICK n \in T : \A m \in T : ~(<<m, n>> \in R)
  BY <1>1, WFMin, Zenon
<1>3. \A m \in T : ~(m < n)
  BY <1>2 DEF R
<1>. QED
  BY <1>3

\* The places of things that have these sizes.
Places(size, S) == {p \in S \X Nat : p[2] \in 1 .. size[p[1]]}

LEMMA OnePlaces ==
    ASSUME NEW x, NEW n \in Nat
    PROVE  IsFiniteSet({x} \X (1 .. n)) /\ Cardinality({x} \X (1 .. n)) = n
<1>1. IsFiniteSet(1 .. n) /\ Cardinality(1 .. n) = n
  BY FS_Interval
<1>2. IsFiniteSet({x}) /\ Cardinality({x}) = 1
  BY FS_Singleton
<1>. QED
  BY <1>1, <1>2, FS_Product

LEMMA PlacesFinite ==
    ASSUME NEW S, IsFiniteSet(S), NEW size, \A x \in S : size[x] \in Nat
    PROVE  IsFiniteSet(Places(size, S)) /\ Cardinality(Places(size, S)) \in Nat
<1>. DEFINE Of(x) == {x} \X (1 .. size[x])
            All == {Of(x) : x \in S}
            f == [x \in S |-> Of(x)]
<1>1. IsFiniteSet(All)
  <2>1. f \in Surjection(S, All)
    BY DEF Surjection
  <2>. QED
    BY <2>1, FS_Surjection
<1>2. \A T \in All : IsFiniteSet(T)
  <2>1. \A x \in S : IsFiniteSet(Of(x))
    BY OnePlaces
  <2>. QED
    BY <2>1
<1>3. Places(size, S) = UNION All
  BY DEF Places
<1>. QED
  BY <1>1, <1>2, <1>3, FS_UNION, FS_CardinalityType

\* One more thing has its places apart from those of the others.
LEMMA MorePlaces ==
    ASSUME NEW S, IsFiniteSet(S), NEW size, \A y \in S : size[y] \in Nat, NEW x \in S
    PROVE  Cardinality(Places(size, S)) = Cardinality(Places(size, S \ {x})) + size[x]
<1>. DEFINE A == Places(size, S \ {x})
            B == {x} \X (1 .. size[x])
<1>1. IsFiniteSet(S \ {x})
  BY FS_RemoveElement
<1>2. IsFiniteSet(A) /\ Cardinality(A) \in Nat
  BY <1>1, PlacesFinite
<1>3. IsFiniteSet(B) /\ Cardinality(B) = size[x]
  BY OnePlaces
<1>4. Places(size, S) = A \cup B /\ A \cap B = {}
  BY DEF Places
<1>5. Cardinality(A \cap B) = 0
  BY <1>4, FS_EmptySet
<1>. HIDE DEF A, B
<1>6. Cardinality(A \cup B) = Cardinality(A) + Cardinality(B) - Cardinality(A \cap B)
  BY <1>2, <1>3, FS_Union
<1>7. Cardinality(Places(size, S)) = Cardinality(A) + size[x]
  BY <1>2, <1>3, <1>4, <1>5, <1>6
<1>. QED
  BY <1>7 DEF A

LEMMA NoPlaces == ASSUME NEW size PROVE Cardinality(Places(size, {})) = 0
<1>1. Places(size, {}) = {}
  BY DEF Places
<1>. QED
  BY <1>1, FS_EmptySet

\* Whatever one picks first of a set of things: a sum takes one after the other and adds up their sizes.
Measures(size, D) == \A x \in D : size[x] \in Nat
PicksFrom(pick, D) == \A S \in SUBSET D : S # {} => pick[S] \in S
IsSum(sum, pick, size, D) ==
    sum = [S \in SUBSET D |-> IF S = {} THEN 0 ELSE sum[S \ {pick[S]}] + size[pick[S]]]

\* It counts their places ...
LEMMA SumCounts ==
    ASSUME NEW D, IsFiniteSet(D), NEW size, Measures(size, D),
           NEW pick, PicksFrom(pick, D), NEW sum, IsSum(sum, pick, size, D)
    PROVE  \A S \in SUBSET D : sum[S] = Cardinality(Places(size, S))
<1>. DEFINE Wrong(S) == sum[S] # Cardinality(Places(size, S))
            T == {n \in Nat : \E S \in SUBSET D : Wrong(S) /\ Cardinality(S) = n}
<1>. SUFFICES ASSUME NEW S \in SUBSET D, Wrong(S) PROVE FALSE
  OBVIOUS
<1>1. \A U \in SUBSET D : IsFiniteSet(U) /\ Cardinality(U) \in Nat
  BY FS_Subset, FS_CardinalityType
<1>2. Cardinality(S) \in T
  BY <1>1
<1>3. PICK n \in T : \A m \in T : n <= m
  <2>1. T # {} /\ T \subseteq Nat
    BY <1>2
  <2>. HIDE DEF T
  <2>. QED
    BY <2>1, LeastNumber
<1>4. PICK U \in SUBSET D : Wrong(U) /\ Cardinality(U) = n
  BY <1>3
<1>5. U # {}
  BY <1>4, NoPlaces DEF IsSum
<1>. DEFINE x == pick[U]
<1>6. x \in U
  BY <1>5 DEF PicksFrom
<1>7. Cardinality(U \ {x}) = n - 1 /\ n \in Nat /\ n - 1 \in Nat
  <2>1. IsFiniteSet(U) /\ n \in Nat
    BY <1>1, <1>3
  <2>2. Cardinality(U \ {x}) = n - 1
    BY <1>4, <1>6, <2>1, FS_RemoveElement
  <2>3. U \ {x} \in SUBSET D
    OBVIOUS
  <2>4. Cardinality(U \ {x}) \in Nat
    BY <1>1, <2>3
  <2>. QED
    BY <2>1, <2>2, <2>4
<1>8. ~Wrong(U \ {x})
  <2>1. n - 1 \notin T
    BY <1>3, <1>7
  <2>2. U \ {x} \in SUBSET D
    OBVIOUS
  <2>. QED
    BY <1>7, <2>1, <2>2
<1>9. Cardinality(Places(size, U)) = Cardinality(Places(size, U \ {x})) + size[x]
  BY <1>1, <1>6, MorePlaces DEF Measures
<1>10. sum[U] = sum[U \ {x}] + size[x]
  BY <1>5 DEF IsSum
<1>. QED
  BY <1>4, <1>8, <1>9, <1>10

\* ... and there is such a sum.
LEMMA SumExists ==
    ASSUME NEW D, IsFiniteSet(D), NEW size, Measures(size, D), NEW pick, PicksFrom(pick, D)
    PROVE  \E sum : IsSum(sum, pick, size, D)
<1>. DEFINE sum == [S \in SUBSET D |-> Cardinality(Places(size, S))]
<1>1. ASSUME NEW S \in SUBSET D
      PROVE  sum[S] = IF S = {} THEN 0 ELSE sum[S \ {pick[S]}] + size[pick[S]]
  <2>1. CASE S = {}
    BY <2>1, NoPlaces
  <2>2. CASE S # {}
    <3>1. IsFiniteSet(S)
      BY FS_Subset
    <3>2. Cardinality(Places(size, S)) = Cardinality(Places(size, S \ {pick[S]})) + size[pick[S]]
      BY <2>2, <3>1, MorePlaces DEF Measures, PicksFrom
    <3>. QED
      BY <2>2, <3>2
  <2>. QED
    BY <2>1, <2>2
<1>2. IsSum(sum, pick, size, D)
  BY <1>1 DEF IsSum
<1>. QED
  BY <1>2

FileSizes == [f \in DOMAIN files |-> Len(files[f])]
ListSizes == [i \in DOMAIN segments |-> segments[i].len]

\* The bytes in the directory
LEMMA StoredCounts ==
    ASSUME IsFiniteSet(DOMAIN files), \A f \in DOMAIN files : Len(files[f]) \in Nat
    PROVE  Stored = Cardinality(Places(FileSizes, DOMAIN files))
<1>. DEFINE D == DOMAIN files
            pick == [S \in SUBSET D |-> CHOOSE x \in S : TRUE]
            sum[S \in SUBSET D] ==
                IF S = {} THEN 0
                ELSE LET x == CHOOSE x \in S : TRUE IN sum[S \ {x}] + Len(files[x])
<1>1. Stored = sum[D]
  BY DEF Stored, FoldFunction, FoldFunctionOnSet, MapThenFoldSet
<1>2. sum = CHOOSE g : g = [S \in SUBSET D |->
                IF S = {} THEN 0
                ELSE LET x == CHOOSE x \in S : TRUE IN g[S \ {x}] + Len(files[x])]
  OBVIOUS
<1>. HIDE DEF sum
<1>3. PicksFrom(pick, D)
  BY DEF PicksFrom
<1>4. IsFiniteSet(D) /\ Measures(FileSizes, D) /\ \A x \in D : FileSizes[x] = Len(files[x])
  BY DEF FileSizes, Measures
<1>5. \E g : g = [S \in SUBSET D |->
                IF S = {} THEN 0
                ELSE LET x == CHOOSE x \in S : TRUE IN g[S \ {x}] + Len(files[x])]
  <2>1. PICK g : IsSum(g, pick, FileSizes, D)
    <3>. HIDE DEF pick, D
    <3>. QED
      BY <1>3, <1>4, SumExists
  <2>2. \A S \in SUBSET D :
          (IF S = {} THEN 0 ELSE g[S \ {pick[S]}] + FileSizes[pick[S]])
          = (IF S = {} THEN 0 ELSE LET x == CHOOSE x \in S : TRUE IN g[S \ {x}] + Len(files[x]))
    <3>. SUFFICES ASSUME NEW S \in SUBSET D, S # {}
                  PROVE  g[S \ {pick[S]}] + FileSizes[pick[S]]
                         = g[S \ {CHOOSE x \in S : TRUE}] + Len(files[CHOOSE x \in S : TRUE])
      OBVIOUS
    <3>. QED
      BY <1>3, <1>4 DEF PicksFrom
  <2>3. g = [S \in SUBSET D |->
                IF S = {} THEN 0
                ELSE LET x == CHOOSE x \in S : TRUE IN g[S \ {x}] + Len(files[x])]
    <3>. HIDE DEF pick
    <3>. QED
      BY <2>1, <2>2, Zenon DEF IsSum
  <2>. QED
    BY <2>3
<1>6. sum = [S \in SUBSET D |->
                IF S = {} THEN 0
                ELSE LET x == CHOOSE x \in S : TRUE IN sum[S \ {x}] + Len(files[x])]
  BY <1>2, <1>5
<1>7. IsSum(sum, pick, FileSizes, D)
  <2>1. \A S \in SUBSET D :
          (IF S = {} THEN 0 ELSE sum[S \ {pick[S]}] + FileSizes[pick[S]])
          = (IF S = {} THEN 0 ELSE LET x == CHOOSE x \in S : TRUE IN sum[S \ {x}] + Len(files[x]))
    <3>. SUFFICES ASSUME NEW S \in SUBSET D, S # {}
                  PROVE  sum[S \ {pick[S]}] + FileSizes[pick[S]]
                         = sum[S \ {CHOOSE x \in S : TRUE}] + Len(files[CHOOSE x \in S : TRUE])
      OBVIOUS
    <3>. QED
      BY <1>3, <1>4 DEF PicksFrom
  <2>2. sum = [S \in SUBSET D |-> IF S = {} THEN 0 ELSE sum[S \ {pick[S]}] + FileSizes[pick[S]]]
    <3>. HIDE DEF pick
    <3>. QED
      BY <1>6, <2>1, Zenon
  <2>. QED
    BY <2>2 DEF IsSum
<1>8. \A S \in SUBSET D : sum[S] = Cardinality(Places(FileSizes, S))
  <2>. HIDE DEF pick, D
  <2>. QED
    BY <1>3, <1>4, <1>7, SumCounts
<1>. QED
  BY <1>1, <1>8

\* A set of places in a list has a last one.
LEMMA LastPlace ==
    ASSUME NEW n \in Nat, NEW S, S \subseteq 1 .. n, S # {}
    PROVE  Max(S) \in S /\ \A x \in S : x <= Max(S)
<1>. DEFINE T == {n - x : x \in S}
<1>1. T \subseteq Nat /\ T # {}
  <2>1. \A x \in S : n - x \in Nat
    OBVIOUS
  <2>. QED
    BY <2>1
<1>2. PICK m \in T : \A k \in T : m <= k
  <2>. HIDE DEF T
  <2>. QED
    BY <1>1, LeastNumber
<1>3. PICK y \in S : m = n - y
  BY <1>2
<1>4. \A x \in S : y >= x
  BY <1>2, <1>3
<1>. QED
  BY <1>4 DEF Max

\* ... and those of the list
LEMMA RetainedCounts ==
    ASSUME segments \in Seq(Segment)
    PROVE  Retained = Cardinality(Places(ListSizes, DOMAIN segments))
<1>. DEFINE D == DOMAIN segments
            pick == [S \in SUBSET D |-> Max(S)]
            sum[S \in SUBSET D] ==
                IF S = {} THEN 0
                ELSE LET x == Max(S) IN sum[S \ {x}] + segments[x].len
<1>1. Retained = sum[D]
  BY DEF Retained, FoldLeft, MapThenFoldSet
<1>2. sum = CHOOSE g : g = [S \in SUBSET D |->
                IF S = {} THEN 0
                ELSE LET x == Max(S) IN g[S \ {x}] + segments[x].len]
  OBVIOUS
<1>. HIDE DEF sum
<1>. DEFINE n == Len(segments)
<1>0. n \in Nat /\ D = 1 .. n /\ IsFiniteSet(D) /\ \A x \in D : segments[x].len \in Nat
  <2>1. n \in Nat /\ D = 1 .. n /\ \A x \in D : segments[x].len \in Nat
    <3>1. n \in Nat /\ D = 1 .. n
      BY LenProperties
    <3>2. \A x \in D : segments[x] \in Segment
      BY <3>1, ElementOfSeq
    <3>. QED
      BY <3>1, <3>2 DEF Segment
  <2>. QED
    BY <2>1, FS_Interval
<1>3. PicksFrom(pick, D)
  <2>. SUFFICES ASSUME NEW S \in SUBSET D, S # {} PROVE Max(S) \in S
    BY DEF PicksFrom
  <2>. QED
    BY <1>0, LastPlace
<1>4. IsFiniteSet(D) /\ Measures(ListSizes, D) /\ \A x \in D : ListSizes[x] = segments[x].len
  BY <1>0 DEF ListSizes, Measures
<1>5. \E g : g = [S \in SUBSET D |->
                IF S = {} THEN 0
                ELSE LET x == Max(S) IN g[S \ {x}] + segments[x].len]
  <2>1. PICK g : IsSum(g, pick, ListSizes, D)
    <3>. HIDE DEF pick, D
    <3>. QED
      BY <1>3, <1>4, SumExists
  <2>2. \A S \in SUBSET D :
          (IF S = {} THEN 0 ELSE g[S \ {pick[S]}] + ListSizes[pick[S]])
          = (IF S = {} THEN 0 ELSE LET x == Max(S) IN g[S \ {x}] + segments[x].len)
    <3>. SUFFICES ASSUME NEW S \in SUBSET D, S # {}
                  PROVE  g[S \ {pick[S]}] + ListSizes[pick[S]]
                         = g[S \ {Max(S)}] + segments[Max(S)].len
      OBVIOUS
    <3>. QED
      BY <1>3, <1>4 DEF PicksFrom
  <2>3. g = [S \in SUBSET D |->
                IF S = {} THEN 0
                ELSE LET x == Max(S) IN g[S \ {x}] + segments[x].len]
    <3>. HIDE DEF pick
    <3>. QED
      BY <2>1, <2>2, Zenon DEF IsSum
  <2>. QED
    BY <2>3
<1>6. sum = [S \in SUBSET D |->
                IF S = {} THEN 0
                ELSE LET x == Max(S) IN sum[S \ {x}] + segments[x].len]
  BY <1>2, <1>5
<1>7. IsSum(sum, pick, ListSizes, D)
  <2>1. \A S \in SUBSET D :
          (IF S = {} THEN 0 ELSE sum[S \ {pick[S]}] + ListSizes[pick[S]])
          = (IF S = {} THEN 0 ELSE LET x == Max(S) IN sum[S \ {x}] + segments[x].len)
    <3>. SUFFICES ASSUME NEW S \in SUBSET D, S # {}
                  PROVE  sum[S \ {pick[S]}] + ListSizes[pick[S]]
                         = sum[S \ {Max(S)}] + segments[Max(S)].len
      OBVIOUS
    <3>. QED
      BY <1>3, <1>4 DEF PicksFrom
  <2>2. sum = [S \in SUBSET D |-> IF S = {} THEN 0 ELSE sum[S \ {pick[S]}] + ListSizes[pick[S]]]
    <3>. HIDE DEF pick
    <3>. QED
      BY <1>6, <2>1, Zenon
  <2>. QED
    BY <2>2 DEF IsSum
<1>8. \A S \in SUBSET D : sum[S] = Cardinality(Places(ListSizes, S))
  <2>. HIDE DEF pick, D
  <2>. QED
    BY <1>3, <1>4, <1>7, SumCounts
<1>. QED
  BY <1>1, <1>8

\* When the list is the directory, the files hold no more than what is listed.
LEMMA ListedIsRetained ==
    ASSUME IndInv, pc # "down", DirectoryIsListed
    PROVE  Stored \in Nat /\ Retained \in Nat /\ Stored <= Retained
<1>. DEFINE D == DOMAIN files
            place == [f \in D |-> CHOOSE i \in DOMAIN segments :
                                     segments[i] = [start |-> f, len |-> Len(files[f])]]
            A == Places(FileSizes, D)
            B == Places(ListSizes, DOMAIN segments)
            inj == [p \in A |-> <<place[p[1]], p[2]>>]
<1>1. /\ IsFiniteSet(D) /\ \A f \in D : Len(files[f]) \in Nat
      /\ segments \in Seq(Segment) /\ files \in [D -> Seq(Nat)]
  BY DEF IndInv, TypeOK
<1>2. /\ IsFiniteSet(DOMAIN segments) /\ \A i \in DOMAIN segments : ListSizes[i] \in Nat
  <2>1. Len(segments) \in Nat /\ DOMAIN segments = 1 .. Len(segments)
    BY <1>1, LenProperties
  <2>2. \A i \in DOMAIN segments : segments[i] \in Segment
    BY <1>1, <2>1, ElementOfSeq
  <2>. QED
    BY <2>1, <2>2, FS_Interval DEF ListSizes, Segment
<1>3. \A f \in D : FileSizes[f] \in Nat
  BY <1>1 DEF FileSizes
<1>4. /\ Stored = Cardinality(A) /\ Retained = Cardinality(B)
      /\ IsFiniteSet(A) /\ IsFiniteSet(B) /\ Cardinality(A) \in Nat /\ Cardinality(B) \in Nat
  <2>1. Stored = Cardinality(A) /\ Retained = Cardinality(B)
    BY <1>1, StoredCounts, RetainedCounts
  <2>. QED
    BY <1>1, <1>2, <1>3, <2>1, PlacesFinite
<1>5. \A f \in D : place[f] \in DOMAIN segments /\ segments[place[f]] = [start |-> f, len |-> Len(files[f])]
  BY DEF DirectoryIsListed
<1>6. \A p \in A : inj[p] \in B
  <2>. SUFFICES ASSUME NEW p \in A PROVE <<place[p[1]], p[2]>> \in B
    OBVIOUS
  <2>1. p[1] \in D /\ p[2] \in Nat /\ p[2] \in 1 .. Len(files[p[1]])
    BY DEF Places, FileSizes
  <2>2. place[p[1]] \in DOMAIN segments /\ ListSizes[place[p[1]]] = Len(files[p[1]])
    BY <1>5, <2>1 DEF ListSizes
  <2>. HIDE DEF place
  <2>. QED
    BY <2>1, <2>2 DEF Places
<1>7. \A p, q \in A : inj[p] = inj[q] => p = q
  <2>. SUFFICES ASSUME NEW p \in A, NEW q \in A, inj[p] = inj[q] PROVE p = q
    OBVIOUS
  <2>1. /\ p = <<p[1], p[2]>> /\ q = <<q[1], q[2]>> /\ p[1] \in D /\ q[1] \in D
    BY DEF Places
  <2>2. place[p[1]] = place[q[1]] /\ p[2] = q[2]
    <3>. HIDE DEF place, A
    <3>. QED
      OBVIOUS
  <2>3. segments[place[p[1]]].start = p[1] /\ segments[place[q[1]]].start = q[1]
    BY <1>5, <2>1
  <2>. QED
    BY <2>1, <2>2, <2>3
<1>. HIDE DEF A, B
<1>8. inj \in Injection(A, B)
  <2>1. inj \in [A -> B]
    <3>. HIDE DEF place
    <3>. QED
      BY <1>6
  <2>. HIDE DEF inj
  <2>. QED
    BY <1>7, <2>1 DEF Injection, IsInjective
<1>. QED
  BY <1>4, <1>8, FS_Injection

\* The bytes in the directory are a natural number, one for each place in a file.
StoredIsPlaces ==
    /\ IsFiniteSet(Places(FileSizes, DOMAIN files))
    /\ Stored = Cardinality(Places(FileSizes, DOMAIN files))
    /\ Stored \in Nat

LEMMA StoredPlaces == IndInv => StoredIsPlaces
<1>. SUFFICES ASSUME IndInv PROVE StoredIsPlaces
  OBVIOUS
<1>1. IsFiniteSet(DOMAIN files) /\ \A f \in DOMAIN files : Len(files[f]) \in Nat
  BY LenProperties DEF IndInv, TypeOK
<1>2. \A f \in DOMAIN files : FileSizes[f] \in Nat
  BY <1>1 DEF FileSizes
<1>. QED
  BY <1>1, <1>2, StoredCounts, PlacesFinite DEF StoredIsPlaces

\* Things have no more places than larger ones.
LEMMA FewerPlaces ==
    ASSUME NEW S, NEW size, NEW T, NEW larger,
           \A x \in S : /\ size[x] \in Nat
                        /\ size[x] = 0 \/ (/\ x \in T /\ larger[x] \in Nat
                                           /\ size[x] <= larger[x])
    PROVE  Places(size, S) \subseteq Places(larger, T)
<1>. SUFFICES ASSUME NEW p \in Places(size, S) PROVE p \in Places(larger, T)
  OBVIOUS
<1>1. p = <<p[1], p[2]>> /\ p[1] \in S /\ p[2] \in Nat /\ p[2] \in 1 .. size[p[1]]
  BY DEF Places
<1>2. p[1] \in T /\ p[2] \in 1 .. larger[p[1]]
  BY <1>1
<1>. QED
  BY <1>1, <1>2 DEF Places

\* A step that lengthens no file stores no more.
LEMMA NoMoreStored ==
    ASSUME IndInv, IndInv',
           \A f \in DOMAIN files' : \/ Len(files'[f]) = 0
                                    \/ f \in DOMAIN files /\ Len(files'[f]) <= Len(files[f])
    PROVE  Stored' <= Stored /\ Stored \in Nat /\ Stored' \in Nat
<1>. DEFINE A == Places(FileSizes, DOMAIN files)
            B == Places(FileSizes', DOMAIN files')
<1>1. IsFiniteSet(A) /\ Stored = Cardinality(A) /\ Stored \in Nat
  BY StoredPlaces DEF StoredIsPlaces
<1>2. Stored' = Cardinality(B) /\ Stored' \in Nat
  <2>1. StoredIsPlaces'
    BY StoredPlaces, PTL
  <2>. QED
    BY <2>1 DEF StoredIsPlaces
<1>3. /\ \A f \in DOMAIN files : Len(files[f]) \in Nat
      /\ \A f \in DOMAIN files' : Len(files'[f]) \in Nat
  BY LenProperties DEF IndInv, TypeOK
<1>4. \A f \in DOMAIN files' :
         /\ FileSizes'[f] \in Nat
         /\ FileSizes'[f] = 0 \/ (/\ f \in DOMAIN files /\ FileSizes[f] \in Nat
                                 /\ FileSizes'[f] <= FileSizes[f])
  BY <1>3 DEF FileSizes
<1>5. B \subseteq A
  <2>. HIDE DEF FileSizes
  <2>. QED
    BY <1>4, FewerPlaces
<1>. HIDE DEF A, B
<1>. QED
  BY <1>1, <1>2, <1>5, FS_Subset

\* A write stores what it appends.
LEMMA WriteStores ==
    ASSUME IndInv, IndInv', Write
    PROVE  Stored' = Stored + Len(chunk) /\ Stored \in Nat /\ Len(chunk) \in Nat
<1>. DEFINE f == Last(segments).start
            D == DOMAIN files
            old == FileSizes
            new == FileSizes'
<1>1. /\ chunk \in Seq(Nat) /\ Len(chunk) \in Nat /\ pc = "write"
      /\ files' = [files EXCEPT ![f] = @ \o chunk]
      /\ IsFiniteSet(D) /\ \A g \in D : Len(files[g]) \in Nat
  BY LenProperties DEF Write, IndInv, TypeOK
<1>2. /\ f \in D /\ DOMAIN files' = D
      /\ \A g \in D : g # f => files'[g] = files[g]
      /\ Len(files'[f]) = Len(files[f]) + Len(chunk)
  <2>1. Len(chunk) <= Len(chunk) /\ \A i \in DOMAIN chunk : chunk[i] = chunk[i]
    BY <1>1
  <2>. QED
    BY <1>1, <2>1, ExtendLemma
<1>. HIDE DEF f
<1>3. /\ \A g \in D : old[g] \in Nat /\ new[g] \in Nat
      /\ \A g \in D \ {f} : old[g] = new[g]
      /\ new[f] = old[f] + Len(chunk)
  BY <1>1, <1>2 DEF FileSizes
<1>4. /\ Stored = Cardinality(Places(old, D)) /\ Stored \in Nat
      /\ Stored' = Cardinality(Places(new, D))
  <2>1. StoredIsPlaces'
    BY StoredPlaces, PTL
  <2>. QED
    BY <1>2, <2>1, StoredPlaces DEF StoredIsPlaces
<1>5. Places(old, D \ {f}) = Places(new, D \ {f})
  <2>. HIDE DEF D, old, new
  <2>. QED
    BY <1>3 DEF Places
<1>6. Cardinality(Places(old, D \ {f})) \in Nat
  <2>1. IsFiniteSet(D \ {f})
    BY <1>1, FS_RemoveElement
  <2>2. \A g \in D \ {f} : old[g] \in Nat
    BY <1>3
  <2>. HIDE DEF D, old
  <2>. QED
    BY <2>1, <2>2, PlacesFinite
<1>7. Cardinality(Places(old, D)) = Cardinality(Places(old, D \ {f})) + old[f]
  <2>1. IsFiniteSet(D) /\ f \in D /\ \A g \in D : old[g] \in Nat
    BY <1>1, <1>2, <1>3
  <2>. HIDE DEF D, old, new
  <2>. QED
    BY <2>1, MorePlaces
<1>8. Cardinality(Places(new, D)) = Cardinality(Places(new, D \ {f})) + new[f]
  <2>1. IsFiniteSet(D) /\ f \in D /\ \A g \in D : new[g] \in Nat
    BY <1>1, <1>2, <1>3
  <2>. HIDE DEF D, old, new
  <2>. QED
    BY <2>1, MorePlaces
<1>. HIDE DEF old, new, D
<1>. QED
  BY <1>1, <1>2, <1>3, <1>4, <1>5, <1>6, <1>7, <1>8

\* The one segment of a list is what is retained.
LEMMA OneRetained ==
    ASSUME segments \in Seq(Segment), Len(segments) = 1
    PROVE  Retained = segments[1].len
<1>1. DOMAIN segments = {1} /\ segments[1] \in Segment
  <2>1. DOMAIN segments = 1 .. Len(segments)
    BY LenProperties
  <2>. QED
    BY <2>1, ElementOfSeq
<1>2. segments[1].len \in Nat
  BY <1>1 DEF Segment
<1>3. Places(ListSizes, DOMAIN segments) = {1} \X (1 .. segments[1].len)
  BY <1>1 DEF Places, ListSizes
<1>. QED
  BY <1>2, <1>3, OnePlaces, RetainedCounts

\* The bound on the directory, in numbers.
LEMMA LimitType ==
    /\ Limit \in Nat /\ MaxBytes <= Limit /\ SegmentBytes + MaxChunk <= Limit + 1
    /\ \A n \in Nat : Allowed(n) \in Nat /\ Limit <= Allowed(n)
                      /\ Allowed(1 + n) = Allowed(n) + MaxChunk
<1>1. Limit \in Nat /\ MaxBytes <= Limit /\ SegmentBytes + MaxChunk <= Limit + 1
  BY BoundsAreNormalized DEF Limit
<1>2. ASSUME NEW n \in Nat
      PROVE  MaxChunk * n \in Nat /\ MaxChunk * (1 + n) = MaxChunk * n + MaxChunk
  BY BoundsAreNormalized
<1>3. ASSUME NEW n \in Nat
      PROVE  Allowed(n) \in Nat /\ Limit <= Allowed(n) /\ Allowed(1 + n) = Allowed(n) + MaxChunk
  <2>1. PICK x \in Nat : x = MaxChunk * n /\ MaxChunk * (1 + n) = x + MaxChunk
    BY <1>2
  <2>2. Allowed(n) = Limit + x /\ Allowed(1 + n) = Limit + (x + MaxChunk)
    BY <2>1 DEF Allowed
  <2>3. MaxChunk \in Nat
    BY BoundsAreNormalized
  <2>. QED
    BY <1>1, <2>2, <2>3
<1>. QED
  BY <1>1, <1>3


\* What is known of the sizes in every state.
LEMMA EvictionTypes ==
    ASSUME IndInv
    PROVE  /\ crashes \in Nat /\ faults \in Nat /\ lost \in Nat /\ Len(chunk) \in Nat
           /\ MaxChunk \in Nat /\ SegmentBytes \in Nat
           /\ Limit \in Nat /\ MaxBytes \in Nat /\ MaxBytes <= Limit
           /\ SegmentBytes + MaxChunk <= Limit + 1
           /\ Allowed(crashes) \in Nat /\ Limit <= Allowed(crashes)
           /\ Allowed(1 + crashes) = Allowed(crashes) + MaxChunk
           /\ \A f \in DOMAIN files : Len(files[f]) \in Nat /\ f \in Nat
<1>1. crashes \in Nat /\ faults \in Nat /\ lost \in Nat /\ chunk \in Seq(Nat)
  BY DEF IndInv, TypeOK
<1>2. \A f \in DOMAIN files : Len(files[f]) \in Nat /\ f \in Nat
  BY LenProperties DEF IndInv, TypeOK
<1>. QED
  BY <1>1, <1>2, LimitType, BoundsAreNormalized, LenProperties

LEMMA SameStored == ASSUME IndInv, IndInv', UNCHANGED files PROVE Stored' = Stored
<1>1. StoredIsPlaces /\ StoredIsPlaces'
  <2>1. StoredIsPlaces'
    BY StoredPlaces, PTL
  <2>. QED
    BY <2>1, StoredPlaces
<1>2. FileSizes' = FileSizes
  BY DEF FileSizes
<1>. QED
  BY <1>1, <1>2 DEF StoredIsPlaces

\* A failed call ends what the bound promises.
LEMMA FailureKeeps == ASSUME IndInv, Lose PROVE EvictionKeepsUp'
<1>1. faults' = faults + 1 /\ faults \in Nat
  BY DEF Lose, IndInv, TypeOK
<1>2. faults' # 0
  BY <1>1
<1>. QED
  BY <1>2 DEF EvictionKeepsUp

\* Opening lists the whole directory.
LEMMA OpenKeeps == ASSUME IndInv, IndInv', EvictionKeepsUp, Open PROVE EvictionKeepsUp'
<1>1. /\ pc = "down" /\ pc' = "idle" /\ lost' = 0
      /\ UNCHANGED <<files, chunk, faults, crashes>>
  BY DEF Open, disk, hand, bounds
<1>2. PICK starts \in Listings :
         segments' = [i \in DOMAIN starts |->
                        [start |-> starts[i], len |-> Len(files[starts[i]])]]
  BY DEF Open
<1>3. DirectoryIsListed'
  <2>. SUFFICES ASSUME NEW f \in DOMAIN files
                PROVE  \E i \in DOMAIN segments' :
                          segments'[i] = [start |-> f, len |-> Len(files[f])]
    BY <1>1 DEF DirectoryIsListed
  <2>1. PICK i \in DOMAIN starts : starts[i] = f
    BY DEF Listings
  <2>. QED
    BY <1>2, <2>1
<1>4. Stored' = Stored
  BY <1>1, SameStored
<1>. QED
  BY <1>1, <1>3, <1>4 DEF EvictionKeepsUp, Limit, Allowed

\* The pump reads no more than its buffer holds, and writes to a segment that is not full.
LEMMA IngestKeeps ==
    ASSUME IndInv, IndInv', EvictionKeepsUp, NEW n \in 1 .. MaxChunk, Ingest(n)
    PROVE  EvictionKeepsUp'
<1>1. /\ pc = "idle" /\ pc' \in {"rotate", "write"}
      /\ UNCHANGED <<segments, lost, files, faults, crashes>>
      /\ chunk' = [i \in 1 .. n |-> fed + i]
      /\ pc' = "write" => ~MustRotate
  BY DEF Ingest, memory, disk
<1>2. Len(chunk') = n /\ n <= MaxChunk
  BY <1>1
<1>3. CASE faults = 0
  <2>1. DirectoryIsListed'
    BY <1>1, <1>3 DEF EvictionKeepsUp, DirectoryIsListed
  <2>2. Stored' = Stored
    BY <1>1, SameStored
  <2>3. pc' = "write" => Last(segments).len < SegmentBytes
    <3>. SUFFICES ASSUME pc' = "write" PROVE Last(segments).len < SegmentBytes
      OBVIOUS
    <3>1. segments # <<>> /\ ~(Last(segments).len >= SegmentBytes)
      BY <1>1 DEF MustRotate
    <3>2. Last(segments).len \in Nat /\ SegmentBytes \in Nat
      BY <3>1, LastSegment, BoundsAreNormalized DEF IndInv, TypeOK
    <3>. QED
      BY <3>1, <3>2
  <2>. QED
    BY <1>1, <1>2, <1>3, <2>1, <2>2, <2>3 DEF EvictionKeepsUp, Limit, Allowed
<1>4. CASE faults # 0
  BY <1>1, <1>4 DEF EvictionKeepsUp
<1>. QED
  BY <1>3, <1>4

\* A rotation lists the empty file it opens.
LEMMA RotateKeeps == ASSUME IndInv, IndInv', EvictionKeepsUp, Rotate PROVE EvictionKeepsUp'
<1>1. /\ pc = "rotate" /\ pc' = "write" /\ lost' = 0
      /\ UNCHANGED <<chunk, faults, crashes>>
      /\ segments' = Append(segments, [start |-> End, len |-> 0])
      /\ files' = IF End \in DOMAIN files THEN files ELSE Put(files, End, <<>>)
  BY DEF Rotate, hand, bounds
<1>2. SUFFICES ASSUME faults = 0 PROVE EvictionKeepsUp'
  BY <1>1 DEF EvictionKeepsUp
<1>3. /\ segments \in Seq(Segment) /\ Len(segments) \in Nat /\ End \in Nat
      /\ DOMAIN segments = 1 .. Len(segments)
      /\ \A f \in DOMAIN files : Len(files[f]) \in Nat
  BY EndType, LenProperties DEF IndInv, TypeOK
<1>4. [start |-> End, len |-> 0] \in Segment
  BY <1>3 DEF Segment
<1>5. /\ Len(segments') = Len(segments) + 1
      /\ DOMAIN segments' = 1 .. Len(segments) + 1
      /\ \A i \in DOMAIN segments : segments'[i] = segments[i]
      /\ segments'[Len(segments) + 1] = [start |-> End, len |-> 0]
      /\ Last(segments') = [start |-> End, len |-> 0]
  <2>1. segments' \in Seq(Segment) /\ Len(segments') = Len(segments) + 1
    BY <1>1, <1>3, <1>4, AppendProperties
  <2>. QED
    BY <1>1, <1>3, <1>4, <2>1, AppendProperties, LenProperties DEF Last
<1>6. \A f \in DOMAIN files' :
         \/ f \in DOMAIN files /\ f # End /\ files'[f] = files[f]
         \/ f = End /\ Len(files'[f]) = 0
  <2>. SUFFICES ASSUME NEW f \in DOMAIN files'
                PROVE  \/ f \in DOMAIN files /\ f # End /\ files'[f] = files[f]
                       \/ f = End /\ Len(files'[f]) = 0
    OBVIOUS
  <2>1. CASE f # End
    BY <1>1, <2>1 DEF Put
  <2>2. CASE f = End /\ End \in DOMAIN files
    <3>1. End + Len(files[End]) <= End
      BY <1>1, <2>2 DEF IndInv, NewestFileIsListed
    <3>. QED
      BY <1>1, <1>3, <2>2, <3>1
  <2>3. CASE f = End /\ End \notin DOMAIN files
    <3>1. files'[f] = <<>>
      BY <1>1, <2>3 DEF Put
    <3>. QED
      BY <2>3, <3>1
  <2>. QED
    BY <2>1, <2>2, <2>3
<1>7. DirectoryIsListed'
  <2>. SUFFICES ASSUME NEW f \in DOMAIN files'
                PROVE  \E i \in DOMAIN segments' :
                          segments'[i] = [start |-> f, len |-> Len(files'[f])]
    BY DEF DirectoryIsListed
  <2>1. CASE f \in DOMAIN files /\ files'[f] = files[f]
    <3>1. PICK i \in DOMAIN segments : segments[i] = [start |-> f, len |-> Len(files[f])]
      BY <1>1, <1>2, <2>1 DEF EvictionKeepsUp, DirectoryIsListed
    <3>2. i \in DOMAIN segments' /\ segments'[i] = segments[i]
      BY <1>3, <1>5
    <3>. QED
      BY <2>1, <3>1, <3>2
  <2>2. CASE f = End /\ Len(files'[f]) = 0
    BY <1>3, <1>5, <2>2
  <2>. QED
    BY <1>6, <2>1, <2>2
<1>8. Stored' <= Stored /\ Stored' \in Nat /\ Stored \in Nat
  <2>1. \A f \in DOMAIN files' : \/ Len(files'[f]) = 0
                                 \/ f \in DOMAIN files /\ Len(files'[f]) <= Len(files[f])
    BY <1>3, <1>6
  <2>. QED
    BY <2>1, NoMoreStored
<1>9. \A f \in DOMAIN files' : Len(files'[f]) < SegmentBytes + MaxChunk
  BY <1>2, <1>6, EvictionTypes, BoundsAreNormalized DEF EvictionKeepsUp
<1>10. Last(segments').len < SegmentBytes
  BY <1>5, BoundsAreNormalized
<1>11. Stored <= Allowed(crashes) /\ Len(chunk) <= MaxChunk
  BY <1>1, <1>2 DEF EvictionKeepsUp
<1>12. Stored' <= Allowed(crashes)
  BY <1>8, <1>11, EvictionTypes
<1>. QED
  BY <1>1, <1>7, <1>9, <1>10, <1>11, <1>12 DEF EvictionKeepsUp, Limit, Allowed

\* A write lengthens a file that was not full, and its segment with it.
LEMMA WriteKeeps == ASSUME IndInv, IndInv', EvictionKeepsUp, Write PROVE EvictionKeepsUp'
<1>. DEFINE last == Last(segments).start
            n == Len(segments)
<1>1. /\ pc = "write" /\ pc' = "evict" /\ UNCHANGED <<lost, chunk, faults, crashes>>
      /\ files' = [files EXCEPT ![last] = @ \o chunk]
      /\ segments' = [segments EXCEPT ![n].len = @ + Len(chunk)]
  BY DEF Write, hand, bounds
<1>2. SUFFICES ASSUME faults = 0 PROVE EvictionKeepsUp'
  BY <1>1 DEF EvictionKeepsUp
<1>3. /\ segments \in Seq(Segment) /\ segments # <<>> /\ chunk \in Seq(Nat)
      /\ n \in DOMAIN segments /\ Last(segments) = segments[n] /\ segments[n] \in Segment
  <2>1. segments \in Seq(Segment) /\ segments # <<>> /\ chunk \in Seq(Nat)
    BY <1>1 DEF IndInv, TypeOK, HandIsConsistent
  <2>. QED
    BY <2>1, LastSegment
<1>4. /\ last \in DOMAIN files /\ DOMAIN files' = DOMAIN files
      /\ \A f \in DOMAIN files : f # last => files'[f] = files[f]
      /\ Len(files'[last]) = Len(files[last]) + Len(chunk)
      /\ Last(segments).len = Len(files[last])
  <2>. HIDE DEF last
  <2>1. Len(chunk) <= Len(chunk) /\ \A i \in DOMAIN chunk : chunk[i] = chunk[i]
    BY EvictionTypes
  <2>2. files' = [files EXCEPT ![Last(segments).start] = @ \o chunk]
    BY <1>1 DEF last
  <2>. QED
    BY <1>1, <1>3, <2>1, <2>2, ExtendLemma DEF last
<1>5. /\ DOMAIN segments' = DOMAIN segments
      /\ \A i \in DOMAIN segments : i # n => segments'[i] = segments[i]
      /\ segments'[n] = [start |-> last, len |-> Len(files'[last])]
  <2>1. segments[n] = [start |-> last, len |-> Len(files[last])]
    BY <1>3, <1>4 DEF Segment
  <2>. HIDE DEF last, n
  <2>2. segments'[n] = [segments[n] EXCEPT !.len = @ + Len(chunk)]
    BY <1>1, <1>3
  <2>. QED
    BY <1>1, <1>3, <1>4, <2>1, <2>2
<1>. HIDE DEF last, n
<1>6. DirectoryIsListed'
  <2>. SUFFICES ASSUME NEW f \in DOMAIN files
                PROVE  \E i \in DOMAIN segments' :
                          segments'[i] = [start |-> f, len |-> Len(files'[f])]
    BY <1>4 DEF DirectoryIsListed
  <2>1. CASE f = last
    BY <1>3, <1>5, <2>1
  <2>2. CASE f # last
    <3>1. PICK i \in DOMAIN segments : segments[i] = [start |-> f, len |-> Len(files[f])]
      BY <1>1, <1>2 DEF EvictionKeepsUp, DirectoryIsListed
    <3>2. i # n
      BY <1>3, <2>2, <3>1 DEF last
    <3>. QED
      BY <1>4, <1>5, <2>2, <3>1, <3>2
  <2>. QED
    BY <2>1, <2>2
<1>7. \A f \in DOMAIN files' : Len(files'[f]) < SegmentBytes + MaxChunk
  <2>. SUFFICES ASSUME NEW f \in DOMAIN files PROVE Len(files'[f]) < SegmentBytes + MaxChunk
    BY <1>4
  <2>1. /\ Len(files[f]) < SegmentBytes + MaxChunk /\ Len(files[last]) < SegmentBytes
        /\ Len(chunk) <= MaxChunk
    BY <1>1, <1>2, <1>4 DEF EvictionKeepsUp
  <2>2. CASE f = last
    BY <1>4, <2>1, <2>2, EvictionTypes
  <2>3. CASE f # last
    BY <1>4, <2>1, <2>3
  <2>. QED
    BY <2>2, <2>3
<1>8. Stored' <= Allowed(1 + crashes)
  <2>1. Stored <= Allowed(crashes) /\ Len(chunk) <= MaxChunk
    BY <1>1, <1>2 DEF EvictionKeepsUp
  <2>2. Stored' = Stored + Len(chunk) /\ Stored \in Nat
    BY WriteStores
  <2>. QED
    BY <2>1, <2>2, EvictionTypes
<1>. QED
  BY <1>1, <1>2, <1>6, <1>7, <1>8 DEF EvictionKeepsUp, Limit, Allowed

\* An eviction takes the oldest segment and its file together.
LEMMA EvictKeeps == ASSUME IndInv, IndInv', EvictionKeepsUp, Evict PROVE EvictionKeepsUp'
<1>1. /\ pc = "evict" /\ pc' = "evict" /\ UNCHANGED <<lost, chunk, faults, crashes>>
      /\ segments' = Tail(segments) /\ Len(segments) > 1
      /\ files' = [f \in DOMAIN files \ {Start} |-> files[f]]
  BY DEF Evict, MustEvict, hand, bounds
<1>2. SUFFICES ASSUME faults = 0 PROVE EvictionKeepsUp'
  BY <1>1 DEF EvictionKeepsUp
<1>3. /\ segments \in Seq(Segment) /\ segments # <<>> /\ Len(segments) \in Nat
  BY <1>1, LenProperties DEF IndInv, TypeOK, HandIsConsistent
<1>4. /\ DOMAIN segments = 1 .. Len(segments) /\ DOMAIN segments' = 1 .. Len(segments) - 1
      /\ \A i \in DOMAIN segments' : segments'[i] = segments[i + 1]
      /\ Start = segments[1].start
  BY <1>1, <1>3, TailLemma DEF Start
<1>5. \A f \in DOMAIN files' : f \in DOMAIN files /\ f # Start /\ files'[f] = files[f]
  BY <1>1
<1>6. DirectoryIsListed'
  <2>. SUFFICES ASSUME NEW f \in DOMAIN files'
                PROVE  \E i \in DOMAIN segments' :
                          segments'[i] = [start |-> f, len |-> Len(files'[f])]
    BY DEF DirectoryIsListed
  <2>1. PICK i \in DOMAIN segments : segments[i] = [start |-> f, len |-> Len(files[f])]
    BY <1>1, <1>2, <1>5 DEF EvictionKeepsUp, DirectoryIsListed
  <2>2. i # 1
    BY <1>4, <1>5, <2>1
  <2>3. i - 1 \in DOMAIN segments' /\ segments'[i - 1] = segments[i]
    BY <1>3, <1>4, <2>2
  <2>. QED
    BY <1>5, <2>1, <2>3
<1>7. Stored' <= Stored /\ Stored' \in Nat /\ Stored \in Nat
  <2>1. \A f \in DOMAIN files' : f \in DOMAIN files /\ Len(files'[f]) <= Len(files[f])
    BY <1>5, EvictionTypes
  <2>. QED
    BY <2>1, NoMoreStored
<1>8. Stored <= Allowed(1 + crashes)
  BY <1>1, <1>2 DEF EvictionKeepsUp
<1>9. Stored' <= Allowed(1 + crashes)
  BY <1>7, <1>8, EvictionTypes
<1>10. \A f \in DOMAIN files' : Len(files'[f]) < SegmentBytes + MaxChunk
  BY <1>2, <1>5 DEF EvictionKeepsUp
<1>. QED
  BY <1>1, <1>2, <1>6, <1>9, <1>10 DEF EvictionKeepsUp, Limit, Allowed

\* When evict() is done, the directory is within the limit.
LEMMA EvictDoneKeeps == ASSUME IndInv, IndInv', EvictionKeepsUp, EvictDone PROVE EvictionKeepsUp'
<1>1. /\ pc = "evict" /\ pc' = "sync" /\ ~MustEvict
      /\ UNCHANGED <<segments, lost, files, chunk, faults, crashes>>
  BY DEF EvictDone, memory, disk, hand, bounds
<1>2. SUFFICES ASSUME faults = 0 PROVE EvictionKeepsUp'
  BY <1>1 DEF EvictionKeepsUp
<1>3. Stored \in Nat /\ Retained \in Nat /\ Stored <= Retained
  BY <1>1, <1>2, ListedIsRetained DEF EvictionKeepsUp
<1>4. segments \in Seq(Segment) /\ segments # <<>> /\ Len(segments) \in Nat \ {0}
  <2>1. segments \in Seq(Segment) /\ segments # <<>>
    BY <1>1 DEF IndInv, TypeOK, HandIsConsistent
  <2>. QED
    BY <2>1, LastSegment
<1>5. Retained <= Limit
  <2>1. CASE Len(segments) > 1
    <3>1. ~(Retained > MaxBytes)
      BY <1>1, <2>1 DEF MustEvict
    <3>. QED
      BY <1>3, <3>1, EvictionTypes
  <2>2. CASE Len(segments) = 1
    <3>1. Retained = segments[1].len /\ 1 \in DOMAIN segments
      BY <1>4, <2>2, OneRetained, LenProperties
    <3>2. /\ segments[1].start \in DOMAIN files
          /\ segments[1].len <= Len(files[segments[1].start])
      BY <3>1 DEF IndInv, ListMatchesDirectory
    <3>3. Len(files[segments[1].start]) < SegmentBytes + MaxChunk
      BY <1>2, <3>2 DEF EvictionKeepsUp
    <3>4. /\ Len(files[segments[1].start]) \in Nat /\ Limit \in Nat
          /\ SegmentBytes \in Nat /\ MaxChunk \in Nat /\ SegmentBytes + MaxChunk <= Limit + 1
      BY <3>2, EvictionTypes
    <3>. QED
      BY <1>3, <3>1, <3>2, <3>3, <3>4
  <2>3. Len(segments) > 1 \/ Len(segments) = 1
    <3>1. PICK n \in Nat \ {0} : n = Len(segments)
      BY <1>4
    <3>2. n > 1 \/ n = 1
      OBVIOUS
    <3>. QED
      BY <3>1, <3>2
  <2>. QED
    BY <2>1, <2>2, <2>3
<1>6. Stored <= Limit
  BY <1>3, <1>5, EvictionTypes
<1>7. Stored' = Stored
  BY <1>1, SameStored
<1>8. DirectoryIsListed'
  BY <1>1, <1>2 DEF EvictionKeepsUp, DirectoryIsListed
<1>. QED
  BY <1>1, <1>2, <1>6, <1>7, <1>8 DEF EvictionKeepsUp, Limit, Allowed

\* An append that ends leaves no chunk in hand.
LEMMA FinishKeeps == ASSUME IndInv, IndInv', EvictionKeepsUp, FinishAppend PROVE EvictionKeepsUp'
<1>1. /\ pc = "sync" /\ pc' = "idle" /\ chunk' = <<>>
      /\ UNCHANGED <<segments, lost, files, faults, crashes>>
  BY DEF FinishAppend, Announce
<1>2. SUFFICES ASSUME faults = 0 PROVE EvictionKeepsUp'
  BY <1>1 DEF EvictionKeepsUp
<1>3. Stored' = Stored /\ Stored \in Nat
  BY <1>1, SameStored, StoredPlaces DEF StoredIsPlaces
<1>4. Stored <= Limit
  BY <1>1, <1>2 DEF EvictionKeepsUp
<1>5. Stored <= Allowed(crashes)
  BY <1>3, <1>4, EvictionTypes
<1>6. DirectoryIsListed'
  BY <1>1, <1>2 DEF EvictionKeepsUp, DirectoryIsListed
<1>7. Len(chunk') <= MaxChunk
  BY <1>1, BoundsAreNormalized
<1>. QED
  BY <1>1, <1>2, <1>3, <1>5, <1>6, <1>7 DEF EvictionKeepsUp, Limit, Allowed

\* A sync between two appends, and a step that changes nothing.
LEMMA QuietKeeps ==
    ASSUME IndInv, IndInv', EvictionKeepsUp,
           UNCHANGED <<segments, lost, files, pc, chunk, faults, crashes>>
    PROVE  EvictionKeepsUp'
<1>1. Stored' = Stored /\ Limit' = Limit
  BY SameStored DEF Limit
<1>2. DirectoryIsListed' <=> DirectoryIsListed
  BY DEF DirectoryIsListed
<1>. QED
  BY <1>1, <1>2 DEF EvictionKeepsUp

\* A holder that dies between a write and the eviction leaves one chunk too many.
LEMMA DieKeeps ==
    ASSUME IndInv, IndInv', EvictionKeepsUp, Die,
           \A f \in DOMAIN files' : f \in DOMAIN files /\ Len(files'[f]) <= Len(files[f])
    PROVE  EvictionKeepsUp'
<1>1. /\ crashes' = crashes + 1 /\ pc' = "down" /\ lost' = 0 /\ chunk' = <<>>
      /\ UNCHANGED faults
  BY DEF Die
<1>2. SUFFICES ASSUME faults = 0 PROVE EvictionKeepsUp'
  BY <1>1 DEF EvictionKeepsUp
<1>3. Stored' <= Stored /\ Stored \in Nat /\ Stored' \in Nat
  BY NoMoreStored
<1>4. Stored <= Allowed(1 + crashes)
  <2>1. CASE pc = "evict"
    BY <1>2, <2>1 DEF EvictionKeepsUp
  <2>2. CASE pc = "sync"
    <3>1. Stored <= Limit
      BY <1>2, <2>2 DEF EvictionKeepsUp
    <3>. QED
      BY <1>3, <3>1, EvictionTypes
  <2>3. CASE pc \notin {"evict", "sync"}
    <3>1. Stored <= Allowed(crashes)
      BY <1>2, <2>3 DEF EvictionKeepsUp
    <3>. QED
      BY <1>3, <3>1, EvictionTypes
  <2>. QED
    BY <2>1, <2>2, <2>3
<1>5. Stored' <= Allowed(1 + crashes)
  BY <1>3, <1>4, EvictionTypes
<1>6. Allowed(crashes') = Allowed(1 + crashes)
  <2>1. crashes' = 1 + crashes
    BY <1>1, EvictionTypes
  <2>. QED
    BY <2>1
<1>7. \A f \in DOMAIN files' : Len(files'[f]) < SegmentBytes + MaxChunk
  <2>. SUFFICES ASSUME NEW f \in DOMAIN files' PROVE Len(files'[f]) < SegmentBytes + MaxChunk
    OBVIOUS
  <2>1. /\ f \in DOMAIN files /\ Len(files'[f]) <= Len(files[f])
        /\ Len(files[f]) < SegmentBytes + MaxChunk
    BY <1>2 DEF EvictionKeepsUp
  <2>2. Len(files'[f]) \in Nat
    BY LenProperties DEF IndInv, TypeOK
  <2>. QED
    BY <2>1, <2>2, EvictionTypes
<1>8. Len(chunk') <= MaxChunk
  BY <1>1, BoundsAreNormalized
<1>9. DirectoryIsListed'
  BY <1>1 DEF DirectoryIsListed
<1>. QED
  BY <1>1, <1>5, <1>6, <1>7, <1>8, <1>9 DEF EvictionKeepsUp, Limit, Allowed

LEMMA MachineKeeps == ASSUME IndInv, IndInv', EvictionKeepsUp, MachineDies PROVE EvictionKeepsUp'
<1>1. PICK kept \in [DOMAIN files -> 0 .. MaxFed] :
         /\ \A f \in DOMAIN files : kept[f] \in DurableLength(f) .. Len(files[f])
         /\ files' = [f \in DOMAIN files |-> SubSeq(files[f], 1, kept[f])]
  BY DEF MachineDies
<1>2. ASSUME NEW f \in DOMAIN files'
      PROVE  f \in DOMAIN files /\ Len(files'[f]) <= Len(files[f])
  <2>1. /\ f \in DOMAIN files /\ files'[f] = SubSeq(files[f], 1, kept[f])
        /\ files[f] \in Seq(Nat) /\ kept[f] \in Nat /\ kept[f] <= Len(files[f])
    <3>1. f \in DOMAIN files /\ files'[f] = SubSeq(files[f], 1, kept[f])
      BY <1>1
    <3>2. files[f] \in Seq(Nat) /\ Len(files[f]) \in Nat
      BY <3>1, LenProperties DEF IndInv, TypeOK
    <3>3. kept[f] \in Nat /\ kept[f] \in DurableLength(f) .. Len(files[f]) /\ DurableLength(f) \in Nat
      BY <1>1, <3>1 DEF DurableLength, IndInv, TypeOK
    <3>. QED
      BY <3>1, <3>2, <3>3
  <2>2. Len(SubSeq(files[f], 1, kept[f])) = kept[f]
    BY <2>1, SubSeqProperties
  <2>. QED
    BY <2>1, <2>2
<1>3. Die
  BY DEF MachineDies
<1>. QED
  BY <1>2, <1>3, DieKeeps

LEMMA EvictionInd ==
    ASSUME IndInv, IndInv', EvictionKeepsUp, [Next]_vars PROVE EvictionKeepsUp'
<1>1. CASE RotateFails \/ WriteFails \/ EvictFails \/ SyncFails
  BY <1>1, FailureKeeps DEF RotateFails, WriteFails, EvictFails, SyncFails
<1>2. CASE Open
  BY <1>2, OpenKeeps
<1>3. CASE \E n \in 1 .. MaxChunk : Ingest(n)
  BY <1>3, IngestKeeps
<1>4. CASE Rotate
  BY <1>4, RotateKeeps
<1>5. CASE Write
  BY <1>5, WriteKeeps
<1>6. CASE Evict
  BY <1>6, EvictKeeps
<1>7. CASE EvictDone
  BY <1>7, EvictDoneKeeps
<1>8. CASE FinishAppend
  BY <1>8, FinishKeeps
<1>9. CASE Sync
  BY <1>9, QuietKeeps DEF Sync, hand, bounds
<1>10. CASE HolderDies
  <2>1. Die /\ UNCHANGED files
    BY <1>10 DEF HolderDies, disk
  <2>2. \A f \in DOMAIN files' : f \in DOMAIN files /\ Len(files'[f]) <= Len(files[f])
    BY <2>1, EvictionTypes
  <2>. QED
    BY <2>1, <2>2, DieKeeps
<1>11. CASE MachineDies
  BY <1>11, MachineKeeps
<1>12. CASE UNCHANGED vars
  BY <1>12, QuietKeeps DEF vars, memory, disk, hand, bounds
<1>. QED
  BY <1>1, <1>2, <1>3, <1>4, <1>5, <1>6, <1>7, <1>8, <1>9, <1>10, <1>11, <1>12 DEF Next

\* An empty directory is within the limit.
LEMMA EvictionInit == Init => EvictionKeepsUp
<1>. SUFFICES ASSUME Init PROVE EvictionKeepsUp
  OBVIOUS
<1>1. /\ pc = "down" /\ lost = 0 /\ chunk = <<>> /\ files = <<>> /\ crashes = 0
  BY DEF Init
<1>2. IndInv
  BY InitInd
<1>3. Stored = 0
  <2>1. DOMAIN files = {}
    BY <1>1
  <2>2. Places(FileSizes, DOMAIN files) = {}
    BY <2>1 DEF Places
  <2>. QED
    BY <1>2, <2>2, StoredPlaces, FS_EmptySet DEF StoredIsPlaces
<1>4. Stored <= Allowed(crashes)
  BY <1>2, <1>3, EvictionTypes
<1>5. Len(chunk) <= MaxChunk /\ DOMAIN files = {}
  BY <1>1, BoundsAreNormalized
<1>. QED
  BY <1>1, <1>4, <1>5 DEF EvictionKeepsUp, DirectoryIsListed

\* While no call of the journal fails, the files of a pane never hold more than the limit its
\* eviction keeps, the chunk being written, and one chunk for each holder that died before it evicted.
THEOREM DirectoryStaysSmall == Spec => []DiskIsBounded
<1>1. EvictionKeepsUp /\ IndInv => DiskIsBounded
  <2>. SUFFICES ASSUME EvictionKeepsUp, IndInv, faults = 0
                PROVE  Stored <= Allowed(1 + crashes)
    BY DEF DiskIsBounded
  <2>1. Stored \in Nat
    BY StoredPlaces DEF StoredIsPlaces
  <2>2. CASE pc = "evict"
    BY <2>2 DEF EvictionKeepsUp
  <2>3. CASE pc # "evict"
    <3>1. Stored <= Limit \/ Stored <= Allowed(crashes)
      BY <2>3 DEF EvictionKeepsUp
    <3>. QED
      BY <2>1, <3>1, EvictionTypes
  <2>. QED
    BY <2>2, <2>3
<1>2. IndInv /\ IndInv' /\ EvictionKeepsUp /\ [Next]_vars => EvictionKeepsUp'
  BY EvictionInd
<1>. QED
  BY <1>1, <1>2, EvictionInit, Inductive, PTL DEF Spec


----------------------------------------------------------------------------
(* Replays.                                                                *)

\* What is known of the list of segments.
LEMMA ListFacts ==
    ASSUME IndInv
    PROVE  /\ Len(segments) \in Nat /\ DOMAIN segments = 1 .. Len(segments)
           /\ End \in Nat /\ Start \in Nat
           /\ \A i \in DOMAIN segments :
                 /\ segments[i].start \in Nat /\ segments[i].len \in Nat
                 /\ SegEnd(segments[i]) = segments[i].start + segments[i].len
                 /\ Start <= segments[i].start /\ SegEnd(segments[i]) <= End
           /\ \A i, j \in DOMAIN segments : i < j => SegEnd(segments[i]) <= segments[j].start
<1>1. /\ segments \in Seq(Segment) /\ Len(segments) \in Nat
      /\ DOMAIN segments = 1 .. Len(segments) /\ End \in Nat /\ lost \in Nat
  BY EndType, LenProperties DEF IndInv, TypeOK
<1>2. \A i \in DOMAIN segments : /\ segments[i].start \in Nat /\ segments[i].len \in Nat
                                 /\ SegEnd(segments[i]) = segments[i].start + segments[i].len
  <2>1. \A i \in DOMAIN segments : segments[i] \in Segment
    BY <1>1, ElementOfSeq
  <2>. QED
    BY <2>1 DEF Segment, SegEnd
<1>3. \A i, j \in DOMAIN segments : i < j => /\ SegEnd(segments[i]) <= segments[j].start
                                             /\ segments[i].start < segments[j].start
  BY DEF IndInv, ListIsSorted
<1>4. CASE segments = <<>>
  BY <1>1, <1>4 DEF Start
<1>5. CASE segments # <<>>
  <2>. DEFINE n == Len(segments)
  <2>1. /\ n \in Nat \ {0} /\ 1 \in DOMAIN segments /\ n \in DOMAIN segments
        /\ Last(segments) = segments[n]
    BY <1>1, <1>5, LastSegment
  <2>2. Start = segments[1].start
    BY <1>5 DEF Start
  <2>3. End = SegEnd(segments[n]) + lost
    BY <1>5, <2>1 DEF End
  <2>. HIDE DEF n
  <2>4. ASSUME NEW i \in DOMAIN segments
        PROVE  Start <= segments[i].start /\ SegEnd(segments[i]) <= End
    <3>1. i \in Nat /\ 1 <= i /\ i <= n
      BY <1>1 DEF n
    <3>2. segments[1].start <= segments[i].start
      <4>1. CASE i = 1
        BY <1>2, <4>1
      <4>2. CASE 1 < i
        BY <1>2, <1>3, <2>1, <4>2
      <4>. QED
        BY <3>1, <4>1, <4>2
    <3>3. SegEnd(segments[i]) <= SegEnd(segments[n])
      <4>1. CASE i = n
        BY <1>2, <2>1, <4>1
      <4>2. CASE i < n
        <5>1. SegEnd(segments[i]) <= segments[n].start
          BY <1>3, <2>1, <4>2
        <5>. QED
          BY <1>2, <2>1, <5>1
      <4>. QED
        BY <2>1, <3>1, <4>1, <4>2
    <3>. QED
      BY <1>1, <1>2, <2>1, <2>2, <2>3, <3>2, <3>3
  <2>5. Start \in Nat
    BY <1>2, <2>1, <2>2
  <2>. QED
    BY <1>1, <1>2, <1>3, <2>4, <2>5
<1>. QED
  BY <1>4, <1>5

\* A chunk with the bytes that were read for its offsets, sent for offset `from`: all that
\* the list holds from there to the chunk's end, and at least one byte.
Chunk == [at : Nat, data : Seq(Nat)]
ChunkEnd(c) == c.at + Len(c.data)

Serves(c, from, end) ==
    /\ c \in Chunk
    /\ from <= c.at /\ c.at < ChunkEnd(c) /\ ChunkEnd(c) <= end
    /\ \A o \in Offsets(c) : o \in Listed
    /\ \A o \in Listed : from <= o /\ o < ChunkEnd(c) => o \in Offsets(c)
    /\ \A k \in DOMAIN c.data : c.data[k] = origin[c.at + k - 1]

\* read_from returns such a chunk, or nothing when the list holds nothing more.
Reads(read, end) ==
    \A from \in 0 .. end :
        IF read[from].data = <<>> THEN \A o \in Listed : o < from
                                  ELSE Serves(read[from], from, end)

LEMMA LeastPlace ==
    ASSUME NEW I, I \subseteq Nat, I # {} PROVE Min(I) \in I /\ \A i \in I : Min(I) <= i
<1>1. \E x \in I : \A y \in I : x <= y
  BY LeastNumber
<1>. QED
  BY <1>1 DEF Min

\* A part of a file that starts at offset a, by offsets.
LEMMA PartOfFile ==
    ASSUME NEW f \in Seq(Nat), NEW a \in Nat, NEW first \in Nat, NEW upto \in Nat,
           a <= first, first < upto, upto <= a + Len(f)
    PROVE  LET part == SubSeq(f, first - a + 1, upto - a)
           IN /\ part \in Seq(Nat) /\ Len(part) = upto - first /\ DOMAIN part = 1 .. upto - first
              /\ \A k \in 1 .. upto - first :
                    /\ part[k] = f[first - a + k]
                    /\ first - a + k \in DOMAIN f
                    /\ a + (first - a + k) - 1 = first + k - 1
<1>. DEFINE m == first - a + 1
            n == upto - a
            part == SubSeq(f, m, n)
<1>1. Len(f) \in Nat /\ DOMAIN f = 1 .. Len(f)
  BY LenProperties
<1>2. /\ m \in 1 .. Len(f) + 1 /\ n \in m - 1 .. Len(f) /\ m \in Nat /\ n \in Nat
      /\ n - m + 1 = upto - first
  BY <1>1
<1>3. /\ part \in Seq(Nat) /\ Len(part) = n - m + 1
      /\ \A k \in 1 .. n - m + 1 : part[k] = f[m + k - 1]
  <2>. HIDE DEF m, n
  <2>. QED
    BY <1>1, <1>2, SubSeqProperties
<1>4. \A k \in 1 .. upto - first :
         /\ m + k - 1 = first - a + k
         /\ first - a + k \in 1 .. Len(f)
         /\ a + (first - a + k) - 1 = first + k - 1
  BY <1>1
<1>5. DOMAIN part = 1 .. upto - first
  BY <1>2, <1>3, LenProperties
<1>. QED
  BY <1>1, <1>2, <1>3, <1>4, <1>5

LEMMA ReadsNext ==
    ASSUME IndInv, NEW max \in Nat \ {0}, NEW from \in 0 .. End
    PROVE  IF ReadFrom(from, max).data = <<>>
           THEN \A o \in Listed : o < from
           ELSE Serves(ReadFrom(from, max), from, End)
<1>. DEFINE n == Len(segments)
            wanted == IF from >= Start THEN from ELSE Start
            I == {i \in 1 .. n : HasPast(segments[i], wanted)}
<1>0. from \in Nat /\ End \in Nat /\ from <= End
  BY ListFacts
<1>1. wanted \in Nat /\ from <= wanted /\ Start <= wanted
  BY <1>0, ListFacts
<1>2. \A o \in Listed : o \in Nat /\ o < End
  BY ListFacts DEF Listed
<1>3. ASSUME NEW o \in Listed, from <= o, NEW i \in DOMAIN segments,
             segments[i].start <= o, o < SegEnd(segments[i])
      PROVE  i \in I /\ wanted <= o
  <2>1. o \in Nat /\ wanted <= o
    BY <1>0, <1>2, <1>3, ListFacts
  <2>2. wanted < SegEnd(segments[i]) /\ segments[i].len > 0 /\ i \in 1 .. n
    BY <1>1, <1>3, <2>1, ListFacts
  <2>. QED
    BY <2>1, <2>2 DEF HasPast
<1>. HIDE DEF wanted
<1>4. CASE wanted >= End \/ I = {}
  <2>1. ReadFrom(from, max) = Nothing
    BY <1>4, ListFacts DEF ReadFrom, wanted
  <2>2. ASSUME NEW o \in Listed, ~(o < from) PROVE FALSE
    <3>1. from <= o /\ o \in Nat /\ o < End
      BY <1>0, <1>2, <2>2
    <3>2. PICK i \in DOMAIN segments : segments[i].start <= o /\ o < SegEnd(segments[i])
      BY DEF Listed
    <3>3. i \in I /\ wanted <= o
      BY <1>3, <3>1, <3>2
    <3>. QED
      BY <1>0, <1>1, <1>4, <3>1, <3>3
  <2>. QED
    BY <2>1, <2>2 DEF Nothing
<1>5. CASE ~(wanted >= End) /\ I # {}
  <2>. DEFINE s == Min(I)
              seg == segments[s]
              first == IF wanted >= seg.start THEN wanted ELSE seg.start
              upto == IF SegEnd(seg) - first <= max THEN SegEnd(seg) ELSE first + max
              data == SubSeq(files[seg.start], first - seg.start + 1, upto - seg.start)
  <2>1. s \in I /\ \A i \in I : s <= i
    BY <1>5, LeastPlace
  <2>2. ReadFrom(from, max) = [at |-> first, data |-> data]
    <3>1. SelectInSeq(segments, LAMBDA x : HasPast(x, wanted)) = s
      BY <1>5 DEF SelectInSeq
    <3>2. ~(wanted >= End \/ ~ \E i \in DOMAIN segments : HasPast(segments[i], wanted))
      BY <1>5, ListFacts
    <3>. QED
      BY <3>1, <3>2 DEF ReadFrom, wanted
  <2>3. /\ s \in DOMAIN segments /\ s \in Nat /\ wanted < SegEnd(seg) /\ seg.len > 0
        /\ seg.start \in Nat /\ seg.len \in Nat /\ SegEnd(seg) = seg.start + seg.len
        /\ SegEnd(seg) <= End
    BY <2>1, ListFacts DEF HasPast
  <2>4. /\ seg.start \in DOMAIN files /\ files[seg.start] \in Seq(Nat)
        /\ Len(files[seg.start]) \in Nat
        /\ DOMAIN files[seg.start] = 1 .. Len(files[seg.start])
        /\ seg.len <= Len(files[seg.start])
    BY <2>3, LenProperties DEF IndInv, TypeOK, ListMatchesDirectory
  <2>. HIDE DEF s, seg
  <2>5. /\ first \in Nat /\ upto \in Nat /\ wanted <= first /\ seg.start <= first
        /\ first < upto /\ upto <= SegEnd(seg)
        /\ first = wanted \/ first = seg.start
    BY <1>1, <2>3
  <2>. HIDE DEF first, upto
  <2>6. /\ data \in Seq(Nat) /\ Len(data) = upto - first /\ DOMAIN data = 1 .. upto - first
        /\ \A k \in 1 .. upto - first :
              /\ data[k] = files[seg.start][first - seg.start + k]
              /\ first - seg.start + k \in DOMAIN files[seg.start]
              /\ seg.start + (first - seg.start + k) - 1 = first + k - 1
    <3>1. PICK a \in Nat : a = seg.start
      BY <2>3
    <3>2. PICK f \in Seq(Nat) : f = files[a]
      BY <2>4, <3>1
    <3>3. a <= first /\ first < upto /\ upto <= a + Len(f)
      BY <2>3, <2>4, <2>5, <3>1, <3>2
    <3>4. data = SubSeq(f, first - a + 1, upto - a)
      BY <3>1, <3>2
    <3>. HIDE DEF data
    <3>5. LET part == SubSeq(f, first - a + 1, upto - a)
          IN /\ part \in Seq(Nat) /\ Len(part) = upto - first /\ DOMAIN part = 1 .. upto - first
             /\ \A k \in 1 .. upto - first :
                   /\ part[k] = f[first - a + k]
                   /\ first - a + k \in DOMAIN f
                   /\ a + (first - a + k) - 1 = first + k - 1
      BY <2>5, <3>3, PartOfFile
    <3>. QED
      BY <3>1, <3>2, <3>4, <3>5
  <2>. HIDE DEF data
  <2>. DEFINE c == [at |-> first, data |-> data]
  <2>7. c \in Chunk /\ c.at = first /\ c.data = data /\ ChunkEnd(c) = upto /\ c.data # <<>>
        /\ Offsets(c) = first .. upto - 1
    <3>1. first + Len(data) = upto
      BY <2>5, <2>6
    <3>2. data # <<>>
      BY <2>5, <2>6
    <3>. QED
      BY <2>5, <2>6, <3>1, <3>2 DEF Chunk, ChunkEnd, Offsets
  <2>8. ASSUME NEW o \in Offsets(c) PROVE o \in Listed
    <3>1. o \in Nat /\ first <= o /\ o < upto
      BY <2>5, <2>7
    <3>2. o \in 0 .. End /\ segments[s].start <= o /\ o < SegEnd(segments[s])
      BY <1>0, <2>3, <2>5, <3>1 DEF seg
    <3>. QED
      BY <2>3, <3>2 DEF Listed
  <2>9. ASSUME NEW o \in Listed, from <= o, o < upto PROVE o \in Offsets(c)
    <3>1. PICK i \in DOMAIN segments : segments[i].start <= o /\ o < SegEnd(segments[i])
      BY DEF Listed
    <3>2. i \in I /\ wanted <= o /\ o \in Nat
      BY <1>2, <1>3, <2>9, <3>1
    <3>3. s <= i /\ i \in Nat
      BY <2>1, <3>2, ListFacts
    <3>4. seg.start <= o
      <4>1. CASE i = s
        BY <3>1, <4>1 DEF seg
      <4>2. CASE s < i
        <5>1. SegEnd(seg) <= segments[i].start /\ segments[i].start \in Nat
          BY <2>3, <4>2, ListFacts DEF seg
        <5>. QED
          BY <2>3, <3>1, <3>2, <5>1
      <4>. QED
        BY <2>3, <3>3, <4>1, <4>2
    <3>5. first <= o
      BY <2>5, <3>2, <3>4
    <3>. QED
      BY <2>5, <2>7, <2>9, <3>2, <3>5
  <2>10. ASSUME NEW k \in DOMAIN data PROVE data[k] = origin[first + k - 1]
    <3>1. /\ data[k] = files[seg.start][first - seg.start + k]
          /\ first - seg.start + k \in DOMAIN files[seg.start]
          /\ seg.start + (first - seg.start + k) - 1 = first + k - 1
      BY <2>6
    <3>2. origin[seg.start + (first - seg.start + k) - 1] = files[seg.start][first - seg.start + k]
      BY <2>4, <3>1 DEF IndInv, FilesAreFaithful
    <3>. QED
      BY <3>1, <3>2
  <2>11. from <= first /\ upto <= End
    BY <1>0, <1>1, <2>3, <2>5
  <2>12. Serves(c, from, End)
    <3>. HIDE DEF c
    <3>. QED
      BY <2>5, <2>7, <2>8, <2>9, <2>10, <2>11 DEF Serves
  <2>. QED
    BY <2>2, <2>7, <2>12
<1>. QED
  BY <1>4, <1>5


\* A replay from each of the offsets k to n sends one chunk and goes on at its end.
IsReplay(g, read, k, n) ==
    g = [from \in k .. n |-> IF read[from].data = <<>> THEN <<>>
                             ELSE <<read[from]>> \o g[ChunkEnd(read[from])]]

\* A chunk ends past the offset it is read for.
Advances(read, n) ==
    \A from \in 0 .. n : read[from].data # <<>> =>
        ChunkEnd(read[from]) \in Nat /\ from < ChunkEnd(read[from]) /\ ChunkEnd(read[from]) <= n

\* So the recursion of the replay ends: there is such a function ...
LEMMA ReplayExists ==
    ASSUME NEW n \in Nat, NEW read, Advances(read, n) PROVE \E g : IsReplay(g, read, 0, n)
<1>. DEFINE T == {j \in Nat : j <= n + 1 /\ ~ \E g : IsReplay(g, read, n + 1 - j, n)}
<1>. SUFFICES ASSUME ~ \E g : IsReplay(g, read, 0, n) PROVE FALSE
  OBVIOUS
<1>1. n + 1 \in T
  BY n + 1 - (n + 1) = 0
<1>2. PICK j \in T : \A i \in T : j <= i
  <2>1. T # {} /\ T \subseteq Nat
    BY <1>1
  <2>. HIDE DEF T
  <2>. QED
    BY <2>1, LeastNumber
<1>. DEFINE k == n + 1 - j
<1>3. j \in Nat /\ j <= n + 1 /\ ~ \E g : IsReplay(g, read, k, n)
  BY <1>2
<1>4. j # 0
  <2>. SUFFICES ASSUME j = 0 PROVE FALSE
    OBVIOUS
  <2>. DEFINE g == [from \in {} |-> <<>>]
  <2>1. k .. n = {}
    OBVIOUS
  <2>2. IsReplay(g, read, k, n)
    BY <2>1 DEF IsReplay
  <2>. QED
    BY <1>3, <2>2
<1>5. PICK g : IsReplay(g, read, k + 1, n)
  <2>1. j - 1 \in Nat /\ j - 1 <= n + 1 /\ n + 1 - (j - 1) = k + 1
    BY <1>3, <1>4
  <2>2. j - 1 \notin T
    BY <1>2, <1>3, <2>1
  <2>. QED
    BY <2>1, <2>2
<1>6. k \in 0 .. n
  BY <1>3, <1>4
<1>. DEFINE h == [from \in k .. n |->
                    IF from = k THEN (IF read[k].data = <<>> THEN <<>>
                                      ELSE <<read[k]>> \o g[ChunkEnd(read[k])])
                    ELSE g[from]]
<1>7. ASSUME NEW from \in k .. n
      PROVE  h[from] = IF read[from].data = <<>> THEN <<>>
                       ELSE <<read[from]>> \o h[ChunkEnd(read[from])]
  <2>1. from \in 0 .. n
    BY <1>6
  <2>2. ASSUME read[from].data # <<>>
        PROVE  h[ChunkEnd(read[from])] = g[ChunkEnd(read[from])]
    <3>1. PICK m \in Nat : m = ChunkEnd(read[from]) /\ from < m /\ m <= n
      BY <2>1, <2>2 DEF Advances
    <3>2. m \in k .. n /\ m # k
      BY <1>6, <2>1, <3>1
    <3>. QED
      BY <3>1, <3>2
  <2>3. CASE from = k
    BY <2>2, <2>3
  <2>4. CASE from # k
    <3>1. from \in k + 1 .. n
      BY <1>6, <2>4
    <3>2. g[from] = IF read[from].data = <<>> THEN <<>>
                    ELSE <<read[from]>> \o g[ChunkEnd(read[from])]
      BY <1>5, <3>1 DEF IsReplay
    <3>. QED
      BY <2>2, <2>4, <3>2
  <2>. QED
    BY <2>3, <2>4
<1>8. IsReplay(h, read, k, n)
  <2>1. h = [from \in k .. n |-> h[from]]
    OBVIOUS
  <2>. HIDE DEF h, k
  <2>2. h = [from \in k .. n |-> IF read[from].data = <<>> THEN <<>>
                                 ELSE <<read[from]>> \o h[ChunkEnd(read[from])]]
    BY <1>7, <2>1, Zenon
  <2>. QED
    BY <2>2, Zenon DEF IsReplay
<1>. QED
  BY <1>3, <1>8

\* A chunk put before a replay that goes on at its end.
LEMMA ServesMore ==
    ASSUME NEW from \in Nat, NEW end \in Nat, NEW c, Serves(c, from, end),
           NEW rest \in Seq(Chunk), Completes(rest, ChunkEnd(c))
    PROVE  <<c>> \o rest \in Seq(Chunk) /\ Completes(<<c>> \o rest, from)
<1>. DEFINE s == <<c>> \o rest
            n == Len(rest)
            after == ChunkEnd(c)
<1>1. /\ c \in Chunk /\ c.at \in Nat /\ after \in Nat /\ from <= c.at /\ c.at < after
      /\ Len(c.data) \in Nat /\ DOMAIN c.data = 1 .. Len(c.data)
      /\ Offsets(c) = c.at .. after - 1
  BY LenProperties DEF Serves, Chunk, ChunkEnd, Offsets
<1>2. n \in Nat /\ DOMAIN rest = 1 .. n
  BY LenProperties
<1>3. /\ s \in Seq(Chunk) /\ DOMAIN s = 1 .. n + 1 /\ s[1] = c
      /\ \A i \in 1 .. n : s[i + 1] = rest[i]
  <2>1. <<c>> \in Seq(Chunk) /\ Len(<<c>>) = 1 /\ <<c>>[1] = c
    BY <1>1
  <2>2. /\ s \in Seq(Chunk) /\ Len(s) = 1 + n
        /\ \A i \in 1 .. 1 + n : s[i] = IF i <= 1 THEN <<c>>[i] ELSE rest[i - 1]
    BY <1>2, <2>1, ConcatProperties
  <2>3. DOMAIN s = 1 .. n + 1
    BY <1>2, <2>2, LenProperties
  <2>4. s[1] = c
    BY <1>2, <2>1, <2>2
  <2>5. ASSUME NEW i \in 1 .. n PROVE s[i + 1] = rest[i]
    <3>1. i + 1 \in 1 .. 1 + n /\ ~(i + 1 <= 1) /\ i + 1 - 1 = i
      BY <1>2
    <3>. QED
      BY <2>2, <3>1
  <2>. QED
    BY <2>2, <2>3, <2>4, <2>5
<1>. HIDE DEF s
<1>4. \A i \in DOMAIN s : s[i] = c \/ \E k \in DOMAIN rest : s[i] = rest[k] /\ i = k + 1
  <2>. SUFFICES ASSUME NEW i \in DOMAIN s, i # 1
                PROVE  \E k \in DOMAIN rest : s[i] = rest[k] /\ i = k + 1
    BY <1>3
  <2>1. i - 1 \in 1 .. n /\ i = (i - 1) + 1
    BY <1>2, <1>3
  <2>2. s[i] = rest[i - 1]
    BY <1>3, <2>1
  <2>. QED
    BY <1>2, <2>1, <2>2
<1>5. \A k \in DOMAIN rest : \A o \in Offsets(rest[k]) : o \in Listed /\ after <= o
  BY DEF Completes
<1>6. \A o \in Listed : o \in Nat
  BY DEF Listed
<1>7. UNION {Offsets(s[i]) : i \in DOMAIN s} = {o \in Listed : o >= from}
  <2>1. ASSUME NEW o \in Listed, o >= from PROVE \E i \in DOMAIN s : o \in Offsets(s[i])
    <3>1. CASE o < after
      <4>1. o \in Offsets(c)
        BY <1>6, <2>1, <3>1 DEF Serves
      <4>. QED
        BY <1>2, <1>3, <4>1
    <3>2. CASE o >= after
      <4>1. PICK k \in DOMAIN rest : o \in Offsets(rest[k])
        BY <3>2 DEF Completes
      <4>2. k + 1 \in DOMAIN s /\ s[k + 1] = rest[k]
        BY <1>2, <1>3
      <4>. QED
        BY <4>1, <4>2
    <3>. QED
      BY <1>1, <1>6, <3>1, <3>2
  <2>2. ASSUME NEW i \in DOMAIN s, NEW o \in Offsets(s[i]) PROVE o \in Listed /\ o >= from
    <3>1. CASE s[i] = c
      <4>1. o \in Listed /\ o >= c.at
        BY <1>1, <3>1 DEF Serves
      <4>. QED
        BY <1>1, <1>6, <4>1
    <3>2. CASE \E k \in DOMAIN rest : s[i] = rest[k]
      <4>1. o \in Listed /\ after <= o
        BY <1>5, <3>2
      <4>. QED
        BY <1>1, <1>6, <4>1
    <3>. QED
      BY <1>4, <3>1, <3>2
  <2>. QED
    BY <2>1, <2>2
<1>8. ASSUME NEW i \in DOMAIN s, NEW j \in DOMAIN s, i < j,
             NEW o \in Offsets(s[i]), NEW p \in Offsets(s[j])
      PROVE  o < p
  <2>1. PICK l \in DOMAIN rest : s[j] = rest[l] /\ j = l + 1
    <3>1. j # 1
      BY <1>2, <1>3, <1>8
    <3>2. j - 1 \in 1 .. n /\ j = (j - 1) + 1
      BY <1>2, <1>3, <3>1
    <3>3. s[j] = rest[j - 1]
      BY <1>3, <3>2
    <3>. QED
      BY <1>2, <3>2, <3>3
  <2>2. CASE i = 1
    <3>1. o \in Nat /\ o < after
      BY <1>1, <1>3, <2>2
    <3>2. p \in Nat /\ after <= p
      BY <1>5, <1>6, <2>1
    <3>. QED
      BY <1>1, <3>1, <3>2
  <2>3. CASE i # 1
    <3>1. i - 1 \in 1 .. n /\ i = (i - 1) + 1 /\ i - 1 < l
      BY <1>2, <1>3, <1>8, <2>1, <2>3
    <3>2. s[i] = rest[i - 1]
      BY <1>3, <3>1
    <3>. QED
      BY <1>2, <2>1, <3>1, <3>2 DEF Completes
  <2>. QED
    BY <2>2, <2>3
<1>9. ASSUME NEW i \in DOMAIN s, NEW k \in DOMAIN s[i].data
      PROVE  s[i].data[k] = origin[s[i].at + k - 1]
  BY <1>4 DEF Completes, Serves
<1>10. Completes(s, from)
  BY <1>7, <1>8, <1>9 DEF Completes
<1>. QED
  BY <1>3, <1>10 DEF s

\* ... and it sends from each offset what the list holds from there.
LEMMA ReplaySends ==
    ASSUME NEW end \in Nat, NEW read, Reads(read, end), NEW g, IsReplay(g, read, 0, end)
    PROVE  \A from \in 0 .. end : g[from] \in Seq(Chunk) /\ Completes(g[from], from)
<1>. DEFINE Sends(from) == g[from] \in Seq(Chunk) /\ Completes(g[from], from)
            T == {j \in Nat : j <= end /\ ~Sends(end - j)}
<1>. SUFFICES ASSUME NEW from \in 0 .. end, ~Sends(from) PROVE FALSE
  OBVIOUS
<1>1. end - from \in T
  <2>1. end - from \in Nat /\ end - from <= end /\ end - (end - from) = from
    OBVIOUS
  <2>. HIDE DEF Sends
  <2>. QED
    BY <2>1
<1>2. PICK j \in T : \A i \in T : j <= i
  <2>1. T # {} /\ T \subseteq Nat
    BY <1>1
  <2>. HIDE DEF T
  <2>. QED
    BY <2>1, LeastNumber
<1>. DEFINE k == end - j
<1>3. j \in Nat /\ j <= end /\ ~Sends(k) /\ k \in 0 .. end /\ k \in Nat
  <2>1. j \in Nat /\ j <= end /\ ~Sends(k)
    BY <1>2
  <2>. HIDE DEF Sends
  <2>. QED
    BY <2>1
<1>4. \A m \in Nat : k < m /\ m <= end => Sends(m)
  <2>. SUFFICES ASSUME NEW m \in Nat, k < m, m <= end, ~Sends(m) PROVE FALSE
    OBVIOUS
  <2>1. end - m \in Nat /\ end - m <= end /\ end - (end - m) = m /\ end - m < j
    BY <1>3
  <2>. HIDE DEF Sends
  <2>2. end - m \in T
    BY <2>1
  <2>. HIDE DEF T
  <2>. QED
    BY <1>2, <1>3, <2>1, <2>2
<1>. HIDE DEF k
<1>5. g[k] = IF read[k].data = <<>> THEN <<>> ELSE <<read[k]>> \o g[ChunkEnd(read[k])]
  BY <1>3 DEF IsReplay
<1>6. CASE read[k].data = <<>>
  <2>1. g[k] = <<>> /\ \A o \in Listed : o < k
    BY <1>3, <1>5, <1>6 DEF Reads
  <2>2. DOMAIN g[k] = {} /\ g[k] \in Seq(Chunk)
    BY <2>1
  <2>3. {o \in Listed : o >= k} = {}
    <3>1. \A o \in Listed : o \in Nat
      BY DEF Listed
    <3>. QED
      BY <1>3, <2>1, <3>1
  <2>4. Completes(g[k], k)
    BY <2>2, <2>3 DEF Completes
  <2>. QED
    BY <1>3, <2>2, <2>4
<1>7. CASE read[k].data # <<>>
  <2>. DEFINE c == read[k]
  <2>1. Serves(c, k, end)
    BY <1>3, <1>7 DEF Reads
  <2>2. ChunkEnd(c) \in Nat /\ k < ChunkEnd(c) /\ ChunkEnd(c) <= end
    BY <1>3, <2>1, LenProperties DEF Serves, Chunk, ChunkEnd
  <2>3. g[ChunkEnd(c)] \in Seq(Chunk) /\ Completes(g[ChunkEnd(c)], ChunkEnd(c))
    BY <1>4, <2>2
  <2>4. g[k] = <<c>> \o g[ChunkEnd(c)]
    BY <1>5, <1>7
  <2>5. Sends(k)
    BY <1>3, <2>1, <2>3, <2>4, ServesMore
  <2>. QED
    BY <1>3, <2>5
<1>. QED
  BY <1>6, <1>7

\* The replay of the model is that function.
LEMMA ReplayOfReads ==
    ASSUME IndInv, NEW max \in Nat \ {0} PROVE ReplayCompletes(max)
<1>. DEFINE n == End
            read == [from \in 0 .. n |-> ReadFrom(from, max)]
            chunks[from \in 0 .. n] ==
                LET c == ReadFrom(from, max)
                IN IF c.data = <<>> THEN <<>> ELSE <<c>> \o chunks[c.at + Len(c.data)]
<1>1. Replay(max) = chunks
  BY DEF Replay
<1>2. chunks = CHOOSE g : g = [from \in 0 .. n |->
                  LET c == ReadFrom(from, max)
                  IN IF c.data = <<>> THEN <<>> ELSE <<c>> \o g[c.at + Len(c.data)]]
  OBVIOUS
<1>. HIDE DEF chunks
<1>3. n \in Nat
  BY ListFacts
<1>4. Reads(read, n)
  <2>. SUFFICES ASSUME NEW from \in 0 .. n
                PROVE  IF ReadFrom(from, max).data = <<>> THEN \A o \in Listed : o < from
                       ELSE Serves(ReadFrom(from, max), from, n)
    BY DEF Reads
  <2>. QED
    BY ReadsNext
<1>5. Advances(read, n)
  <2>. SUFFICES ASSUME NEW from \in 0 .. n, read[from].data # <<>>
                PROVE  /\ ChunkEnd(read[from]) \in Nat /\ from < ChunkEnd(read[from])
                       /\ ChunkEnd(read[from]) <= n
    BY DEF Advances
  <2>. HIDE DEF read, n
  <2>1. Serves(read[from], from, n)
    BY <1>4 DEF Reads
  <2>. QED
    BY <1>3, <2>1, LenProperties DEF Serves, Chunk, ChunkEnd
<1>6. \A g : IsReplay(g, read, 0, n) <=>
             g = [from \in 0 .. n |->
                  LET c == ReadFrom(from, max)
                  IN IF c.data = <<>> THEN <<>> ELSE <<c>> \o g[c.at + Len(c.data)]]
  <2>. TAKE g
  <2>1. \A from \in 0 .. n :
           (IF read[from].data = <<>> THEN <<>> ELSE <<read[from]>> \o g[ChunkEnd(read[from])])
           = LET c == ReadFrom(from, max)
             IN IF c.data = <<>> THEN <<>> ELSE <<c>> \o g[c.at + Len(c.data)]
    BY DEF ChunkEnd
  <2>. HIDE DEF n, read
  <2>2. [from \in 0 .. n |-> IF read[from].data = <<>> THEN <<>>
                             ELSE <<read[from]>> \o g[ChunkEnd(read[from])]]
        = [from \in 0 .. n |-> LET c == ReadFrom(from, max)
                               IN IF c.data = <<>> THEN <<>> ELSE <<c>> \o g[c.at + Len(c.data)]]
    BY <2>1
  <2>. QED
    BY <2>2 DEF IsReplay
<1>7. IsReplay(chunks, read, 0, n)
  <2>. HIDE DEF n, read
  <2>1. \E g : IsReplay(g, read, 0, n)
    BY <1>3, <1>5, ReplayExists
  <2>. QED
    BY <1>2, <1>6, <2>1, Zenon
<1>. HIDE DEF read, n
<1>8. \A from \in 0 .. n : Completes(chunks[from], from)
  BY <1>3, <1>4, <1>7, ReplaySends
<1>. QED
  BY <1>1, <1>8 DEF ReplayCompletes, n

\* What a holder sends to a daemon that attaches is, for every offset asked and every chunk
\* size of at least one byte, all that its list holds from there: each byte once, in order,
\* under its own offset, and the byte that was read for that offset.
THEOREM EveryReplayIsComplete == ASSUME NEW max \in Nat \ {0} PROVE Spec => []ReplayCompletes(max)
<1>1. IndInv => ReplayCompletes(max)
  BY ReplayOfReads
<1>. QED
  BY <1>1, Inductive, PTL

\* In particular it is so at the chunk sizes of the run.
THEOREM ReplayLosesNothing == Spec => []ReplayIsComplete
<1>1. IndInv => ReplayIsComplete
  BY ReplayOfReads DEF ReplayIsComplete
<1>. QED
  BY <1>1, Inductive, PTL
=============================================================================
