------------------------------ MODULE ByteLog ------------------------------
(***************************************************************************)
(* What the journal of a pane promises to the holder that writes it and to *)
(* the daemons that read it (the contract of makimono/src/journal.rs): a   *)
(* log of bytes under absolute offsets that only grows past its top while  *)
(* a holder is up, and that a death shortens, if at all, from its top.     *)
(***************************************************************************)
EXTENDS Naturals

VARIABLES
    log,    \* offset -> byte, of the bytes on disk
    top,    \* where the next byte goes, while a holder is up
    up      \* a holder has the journal open

vars == <<log, top, up>>

Below(n) == {o \in DOMAIN log : o < n}
KeepBelow(n) == [o \in Below(n) |-> log[o]]

TypeOK ==
    /\ DOMAIN log \subseteq Nat
    /\ top \in Nat
    /\ up \in BOOLEAN

Init == log = <<>> /\ top = 0 /\ up = FALSE

\* The next holder numbers its bytes past all that it finds.
Open ==
    /\ ~up /\ up'
    /\ log' = log
    /\ top' \in Nat
    /\ \A o \in DOMAIN log : o < top'

\* The top moves on; below it bytes may be evicted but none is written.
Grow ==
    /\ up /\ up'
    /\ top' \in Nat /\ top' >= top
    /\ \A o \in DOMAIN log' :
          \/ o \in top .. top' - 1
          \/ o \in DOMAIN log /\ o < top /\ log'[o] = log[o]

\* The holder dies, or the machine does: a suffix of the log may go with it.
Die ==
    /\ up /\ ~up'
    /\ top' = 0
    /\ \/ log' = log
       \/ \E n \in DOMAIN log : log' = KeepBelow(n)

Next == Open \/ Grow \/ Die

Spec == Init /\ [][Next]_vars
=============================================================================
