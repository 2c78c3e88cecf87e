------------------------------- MODULE Reflow -------------------------------
(***************************************************************************)
(* A window of the multiplexer and its geometry (tear-core/src/inproc.rs): *)
(* callers split, kill, move dividers and apply presets, and each then     *)
(* reflows the window: apply_layout_geometry lays the tree out and stamps  *)
(* the panes' records in one critical section, and then resizes one pane   *)
(* after the other, the pty, the grid and the record each under a lock of  *)
(* its own.  A client's absolute resize is one such resize of one pane.    *)
(* Between any two steps another caller may act.                           *)
(*                                                                         *)
(* The session, its other windows and the shells are modelled in           *)
(* InProcess.  A killed pane is not seen again, ids being minted.          *)
(***************************************************************************)
EXTENDS Layout

CONSTANTS
    Panes,          \* every pane the window ever has
    Seed,           \* the one it is created with
    Callers,        \* the threads that serve requests
    FirstSize,      \* the window's size when it is created
    Placeholder,    \* the size a pane that is split off is spawned with
    ClientSizes,    \* the sizes a client asks for
    Deltas,         \* the cells a divider is moved by
    Nothing,
    MaxCalls,       \* bound: calls that the callers make
    MaxUnsized      \* bound: panes that at one time have not got the size asked for

CellSizes == [w : Nat, h : Nat]
Extents   == [w : Nat \ {0}, h : Nat \ {0}]

ASSUME WindowAssumption ==
    /\ Seed \in Panes /\ Nothing \notin Panes \cup CellSizes /\ IsFiniteSet(Panes)
    /\ FirstSize \in Extents /\ Placeholder \in Extents /\ ClientSizes \subseteq CellSizes
    /\ Deltas \subseteq Int /\ MaxCalls \in Nat /\ MaxUnsized \in Nat

VARIABLES
    tree,           \* the window's layout, Nothing when the window is closed
    size,           \* its size_cells: [w, h]
    focus,          \* its active_pane
    minted,         \* the panes it has had
    rec,            \* the size in a pane's record, Nothing without a record
    pty, grid,      \* the size of its pty and of its grid, Nothing without one
    call,           \* how far a caller is: [at, pane, todo, alone]
    calls,          \* calls made
    settled,        \* the last call gave every pane its size, undisturbed: history
    overtaken,      \* panes killed while a select_pane had only located them: history
    unsized         \* panes whose pty did not get the last size it was sent: history

records    == <<tree, size, focus, minted, rec>>
history    == <<settled, overtaken, unsized>>
windowVars == <<records, pty, grid, call, calls, history>>

Bounds     == Rect(0, 0, size.w, size.h)
InWindow   == IF tree = Nothing THEN {} ELSE Leaves(tree)
SizeOf(r)  == [w |-> r.w, h |-> r.h]
AtLeastOne(r) == [w |-> IF r.w = 0 THEN 1 ELSE r.w, h |-> IF r.h = 0 THEN 1 ELSE r.h]
Idle       == [at |-> "idle", pane |-> Nothing, todo |-> <<>>, clean |-> FALSE]

WindowInit ==
    /\ tree = Leaf(Seed) /\ size = FirstSize /\ focus = Seed /\ minted = {Seed}
    /\ rec  = [p \in Panes |-> IF p = Seed THEN FirstSize ELSE Nothing]
    /\ pty  = rec /\ grid = rec
    /\ call = [c \in Callers |-> Idle] /\ calls = 0
    /\ settled = TRUE /\ overtaken = {} /\ unsized = {}
-----------------------------------------------------------------------------
(* A call begins; every other that is under way has company from then on.  *)

At(c, stage) == call[c].at = stage
Alone(c)     == \A o \in Callers \ {c} : At(o, "idle")

Begin(c, stage, p, todo, clean) ==
    /\ At(c, "idle") /\ calls < MaxCalls /\ calls' = calls + 1
    /\ call' = [o \in Callers |->
                  IF o = c THEN [at |-> stage, pane |-> p, todo |-> todo, clean |-> clean /\ Alone(c)]
                           ELSE [call[o] EXCEPT !.clean = FALSE]]
    /\ settled' = FALSE /\ UNCHANGED <<overtaken, unsized>>

Go(c, stage) == call' = [call EXCEPT ![c].at = stage] /\ UNCHANGED settled

\* The call is over; whole, if it has done what the window needed.
Finish(c, whole) ==
    /\ call' = [call EXCEPT ![c] = Idle]
    /\ settled' = (whole /\ call[c].clean)

\* The new pane is in the tree and has the focus before it has a shell.
SplitPane(c) ==
    /\ Panes # minted
    /\ LET new == CHOOSE q \in Panes \ minted : TRUE IN \E p \in InWindow, d \in Directions :
         /\ tree' = SplitLeaf(tree, p, new, d)
         /\ focus' = new /\ minted' = minted \cup {new}
         /\ rec' = [rec EXCEPT ![new] = Placeholder]
         /\ Begin(c, "spawn", new, <<>>, TRUE)
    /\ UNCHANGED <<size, pty, grid>>

\* A pane that has been killed in the meantime gets neither pty nor grid.
SpawnShell(c) ==
    /\ At(c, "spawn") /\ Go(c, "reflow")
    /\ LET p == call[c].pane IN
         IF rec[p] = Nothing THEN UNCHANGED <<pty, grid>>
         ELSE pty' = [pty EXCEPT ![p] = Placeholder] /\ grid' = [grid EXCEPT ![p] = Placeholder]
    /\ UNCHANGED <<records, calls, overtaken, unsized>>

\* split_pane returns the error: the pane stays in the tree, and nothing is reflowed.
SpawnFails(c) ==
    /\ At(c, "spawn") /\ Finish(c, FALSE)
    /\ UNCHANGED <<records, pty, grid, calls, overtaken, unsized>>

\* detach_panes takes the pty and the grid first ...
KillPane(c) ==
    /\ \E p \in InWindow :
         /\ Begin(c, "unregister", p, <<>>, TRUE)
         /\ pty' = [pty EXCEPT ![p] = Nothing] /\ grid' = [grid EXCEPT ![p] = Nothing]
    /\ UNCHANGED records

\* Mutant: the focus stays where it was.
KeepFocus(p) == focus
\* The focus of a window that loses p and keeps other panes.
Retarget(p) == IF focus = p THEN PanesOf(RemoveLeaf(tree, p))[1] ELSE focus

\* ... and the tree is looked at again: the pane may be gone, or be the last one.
Unregister(c) ==
    /\ At(c, "unregister")
    /\ LET p == call[c].pane IN
         /\ \/ p \notin InWindow /\ Finish(c, FALSE) /\ UNCHANGED records
            \/ /\ p \in InWindow /\ tree = Leaf(p)
               /\ tree' = Nothing /\ rec' = [rec EXCEPT ![p] = Nothing]
               /\ Finish(c, FALSE) /\ UNCHANGED <<size, focus, minted>>
            \/ /\ p \in InWindow /\ tree # Leaf(p)
               /\ tree' = RemoveLeaf(tree, p) /\ rec' = [rec EXCEPT ![p] = Nothing]
               /\ focus' = Retarget(p)
               /\ Go(c, "reflow") /\ UNCHANGED <<size, minted>>
         /\ overtaken' = overtaken \cup {q \in {p} : \E o \in Callers : At(o, "select") /\ call[o].pane = q}
    /\ UNCHANGED <<pty, grid, calls, unsized>>

\* A number of cells is a fraction of the window's extent.
Fraction(d, delta) ==
    LET span == IF Orientation(d) = "vertical" THEN size.w ELSE size.h
    IN  IF delta >= 0 THEN (delta * Whole) \div span ELSE 0 - ((0 - delta) * Whole) \div span

MoveDivider(c, p, d, delta) ==
    /\ p \in InWindow /\ Begin(c, "reflow", p, <<>>, TRUE)
    /\ tree' = ResizeLeaf(tree, p, d, Fraction(d, delta))
    /\ UNCHANGED <<size, focus, minted, rec, pty, grid>>
ResizePane(c) == \E p \in InWindow, d \in Directions, delta \in Deltas : MoveDivider(c, p, d, delta)

\* The panes in display order, arranged anew.
ApplyLayout(c) ==
    /\ tree # Nothing /\ Begin(c, "reflow", Nothing, <<>>, TRUE)
    /\ \E kind \in Presets : tree' = FromKind(kind, PanesOf(tree))
    /\ UNCHANGED <<size, focus, minted, rec, pty, grid>>

\* A client resizes one pane, and where there are others leaves the layout behind.
ResizeAbsolute(c) ==
    /\ \E p \in InWindow, s \in ClientSizes :
         pty[p] # Nothing /\ Begin(c, "pty", Nothing, << [pane |-> p, to |-> s] >>, tree = Leaf(p))
    /\ UNCHANGED <<records, pty, grid>>

\* select_pane locates the pane under one lock ...
SelectPane(c) ==
    /\ \E p \in InWindow : Begin(c, "select", p, <<>>, FALSE)
    /\ UNCHANGED <<records, pty, grid>>

\* ... and gives it the focus under another.
Select(c) ==
    /\ At(c, "select") /\ Finish(c, FALSE)
    /\ focus' = IF tree = Nothing THEN focus ELSE call[c].pane
    /\ UNCHANGED <<tree, size, minted, rec, pty, grid, calls, overtaken, unsized>>
-----------------------------------------------------------------------------
(* The reflow.                                                             *)

\* A rectangle without cells is stamped, as one cell, and applied to no pty.
Compute(c) ==
    /\ At(c, "reflow")
    /\ IF tree = Nothing THEN Finish(c, FALSE) /\ UNCHANGED rec
       ELSE LET rects == LayOut(tree, Bounds)
                order == InOrder(tree, {p \in InWindow : ~IsEmpty(rects[p])})
            IN  /\ rec' = [p \in Panes |-> IF p \in DOMAIN rects THEN AtLeastOne(rects[p]) ELSE rec[p]]
                /\ call' = [call EXCEPT ![c].at = "pty",
                              ![c].todo = [i \in DOMAIN order |->
                                  [pane |-> order[i], to |-> SizeOf(rects[order[i]])]]]
                /\ UNCHANGED settled
    /\ UNCHANGED <<tree, size, focus, minted, pty, grid, calls, overtaken, unsized>>

Job(c) == Head(call[c].todo)

\* The resize of one pane is over, or has failed: the next one, if there is one.
NextPane(c) ==
    IF Len(call[c].todo) > 1
    THEN call' = [call EXCEPT ![c].at = "pty", ![c].todo = Tail(@)] /\ UNCHANGED settled
    ELSE Finish(c, TRUE)

\* A pane without a pty, one that is being spawned or was killed, is passed over,
NoPty(c) == pty[Job(c).pane] = Nothing /\ NextPane(c) /\ UNCHANGED <<pty, unsized>>

\* and so is one that cannot be resized, as a held pane cannot while its link is repaired;
\* a holder does not tell that it could not do what it was sent.
ResizeFails(c) ==
    /\ pty[Job(c).pane] # Nothing
    /\ unsized' = unsized \cup {Job(c).pane} /\ Cardinality(unsized') <= MaxUnsized
    /\ NextPane(c) \/ Go(c, "grid")
    /\ UNCHANGED pty

PtyResizes(c) ==
    /\ pty[Job(c).pane] # Nothing /\ pty' = [pty EXCEPT ![Job(c).pane] = Job(c).to]
    /\ unsized' = unsized \ {Job(c).pane} /\ Go(c, "grid")

ResizePty(c) ==
    /\ At(c, "pty")
    /\ NoPty(c) \/ ResizeFails(c) \/ PtyResizes(c)
    /\ UNCHANGED <<records, grid, calls, overtaken>>

\* Mutant: the grid follows at the client's next request, not here.
LeaveGrid(p, to) == grid
ResizedGrid(p, to) == IF grid[p] = Nothing THEN grid ELSE [grid EXCEPT ![p] = to]

ResizeGrid(c) ==
    /\ At(c, "grid") /\ Go(c, "record")
    /\ grid' = ResizedGrid(Job(c).pane, Job(c).to)
    /\ UNCHANGED <<records, pty, calls, overtaken, unsized>>

\* record_absolute_size: the only pane of a window takes the window with it; a size
\* without cells is recorded as one cell, and is as it came in the pty and the grid.
Record(c) ==
    /\ At(c, "record") /\ NextPane(c)
    /\ LET p == Job(c).pane IN
         IF p \notin InWindow THEN UNCHANGED <<rec, size>>
         ELSE /\ rec' = [rec EXCEPT ![p] = AtLeastOne(Job(c).to)]
              /\ size' = IF tree = Leaf(p) THEN AtLeastOne(Job(c).to) ELSE size
    /\ UNCHANGED <<tree, focus, minted, pty, grid, calls, overtaken, unsized>>

Call(c)  == \/ SplitPane(c) \/ KillPane(c) \/ ResizePane(c) \/ ApplyLayout(c)
            \/ ResizeAbsolute(c) \/ SelectPane(c)
Stage(c) == \/ SpawnShell(c) \/ SpawnFails(c) \/ Unregister(c) \/ Select(c)
            \/ Compute(c) \/ ResizePty(c) \/ ResizeGrid(c) \/ Record(c)

WindowNext == \E c \in Callers : Call(c) \/ Stage(c)
WindowSpec == WindowInit /\ [][WindowNext]_windowVars
-----------------------------------------------------------------------------
(* What has to hold.                                                       *)

CellsOf(r) == (r.x .. Right(r) - 1) \X (r.y .. Bottom(r) - 1)

\* However a window has been split, arranged, squeezed and resized, each of its
\* cells belongs to exactly one pane (compute_rects, "no gap and no overlap").
RectsTile ==
    tree # Nothing =>
        LET rects == LayOut(tree, Bounds) IN
          /\ UNION {CellsOf(rects[p]) : p \in InWindow} = CellsOf(Bounds)
          /\ \A p, q \in InWindow : p # q => CellsOf(rects[p]) \cap CellsOf(rects[q]) = {}

\* After a call that nobody disturbed the records, the ptys and the grids have the
\* sizes of the layout, whatever the calls before it left (apply_layout_geometry),
\* with two exceptions: a pane whose pty did not get its size waits for the next call,
\* and where a record says one cell, the pty and the grid may have none.
DisplayMatchesLayout ==
    settled /\ tree # Nothing =>
        LET rects == LayOut(tree, Bounds) IN
          \A p \in InWindow :
            /\ rec[p] = AtLeastOne(rects[p])
            /\ pty[p] # Nothing /\ ~IsEmpty(rects[p]) /\ p \notin unsized =>
                 AtLeastOne(pty[p]) = rec[p] /\ grid[p] = pty[p]

\* The active pane is a leaf of the window (window.rs), unless it was killed while
\* the call that made it the active one held no lock.
FocusIsALeaf == tree # Nothing => focus \in InWindow \cup overtaken

\* However deep the collapse is, the other panes stay when one is killed, and its room
\* goes to panes beside it: none of them becomes smaller (remove_leaf).
Within(r, s) == r.w <= s.w /\ r.h <= s.h
KillOnlyGrows ==
    [][\A c \in Callers : At(c, "unregister") /\ tree' # tree /\ tree' # Nothing /\ Unregister(c) =>
          LET before == LayOut(tree, Bounds) after == LayOut(tree', Bounds)
          IN  /\ DOMAIN after = InWindow \ {call[c].pane}
              /\ \A p \in DOMAIN after : Within(before[p], after[p])]_<<tree>>

\* A pane whose divider is moved towards its neighbour never becomes smaller, whatever
\* splits lie between the two and however the cells are rounded (resize_leaf).
ResizeGrowsTarget ==
    [][\A c \in Callers : At(c, "idle") /\ call'[c].at = "reflow" /\ tree' # tree =>
          \A p \in InWindow, d \in Directions, delta \in Deltas :
            MoveDivider(c, p, d, delta) /\ delta > 0 =>
              Within(LayOut(tree, Bounds)[p], LayOut(tree', Bounds)[p])]_<<tree>>

\* No operation takes room from a pane that should keep it or gain.
NoneIsSqueezed == KillOnlyGrows /\ ResizeGrowsTarget
=============================================================================
