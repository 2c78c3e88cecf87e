------------------------------- MODULE Layout -------------------------------
(***************************************************************************)
(* The layout algebra (kukaku/src/layout.rs, geometry.rs, direction.rs):   *)
(* a window's panes are the leaves of a binary tree of splits, and the     *)
(* tree laid out in the window's rectangle gives every pane its own.       *)
(*                                                                         *)
(* A tree is the function that gives each of its leaves the way from the   *)
(* root to it: for every split on the way a step, which has the split's    *)
(* orientation and ratio and the side that is taken.  The ways of two      *)
(* leaves agree as far as the split that parts them.                       *)
(*                                                                         *)
(* A ratio is an f32 between MinRatio and 1 - MinRatio in the code and a   *)
(* number of sixtieths here, so that the halves, thirds, quarters and      *)
(* fifths the operations make are exact; not-a-number, which only a peer   *)
(* could send and which SplitRatio::new makes balanced, has no value here. *)
(***************************************************************************)
EXTENDS Integers, SequencesExt

Whole    == 60
MinRatio == 3
Balanced == 30

Clamp(lo, v, hi) == IF v < lo THEN lo ELSE IF v > hi THEN hi ELSE v
Refine(v) == Clamp(MinRatio, v, Whole - MinRatio)

Directions     == {"above", "below", "left", "right"}
Orientation(d) == IF d \in {"above", "below"} THEN "horizontal" ELSE "vertical"
TowardB(d)     == d \in {"right", "below"}

Leaves(t) == DOMAIN t
Leaf(p)   == [q \in {p} |-> <<>>]

Step(o, ratio, side) == [orientation |-> o, ratio |-> Refine(ratio), side |-> side]
Split(o, ratio, a, b) ==
    [p \in Leaves(a) \cup Leaves(b) |->
        IF p \in Leaves(a) THEN <<Step(o, ratio, "a")>> \o a[p] ELSE <<Step(o, ratio, "b")>> \o b[p]]

\* The leaves under the node that p's way has reached after k steps.
Under(t, p, k) == {q \in Leaves(t) : \A i \in 1..k : i \in DOMAIN t[q] /\ t[q][i] = t[p][i]}

\* Side a is displayed before side b: q comes after p where they part.
Precedes(t, p, q) == \E k \in DOMAIN t[p] : t[p][k].side = "a" /\ q \in Under(t, p, k - 1) \ Under(t, p, k)
\* Some of the panes of a tree in display order.
InOrder(t, S) ==
    CHOOSE s \in Bijection(1..Cardinality(S), S) : \A i, j \in DOMAIN s : i < j => Precedes(t, s[i], s[j])
PanesOf(t) == InOrder(t, Leaves(t))
-----------------------------------------------------------------------------
(* The operations on a tree.                                               *)

\* What a leaf becomes when a pane is split off it on the side d.
Halves(p, new, d) ==
    IF TowardB(d) THEN Split(Orientation(d), Balanced, Leaf(p), Leaf(new))
                  ELSE Split(Orientation(d), Whole - Balanced, Leaf(new), Leaf(p))

SplitLeaf(t, p, new, d) ==
    [q \in Leaves(t) \cup {new} |-> IF q \in {p, new} THEN t[p] \o Halves(p, new, d)[q] ELSE t[q]]

\* The sibling takes the place of the split above p.  Not for a tree that is the leaf
\* itself: then the window closes.
RemoveLeaf(t, p) ==
    LET n == Len(t[p])
    IN  [q \in Leaves(t) \ {p} |-> IF q \in Under(t, p, n - 1) THEN RemoveAt(t[q], n) ELSE t[q]]

\* Mutant: the divider is any of the axis, whichever side of it the pane is on.
GovernsAxis(step, d) == step.orientation = Orientation(d)
\* A split whose divider a pane shares with what lies on its side d.
Governs(step, d) ==
    step.orientation = Orientation(d) /\ step.side = IF TowardB(d) THEN "a" ELSE "b"

\* The deepest such divider moves by delta along d; without one nothing does.
Slide(d, delta) == IF TowardB(d) THEN delta ELSE 0 - delta
ResizeLeaf(t, p, d, delta) ==
    LET governing == {k \in DOMAIN t[p] : Governs(t[p][k], d)}
        k == Max(governing)
    IN  IF governing = {} THEN t
        ELSE [q \in Leaves(t) |-> IF q \in Under(t, p, k - 1)
                                  THEN [t[q] EXCEPT ![k].ratio = Refine(@ + Slide(d, delta))]
                                  ELSE t[q]]
-----------------------------------------------------------------------------
(* The presets.                                                            *)

\* The way to the i-th of n nodes that share evenly: the first takes 1/n, the others the rest.
Chain(o, n, i) ==
    [k \in 1..(IF i < n THEN i ELSE n - 1) |-> Step(o, Whole \div (n - k + 1), IF k < i THEN "b" ELSE "a")]
EvenChain(o, nodes) ==
    [p \in UNION {Leaves(nodes[i]) : i \in DOMAIN nodes} |->
        LET i == CHOOSE i \in DOMAIN nodes : p \in Leaves(nodes[i])
        IN  Chain(o, Len(nodes), i) \o nodes[i][p]]

LeavesOf(ps) == [i \in DOMAIN ps |-> Leaf(ps[i])]

\* An approximate square: as many rows as the root, rounded up, the first ones longer.
RowsFor(n) == CHOOSE r \in 1..n : r * r >= n /\ \A q \in 1..(r - 1) : q * q < n
Tiled(ps) ==
    LET n     == Len(ps)
        rows  == RowsFor(n)
        long  == n % rows
        per   == n \div rows
        From(r) == (r - 1) * per + (IF r - 1 < long THEN r - 1 ELSE long)
        Row(r)  == SubSeq(ps, From(r) + 1, From(r + 1))
    IN  EvenChain("horizontal", [r \in 1..rows |-> EvenChain("vertical", LeavesOf(Row(r)))])

Presets == {"even-horizontal", "even-vertical", "main-horizontal", "main-vertical", "tiled"}
FromKind(kind, ps) ==
    IF Len(ps) = 1 THEN Leaf(ps[1])
    ELSE CASE kind = "even-horizontal" -> EvenChain("vertical", LeavesOf(ps))
           [] kind = "even-vertical"   -> EvenChain("horizontal", LeavesOf(ps))
           [] kind = "main-horizontal" ->
                  Split("horizontal", Balanced, Leaf(ps[1]), EvenChain("vertical", LeavesOf(Tail(ps))))
           [] kind = "main-vertical"   ->
                  Split("vertical", Balanced, Leaf(ps[1]), EvenChain("horizontal", LeavesOf(Tail(ps))))
           [] kind = "tiled"           -> Tiled(ps)
-----------------------------------------------------------------------------
(* The geometry.  A rectangle is its corner and its extent.                *)

Rect(x, y, w, h) == [x |-> x, y |-> y, w |-> w, h |-> h]
Right(r)   == r.x + r.w
Bottom(r)  == r.y + r.h
IsEmpty(r) == r.w = 0 \/ r.h = 0

\* f32's round, of total * ratio, and the clamp that leaves both sides a cell.
SplitExtent(total, ratio) ==
    IF total <= 1 THEN total
    ELSE Clamp(1, (2 * total * ratio + Whole) \div (2 * Whole), total - 1)

\* Mutant: each side is rounded for itself.
RoundBoth(r, o, ratio) ==
    LET a == SplitExtent(IF o = "vertical" THEN r.w ELSE r.h, ratio)
        b == SplitExtent(IF o = "vertical" THEN r.w ELSE r.h, Whole - ratio)
    IN  IF o = "vertical"
        THEN [a |-> [r EXCEPT !.w = a], b |-> [r EXCEPT !.x = @ + a, !.w = b]]
        ELSE [a |-> [r EXCEPT !.h = a], b |-> [r EXCEPT !.y = @ + a, !.h = b]]
SplitRect(r, o, ratio) ==
    LET a == SplitExtent(IF o = "vertical" THEN r.w ELSE r.h, ratio)
    IN  IF o = "vertical"
        THEN [a |-> [r EXCEPT !.w = a], b |-> [r EXCEPT !.x = @ + a, !.w = @ - a]]
        ELSE [a |-> [r EXCEPT !.h = a], b |-> [r EXCEPT !.y = @ + a, !.h = @ - a]]

\* compute_rects: the rectangle of every pane of a tree, side after side.
Enter(r, step) == SplitRect(r, step.orientation, step.ratio)[step.side]
LayOut(t, r)   == [p \in Leaves(t) |-> FoldLeft(Enter, r, t[p])]
=============================================================================
