------------------------------ MODULE Patterns ------------------------------
(***************************************************************************)
(* The patterns of rules: the trees that parse_pattern() builds from       *)
(* ^r$ and ^r/s$, the lengths of trailing context, and the NFA that        *)
(* compile() makes of a tree.  The concrete syntax is left out: a pattern  *)
(* is given by its parts.                                                  *)
(***************************************************************************)
EXTENDS Integers, Sequences, FiniteSets

CONSTANTS
    Byte,        \* the alphabet
    Newline      \* the newline byte

kInf == 1000     \* the upper bound of {n,}; greater than any other
NoTree == [kind |-> "none"]

Empty         == [kind |-> "Empty"]
Class(on)     == [kind |-> "Class", cls |-> on]
Concat(x, y)  == [kind |-> "Concat", a |-> x, b |-> y]
Alt(x, y)     == [kind |-> "Alt", a |-> x, b |-> y]
Star(x)       == [kind |-> "Star", a |-> x]
Plus(x)       == [kind |-> "Plus", a |-> x]
Question(x)   == [kind |-> "Question", a |-> x]
Repeat(x, m, n) == [kind |-> "Repeat", a |-> x, lo |-> m, hi |-> n]
AnchorBOL     == [kind |-> "AnchorBOL"]
AnchorEOL     == [kind |-> "AnchorEOL"]
TrailBoundary == [kind |-> "TrailBoundary"]

(***************************************************************************)
(* The length of every word of a tree, or -1 when they may differ.         *)
(***************************************************************************)
RECURSIVE FixedLength(_)
SumOf(x, y) == IF x < 0 \/ y < 0 THEN -1 ELSE x + y
Times(x, n) == IF x < 0 THEN -1 ELSE x * n
LengthOfAltLeft(x, y) == IF x < 0 \/ y < 0 THEN -1 ELSE x
LengthOfAlt(x, y) == IF x < 0 \/ y < 0 \/ x # y THEN -1 ELSE x
FixedLength(t) ==
    CASE t.kind = "Class"  -> 1
      [] t.kind = "Concat" -> SumOf(FixedLength(t.a), FixedLength(t.b))
      [] t.kind = "Alt"    -> LengthOfAlt(FixedLength(t.a), FixedLength(t.b))
      [] t.kind = "Repeat" -> IF t.lo = t.hi THEN Times(FixedLength(t.a), t.lo) ELSE -1
      [] t.kind \in {"Star", "Plus", "Question"} -> -1
      [] OTHER             -> 0

(***************************************************************************)
(* A pattern has a head r, perhaps a trailing context s, and the anchors   *)
(* ^ and $.  A $ behind s stands for a newline; the length of the context  *)
(* to give back is fixed, or -1 when the place of the boundary is marked   *)
(* in the tree instead.                                                    *)
(***************************************************************************)
Pattern(heads, tails) == [bol : BOOLEAN, r : heads, s : tails, eol : BOOLEAN]

HasTrail(p) == p.s # NoTree
VariableTrail(p) == HasTrail(p) /\ FixedLength(p.s) < 0
TrailLength(p) ==
    IF ~HasTrail(p) THEN 0
    ELSE IF VariableTrail(p) THEN -1
    ELSE FixedLength(p.s) + (IF p.eol THEN 1 ELSE 0)

Ended(p, t) ==
    IF ~p.eol THEN t
    ELSE Concat(t, IF HasTrail(p) THEN Class({Newline}) ELSE AnchorEOL)
Begun(p, t) == IF p.bol THEN Concat(AnchorBOL, t) ELSE t
Tree(p) ==
    Begun(p, IF VariableTrail(p)
             THEN Concat(p.r, Ended(p, Concat(TrailBoundary, p.s)))
             ELSE Ended(p, IF HasTrail(p) THEN Concat(p.r, p.s) ELSE p.r))

(***************************************************************************)
(* unwrap_anchors(): the anchors at the root of a tree, and what is        *)
(* between them.                                                           *)
(***************************************************************************)
IsBol(t) == t.kind = "Concat" /\ t.a = AnchorBOL
WithoutBol(t) == IF IsBol(t) THEN t.b ELSE t
IsEol(t) == WithoutBol(t).kind = "Concat" /\ WithoutBol(t).b = AnchorEOL
Body(t) == IF IsEol(t) THEN WithoutBol(t).a ELSE WithoutBol(t)

(***************************************************************************)
(* The NFA: states 0 .. n - 1, edges <<from, on, to>>, and the states that *)
(* mark a boundary.  An edge without bytes is an epsilon edge.             *)
(***************************************************************************)
Eps == {}
NoStates == [n |-> 0, edges |-> {}, marks |-> {}]

(* Two new states s and e on top of those of nfa, with these edges.        *)
Fragment(nfa, s, e, edges) ==
    [nfa |-> [nfa EXCEPT !.n = @ + 2, !.edges = @ \cup edges], s |-> s, e |-> e]
FreshFragment(nfa, on) == Fragment(nfa, nfa.n, nfa.n + 1, {<<nfa.n, on, nfa.n + 1>>})

(* compile_repeat(): lo copies, then a star or as many optional copies as  *)
(* are left.                                                               *)
Copies(t) ==
    [i \in 1 .. t.lo |-> t.a]
    \o (IF t.hi = kInf THEN <<Star(t.a)>>
        ELSE [i \in 1 .. (IF t.hi >= t.lo THEN t.hi - t.lo ELSE 0) |-> Question(t.a)])
RECURSIVE Chain(_)
Chain(trees) ==
    IF trees = <<>> THEN Empty
    ELSE IF Len(trees) = 1 THEN trees[1]
    ELSE Concat(Chain(SubSeq(trees, 1, Len(trees) - 1)), trees[Len(trees)])

(* The states of a tree: those of its parts, then an entry s and an exit e *)
(* of its own around the entry and the exit of its only part ...           *)
SkipEdges(kind, s, e) == IF kind = "Plus" THEN {} ELSE {<<s, Eps, e>>}
LoopEdgesOut(kind, x, e) == IF kind = "Question" THEN {} ELSE {<<x.e, Eps, e>>}
LoopEdges(kind, x, e) == IF kind = "Question" THEN {} ELSE {<<x.e, Eps, x.s>>}
Wrapped(kind, x, s, e) ==
    Fragment(x.nfa, s, e, {<<s, Eps, x.s>>, <<x.e, Eps, e>>}
                          \cup SkipEdges(kind, s, e) \cup LoopEdges(kind, x, e))

(* ... or of its two parts.                                                *)
RECURSIVE Compile(_, _)
Compile(nfa, t) ==
    CASE t.kind = "Class" -> FreshFragment(nfa, t.cls)
      [] t.kind = "Concat" ->
            LET x == Compile(nfa, t.a)
                y == Compile(x.nfa, t.b)
            IN [nfa |-> [y.nfa EXCEPT !.edges = @ \cup {<<x.e, Eps, y.s>>}],
                s |-> x.s, e |-> y.e]
      [] t.kind = "Alt" ->
            LET x == Compile(nfa, t.a)
                y == Compile(x.nfa, t.b)
                n == y.nfa.n
            IN Fragment(y.nfa, n, n + 1, {<<n, Eps, x.s>>, <<n, Eps, y.s>>,
                                          <<x.e, Eps, n + 1>>, <<y.e, Eps, n + 1>>})
      [] t.kind \in {"Star", "Plus", "Question"} ->
            LET x == Compile(nfa, t.a) IN Wrapped(t.kind, x, x.nfa.n, x.nfa.n + 1)
      [] t.kind = "Repeat" -> Compile(nfa, Chain(Copies(t)))
      [] t.kind = "TrailBoundary" ->
            LET f == FreshFragment(nfa, Eps)
            IN [f EXCEPT !.nfa.marks = @ \cup {f.e}]
      [] OTHER -> FreshFragment(nfa, Eps)
=============================================================================
