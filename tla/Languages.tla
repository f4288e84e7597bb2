----------------------------- MODULE Languages ------------------------------
(***************************************************************************)
(* What patterns mean: the words of at most MaxLength bytes that a tree    *)
(* matches, by the usual equations for regular expressions, without any    *)
(* automaton.  Reference for Patterns and RuleTables.                      *)
(***************************************************************************)
EXTENDS Patterns

CONSTANT MaxLength      \* BOUND: the longest word considered

Word == UNION {[1 .. n -> Byte] : n \in 0 .. MaxLength}

Product(X, Y) == {w \in {x \o y : x \in X, y \in Y} : Len(w) <= MaxLength}

RECURSIVE Power(_, _)
Power(X, n) == IF n = 0 THEN {<<>>} ELSE Product(X, Power(X, n - 1))

(* m to n copies; beyond MaxLength more than m, a copy more adds nothing.  *)
Powers(X, m, n) ==
    UNION {Power(X, k) : k \in m .. (IF n > m + MaxLength THEN m + MaxLength ELSE n)}

RECURSIVE Language(_)
Language(t) ==
    CASE t.kind = "Class"    -> {<<b>> : b \in t.cls \cap Byte}
      [] t.kind = "Concat"   -> Product(Language(t.a), Language(t.b))
      [] t.kind = "Alt"      -> Language(t.a) \cup Language(t.b)
      [] t.kind = "Star"     -> Powers(Language(t.a), 0, kInf)
      [] t.kind = "Plus"     -> Powers(Language(t.a), 1, kInf)
      [] t.kind = "Question" -> Language(t.a) \cup {<<>>}
      [] t.kind = "Repeat"   -> Powers(Language(t.a), t.lo, t.hi)
      [] OTHER               -> {<<>>}

(* The words behind the boundary of a pattern, and all that it matches,    *)
(* the trailing context included.                                          *)
TailWords(p) ==
    IF ~HasTrail(p) THEN {<<>>}
    ELSE Product(Language(p.s), IF p.eol THEN {<<Newline>>} ELSE {<<>>})
Matches(p) == Product(Language(p.r), TailWords(p))
=============================================================================
