---------------------------- MODULE PatternMatch ----------------------------
(***************************************************************************)
(* The pattern algorithms: the glob loop of the opencode permission rules  *)
(* and the overlap and containment tests that its order check rests on     *)
(* (src/src/adapter/opencode/permissions.rs), and the glob of host scopes  *)
(* (src/crates/llmenv-scope/src/matcher.rs).                               *)
(*                                                                         *)
(* A pattern is a sequence of symbols, and what it means is the reference  *)
(* operator Generates. The loop is a state machine, one step per turn.     *)
(***************************************************************************)
EXTENDS Integers, Sequences, FiniteSets, SequencesExt

CONSTANTS PatternSymbols,  \* literal symbols, "*" and "?"
          TextSymbols,     \* literal symbols
          MaxPattern, MaxText

ASSUME PatternAssumption == {MaxPattern, MaxText} \subseteq Nat /\ {"*", "?"} \cap TextSymbols = {}

Patterns == UNION {[1 .. n -> PatternSymbols] : n \in 0 .. MaxPattern}
Inputs == UNION {[1 .. n -> TextSymbols] : n \in 0 .. MaxText}

VARIABLES pat, other,      \* the patterns of the call; other is for the pair tests
          text, p, i,      \* glob_matches: the input, and where the loop stands
          star, resume, answer

globVars == <<pat, other, text, p, i, star, resume, answer>>

\* Reference: the pattern generates the text. "*" is any run, a symbol of AnyOne is one symbol.
Generates(q, x, AnyOne) ==
  LET from[m \in 1 .. Len(q) + 1, n \in 1 .. Len(x) + 1] ==
        IF m > Len(q) THEN n > Len(x)
        ELSE IF q[m] = "*" THEN from[m + 1, n] \/ (n <= Len(x) /\ from[m, n + 1])
        ELSE n <= Len(x) /\ (q[m] = x[n] \/ q[m] \in AnyOne) /\ from[m + 1, n + 1]
  IN from[1, 1]

AllStars(q) == \A k \in 1 .. Len(q) : q[k] = "*"
From(q, k) == SubSeq(q, k, Len(q))

-----------------------------------------------------------------------------
(* wildcard_matches, patterns_overlap, pattern_subsumes.                   *)

BareSpelling(q) == SubSeq(q, 1, Len(q) - 2)
HasBareSpelling(q) == Len(q) >= 2 /\ From(q, Len(q) - 1) = <<" ", "*">>
Spellings(q) == {q} \cup (IF HasBareSpelling(q) THEN {BareSpelling(q)} ELSE {})

WildcardMatches(q, x) == \E s \in Spellings(q) : Generates(s, x, {"?"})

\* Mutant: an exhausted side ends the search.
GlobsIntersectEndsEarly(a, b) ==
  LET reachable[m \in 1 .. Len(a) + 1, n \in 1 .. Len(b) + 1] ==
        IF m > Len(a) \/ n > Len(b) THEN m > Len(a) /\ n > Len(b)
        ELSE IF a[m] = "*" \/ b[n] = "*" THEN reachable[m + 1, n] \/ reachable[m, n + 1]
        ELSE (a[m] = "?" \/ b[n] = "?" \/ a[m] = b[n]) /\ reachable[m + 1, n + 1]
  IN reachable[1, 1]

\* The table over pairs of suffixes.
GlobsIntersect(a, b) ==
  LET reachable[m \in 1 .. Len(a) + 1, n \in 1 .. Len(b) + 1] ==
        IF m > Len(a) THEN AllStars(From(b, n))
        ELSE IF n > Len(b) THEN AllStars(From(a, m))
        ELSE IF a[m] = "*" \/ b[n] = "*" THEN reachable[m + 1, n] \/ reachable[m, n + 1]
        ELSE (a[m] = "?" \/ b[n] = "?" \/ a[m] = b[n]) /\ reachable[m + 1, n + 1]
  IN reachable[1, 1]

PatternsOverlap(a, b) == \E x \in Spellings(a), y \in Spellings(b) : GlobsIntersect(x, y)

\* The witness of a pattern for one probe length; the sentinel is in no pattern.
Witness(q, run) ==
  FlattenSeq([k \in 1 .. Len(q) |-> CASE q[k] = "*" -> [n \in 1 .. run |-> "sentinel"]
                                      [] q[k] = "?" -> <<"sentinel">>
                                      [] OTHER -> <<q[k]>>])
Widest(q) == Cardinality({k \in 1 .. Len(q) : q[k] = "?"}) + 1

PatternSubsumes(broad, narrow) ==
  \A run \in {0, 1, Widest(broad)} : WildcardMatches(broad, Witness(narrow, run))

-----------------------------------------------------------------------------
(* glob_matches of scopes: `*` only, by its parts.                         *)

Stars(q) == {k \in 1 .. Len(q) : q[k] = "*"}
\* split('*'): the text before, between and after the stars.
SplitAtStars(q) ==
  LET cuts == <<0>> \o SetToSortSeq(Stars(q), <) \o <<Len(q) + 1>>
  IN [k \in 1 .. Len(cuts) - 1 |-> SubSeq(q, cuts[k] + 1, cuts[k + 1] - 1)]

OccursAt(x, part, k) == SubSeq(x, k, k + Len(part) - 1) = part
\* The end of the first occurrence of part after position pos, or -1.
FindAfter(x, pos, part) ==
  LET at == {k \in pos + 1 .. Len(x) - Len(part) + 1 : OccursAt(x, part, k)}
  IN IF pos = -1 \/ at = {} THEN -1 ELSE (CHOOSE k \in at : \A n \in at : k <= n) + Len(part) - 1

ScopeGlobMatches(q, x) ==
  IF Stars(q) = {} THEN q = x
  ELSE LET parts == SplitAtStars(q)
           first == parts[1]
           end == parts[Len(parts)]
       IN /\ IsPrefix(first, x) /\ IsSuffix(end, x)
          /\ Len(x) >= Len(first) + Len(end)
          /\ FoldLeft(LAMBDA pos, part : FindAfter(x, pos, part), Len(first),
                      SubSeq(parts, 2, Len(parts) - 1)) # -1

-----------------------------------------------------------------------------
(* glob_matches of opencode patterns: backtracking on the most recent star. *)

NoStar == 0
GlobInit ==
  /\ pat \in Patterns
  /\ \/ text \in Inputs /\ other = <<>> /\ answer = "running"
     \/ text = <<>> /\ other \in Patterns /\ answer = "pair"
  /\ p = 1 /\ i = 1 /\ star = NoStar /\ resume = 1

InText == answer = "running" /\ i <= Len(text)
Sees(s) == p <= Len(pat) /\ pat[p] \in s

TakeStar ==
  /\ InText /\ Sees({"*"})
  /\ star' = p /\ resume' = i /\ p' = p + 1
  /\ UNCHANGED <<pat, other, text, i, answer>>

TakeSymbol ==
  /\ InText /\ ~Sees({"*"}) /\ Sees({"?", text[i]})
  /\ p' = p + 1 /\ i' = i + 1
  /\ UNCHANGED <<pat, other, text, star, resume, answer>>

\* The most recent star takes one more symbol.
Backtrack ==
  /\ InText /\ ~Sees({"*", "?", text[i]}) /\ star # NoStar
  /\ p' = star + 1 /\ resume' = resume + 1 /\ i' = resume + 1
  /\ UNCHANGED <<pat, other, text, star, answer>>

NoMatch ==
  /\ InText /\ ~Sees({"*", "?", text[i]}) /\ star = NoStar
  /\ answer' = "no"
  /\ UNCHANGED <<pat, other, text, p, i, star, resume>>

EndOfText ==
  /\ answer = "running" /\ i > Len(text)
  /\ answer' = IF AllStars(From(pat, p)) THEN "yes" ELSE "no"
  /\ UNCHANGED <<pat, other, text, p, i, star, resume>>

GlobNext == TakeStar \/ TakeSymbol \/ Backtrack \/ NoMatch \/ EndOfText

GlobSpec == GlobInit /\ [][GlobNext]_globVars

-----------------------------------------------------------------------------
\* The loop of glob_matches answers what the pattern means, whatever it backtracked over.
GlobAnswersRight ==
  answer \in {"yes", "no"} => (answer = "yes") = Generates(pat, text, {"?"})

\* "Decides L(a) /\ L(b) # {} exactly": patterns_overlap is true just when some input
\* matches both patterns, the bare spelling of a trailing " *" included.
OverlapIsExact ==
  answer = "pair" =>
    PatternsOverlap(pat, other) = \E x \in Inputs : WildcardMatches(pat, x) /\ WildcardMatches(other, x)

\* pattern_subsumes exempts a pair from the order check: where it answers yes, the broad
\* pattern matches all that the narrow one matches, except the bare spelling of the narrow
\* one, which the probes leave out.
ExemptPairsNest ==
  answer = "pair" /\ PatternSubsumes(pat, other) =>
    \A x \in Inputs : Generates(other, x, {"?"}) => WildcardMatches(pat, x)

\* A host pattern matches every host name that it means, and with one star no other.
ScopeGlobCovers ==
  answer = "running" =>
    /\ Generates(pat, text, {}) => ScopeGlobMatches(pat, text)
    /\ Cardinality(Stars(pat)) <= 1 => ScopeGlobMatches(pat, text) = Generates(pat, text, {})

\* The pattern code agrees with what patterns mean: the loop, the overlap and containment
\* tests, and the host glob.
PatternsAnswerRight == GlobAnswersRight /\ OverlapIsExact /\ ExemptPairsNest /\ ScopeGlobCovers
=============================================================================
