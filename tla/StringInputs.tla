---------------------------- MODULE StringInputs ----------------------------
(***************************************************************************)
(* What the functions of StringAlgorithms are to compute, for every pair   *)
(* of strings up to a length.  The strings grow by a character a step, so  *)
(* that every pair is a reachable state.                                   *)
(***************************************************************************)
EXTENDS StringAlgorithms

CONSTANTS Letters,   \* characters that are not white space
          Delims,    \* delimiters of Split
          MaxLen     \* bound on the length of the strings

VARIABLES s, t

vars == <<s, t>>

Chars == Letters \union {Space}

Init == s = <<>> /\ t = <<>>

GrowS == Len(s) < MaxLen /\ \E c \in Chars : s' = Append(s, c) /\ UNCHANGED t

GrowT == Len(t) < MaxLen /\ \E c \in Chars : t' = Append(t, c) /\ UNCHANGED s

Next == GrowS \/ GrowT

Spec == Init /\ [][Next]_vars

(***************************************************************************)
(* What they are to compute.                                               *)
(***************************************************************************)
Join(fields, d) ==
  IF fields = <<>> THEN <<>>
  ELSE FoldLeft(LAMBDA r, f : r \o d \o f, Head(fields), Tail(fields))

Holds(field, d) == \E p \in 0 .. Len(field) : At(field, p, d)

\* Trim leaves the words of the line, in order, one replacement between two of
\* them and none around: its result has no white space, and the letters of the
\* line in their order.
TrimmedWords ==
  LET r == Trim(s, "_")
      letters == SelectSeq(s, LAMBDA c : c # Space)
      words == Cardinality({i \in DOMAIN s :
                 s[i] # Space /\ (i = 1 \/ s[i-1] = Space)})
  IN  /\ SelectSeq(r, LAMBDA c : c # "_") = letters
      /\ Cardinality({i \in DOMAIN r : r[i] = "_"}) = Max({words - 1, 0})
      /\ r # <<>> => r[1] # "_" /\ Last(r) # "_"

\* The strings one edit away; those one edit or one swap of neighbours away.
Edits(x) ==
  { RemoveAt(x, i) : i \in DOMAIN x }
    \union { [x EXCEPT ![i] = c] : i \in DOMAIN x, c \in Chars }
    \union { SubSeq(x, 1, i) \o <<c>> \o SubSeq(x, i + 1, Len(x)) :
               i \in 0 .. Len(x), c \in Chars }

Swaps(x) ==
  { [x EXCEPT ![i] = x[i+1], ![i+1] = x[i]] : i \in 1 .. Len(x) - 1 }

\* the number of steps from x to y, each step one of Near
Steps(x, y, Near(_)) ==
  LET ball[k \in Nat] ==
        IF k = 0 THEN {x}
        ELSE LET b == ball[k - 1]
             IN  b \union {z \in UNION {Near(w) : w \in b} : Len(z) <= MaxLen}
  IN  Min({k \in 0 .. Max({Len(x), Len(y)}) : y \in ball[k]})

\* The ways to set the characters of x against those of y, 0 for none: in the
\* same order, but for neighbours that are swapped.  The first character of
\* either string is not swapped.
Swapped(x, y, f, i) ==
  /\ i + 1 \in DOMAIN x /\ f[i] > 2 /\ f[i] = f[i+1] + 1 /\ i > 1
  /\ x[i] = y[f[i]] /\ x[i+1] = y[f[i+1]]

Settings(x, y) ==
  { f \in [DOMAIN x -> 0 .. Len(y)] :
      \A i, k \in DOMAIN x : i < k /\ f[i] # 0 /\ f[k] # 0 =>
         f[i] < f[k] \/ (k = i + 1 /\ Swapped(x, y, f, i)) }

\* A character that has none against it costs one, as do two that differ, and
\* a swap.
Cost(x, y, f) ==
  LET met == {i \in DOMAIN x : f[i] # 0}
  IN  Len(x) + Len(y) - 2 * Cardinality(met)
        + Cardinality({i \in met : x[i] # y[f[i]]})
        + Cardinality({i \in met : i + 1 \in met /\ Swapped(x, y, f, i)})

\* EditDistance is the cost of the cheapest way to set the strings against each
\* other: what the loop keeps of all shorter strings is enough.
EditsCheapest ==
  EditDistance(s, t) = Min({Cost(s, t, f) : f \in Settings(s, t)})

\* EditDistance is the number of additions, deletions, replacements and swaps of
\* neighbours it takes to get from the one string to the other
\* (string_algorithms.h:43).
SwapsCounted ==
  EditDistance(s, t) = Steps(s, t, LAMBDA x : Edits(x) \union Swaps(x))

\* LCSS is the length of the longest string that can be had from both by
\* leaving characters out.
LongestCommon ==
  LET Subs(x) == {[i \in 1 .. Cardinality(D) |->
                     x[CHOOSE k \in D : Cardinality({j \in D : j <= k}) = i]] :
                  D \in SUBSET DOMAIN x}
  IN  LCSS(s, t) = Max({Len(x) : x \in Subs(s) \intersect Subs(t)})

Overlaps(d) == \E k \in 1 .. Len(d) - 1 : IsSuffix(SubSeq(d, 1, k), d)

\* Split loses nothing: the fields joined by the delimiter are the string, and no
\* field holds it.  There is an empty field too many at the end at most where the
\* delimiter overlaps itself or is longer than the string.  Split on a character,
\* which the configuration reader uses, loses no more than one at the end.
SplitJoins ==
  /\ \A d \in Delims : \A r \in Split(s, d) :
       /\ \A i \in DOMAIN r : ~Holds(r[i], d)
       /\ \/ Join(r, d) = s
          \/ /\ Overlaps(d) \/ Len(s) < Len(d)
             /\ r # <<>> /\ Last(r) = <<>> /\ Join(Front(r), d) = s
  /\ \A c \in Letters : LET j == Join(SplitChar(s, c), <<c>>) IN s \in {j, Append(j, c)}
=============================================================================
