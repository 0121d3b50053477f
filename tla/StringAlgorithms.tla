--------------------------- MODULE StringAlgorithms ---------------------------
(***************************************************************************)
(* The functions of framework/lib/string_algorithms.cpp: strings are       *)
(* sequences of characters, and " " stands for white space.                *)
(***************************************************************************)
EXTENDS Integers, Sequences, FiniteSetsExt, SequencesExt

Space == " "

(***************************************************************************)
(* Trim(in, replace): `space' counts the white space since the last        *)
(* character kept; what leads is skipped first.                            *)
(***************************************************************************)
TrimKeepsTail(in, replace) ==
  LET Step(r, c) == IF c # Space THEN Append(r, c)
                    ELSE IF r = <<>> \/ Last(r) = replace THEN r
                    ELSE Append(r, replace)
  IN  FoldLeft(Step, <<>>, in)

Trim(in, replace) ==
  LET Step(r, c) ==
        IF c = Space THEN [r EXCEPT !.space = TRUE]
        ELSE [out |-> r.out \o (IF r.space /\ r.out # <<>>
                                THEN <<replace, c>> ELSE <<c>>),
              space |-> FALSE]
  IN  FoldLeft(Step, [out |-> <<>>, space |-> FALSE], in).out

(***************************************************************************)
(* _EditDistance: a swap of neighbours is looked at from the third         *)
(* character on only.                                                      *)
(***************************************************************************)
EditDistanceFreeSwap(a, b) ==
  LET m[i \in 0 .. Len(a), j \in 0 .. Len(b)] ==
        IF i = 0 \/ j = 0 THEN i + j
        ELSE LET cost == IF a[i] = b[j] THEN 0 ELSE 1
                 plain == Min({m[i-1, j] + 1, m[i, j-1] + 1, m[i-1, j-1] + cost})
             IN  IF i > 1 /\ j > 1 /\ a[i] = b[j-1] /\ a[i-1] = b[j]
                 THEN Min({plain, m[i-2, j-2]})
                 ELSE plain
  IN  m[Len(a), Len(b)]

EditDistance(a, b) ==
  LET m[i \in 0 .. Len(a), j \in 0 .. Len(b)] ==
        IF i = 0 \/ j = 0 THEN i + j
        ELSE LET cost == IF a[i] = b[j] THEN 0 ELSE 1
                 plain == Min({m[i-1, j] + 1, m[i, j-1] + 1, m[i-1, j-1] + cost})
             IN  IF i > 2 /\ j > 2 /\ a[i] = b[j-1] /\ a[i-1] = b[j]
                 THEN Min({plain, m[i-2, j-2] + cost})
                 ELSE plain
  IN  m[Len(a), Len(b)]

LCSSNeighbours(a, b) ==
  LET m[i \in 0 .. Len(a), j \in 0 .. Len(b)] ==
        IF i = 0 \/ j = 0 THEN 0
        ELSE IF a[i] = b[j] THEN m[i-1, j-1] + 1 ELSE m[i-1, j-1]
  IN  m[Len(a), Len(b)]

\* _LCSS
LCSS(a, b) ==
  LET m[i \in 0 .. Len(a), j \in 0 .. Len(b)] ==
        IF i = 0 \/ j = 0 THEN 0
        ELSE IF a[i] = b[j] THEN m[i-1, j-1] + 1
        ELSE Max({m[i-1, j], m[i, j-1]})
  IN  m[Len(a), Len(b)]

(***************************************************************************)
(* Split.  Found is the first place of the delimiter at or behind p, or    *)
(* the end of the string (positions from 0, as the pointers).              *)
(***************************************************************************)
At(in, p, d) == p + Len(d) <= Len(in) /\ SubSeq(in, p + 1, p + Len(d)) = d

Found(in, p, d) == Min({q \in p .. Len(in) : At(in, q, d)} \union {Len(in)})

\* The fields from p on: one for each turn of the outer loop.
Fields(in, d) ==
  LET f[p \in 0 .. Len(in)] ==
        IF p = Len(in) THEN <<>>
        ELSE LET q == Found(in, p, d)
             IN  <<SubSeq(in, p + 1, q)>> \o f[Min({q + Len(d), Len(in)})]
  IN  f[0]

\* Split(str, char, results): no field behind a delimiter at the end
SplitChar(in, c) == Fields(in, <<c>>)

SplitForgetsLast(in, d) == {Fields(in, d)}

\* Split(str, delim, results): when the last characters are the delimiter there is
\* an empty field behind it.  Of a string shorter than the delimiter the memory
\* before it is compared as well, which may hold what is missing.
Split(in, d) ==
  LET f == Fields(in, d)
      ends == IF Len(in) < Len(d) THEN {FALSE} \union {IsSuffix(in, d)}
              ELSE {IsSuffix(d, in)}
  IN  {IF e THEN Append(f, <<>>) ELSE f : e \in ends}
=============================================================================
