------------------------------ MODULE Positions ------------------------------
(***************************************************************************)
(* LSP positions in a source text (signatures.go).  A source is a sequence *)
(* of runes and an offset the number of runes before it; a position is a   *)
(* line and a number of UTF-16 units.  "pair" is a rune beyond the basic   *)
(* plane, which takes two units.  A scan that finds its context ended      *)
(* returns an error and no value, and is left out.                         *)
(***************************************************************************)
EXTENDS Integers, SequencesExt

NL      == "newline"
Outside == -1          \* the position is not one of the source

RuneLen(r) == IF r = "pair" THEN 2 ELSE 1

at(src, i) == src[i + 1]

\* The first loop of byteOffsetContext: where the n-th next line starts, and how
\* many of the n were not there.
RECURSIVE skipLines(_, _, _)
skipLines(src, i, n) ==
  IF n = 0 \/ i = Len(src) THEN <<i, n>>
  ELSE skipLines(src, i + 1, IF at(src, i) = NL THEN n - 1 ELSE n)

\* The second loop, within the line.  It may step over the end of n into the
\* second unit of a pair.
RECURSIVE skipUnits(_, _, _)
skipUnits(src, i, n) ==
  IF i = Len(src) \/ at(src, i) = NL \/ n <= 0 THEN <<i, n>>
  ELSE skipUnits(src, i + 1, n - RuneLen(at(src, i)))

\* Mutant: a position that is not a rune boundary is taken for the next one.
byteOffsetRounds(src, p) ==
  LET line == skipLines(src, 0, p[1])
      unit == skipUnits(src, line[1], p[2]) IN
  IF p[1] < 0 \/ p[2] < 0 \/ line[2] # 0 \/ unit[2] > 0 THEN Outside ELSE unit[1]

byteOffset(src, p) ==
  LET line == skipLines(src, 0, p[1])
      unit == skipUnits(src, line[1], p[2]) IN
  IF p[1] < 0 \/ p[2] < 0 \/ line[2] # 0 \/ unit[2] # 0 THEN Outside ELSE unit[1]

positionAt(src, offset) ==
  FoldLeft(LAMBDA p, r : IF r = NL THEN <<p[1] + 1, 0>> ELSE <<p[1], p[2] + RuneLen(r)>>,
           <<0, 0>>, SubSeq(src, 1, offset))

\* The offsets of a source and the positions byteOffset takes are one to one: a
\* range that the server sends cuts the source where the server meant it, and a
\* position that hover is asked for is the place that was found.  A position
\* inside a pair or beyond its line is refused.
PositionsMatch(src) ==
  /\ \A i \in 0..Len(src) : byteOffset(src, positionAt(src, i)) = i
  /\ \A l \in -1..Len(src), u \in -1..(2 * Len(src)) :
       LET i == byteOffset(src, <<l, u>>) IN i # Outside => positionAt(src, i) = <<l, u>>

=============================================================================
