----------------------------- MODULE SymbolTree -----------------------------
(***************************************************************************)
(* The walks over the symbol tree of a file: the conversion of what the    *)
(* server sent (conversion.go), the outline cut to the cap (flattenSymbols)*)
(* and the search for a name (resolveSymbolPosition).  Each asks its       *)
(* context at every symbol; life is the number of times the context still  *)
(* answers that it has not ended.                                          *)
(***************************************************************************)
EXTENDS Integers, SequencesExt

NoLine == -1      \* a search without a line

before(p, q) == p[1] < q[1] \/ (p[1] = q[1] /\ p[2] < q[2])    \* positionBefore

validPosition(p) == p[1] >= 0 /\ p[2] >= 0

\* Range.Validate, in toCoreRange.
validRange(r) == validPosition(r[1]) /\ validPosition(r[2]) /\ ~before(r[2], r[1])

\* Range.Contains.
RangeContains(r, inner) == ~before(inner[1], r[1]) /\ ~before(r[2], inner[2])

-----------------------------------------------------------------------------
(* decodeDocumentSymbols.                                                  *)

Fail(why)       == [err |-> why, value |-> <<>>, life |-> 0]
Ok(value, life) == [err |-> "nil", value |-> value, life |-> life]

RECURSIVE toCoreSymbol(_, _), convertAll(_, _)

toCoreSymbol(s, life) ==
  IF life = 0 THEN Fail("canceled") ELSE
  LET kids == convertAll(s.children, life - 1) IN
  IF kids.err # "nil" THEN kids
  ELSE IF validRange(s.range) /\ validRange(s.selRange) /\ RangeContains(s.range, s.selRange)
    THEN Ok([s EXCEPT !.children = kids.value], kids.life)
    ELSE [Fail("invalid") EXCEPT !.life = kids.life]

convertAll(syms, life) ==
  IF syms = <<>> THEN Ok(<<>>, life) ELSE
  LET first == toCoreSymbol(Head(syms), life)
      rest  == convertAll(Tail(syms), first.life) IN
  IF first.err # "nil" THEN first
  ELSE IF rest.err # "nil" THEN rest
  ELSE Ok(<<first.value>> \o rest.value, rest.life)

\* Of a list; a null is the empty result behind the first look.  That look and
\* runFiniteWork's come before the conversion, and behind it one of its own, if
\* there was something to convert and it did not fail, and again runFiniteWork's,
\* which takes precedence over an error.
decodeDocumentSymbols(syms, life) ==
  IF life < 2 THEN Fail("canceled") ELSE
  LET all   == convertAll(syms, life - 2)
      looks == IF syms # <<>> /\ all.err = "nil" THEN 2 ELSE 1 IN
  IF all.life < looks THEN Fail("canceled") ELSE [all EXCEPT !.life = @ - looks]

-----------------------------------------------------------------------------
(* flattenSymbols.  halt says why the walk stopped before its end.         *)

\* Mutant: the cap is looked at behind the symbol it admits.
admitsOneMore(flat, cap) == Len(flat) <= cap

admits(flat, cap) == Len(flat) # cap

RECURSIVE flattenWalk(_, _, _, _)
flattenWalk(syms, depth, cap, st) ==
  IF syms = <<>> \/ st.halt # "no" THEN st
  ELSE IF st.life = 0 THEN [st EXCEPT !.halt = "canceled"]
  ELSE IF ~admits(st.flat, cap) THEN [st EXCEPT !.halt = "truncated"]
  ELSE LET s    == Head(syms)
           one  == [st EXCEPT !.flat = Append(@, [name |-> s.name, at |-> s.selRange[1], depth |-> depth]),
                              !.life = @ - 1]
       IN flattenWalk(Tail(syms), depth, cap, flattenWalk(s.children, depth + 1, cap, one))

flattenSymbols(syms, cap, life) ==
  IF life = 0 THEN Fail("canceled") ELSE
  LET end == flattenWalk(syms, 0, cap, [flat |-> <<>>, life |-> life - 1, halt |-> "no"]) IN
  IF end.halt = "canceled" THEN Fail("canceled")
  ELSE Ok([flat |-> end.flat, truncated |-> end.halt = "truncated"], end.life)

-----------------------------------------------------------------------------
(* resolveSymbolPosition.                                                  *)

RECURSIVE resolveWalk(_, _, _, _)
resolveWalk(syms, name, line, st) ==
  IF syms = <<>> \/ st.halt # "no" THEN st
  ELSE IF st.life = 0 THEN [st EXCEPT !.halt = "canceled"]
  ELSE LET s    == Head(syms)
           hit  == s.name = name
           pos  == s.selRange[1]
           one  == [st EXCEPT !.life = @ - 1,
                              !.first = IF hit /\ @ = <<>> THEN pos ELSE @,
                              !.lineMatch = IF hit /\ line = pos[1] THEN pos ELSE @,
                              !.halt = IF hit /\ line \in {NoLine, pos[1]} THEN "done" ELSE @]
       IN resolveWalk(Tail(syms), name, line, resolveWalk(s.children, name, line, one))

\* The value is a position, or empty when there is no match.
resolveSymbolPosition(syms, name, line, life) ==
  IF life = 0 THEN Fail("canceled") ELSE
  LET end == resolveWalk(syms, name, line,
               [first |-> <<>>, lineMatch |-> <<>>, life |-> life - 1, halt |-> "no"]) IN
  IF end.halt = "canceled" THEN Fail("canceled")
  ELSE Ok(IF end.lineMatch # <<>> THEN end.lineMatch ELSE end.first, end.life)

-----------------------------------------------------------------------------
(* The reference: the tree is given by its list in document order, each    *)
(* symbol with its depth.                                                  *)

RECURSIVE Forest(_, _)
Forest(list, depth) ==
  IF list = <<>> THEN <<>> ELSE
  LET ends == {j \in 2..Len(list) : list[j].depth <= depth}
      k    == IF ends = {} THEN Len(list) + 1 ELSE Min(ends)
      s    == list[1] IN
  << [name |-> s.name, range |-> s.range, selRange |-> s.selRange,
      children |-> Forest(SubSeq(list, 2, k - 1), depth + 1)] >>
    \o Forest(SubSeq(list, k, Len(list)), depth)

Usable(s) ==
  /\ \A p \in {s.range[1], s.range[2], s.selRange[1], s.selRange[2]} : p[1] >= 0 /\ p[2] >= 0
  /\ LET at(p) == 100 * p[1] + p[2] IN
       at(s.range[1]) <= at(s.selRange[1]) /\ at(s.selRange[1]) <= at(s.selRange[2])
         /\ at(s.selRange[2]) <= at(s.range[2])

\* Wherever the context ends, a walk over the tree returns the error or its whole
\* result, never a part of it: the tree as it was sent and only if every range in
\* it is usable; the first symbols in document order up to the cap, with a notice
\* exactly if there are more; the first symbol of the name on the line that was
\* asked for, or else the first of the name.
WalksAreWhole(list, names, lines, caps) ==
  LET tree == Forest(list, 0)
      n    == Len(list)
      first(S) == IF S = {} THEN <<>> ELSE list[Min(S)].selRange[1]
      named(x) == {i \in 1..n : list[i].name = x} IN
  \A life \in 0..(n + 4) :
    /\ LET r == decodeDocumentSymbols(tree, life) IN
         r.err # "canceled" =>
           IF \A i \in 1..n : Usable(list[i]) THEN r.err = "nil" /\ r.value = tree
                                              ELSE r.err = "invalid"
    /\ \A cap \in caps : LET r == flattenSymbols(tree, cap, life) IN
         r.err = "nil" =>
           /\ r.value.truncated <=> n > cap
           /\ r.value.flat = [i \in 1..(IF n > cap THEN cap ELSE n) |->
                [name |-> list[i].name, at |-> list[i].selRange[1], depth |-> list[i].depth]]
    /\ \A x \in names, l \in lines \cup {NoLine} :
         LET r  == resolveSymbolPosition(tree, x, l, life)
             on == {i \in named(x) : list[i].selRange[1][1] = l} IN
         r.err = "nil" => r.value = first(IF on = {} THEN named(x) ELSE on)
    /\ life = n + 4 => decodeDocumentSymbols(tree, life).err # "canceled"

=============================================================================
