---------------------------- MODULE MCAlgorithms ----------------------------
(* Every input of the algorithms up to a length: each state is one, and a   *)
(* step makes it longer.                                                    *)

EXTENDS Declarations, Paths, SymbolTree

CONSTANTS MaxCode,     \* runes behind the beginning of a source
          MaxText,     \* the same, of comments, literals and units
          MaxOdd,      \* sources that are shorter have odd ranges too
          MaxPath,     \* characters behind the beginning of a path
          MaxSymbols

VARIABLE input

\* The bodies of a class, all there is to comments and literals, and functions.
Runes == [class    |-> {"letter", "extends", " ", "{", "}", "(", ")", "<", ">", "=", ",", ";"},
          text     |-> {"letter", "/", "*", "quote", "escape", NL, "{"},
          function |-> {"function", "pair", NL, "=", ">", "(", ")", "/", "*", "quote"}]

Beginnings ==
  [class |-> {<<"class", " ", "Name">>},
   text |-> {<<"class", " ", "Name">>, <<"interface", " ", "Name">>},
   function |-> {<<>>}]

Distro == <<"distro">>

PathBeginnings ==
  {<<>>, <<Slash, "mnt">>, <<"c", ":">>, <<Slash, "c">>, <<Slash>> \o Distro,
   <<Back, Back, "wsl$", Back>> \o Distro, <<Back, Back, "WSL$", Back, "DISTRO">>}

PathChars == {Slash, Back, ":", ".", "c", "C", "mnt"}

\* Where a symbol starts, where its name does, and where that ends.
Ranges(line, i) ==
  LET start == <<line, i>> IN
  {[range |-> <<start, <<line + 1, 0>>>>, selRange |-> <<start, <<line, i + 1>>>>],
   [range |-> <<start, <<line, i>>>>, selRange |-> <<start, <<line, i + 1>>>>],
   [range |-> <<<<line, i + 1>>, <<line, i + 2>>>>, selRange |-> <<start, <<line, i + 1>>>>],
   [range |-> <<<<-1, 0>>, <<line + 1, 0>>>>, selRange |-> <<start, <<line, i + 1>>>>],
   [range |-> <<start, <<line + 1, 0>>>>, selRange |-> <<<<line, i + 1>>, start>>]}

Init ==
  \/ \E w \in DOMAIN Runes : \E b \in Beginnings[w] : input = [what |-> w, seq |-> b, more |-> 0]
  \/ \E b \in PathBeginnings : input = [what |-> "path", seq |-> b, more |-> 0]
  \/ input = [what |-> "tree", seq |-> <<>>, more |-> 0]

grow(element) == input' = [input EXCEPT !.seq = Append(@, element), !.more = @ + 1]

GrowSource ==
  /\ input.what \in DOMAIN Runes
  /\ input.more < IF input.what = "class" THEN MaxCode ELSE MaxText
  /\ \E r \in Runes[input.what] : grow(r)

GrowPath ==
  /\ input.what = "path" /\ input.more < MaxPath
  /\ \E c \in PathChars : grow(c)

\* At most the last symbol has a range that is refused.
GrowTree ==
  /\ input.what = "tree" /\ input.more < MaxSymbols
  /\ \A i \in 1..input.more : Usable(input.seq[i])
  /\ \E name \in {"f", "g"}, line \in {0, 1} : \E r \in Ranges(line, input.more),
        depth \in 0..(IF input.more = 0 THEN 0 ELSE input.seq[input.more].depth + 1) :
       grow([name |-> name, depth |-> depth, range |-> r.range, selRange |-> r.selRange])

Next == GrowSource \/ GrowPath \/ GrowTree

Spec == Init /\ [][Next]_input

-----------------------------------------------------------------------------
(* The properties of the algorithms, for these inputs.                     *)

symbols(kinds, name, anonymous, ranges) ==
  [kind : kinds, name : {name}, anonymous : anonymous, range : ranges, position : {<<>>}]

\* Declarations of the whole source; a call signature within it; and ranges that
\* end before they start or behind the source.
Symbols(src) ==
  LET start == positionAt(src, 0)
      end   == positionAt(src, Len(src))
      inner == <<positionAt(src, 1), positionAt(src, Len(src) - 1)>>
      odd   == {r \in {<<end, start>>, <<start, <<end[1], end[2] + 1>>>>} : input.more < MaxOdd} IN
  CASE input.what = "class" ->
         symbols({"class"}, "Name", BOOLEAN, {<<start, end>>})
           \cup symbols({"method"}, "()", {TRUE}, {inner})
    [] input.what = "text" ->
         symbols({src[1]}, "Name", BOOLEAN, {<<start, end>>})
           \cup symbols({src[1], "function"}, "Name", {TRUE}, odd)
           \cup symbols({"method"}, "()", {TRUE}, odd)
    [] OTHER -> symbols({"function"}, "Name", {TRUE}, {<<start, end>>})

\* planSignature, of the source with the brace of the body behind it.
SignaturePlans ==
  input.what \in DOMAIN Runes =>
    LET src == input.seq \o <<"{">> IN \A symbol \in Symbols(src) : PlanIsCode(src, symbol)

\* byteOffset and positionAt.
PositionsRoundTrip == input.what = "function" => PositionsMatch(input.seq)

\* Canonicalize, PathToURI, URIToPath and WSLToWindows, in and outside of WSL.
PathIdentity ==
  input.what = "path" => \A env \in {<<>>, Distro} : PathIsIdentity(input.seq, env)

\* decodeDocumentSymbols, flattenSymbols and resolveSymbolPosition.
OutlineWalks ==
  input.what = "tree" => WalksAreWhole(input.seq, {"f", "g"}, {0, 1}, 1..MaxSymbols)

=============================================================================
