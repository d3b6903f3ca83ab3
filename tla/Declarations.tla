---------------------------- MODULE Declarations ----------------------------
(***************************************************************************)
(* What planSignature takes from the source of a declaration: the header   *)
(* of a class or an interface, or the place of the token that hover is     *)
(* asked for (declaration_headers.go, signatures.go).  A word of the       *)
(* source is one rune here: a keyword, the symbol's name or a letter of    *)
(* another identifier, so that two words side by side are one identifier.  *)
(***************************************************************************)
EXTENDS Positions, FiniteSetsExt

None == -1           \* no such offset

Keywords   == {"extends"}    \* declarationContextualKeywords
Words      == Keywords \cup {"class", "interface", "function", "Name"}
Identifier == Words \cup {"letter", "pair"}
Spaces     == {" ", NL}
Quotes     == {"quote", "tick"}
Opening    == [c \in {"(", "[", "{"} |-> CASE c = "(" -> "paren" [] c = "[" -> "bracket" [] OTHER -> "brace"]
Closing    == [c \in {")", "]", "}"} |-> CASE c = ")" -> "paren" [] c = "]" -> "bracket" [] OTHER -> "brace"]
Joiners    == {",", "?", ":", "=", "&", "|", "."}

\* isIdentifierByte of the bytes around a token of n runes.
tokenBoundary(src, i, n) ==
  /\ i = 0 \/ at(src, i - 1) \notin Identifier
  /\ i + n = Len(src) \/ at(src, i + n) \notin Identifier

\* strings.HasPrefix with the boundary; "=>" needs none.
tokenAt(src, i, end, token) ==
  IF token = "=>" THEN i + 1 < end /\ at(src, i) = "=" /\ at(src, i + 1) = ">"
                  ELSE at(src, i) = token /\ tokenBoundary(src, i, 1)

declarationKeywordAt(src, i, end) == \E k \in Keywords : tokenAt(src, i, end, k)

incompleteDeclarationToken(last) ==
  last \in Keywords \cup DOMAIN Opening \cup {"<", "=>"} \cup Joiners

-----------------------------------------------------------------------------
(* Comments and literals.                                                  *)

span(next, kind, complete) == [next |-> next, kind |-> kind, complete |-> complete]

\* The offset behind the closing quote, or None.
RECURSIVE literalEnd(_, _, _, _)
literalEnd(src, i, end, quote) ==
  IF i >= end THEN None
  ELSE IF at(src, i) = "escape" THEN literalEnd(src, i + 2, end, quote)
  ELSE IF at(src, i) = quote THEN i + 1
  ELSE literalEnd(src, i + 1, end, quote)

\* Mutant: a block comment may close with the star that opened it.
blockEndsEarly(src, i, end) ==
  {j \in (i + 1)..(end - 2) : at(src, j) = "*" /\ at(src, j + 1) = "/"}

\* Where the block comment that starts at i may close.
blockEnds(src, i, end) ==
  {j \in (i + 2)..(end - 2) : at(src, j) = "*" /\ at(src, j + 1) = "/"}

\* A comment or a literal that starts at i.  A line comment takes its newline,
\* and is complete without one.
scanLexicalSpan(src, i, end) ==
  LET opens(c) == at(src, i) = "/" /\ i + 1 < end /\ at(src, i + 1) = c
      closes   == blockEnds(src, i, end)
      lit      == literalEnd(src, i + 1, end, at(src, i)) IN
  CASE opens("/") -> LET nls == {j \in (i + 2)..(end - 1) : at(src, j) = NL} IN
                       span(IF nls = {} THEN end ELSE Min(nls) + 1, "comment", TRUE)
    [] opens("*") -> IF closes = {} THEN span(end, "comment", FALSE)
                                    ELSE span(Min(closes) + 2, "comment", TRUE)
    [] at(src, i) \in Quotes -> IF lit = None THEN span(end, "literal", FALSE)
                                              ELSE span(lit, "literal", TRUE)
    [] OTHER -> span(i, "none", TRUE)

-----------------------------------------------------------------------------
(* The scans.                                                              *)

Flat == [paren |-> 0, bracket |-> 0, brace |-> 0]
Top  == [paren |-> 0, bracket |-> 0, brace |-> 0, angle |-> 0]

IsFlat(d) == d.paren = 0 /\ d.bracket = 0 /\ d.brace = 0

\* declarationTokenOffset: the first of the tokens outside brackets; a closing
\* bracket too many is forgiven.
RECURSIVE tokenOffset(_, _, _, _, _)
tokenOffset(src, i, end, tokens, d) ==
  IF i >= end THEN None ELSE
  LET s == scanLexicalSpan(src, i, end)
      c == at(src, i)
      e == IF c \in DOMAIN Opening THEN [d EXCEPT ![Opening[c]] = @ + 1]
           ELSE IF c \in DOMAIN Closing /\ d[Closing[c]] > 0 THEN [d EXCEPT ![Closing[c]] = @ - 1]
           ELSE d IN
  CASE s.kind # "none" -> IF s.complete THEN tokenOffset(src, s.next, end, tokens, d) ELSE None
    [] IsFlat(e) /\ (\E t \in tokens : tokenAt(src, i, end, t)) -> i
    [] OTHER -> tokenOffset(src, i + 1, end, tokens, e)

declarationTokenOffset(src, start, end, tokens) == tokenOffset(src, start, end, tokens, Flat)

RECURSIVE skipDeclarationTrivia(_, _, _)
skipDeclarationTrivia(src, i, end) ==
  IF i >= end THEN None ELSE
  LET s == scanLexicalSpan(src, i, end) IN
  CASE s.kind = "comment" -> IF s.complete THEN skipDeclarationTrivia(src, s.next, end) ELSE None
    [] s.kind = "literal" -> None
    [] at(src, i) \in Spaces -> skipDeclarationTrivia(src, i + 1, end)
    [] OTHER -> i

\* declarationBodyOffset from start: the brace outside all brackets, if what
\* stands before it is complete.  last is the last token, "value" for operands.
RECURSIVE bodyOffset(_, _, _, _, _, _)
bodyOffset(src, i, end, start, d, last) ==
  IF i >= end THEN None ELSE
  LET s == scanLexicalSpan(src, i, end)
      c == at(src, i)
      goOn(e, l) == bodyOffset(src, i + 1, end, start, e, l) IN
  CASE s.kind # "none" ->
         IF s.complete
           THEN bodyOffset(src, s.next, end, start, d, IF s.kind = "literal" THEN "value" ELSE last)
           ELSE None
    [] s.kind = "none" /\ declarationKeywordAt(src, i, end) ->
         goOn(d, IF last = "." THEN "value" ELSE c)
    [] c = "{" /\ d = Top -> IF incompleteDeclarationToken(last) THEN None ELSE i
    [] c \in DOMAIN Opening /\ ~(c = "{" /\ d = Top) -> goOn([d EXCEPT ![Opening[c]] = @ + 1], c)
    [] c \in DOMAIN Closing ->
         IF d[Closing[c]] = 0 THEN None ELSE goOn([d EXCEPT ![Closing[c]] = @ - 1], "value")
    [] c = "<" -> IF IsFlat(d) THEN goOn([d EXCEPT !.angle = @ + 1], "<") ELSE goOn(d, last)
    [] c = ">" ->
         IF ~IsFlat(d) THEN goOn(d, last)
         ELSE IF i > start /\ at(src, i - 1) = "=" THEN goOn(d, "=>")
         ELSE IF d.angle = 0 \/ (last # "," /\ incompleteDeclarationToken(last)) THEN None
         ELSE goOn([d EXCEPT !.angle = @ - 1], "value")
    [] c = ";" -> IF d = Top THEN None ELSE goOn(d, "value")
    [] c \in Joiners -> goOn(d, c)
    [] OTHER -> goOn(d, IF c \in Spaces THEN last ELSE "value")

declarationBodyOffset(src, start, end) == bodyOffset(src, start, end, start, Top, "value")

appendDeclarationSpace(out, pending) ==
  IF pending /\ out # <<>> THEN Append(out, " ") ELSE out

\* normalizeDeclarationHeader: comments and white space become one space, and a
\* literal that spans lines is refused.  The empty sequence stands for a refusal.
RECURSIVE normalized(_, _, _, _, _)
normalized(src, i, end, out, pending) ==
  IF i >= end THEN out ELSE
  LET s == scanLexicalSpan(src, i, end)
      text == SubSeq(src, i + 1, s.next) IN
  CASE s.kind = "comment" -> IF s.complete THEN normalized(src, s.next, end, out, TRUE) ELSE <<>>
    [] s.kind = "literal" ->
         IF ~s.complete \/ NL \in Range(text) THEN <<>>
         ELSE normalized(src, s.next, end, appendDeclarationSpace(out, pending) \o text, FALSE)
    [] s.kind = "none" /\ at(src, i) \in Spaces -> normalized(src, i + 1, end, out, TRUE)
    [] OTHER -> normalized(src, i + 1, end,
                           Append(appendDeclarationSpace(out, pending), at(src, i)), FALSE)

\* Mutant: the header is the text of the source, with its comments.
headerAsWritten(src, start, end) == SubSeq(src, start + 1, end)

normalizeDeclarationHeader(src, start, end) == normalized(src, start, end, <<>>, FALSE)

-----------------------------------------------------------------------------
(* A symbol has a kind, a name, a range, the start of its selection range,  *)
(* and is anonymous if that range is empty and it is no constructor.        *)

\* Both ends of the range are positions of the source.
inSource(src, range) == \A i \in {1, 2} : byteOffset(src, range[i]) # Outside

\* The header, or the empty sequence, of a range in the source.
extractDeclarationHeader(src, symbol) ==
  LET start == byteOffset(src, symbol.range[1])
      end   == byteOffset(src, symbol.range[2])
      key   == declarationTokenOffset(src, start, end, {symbol.kind})
      name  == skipDeclarationTrivia(src, key + 1, end)
      body  == declarationBodyOffset(src, name + 1, end) IN
  IF \/ symbol.kind \notin {"class", "interface"}
     \/ end < start
     \/ key = None \/ name = None
     \/ ~tokenAt(src, name, end, symbol.name) \/ body = None
    THEN <<>>
    ELSE normalizeDeclarationHeader(src, key, body)

\* The place of the token, or the empty sequence.
findDeclarationToken(src, range, tokens) ==
  LET i == declarationTokenOffset(src, byteOffset(src, range[1]), byteOffset(src, range[2]), tokens) IN
  IF i = None THEN <<>> ELSE positionAt(src, i)

textInRange(src, range) ==
  SubSeq(src, byteOffset(src, range[1]) + 1, byteOffset(src, range[2]))

\* strings.TrimSpace, then strings.TrimSuffix of one semicolon.
RECURSIVE trim(_)
trim(s) ==
  IF s = <<>> THEN s
  ELSE IF Head(s) \in Spaces THEN trim(Tail(s))
  ELSE IF Last(s) \in Spaces THEN trim(Front(s))
  ELSE IF Last(s) = ";" THEN Front(s) ELSE s

\* The range cannot be cut out of the source: textInRange and findDeclarationToken
\* refuse it.
badRange(src, range) ==
  ~inSource(src, range) \/ byteOffset(src, range[2]) < byteOffset(src, range[1])

\* The place hover is asked for, or what makes the question superfluous.  A range
\* that the plan has to look at and that is not one of the source is an error.
planSignature(src, symbol) ==
  LET tokens == CASE symbol.kind = "function" -> {"function", "=>"}
                  [] symbol.kind = "class" -> {"class"}
                  [] OTHER -> {}
      headed == symbol.kind \in {"class", "interface"}
      plan(text, place) == [err |-> FALSE, direct |-> text, position |-> place]
      \* Hover is asked for the symbol's own place.
      named == ~symbol.anonymous \/ (symbol.name # "()" /\ tokens = {})
      hoverAt(place) == plan(<<>>, IF place = <<>> THEN symbol.position ELSE place)
      withHeader(header) ==
        IF header # <<>> THEN plan(header, symbol.position)
        ELSE IF named THEN hoverAt(<<>>)
        ELSE IF badRange(src, symbol.range)
          THEN [err |-> TRUE, direct |-> <<>>, position |-> symbol.position]
        ELSE IF symbol.name = "()" THEN plan(trim(textInRange(src, symbol.range)), symbol.position)
        ELSE hoverAt(findDeclarationToken(src, symbol.range, tokens)) IN
  IF headed /\ ~inSource(src, symbol.range)
    THEN [err |-> TRUE, direct |-> <<>>, position |-> symbol.position]
    ELSE withHeader(IF headed THEN extractDeclarationHeader(src, symbol) ELSE <<>>)

-----------------------------------------------------------------------------
(* The reference: one pass that knows for each rune what it belongs to.    *)

Escaped == [quote |-> "quoteEscape", tick |-> "tickEscape"]

\* The state of the pass behind rune c, which next follows.
after(state, c, next) ==
  CASE state = "code" -> CASE c = "/" /\ next = "/" -> "line" [] c = "/" /\ next = "*" -> "open"
                           [] c \in Quotes -> c [] OTHER -> "code"
    [] state = "line"  -> IF c = NL THEN "code" ELSE "line"
    [] state = "open"  -> "block"
    [] state = "block" -> IF c = "*" /\ next = "/" THEN "close" ELSE "block"
    [] state = "close" -> "code"
    [] state \in Quotes -> IF c = "escape" THEN Escaped[state] ELSE IF c = state THEN "code" ELSE state
    [] OTHER -> CHOOSE q \in Quotes : Escaped[q] = state

\* "code", "trivia" or "literal" for each rune.
Lex(src) ==
  LET next(i) == IF i < Len(src) THEN src[i + 1] ELSE "end"
      states[i \in 0..Len(src)] ==
        IF i = 0 THEN "code" ELSE after(states[i - 1], src[i], next(i))
      comment == {"line", "open", "block", "close"} IN
  [i \in 1..Len(src) |->
     IF states[i - 1] \in comment \/ states[i] \in {"line", "open"} THEN "trivia"
     ELSE IF states[i - 1] = "code" /\ states[i] = "code"
       THEN IF src[i] \in Spaces THEN "trivia" ELSE "code"
       ELSE "literal"]

\* The runes a reader of the declaration cares for.
Essence(src) == LET lex == Lex(src) IN
  FoldLeft(LAMBDA out, i : IF lex[i] = "trivia" THEN out ELSE Append(out, <<src[i], lex[i]>>),
           <<>>, [i \in 1..Len(src) |-> i])

Count(s, c) == Cardinality({i \in 1..Len(s) : s[i] = <<c, "code">>})

\* A header is a declaration of the source between a keyword and a brace that are
\* code, on one line, with each literal, with single spaces for its comments, its
\* brackets closed; and it is stable: before a body it is its own header.
HeaderOf(header, src, symbol, lex, own) ==
  /\ NL \notin Range(header)
  /\ \A i \in 1..Len(header) :
       own[i] = "trivia" => header[i] = " " /\ (i < Len(header) => own[i + 1] # "trivia")
  /\ \E k, b \in 1..Len(src) :
       /\ src[k] = symbol.kind /\ lex[k] = "code" /\ src[b] = "{" /\ lex[b] = "code"
       /\ Essence(header) = Essence(SubSeq(src, k, b - 1))
  /\ \A c \in DOMAIN Opening, e \in DOMAIN Closing :
       Opening[c] = Closing[e] => Count(Essence(header), c) = Count(Essence(header), e)
  /\ LET body == Append(header, "{") IN
     header = extractDeclarationHeader(body,
       [symbol EXCEPT !.range = <<positionAt(body, 0), positionAt(body, Len(body))>>])

\* What stands for a signature without a name is its text, but for the white space
\* around it and a semicolon.
CallSignatureOf(direct, text) ==
  \E a, b \in 1..Len(text) :
    /\ direct = SubSeq(text, a, b)
    /\ \A i \in 1..(a - 1) : text[i] \in Spaces
    /\ \A i \in (b + 1)..Len(text) : text[i] \in Spaces \/ (i = b + 1 /\ text[i] = ";")

\* The plan has a header or the text of a call signature, as above.  A place that
\* hover is asked for is a token of the code, never of a comment or a literal.  A
\* range that is not one of the source gives neither.
PlanFits(plan, src, symbol, lex) ==
  /\ plan.direct # <<>> =>
       IF symbol.name = "()" THEN CallSignatureOf(plan.direct, textInRange(src, symbol.range))
                             ELSE HeaderOf(plan.direct, src, symbol, lex, Lex(plan.direct))
  /\ badRange(src, symbol.range) => plan.direct = <<>> /\ plan.position = symbol.position
  /\ plan.position # symbol.position =>
       LET i == byteOffset(src, plan.position) IN i # Outside /\ lex[i + 1] = "code"

\* What planSignature gives is such a plan.
PlanIsCode(src, symbol) == PlanFits(planSignature(src, symbol), src, symbol, Lex(src))

=============================================================================
