-------------------------------- MODULE Tools --------------------------------
(***************************************************************************)
(* The three navigation tools (internal/tools) and the generation counter  *)
(* they stamp their answers with.  A call runs under one budget: it asks   *)
(* the provider for the symbols of the file, walks them, asks the provider *)
(* a second time, and logs one event.  find_definition and find_references *)
(* differ in the request of the second stage only.  What the provider      *)
(* returns is a number of items; it may come late, with an error, or not   *)
(* before the budget ends.                                                 *)
(***************************************************************************)
EXTENDS Naturals, Sequences

CONSTANTS Calls,      \* tool invocations
          Syncs,      \* sync commands of the control socket
          ResultCap   \* Config.Cap()

ASSUME CapAssumption == ResultCap \in Nat \ {0}

VARIABLES
  gen,      \* GenerationCounter.n
  number,   \* the generation each sync was answered with, 0 before
  pc,       \* where each call is
  kind,     \* "locate" or "outline"
  stamp,    \* the Freshness taken at the start of the call
  ended,    \* the calls whose operation context has ended
  held,     \* what the provider returned to the stage under way
  symbols,  \* the number of symbols the first stage accepted
  out,      \* the answer
  events,   \* what each call has logged
  seen      \* history: the syncs numbered when the call started

callVars == <<pc, kind, stamp, ended, held, symbols, out, events, seen>>
toolVars == <<gen, number, callVars>>

Lengths == 0..(ResultCap + 1)
Answer  == [found : BOOLEAN, size : Lengths, truncated : BOOLEAN, err : BOOLEAN]
Event   == [generation : Nat, size : Lengths, truncated : BOOLEAN, err : BOOLEAN]
Held    == [ok : BOOLEAN, n : Lengths, late : BOOLEAN]

Stages == {"symbols", "results"}
Checks == {"symbolsBack", "resultsBack"}

ToolTypeOK ==
  /\ gen \in Nat /\ number \in [Syncs -> Nat]
  /\ pc \in [Calls -> Stages \cup Checks \cup
               {"idle", "validate", "enter", "walk", "finish", "returned"}]
  /\ kind \in [Calls -> {"locate", "outline"}]
  /\ stamp \in [Calls -> Nat] /\ ended \subseteq Calls
  /\ held \in [Calls -> Held] /\ symbols \in [Calls -> Lengths]
  /\ out \in [Calls -> Answer] /\ events \in [Calls -> Seq(Event)]
  /\ seen \in [Calls -> SUBSET Syncs]

NoAnswer == [found |-> FALSE, size |-> 0, truncated |-> FALSE, err |-> FALSE]
Nothing  == [ok |-> FALSE, n |-> 0, late |-> FALSE]

ToolInit ==
  /\ gen = 0 /\ number = [s \in Syncs |-> 0]
  /\ pc = [c \in Calls |-> "idle"] /\ kind = [c \in Calls |-> "locate"]
  /\ stamp = [c \in Calls |-> 0] /\ ended = {}
  /\ held = [c \in Calls |-> Nothing] /\ symbols = [c \in Calls |-> 0]
  /\ out = [c \in Calls |-> NoAnswer] /\ events = [c \in Calls |-> <<>>]
  /\ seen = [c \in Calls |-> {}]

move(c, from, to) == pc[c] = from /\ pc' = [pc EXCEPT ![c] = to]

numbered == {s \in Syncs : number[s] # 0}

-----------------------------------------------------------------------------
(* The generation counter.                                                 *)

\* Bump, for a sync command: the new generation is the answer.
Bump(s) ==
  /\ number[s] = 0
  /\ gen' = gen + 1
  /\ number' = [number EXCEPT ![s] = gen']
  /\ UNCHANGED callVars

-----------------------------------------------------------------------------
(* A call.                                                                 *)

\* runTool: the freshness is snapped before any work.
runTool(c, k) ==
  /\ move(c, "idle", "validate")
  /\ kind' = [kind EXCEPT ![c] = k]
  /\ stamp' = [stamp EXCEPT ![c] = gen]
  /\ seen' = [seen EXCEPT ![c] = numbered]
  /\ UNCHANGED <<gen, number, ended, held, symbols, out, events>>

FindDefinition(c) == runTool(c, "locate")
FindReferences(c) == runTool(c, "locate")
GetOutline(c)     == runTool(c, "outline")

\* Mutant: no budget, and a caller whose context does not end.
operationNeverEnds(c) == FALSE /\ UNCHANGED <<toolVars>>

\* operationContext: the budget is used up, or the caller's context ends.
operationEnds(c) ==
  /\ pc[c] \notin {"idle", "returned"} /\ c \notin ended
  /\ ended' = ended \cup {c}
  /\ UNCHANGED <<gen, number, pc, kind, stamp, held, symbols, out, events, seen>>

fail(c) ==
  /\ pc' = [pc EXCEPT ![c] = "finish"]
  /\ out' = [out EXCEPT ![c].err = TRUE]

\* Found nothing: an answer without an error.
foundNothing(c) ==
  /\ pc' = [pc EXCEPT ![c] = "finish"]
  /\ UNCHANGED out

validateFile(c) ==
  /\ pc[c] = "validate"
  /\ \/ pc' = [pc EXCEPT ![c] = "symbols"] /\ UNCHANGED out
     \/ fail(c)
  /\ UNCHANGED <<gen, number, kind, stamp, ended, held, symbols, events, seen>>

\* The provider returns from DocumentSymbols, Definition, References or
\* SymbolSignatures, with items or an error.  The number of signatures is that
\* of the symbols it was given (Signatures!OutcomeIsTrue).
invoke(c) ==
  /\ pc[c] \in Stages
  /\ pc' = [pc EXCEPT ![c] = IF pc[c] = "symbols" THEN "symbolsBack" ELSE "resultsBack"]
  /\ \E r \in [ok : BOOLEAN, n : Lengths] :
       /\ ~r.ok => r.n = 0
       /\ held' = [held EXCEPT ![c] = [ok |-> r.ok, n |-> r.n, late |-> c \in ended]]
  /\ UNCHANGED <<gen, number, kind, stamp, ended, symbols, out, events, seen>>

\* Mutant: the context is not looked at behind the stage.
acceptedLate(c) == held[c].ok

\* runProviderStage: a success is accepted only while the context is active.
accepted(c) == held[c].ok /\ c \notin ended

least(a, b) == IF a < b THEN a ELSE b

\* The symbols of the file are there, or the stage failed.
SymbolsBack(c) ==
  /\ pc[c] = "symbolsBack"
  /\ IF accepted(c)
       THEN /\ symbols' = [symbols EXCEPT ![c] = held[c].n]
            /\ IF kind[c] = "outline" /\ held[c].n = 0
                 THEN foundNothing(c)
                 ELSE pc' = [pc EXCEPT ![c] = "enter"] /\ UNCHANGED out
       ELSE fail(c) /\ UNCHANGED symbols
  /\ UNCHANGED <<gen, number, kind, stamp, ended, held, events, seen>>

\* The first look at the context in resolveSymbolPosition and flattenSymbols.
EnterWalk(c) ==
  /\ pc[c] = "enter"
  /\ IF c \in ended THEN fail(c) ELSE pc' = [pc EXCEPT ![c] = "walk"] /\ UNCHANGED out
  /\ UNCHANGED <<gen, number, kind, stamp, ended, held, symbols, events, seen>>

\* The rest of the walk.  It ends with a position or the flattened symbols, or
\* with no match; a context that ends meanwhile may be noticed at the next
\* symbol.
Walk(c) ==
  /\ pc[c] = "walk"
  /\ \/ pc' = [pc EXCEPT ![c] = "results"] /\ symbols[c] > 0 /\ UNCHANGED out
     \/ kind[c] = "locate" /\ foundNothing(c)
     \/ c \in ended /\ fail(c)
  /\ UNCHANGED <<gen, number, kind, stamp, ended, held, symbols, events, seen>>

\* The list of n items is cut to the cap.
answer(c, n) ==
  /\ pc' = [pc EXCEPT ![c] = "finish"]
  /\ out' = [out EXCEPT ![c] = [found |-> TRUE, size |-> least(n, ResultCap),
                                truncated |-> n > ResultCap, err |-> FALSE]]

\* The second stage is back.  An outline has as many signatures as symbols that
\* fit the cap, or it fails.
ResultsBack(c) ==
  /\ pc[c] = "resultsBack"
  /\ IF ~accepted(c) THEN fail(c)
     ELSE IF kind[c] = "locate"
       THEN IF held[c].n = 0 THEN foundNothing(c) ELSE answer(c, held[c].n)
       ELSE IF held[c].n # least(symbols[c], ResultCap) THEN fail(c)
                                                        ELSE answer(c, symbols[c])
  /\ UNCHANGED <<gen, number, kind, stamp, ended, held, symbols, events, seen>>

eventOf(c) == [generation |-> stamp[c], size |-> out[c].size,
               truncated |-> out[c].truncated, err |-> out[c].err]

\* Mutant: the fields of the event are evaluated when the defer is.
finishEarly(c) ==
  /\ move(c, "finish", "returned")
  /\ events' = [events EXCEPT ![c] = Append(@,
       [generation |-> stamp[c], size |-> 0, truncated |-> FALSE, err |-> FALSE])]
  /\ ended' = ended \cup {c}
  /\ UNCHANGED <<gen, number, kind, stamp, held, symbols, out, seen>>

\* Mutant: the freshness is taken when the call is over.
finishStamps(c) ==
  /\ move(c, "finish", "returned")
  /\ stamp' = [stamp EXCEPT ![c] = gen]
  /\ events' = [events EXCEPT ![c] = Append(@, eventOf(c))]
  /\ ended' = ended \cup {c}
  /\ UNCHANGED <<gen, number, kind, held, symbols, out, seen>>

\* finish: the event, from what the answer is now; then the deferred cancel.
finish(c) ==
  /\ move(c, "finish", "returned")
  /\ events' = [events EXCEPT ![c] = Append(@, eventOf(c))]
  /\ ended' = ended \cup {c}
  /\ UNCHANGED <<gen, number, kind, stamp, held, symbols, out, seen>>

\* What a call does without waiting for the provider.
Work(c) ==
  validateFile(c) \/ SymbolsBack(c) \/ EnterWalk(c) \/ Walk(c) \/ ResultsBack(c) \/ finish(c)

StartCall(c) == FindDefinition(c) \/ FindReferences(c) \/ GetOutline(c)

-----------------------------------------------------------------------------
(* Properties                                                              *)

done(c) == pc[c] \in {"finish", "returned"}

\* The stamp of an answer tells every sync that was numbered before the call
\* started from every sync that was numbered after it, however syncs and stages
\* interleave, and no two syncs get one generation.
StampOrdersSyncs ==
  /\ \A c \in Calls, s \in Syncs : pc[c] # "idle" /\ number[s] # 0 =>
       (s \in seen[c] <=> number[s] <= stamp[c])
  /\ \A s, t \in numbered : number[s] = number[t] => s = t

\* An answer with results comes from a second stage that was back before the
\* budget ended, has all there is up to the cap and says when there is more; a
\* call that fails or finds nothing leaves no part of a result in its answer.
AnswerIsWhole ==
  \A c \in Calls : done(c) =>
    IF out[c].found
      THEN /\ ~out[c].err /\ ~held[c].late
           /\ LET n == IF kind[c] = "outline" THEN symbols[c] ELSE held[c].n IN
                /\ n > 0 /\ out[c].size = least(n, ResultCap)
                /\ out[c].truncated <=> n > out[c].size
      ELSE out[c].size = 0 /\ ~out[c].truncated

\* A call that returned has logged exactly one event, failed or not, and the
\* event agrees with the answer the client got, its generation included.
OneEventPerCall ==
  \A c \in Calls :
    events[c] = IF pc[c] = "returned" THEN <<eventOf(c)>> ELSE <<>>

=============================================================================
