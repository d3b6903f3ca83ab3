---------------------------- MODULE DaemonProofs ----------------------------
(***************************************************************************)
(* Proofs about Daemon and the Tools it serves, for any set of calls and   *)
(* syncs and any cap: stamps order the syncs, answers are whole, each call *)
(* logs one event, and run closes whatever it started.                     *)
(*                                                                         *)
(* The steps of the tools and those of run change disjoint variables, so   *)
(* each has an invariant of its own.                                       *)
(***************************************************************************)
EXTENDS Daemon, TLAPS

-----------------------------------------------------------------------------
(* The invariant of the tools.                                             *)

\* Generations are handed out upwards, and the syncs of a later generation than
\* the stamp are those that were not numbered when the call started.
StampInv ==
  /\ \A s \in Syncs : number[s] <= gen
  /\ \A s, t \in Syncs : number[s] # 0 /\ number[s] = number[t] => s = t
  /\ \A c \in Calls : pc[c] # "idle" =>
       /\ stamp[c] <= gen
       /\ \A s \in seen[c] : number[s] # 0 /\ number[s] <= stamp[c]
       /\ \A s \in Syncs : number[s] # 0 /\ s \notin seen[c] => number[s] > stamp[c]

\* A result that was late is one whose context has ended; the second stage is
\* asked only with symbols; and until it is done a call has no part of an answer.
StageInv ==
  \A c \in Calls :
    /\ held[c].late => c \in ended
    /\ pc[c] \in {"results", "resultsBack"} => symbols[c] > 0
    /\ ~done(c) => out[c] = NoAnswer

ToolInv == ToolTypeOK /\ StampInv /\ StageInv /\ AnswerIsWhole /\ OneEventPerCall

\* What a tool's step does to the other calls: nothing.
Alone(c) ==
  \A d \in Calls \ {c} :
    /\ pc'[d] = pc[d] /\ kind'[d] = kind[d] /\ stamp'[d] = stamp[d]
    /\ (d \in ended' <=> d \in ended) /\ held'[d] = held[d] /\ symbols'[d] = symbols[d]
    /\ out'[d] = out[d] /\ events'[d] = events[d] /\ seen'[d] = seen[d]

\* The parts of the invariant that are about one call.
CallInv(c) ==
  /\ pc[c] # "idle" =>
       /\ stamp[c] <= gen
       /\ \A s \in seen[c] : number[s] # 0 /\ number[s] <= stamp[c]
       /\ \A s \in Syncs : number[s] # 0 /\ s \notin seen[c] => number[s] > stamp[c]
  /\ held[c].late => c \in ended
  /\ pc[c] \in {"results", "resultsBack"} => symbols[c] > 0
  /\ ~done(c) => out[c] = NoAnswer
  /\ done(c) =>
       IF out[c].found
         THEN /\ ~out[c].err /\ ~held[c].late
              /\ LET n == IF kind[c] = "outline" THEN symbols[c] ELSE held[c].n IN
                   /\ n > 0 /\ out[c].size = least(n, ResultCap)
                   /\ out[c].truncated <=> n > out[c].size
         ELSE out[c].size = 0 /\ ~out[c].truncated
  /\ events[c] = IF pc[c] = "returned" THEN <<eventOf(c)>> ELSE <<>>

SyncInv ==
  /\ \A s \in Syncs : number[s] <= gen
  /\ \A s, t \in Syncs : number[s] # 0 /\ number[s] = number[t] => s = t

\* The invariant, now and after a step, taken apart by calls.
LEMMA ToolInvByCall ==
  /\ ToolInv <=> ToolTypeOK /\ SyncInv /\ \A c \in Calls : CallInv(c)
  /\ ToolInv' <=> ToolTypeOK' /\ SyncInv' /\ \A c \in Calls : CallInv(c)'
BY DEF ToolInv, StampInv, StageInv, AnswerIsWhole, OneEventPerCall, SyncInv, CallInv

LEMMA ToolInitInv == ToolInit => ToolInv
<1> SUFFICES ASSUME ToolInit PROVE ToolInv
  OBVIOUS
<1>1. NoAnswer \in Answer /\ Nothing \in Held
  BY CapAssumption DEF NoAnswer, Answer, Nothing, Held, Lengths
<1>2. ToolTypeOK
  BY <1>1, CapAssumption DEF ToolInit, ToolTypeOK, Lengths, Stages, Checks
<1>3. SyncInv
  BY DEF ToolInit, SyncInv
<1>4. ASSUME NEW c \in Calls PROVE CallInv(c)
  BY DEF ToolInit, CallInv, done, Nothing
<1> QED BY <1>2, <1>3, <1>4, ToolInvByCall

\* A step of one call with the syncs unchanged keeps the invariant of the others.
LEMMA AloneStep ==
  ASSUME NEW c \in Calls, Alone(c), UNCHANGED <<gen, number>>,
         \A d \in Calls : CallInv(d)
  PROVE  \A d \in Calls \ {c} : CallInv(d)'
BY DEF Alone, CallInv, done, eventOf

-----------------------------------------------------------------------------
(* Every step of the tools keeps it.                                       *)

\* A sync gets a generation above every stamp.
LEMMA BumpStep ==
  ASSUME ToolInv, NEW s \in Syncs, Bump(s)
  PROVE  ToolInv'
<1> USE ToolInvByCall
<1>1. /\ number[s] = 0 /\ gen' = gen + 1 /\ number' = [number EXCEPT ![s] = gen + 1]
      /\ gen \in Nat /\ number \in [Syncs -> Nat] /\ UNCHANGED callVars
  BY DEF Bump, ToolInv, ToolTypeOK
<1>2. ToolTypeOK'
  BY <1>1 DEF ToolTypeOK, callVars
<1>3. SyncInv'
  BY <1>1 DEF SyncInv
<1>4. ASSUME NEW c \in Calls PROVE CallInv(c)'
  <2>1. CallInv(c) /\ stamp[c] \in Nat /\ seen[c] \subseteq Syncs
    BY DEF ToolTypeOK
  <2>2. s \notin seen[c] \/ pc[c] = "idle"
    BY <1>1, <2>1 DEF CallInv
  <2> QED BY <1>1, <2>1, <2>2 DEF CallInv, callVars, done, eventOf
<1> QED BY <1>2, <1>3, <1>4

\* The stamp is the generation of the moment, and above it there is none.
LEMMA StartStep ==
  ASSUME ToolInv, NEW c \in Calls, StartCall(c)
  PROVE  ToolInv'
<1> USE ToolInvByCall
<1>1. PICK k \in {"locate", "outline"} : runTool(c, k)
  BY DEF StartCall, FindDefinition, FindReferences, GetOutline
<1>2. ToolTypeOK'
  BY <1>1 DEF runTool, move, ToolTypeOK, numbered
<1>3. Alone(c) /\ SyncInv'
  BY <1>1 DEF runTool, move, Alone, SyncInv, ToolTypeOK
<1>4. CallInv(c)'
  BY <1>1 DEF runTool, move, numbered, CallInv, SyncInv, done, ToolTypeOK
<1> QED BY <1>1, <1>2, <1>3, <1>4, AloneStep DEF runTool

\* A context that ends is noticed by nobody yet.
LEMMA EndStep ==
  ASSUME ToolInv, NEW c \in Calls, operationEnds(c)
  PROVE  ToolInv'
<1> USE ToolInvByCall
<1>1. ToolTypeOK'
  BY DEF operationEnds, ToolTypeOK
<1>2. Alone(c) /\ SyncInv' /\ CallInv(c)'
  BY DEF operationEnds, Alone, SyncInv, CallInv, done, eventOf
<1> QED BY <1>1, <1>2, AloneStep DEF operationEnds

\* What the provider returns is held, with a note if it was late.
LEMMA InvokeStep ==
  ASSUME ToolInv, NEW c \in Calls, invoke(c)
  PROVE  ToolInv'
<1> USE ToolInvByCall
<1>1. PICK r \in [ok : BOOLEAN, n : Lengths] :
        held' = [held EXCEPT ![c] = [ok |-> r.ok, n |-> r.n, late |-> c \in ended]]
  BY DEF invoke
<1>2. [ok |-> r.ok, n |-> r.n, late |-> c \in ended] \in Held
  BY DEF Held
<1>3. ToolTypeOK'
  BY <1>1, <1>2 DEF invoke, ToolTypeOK, Stages, Checks
<1>4. Alone(c) /\ SyncInv'
  BY <1>1 DEF invoke, Alone, SyncInv, ToolTypeOK
<1>5. /\ pc[c] \in Stages /\ pc'[c] = IF pc[c] = "symbols" THEN "symbolsBack" ELSE "resultsBack"
      /\ held'[c].late = (c \in ended) /\ CallInv(c)
      /\ UNCHANGED <<gen, number, kind, stamp, ended, symbols, out, events, seen>>
  BY <1>1 DEF invoke, ToolTypeOK, Stages
<1>6. CallInv(c)'
  BY <1>5 DEF CallInv, done, Stages
<1> QED BY <1>3, <1>4, <1>6, AloneStep DEF invoke

\* The answer of a call that failed.
Failed == [NoAnswer EXCEPT !.err = TRUE]

LEMMA Empty ==
  /\ ~NoAnswer.found /\ NoAnswer.size = 0 /\ ~NoAnswer.truncated
  /\ ~Failed.found /\ Failed.size = 0 /\ ~Failed.truncated
<1>1. NoAnswer.found = FALSE /\ NoAnswer.size = 0 /\ NoAnswer.truncated = FALSE
  BY DEF NoAnswer
<1>2. NoAnswer \in [found : BOOLEAN, size : {0}, truncated : BOOLEAN, err : BOOLEAN]
  BY DEF NoAnswer
<1>3. Failed.found = NoAnswer.found /\ Failed.size = NoAnswer.size
      /\ Failed.truncated = NoAnswer.truncated
  BY <1>2 DEF Failed
<1> QED BY <1>1, <1>3

\* A call that fails or finds nothing has no part of a result.
LEMMA NothingFound ==
  ASSUME ToolInv, NEW c \in Calls, ~done(c), pc[c] # "idle", fail(c) \/ foundNothing(c),
         UNCHANGED <<gen, number, kind, stamp, ended, held, events, seen>>,
         symbols' \in [Calls -> Lengths], \A d \in Calls \ {c} : symbols'[d] = symbols[d]
  PROVE  ToolInv'
<1> USE ToolInvByCall
<1>1. pc' = [pc EXCEPT ![c] = "finish"] /\ out[c] = NoAnswer
  BY DEF fail, foundNothing, CallInv
<1>2. out' \in [Calls -> Answer] /\ out'[c] \in {NoAnswer, Failed}
      /\ \A d \in Calls \ {c} : out'[d] = out[d]
  <2>1. CASE out' = out
    BY <1>1, <2>1 DEF ToolTypeOK
  <2>2. CASE out' = [out EXCEPT ![c].err = TRUE]
    <3>1. Failed \in Answer
      <4> NoAnswer \in Answer
        BY CapAssumption DEF NoAnswer, Answer, Lengths
      <4> QED BY DEF Failed, Answer
    <3>2. out \in [Calls -> Answer]
      BY DEF ToolTypeOK
    <3>3. out' = [out EXCEPT ![c] = [out[c] EXCEPT !.err = TRUE]]
      BY <2>2
    <3>4. out' = [out EXCEPT ![c] = Failed]
      BY <1>1, <3>3 DEF Failed
    <3> QED BY <3>1, <3>2, <3>4
  <2> QED BY <2>1, <2>2 DEF fail, foundNothing
<1>3. ToolTypeOK'
  BY <1>1, <1>2 DEF ToolTypeOK
<1>4. Alone(c) /\ SyncInv'
  BY <1>1, <1>2 DEF Alone, SyncInv, ToolTypeOK
<1>5. /\ ~out'[c].found /\ out'[c].size = 0 /\ ~out'[c].truncated
      /\ pc'[c] = "finish" /\ CallInv(c)
  BY <1>1, <1>2, Empty DEF ToolTypeOK
<1>6. CallInv(c)'
  BY <1>5 DEF CallInv, done
<1> QED BY <1>3, <1>4, <1>6, AloneStep

\* A stage or the walk goes on to the next point.
LEMMA Onward ==
  ASSUME ToolInv, NEW c \in Calls, NEW l \in {"symbols", "enter", "walk", "results"},
         ~done(c), pc[c] # "idle", pc' = [pc EXCEPT ![c] = l],
         UNCHANGED <<gen, number, kind, stamp, ended, held, out, events, seen>>,
         symbols' \in [Calls -> Lengths], \A d \in Calls \ {c} : symbols'[d] = symbols[d],
         l = "results" => symbols'[c] > 0
  PROVE  ToolInv'
<1> USE ToolInvByCall
<1>1. ToolTypeOK'
  BY DEF ToolTypeOK, Stages
<1>2. Alone(c) /\ SyncInv' /\ CallInv(c)'
  BY DEF Alone, SyncInv, CallInv, done, ToolTypeOK
<1> QED BY <1>1, <1>2, AloneStep

LEMMA EarlyStep ==
  ASSUME ToolInv, NEW c \in Calls, validateFile(c) \/ SymbolsBack(c) \/ EnterWalk(c) \/ Walk(c)
  PROVE  ToolInv'
<1>1. ~done(c) /\ pc[c] # "idle"
  BY DEF validateFile, SymbolsBack, EnterWalk, Walk, done
<1>2. /\ UNCHANGED <<gen, number, kind, stamp, ended, held, events, seen>>
      /\ symbols' \in [Calls -> Lengths] /\ \A d \in Calls \ {c} : symbols'[d] = symbols[d]
  BY DEF validateFile, SymbolsBack, EnterWalk, Walk, ToolInv, ToolTypeOK, Held
<1>3. \/ fail(c) \/ foundNothing(c)
      \/ \E l \in {"symbols", "enter", "walk", "results"} :
           /\ pc' = [pc EXCEPT ![c] = l] /\ UNCHANGED out
           /\ l = "results" => symbols'[c] > 0
  BY DEF validateFile, SymbolsBack, EnterWalk, Walk
<1> QED BY <1>1, <1>2, <1>3, NothingFound, Onward

\* The second stage was accepted, so that it is not late.
LEMMA AnswerStep ==
  ASSUME ToolInv, NEW c \in Calls, ResultsBack(c)
  PROVE  ToolInv'
<1> USE ToolInvByCall
<1>1. /\ ~done(c) /\ pc[c] = "resultsBack" /\ symbols[c] > 0
      /\ held[c].n \in Lengths /\ symbols[c] \in Lengths /\ symbols \in [Calls -> Lengths]
      /\ UNCHANGED <<gen, number, kind, stamp, ended, held, symbols, events, seen>>
  BY DEF ResultsBack, done, CallInv, ToolTypeOK, Held
<1>2. CASE fail(c) \/ foundNothing(c)
  BY <1>1, <1>2, NothingFound
<1>3. ASSUME accepted(c), NEW n \in Lengths, answer(c, n), n > 0,
             n = IF kind[c] = "outline" THEN symbols[c] ELSE held[c].n
      PROVE  ToolInv'
  <2>1. least(n, ResultCap) \in Lengths /\ (n > ResultCap <=> n > least(n, ResultCap))
    BY CapAssumption DEF least, Lengths
  <2>2. /\ pc' = [pc EXCEPT ![c] = "finish"]
        /\ out' = [out EXCEPT ![c] = [found |-> TRUE, size |-> least(n, ResultCap),
                                      truncated |-> n > ResultCap, err |-> FALSE]]
    BY <1>3 DEF answer
  <2>3. [found |-> TRUE, size |-> least(n, ResultCap), truncated |-> n > ResultCap,
         err |-> FALSE] \in Answer
    BY <2>1 DEF Answer
  <2>4. ToolTypeOK'
    BY <1>1, <2>2, <2>3 DEF ToolTypeOK
  <2>5. ~held[c].late
    BY <1>3 DEF accepted, CallInv
  <2>6. Alone(c) /\ SyncInv'
    BY <1>1, <2>2 DEF Alone, SyncInv, ToolTypeOK
  <2>7. CallInv(c)'
    BY <1>1, <1>3, <2>1, <2>2, <2>5 DEF CallInv, done, ToolTypeOK
  <2> QED BY <1>1, <2>4, <2>6, <2>7, AloneStep
<1>4. CASE kind[c] = "locate"
  BY <1>1, <1>2, <1>3, <1>4 DEF ResultsBack, Lengths
<1>5. CASE kind[c] = "outline"
  BY <1>1, <1>2, <1>3, <1>5 DEF ResultsBack, Lengths
<1> QED BY <1>4, <1>5 DEF ToolTypeOK

\* The event is made of what the answer is when the call returns.
LEMMA FinishStep ==
  ASSUME ToolInv, NEW c \in Calls, finish(c)
  PROVE  ToolInv'
<1> USE ToolInvByCall
<1>1. /\ pc[c] = "finish" /\ pc' = [pc EXCEPT ![c] = "returned"] /\ events[c] = <<>>
      /\ events' = [events EXCEPT ![c] = Append(@, eventOf(c))]
      /\ ended' = ended \cup {c}
      /\ UNCHANGED <<gen, number, kind, stamp, held, symbols, out, seen>>
  BY DEF finish, move, CallInv
<1>2. events \in [Calls -> Seq(Event)] /\ eventOf(c) \in Event /\ eventOf(c)' = eventOf(c)
  BY <1>1 DEF ToolTypeOK, eventOf, Event, Answer
<1>3. events'[c] = <<eventOf(c)>> /\ events' \in [Calls -> Seq(Event)]
  BY <1>1, <1>2
<1>4. ToolTypeOK'
  BY <1>1, <1>3 DEF ToolTypeOK
<1>5. Alone(c) /\ SyncInv'
  BY <1>1 DEF Alone, SyncInv, ToolTypeOK
<1>6. CallInv(c)'
  BY <1>1, <1>2, <1>3 DEF CallInv, done, ToolTypeOK
<1> QED BY <1>1, <1>4, <1>5, <1>6, AloneStep

-----------------------------------------------------------------------------
(* The invariant of run.                                                   *)

DaemonTypeOK ==
  /\ run \in {"jsonl", "exporter", "provider", "control", "serve", "cancel", "close",
              "exit"}
  /\ part \in [Parts -> {"none", "open", "closed", "closing"}]
  /\ canceled \in BOOLEAN /\ asked \subseteq {"signal", "eof"}
  /\ todo \in Seq({"control", "provider", "logger", "exporter"})
  /\ served \in {"none", "nil", "canceled", "error"}
  /\ exit \in {"none", "nil", "error"}

\* The parts that one entry of todo closes.
closes(t) == IF t = "logger" THEN {"jsonl", "exporter"} ELSE {t}

\* What is open has been started before the point that run is at, and once run
\* closes, some entry of todo is for it.
OpenInv ==
  /\ run = "jsonl" => \A p \in Parts : part[p] # "open"
  /\ run = "exporter" => \A p \in Parts \ {"jsonl"} : part[p] # "open"
  /\ run = "provider" => part["provider"] # "open" /\ part["control"] # "open"
  /\ run = "control" => part["control"] # "open"
  /\ run = "close" =>
       \A p \in Parts : part[p] = "open" => \E i \in 1..Len(todo) : p \in closes(todo[i])

\* RunStdio has returned only behind a full startup; no error then means that
\* the context has ended.  Only a sink may be left closing.
ServedInv ==
  /\ run \in {"serve", "cancel"} => part["control"] # "none"
  /\ served # "none" => run \in {"cancel", "close", "exit"}
  /\ run = "close" /\ served \in {"nil", "canceled"} => part["control"] # "none" /\ canceled
  /\ exit # "none" => run = "exit"
  /\ part["provider"] # "closing" /\ part["control"] # "closing"

RunInv == DaemonTypeOK /\ OpenInv /\ ServedInv /\ CleanExit

LEMMA RunInitInv == Init => RunInv
<1> SUFFICES ASSUME Init PROVE RunInv
  OBVIOUS
<1>1. DaemonTypeOK
  <2>1. todo \in Seq({"control", "provider", "logger", "exporter"})
    BY DEF Init
  <2> QED BY <2>1 DEF Init, DaemonTypeOK
<1>2. OpenInv /\ ServedInv /\ CleanExit
  BY DEF Init, OpenInv, ServedInv, CleanExit, Parts
<1> QED BY <1>1, <1>2 DEF RunInv

-----------------------------------------------------------------------------
(* Every step of run keeps it.                                             *)

\* A part is started.
LEMMA OpensStep ==
  ASSUME RunInv, NEW p \in Parts, NEW next,
         <<p, next>> \in {<<"jsonl", "exporter">>, <<"exporter", "provider">>,
                         <<"provider", "control">>, <<"control", "serve">>},
         opens(p, next)
  PROVE  RunInv'
<1>1. /\ \/ p = "jsonl" /\ next = "exporter"
         \/ p = "exporter" /\ next = "provider"
         \/ p = "provider" /\ next = "control"
         \/ p = "control" /\ next = "serve"
      /\ run = p /\ run' = next /\ part' = [part EXCEPT ![p] = "open"]
      /\ part \in [Parts -> {"none", "open", "closed", "closing"}]
      /\ UNCHANGED <<canceled, asked, todo, served, exit>>
  BY DEF opens, RunInv, DaemonTypeOK
<1>2. DaemonTypeOK'
  BY <1>1 DEF RunInv, DaemonTypeOK, Parts
<1>3. OpenInv'
  BY <1>1 DEF RunInv, OpenInv, Parts
<1>4. ServedInv' /\ CleanExit'
  BY <1>1 DEF RunInv, DaemonTypeOK, ServedInv, CleanExit, Parts
<1> QED BY <1>2, <1>3, <1>4 DEF RunInv

\* A startup that fails leaves an entry of todo for all that is open.
LEMMA FailsStep ==
  ASSUME RunInv, NEW p \in {"jsonl", "exporter", "provider", "control"},
         NEW q \in {"none", "exporter"}, NEW cleanup,
         run = p, run' = "close", todo' = cleanup,
         part' = IF q = "none" THEN part ELSE [part EXCEPT ![q] = "open"],
         UNCHANGED <<canceled, asked, served, exit>>,
         cleanup \in Seq({"control", "provider", "logger", "exporter"}),
         \A r \in Parts : part'[r] = "open" =>
           \E i \in 1..Len(cleanup) : r \in closes(cleanup[i])
  PROVE  RunInv'
<1>1. DaemonTypeOK'
  BY DEF RunInv, DaemonTypeOK, Parts
<1>2. OpenInv'
  BY DEF OpenInv
<1>3. ServedInv' /\ CleanExit'
  BY DEF RunInv, ServedInv, CleanExit, DaemonTypeOK
<1> QED BY <1>1, <1>2, <1>3 DEF RunInv

LEMMA StartupStep ==
  ASSUME RunInv, NewJSONL \/ NewMirror \/ NewProvider \/ StartControl
  PROVE  RunInv'
<1> DEFINE Entries == {"control", "provider", "logger", "exporter"}
<1>1. CASE NewJSONL
  <2>1. CASE opens("jsonl", "exporter")
    BY <2>1, OpensStep DEF Parts
  <2>2. CASE startupFails("jsonl", <<>>)
    <3>1. \A r \in Parts : part[r] # "open"
      BY <2>2 DEF startupFails, RunInv, OpenInv
    <3>2. <<>> \in Seq(Entries)
      OBVIOUS
    <3> QED BY <2>2, <3>1, <3>2, FailsStep DEF startupFails
  <2> QED BY <1>1, <2>1, <2>2 DEF NewJSONL
<1>2. CASE NewMirror
  <2>1. CASE opens("exporter", "provider")
    BY <2>1, OpensStep DEF Parts
  <2>2. CASE run = "exporter" /\ run' = "provider"
             /\ UNCHANGED <<part, canceled, asked, todo, served, exit>>
    BY <2>2 DEF RunInv, DaemonTypeOK, OpenInv, ServedInv, CleanExit, Parts
  <2>3. CASE startupFails("exporter", <<"logger">>)
    <3>1. \A r \in Parts : part[r] = "open" => r \in closes("logger")
      BY <2>3 DEF startupFails, RunInv, OpenInv, closes
    <3>2. <<"logger">> \in Seq(Entries) /\ Len(<<"logger">>) = 1 /\ <<"logger">>[1] = "logger"
      OBVIOUS
    <3>3. \A r \in Parts : part[r] = "open" =>
            \E i \in 1..Len(<<"logger">>) : r \in closes(<<"logger">>[i])
      BY <3>1, <3>2
    <3> QED BY <2>3, <3>2, <3>3, FailsStep DEF startupFails
  <2>4. CASE /\ run = "exporter" /\ run' = "close"
             /\ part' = [part EXCEPT !["exporter"] = "open"]
             /\ todo' = <<"exporter", "logger">>
             /\ UNCHANGED <<canceled, asked, served, exit>>
    <3> DEFINE cl == <<"exporter", "logger">>
    <3>1. \A r \in Parts : part'[r] = "open" => r \in closes("logger")
      BY <2>4 DEF RunInv, DaemonTypeOK, OpenInv, closes
    <3>2. cl \in Seq(Entries) /\ Len(cl) = 2 /\ cl[2] = "logger"
      OBVIOUS
    <3>3. \A r \in Parts : part'[r] = "open" => \E i \in 1..Len(cl) : r \in closes(cl[i])
      BY <3>1, <3>2
    <3> QED BY <2>4, <3>2, <3>3, FailsStep
  <2> QED BY <1>2, <2>1, <2>2, <2>3, <2>4 DEF NewMirror
<1>3. CASE NewProvider
  <2>1. CASE opens("provider", "control")
    BY <2>1, OpensStep DEF Parts
  <2>2. CASE startupFails("provider", <<"logger">>)
    <3>1. \A r \in Parts : part[r] = "open" => r \in closes("logger")
      BY <2>2 DEF startupFails, RunInv, OpenInv, closes, Parts
    <3>2. <<"logger">> \in Seq(Entries) /\ Len(<<"logger">>) = 1 /\ <<"logger">>[1] = "logger"
      OBVIOUS
    <3>3. \A r \in Parts : part[r] = "open" =>
            \E i \in 1..Len(<<"logger">>) : r \in closes(<<"logger">>[i])
      BY <3>1, <3>2
    <3> QED BY <2>2, <3>2, <3>3, FailsStep DEF startupFails
  <2> QED BY <1>3, <2>1, <2>2 DEF NewProvider
<1>4. CASE StartControl
  <2>1. CASE opens("control", "serve")
    BY <2>1, OpensStep DEF Parts
  <2>2. CASE startupFails("control", <<"provider", "logger">>)
    <3> DEFINE cl == <<"provider", "logger">>
    <3>1. \A r \in Parts : part[r] = "open" => r \in closes("provider") \cup closes("logger")
      BY <2>2 DEF startupFails, RunInv, OpenInv, closes, Parts
    <3>2. cl \in Seq(Entries) /\ Len(cl) = 2 /\ cl[1] = "provider" /\ cl[2] = "logger"
      OBVIOUS
    <3>3. \A r \in Parts : part[r] = "open" => \E i \in 1..Len(cl) : r \in closes(cl[i])
      BY <3>1, <3>2
    <3> QED BY <2>2, <3>2, <3>3, FailsStep DEF startupFails
  <2> QED BY <1>4, <2>1, <2>2 DEF StartControl
<1> QED BY <1>1, <1>2, <1>3, <1>4

\* Everything is closed behind RunStdio, in whatever way startup went.
LEMMA CancelStep ==
  ASSUME RunInv, Cancel
  PROVE  RunInv'
<1> DEFINE cl == <<"control", "provider", "logger">>
<1>1. /\ cl \in Seq({"control", "provider", "logger", "exporter"}) /\ Len(cl) = 3
      /\ cl[1] = "control" /\ cl[2] = "provider" /\ cl[3] = "logger"
  OBVIOUS
<1>2. \A r \in Parts : \E i \in 1..Len(cl) : r \in closes(cl[i])
  BY <1>1 DEF Parts, closes
<1>3. DaemonTypeOK'
  BY <1>1 DEF Cancel, RunInv, DaemonTypeOK
<1>4. OpenInv'
  BY <1>2 DEF Cancel, OpenInv
<1>5. ServedInv' /\ CleanExit'
  BY DEF Cancel, RunInv, DaemonTypeOK, ServedInv, CleanExit
<1> QED BY <1>3, <1>4, <1>5 DEF RunInv

\* What the head of todo was for is closed; the rest is still in the tail.
LEMMA CloseStep ==
  ASSUME RunInv, CloseNext
  PROVE  RunInv'
<1>1. /\ run = "close" /\ run' = "close" /\ todo # <<>> /\ todo' = Tail(todo)
      /\ UNCHANGED <<canceled, asked, served, exit>>
      /\ part \in [Parts -> {"none", "open", "closed", "closing"}]
      /\ todo \in Seq({"control", "provider", "logger", "exporter"})
  BY DEF CloseNext, RunInv, DaemonTypeOK
<1>2. Head(todo) \in {"control", "provider", "logger", "exporter"}
  BY <1>1
<1>3. /\ part' \in [Parts -> {"none", "open", "closed", "closing"}]
      /\ \A p \in Parts : /\ p \notin closes(Head(todo)) => part'[p] = part[p]
                          /\ part[p] # "open" => part'[p] = part[p]
                          /\ p \in closes(Head(todo)) => part'[p] # "open"
                          /\ part'[p] = "none" => part[p] = "none"
                          /\ p \in {"provider", "control"} /\ part'[p] = "closing" =>
                                part[p] = "closing"
  <2>1. CASE Head(todo) = "logger"
    <3>1. PICK j \in {"closed", "closing"}, e \in {"closed", "closing"} :
            part' = [part EXCEPT !["jsonl"] = close("jsonl", j), !["exporter"] = close("exporter", e)]
      BY <2>1 DEF CloseNext
    <3> QED BY <1>1, <2>1, <3>1 DEF closes, close, Parts
  <2>2. CASE Head(todo) # "logger"
    BY <1>1, <1>2, <2>2 DEF CloseNext, closes, close, Parts
  <2> QED BY <2>1, <2>2
<1>4. DaemonTypeOK'
  BY <1>1, <1>3 DEF RunInv, DaemonTypeOK
<1>5. OpenInv'
  <2> SUFFICES ASSUME NEW p \in Parts, part'[p] = "open"
               PROVE  \E i \in 1..Len(todo') : p \in closes(todo'[i])
    BY <1>1 DEF OpenInv
  <2>1. part[p] = "open" /\ p \notin closes(Head(todo))
    BY <1>3, Zenon
  <2>2. PICK i \in 1..Len(todo) : p \in closes(todo[i])
    BY <1>1, <2>1 DEF RunInv, OpenInv
  <2>3. i # 1 /\ i - 1 \in 1..Len(Tail(todo)) /\ Tail(todo)[i - 1] = todo[i]
    BY <1>1, <2>1, <2>2
  <2> QED BY <1>1, <2>2, <2>3
<1>6. ServedInv'
  <2>1. "provider" \in Parts /\ "control" \in Parts
    BY DEF Parts
  <2>2. part'["control"] = "none" => part["control"] = "none"
    BY <1>3, <2>1, Zenon
  <2>3. part'["provider"] # "closing" /\ part'["control"] # "closing"
    BY <1>3, <2>1, Zenon DEF RunInv, ServedInv
  <2> QED BY <1>1, <2>2, <2>3 DEF RunInv, ServedInv
<1>7. CleanExit'
  BY <1>1 DEF RunInv, ServedInv, CleanExit
<1> QED BY <1>4, <1>5, <1>6, <1>7 DEF RunInv

\* With nothing left to close nothing is open.
LEMMA ReturnStep ==
  ASSUME RunInv, Return
  PROVE  RunInv'
<1>1. /\ run = "close" /\ todo = <<>> /\ run' = "exit" /\ canceled' = TRUE
      /\ exit' = IF served \in {"nil", "canceled"} THEN "nil" ELSE "error"
      /\ UNCHANGED <<part, asked, todo, served>>
  BY DEF Return
<1>2. \A p \in Parts : part[p] # "open"
  BY <1>1 DEF RunInv, OpenInv
<1>3. DaemonTypeOK' /\ OpenInv' /\ ServedInv'
  BY <1>1 DEF RunInv, DaemonTypeOK, OpenInv, ServedInv
<1>4. CleanExit'
  BY <1>1, <1>2 DEF RunInv, DaemonTypeOK, ServedInv, CleanExit, Parts
<1> QED BY <1>3, <1>4 DEF RunInv

LEMMA RunStep ==
  ASSUME RunInv, Main \/ Signal \/ ClientLeaves \/ RunStdio
  PROVE  RunInv'
<1>1. CASE Main
  BY <1>1, StartupStep, CancelStep, CloseStep, ReturnStep DEF Main
<1>2. CASE Signal
  BY <1>2 DEF Signal, RunInv, DaemonTypeOK, OpenInv, ServedInv, CleanExit
<1>3. CASE ClientLeaves
  BY <1>3 DEF ClientLeaves, RunInv, DaemonTypeOK, OpenInv, ServedInv, CleanExit
<1>4. CASE RunStdio
  BY <1>4 DEF RunStdio, RunInv, DaemonTypeOK, OpenInv, ServedInv, CleanExit
<1> QED BY <1>1, <1>2, <1>3, <1>4

-----------------------------------------------------------------------------
(* The theorems.                                                           *)

LEMMA ToolFrame == ToolInv /\ UNCHANGED toolVars => ToolInv'
BY DEF toolVars, callVars, ToolInv, ToolTypeOK, StampInv, StageInv, AnswerIsWhole,
       OneEventPerCall, done, eventOf

LEMMA RunFrame == RunInv /\ UNCHANGED daemonVars => RunInv'
BY DEF daemonVars, RunInv, DaemonTypeOK, OpenInv, ServedInv, CleanExit

LEMMA NextKeeps ==
  ASSUME ToolInv, RunInv, [Next]_vars
  PROVE  ToolInv' /\ RunInv'
<1>1. CASE (Main \/ Signal \/ ClientLeaves \/ RunStdio) /\ UNCHANGED toolVars
  BY <1>1, RunStep, ToolFrame
<1>2. CASE Serve /\ UNCHANGED daemonVars
  BY <1>2, RunFrame, StartStep, BumpStep DEF Serve
<1>3. CASE \E c \in Calls : CallStep(c) \/ ProviderReturns(c)
  BY <1>3, RunFrame, InvokeStep, EndStep, EarlyStep, AnswerStep, FinishStep
     DEF CallStep, ProviderReturns, Work
<1>4. CASE UNCHANGED vars
  BY <1>4, RunFrame, ToolFrame DEF vars
<1> QED BY <1>1, <1>2, <1>3, <1>4 DEF Next

LEMMA Invariance == Spec => [](ToolInv /\ RunInv)
<1>1. Init => ToolInv /\ RunInv
  BY ToolInitInv, RunInitInv DEF Init
<1>2. (ToolInv /\ RunInv) /\ [Next]_vars => (ToolInv /\ RunInv)'
  BY NextKeeps
<1> QED BY <1>1, <1>2, PTL DEF Spec

\* The variables of the daemon and its tools keep their types, for every number
\* of calls and syncs.
THEOREM TypeCorrect == Spec => []TypeOK
<1>1. ToolInv /\ RunInv => TypeOK
  BY DEF ToolInv, RunInv, DaemonTypeOK, TypeOK
<1> QED BY <1>1, Invariance, PTL

\* GenerationCounter and runTool: the stamp of an answer tells the syncs numbered
\* before the call from those numbered after it.
THEOREM StampsOrderSyncs == Spec => []StampOrdersSyncs
<1>1. ToolInv => StampOrdersSyncs
  <2> SUFFICES ASSUME ToolInv PROVE StampOrdersSyncs
    OBVIOUS
  <2>1. ASSUME NEW c \in Calls, NEW s \in Syncs, pc[c] # "idle", number[s] # 0
        PROVE  s \in seen[c] <=> number[s] <= stamp[c]
    <3>1. number[s] \in Nat /\ stamp[c] \in Nat
      BY DEF ToolInv, ToolTypeOK
    <3> QED BY <2>1, <3>1 DEF ToolInv, StampInv
  <2>2. \A s, t \in numbered : number[s] = number[t] => s = t
    BY DEF ToolInv, StampInv, numbered
  <2> QED BY <2>1, <2>2 DEF StampOrdersSyncs
<1> QED BY <1>1, Invariance, PTL

\* The navigation tools: an answer has all that a stage which was back in time
\* returned, up to the cap, and a failed call has no part of a result.
THEOREM AnswersAreWhole == Spec => []AnswerIsWhole
<1>1. ToolInv => AnswerIsWhole
  BY DEF ToolInv
<1> QED BY <1>1, Invariance, PTL

\* The deferred event of a call: one for each call that returned, and it agrees
\* with the answer.
THEOREM EveryCallLogsOnce == Spec => []OneEventPerCall
<1>1. ToolInv => OneEventPerCall
  BY DEF ToolInv
<1> QED BY <1>1, Invariance, PTL

\* run: whatever part of the startup succeeded is closed when it returns.
THEOREM ExitsClean == Spec => []CleanExit
<1>1. RunInv => CleanExit
  BY DEF RunInv
<1> QED BY <1>1, Invariance, PTL

=============================================================================
