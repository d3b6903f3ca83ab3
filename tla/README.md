# A verification of portolan

`portoland` is a Go daemon that answers a coding agent's navigation questions
over MCP. It drives one language server over JSON-RPC, records every tool call
in a bounded telemetry pipeline, and listens on a project-keyed control socket.
This directory holds TLA+ modules for the parts whose correctness depends on
interleaving, failure and timing and for the text algorithms behind them, the
TLC configurations that check them, and TLAPS proofs.

## 1. Inventory

| Part | State | Operations | What is hard | What makes it correct |
|---|---|---|---|---|
| LSP transport (`lsp/transport.go`, `rpc.go`, `lifecycle.go`, `framing.go`) | connection state, pending table, write gate, frame state, subprocess | call, notify, read loop, abort, Close | callers, the reader, the writer goroutine of a frame, Close and timers race | frames never interleave; each request is completed once, by one goroutine; a terminal connection holds no request; Close ends everything |
| File opening (`lsp/provider.go`, `finite_work.go`) | table of open transitions | prepareOpen, openedSource | cancellation of the opener, retry, loss of the connection, a hanging read | one didOpen per file; nobody overtakes it; nobody inherits a cancellation while the connection is usable |
| Signatures (`lsp/signatures.go`) | none between calls | a pool of eight hover workers | first failure cancels the others | one answer per symbol, bounded concurrency |
| JSONL logger (`telemetry/jsonl*.go`) | slots, queue, counters, sink | Log, runWriter, Close | admission races Close; the sink fails or hangs | the send is safe; accounting; order; an error-free Close lost nothing |
| Diagnostics (`telemetry/diagnostic.go`) | queue, counters | report, run, closeBy | callback panics or hangs | every report is counted |
| Composite logger (`telemetry/tee.go`) | none | Log, Close | shared deadline | the result reflects all the sinks |
| OTLP mirror (`telemetry/otel.go`) | tokens, counters | Log, export, closeBy | late export after Close | accounting |
| Control socket (`mcp/control*.go`) | lock file, staged and published socket, connections | Start, accept, shutdown | several daemons, crash, stale socket | one owner per path; nobody removes another's socket |
| Tools (`tools/*.go`) | generation counter | three tools, sync | one budget over several stages; syncs race calls | a result is accepted only within the budget; the stamp of an answer orders it among the syncs; one event per call |
| Daemon (`cmd/portoland`) | which parts are up | run | partial startup, signals, the end of stdin | everything started is closed, or was asked to and waited for; a request to stop is heeded |
| Declaration headers, positions (`lsp/declaration_headers.go`, `signatures.go`) | – | scans of a source text | comments, literals, surrogate pairs, truncation | a header is code and complete; offsets and positions correspond |
| Symbol trees (`lsp/conversion.go`, `tools/get_outline.go`, `tools/tools.go`) | – | conversion, outline, search | the context ends in the middle; the cap inside a subtree | the whole, or an error, or said to be cut |
| Path normalisation (`pathnorm`) | – | Canonicalize, URIs, Windows forms | drives, WSL mounts, UNC names, escapes | one name per file, and back from a URI |
| Other conversion, rendering, record encoding | – | pure functions | – | – |

The daemon owns one provider, one composite logger and one control socket. A
tool call opens its file through the provider (*file opening*), which notifies
and calls through the *transport*; when it ends it logs one event, which the
composite logger hands to the JSONL logger and the OTLP mirror; each sink
reports its own troubles to its *diagnostic dispatcher*.

## 2. Modules

| Module | Models | Interaction |
|---|---|---|
| `Connection` | abstract: what a sender or a caller of the transport may rely on | implemented by `Transport`, relied on by `OpenFiles` |
| `Transport` | the JSON-RPC connection | implements `Connection` |
| `TransportProofs` | theorems about `Transport` | extends it |
| `OpenFiles`, `MCOpenFiles`, `OpenFilesProofs` | opening of files | composed with `Connection`: a didOpen is a message of a connection, and `Notify` returns what the contract lets it say. `OpenFilesProofs` also has what concerns the URI of a file, of `Paths` |
| `JsonlLogger`, `JsonlLoggerProofs` | the JSONL sink | its `BuildCloseError` may get an error from `Diagnostics` |
| `Diagnostics` | the diagnostic dispatcher | – |
| `Tee` | Close of the composite logger | its sinks are what `JsonlLogger` and `OtelLogger` may do: return nil, an error, or not at all |
| `Telemetry`, `TelemetryProofs` | shutdown of the telemetry | composes `Tee` and `Diagnostics`: one sink closes its dispatcher by the shared deadline |
| `OtelLogger`, `OtelLoggerProofs` | the OTLP mirror and, as an external part, the SDK's batch processor | its `JoinErrors` may get an error from `Diagnostics` |
| `BoundedSink` | abstract: the account both telemetry sinks promise | implemented by `JsonlLogger` and by `OtelLogger` |
| `ControlSocket`, `MCControlSocket`, `ControlSocketProofs` | ownership of the control socket's pathname by several daemons | its `Wait` stands for what `ControlConns` does before cleanup; the proofs about both are in one module |
| `ControlConns` | accept loop, handlers, shutdown and Wait of one control socket | its `cleanup` is where `ControlSocket`'s `MoveOwned` begins |
| `Signatures`, `SignaturesProofs` | the pool of hover requests | its `Respond` is a `call` of `Transport`, its `Plan` the `planSignature` of `Declarations` |
| `Tools` | the three tools and the generation counter | its `invoke` is a request of the provider; its walks are those of `SymbolTree` |
| `Daemon`, `DaemonProofs` | `run` of `cmd/portoland` | extends `Tools`; its parts are what `Transport`, `ControlConns`, `Telemetry` and the two sinks promise |
| `Positions`, `Declarations` | offsets and positions; headers and hover places | `Declarations` extends `Positions` |
| `SymbolTree` | conversion of symbols, outline, search for a name | – |
| `Paths` | host paths and file URIs | – |
| `MCAlgorithms` | the inputs of the four algorithm modules, grown one element at a time | extends all of them |

Conventions: one step is one critical section, one channel operation, one
atomic access or one system call; timers and contexts expire by a
nondeterministic step (an instant of real time is not modelled); a `Once` is a
guard. Operators whose comment begins with *Mutant* are the plausible bugs each
property was tried against, and no specification uses them.

### Transport

`state`, `connErr`, `unavailableCause`, `pending`, `inputClosed`, `writeGate`
are the fields of the same names. A message is a pair of a kind and an id;
`wpc[m]` is where its `writeMessage` is, `frame[m]` the atomic of
`writeFrameLocked`, `io[m]` the goroutine in `writeFull`, and `wire` what the
pipe took: a head and a tail per frame. `taken[a]` are requests that actor `a`
removed from the table under the lock and will complete after it; `rpc[r]` is
where `call` is; `closer` where `close` is. `abort` is split in its critical
section (`abort`), the completions (`CompleteTaken`) and the three Once
operations after them (`AbortFinish`). The server is unconstrained: it answers
any request it got whole, at any time or never, sends requests of its own,
stops reading, garbles or dies (`ReadFrame`, `WriteFails`). The failure of
`New` is `InitFailed`; no caller then has the provider.

### Connection

What the users of the transport rely on, with nothing of its inside. A message
is `whole` when the server has all of it; its sender is `told` once that it was
sent, that it was refused, or that it tore; a request gets one `reply`. `Truth`
says what may be told: *sent* only of a whole message; *refused* only of one that
the server does not have, and never will (`Write` is barred for it), and only if
its context ended or the connection did; *torn*, when nobody knows, only on a
connection that is gone. `Answers` says what a request may get: an answer only if
it is whole, a cancellation only if its own context ended, an error only if the
write failed or the connection is gone. The point of the contract is what stays
true behind the return: the goroutine of a frame may go on writing after its
sender has left.

`Transport` maps `usable` to the open state, `ended` to the contexts that
expired, `whole` to the tails on the wire, and `told` and `reply` to what each
writer and caller has in hand (`Told`, `Replied`).

### OpenFiles

`openFiles` is the table; a transition is named by the call that inserted it,
which returns when it is over. `retryable` is evaluated in a step of its own
between the failure and the publication, as the code does, so the connection
may be lost in between. `text` is what was read and, once published,
`openTransition.source`; the file may change at any time, so a read returns any
text. The connection is an instance of `Connection` whose messages are the
didOpens, each named by its opener: `Notify` returns whatever that module's
`Truth` lets it say, `WriteDidOpen` is the write itself, which may come after
`Notify` gave it up for torn, and `ConnectionLost` is the end of the connection.

### JsonlLogger

`lpc[r]` follows one `Log` through its checks, the slot, the two counters and
the send; `worker` follows `runWriter`, `closer` follows `closeBy`. `disk` is
what the sink took, whole or in part. `sent` and `before` are history. The four
counters of admission losses are one number (`drops`), because each reader adds
them up. `pending` is an integer whose decrement below zero stands for the wrap
of the code's `uint64`.

### Diagnostics, Tee and Telemetry

`report` is one critical section that never waits; the callback may panic or
hang. In `Tee`, `late` is the one bit of the clock that `Close` reads.
`Telemetry` puts both together: the sink `Owner` may close only after its
dispatcher did (`closeDispatcher`, `OwnerCloses`), which may time out only at
the deadline that the composite set, and joins the dispatcher's error into its
own.

### OtelLogger and BoundedSink

`lpc[s]` follows one `Log` through its checks, the token, the two counters and
`span.End`; `closer` follows `closeBy`. `queue`, `batch` and `stopped` are the
state of the SDK's `BatchSpanProcessor`, which is not part of the repository.
It is modelled by what `otel.go` relies on: a bounded queue that silently drops
what does not fit, one export at a time, `ForceFlush` and `Shutdown` that
return when everything was exported or when their context ends, and an export
that may go on behind both. `finishExport` is one critical section of
`accountMu`, as in the code.

`BoundedSink` is the account alone: an event is accepted while there is room,
leaves `pending` once, delivered or lost, and `Settle` moves what is left to
`undelivered` and freezes all of it. In both mappings the mapped `accepted`
excludes the calls between `accepted.Add` and `pending.Add`, and the account is
settled when `closeBy` has passed the worker, or has left its last critical
section.

### ControlSocket

A step is a system call. `path` is the inode the public name refers to,
`staged` the private names, `quarantine[d]` what the quarantine directory of a
daemon holds, `lock` the holder of each flock. An inode is named by the daemon
that bound it, or is foreign: of another program, or left by an earlier daemon.
A daemon may die at any step (`Crash`): the kernel drops its
lock and its listener and leaves the names; a restart is another member of
`Daemons`. `Outsider` is any program that does not take the lock. Each system
call may also fail (`ioError`), which sets the history variable `disturbed`, so
that properties about an undisturbed system can say so. Two assumptions: an
inode number is not used again while a daemon remembers it (`os.SameFile`
compares numbers), and other programs touch only the public name.

### ControlConns

`acceptor` follows `acceptLoop`, `handler[c]` the goroutine of a connection,
`shutter` follows `beginShutdown` and `waiter` follows `Wait`. `cur` is the
connection the loop holds between `Accept` and the lock. Lines are counted, not
spelt: `inbox` is what the kernel holds, `buffer` what the scanner has read,
since a closed connection still yields the lines already buffered. An `Accept`
error of any cause ends the loop (`AcceptFails`), as in the code: the socket
then stays bound and takes no more clients until the daemon stops.

### Signatures

`main` follows `requestSignatures`, `wpc[w]` a worker. Whether a symbol's
signature comes from the source or needs a hover is one choice in `Plan`;
`workDone` is the context the first failure cancels.

### Tools

`pc[c]` follows `runTool` and the body of a tool: validation, the stage that
asks for the symbols, the acceptance of its result (`runProviderStage`), the
walk, the second stage, its acceptance, and `finish`. `ended` are the calls whose
`operationContext` is over, for whatever reason. A provider returns a number of
items or an error, at any time; `held[c].late` remembers for the properties
whether it came in time. `find_definition` and `find_references` differ in the
request only and are one kind. `Bump` is the counter behind the control socket's
sync; `number` and `seen` say which sync got which generation and which were
numbered when a call started.

### Daemon

`run` is where `run` is, `part[p]` whether a part is up, `todo` what is still to
be closed on the path taken. Each part may fail to start, and a mirror may fail
behind an exporter that is already up. A signal, or the end of stdin, may come
at any step. `Cancel` is `wasCanceled` and the `cancel` behind it; `CloseNext`
is the sequence Wait, provider, logger. The Close of the logger may return at its
deadline (`tee_loss` is about that), so it leaves each sink closed or still
closing, and `CleanExit` says so. An error of `RunStdio` that is one of a context
counts as a clean end even if the daemon's own context is alive, as in the code.
Calls that were started run on until the
process ends, as whether the SDK waits for its handlers is not known.

### Positions and Declarations

A source is a sequence of runes, one per class the scans tell apart: a keyword,
the name, a letter, a quote, an escape, the characters of comments, brackets,
joiners, a space, a newline, and a rune outside the basic plane that is two
UTF-16 units. A word is one rune, and two words side by side are one identifier.
Offsets are in runes where the code has bytes; to the scans, the bytes of a
longer rune are letters. A context that ends makes a scan return an error and no value, and is left
out. The reference of `PlanIsCode` is independent of the scans: a state machine
(`Lex`) that says for each rune whether it is code, trivia or part of a literal.
A header has the code and the literals of its declaration, and no trivia but
single spaces. A range that does not lie in the source is an error of the plan.

### SymbolTree

A symbol has a name, two ranges and children. Each walk asks its context at
every symbol: `life` is how often the answer is still that it has not ended, so
that every `life` is one place for the context to end. The looks of
`runFiniteWork` around the conversion are counted with it. The properties compare
each walk with the preorder of the tree.

### Paths

A path is a sequence of characters, of which some stand for a fixed name (`mnt`,
`wsl$`, a distribution), in two cases where the code folds them. A URI keeps for each character whether it is escaped,
so that an escaped slash is not a slash.

## 3. Runs

| Run | Instance | Checks |
|---|---|---|
| `transport_calls` | 1 call with its cancellation | `NoRequestLost`, `CancelFollowsCall`, `ImplementsConnection`, `CanceledCallReturns`, `CloseReturns` |
| `transport_writes` | 1 notification, 1 server request | `FramesContiguous`, `ShutdownOrder`, `OutcomeIsTrue` |
| `open_files` | 3 calls, 1 file, 2 texts | `OneText`, `OutcomeIsTrue`, `CanceledOpenReturns` |
| `jsonl_logger` | 3 records, capacity 2 | `SendIsSafe`, `CleanCloseKeepsAll`, `ImplementsBoundedSink`, `LogReturns`, `CloseReturns` |
| `otel_logger` | 3 spans, 2 tokens, batches of up to 2 | `TokensCoverSpans`, `CleanCloseExportsAll`, `ImplementsBoundedSink`, `CloseReturns` |
| `telemetry` | 2 sinks, 3 reports, queue of 2 | `TimelyNilIsWhole`, `CompositeCloseReturns` |
| `tee_loss` | 2 sinks | `LossIsJoined`, violated |
| `control_socket` | 2 daemons, a foreign or leftover socket, a foreign file | `OneServer`, `ServesItsPath`, `RecoversFromCrash`, `OthersKeepTheirNames` |
| `control_conns` | 3 connections, 1 refused, 1 line each | `OpenIsOwned`, `CancelEndsWait` |
| `signatures` | 4 symbols, 3 workers | `OutcomeIsTrue`, `StopsEarly` |
| `daemon` | 1 tool call, 2 syncs, cap 1 | `StampOrdersSyncs`, `AnswerIsWhole`, `OneEventPerCall`, `CleanExit`, `StopIsHeeded`, `CallReturns` |
| `algorithms` | texts, paths and trees below | `SignaturePlans`, `PositionsRoundTrip`, `PathIdentity`, `OutlineWalks` |

Three modules have an `OutcomeIsTrue`, in the same sense: what a caller is told
is what happened. In `Transport`, a message reported as sent is on the wire
whole and one reported as refused is not there at all; in `OpenFiles`, a call
that succeeds does so behind the whole didOpen, and a cancellation is the
caller's own unless the connection is lost: a waiter then gets the error of the
opener as it is, since `retryableOpenError` retries on an open connection only
(`provider.go:188`); in `Signatures`, a result has no holes, and a cancellation is the
caller's own.

`TypeOK` states the types of the variables of each module, and is proved but for
`ControlConns`, where the bound of the generation is a sum over connections.
`Accounting` and `SettledAfterClose` of `JsonlLogger` follow from `ImplementsBoundedSink` and are proved on their own.

**Bounds.** A call with its cancellation, shutdown and exit are four writers for
one gate, and the reader, the writer and the closer may each drain the table.
A notification and a refusal, against shutdown and exit, let a writer tear its
frame while two others queue. Three calls of one file are an opener, a
waiter that takes over, and a waiter of both; two texts tell two reads apart. Three records for two slots let
one wait while two are in flight, and three spans for two tokens let one find
none. Two daemons suffice for the races of the lock, because a socket that a
third one left when it died may be at the path from the start. Four symbols for
three workers make the dispatch loop wait for a worker. One tool call meets a
sync before it, during it and after it; calls share only the counter, so a
second one adds nothing to the properties, which are about one call each. With a
cap of one, lists are empty, full and too long. `algorithms` takes every text of
up to four runes behind the name of a class, of up to five that matter to
comments and literals behind a class or an interface, and of up to five around
functions, as declarations, as a call signature within the text, and, of the
shorter texts, with ranges that are reversed or end behind the source; every path of up to four characters behind each of the forms a path
may have; and every tree of up to four symbols with every place for its context
to end. The beginnings spend the length on the interesting part.
`control_socket` uses symmetry over daemons, with which it checks invariants and
one action property only. The theorems hold for any number.

**Deadlock.** Every system here may stop: all the calls were made and Close
returned. So deadlock is not checked; the liveness properties are.

**Fairness.** Goroutines are scheduled and the timers the code sets expire: those
of the transport, of the sinks, the composite's deadline, and the budget of a
tool call.
Nothing is assumed of the language server, of the sink, of the exporter, of the
clients of the control socket, of the file system, of a diagnostic callback, of
a sink of the composite logger, or of a caller's context. `Daemon` assumes of
its parts what their own runs check: Close and Wait return, and a provider
returns from a call whose context has ended. Of the MCP SDK it assumes that
serving ends once stdin has ended or the context was cancelled. The one assumption on I/O is that a `Write` on a pipe that the process
itself has closed returns, which the Go runtime's poller guarantees.

**Finding.** `tee_loss`: ARCHITECTURE.md says that loss and sink failures are
joined into shutdown errors. `teeLogger.Close` (`tee.go:75`) leaves its loop
without an error when the deadline passes between the receive of one sink's
result and the check after it; the results of the other sinks are not looked
at, and Close may return nil although one of them failed or is still closing.
`TimelyNilIsWhole`, of a Close that returns in time, is what does hold.

An assumption of `control_socket` is worth knowing: the daemons of one path share
a lock file. The lock file is in the runtime directory of the process's own
environment (`control_runtime.go:100`), so two daemons with one explicit socket
path and different `XDG_RUNTIME_DIR` take different locks, and the second is
held back only by the probe of the path. It may then serve while the first is
still cleaning up, or after the first one's name was removed.

Three limits of the code that no run shows:

* The tools' description (`mcp/server.go:37`) ties a stamp to the rebuilding of
  the graph. A sync only numbers a generation: a file is opened once and its text
  is not renewed, and `stale` is always false. `StampOrdersSyncs` is what the
  stamp does say, and `OneText` that server and daemon agree on the one text.
* `tokenBoundary` (`declaration_headers.go:391`) counts every byte beyond ASCII
  as part of an identifier, also those of a white space such as U+00A0, so a
  keyword before one is not recognised and a header that ends in it passes for
  complete. The runes of `algorithms` have ASCII white space only.
* A tool call that the SDK still runs when `RunStdio` has returned logs to a
  closed logger (`main.go:92`), which drops and counts the event after the result
  of its Close was built.

One exception is stated in a property: when `Start` published its socket and
cannot remove the staged name, it removes the public name without a look at
what is there (`Rollback`), so `OthersKeepTheirNames` excludes that step.

## 4. Proofs

Every safety property of a run is a theorem for all values of the constants,
except the four of `algorithms`. What the theorems assume of the constants is
named in the module that declares them: finite sets of records, spans and
workers, a capacity of at least one, batches no larger than the queue, a file
for every call, an owner among the sinks, and names that are apart.
`Transport` needs no assumption at all.

| Module | Theorem | Property |
|---|---|---|
| `TransportProofs` | `RequestsHaveOneOwner` | `NoRequestLost` (`OneOwner` and `TerminalIsDrained`) |
| | `FramesAreContiguous`, `OutcomesAreTrue` | `FramesContiguous`, `OutcomeIsTrue` |
| | `ShutdownIsOrdered`, `CancelsFollowCalls` | `ShutdownOrder`, `CancelFollowsCall` |
| | `TransportIsConnection` | `ImplementsConnection` (a refinement) |
| `OpenFilesProofs` | `ServerHasOneText`, `OutcomesAreTrue` | `OneText`, `OutcomeIsTrue` |
| | `RelianceOnConnection` | `Conn!Spec` (the composition with `Connection`) |
| | `URILeadsBack` | a part of `PathIsIdentity`, of `Paths` |
| `SignaturesProofs` | `OutcomesAreTrue` | `OutcomeIsTrue` |
| `JsonlLoggerProofs` | `SendsAreSafe`, `CleanClosesKeepAll` | `SendIsSafe`, `CleanCloseKeepsAll` |
| | `AccountsBalance`, `CloseSettlesTheAccount` | `Accounting`, `SettledAfterClose` (an action property) |
| | `LoggerIsBoundedSink` | `ImplementsBoundedSink` (a refinement) |
| `OtelLoggerProofs` | `TokensCover`, `CleanCloseMeansExported` | `TokensCoverSpans`, `CleanCloseExportsAll` |
| | `MirrorIsBoundedSink` | `ImplementsBoundedSink` (a refinement) |
| `TelemetryProofs` | `TimelyNilIsTrue` | `TimelyNilIsWhole` |
| `ControlSocketProofs` | `ThereIsOneServer`, `ServersAreFound`, `StartRecovers` | `OneServer`, `ServesItsPath`, `RecoversFromCrash` |
| | `NamesAreKept` | `OthersKeepTheirNames` (an action property) |
| | `OpenConnectionsAreOwned` | `OpenIsOwned`, of `ControlConns` |
| `DaemonProofs` | `StampsOrderSyncs`, `AnswersAreWhole`, `EveryCallLogsOnce` | those of `Tools` |
| | `ExitsClean` | `CleanExit` |

All but `TelemetryProofs` also prove `TypeCorrect`, that `TypeOK` holds always
(in `ControlSocketProofs`, of `ControlSocket`). Each module
has an inductive invariant, a lemma per action or group of actions that keeps
it, and the theorems behind it. TLC finds each of the invariants true on the
instance of its run, too.

**Transport.** Four invariants, each relative to the ones before. Types first.
`OneOwner` is inductive only with facts about when an actor may hold requests
(the writer only while a message is in its abort, the closer only at certain
points) and about requests not yet registered. For the frames, the invariant
says who holds the gate when bytes are being written, that at most one goroutine
is in the middle of a frame, and that a frame whose writer gave up leaves the
connection aborted or in the hands of that writer, so that nobody is admitted
behind it. The last, `OrderInv`, says who may close the pipe and when
(`StopInv`: a writer that fails behind its first byte, or a close that finds a
frame under way, leaves the connection aborted), how the goroutine of a frame
and the bytes on the wire correspond (`ToldInv`), that `close` writes exit
behind a written shutdown or is past writing (`ShutInv`), and that a
cancellation starts for a call that was written (`CancelInv`). The lemmas
`Starts` and `WriterMoves` say once how a writer can move; the other steps
follow from them.

That `Transport` implements `Connection` needs one more invariant, `PromiseInv`:
a whole frame on the wire was written by its own goroutine, so one that was
refused, and never got a goroutine, cannot turn up later; and a request that an
actor has taken from the table is to get a message, or else a cause, with the
connection no longer open (`DrainLeavesOpen`). Each action of `Transport` is then
a stutter or one step of `Connection`, by the variable of the mapping that it
moves.

**OpenFiles.** The theorems are about the provider on *any* connection that keeps
its contract. `RelianceOnConnection` shows that the provider does nothing to the
connection that the contract forbids; with `TransportIsConnection`, the transport
of this repository is such a connection. The obvious invariant, that what is on
the wire is in the table, is false: a didOpen that tore may reach the server
after its transition was removed. What keeps a retry from sending a second one is
that the connection is gone by then. So the invariant follows the openers that
are *engaged*, whose didOpen is out, is in preparation, or may still come out of a
torn write: a file has at most one of them, and as long as the connection is
usable an opener that the server has heard of is the one in the table (`WireInv`). `ToldInv` says what each opener
was told at each point, `SentInv` keeps for each call that succeeded a didOpen of
its file on the wire, and `ErrInv` says whose cancellation an error is. The last
section is about the name under which a file is opened: `URILeadsBack` says that
the URI of a canonical rooted path leads back to it, also when the path looks
like a drive; only the escape of the colon tells it from one.

**Signatures.** While the work has not ended, each symbol has its signature, is
still to be handed out, or is in the hands of a worker (`CoverInv`). That a
cancellation is the caller's own needs to know that the work ends only with the
caller's context or with an error (`EndInv`).

**JsonlLogger.** `SlotInv` says that the taken slots are the queued records, the
callers holding one and the record the worker has in hand; `PendInv` says the
same of `pending` until an abandoning Close zeroes it; `CloseInv` says that the
queue is closed only when no caller is under the read lock and that the worker
ends only behind the last record. The lemma `CountStep` makes the counts move by
one when one caller moves. For the refinement, the mapped `accepted` is
`written + undelivered + pending` (`MappedAccepted`) and `pending` is at most
the capacity (`PendingFits`), so a step is known by how it moves three counters
and the closer; `SinkStep` shows that four such moves are a stutter, `Accept`,
`Deliver` or `Lose`, and `Settle`, and the theorem that every action makes one
of the four. For `CleanCloseKeepsAll`, a second invariant follows the records:
the queue is the end of what was sent and the worker holds the record before it
(`QueueInv`), the file is behind by at most that record and is never written
behind a lost one (`DiskInv`), and a nil means that no step on the way had an
error (`EndInv`, `NilInv`).

**OtelLogger.** A batch may finish behind a Close that has abandoned it: it gives
its tokens back but is not counted again. So the tokens (`TokenInv`) and the
pending spans (`PendInv`) are accounted for apart, and `CloseInv` says that Close
leaves spans behind only by missing its deadline, which then counts them. The
refinement goes as for the JSONL logger.

**Telemetry.** Three parts: what Close received is in `errs`, and it stops early
only with an error or late (`TeeInv`); a report that was not dropped is queued,
in the callback or delivered (`RunInv`), and `closeBy` counts a worker that it
did not see end (`CloseByInv`); and the owner's nil is its dispatcher's
(`OwnerInv`).

**ControlSocket.** The theorems, that of the types included, assume
`SharedLock`: the daemons have one lock file (section 3 says why that is an
assumption). With it, one daemon at a time is at the points at which it may
touch the path, so the invariant is about one daemon: `Knows(d)` is what it
knows whatever others do, such as that a stale socket it inspected accepts
nobody, and `Calm(d)` what it knows in addition while nobody interferes, such as
that the path names what it put there. `OthersByHolder` shows that a step of the
holder leaves what the others know alone. The last section is about
`ControlConns` and assumes nothing: the table is the set of the live handlers,
and the accept loop holds at most one open connection that the table does not
have. Shutdown closes what is in the table and sets `shuttingDown` in one
critical section, so nothing is registered behind it.

**Daemon.** The steps of the tools and those of `run` change disjoint variables,
so each has an invariant. That of the tools is taken apart by calls
(`ToolInvByCall`), since a step of a call leaves the others alone. The stamp of
a call separates the syncs it has seen from the others because a sync gets a
generation above every stamp given out (`StampInv`). For `run`, what is open
when it begins to close is covered by an entry of `todo` (`OpenInv`), and only a
sink is ever left closing (`ServedInv`).

Only model-checked:

* liveness (`CanceledCallReturns`, `CloseReturns`, `CanceledOpenReturns`,
  `LogReturns`, `CompositeCloseReturns`, `CancelEndsWait`, `StopsEarly`,
  `StopIsHeeded`, `CallReturns`): fairness and ENABLED are outside the prover;
* `SignaturePlans`, `PositionsRoundTrip`, `PathIdentity` and `OutlineWalks`.
  `Positions`, `Declarations` and `SymbolTree` have recursive operators, for
  which the prover has no induction, and `MCAlgorithms`, which states the four,
  extends them: what the algorithms compute is checked for bounded inputs only.

## 5. Not modelled, and the plan

Not modelled:

* the decoding of locations, hover texts and the JSON structures of the protocol,
  and text rendering: conversions of data without a state or an order of steps;
* the encoding of a log record and the cutting of its fields;
* the buffer of the language server's stderr: one mutex around a bounded slice;
* flags and environment of the daemon; `Normalize`, the deprecated form of
  `Canonicalize` without an error;
* peer credentials on BSD and the stubs of unsupported platforms;
* the evaluation harness, which is test infrastructure.

Left: `Daemon` and `Signatures` assume of the provider and of `call` what the
contracts of this directory promise, by their description and not by an INSTANCE;
that a path is its own canonical form (`PathIsIdentity`) needs induction over its
characters, which is out of reach of the prover and stays with `algorithms`.
