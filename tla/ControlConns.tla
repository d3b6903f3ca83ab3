---------------------------- MODULE ControlConns ----------------------------
(* The connections of one control socket (internal/mcp/                    *)
(* control_lifecycle.go): the accept loop, a handler per connection, the   *)
(* shutdown that a cancelled context starts, and Wait.  Clients connect,   *)
(* send lines, stop reading and go as they like.                           *)

EXTENDS Naturals, FiniteSets

CONSTANTS Conns,     \* connections that clients make
          Denied,    \* those that authorizeControlPeer refuses
          MaxLines   \* bound: lines a client sends on a connection

ASSUME ConnsAssumption ==
  Denied \subseteq Conns /\ IsFiniteSet(Conns) /\ MaxLines \in Nat

VARIABLES
  accepting,     \* the listener is open
  conn,          \* each connection: not made, in the backlog, accepted, closed
  gone,          \* the connections whose client has closed its end
  sent,          \* lines the client sent
  inbox,         \* lines that arrived and were not read
  buffer,        \* lines in the scanner of the handler
  acceptor,      \* where acceptLoop is
  cur,           \* the connections that acceptLoop holds: none or one
  connections,   \* c.connections
  handler,       \* where the handler of each connection is
  shuttingDown,  \* c.shuttingDown
  shutter,       \* where beginShutdown is
  waiter,        \* where Wait is
  gen            \* the generation counter

clientVars == <<gone, sent>>
connVars == <<accepting, conn, gone, sent, inbox, buffer, acceptor, cur, connections,
              handler, shuttingDown, shutter, waiter, gen>>

\* No generation is bumped twice for one line: gen stays within the lines.
ConnTypeOK ==
  /\ accepting \in BOOLEAN
  /\ conn \in [Conns -> {"none", "backlog", "open", "closed"}]
  /\ gone \subseteq Conns
  /\ sent \in [Conns -> 0..MaxLines]
  /\ inbox \in [Conns -> 0..MaxLines]
  /\ buffer \in [Conns -> 0..MaxLines]
  /\ acceptor \in {"accept", "authorize", "register", "refuse", "reject", "done"}
  /\ cur \in SUBSET Conns
  /\ connections \subseteq Conns
  /\ handler \in [Conns -> {"none", "scan", "write", "close", "delete", "done"}]
  /\ shuttingDown \in BOOLEAN
  /\ shutter \in {"idle", "close", "mark", "done"}
  /\ waiter \in {"idle", "accept", "handlers", "cleanup"}
  /\ gen \in 0..(MaxLines * Cardinality(Conns))

ConnInit ==
  /\ accepting = TRUE
  /\ conn = [c \in Conns |-> "none"]
  /\ gone = {}
  /\ sent = [c \in Conns |-> 0]
  /\ inbox = [c \in Conns |-> 0]
  /\ buffer = [c \in Conns |-> 0]
  /\ acceptor = "accept"
  /\ cur = {}
  /\ connections = {}
  /\ handler = [c \in Conns |-> "none"]
  /\ shuttingDown = FALSE
  /\ shutter = "idle"
  /\ waiter = "idle"
  /\ gen = 0

---------------------------------------------------------------------------
(* Clients                                                                 *)

Connect(c) ==
  /\ accepting /\ conn[c] = "none"
  /\ conn' = [conn EXCEPT ![c] = "backlog"]
  /\ UNCHANGED <<accepting, gone, sent, inbox, buffer, acceptor, cur, connections,
                 handler, shuttingDown, shutter, waiter, gen>>

SendLine(c) ==
  /\ conn[c] \in {"backlog", "open"} /\ c \notin gone /\ sent[c] < MaxLines
  /\ sent' = [sent EXCEPT ![c] = @ + 1]
  /\ inbox' = [inbox EXCEPT ![c] = @ + 1]
  /\ UNCHANGED <<accepting, conn, gone, buffer, acceptor, cur, connections,
                 handler, shuttingDown, shutter, waiter, gen>>

Hangup(c) ==
  /\ conn[c] # "none" /\ c \notin gone
  /\ gone' = gone \cup {c}
  /\ UNCHANGED <<accepting, conn, sent, inbox, buffer, acceptor, cur, connections,
                 handler, shuttingDown, shutter, waiter, gen>>

---------------------------------------------------------------------------
(* acceptLoop                                                              *)

acceptVars == <<acceptor, cur>>
handleVars == <<inbox, buffer, handler, gen>>

\* Accept waits for a connection, and returns an error when the listener is
\* closed.
Accept ==
  /\ acceptor = "accept"
  /\ \/ \E c \in Conns :
          /\ accepting /\ conn[c] = "backlog"
          /\ conn' = [conn EXCEPT ![c] = "open"]
          /\ cur' = {c}
          /\ acceptor' = "authorize"
     \/ ~accepting /\ acceptor' = "done" /\ UNCHANGED <<conn, cur>>
  /\ UNCHANGED <<accepting, clientVars, connections, handleVars, shuttingDown,
                 shutter, waiter>>

\* Any other error of Accept, such as no file descriptor left, ends the loop
\* too: the socket stays bound and nobody is served any more.
AcceptFails ==
  /\ acceptor = "accept"
  /\ acceptor' = "done"
  /\ UNCHANGED <<accepting, conn, clientVars, cur, connections, handleVars,
                 shuttingDown, shutter, waiter>>

Authorize(c) ==
  /\ acceptor = "authorize" /\ c \in cur
  /\ acceptor' = IF c \in Denied THEN "refuse" ELSE "register"
  /\ UNCHANGED <<accepting, conn, clientVars, cur, connections, handleVars,
                 shuttingDown, shutter, waiter>>

\* Mutant: the connection is registered whatever the shutdown does.
RegisterAnyway(c) ==
  /\ acceptor = "register" /\ c \in cur
  /\ connections' = connections \cup {c}
  /\ handler' = [handler EXCEPT ![c] = "scan"]
  /\ acceptor' = "accept" /\ cur' = {}
  /\ UNCHANGED <<accepting, conn, clientVars, inbox, buffer, gen, shuttingDown,
                 shutter, waiter>>

\* The critical section of acceptLoop: shuttingDown is read, the connection is
\* registered and its handler counted and started.
Register(c) ==
  /\ acceptor = "register" /\ c \in cur
  /\ IF shuttingDown
       THEN acceptor' = "reject" /\ UNCHANGED <<cur, connections, handler>>
       ELSE /\ connections' = connections \cup {c}
            /\ handler' = [handler EXCEPT ![c] = "scan"]
            /\ acceptor' = "accept" /\ cur' = {}
  /\ UNCHANGED <<accepting, conn, clientVars, inbox, buffer, gen, shuttingDown,
                 shutter, waiter>>

\* conn.Close of an unauthorized connection, or of one that came too late.
CloseRefused(c) ==
  /\ acceptor \in {"refuse", "reject"} /\ c \in cur
  /\ conn' = [conn EXCEPT ![c] = "closed"]
  /\ acceptor' = IF acceptor = "refuse" THEN "accept" ELSE "done"
  /\ cur' = {}
  /\ UNCHANGED <<accepting, clientVars, connections, handleVars, shuttingDown,
                 shutter, waiter>>

---------------------------------------------------------------------------
(* handleConn                                                              *)

\* The scanner reads what arrived.
Read(c) ==
  /\ handler[c] = "scan" /\ buffer[c] = 0
  /\ conn[c] = "open" /\ inbox[c] > 0
  /\ buffer' = [buffer EXCEPT ![c] = inbox[c]]
  /\ inbox' = [inbox EXCEPT ![c] = 0]
  /\ UNCHANGED <<accepting, conn, clientVars, acceptVars, connections, handler,
                 shuttingDown, shutter, waiter, gen>>

\* A line from the scanner's buffer: sync bumps the generation, anything else
\* does not, and an empty line has no answer.  The buffer outlives the
\* connection.
HandleCommand(c) ==
  /\ handler[c] = "scan" /\ buffer[c] > 0
  /\ buffer' = [buffer EXCEPT ![c] = @ - 1]
  /\ \/ handler' = [handler EXCEPT ![c] = "write"] /\ gen' = gen + 1
     \/ handler' = [handler EXCEPT ![c] = "write"] /\ UNCHANGED gen
     \/ UNCHANGED <<handler, gen>>
  /\ UNCHANGED <<accepting, conn, clientVars, inbox, acceptVars, connections,
                 shuttingDown, shutter, waiter>>

\* Read fails on a closed connection, ends when the client has gone, and gives
\* up on a line that is too long.
ScanEnds(c) ==
  /\ handler[c] = "scan" /\ buffer[c] = 0
  /\ conn[c] = "closed" \/ c \in gone \/ inbox[c] > 0
  /\ handler' = [handler EXCEPT ![c] = "close"]
  /\ UNCHANGED <<accepting, conn, clientVars, inbox, buffer, acceptVars, connections,
                 shuttingDown, shutter, waiter, gen>>

\* conn.Write of the answer.  It may wait for a client that does not read.
WriteAnswer(c) ==
  /\ handler[c] = "write" /\ conn[c] = "open"
  /\ handler' = [handler EXCEPT ![c] = "scan"]
  /\ UNCHANGED <<accepting, conn, clientVars, inbox, buffer, acceptVars, connections,
                 shuttingDown, shutter, waiter, gen>>

WriteFails(c) ==
  /\ handler[c] = "write" /\ (conn[c] = "closed" \/ c \in gone)
  /\ handler' = [handler EXCEPT ![c] = "close"]
  /\ UNCHANGED <<accepting, conn, clientVars, inbox, buffer, acceptVars, connections,
                 shuttingDown, shutter, waiter, gen>>

\* The deferred calls: conn.Close, then the entry, then handlers.Done.
CloseConn(c) ==
  /\ handler[c] = "close"
  /\ conn' = [conn EXCEPT ![c] = "closed"]
  /\ handler' = [handler EXCEPT ![c] = "delete"]
  /\ UNCHANGED <<accepting, clientVars, inbox, buffer, acceptVars, connections,
                 shuttingDown, shutter, waiter, gen>>

DeleteConn(c) ==
  /\ handler[c] = "delete"
  /\ connections' = connections \ {c}
  /\ handler' = [handler EXCEPT ![c] = "done"]
  /\ UNCHANGED <<accepting, conn, clientVars, inbox, buffer, acceptVars,
                 shuttingDown, shutter, waiter, gen>>

---------------------------------------------------------------------------
(* beginShutdown and Wait                                                  *)

\* The context given to Start is cancelled.
Cancel ==
  /\ shutter = "idle"
  /\ shutter' = "close"
  /\ UNCHANGED <<accepting, conn, clientVars, acceptVars, connections, handleVars,
                 shuttingDown, waiter>>

\* listener.Close: the kernel drops what is in the backlog.
StopListening ==
  /\ shutter = "close"
  /\ accepting' = FALSE
  /\ conn' = [c \in Conns |-> IF conn[c] = "backlog" THEN "closed" ELSE conn[c]]
  /\ shutter' = "mark"
  /\ UNCHANGED <<clientVars, acceptVars, connections, handleVars, shuttingDown, waiter>>

\* Mutant: shutdown waits for idle clients to leave.
MarkOnly ==
  /\ shutter = "mark"
  /\ shuttingDown' = TRUE
  /\ shutter' = "done"
  /\ UNCHANGED <<accepting, conn, clientVars, acceptVars, connections, handleVars, waiter>>

\* The critical section: shuttingDown, and every registered connection closed.
MarkAndClose ==
  /\ shutter = "mark"
  /\ shuttingDown' = TRUE
  /\ conn' = [c \in Conns |-> IF c \in connections THEN "closed" ELSE conn[c]]
  /\ shutter' = "done"
  /\ UNCHANGED <<accepting, clientVars, acceptVars, connections, handleVars, waiter>>

\* Wait is called behind the cancellation.
CallWait ==
  /\ shutter # "idle" /\ waiter = "idle"
  /\ waiter' = "accept"
  /\ UNCHANGED <<accepting, conn, clientVars, acceptVars, connections, handleVars,
                 shuttingDown, shutter>>

\* acceptWG.Wait.
WaitAccept ==
  /\ waiter = "accept" /\ acceptor = "done"
  /\ waiter' = "handlers"
  /\ UNCHANGED <<accepting, conn, clientVars, acceptVars, connections, handleVars,
                 shuttingDown, shutter>>

\* handlers.Wait; cleanup follows.
WaitHandlers ==
  /\ waiter = "handlers" /\ \A c \in Conns : handler[c] \in {"none", "done"}
  /\ waiter' = "cleanup"
  /\ UNCHANGED <<accepting, conn, clientVars, acceptVars, connections, handleVars,
                 shuttingDown, shutter>>

---------------------------------------------------------------------------

Client(c) == Connect(c) \/ SendLine(c) \/ Hangup(c)

AcceptLoop == Accept \/ \E c \in Conns : Authorize(c) \/ Register(c) \/ CloseRefused(c)

\* What a handler does without waiting for its client.
HandlerStep(c) ==
  Read(c) \/ HandleCommand(c) \/ ScanEnds(c) \/ WriteFails(c) \/ CloseConn(c) \/ DeleteConn(c)

BeginShutdown == StopListening \/ MarkAndClose

WaitForAll == CallWait \/ WaitAccept \/ WaitHandlers

ConnNext ==
  \/ AcceptLoop \/ AcceptFails \/ Cancel \/ BeginShutdown \/ WaitForAll
  \/ \E c \in Conns : Client(c) \/ HandlerStep(c) \/ WriteAnswer(c)

\* Goroutines are scheduled.  Clients and the cancellation are not bound to
\* anything, and an answer may never be taken.
ConnFairness ==
  /\ WF_connVars(AcceptLoop) /\ WF_connVars(BeginShutdown) /\ WF_connVars(WaitForAll)
  /\ \A c \in Conns : WF_connVars(HandlerStep(c))

ConnSpec == ConnInit /\ [][ConnNext]_connVars /\ ConnFairness

---------------------------------------------------------------------------
(* Properties                                                              *)

\* An open connection is in the hands of the accept loop or registered, so that a
\* shutdown finds it, none is left open by a handler that ended; after the critical
\* section of beginShutdown no registered one is open, also not one that was
\* accepted before the listener closed and reached the lock behind it; and when
\* Wait goes on to cleanup, no goroutine of the socket is left.
OpenIsOwned ==
  /\ \A c \in Conns : conn[c] = "open" => c \in cur \cup connections
  /\ shutter = "done" => \A c \in connections : conn[c] = "closed"
  /\ waiter = "cleanup" =>
       /\ acceptor = "done"
       /\ \A c \in Conns : handler[c] \in {"none", "done"} /\ conn[c] # "open"

\* A cancellation lets Wait return, with idle clients and with clients that do
\* not read their answers.
CancelEndsWait == (shutter # "idle") ~> (waiter = "cleanup")

=============================================================================
