----------------------------- MODULE Connection ------------------------------
(***************************************************************************)
(* What call and notify of package lsp promise to whoever sends a message: *)
(* each message reaches the server whole at most once, the sender is told  *)
(* the truth about its write, and a message that may be lost half-way      *)
(* costs the connection.  Transport implements it; OpenFiles is built on   *)
(* it.                                                                     *)
(***************************************************************************)
CONSTANT Messages

VARIABLES
  usable,   \* the transport is open
  ended,    \* the messages whose context has ended
  whole,    \* the messages the server has received whole
  told,     \* what writeMessage returned for each message
  reply     \* what call returns for it, if it is a request

vars == <<usable, ended, whole, told, reply>>

Init ==
  /\ usable = TRUE /\ ended = {} /\ whole = {}
  /\ told = [m \in Messages |-> "none"]
  /\ reply = [m \in Messages |-> "none"]

\* The last byte of a message is out.  Its writer may have given up on it in the
\* middle of the frame; after a refusal there is no such byte.
Write(m) ==
  /\ m \notin whole /\ told[m] \in {"none", "torn"}
  /\ whole' = whole \cup {m}
  /\ UNCHANGED <<usable, ended, told, reply>>

\* Mutant: a torn write leaves the connection as it is.
TruthOrTorn(m) == {r \in {"sent", "refused", "torn"} :
                    /\ r = "sent" => m \in whole
                    /\ r = "refused" => m \notin whole /\ (m \in ended \/ ~usable)
                    /\ r = "torn" => m \in ended \/ ~usable}

\* What may be said of a write: that the server has the message; that it does not
\* and never will, since the context ended or the connection did; or that nobody
\* knows, and then the connection is gone.
Truth(m) == {r \in {"sent", "refused", "torn"} :
              /\ r = "sent" => m \in whole
              /\ r = "refused" => m \notin whole /\ (m \in ended \/ ~usable)
              /\ r = "torn" => ~usable}

Return(m, r) ==
  /\ told[m] = "none" /\ r \in Truth(m)
  /\ told' = [told EXCEPT ![m] = r]
  /\ UNCHANGED <<usable, ended, whole, reply>>

\* What a request may get: the answer to a whole one, its own cancellation, or an
\* error of the write or of the connection.
Answers(m) == {a \in {"message", "canceled", "error"} :
                /\ a = "message" => m \in whole
                /\ a = "canceled" => m \in ended
                /\ a = "error" => ~usable \/ told[m] \in {"refused", "torn"}}

Reply(m, a) ==
  /\ reply[m] = "none" /\ a \in Answers(m)
  /\ reply' = [reply EXCEPT ![m] = a]
  /\ UNCHANGED <<usable, ended, whole, told>>

\* The transport leaves its open state for good, and a context ends for good.
Lose ==
  /\ usable /\ usable' = FALSE
  /\ UNCHANGED <<ended, whole, told, reply>>

End ==
  /\ \E M \in SUBSET (Messages \ ended) : ended' = ended \cup M
  /\ UNCHANGED <<usable, whole, told, reply>>

Next ==
  \/ \E m \in Messages : \/ Write(m)
                         \/ \E r \in Truth(m) : Return(m, r)
                         \/ \E a \in Answers(m) : Reply(m, a)
  \/ Lose \/ End

Spec == Init /\ [][Next]_vars

=============================================================================
