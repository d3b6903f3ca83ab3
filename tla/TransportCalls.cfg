\* One call, its cancellation, and a server that may never answer, with the
\* fairness of the code.
SPECIFICATION FairSpec
CONSTANTS
  Calls = {c1}
  Notes = {}
  ServerRequests = {}
CHECK_DEADLOCK FALSE
INVARIANTS NoRequestLost CancelFollowsCall
PROPERTIES ImplementsConnection CanceledCallReturns CloseReturns
