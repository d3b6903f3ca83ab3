\* A notification and the refusal of a server request race for the write gate
\* with shutdown and exit.
SPECIFICATION Spec
CONSTANTS
  Calls = {}
  Notes = {n1}
  ServerRequests = {s1}
CHECK_DEADLOCK FALSE
INVARIANTS FramesContiguous ShutdownOrder OutcomeIsTrue
