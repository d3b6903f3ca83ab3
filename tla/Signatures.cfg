\* Four symbols and three workers: the dispatch loop waits for a worker.
SPECIFICATION Spec
CONSTANTS
  N = 4
  Workers = {w1, w2, w3}
CHECK_DEADLOCK FALSE
INVARIANTS OutcomeIsTrue
PROPERTIES StopsEarly
