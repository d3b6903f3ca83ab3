\* Three calls of one file that may change at any time and whose read may hang: an
\* opener, a waiter that takes over, and a waiter of both.
SPECIFICATION FairSpec
CONSTANTS
  f1 = f1
  Callers = {c1, c2, c3}
  Files = {f1}
  FileOf <- OneFile
  Texts = {old, new}
  None = None
CHECK_DEADLOCK FALSE
INVARIANTS OneText OutcomeIsTrue
PROPERTIES CanceledOpenReturns
