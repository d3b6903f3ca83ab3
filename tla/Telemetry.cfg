\* The two sinks of the daemon; three reports for a queue of two.
SPECIFICATION TelemetrySpec
CONSTANTS
  Sinks = {jsonl, otel}
  Owner = jsonl
  Reports = {e1, e2, e3}
  Capacity = 2
CHECK_DEADLOCK FALSE
INVARIANTS TimelyNilIsWhole
PROPERTIES CompositeCloseReturns
