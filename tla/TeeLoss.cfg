\* The two sinks of the daemon.
SPECIFICATION Spec
CONSTANT Sinks = {jsonl, otel}
CHECK_DEADLOCK FALSE
INVARIANTS LossIsJoined
