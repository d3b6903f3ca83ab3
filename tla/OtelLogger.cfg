\* Three spans, two tokens, batches of up to two, an exporter that may hang.
SPECIFICATION FairSpec
CONSTANTS
  Spans = {s1, s2, s3}
  Capacity = 2
  BatchSize = 2
CHECK_DEADLOCK FALSE
INVARIANTS TokensCoverSpans CleanCloseExportsAll
PROPERTIES ImplementsBoundedSink CloseReturns
