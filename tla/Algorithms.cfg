\* Sources of up to nine runes, paths of up to nine characters, trees of up to
\* four symbols.
SPECIFICATION Spec
CONSTANTS
  MaxCode = 4
  MaxText = 5
  MaxOdd = 4
  MaxPath = 4
  MaxSymbols = 4
CHECK_DEADLOCK FALSE
INVARIANTS SignaturePlans PositionsRoundTrip PathIdentity OutlineWalks
