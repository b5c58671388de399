\* Every directive at every buffer position, INT_MIN left to its own run.
CONSTANTS
  PrefixLens <- MCPrefixLens
  Directives <- MCDirectives
  IntArgs <- MCIntArgs
  HexArgs <- MCHexArgs
  StrArgs <- MCStrArgs
  SuffixLens <- MCSuffixLens
SPECIFICATION Spec
INVARIANT TypeOK
INVARIANT FitsRenderedExactly
