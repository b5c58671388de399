\* An unknown directive at every position.
CONSTANTS
  PrefixLens <- MCPrefixLens
  Directives <- MCDirectives
  IntArgs <- MCIntArgs
  HexArgs <- MCHexArgs
  StrArgs <- MCStrArgs
  SuffixLens <- MCSuffixLens
SPECIFICATION Spec
INVARIANT FormatWritesInBuffer
