\* Every directive at every position of the buffer, with two characters
\* of format text after it.
CONSTANTS
  PrefixLens <- MCPrefixLens
  Directives <- MCDirectives
  IntArgs <- MCIntArgs
  HexArgs <- MCHexArgs
  StrArgs <- MCStrArgs
  SuffixLens <- MCSuffixLensAfter
SPECIFICATION Spec
INVARIANT TruncatesToPrefix
