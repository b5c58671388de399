\* %d of INT_MIN, at every position.
CONSTANTS
  PrefixLens <- MCPrefixLens
  Directives <- MCDirectives
  IntArgs <- MCIntArgsWithMin
  HexArgs <- MCHexArgs
  StrArgs <- MCStrArgs
  SuffixLens <- MCSuffixLens
SPECIFICATION Spec
INVARIANT FitsRenderedExactly
