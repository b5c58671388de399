---------------------------- MODULE MC_KLogFormat ----------------------------
(* Input sets for checking KLogFormat with TLC.                            *)
EXTENDS KLogFormat

\* Every position of the directive in the 64-byte buffer, and past it.
MCPrefixLens == 0 .. 64
MCDirectives == {"d", "x", "s", "%", "q", ""}
\* Zero, negative, several digits, the largest int below INT_MAX.
MCIntArgs == {0, -7, 305, 2147483646}
MCIntArgsWithMin == MCIntArgs \cup {INT_MIN}
MCHexArgs == {0, 26, 2147483646}
MCStrArgs == {-1, 0, 3}
MCSuffixLens == {0, 2}
\* Text always follows the directive: what the loop does after a %x that
\* wrote nothing shows in the stored message.
MCSuffixLensAfter == {2}

=============================================================================
