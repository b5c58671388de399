----------------------------- MODULE MC_UlogTool -----------------------------
(* Model values for checking UlogTool with TLC: one process reading        *)
(* /dev/klog, one running ulog_tool.                                       *)
EXTENDS UlogTool

CONSTANTS cat, tool

MCReaders == {cat, tool}
MCCat == {cat}
MCTool == {tool}

\* Levels of the three records: DEBUG, the first value past ERROR (passed
\* to klog_printf_level), ERROR.
MCRecordLevel == (0 :> 0) @@ (1 :> 4) @@ (2 :> 3)

=============================================================================
