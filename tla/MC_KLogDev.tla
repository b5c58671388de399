------------------------------ MODULE MC_KLogDev ------------------------------
(* Model values for checking KLogDev with TLC: one process reading         *)
(* /dev/klog, one calling getklog.                                         *)
EXTENDS KLogDev

CONSTANTS cat, tool

MCReaders == {cat, tool}
MCCat == {cat}
MCTool == {tool}
MCCatOnly == {cat}
MCNone == {}

=============================================================================
