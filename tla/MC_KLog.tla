------------------------------- MODULE MC_KLog -------------------------------
(* Model values and bounds for checking KLog with TLC.                     *)
EXTENDS KLog

CONSTANTS r1, r2

MCReaders == {r1, r2}
MCReaderOne == {r1}

=============================================================================
