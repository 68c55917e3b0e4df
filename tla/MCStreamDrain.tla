---------------------------- MODULE MCStreamDrain ----------------------------
(***************************************************************************)
(* All sources of up to six cells, read in chunks of half a cell to two   *)
(* cells.  The buffer may keep three cells, less than the longest message, *)
(* so that the watchdog bites behind unfinished messages and noise.        *)
(***************************************************************************)
EXTENDS StreamDrain

MCCells == {Begin(0), Begin(2), End, Noise}
=============================================================================
