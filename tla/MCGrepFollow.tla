---------------------------- MODULE MCGrepFollow ----------------------------
(* Small instances of GrepFollow for TLC: a match takes two cells, another   *)
(* message three, and a match may lie inside another message.               *)
EXTENDS GrepFollow, TLC

MCCells == {Begin(0), Begin(1), End}
=============================================================================
