------------------------------- MODULE MCEvaluate -------------------------------
(***************************************************************************)
(* Small targets for Evaluate: a 64-bit host, the same with 32-bit slice   *)
(* lengths, a 32-bit host, and a machine with 16-bit int, size_t and slice *)
(* lengths, in widths scaled by four.                                      *)
(***************************************************************************)
EXTENDS Evaluate

MCTargets ==
    {[int |-> 8, long |-> 16, size |-> 16, len |-> 16],
     [int |-> 8, long |-> 16, size |-> 16, len |-> 8],
     [int |-> 8, long |-> 8,  size |-> 8,  len |-> 16],
     [int |-> 4, long |-> 8,  size |-> 4,  len |-> 4]}
MCEdges == {-32768, -128, -8, -2, -1, 0, 1, 2, 3, 7, 15, 127, 255, 32767, 65535}
MCSmall == {-1, 0, 1, 2, 3}
MCPrecisions == {-1, 0, 3, 30, 32767}   \* -1: none written
=============================================================================
