------------------------------- MODULE MCPipe -------------------------------
(***************************************************************************)
(* Model values for the runs of Pipe.                                      *)
(***************************************************************************)
EXTENDS Pipe

CONSTANTS w1, w2, r1,   \* processes
          x, y         \* bytes

MCWriter == {w1}
MCWriters == {w1, w2}
MCReader == {r1}
MCKillable == {w1, r1}
MCTexts == {<<>>, <<x, y>>}
MCText == {<<x>>, <<x, x>>}
MCByte == {x}
MCBytes == {x, y}
=============================================================================
