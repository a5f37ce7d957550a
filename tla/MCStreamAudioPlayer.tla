------------------------ MODULE MCStreamAudioPlayer -------------------------
(* Music of three units, buffers of two: the last buffer is not full. *)
EXTENDS StreamAudioPlayer

MCPositions == {1, FrameCount + 1}

\* A loop that is cut at the end of the music, and none.
MCLoops ==
  {[on |-> TRUE, start |-> 1, length |-> FrameCount], [on |-> FALSE, start |-> 0, length |-> 0]}
=============================================================================
