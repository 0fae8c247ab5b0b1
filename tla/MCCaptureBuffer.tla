-------------------------- MODULE MCCaptureBuffer --------------------------
(* Small values for CaptureBuffer: payloads longer than the ring, cursors  *)
(* behind, inside and ahead of the window, limits below and above it.      *)
EXTENDS CaptureBuffer, SequencesExt

MCByte == {0, 1}
MCChunks == UNION {[1 .. n -> MCByte] : n \in 1 .. 2} \cup
            {<<0, 0, 1, 1>>, <<0, 1, 1, 0, 1>>}
MCCursors == -1 .. 4
MCLimits == {-1, 1, 2, 9}
=============================================================================
