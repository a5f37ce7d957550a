-------------------------- MODULE MCResourceVideo ---------------------------
\* A seek before the start, into the video and behind its end; time that stands
\* still, one frame and two frames.
EXTENDS ResourceVideo
MCSeconds == {-1, 2, 4}
MCDeltas  == {0, 1, 2}
=============================================================================
