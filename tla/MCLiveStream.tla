---------------------------- MODULE MCLiveStream ----------------------------
EXTENDS LiveStream
CONSTANTS p1, p2
MCPaths == {p1, p2}
-----------------------------------------------------------------------------
\* No guard reads the rows, and no property after a fault.
Judged ==
  <<outer, media, starts, stops, beats, live, faults = 0 /\ rows > 0, faults>>
=============================================================================
