----------------------------- MODULE MCChatRooms -----------------------------
EXTENDS ChatRooms
CONSTANTS k1, k2, u1, u2, c1, r1, r2
MCSockets == {k1, k2}
MCUsers == {u1, u2}
MCChannels == {c1}
MCRooms == {r1, r2}
-----------------------------------------------------------------------------
\* Nothing reads the viewer count, and what races make of it is not judged;
\* of a socket that is closed and done only its channel is still read.
Past(s) == conn[s].link = "closed" /\ conn[s].phase = "done"
Judged ==
  <<shared, [s \in Sockets |-> IF Past(s) THEN <<ChannelOf(s)>> ELSE conn[s]],
    on, beat, leaving, faults, raced, [c \in Channels |-> IF c \in raced THEN 0 ELSE viewers[c]]>>
=============================================================================
