--------------------------- MODULE MCChunkPacking ---------------------------
EXTENDS ChunkPacking

\* A frame whose counters gain a character at the third alert.
MCUsual == [m \in 0..MaxAlerts |-> IF m = 0 THEN 3 ELSE IF m < 3 THEN 4 ELSE 5]
MCOneFrame == {MCUsual}
=============================================================================
