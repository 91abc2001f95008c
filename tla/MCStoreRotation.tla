-------------------------- MODULE MCStoreRotation --------------------------
EXTENDS StoreRotation

\* The switches that matter with a maximum at the high watermark, and watermarks
\* that are out of order or above the maximum.
MCSettings ==
    {raw \in [low : {Garbage, 2}, high : {Missing, 5}, max : {2},
              rotation : {Missing, FALSE}, vacuum : {Blank, TRUE}] :
        raw.rotation = FALSE => raw.vacuum = Blank}
MCDefaults ==
    [low : {Missing}, high : {Missing}, max : {Missing}, rotation : {Missing},
     vacuum : {Missing}]
=============================================================================
