----------------------------- MODULE MCChunkServer ----------------------------
\* Instances of ChunkServer for TLC.
EXTENDS ChunkServer, TLC

CONSTANTS k1, k2

\* Requests are interchangeable (safety runs only).
RequestSymmetry == Permutations(Handlers)

Request(kind, key) == [kind |-> kind, key |-> key]

\* The liveness run: every combination of three start and download requests of
\* two chunks with a start among them.  By the symmetry of handlers and of keys
\* the order of the requests and the names of the keys do not matter.
LivenessRequests ==
    LET s1 == Request("start", k1)     s2 == Request("start", k2)
        d1 == Request("download", k1)  d2 == Request("download", k2)
    IN  {<<s1, s1, s1>>, <<s1, s1, s2>>, <<s1, s1, d1>>, <<s1, s1, d2>>,
         <<s1, s2, d1>>, <<s1, d1, d1>>, <<s1, d1, d2>>, <<s1, d2, d2>>}

LivenessInit == Init /\ req \in LivenessRequests
LivenessSpec == LivenessInit /\ [][Next]_vars /\ Fairness
===============================================================================
