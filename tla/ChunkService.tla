----------------------------- MODULE ChunkService -----------------------------
(***************************************************************************)
(* What gdalcubes_server promises about the chunk reads it accepts, with    *)
(* no threads, queue, locks or condition variables: a chunk that has been   *)
(* asked for stays pending until it has been read, nothing is read that was *)
(* not asked for, and a chunk that was read stays available.                *)
(***************************************************************************)
CONSTANT Keys      \* chunk identifiers, std::pair<cube_id, chunk_id>

VARIABLES pending, \* chunks accepted and not yet read for every request
          finished \* chunks a download can be answered with

serviceVars == <<pending, finished>>

ServiceInit == pending = {} /\ finished = {}

\* A start request is accepted (server.cpp, POST .../start).
Request(k) == pending' = pending \cup {k} /\ UNCHANGED finished

\* A worker has read the chunk.  The chunk may have been requested twice, in
\* which case it stays pending for the second request.
Finish(k) ==
    /\ k \in pending
    /\ finished' = finished \cup {k}
    /\ pending' \in {pending, pending \ {k}}

ServiceNext == \E k \in Keys : Request(k) \/ Finish(k)

ServiceSpec == ServiceInit /\ [][ServiceNext]_serviceVars
===============================================================================
