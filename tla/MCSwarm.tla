-------------------------------- MODULE MCSwarm ---------------------------------
(***************************************************************************)
(* Three servers, two threads, one file and four chunks: the chunks of the  *)
(* third server are never fetched.  Two ids, so that they wrap around when  *)
(* the other client registers two cubes.                                    *)
(***************************************************************************)
EXTENDS Swarm
=================================================================================
