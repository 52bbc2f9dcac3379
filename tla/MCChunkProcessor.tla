--------------------------- MODULE MCChunkProcessor ----------------------------
(***************************************************************************)
(* The same chunks, with the same failures, are processed by the            *)
(* multithreaded processor and then by the single-threaded one.             *)
(***************************************************************************)
EXTENDS ChunkProcessor

VARIABLES si, sended, sapplied, sfailed
svars == <<si, sended, sapplied, sfailed>>

Single == INSTANCE ChunkProcessorSingle
              WITH i <- si, ended <- sended, applied <- sapplied, failed <- sfailed

BothInit == Init /\ Single!Init

BothNext ==
    \/ Next /\ UNCHANGED svars
    \/ caller = "returned" /\ Single!Next /\ UNCHANGED vars

BothSpec ==
    /\ BothInit /\ [][BothNext]_<<vars, svars>>
    /\ WF_vars(Caller) /\ \A t \in Threads : WF_vars(Step(t))

\* The single-threaded processor implements the loop over all chunks, too: it
\* returns only when f was applied to every chunk, and raises otherwise.
SingleLoopSpec == Single!LoopSpec

\* When the single-threaded processor raises, the multithreaded one has left at
\* least this chunk out without telling its caller; otherwise both have applied
\* f to the same chunks.
SameChunks ==
    /\ sended = "returned" => applied = sapplied /\ failed = {}
    /\ sended = "raised" => sapplied \subseteq applied /\ sfailed \subseteq failed
===============================================================================
