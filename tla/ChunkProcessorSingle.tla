-------------------------- MODULE ChunkProcessorSingle -------------------------
(***************************************************************************)
(* chunk_processor_singlethread::apply: one loop over the chunks, without a *)
(* handler for the exceptions of read_chunk and f: the first one leaves     *)
(* apply.                                                                   *)
(***************************************************************************)
EXTENDS Naturals

CONSTANT NChunks   \* cube::count_chunks(), read once before the loop

Chunks == 0..(NChunks - 1)

VARIABLES
    outcome,  \* whether reading the chunk or f throws, for each chunk
    i,        \* the loop counter
    ended,    \* "no", "returned" or "raised"
    applied,  \* chunks f was completed for
    failed    \* the chunk whose exception left apply

vars == <<outcome, i, ended, applied, failed>>

Init ==
    /\ outcome \in [Chunks -> {"ok", "throws"}]
    /\ i = 0
    /\ ended = "no"
    /\ applied = {} /\ failed = {}

\* Mutant: every other chunk is left out.
ApplySkips ==
    /\ ended = "no" /\ i < NChunks
    /\ outcome[i] = "ok"
    /\ applied' = applied \cup {i}
    /\ i' = IF i + 2 < NChunks THEN i + 2 ELSE NChunks
    /\ UNCHANGED <<outcome, ended, failed>>

ApplyNext ==
    /\ ended = "no" /\ i < NChunks
    /\ outcome[i] = "ok"
    /\ applied' = applied \cup {i}
    /\ i' = i + 1
    /\ UNCHANGED <<outcome, ended, failed>>

\* Mutant: the loop is left as if it had ended.
ThrowReturns ==
    /\ ended = "no" /\ i < NChunks
    /\ outcome[i] = "throws"
    /\ failed' = failed \cup {i}
    /\ ended' = "returned"
    /\ UNCHANGED <<outcome, i, applied>>

Throw ==
    /\ ended = "no" /\ i < NChunks
    /\ outcome[i] = "throws"
    /\ failed' = failed \cup {i}
    /\ ended' = "raised"
    /\ UNCHANGED <<outcome, i, applied>>

Return ==
    /\ ended = "no" /\ i = NChunks
    /\ ended' = "returned"
    /\ UNCHANGED <<outcome, i, applied, failed>>

Next == ApplyNext \/ Throw \/ Return
Spec == Init /\ [][Next]_vars

-------------------------------------------------------------------------------
\* Properties.

\* The loop implements "apply a function f over all chunks": it returns only
\* when f was applied to every chunk, and raises otherwise.
Loop == INSTANCE ForEachChunk
LoopSpec == Loop!ApplySpec
===============================================================================
