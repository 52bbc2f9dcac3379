------------------------------ MODULE ForEachChunk ----------------------------
(***************************************************************************)
(* What chunk_processor::apply promises: "apply a function f over all       *)
(* chunks of a given data cube", each chunk once, and return when all are   *)
(* done.  An implementation may instead end with an exception.              *)
(***************************************************************************)
CONSTANT Chunks

VARIABLES applied,  \* chunks f was applied to
          failed,   \* chunks given up because reading them or f threw
          ended     \* "no", "returned" or "raised"

applyVars == <<applied, failed, ended>>

ApplyInit == applied = {} /\ failed = {} /\ ended = "no"

Apply(c) ==
    /\ ended = "no"
    /\ c \notin applied \cup failed
    /\ \/ applied' = applied \cup {c} /\ UNCHANGED failed
       \/ failed' = failed \cup {c} /\ UNCHANGED applied
    /\ UNCHANGED ended

Return ==
    /\ ended = "no"
    /\ applied \cup failed = Chunks
    /\ ended' = "returned"
    /\ UNCHANGED <<applied, failed>>

\* The loop is left with the exception of a chunk.
Raise(c) ==
    /\ ended = "no"
    /\ c \notin applied \cup failed
    /\ failed' = failed \cup {c}
    /\ ended' = "raised"
    /\ UNCHANGED applied

ApplyNext == (\E c \in Chunks : Apply(c) \/ Raise(c)) \/ Return
ApplySpec == ApplyInit /\ [][ApplyNext]_applyVars
===============================================================================
