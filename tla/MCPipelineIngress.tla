-------------------------- MODULE MCPipelineIngress --------------------------
EXTENDS PipelineIngress, TLC

Symmetry == Permutations(Document) \cup Permutations(Request)

\* Without is what a comprehension computes, on short sequences over three elements.
ASSUME FilterAssumption ==
    \A s \in UNION {[1 .. n -> 1 .. 3] : n \in 0 .. 4}, T \in SUBSET (1 .. 3) :
        Without(s, T) = SelectSeq(s, LAMBDA x : x \notin T)
=============================================================================
