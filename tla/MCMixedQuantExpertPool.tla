----------------------- MODULE MCMixedQuantExpertPool ------------------------
EXTENDS MixedQuantExpertPool

CONSTANTS t1, t2, up

\* Two layers of two experts for a cache of one slot; two CPU threads, so
\* that two jobs for one expert can meet.
MCExperts  == 0 .. 1
MCThreads  == {t1, t2}
MCOneToken == {1}
MCTwoTokens == {1, 2}
MCFrequencies == {[k \in Keys |-> 0], [k \in Keys |-> 2], [k \in Keys |-> k[2]]}
MCHalfSeen == {[k \in Keys |-> k[2]]}
ThreadSymmetry == Permutations(MCThreads)
=============================================================================
