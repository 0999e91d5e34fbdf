------------------------------ MODULE MCDs4Engine ------------------------------
(* Two layers, of an overlapping ratio of three and a plain ratio of six; a  *)
(* window of two, chunks of six and a ring of eight rows that a context of   *)
(* eleven wraps.  The second conversation leaves the first at its sixth      *)
(* token, in the middle of a block; the first has a turn that ends early.    *)
EXTENDS Ds4Engine

CONSTANTS a, b, e

MCRatio == <<3, 6>>
MCToken == {a, b, e}

First  == <<a, b, a, a, b, a, b, e, a, b, a>>
Second == <<a, b, a, a, b, b, a, b>>
MCConversations == {First, Second}

\* The model prefers to go on as a conversation does, the first before the
\* second, and off them it prefers a.
MCGreedy(t) ==
    LET goesOn(c) == Len(t) < Len(c) /\ IsPrefix(t, c)
    IN  IF goesOn(First) THEN First[Len(t) + 1]
        ELSE IF goesOn(Second) THEN Second[Len(t) + 1] ELSE a

\* The drafter proposes the model's token or one other.
Other(t) == IF MCGreedy(t) = a THEN b ELSE a
MCProposals(t) == {MCGreedy(t), Other(t)}

\* Every other call is strict, and drafts no more than the exact verifier looks
\* at.  The two best tokens are nearly tied after every third prefix.
MCStrict(t)    == Len(t) % 2 = 0
MCMaxDrafts(t) == IF MCStrict(t) THEN 2 ELSE 3
MCNearTies(t)  == IF Len(t) % 3 = 0 THEN {Other(t)} ELSE {}

MCSyncLengths == {6, 9}
MCSavedLengths == {9}
MCPrompts == {<< >>} \cup {SubSeq(First, 1, n) : n \in 1..11} \cup {SubSeq(Second, 1, n) : n \in 6..8}
MCBudgets == {0, 2, 11}
=============================================================================
