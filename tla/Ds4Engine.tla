------------------------------- MODULE Ds4Engine -------------------------------
(***************************************************************************)
(* A client of the ds4 engine.  It either holds a session, which only the  *)
(* Metal backend gives, or asks for whole generations on either backend.   *)
(* A generation builds its own memory, so the two share nothing but the    *)
(* model.                                                                  *)
(***************************************************************************)
EXTENDS Ds4Session, Ds4Generate

VARIABLE client

allVars == <<vars, genVars, client>>

Init == SessionInit /\ GenInit /\ client \in {"session", "generation"}

SessionNext == Work \/ Failing \/ Calls

Next ==
    \/ client = "session" /\ SessionNext /\ UNCHANGED <<genVars, client>>
    \/ client = "generation" /\ GenNext /\ UNCHANGED <<vars, client>>

\* A call runs to its end; where it cannot be encoded it fails.
CallRuns ==
    \/ client = "session" /\ call.op # "idle" /\ UNCHANGED <<genVars, client>> /\ (Work \/ Failing)
    \/ client = "generation" /\ ~GenIdle /\ UNCHANGED <<vars, client>> /\ (GenWork \/ MetalFails)

Spec == Init /\ [][Next]_allVars /\ WF_allVars(CallRuns)

TypeOK ==
    /\ client \in {"session", "generation"}
    /\ checkpoint \in Seq(Token) /\ Len(checkpoint) <= Ctx
    /\ valid \in BOOLEAN /\ sound \in BOOLEAN
    /\ \A l \in Layer : DOMAIN graph.ring[l] = 0..RawCap - 1
    /\ \A ln \in Lane :
          /\ Len(graph.lane[ln].rows) <= CompCap
          /\ DOMAIN graph.lane[ln].state = 0..Depth(LaneRatio(ln)) - 1
    /\ call.op \in {"idle", "prefill", "extend", "drafted", "exact", "compared", "verified", "replay", "sequential"}
    /\ job.at \in {"prefill", "decode", "emitted", "done", "failed"}

\* Every call returns: a sync reaches the end of its prompt chunk by chunk, a
\* speculation ends in a commit, a replay, the sequential fallback or an error,
\* and a generation stops.
CallEnds == (call.op # "idle" \/ ~GenIdle) ~> (call.op = "idle" /\ GenIdle)
=============================================================================
