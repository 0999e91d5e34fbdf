---------------------------- MODULE RoutedExperts ----------------------------
(* The routed experts of a prefill batch on the CPU (layer_routed_moe_batch): *)
(* the token/slot pairs are grouped by expert, and three parallel loops each  *)
(* compute one stage of every pair.  A value records what it was made of.     *)
EXTENDS Integers, Sequences, FiniteSets, SequencesExt

CONSTANTS
    MoeTokens,      \* n_tok
    ExpertsUsed,    \* DS4_N_EXPERT_USED
    RoutedExpert,   \* DS4_N_EXPERT: experts are 0 .. RoutedExpert - 1
    MidRows,        \* expert_out_dim
    OutRows         \* down_out_dim

ASSUME RoutedAssumption ==
    /\ {MoeTokens, ExpertsUsed, RoutedExpert, MidRows, OutRows} \subseteq Nat \ {0}
    /\ ExpertsUsed <= RoutedExpert

VARIABLES
    selected,   \* the expert of each pair
    pairIds,    \* the pairs in the order of their experts
    mid, midq,  \* the output of each stage
    moe,        \* moe[<<t, row>>]: the terms summed so far, in order
    left        \* the tasks of the running loop that no thread has done

rvars == <<selected, pairIds, mid, midq, moe, left>>

Pairs    == 0..MoeTokens * ExpertsUsed - 1
TokenOf(p) == p \div ExpertsUsed
RExperts == 0..RoutedExpert - 1
Outputs  == (0..MoeTokens - 1) \X (0..OutRows - 1)
Garbage  == << >>

\* What layer_hash_selected_experts and topk_desc return: distinct experts,
\* all in range, so that the check of sel[slot] never fails.
Selections == {s \in [Pairs -> RExperts] :
                 \A p, q \in Pairs : TokenOf(p) = TokenOf(q) /\ s[p] = s[q] => p = q}

\* What it would be with the pairs of e counted in.
OffsetInclusive(e) == Cardinality({p \in Pairs : selected[p] <= e})
\* expert_offset: counts[e], the pairs of the experts before e, by what the
\* prefix sum over the counts adds up to.
Offset(e) == Cardinality({p \in Pairs : selected[p] < e})
Active    == {e \in RExperts : Offset(e + 1) # Offset(e)}
\* active_expert[i], ascending.
ActiveExpert(i) == CHOOSE e \in Active : Cardinality({d \in Active : d < e}) = i
\* The pairs of an expert as the workers see them.
PairsOf(e) == [i \in 1..Offset(e + 1) - Offset(e) |-> pairIds[Offset(e) + i]]

\* pair_ids[cursor[e]++] = p, for each pair in turn: by where each one ends.
Grouped(sel) ==
    LET place(p) == Cardinality({q \in Pairs : sel[q] < sel[p] \/ (sel[q] = sel[p] /\ q <= p)})
    IN  [i \in 1..Cardinality(Pairs) |-> CHOOSE p \in Pairs : place(p) = i]

StartRouted(sel) ==
    /\ selected = sel /\ pairIds = << >>
    /\ mid = [p \in Pairs |-> [row \in 0..MidRows - 1 |-> Garbage]]
    /\ midq = [p \in Pairs |-> Garbage]
    /\ moe = [o \in Outputs |-> Garbage]
    /\ left = [loop |-> "group", tasks |-> {0}]
IdleRouted ==
    /\ selected = << >> /\ pairIds = << >> /\ mid = << >> /\ midq = << >> /\ moe = << >>
    /\ left = [loop |-> "idle", tasks |-> {}]

Group ==
    /\ left.loop = "group"
    /\ pairIds' = Grouped(selected)
    /\ left' = [loop |-> "mid", tasks |-> 0..Cardinality(Active) * MidRows - 1]
    /\ UNCHANGED <<selected, mid, midq, moe>>

\* A task that a thread of the pool has done; the next loop begins when all are.
NextLoop == [mid |-> "quantize", quantize |-> "accumulate", accumulate |-> "done"]
TasksOf(loop) ==
    IF loop = "quantize" THEN Pairs ELSE IF loop = "accumulate" THEN 0..OutRows - 1 ELSE {}
Did(task) ==
    left' = IF left.tasks = {task} THEN [loop |-> NextLoop[left.loop], tasks |-> TasksOf(NextLoop[left.loop])]
            ELSE [left EXCEPT !.tasks = @ \ {task}]

\* One row of one active expert, for each token that picked it.
BatchMid(task) ==
    LET row == task % MidRows
        e   == ActiveExpert(task \div MidRows)
        mine == PairsOf(e)
    IN  /\ left.loop = "mid" /\ task \in left.tasks
        /\ mid' = [p \in Pairs |-> IF \E i \in DOMAIN mine : mine[i] = p
                                   THEN [mid[p] EXCEPT ![row] = <<e, row, p>>] ELSE mid[p]]
        /\ Did(task) /\ UNCHANGED <<selected, pairIds, midq, moe>>

QuantizeMid(p) ==
    /\ left.loop = "quantize" /\ p \in left.tasks
    /\ midq' = [midq EXCEPT ![p] = mid[p]]
    /\ Did(p) /\ UNCHANGED <<selected, pairIds, mid, moe>>

\* One output row: cleared for each token, then a term of each pair, expert by
\* expert.
TermsOf(row, t) ==
    LET visited == FlattenSeq([i \in 1..Cardinality(Active) |-> PairsOf(ActiveExpert(i - 1))])
        summed[k \in 0..Len(visited)] ==
            IF k = 0 THEN << >>
            ELSE IF TokenOf(visited[k]) # t THEN summed[k - 1]
            ELSE Append(summed[k - 1], <<selected[visited[k]], row, midq[visited[k]]>>)
    IN  summed[Len(visited)]
AccumRows(row) ==
    /\ left.loop = "accumulate" /\ row \in left.tasks
    /\ moe' = [o \in Outputs |-> IF o[2] = row THEN TermsOf(row, o[1]) ELSE moe[o]]
    /\ Did(row) /\ UNCHANGED <<selected, pairIds, mid, midq>>

RoutedStep ==
    \/ Group
    \/ \E task \in left.tasks : BatchMid(task) \/ QuantizeMid(task) \/ AccumRows(task)
RoutedDone == left.loop \in {"idle", "done"}
=============================================================================
