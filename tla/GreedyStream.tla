----------------------------- MODULE GreedyStream ------------------------------
(***************************************************************************)
(* What ds4_engine_generate_argmax promises, whatever runs it: the tokens  *)
(* emitted are the ones the model prefers after everything before them,    *)
(* and the call ends in success only where greedy decoding ends: before an *)
(* end-of-sequence token, at the asked length or at the end of the context.*)
(***************************************************************************)
EXTENDS Integers, Sequences

CONSTANTS Ctx, Eos, Greedy(_), Prompts, Budgets

VARIABLES prompt, budget, emitted, outcome

vars == <<prompt, budget, emitted, outcome>>

Seen == prompt \o emitted

Ended == Greedy(Seen) = Eos \/ Len(emitted) >= budget \/ Len(Seen) >= Ctx

Init == prompt = << >> /\ budget = 0 /\ emitted = << >> /\ outcome = "done"

Ask(p, n) ==
    /\ outcome \in {"done", "failed"}
    /\ prompt' = p /\ budget' = n /\ emitted' = << >>
    /\ outcome' \in {"running", "failed"}

Emit ==
    /\ outcome = "running" /\ ~Ended
    /\ emitted' = Append(emitted, Greedy(Seen))
    /\ UNCHANGED <<prompt, budget, outcome>>

Finish ==
    /\ outcome = "running"
    /\ outcome' \in (IF Ended THEN {"done"} ELSE {}) \cup {"failed"}
    /\ UNCHANGED <<prompt, budget, emitted>>

Next == (\E p \in Prompts, n \in Budgets : Ask(p, n)) \/ Emit \/ Finish

Spec == Init /\ [][Next]_vars
=============================================================================
