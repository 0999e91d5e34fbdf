----------------------------- MODULE Ds4Forward -----------------------------
(* The machine that runs a forward pass: the threads of the current region   *)
(* run their instructions in any interleaving, and the next region starts    *)
(* when all of them are through.                                             *)
EXTENDS Ds4CpuLayers, Ds4MetalBatch, FiniteSets, TLC

VARIABLES
    program,  \* the regions of the pass, empty when it does not run
    region,   \* the region it has reached
    at,       \* instructions each thread of the region has run
    mem       \* what the buffers hold

fvars == <<program, region, at, mem>>

Done == region > Len(program)

Idle == program = << >> /\ region = 1 /\ at = << >> /\ mem = << >>
Start(code) ==
    /\ program = code /\ region = 1 /\ mem = << >>
    /\ at = [w \in 1..Len(code[1]) |-> 0]

Execute(w) ==
    /\ ~Done /\ at[w] < Len(program[region][w])
    /\ LET i == program[region][w][at[w] + 1]
       IN  mem' = (i.out :> Result(mem, i)) @@ mem
    /\ at' = [at EXCEPT ![w] = @ + 1]
    /\ UNCHANGED <<program, region>>

\* ds4_parallel_for returns when every thread has finished its rows.
Join ==
    /\ ~Done /\ \A w \in DOMAIN at : at[w] = Len(program[region][w])
    /\ region' = region + 1
    /\ at' = IF region = Len(program) THEN << >>
             ELSE [w \in 1..Len(program[region + 1]) |-> 0]
    /\ UNCHANGED <<program, mem>>

Forward == Join \/ \E w \in DOMAIN at : Execute(w)
=============================================================================
