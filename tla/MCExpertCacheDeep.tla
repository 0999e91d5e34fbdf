------------------------- MODULE MCExpertCacheDeep --------------------------
EXTENDS ExpertCache

\* Three layers of three experts and six slots, five of them protected: the
\* smallest cache for which on_step_start enables the protection.  The warmup
\* found the first layers hotter than the last one.
MCLayers  == 0 .. 2
MCExperts == 0 .. 2
MCWarmups == {<< <<0, 0>>, <<0, 1>>, <<0, 2>>, <<1, 0>>, <<1, 1>>, <<1, 2>> >>,
              << <<0, 2>>, <<1, 0>>, <<0, 1>>, <<2, 0>>, <<1, 1>>, <<0, 0>> >>}

\* The engine without CpuExpertRunner never calls prefetch_experts_batch: these
\* are the steps of Next that are left, no expert being listed for a batch.
DecodeNext ==
    \/ StepStart
    \/ \E n \in 1 .. MaxActivated : \E es \in kSubset(n, Experts) : LoadActivated(es)
    \/ ForwardMiss \/ Forward \/ NextLayer \/ StepEnd
    \/ \E w \in Workers : WorkerStep(w)
DecodeSpec == Init /\ [][DecodeNext]_vars /\ \A w \in Workers : WF_vars(WorkerStep(w))
=============================================================================
