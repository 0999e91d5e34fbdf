--------------------------- MODULE MCExpertCache ----------------------------
(* Two layers of three experts.  The cache has four slots, three of them    *)
(* protected.  A behaviour is of the cache at work, the warmup having left  *)
(* it empty or filled it with more of one layer than of the other or with   *)
(* as many of each, or of the methods of its L1 segments, called in any     *)
(* order from the empty cache.                                              *)
EXTENDS ExpertCache, GpuSLRU

MCLayers   == 0 .. 1
MCExperts  == 0 .. 2
MCStepSets == {s \in SUBSET (MCLayers \X MCExperts) : Cardinality(s) \in {0, 1, 2, 6}}
MCWarmups  == {<<>>,
               << <<0, 0>>, <<0, 1>>, <<0, 2>>, <<1, 0>> >>,
               << <<1, 0>>, <<0, 1>>, <<0, 2>>, <<0, 0>> >>,
               << <<0, 0>>, <<1, 0>>, <<0, 1>>, <<1, 1>> >>}

VARIABLE caller    \* "generate", or "any" of the segments' methods

CacheInit ==
    /\ Init /\ SlruInit
    /\ caller \in {"generate", "any"}
    /\ caller = "any" => loaded = {}

CacheNext ==
    \/ caller = "generate" /\ Next /\ UNCHANGED <<slruVars, caller>>
    \/ caller = "any" /\ SlruNext /\ UNCHANGED <<vars, caller>>

CacheSpec == CacheInit /\ [][CacheNext]_<<vars, slruVars, caller>>
=============================================================================
