------------------------------ MODULE Ds4Session ------------------------------
(***************************************************************************)
(* ds4_session of third/ds4/ds4.c: a checkpoint of tokens kept together    *)
(* with the Metal graph they left behind.  The API brings the graph to a   *)
(* prompt, evaluates one token, speculates on several with the MTP         *)
(* drafter, saves and loads the session, invalidates and rewinds it.       *)
(*                                                                         *)
(* A call runs to its end before the next one, but a sync with a progress  *)
(* callback lets its caller in after every chunk.  What a call does in     *)
(* several commands, any of which may fail, is several steps here.         *)
(*                                                                         *)
(* The logits are the tokens they were computed from.  Greedy is the       *)
(* argmax of a one-token decode of them; the batch verifier reduces in     *)
(* another order and may find another token first where two are nearly     *)
(* tied.  The MTP block only proposes: its drafts are any tokens.          *)
(***************************************************************************)
EXTENDS Ds4Graph

CONSTANTS
    Conversations,  \* the transcripts the API is fed, longest first
    Proposals(_),   \* bound: what the drafter may propose after a prefix
    ResumeMin,      \* metal_graph_resume_prefill_min_tokens
    MaxDrafts(_),   \* mtp_draft_tokens, or what the caller has room for
    Strict(_),      \* strict_mtp, without DS4_MTP_BATCH_VERIFY, of the call
                    \* that has just committed these tokens
    NearTies(_),    \* the tokens a batch may rank first after a prefix, besides
                    \* the one a decode does
    SyncLengths,    \* bound: prompts of these lengths are synced
    SavedLengths,   \* bound: checkpoints of these lengths are saved
    MaxTroubles     \* bound: failures, torn loads and rewinds

\* Two decodes leave the window before them in the ring: it is a multiple of
\* 256 rows, and the window is of 128.
ASSUME SessionAssumption ==
    /\ Conversations \subseteq Seq(Token)
    /\ {ResumeMin, MaxTroubles} \subseteq Nat
    /\ Win + 2 <= RawCap \/ Ctx <= RawCap

VARIABLES
    graph,
    checkpoint, valid,  \* checkpoint, checkpoint_valid
    logits,             \* the tokens s->logits were computed from
    draft,              \* {the tokens mtp_draft_token continues}, or NoDraft
    accepted,           \* what the last call accepted
    call,               \* the call in progress
    disk,               \* the payload in the cache file, or NoPayload
    sound,              \* the graph has not been torn since it was last rebuilt
    read,               \* the batch the graph has just been through, or NoRead
    troubles

vars == <<graph, checkpoint, valid, logits, draft, accepted, call, disk, sound, read, troubles>>

Transcripts == UNION {{SubSeq(c, 1, n) : n \in 0..Len(c)} : c \in Conversations}

NoDraft   == {}
NoRead    == [none |-> "read"]
NoPayload == [none |-> "payload"]
Idle      == [op |-> "idle"]

SessionInit ==
    /\ graph = EmptyGraph
    /\ checkpoint = << >> /\ valid = FALSE
    /\ logits = << >> /\ draft = NoDraft /\ accepted = << >>
    /\ call = Idle /\ disk = NoPayload
    /\ sound = TRUE /\ read = NoRead /\ troubles = 0

\* Bound: nothing fails while there is a payload, except the loading of it.
Trouble == disk = NoPayload /\ troubles < MaxTroubles /\ troubles' = troubles + 1

\* A command fails where it must, or at any time.
Fails(can) == IF can THEN Trouble ELSE UNCHANGED troubles

\* What attention has read is known of the graph a step leaves behind.
Reads(t, at, n) == read' = [tokens |-> t, at |-> at, n |-> n]
ReadsNothing == read' = NoRead

\* Commit t, the logits computed from it.
Hold(t) == checkpoint' = t /\ valid' = TRUE /\ logits' = t

\* A call that gives up leaves no checkpoint to extend.
GiveUp ==
    /\ valid' = FALSE /\ call' = Idle
    /\ UNCHANGED <<checkpoint, logits, accepted, disk, sound>>

------------------------------------------------------------------------------
(* ds4_session_sync                                                         *)

Extends(prompt) == valid /\ IsPrefix(checkpoint, prompt)

Sync(prompt, notify) ==
    LET suffix == Len(prompt) - Len(checkpoint)
        batch(start, n) == [op |-> "prefill", prompt |-> prompt, start |-> start, at |-> start, notify |-> n]
    IN  /\ call.op = "idle" /\ Len(prompt) \in SyncLengths \cap 1..Ctx - 1
        /\ sound \/ ~Extends(prompt) \/ checkpoint = << >>
        /\ \/ /\ Extends(prompt) /\ suffix >= ResumeMin
              /\ call' = batch(Len(checkpoint), notify) /\ draft' = NoDraft
           \/ /\ Extends(prompt) /\ suffix \in 1..ResumeMin - 1
              /\ call' = [op |-> "extend", prompt |-> prompt] /\ draft' = NoDraft
           \/ /\ Extends(prompt) /\ suffix = 0
              /\ call' = Idle /\ draft' = NoDraft
           \/ /\ ~Extends(prompt)
              /\ call' = batch(0, notify /\ PrefillCap < Len(prompt)) /\ UNCHANGED draft
        /\ accepted' = << >> /\ ReadsNothing
        /\ UNCHANGED <<graph, checkpoint, valid, logits, disk, sound, troubles>>

\* Variant: the distance to the next boundary is zero at a boundary.
ChunkLen_ZeroAtBoundary ==
    LET cap   == IF call.start # 0 THEN Smaller(PrefillCap, RawCap) ELSE PrefillCap
        local == IF call.start # 0
                 THEN Smaller((PrefillCap - (call.at % PrefillCap)) % PrefillCap, cap) ELSE cap
    IN  Smaller(Len(call.prompt) - call.at, local)

\* The next chunk: up to an absolute boundary when the prefill is resumed.
ChunkLen ==
    LET cap   == IF call.start # 0 THEN Smaller(PrefillCap, RawCap) ELSE PrefillCap
        local == IF call.start # 0 THEN Smaller(PrefillCap - (call.at % PrefillCap), cap) ELSE cap
    IN  Smaller(Len(call.prompt) - call.at, local)

\* ds4_session_note_prefill_progress, when there is a callback.
Note(t) ==
    IF call.notify THEN Hold(t) /\ draft' = NoDraft ELSE UNCHANGED <<checkpoint, valid, logits, draft>>

PrefillChunk ==
    LET n == ChunkLen
    IN  /\ call.op = "prefill" /\ call.at < Len(call.prompt)
        /\ Encodable(graph, call.at, n)
        /\ graph' = Batch(graph, call.prompt, call.at, n)
        /\ Reads(call.prompt, call.at, n)
        /\ sound' = (sound \/ call.at = 0)
        /\ Note(SubSeq(call.prompt, 1, call.at + n))
        /\ call' = [call EXCEPT !.at = @ + n]
        /\ UNCHANGED <<accepted, disk, troubles>>

PrefillDone ==
    /\ call.op = "prefill" /\ call.at = Len(call.prompt)
    /\ Hold(call.prompt) /\ draft' = NoDraft /\ call' = Idle
    /\ ReadsNothing /\ UNCHANGED <<graph, accepted, disk, sound, troubles>>

\* A chunk that cannot be encoded, or any failing command.
PrefillFail ==
    /\ call.op = "prefill"
    /\ \/ /\ call.at < Len(call.prompt)
          /\ Fails(Encodable(graph, call.at, ChunkLen))
          /\ \E k \in 0..NumLayers :
                /\ EncodableTo(graph, call.at, ChunkLen, k)
                /\ graph' = Partly(graph, Batch(graph, call.prompt, call.at, ChunkLen), k)
       \/ call.at = Len(call.prompt) /\ Trouble /\ UNCHANGED graph
    /\ GiveUp /\ ReadsNothing /\ UNCHANGED draft

\* One token through the graph, at the end of the checkpoint.
Decoded(t) ==
    /\ Decodable(graph, Len(t) - 1)
    /\ graph' = Decode(graph, t, Len(t) - 1)
    /\ Reads(t, Len(t) - 1, 1)

DecodeFails(t) ==
    /\ Fails(Decodable(graph, Len(t) - 1))
    /\ \E k \in 0..NumLayers :
          /\ DecodableTo(graph, Len(t) - 1, k)
          /\ graph' = Partly(graph, Decode(graph, t, Len(t) - 1), k)
    /\ ReadsNothing

NextOf(prompt) == SubSeq(prompt, 1, Len(checkpoint) + 1)

Extend ==
    /\ call.op = "extend" /\ Len(checkpoint) < Len(call.prompt)
    /\ Decoded(NextOf(call.prompt)) /\ Hold(NextOf(call.prompt))
    /\ UNCHANGED <<draft, accepted, call, disk, sound, troubles>>

ExtendFail ==
    /\ call.op = "extend" /\ Len(checkpoint) < Len(call.prompt)
    /\ DecodeFails(NextOf(call.prompt)) /\ GiveUp /\ UNCHANGED draft

ExtendDone ==
    /\ call.op = "extend" /\ Len(checkpoint) = Len(call.prompt) /\ call' = Idle
    /\ ReadsNothing /\ UNCHANGED <<graph, checkpoint, valid, logits, draft, accepted, disk, sound, troubles>>

------------------------------------------------------------------------------
(* ds4_session_eval, and the first token of a speculative call.             *)

CanEval(tok) ==
    /\ call.op = "idle" /\ valid /\ sound /\ Len(checkpoint) < Ctx
    /\ Append(checkpoint, tok) \in Transcripts

Eval(tok) ==
    /\ CanEval(tok)
    /\ Decoded(Append(checkpoint, tok)) /\ Hold(Append(checkpoint, tok))
    /\ \/ draft' = {Append(checkpoint, tok)} /\ UNCHANGED troubles
       \/ draft' = NoDraft /\ Trouble
    /\ accepted' = << >> /\ UNCHANGED <<call, disk, sound>>

EvalFail(tok) ==
    /\ CanEval(tok) /\ DecodeFails(Append(checkpoint, tok))
    /\ draft' = NoDraft /\ GiveUp

\* Variant: the room as it was before the first token was evaluated.
DraftRoom_BeforeEval(t) == Ctx - Len(t) + 1

DraftRoom(t) == Ctx - Len(t) - 1

\* What the drafter may propose after t: its first token must be the model's.
Drafts(t) ==
    {d \in UNION {[1..n -> Token] : n \in {m \in 1..DraftRoom(t) : m <= MaxDrafts(t)}} :
        /\ d[1] = Greedy(t)
        /\ \A i \in 1..Len(d) : d[i] \in Proposals(t \o SubSeq(d, 1, i - 1))
        /\ \A i \in 1..Len(d) - 1 : d[i] # Eos}

Speculate(tok, drafts) ==
    LET t == Append(checkpoint, tok)
    IN  /\ CanEval(tok) /\ tok # Eos /\ drafts \in Drafts(t)
        /\ Decoded(t) /\ Hold(t)
        /\ draft' = NoDraft /\ accepted' = <<tok>>
        /\ call' = [op |-> "drafted", drafts |-> drafts]
        /\ UNCHANGED <<disk, sound, troubles>>

\* What a row of a batch may rank first.
RowTops(t) == {Greedy(t)} \cup NearTies(t)

\* Variant: all the drafts stand.
BatchAgreed_All(t, drafts) == {Len(drafts)}

\* How many drafts a batch after t lets stand: a prefix, never empty, because
\* the first one is known to be right.
BatchAgreed(t, drafts) ==
    {k \in 1..Len(drafts) :
        /\ \A i \in 2..k : drafts[i] \in RowTops(t \o SubSeq(drafts, 1, i - 1))
        /\ k < Len(drafts) => RowTops(t \o SubSeq(drafts, 1, k)) # {drafts[k + 1]}}

\* The exact verifier looks at two drafts only, of a call that asked for it.
Exactly(t, drafts) == Strict(t) /\ Len(drafts) = 2

Accept(t, drafts) == Hold(t \o drafts) /\ accepted' = accepted \o drafts /\ call' = Idle

Sequential(t, drafts) ==
    /\ checkpoint' = t /\ call' = [op |-> "sequential", drafts |-> drafts]
    /\ UNCHANGED <<valid, logits, accepted>>

\* The frontier is put back, or the device fails again in the middle of it:
\* the verifier goes on without looking at the result.
PutBack(g, frontier) ==
    \/ graph' = Restored(g, frontier) /\ UNCHANGED sound
    \/ sound' = FALSE /\ \E k \in 0..NumLayers - 1 : graph' = Partly(g, Restored(g, frontier), k)

\* Two drafts of an uncertain drafter: only the first is evaluated.  A strict
\* call does not look at the margin.
MarginSkip ==
    LET t == Append(checkpoint, call.drafts[1])
    IN  /\ call.op = "drafted" /\ Len(call.drafts) = 2 /\ ~Strict(checkpoint)
        /\ \/ Decoded(t) /\ Accept(checkpoint, <<call.drafts[1]>>) /\ UNCHANGED <<disk, sound, troubles>>
           \/ DecodeFails(t) /\ GiveUp
        /\ UNCHANGED draft

\* The verifier of --quality: two ordinary decodes, with the frontier kept
\* before the first and captured after it.
ExactOne ==
    LET t == Append(checkpoint, call.drafts[1])
    IN  /\ call.op = "drafted" /\ Exactly(checkpoint, call.drafts)
        /\ Decoded(t)
        /\ call' = [op |-> "exact", drafts |-> call.drafts, frontier |-> Frontier(graph)]
        /\ UNCHANGED <<checkpoint, valid, logits, draft, accepted, disk, sound, troubles>>

ExactTwo ==
    LET t == checkpoint \o call.drafts
    IN  /\ call.op = "exact"
        /\ Decodable(graph, Len(t) - 1)
        /\ graph' = Decode(graph, t, Len(t) - 1) /\ Reads(t, Len(t) - 1, 1)
        /\ call' = [op |-> "compared", drafts |-> call.drafts, frontier |-> call.frontier,
                    prefix1 |-> Frontier(graph)]
        /\ UNCHANGED <<checkpoint, valid, logits, draft, accepted, disk, sound, troubles>>

ExactCommit ==
    /\ call.op = "compared"
    /\ IF call.drafts[2] = Greedy(Append(checkpoint, call.drafts[1]))
       THEN Accept(checkpoint, call.drafts) /\ UNCHANGED graph
       ELSE Accept(checkpoint, <<call.drafts[1]>>) /\ graph' = Restored(graph, call.prefix1)
    /\ ReadsNothing /\ UNCHANGED <<draft, disk, sound, troubles>>

\* Any of it fails: the frontier is put back.
ExactFails ==
    /\ call.op \in {"exact", "compared"} /\ Trouble
    /\ \/ call.op = "exact" /\ \E k \in 0..NumLayers :
             PutBack(Partly(graph, Decode(graph, checkpoint \o call.drafts, Len(checkpoint) + 1), k), call.frontier)
       \/ call.op = "compared" /\ PutBack(graph, call.frontier)
    /\ Sequential(checkpoint, call.drafts)
    /\ ReadsNothing /\ UNCHANGED <<draft, disk>>

\* The batch verifier, by what it keeps to come back with: the frontier before
\* it (snapshot) or, of two drafts, the frontier after the first (capture).
Preparations(n) ==
    IF n > 2 THEN {[snapshot |-> TRUE, capture |-> FALSE]}
    ELSE IF n = 2 THEN [snapshot : BOOLEAN, capture : BOOLEAN] \ {[snapshot |-> FALSE, capture |-> FALSE]}
    ELSE [snapshot : BOOLEAN, capture : {FALSE}]

VerifyBatch(prep) ==
    LET d == call.drafts
        t == checkpoint \o d
        n == Len(d)
        p == Len(checkpoint)
    IN  /\ call.op = "drafted" /\ ~Exactly(checkpoint, d) /\ prep \in Preparations(n)
        /\ n <= PrefillCap /\ Encodable(graph, p, n)
        /\ graph' = Batch(graph, t, p, n)
        /\ Reads(t, p, n)
        /\ checkpoint' = t
        /\ \E stand \in BatchAgreed(checkpoint, d) :
              call' = [op |-> "verified", drafts |-> d, from |-> checkpoint, prep |-> prep,
                       stand |-> stand,
                       frontier |-> Frontier(graph),
                       prefix1  |-> Frontier(Batch(graph, SubSeq(t, 1, p + 1), p, 1))]
        /\ UNCHANGED <<valid, logits, draft, accepted, disk, sound, troubles>>

\* The snapshot fails or the drafts are more than a batch takes, and nothing
\* has been touched, or the verifier fails.
VerifyBatchFails(prep) ==
    LET d == call.drafts
        t == checkpoint \o d
        reached == IF Len(d) <= PrefillCap THEN 0..NumLayers ELSE {0}
        torn(k) == Partly(graph, Batch(graph, t, Len(checkpoint), Len(d)), k)
    IN  /\ call.op = "drafted" /\ ~Exactly(checkpoint, d) /\ prep \in Preparations(Len(d))
        /\ Fails(Len(d) <= PrefillCap)
        /\ \/ /\ prep.snapshot /\ Sequential(checkpoint, d) /\ UNCHANGED disk
              /\ \E k \in reached : PutBack(torn(k), Frontier(graph))
           \/ ~prep.snapshot /\ GiveUp /\ \E k \in reached : graph' = torn(k)
        /\ ReadsNothing /\ UNCHANGED draft

\* The verifier's tops decide how many drafts stand.
Standing == call.stand

CommitAll ==
    /\ call.op = "verified" /\ Standing = Len(call.drafts)
    /\ Accept(call.from, call.drafts)
    /\ ReadsNothing /\ UNCHANGED <<graph, draft, disk, sound, troubles>>

CommitPrefix1 ==
    /\ call.op = "verified" /\ Standing = 1 /\ Len(call.drafts) = 2 /\ call.prep.capture
    /\ graph' = Restored(graph, call.prefix1)
    /\ Accept(call.from, <<call.drafts[1]>>)
    /\ ReadsNothing /\ UNCHANGED <<draft, disk, sound, troubles>>

\* The frontier is put back, and what stands is evaluated again.
Replaying == call' = [op |-> "replay", drafts |-> call.drafts, from |-> call.from,
                      frontier |-> call.frontier, take |-> Standing]

Rollback ==
    /\ call.op = "verified" /\ Standing < Len(call.drafts)
    /\ ~(call.prep.capture /\ Standing = 1)
    /\ graph' = Restored(graph, call.frontier)
    /\ checkpoint' = call.from /\ Replaying
    /\ ReadsNothing /\ UNCHANGED <<valid, logits, draft, accepted, disk, sound, troubles>>

\* The logits of the last draft cannot be read, or a frontier not be copied.
\* Without a snapshot the call gives up; nothing reads the graph after that.
CommitFails ==
    /\ call.op = "verified" /\ Trouble
    /\ \/ /\ call.prep.snapshot /\ Standing = Len(call.drafts)
          /\ graph' = Restored(graph, call.frontier)
          /\ checkpoint' = call.from /\ Replaying
          /\ UNCHANGED <<valid, logits, accepted, disk, sound>>
       \/ /\ call.prep.snapshot /\ Standing < Len(call.drafts)
          /\ PutBack(graph, call.frontier)
          /\ Sequential(call.from, call.drafts) /\ UNCHANGED disk
       \/ /\ ~call.prep.snapshot /\ valid' = FALSE /\ checkpoint' = call.from /\ call' = Idle
          /\ UNCHANGED <<graph, logits, accepted, disk, sound>>
    /\ ReadsNothing /\ UNCHANGED draft

\* One of two drafts is decoded; any other number goes through the batch again.
Replayed ==
    LET n == call.take
        t == call.from \o SubSeq(call.drafts, 1, n)
    IN  IF n = 1 /\ Len(call.drafts) = 2
        THEN Decode(graph, t, Len(call.from)) ELSE Batch(graph, t, Len(call.from), n)

Replay ==
    LET d == SubSeq(call.drafts, 1, call.take)
    IN  /\ call.op = "replay" /\ Encodable(graph, Len(call.from), call.take)
        /\ graph' = Replayed
        /\ Reads(call.from \o d, Len(call.from), call.take)
        /\ Accept(call.from, d)
        /\ UNCHANGED <<draft, disk, sound, troubles>>

\* A replay that fails part of the way: the frontier is put back once more.
ReplayFails ==
    /\ call.op = "replay" /\ Trouble
    /\ \E k \in 0..NumLayers : PutBack(Partly(graph, Replayed, k), call.frontier)
    /\ Sequential(call.from, call.drafts)
    /\ ReadsNothing /\ UNCHANGED <<draft, disk>>

\* The last resort, one token at a time for as long as the model agrees.  The
\* logits are read back at the end.  Those of the call's start are still good,
\* but a graph the frontier was not put back into may say anything.
SequentialTops == IF sound \/ logits = checkpoint THEN {Greedy(checkpoint)} ELSE Token

Step ==
    LET t == Append(checkpoint, call.drafts[1])
    IN  /\ call.op = "sequential" /\ call.drafts # << >> /\ call.drafts[1] \in SequentialTops
        /\ \/ /\ Decoded(t)
              /\ checkpoint' = t /\ accepted' = Append(accepted, call.drafts[1])
              /\ call' = [call EXCEPT !.drafts = Tail(@)]
              /\ UNCHANGED <<valid, logits, disk, sound, troubles>>
           \/ DecodeFails(t) /\ GiveUp
        /\ UNCHANGED draft

StepsDone ==
    /\ call.op = "sequential"
    /\ call.drafts # << >> => SequentialTops # {call.drafts[1]}
    /\ \/ Hold(checkpoint) /\ call' = Idle /\ UNCHANGED <<accepted, disk, sound, troubles>>
       \/ logits # checkpoint /\ Trouble /\ GiveUp
    /\ ReadsNothing /\ UNCHANGED <<graph, draft>>

------------------------------------------------------------------------------
(* Payloads, and the calls that only touch the checkpoint.                  *)

\* A caller can act between calls and in the progress callback of a prefill.
CallerRuns == call.op = "idle" \/ (call.op = "prefill" /\ call.notify)

\* Variant: the rows are written as they lie in the ring.
LiveRows_Physical(ring, n) ==
    [q \in WindowOf(n - 1) |-> ring[(q - (CHOOSE f \in WindowOf(n - 1) : \A w \in WindowOf(n - 1) : f <= w)) % RawCap]]

\* session_raw_live_rows, in logical order.
LiveRows(ring, n) == [q \in WindowOf(n - 1) |-> ring[q % RawCap]]

Save ==
    /\ CallerRuns /\ valid /\ sound /\ troubles = 0 /\ Len(checkpoint) \in SavedLengths
    /\ disk' = [tokens |-> checkpoint, logits |-> logits,
                rows   |-> [l \in Layer |-> LiveRows(graph.ring[l], Len(checkpoint))],
                lane   |-> graph.lane]
    /\ ReadsNothing /\ UNCHANGED <<graph, checkpoint, valid, logits, draft, accepted, call, sound, troubles>>

LoadedRing(ring, rows) ==
    [i \in 0..RawCap - 1 |->
        LET here == {q \in DOMAIN rows : q % RawCap = i}
        IN  IF here = {} THEN ring[i] ELSE rows[CHOOSE q \in here : TRUE]]

Load ==
    /\ call.op = "idle" /\ disk # NoPayload /\ Len(disk.tokens) < Ctx
    /\ graph' = [ring |-> [l \in Layer |-> LoadedRing(graph.ring[l], disk.rows[l])], lane |-> disk.lane]
    /\ checkpoint' = disk.tokens /\ valid' = TRUE /\ logits' = disk.logits
    /\ draft' = NoDraft /\ accepted' = << >>
    /\ sound' = TRUE /\ ReadsNothing
    /\ UNCHANGED <<call, disk, troubles>>

\* The file ends early: logits, rows and states of the first layers are the
\* payload's, the counts and the checkpoint are still the session's.
LoadTorn ==
    LET over(new, old) ==
            [rows  |-> SubSeq(new.rows \o SubSeq(old.rows, Len(new.rows) + 1, Len(old.rows)), 1, Len(old.rows)),
             state |-> new.state]
        after == [ring |-> [l \in Layer |-> LoadedRing(graph.ring[l], disk.rows[l])],
                  lane |-> [ln \in Lane |-> over(disk.lane[ln], graph.lane[ln])]]
    IN  /\ call.op = "idle" /\ disk # NoPayload /\ Len(disk.tokens) < Ctx
        /\ troubles < MaxTroubles /\ troubles' = troubles + 1
        /\ logits' = disk.logits
        /\ \E k \in 0..NumLayers : graph' = Partly(graph, after, k)
        /\ sound' = FALSE /\ disk' = NoPayload /\ ReadsNothing
        /\ UNCHANGED <<checkpoint, valid, draft, accepted, call>>

Invalidate ==
    /\ call.op = "idle" /\ valid
    /\ valid' = FALSE /\ checkpoint' = << >> /\ draft' = NoDraft /\ accepted' = << >>
    /\ ReadsNothing /\ UNCHANGED <<graph, logits, call, disk, sound, troubles>>

Rewind(pos) ==
    /\ call.op = "idle" /\ valid /\ pos \in 0..Len(checkpoint) - 1 /\ Trouble
    /\ checkpoint' = SubSeq(checkpoint, 1, pos) /\ draft' = NoDraft /\ sound' = FALSE
    /\ accepted' = << >>
    /\ ReadsNothing /\ UNCHANGED <<graph, valid, logits, call, disk>>

Work ==
    \/ PrefillChunk \/ PrefillDone \/ Extend \/ ExtendDone
    \/ MarginSkip \/ ExactOne \/ ExactTwo \/ ExactCommit \/ \E prep \in [snapshot : BOOLEAN, capture : BOOLEAN] : VerifyBatch(prep)
    \/ CommitAll \/ CommitPrefix1 \/ Rollback \/ Replay \/ Step \/ StepsDone

Failing ==
    \/ PrefillFail \/ ExtendFail \/ ExactFails \/ CommitFails \/ ReplayFails
    \/ \E prep \in [snapshot : BOOLEAN, capture : BOOLEAN] : VerifyBatchFails(prep)

Calls ==
    \/ \E prompt \in Transcripts, notify \in BOOLEAN : Sync(prompt, notify)
    \/ \E tok \in Token : Eval(tok) \/ EvalFail(tok)
    \/ \E tok \in Token : \E drafts \in Drafts(Append(checkpoint, tok)) : Speculate(tok, drafts)
    \/ Save \/ Load \/ LoadTorn \/ Invalidate
    \/ \E pos \in 0..Ctx : Rewind(pos)

------------------------------------------------------------------------------
(* What holds of a session.                                                 *)

\* What a caller finds behind a valid checkpoint: the logits and the draft
\* continue exactly those tokens, and the graph is the one a fresh prefill of
\* them would leave, as far as any later step can read it.  This is the promise
\* of ds4_session_sync ("Bring the Metal graph to exactly the supplied token
\* prefix"), of the speculative call and of a loaded payload, whichever of them
\* came before; a torn load, a rewind and an unnoticed failure void it until the
\* graph is rebuilt.
SessionExact ==
    CallerRuns /\ valid /\ sound =>
        /\ GraphMatches(graph, checkpoint)
        /\ logits = checkpoint
        /\ draft \subseteq {checkpoint}

\* Every query of every chunk, decode and verifier batch reads the raw rows of
\* exactly its own window and every compressed block before it, at the ring
\* positions metal_graph_raw_span_for_batch gives, drafts and rejected drafts
\* of earlier calls notwithstanding.
AttentionExact == sound /\ read # NoRead => Misread(graph, read.tokens, read.at, read.n) = {}

\* What a call that has committed from may emit after t: where it asked for the
\* exact verifier and for no more drafts than that looks at, the model's token,
\* and otherwise one a batch may take for it.
Emitted(from, t) == IF Strict(from) /\ MaxDrafts(from) \in 0..2 THEN {Greedy(t)} ELSE RowTops(t)

\* "The target model still defines the exact output stream" (ds4.c:16880), as
\* far as the code keeps to it.  Whatever its drafts and its way out, the tokens
\* a speculative call accepts are the end of the checkpoint.  The first draft
\* to stand is the token one-token decoding gives.  The later ones, too, where
\* --quality or DS4_MTP_STRICT selects the exact verifier of two drafts; without
\* it "it may pick a different greedy token when batched reductions perturb
\* nearly-tied logits" (ds4.c:17024), and no other.  Of the later ones nothing is
\* said when the graph was left torn by a failure the fallback did not look at.
SpeculationExact ==
    call.op = "idle" /\ valid /\ accepted # << >> =>
        LET before(i) == SubSeq(checkpoint, 1, Len(checkpoint) - Len(accepted) + i - 1)
        IN  /\ IsSuffix(accepted, checkpoint)
            /\ Len(accepted) > 1 => accepted[2] = Greedy(before(2))
            /\ sound => \A i \in 2..Len(accepted) : accepted[i] \in Emitted(before(2), before(i))

\* A payload written by ds4_session_save_payload, between calls or in the middle
\* of a prefill, is consistent in itself: its logits, rows, counts and states
\* are all of the tokens it names.
PayloadExact ==
    disk # NoPayload =>
        /\ disk.logits = disk.tokens
        /\ \A l \in Layer : \A q \in WindowOf(Len(disk.tokens) - 1) : disk.rows[l][q] = RowAt(disk.tokens, q)
        /\ \A ln \in Lane : CacheMatches(LaneRatio(ln), disk.lane[ln], disk.tokens)
=============================================================================
