------------------------------ MODULE ModelFit ------------------------------
(***************************************************************************)
(* check_model_fits (vllm/server.py, vllm/model_fit.py): whether a model's *)
(* download fits a disk, and each worker's share of its weights and of one *)
(* request's KV cache its GPUs; and whether the profile's RoPE override    *)
(* suits the model.  A user told what is wrong follows the advice and runs *)
(* again.  Sizes are small numbers; None is -1.                            *)
(***************************************************************************)
EXTENDS Integers, FiniteSets

CONSTANTS
    Models,             \* files, KV heads, native context (None: not said), own layers
    Hosts,              \* free disk, GPU memory, and tensor parallelism by worker
    Profiles,           \* max_model_len (None: not set), the override keys set, min_context
    MaxRounds           \* bound: runs of the check

VARIABLES
    model, host, profile,
    cached,             \* sizes of the files in the cache; a file of another version has another
    reached,            \* the Hugging Face API answers
    pc, answer, rounds,
    advised             \* rounds of RoPE advice followed; for the properties

vars == <<model, host, profile, cached, reached, pc, answer, rounds, advised>>

None == -1
Overhead == 1
RopeKeys == {"rope_parameters", "rope_scaling"}

\* Sizes are added up byte by byte: x's are <<x, 1>>, <<x, 2>>, and so on.
Bytes(f, S) == UNION {{x} \X (1..f[x]) : x \in S}
Sum(f, S) == Cardinality(Bytes(f, S))

-----------------------------------------------------------------------------
(* model_footprint. *)

\* The first format of weights there is, and small files.
Sizes == [f \in DOMAIN (IF reached THEN model.files ELSE cached) |->
            IF reached THEN model.files[f].size ELSE cached[f]]
Kind(f) == model.files[f].kind
Weights ==
    LET of(kind) == {f \in DOMAIN Sizes : Kind(f) = kind}
    IN  IF of("safetensors") # {} THEN of("safetensors") ELSE of("bin")
Downloaded == Weights \union {f \in DOMAIN Sizes : Kind(f) = "other"}
\* Weights in a directory below are downloaded, and not loaded.
Loaded == {f \in Weights : model.files[f].top}

CachedBytes == Sum(cached, {f \in Downloaded \intersect DOMAIN cached : cached[f] = Sizes[f]})
MissingBytes == LET missing == Sum(Sizes, Downloaded) - CachedBytes IN IF missing > 0 THEN missing ELSE 0
WeightBytes == Sum(Sizes, Loaded)

CeilDiv(n, d) == (n + d - 1) \div d
\* As if a head left over were nobody's.
HeadsRoundedDown(tensorParallel) == model.kvHeads \div tensorParallel
\* A KV head is never split.
HeadsPerGpu(tensorParallel) == CeilDiv(model.kvHeads, tensorParallel)
KvBytesPerToken(tensorParallel) == 2 * model.layers * HeadsPerGpu(tensorParallel)

-----------------------------------------------------------------------------
(* rope_override_problem. *)

Overridden == profile.overrides \intersect RopeKeys # {}
RopeProblem ==
    LET said == model.native # None /\ profile.maxModelLen # None
    IN  CASE said /\ Overridden /\ model.native >= profile.maxModelLen -> "remove"
          [] said /\ ~Overridden /\ model.native < profile.maxModelLen -> "stretch"
          [] OTHER -> "none"

\* The key that is commented out is the first there is.
FirstKey == IF "rope_parameters" \in profile.overrides THEN "rope_parameters" ELSE "rope_scaling"
Advised ==
    CASE RopeProblem = "remove" -> {[profile EXCEPT !.overrides = @ \ {FirstKey}]}
      [] RopeProblem = "stretch" ->
            {[profile EXCEPT !.overrides = @ \union {"rope_parameters"}]}
                \union (IF model.native >= profile.minContext
                        THEN {[profile EXCEPT !.maxModelLen = model.native]} ELSE {})

-----------------------------------------------------------------------------
(* check_model_fits. *)

DiskShort == host.free # None /\ MissingBytes > host.free

MaxModelLen == IF profile.maxModelLen # None THEN profile.maxModelLen ELSE model.native
\* In the GPU with the least memory of the worker's; comparisons are multiplied out.
GpuShort(w) ==
    LET tp == w.tensorParallel
        room == (w.memory - Overhead) * tp - WeightBytes
    IN  room < 0 \/ MaxModelLen * KvBytesPerToken(tp) * tp > room

Answer(a) == answer' = a /\ pc' = "done"

Check ==
    /\ pc = "check"
    /\ Answer(CASE ~reached /\ "config" \notin DOMAIN cached -> "unknown"
                [] reached \/ "config" \in DOMAIN cached ->
                      CASE RopeProblem # "none" -> "rope"
                        [] RopeProblem = "none" /\ DiskShort -> "disk"
                        [] RopeProblem = "none" /\ ~DiskShort ->
                              IF MaxModelLen # None /\ \E w \in host.workers : GpuShort(w) THEN "gpu"
                              ELSE "fits")
    /\ UNCHANGED <<model, host, profile, cached, reached, rounds, advised>>

Again == pc' = "check" /\ rounds < MaxRounds /\ rounds' = rounds + 1 /\ UNCHANGED answer

FollowAdvice ==
    /\ pc = "done" /\ answer = "rope" /\ Again
    /\ profile' \in Advised /\ advised' = advised + 1
    /\ UNCHANGED <<model, host, cached, reached>>

\* A run that fits downloads, to the end or not, and takes the disk's space.  What vLLM does of a model
\* that could not be sized, or only from the cache, is left out.
Download ==
    /\ pc = "done" /\ answer = "fits" /\ reached /\ Again
    /\ \E files \in SUBSET {f \in Downloaded : f \notin DOMAIN cached \/ cached[f] # Sizes[f]} :
          /\ cached' = [f \in DOMAIN cached \union files |-> IF f \in files THEN Sizes[f] ELSE cached[f]]
          /\ host' = [host EXCEPT !.free = IF @ = None THEN @ ELSE @ - Sum(Sizes, files)]
    /\ reached' \in BOOLEAN
    /\ UNCHANGED <<model, profile, advised>>

Begun == pc = "check" /\ answer = "none" /\ rounds = 1 /\ advised = 0
Init ==
    /\ model \in Models /\ host \in Hosts /\ profile \in Profiles
    /\ \E files \in SUBSET DOMAIN model.files :
          cached \in {[f \in files |-> 1], [f \in files |-> model.files[f].size]}
    /\ reached \in BOOLEAN
    /\ Begun

Next == Check \/ FollowAdvice \/ Download
Spec == Init /\ [][Next]_vars

-----------------------------------------------------------------------------
TypeOK ==
    /\ DOMAIN cached \subseteq DOMAIN model.files /\ rounds \in 1..MaxRounds
    /\ pc \in {"check", "done"}

\* A model that passes can run: every worker's GPUs together hold their overhead, the weights it
\* knows of and the KV cache of one request, every head of it on some GPU, and what was left to
\* download, in however many goes, found room on the disk.
ModelFits ==
    /\ pc = "done" /\ answer = "fits" /\ MaxModelLen # None =>
          \A w \in host.workers :
              w.memory * w.tensorParallel >=
                  w.tensorParallel * Overhead + WeightBytes + MaxModelLen * 2 * model.layers * model.kvHeads
    /\ host.free >= 0 \/ host.free = None

\* Who follows the advice about RoPE is not told of it again: at once, or after each of two overrides
\* was taken out; it is never told first to put one in and then to take it out.
AdviceHelps ==
    /\ advised > 0 /\ RopeProblem # "none" => advised = 1 /\ RopeProblem = "remove"
    /\ advised <= 2
=============================================================================
