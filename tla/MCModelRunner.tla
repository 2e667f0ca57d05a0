---------------------------- MODULE MCModelRunner ----------------------------
(* The two halves of a model execution, KV rows and visual rows.  They share *)
(* no state: a behaviour of this model runs one half, the other stays put.   *)
EXTENDS ModelRunner, VisionRunner, TLC

CONSTANTS s1, s2
VARIABLE half

-----------------------------------------------------------------------------
Base == [backend |-> "eager", chunked |-> TRUE, mode |-> "off", cuda |-> TRUE, triton |-> FALSE,
         flashinfer |-> FALSE, vllm |-> FALSE, blockN |-> 2, splits |-> 1,
         max_num_seqs |-> 3]

RunnerConfigs ==
    {[Base EXCEPT !.cuda = FALSE, !.mode = "compact"],
     [Base EXCEPT !.triton = TRUE, !.blockN = 4, !.splits = 3],
     [Base EXCEPT !.flashinfer = TRUE],
     [Base EXCEPT !.mode = "prune", !.chunked = FALSE],
     [Base EXCEPT !.backend = "cuda_graph", !.triton = TRUE, !.mode = "fp8"],
     [Base EXCEPT !.backend = "cuda_graph", !.flashinfer = TRUE, !.mode = "compact"],
     [Base EXCEPT !.backend = "cuda_graph", !.vllm = TRUE,
                  !.max_num_seqs = 2]}

-----------------------------------------------------------------------------
(* A wide and a tall picture of one size, a square one, and a video.        *)
Wide == [name |-> "wide", grid |-> <<1, 2, 4>>]
Tall == [name |-> "tall", grid |-> <<1, 4, 2>>]
Square == [name |-> "square", grid |-> <<1, 4, 4>>]
Clip == [name |-> "clip", grid |-> <<2, 2, 2>>]

Album(media) ==
    [kind |-> "image", media |-> media,
     pieces |-> <<<<"text", 1>>>> \o [k \in 1 .. Len(media) |-> <<"image", media[k]>>]
                \o <<<<"text", 1>>>>]

Film == [kind |-> "video", media |-> <<Clip>>,
         pieces |-> <<<<"text", 1>>, <<"frame", Clip>>, <<"text", 1>>,
                      <<"frame", Clip>>, <<"text", 1>>>>]

Albums == {Album(<<Wide, Square>>), Album(<<Square, Tall>>), Film}

Plain == [cache |-> FALSE, cooperative |-> FALSE, limit |-> 0, graph |-> FALSE, ranks |-> 1]

VisionSettings ==
    {[Plain EXCEPT !.graph = TRUE],
     [Plain EXCEPT !.cache = TRUE, !.graph = TRUE, !.limit = 8],
     [Plain EXCEPT !.ranks = 2],
     [Plain EXCEPT !.cooperative = TRUE, !.limit = 8],
     [Plain EXCEPT !.cooperative = TRUE, !.limit = 8, !.cache = TRUE]}

VisionTaps == <<1, 2>>

-----------------------------------------------------------------------------
HalfInit ==
    /\ Init /\ VisionInit
    /\ half \in {"kv", "vision"}
    /\ half = "kv" => /\ setting = CHOOSE x \in Settings : TRUE
                      /\ \A s \in VisionSeqs : reqs[s].prompt.kind = "video"
    /\ half = "vision" => config = CHOOSE x \in Configs : TRUE

HalfNext ==
    \/ half = "kv" /\ Next /\ UNCHANGED <<half, visionVars>>
    \/ half = "vision" /\ VisionNext /\ UNCHANGED <<half, vars>>

HalfSpec == HalfInit /\ [][HalfNext]_<<half, vars, visionVars>>

Symmetry == Permutations({s1, s2})
==============================================================================
