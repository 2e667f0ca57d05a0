---------------------------- MODULE VisionEncoder ----------------------------
(***************************************************************************)
(* How the patches of a request's images or video become encoder rows:      *)
(* positions and rotary angles, attention segments, captured graphs         *)
(* (vision/vision_encoder.py), microbatches of frames (models/qwen3_vl.py)  *)
(* and whole images shared among the tensor-parallel ranks                  *)
(* (vision/data_parallel.py).                                               *)
(*                                                                          *)
(* An encoder row is named by what it was computed from: for each of its    *)
(* patches the position embedding and rotary coordinates it was given and   *)
(* the ends of the segment it attended to, and the blocks it went through.  *)
(* One row stands for the main and the DeepStack features of its token.  A  *)
(* row that was never computed has a name of its own, NotComputed.          *)
(***************************************************************************)
EXTENDS MultimodalPrompt
LOCAL INSTANCE SequencesExt
LOCAL INSTANCE FiniteSetsExt
LOCAL INSTANCE TLC

CONSTANTS
    MinGraphPatches,    \* MIN_VISION_TENSOR_CUDAGRAPH_PATCHES
    MaxGraphShapes,     \* MAX_VISION_TENSOR_CUDAGRAPH_SHAPES
    NumBlocks,          \* vision blocks
    DeepstackIndexes    \* deepstack_visual_indexes: blocks, in order

VARIABLE
    setting     \* cache, cooperative, microbatch limit, graphs, ranks

(* f of x, written so that TLC computes x once.                             *)
Once(f(_), x) == CHOOSE y \in {f(z) : z \in {x}} : TRUE

Taps == [k \in DOMAIN DeepstackIndexes |-> DeepstackIndexes[k]]

-----------------------------------------------------------------------------
(* rot_pos_emb: merge blocks of a frame, repeated for every frame.          *)
FrameCoords(h, w) ==
    FlattenSeq([br \in 1 .. h \div MergeSize |-> FlattenSeq([bc \in 1 .. w \div MergeSize |->
        FlattenSeq([r \in 1 .. MergeSize |-> [c \in 1 .. MergeSize |->
            <<(br - 1) * MergeSize + r - 1, (bc - 1) * MergeSize + c - 1>>]])])])

rot_pos_emb(grids) ==
    FlattenSeq([k \in 1 .. Len(grids) |->
        FlattenSeq([f \in 1 .. grids[k][1] |-> FrameCoords(grids[k][2], grids[k][3])])])

(* The cells of the interpolated position table, taken in merge order.      *)
pos_embed_interpolate(grids) ==
    FlattenSeq([k \in 1 .. Len(grids) |->
        LET w == grids[k][3]
            cells == [n \in 1 .. grids[k][2] * w |-> <<(n - 1) \div w, (n - 1) % w>>]
            order == FrameCoords(grids[k][2], w)
        IN  FlattenSeq([f \in 1 .. grids[k][1] |->
                [n \in 1 .. Len(order) |-> cells[order[n][1] * w + order[n][2] + 1]]])])

SegmentRanges(grids) ==
    LET lengths == FlattenSeq([k \in 1 .. Len(grids) |->
                        [f \in 1 .. grids[k][1] |-> grids[k][2] * grids[k][3]]])
    IN  [k \in 1 .. Len(lengths) |-> <<Sum(lengths, k - 1), Sum(lengths, k)>>]

prepare_tensor_region_inputs(px, grids) ==
    [x    |-> Zip(px, pos_embed_interpolate(grids)),
     cos  |-> rot_pos_emb(grids),
     segs |-> SegmentRanges(grids)]

AllBlocks == [b \in 1 .. NumBlocks |-> b]

(* What the n-th token of a picture should be fed with: the row computed    *)
(* from its own patches, their places, and its own frame.  Such a row is    *)
(* named <<picture, n>>; any other row goes by what it was computed from.   *)
DueRow(m, f, br, bc) ==
    LET corner == <<<<m, f, 0, 0>>, <<m, f, m.grid[2] - 1, m.grid[3] - 1>>>>
    IN  <<[o \in 1 .. Area |->
            LET at == <<br * MergeSize + ((o - 1) \div MergeSize), bc * MergeSize + ((o - 1) % MergeSize)>>
            IN  <<<< <<m, f, at[1], at[2]>>, at>>, at, corner[1], corner[2]>>],
          AllBlocks, Taps>>

NameOf(row, patch) ==
    LET m == patch[1]  br == patch[3] \div MergeSize  bc == patch[4] \div MergeSize
    IN  IF row # DueRow(m, patch[2], br, bc) THEN row
        ELSE <<m.name, (patch[2] * (m.grid[2] \div MergeSize) + br) * (m.grid[3] \div MergeSize) + bc + 1>>

Named(row) == Once(LAMBDA r : NameOf(r, r[1][1][1][1]), row)

SegmentOf(segs, i) == CHOOSE g \in Range(segs) : g[1] < i /\ i <= g[2]

(* Blocks attend inside a segment; the mergers join the patches of a block. *)
Merge(in, blocks, taps) ==
    [k \in 1 .. Len(in.x) \div Area |->
        Named(<<[o \in 1 .. Area |->
            LET i == (k - 1) * Area + o  g == SegmentOf(in.segs, i)
            IN  <<in.x[i], in.cos[i], in.x[g[1] + 1][1], in.x[g[2]][1]>>], blocks, taps>>)]

forward_tensor_region_eager(in) == Merge(in, AllBlocks, Taps)

(* A captured graph runs on its static inputs, which every replay           *)
(* overwrites; two pictures of one shape and other proportions share it.    *)
TensorKey(in) == <<Len(in.x), in.segs>>

Faulty_ReplayKeepsAngles(static, in) == [static EXCEPT !.x = in.x]

CopyIntoStatic(static, in) == [static EXCEPT !.x = in.x, !.cos = in.cos]

(* A row of memory that no kernel has written: it stands for whatever       *)
(* happens to be there, and is equal to no row that was computed.           *)
NotComputed == <<>>

Out(g, rows) == [graphs |-> g, rows |-> rows]

Eager(g, in) == Out(g, forward_tensor_region_eager(in))

(* Recording the kernels of a shape does not run them, and the results of   *)
(* the warm-up before it are dropped.  The static inputs and outputs are    *)
(* kept; the outputs are returned as they are, without a replay.            *)
Capture(g, in) ==
    Out((TensorKey(in) :> in) @@ g, [k \in 1 .. Len(in.x) \div Area |-> NotComputed])

Replayed(g, key, static) == Out([g EXCEPT ![key] = static], forward_tensor_region_eager(static))

forward_tensor_region(g, in) ==
    IF ~setting.graph \/ Len(in.x) < MinGraphPatches THEN Eager(g, in)
    ELSE IF TensorKey(in) \in DOMAIN g
    THEN Replayed(g, TensorKey(in), CopyIntoStatic(g[TensorKey(in)], in))
    ELSE IF Cardinality(DOMAIN g) >= MaxGraphShapes THEN Eager(g, in)
    ELSE Capture(g, in)

visual(g, px, grids) ==
    Once(LAMBDA in : forward_tensor_region(g, in), prepare_tensor_region_inputs(px, grids))

-----------------------------------------------------------------------------
(* Qwen3VLModel: microbatches of whole frames, and whole images shared      *)
(* among the tensor-parallel ranks.                                         *)

Frames(grids) ==
    FlattenSeq([k \in 1 .. Len(grids) |->
        [f \in 1 .. grids[k][1] |-> <<1, grids[k][2], grids[k][3]>>]])

plan_visual_microbatches(grids, limit) ==
    LET add(acc, frame) ==
            LET n == PatchCount(frame)  last == acc[Len(acc)]
            IN  IF acc # <<>> /\ last.to - last.from + n <= limit
                THEN [acc EXCEPT ![Len(acc)].to = @ + n, ![Len(acc)].grids = Append(@, frame)]
                ELSE LET from == IF acc = <<>> THEN 0 ELSE last.to
                     IN  Append(acc, [from |-> from, to |-> from + n, grids |-> <<frame>>])
    IN  FoldLeft(add, <<>>, Frames(grids))

Microbatches(px, grids) ==
    IF setting.limit = 0 \/ Len(px) <= setting.limit
    THEN << [from |-> 0, to |-> Len(px), grids |-> grids] >>
    ELSE plan_visual_microbatches(grids, setting.limit)

encode_visual_payload(g, px, grids) ==
    FoldLeft(LAMBDA acc, b :
                Once(LAMBDA r : Out(r.graphs, acc.rows \o r.rows),
                     visual(acc.graphs, SubSeq(px, b.from + 1, b.to), b.grids)),
             Out(g, <<>>), Microbatches(px, grids))

(* Largest image first to the least loaded rank; source order in a rank.    *)
assign_images_by_patch_count(counts, ranks) ==
    LET order == SetToSortSeq(DOMAIN counts, LAMBDA i, j :
                     counts[i] > counts[j] \/ (counts[i] = counts[j] /\ i < j))
        load(owner, r) == MapThenSumSet(LAMBDA i : counts[i], {j \in DOMAIN owner : owner[j] = r})
        give(owner, i) ==
            LET least == CHOOSE r \in 1 .. ranks : \A q \in 1 .. ranks :
                            \/ load(owner, r) < load(owner, q)
                            \/ load(owner, r) = load(owner, q) /\ r <= q
            IN  (i :> least) @@ owner
    IN  FoldLeft(give, <<>>, order)

(* Each rank encodes its images, every rank gathers the padded parts of all *)
(* and puts the rows of each image where the source order wants them.  The  *)
(* graphs are those of one rank: no setting explored has graphs and ranks.  *)
encode_images_data_parallel(g, px, grids) ==
    LET counts == [k \in 1 .. Len(grids) |-> PatchCount(grids[k])]
        owner  == assign_images_by_patch_count(counts, setting.ranks)
        ids(r) == SetToSortSeq({k \in DOMAIN owner : owner[k] = r}, <)
        part(r) == LET mine == ids(r) IN
            encode_visual_payload(g,
                FlattenSeq([j \in 1 .. Len(mine) |->
                    SubSeq(px, Sum(counts, mine[j] - 1) + 1, Sum(counts, mine[j]))]),
                [j \in 1 .. Len(mine) |-> grids[mine[j]]]).rows
        gathered == [r \in 1 .. setting.ranks |-> IF ids(r) = <<>> THEN <<>> ELSE part(r)]
        source(k) == MapThenSumSet(LAMBDA i : counts[i] \div Area,
                                   {i \in DOMAIN owner : owner[i] = owner[k] /\ i < k})
    IN  Out(g, FlattenSeq([k \in 1 .. Len(grids) |->
                   SubSeq(gathered[owner[k]], source(k) + 1, source(k) + counts[k] \div Area)]))

encode_images(g, px, grids) ==
    IF setting.ranks = 1 \/ Len(grids) = 1 THEN encode_visual_payload(g, px, grids)
    ELSE encode_images_data_parallel(g, px, grids)
=============================================================================
