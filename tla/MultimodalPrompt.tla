-------------------------- MODULE MultimodalPrompt --------------------------
(***************************************************************************)
(* A prompt with images or a video, from the processor's output to the      *)
(* Sequence that carries it: its placeholder tokens, the spans of its       *)
(* images (engine/sequence.py), the M-RoPE position of every token          *)
(* (models/qwen3_vl_position.py) and the places where its prefill can be    *)
(* cut (engine/scheduler_policy.py, engine/block_manager.py).               *)
(*                                                                          *)
(* A prompt is a sequence of pieces: text of some length, an image, or one  *)
(* frame of a video behind its time stamp.  A picture is a record of its    *)
(* name and its grid <<frames, height, width>>, in patches.  Token indices  *)
(* are counted from 0, as in the code.                                      *)
(***************************************************************************)
EXTENDS Integers, Sequences, FiniteSets
LOCAL INSTANCE SequencesExt
LOCAL INSTANCE FiniteSetsExt

CONSTANTS
    MergeSize,          \* spatial_merge_size
    VisionPrompts       \* the prompts explored: kind, media and pieces

Area == MergeSize * MergeSize
Sum(f, n) == FoldLeft(LAMBDA acc, k : acc + f[k], 0, [k \in 1 .. n |-> k])

PatchCount(grid) == grid[1] * grid[2] * grid[3]
TokenCount(m) == PatchCount(m.grid) \div Area
Grids(media) == [k \in 1 .. Len(media) |-> media[k].grid]

(* The patches of a picture, named by frame and pixel row and column, in    *)
(* the order of the processor: merge blocks row by row.                     *)
Processed(m) ==
    LET h == m.grid[2]  w == m.grid[3]
        at(n) == LET b == (n % (h * w)) \div Area  o == n % Area
                 IN  <<m, n \div (h * w),
                       (b \div (w \div MergeSize)) * MergeSize + o \div MergeSize,
                       (b % (w \div MergeSize)) * MergeSize + (o % MergeSize)>>
    IN  [n \in 1 .. PatchCount(m.grid) |-> at(n - 1)]

Payload(media) == FlattenSeq([k \in 1 .. Len(media) |-> Processed(media[k])])

Pads(kind, n) == <<"start">> \o [k \in 1 .. n |-> kind]

TokensOf(p) ==
    FlattenSeq([k \in 1 .. Len(p.pieces) |->
        LET x == p.pieces[k]
        IN  IF x[1] = "text" THEN [j \in 1 .. x[2] |-> "text"]
            ELSE IF p.kind = "image" THEN Pads("image", TokenCount(x[2]))
            ELSE Pads("video", TokenCount(x[2]) \div x[2].grid[1])])

PadsOf(tokens) == {i \in 0 .. Len(tokens) - 1 : tokens[i + 1] \in {"image", "video"}}

-----------------------------------------------------------------------------
(* Where the images of a prompt are.                                        *)

NoSpans == << <<-1, -1>> >>

(* Per-image [start, end) spans, or none if a span is not contiguous or     *)
(* the counts disagree.                                                     *)
image_token_spans(p, pads) ==
    LET n == [k \in 1 .. Len(p.media) |-> TokenCount(p.media[k])]
        span(k) == <<pads[Sum(n, k - 1) + 1], pads[Sum(n, k)] + 1>>
    IN  IF p.kind # "image" \/ Sum(n, Len(n)) # Len(pads) THEN NoSpans
        ELSE IF \E k \in 1 .. Len(n) : span(k)[2] - span(k)[1] # n[k] THEN NoSpans
        ELSE [k \in 1 .. Len(n) |-> span(k)]

(* The images that a range takes in; it splits none of them.                *)
image_range_coverage(p, from, to) ==
    {k \in 1 .. Len(p.spans) : p.spans[k][1] < to /\ p.spans[k][2] > from}

split_image_payloads_for_range(p, from, to) ==
    LET covered == image_range_coverage(p, from, to)
    IN  SubSeq(p.media, Min(covered), Max(covered))

(* A prefix hit starts a slice at 0, behind a whole image or behind a whole *)
(* video; a chunk ends one before the first placeholder, behind the last or *)
(* with the prompt, so that the visual region is never cut.  Other places   *)
(* in the text are no different from these.                                 *)
HitStarts(pads, spans) ==
    {0, Max(pads) + 1} \cup (IF spans = NoSpans THEN {} ELSE {spans[k][2] : k \in 1 .. Len(spans)})

PrefillEnds(tokens, pads) == {Min(pads), Max(pads) + 1, Len(tokens)}

-----------------------------------------------------------------------------
(* M-RoPE positions: spans are taken in prompt order, a video one frame at  *)
(* a time.                                                                  *)

Merged(grid) == <<grid[1], grid[2] \div MergeSize, grid[3] \div MergeSize>>

VisualGrids(p) ==
    LET visual == SelectSeq(p.pieces, LAMBDA x : x[1] # "text")
    IN  [k \in 1 .. Len(visual) |->
            Merged(IF p.kind = "video" THEN [visual[k][2].grid EXCEPT ![1] = 1]
                   ELSE visual[k][2].grid)]

TextPositions(n, start) == [k \in 1 .. n |-> <<start + k - 1, start + k - 1, start + k - 1>>]

VisualPositions(grid, start) ==
    [k \in 1 .. PatchCount(grid) |->
        <<start + (k - 1) \div (grid[2] * grid[3]),
          start + (((k - 1) \div grid[3]) % grid[2]),
          start + ((k - 1) % grid[3])>>]

Behind(part) == Max(UNION {Range(x) : x \in Range(part)}) + 1

SpanPad(pads, at) == Min({i \in pads : i >= at.token})

(* Where the next span begins: its first token, and the position behind     *)
(* the part just appended.                                                  *)
Faulty_AfterSpan(pads, at, grid) ==
    LET pad == SpanPad(pads, at)
    IN  [token |-> pad + PatchCount(grid),
         start |-> at.start + pad - at.token + PatchCount(grid)]

AfterSpan(pads, at, grid) ==
    LET pad == SpanPad(pads, at)
    IN  [token |-> pad + PatchCount(grid),
         start |-> Behind(VisualPositions(grid, at.start + pad - at.token))]

get_qwen3_vl_rope_index(tokens, pads, grids) ==
    LET at[k \in 1 .. Len(grids) + 1] ==
            IF k = 1 THEN [token |-> 0, start |-> 0] ELSE AfterSpan(pads, at[k - 1], grids[k - 1])
        text(k) == SpanPad(pads, at[k]) - at[k].token
        rest == at[Len(grids) + 1]
    IN  FlattenSeq([k \in 1 .. Len(grids) |->
            TextPositions(text(k), at[k].start) \o VisualPositions(grids[k], at[k].start + text(k))])
        \o TextPositions(Len(tokens) - rest.token, rest.start)

-----------------------------------------------------------------------------
(* What the positions should be: text counts on by one, a picture spans its *)
(* own grid and moves what follows by its longest side.                     *)

DuePosition(pads, grids, i) ==
    LET size(k) == PatchCount(grids[k])
        first(k) == CHOOSE j \in pads : Cardinality({x \in pads : x < j})
                                            = MapThenSumSet(size, 1 .. k - 1)
        back(K) == MapThenSumSet(LAMBDA k : size(k) - Max(Range(grids[k])), K)
        inside == {k \in 1 .. Len(grids) : first(k) <= i /\ i < first(k) + size(k)}
        text   == i - back({k \in 1 .. Len(grids) : first(k) + size(k) <= i})
        in(k)  == LET cell == CHOOSE c \in (0 .. grids[k][1] - 1) \X (0 .. grids[k][2] - 1)
                                              \X (0 .. grids[k][3] - 1) :
                                  (c[1] * grids[k][2] + c[2]) * grids[k][3] + c[3] = i - first(k)
                      from == first(k) - back(1 .. k - 1)
                  IN  <<from + cell[1], from + cell[2], from + cell[3]>>
    IN  IF inside = {} THEN <<text, text, text>> ELSE in(CHOOSE k \in inside : TRUE)

(* The rows the placeholders of a prompt are due, in order.                 *)
DueRows(p) ==
    FlattenSeq([k \in 1 .. Len(p.media) |->
                    [n \in 1 .. TokenCount(p.media[k]) |-> <<p.media[k].name, n>>]])

-----------------------------------------------------------------------------
(* The Sequence made of a prompt, and beside it what the properties compare *)
(* it with: the rows due, and the tokens that are not at their position.    *)
WithTokens(p, tokens, pads) ==
    LET grids == VisualGrids(p)
        spans == image_token_spans(p, SetToSortSeq(pads, <))
        position_ids == get_qwen3_vl_rope_index(tokens, pads, grids)
    IN  [kind |-> p.kind, media |-> p.media, length |-> Len(tokens), pads |-> pads,
         grids |-> grids, spans |-> spans,
         hits |-> HitStarts(pads, spans), ends |-> PrefillEnds(tokens, pads),
         rope_delta |-> Behind(position_ids) - Len(tokens),
         due |-> DueRows(p),
         misplaced |-> {i \in 0 .. Len(tokens) - 1 :
                            position_ids[i + 1] # DuePosition(pads, grids, i)}]

prepare_image_sequence(p) == WithTokens(p, TokensOf(p), PadsOf(TokensOf(p)))

Submissions == {prepare_image_sequence(p) : p \in VisionPrompts}
=============================================================================
