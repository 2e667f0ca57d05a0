---------------------------- MODULE MCMediaCache ----------------------------
(* Instances of MediaCache: one or two media objects, several questions      *)
(* about them, in every request type.                                        *)
EXTENDS MediaCache

R(type, prompt, media) == [type |-> type, prompt |-> prompt, media |-> media]

Merges == {<<"V", ">">>, <<"a", "b">>, <<"b", "b">>}

(* A tokenizer that merges pairs from left to right, so that what a symbol   *)
(* becomes depends on its context.                                           *)
MergeTokenize(text) ==
    LET tok[i \in 1..(Len(text) + 2)] ==
            IF i > Len(text) THEN <<>>
            ELSE IF i < Len(text) /\ <<text[i], text[i + 1]>> \in Merges
                 THEN <<<<text[i], text[i + 1]>>>> \o tok[i + 2]
                 ELSE <<<<text[i]>>>> \o tok[i + 1]
    IN  tok[1]

MCSize == [c \in {"c1", "c2"} |-> IF c = "c1" THEN 1 ELSE 3]

(* Questions about an image, two images and a video.  The first three share  *)
(* a key; the second is the first without a merged pair.  The interleaved    *)
(* images are opaque.  One question about the video overlaps the template:   *)
(* ">>" is found once in its text, and not where the template put it.        *)
MixedReq ==
    [r1 |-> R("image", <<"b", "b", "b", "b", "b">>, <<"m1">>),
     r2 |-> R("images", <<"b", "b", "b">>, <<"m1">>),
     r3 |-> R("images", <<"b", "b", "b", "b", "b">>, <<"m1">>),
     r4 |-> R("interleaved_images", <<"b", "M", "a", "M">>, <<"m1", "m2">>),
     r5 |-> R("video", <<">", ">">>, <<"m1">>),
     r6 |-> R("video", <<"b">>, <<"m1">>)]

(* Bound: the requests of one group run together, the others stay new.       *)
Groups == {{"r1", "r2", "r3", "r4"}, {"r1", "r4", "r5", "r6"}}

OneGroup == \E g \in Groups : \A r \in Requests \ g : pc[r] = "new"
=============================================================================
