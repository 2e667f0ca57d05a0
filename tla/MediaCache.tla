----------------------------- MODULE MediaCache -----------------------------
(* The engine-owned cache of processed media: MediaPreprocessingCache and    *)
(* its callers in LLMEngine, with the prompt templates of vl_inputs.         *)
(*                                                                           *)
(* Preparation threads fingerprint the media, look the result up under the   *)
(* lock, rebind or process outside it and publish under it.  A text is a     *)
(* sequence of symbols and a token a run of them; the tokenizer is any       *)
(* operator from texts to tokens.  "S" stands for vision_start, "P" and "Q"  *)
(* for the image and video placeholders, <<"V", ">">> for vision_end, "M"    *)
(* for image_marker, <<"E", "a">> for the closing template.                  *)
EXTENDS Naturals, Sequences, SequencesExt, FiniteSetsExt, Deques

CONSTANTS
    Requests,       \* the preparations, each on a thread of its own
    Req,            \* request -> [type, prompt, media]
    Media,          \* the media objects a request may name
    Opaque,         \* those whose content the fingerprint does not support
    Contents,       \* what a media object may hold
    Size,           \* content -> number of visual tokens
    Tokenize(_),    \* the tokenizer
    MaxEntries      \* max_entries

VARIABLES
    content,        \* media object -> what it holds now
    entries,        \* _entries, oldest first: <<[key, entry]>>
    pc,             \* where the thread of each request stands
    key,            \* its cache key, NoKey when a medium is opaque
    cached,         \* the entry it found, NoEntry for a miss
    result          \* what prepare returns, NoEntry before

vars == <<content, entries, pc, key, cached, result>>

NoKey == <<"opaque">>
NoEntry == [prompt |-> <<"absent">>]

-----------------------------------------------------------------------------
(* Prompts and tokens *)

RequestType(r) == IF Req[r].type = "image" THEN "images" ELSE Req[r].type

Held(r) == [i \in DOMAIN Req[r].media |-> content[Req[r].media[i]]]

VisualToken(type) == IF type = "video" THEN "Q" ELSE "P"

Visual(type) == <<"S", VisualToken(type), "V", ">">>

Markers(prompt) == Cardinality({i \in DOMAIN prompt : prompt[i] = "M"})

(* build_interleaved_image_prompt puts one image where each marker stands.   *)
PlaceAtMarkers(prompt) ==
    FlattenSeq([i \in DOMAIN prompt |->
        IF prompt[i] = "M" THEN Visual("images") ELSE <<prompt[i]>>])

(* The chat template: all images, or the video, come before the question.    *)
PromptText(type, prompt, n) ==
    (IF type = "interleaved_images"
     THEN PlaceAtMarkers(prompt)
     ELSE FlattenSeq([i \in 1..n |-> Visual(type)]) \o prompt) \o <<"E", "a">>

Count(ids, token) == Cardinality({i \in DOMAIN ids : ids[i] = token})

(* The processor repeats the k-th placeholder once per token of image k.     *)
Expand(ids, token, held) ==
    FlattenSeq([i \in DOMAIN ids |->
        IF ids[i] = token
        THEN [j \in 1..Size[held[Count(SubSeq(ids, 1, i), token)]] |-> token]
        ELSE <<ids[i]>>])

(* A video is one visual object, whatever its number of frames.              *)
Objects(type, held) == IF type = "video" THEN 1 ELSE Len(held)

(* process_inputs raises on an empty list, on markers that do not match the  *)
(* images, and on placeholders that do not: validate_image_inputs counts     *)
(* them after the expansion.                                                 *)
ProcessFails(type, prompt, held) ==
    \/ held = <<>>
    \/ type = "interleaved_images" /\ Markers(prompt) # Len(held)
    \/ Count(Tokenize(PromptText(type, prompt, Objects(type, held))),
             <<VisualToken(type)>>) # Objects(type, held)

ASSUME MediaAssumption ==
    /\ MaxEntries \in Nat \ {0}
    /\ Opaque \subseteq Media
    /\ Size \in [Contents -> Nat \ {0}]
    /\ \A r \in Requests :
          /\ Req[r].type \in {"image", "images", "interleaved_images", "video"}
          /\ Req[r].prompt \in Seq(STRING)
          /\ Req[r].media \in Seq(Media)

Inputs(type, prompt, held) ==
    [text   |-> PromptText(type, prompt, Objects(type, held)),
     token  |-> <<VisualToken(type)>>,
     pixels |-> held,
     ids    |-> Expand(Tokenize(PromptText(type, prompt, Objects(type, held))),
                       <<VisualToken(type)>>, held)]

(* _visual_embedding_fingerprint: image aliases share one identity.          *)
Identity(type, held) == <<IF type = "video" THEN "video" ELSE "images", held>>

PerImageHashes(type, held) ==
    IF type = "video" THEN <<"none">> ELSE [i \in DOMAIN held |-> <<held[i]>>]

(* The branch of prepare that calls process_inputs.                          *)
Process(type, prompt, held) ==
    [prompt |-> prompt, inputs |-> Inputs(type, prompt, held),
     fingerprint |-> Identity(type, held),
     hashes |-> PerImageHashes(type, held)]

-----------------------------------------------------------------------------
(* _rebind_cached_media_prompt *)

Occurs(text, part, i) ==
    /\ i + Len(part) - 1 <= Len(text)
    /\ SubSeq(text, i, i + Len(part) - 1) = part

(* str.count: occurrences that do not overlap, from the left.                *)
CountText(text, part) ==
    LET cnt[i \in 1..(Len(text) + Len(part) + 1)] ==
            IF i > Len(text) THEN 0
            ELSE IF Occurs(text, part, i) THEN 1 + cnt[i + Len(part)]
            ELSE cnt[i + 1]
    IN  IF part = <<>> THEN Len(text) + 1 ELSE cnt[1]

(* str.replace(old, new, 1) *)
ReplaceText(text, old, new) ==
    LET at == Min({i \in 1..(Len(text) + 1) : Occurs(text, old, i)})
    IN  SubSeq(text, 1, at - 1) \o new
            \o SubSeq(text, at + Len(old), Len(text))

CommonPrefix(old, new) ==
    Max({n \in 0..Min({Len(old), Len(new)}) :
            SubSeq(old, 1, n) = SubSeq(new, 1, n)})

LastTokens(ids, n) == SubSeq(ids, Len(ids) - n + 1, Len(ids))

(* A mutated form of CommonSuffix: it may overlap the common prefix.         *)
Faulty_CommonSuffix(old, new, prefix) ==
    Max({n \in 0..Min({Len(old), Len(new)}) :
            LastTokens(old, n) = LastTokens(new, n)})

CommonSuffix(old, new, prefix) ==
    Max({n \in 0..(Min({Len(old), Len(new)}) - prefix) :
            LastTokens(old, n) = LastTokens(new, n)})

LastPlaceholder(ids, token) == Max({0} \cup {i \in DOMAIN ids : ids[i] = token})

(* The tokens after the rebinding; prefix and suffix are the numbers of      *)
(* template tokens the two prompts share at the ends.                        *)
RebindIds(ids, old, new, prefix, suffix) ==
    SubSeq(ids, 1, prefix + Len(ids) - Len(old))
        \o SubSeq(new, prefix + 1, Len(new) - suffix)
        \o LastTokens(ids, suffix)

Rebindable(ids, old, new, token, prefix, suffix) ==
    /\ LastPlaceholder(old, token) \in 1..prefix
    /\ prefix + Len(ids) - Len(old) \in 0..(Len(ids) - suffix)
    /\ LastTokens(ids, suffix) = LastTokens(old, suffix)
    /\ Count(RebindIds(ids, old, new, prefix, suffix), token) = Count(ids, token)

(* All ways to retain the media of the entry: one, or none.                  *)
RebindTokens(entry, prompt, text, old, new) ==
    LET prefix == CommonPrefix(old, new)
        suffix == CommonSuffix(old, new, prefix)
    IN  IF Rebindable(entry.inputs.ids, old, new, entry.inputs.token, prefix, suffix)
        THEN {[entry EXCEPT !.prompt = prompt, !.inputs.text = text,
                            !.inputs.ids = RebindIds(@, old, new, prefix, suffix)]}
        ELSE {}

Rebind(entry, prompt) ==
    IF CountText(entry.inputs.text, entry.prompt) # 1
    THEN {}
    ELSE RebindTokens(entry, prompt,
            ReplaceText(entry.inputs.text, entry.prompt, prompt),
            Tokenize(entry.inputs.text),
            Tokenize(ReplaceText(entry.inputs.text, entry.prompt, prompt)))

(* A question that its text holds once is where the template put it, not an  *)
(* overlap of the template with its own first symbols: the code counts the   *)
(* question in the text and trusts that the one place it finds is this one.  *)
InPlace(r) ==
    LET prompt == Req[r].prompt
        text == PromptText(RequestType(r), prompt, Objects(RequestType(r), Req[r].media))
    IN  RequestType(r) # "interleaved_images" /\ CountText(text, prompt) = 1 =>
            \A i \in 1..(Len(text) - Len(prompt) - 2) : ~Occurs(text, prompt, i)

(* So it is with every question that may be asked under the key of held.     *)
QuestionsInPlace(type, held) ==
    \A r \in Requests :
        RequestType(r) = type /\ Len(Req[r].media) = Len(held) => InPlace(r)

-----------------------------------------------------------------------------
(* The cache *)

Find(k) == {i \in DOMAIN entries : entries[i].key = k}

(* Assignment to a key replaces what is there and moves it to the end.       *)
Others(k) ==
    IF Find(k) = {} THEN entries
    ELSE Without(entries, entries[CHOOSE i \in Find(k) : TRUE])

(* The oldest entries over the limit go.                                     *)
Insert(k, entry) ==
    LET new == Append(Others(k), [key |-> k, entry |-> entry])
    IN  IF Len(new) > MaxEntries
        THEN LastTokens(new, MaxEntries)
        ELSE new

Init ==
    /\ content \in [Media -> Contents]
    /\ entries = <<>>
    /\ pc = [r \in Requests |-> "new"]
    /\ key = [r \in Requests |-> NoKey]
    /\ cached = [r \in Requests |-> NoEntry]
    /\ result = [r \in Requests |-> NoEntry]

(* _content_fingerprint over every medium; an opaque one means no key.       *)
Fingerprint(r) ==
    /\ pc[r] = "new"
    /\ key' = [key EXCEPT ![r] =
            IF ToSet(Req[r].media) \cap Opaque # {}
            THEN NoKey ELSE <<RequestType(r), Held(r)>>]
    /\ pc' = [pc EXCEPT ![r] = "keyed"]
    /\ UNCHANGED <<content, entries, cached, result>>

LookupMiss(r) ==
    /\ pc[r] = "keyed"
    /\ Find(key[r]) = {}
    /\ pc' = [pc EXCEPT ![r] = "missed"]
    /\ UNCHANGED <<content, entries, key, cached, result>>

LookupHit(r) ==
    /\ pc[r] = "keyed"
    /\ \E i \in Find(key[r]) :
          /\ entries' = Append(Others(key[r]), entries[i])
          /\ cached' = [cached EXCEPT ![r] = entries[i].entry]
          /\ IF entries[i].entry.prompt = Req[r].prompt
             THEN /\ result' = [result EXCEPT ![r] = entries[i].entry]
                  /\ pc' = [pc EXCEPT ![r] = "done"]
             ELSE /\ pc' = [pc EXCEPT ![r] = "found"]
                  /\ UNCHANGED result
    /\ UNCHANGED <<content, key>>

(* Outside the lock: the entry found is reused for the new prompt ...        *)
RebindPrompt(r) ==
    /\ pc[r] = "found"
    /\ \E e \in Rebind(cached[r], Req[r].prompt) :
          result' = [result EXCEPT ![r] = e]
    /\ pc' = [pc EXCEPT ![r] = "made"]
    /\ UNCHANGED <<content, entries, key, cached>>

MustProcess(r) ==
    \/ pc[r] = "missed"
    \/ pc[r] = "found" /\ Rebind(cached[r], Req[r].prompt) = {}

(* ... or the media are read again and processed.                            *)
ProcessMedia(r) ==
    /\ MustProcess(r)
    /\ ~ProcessFails(RequestType(r), Req[r].prompt, Held(r))
    /\ result' = [result EXCEPT ![r] = Process(RequestType(r), Req[r].prompt, Held(r))]
    /\ pc' = [pc EXCEPT ![r] = "made"]
    /\ UNCHANGED <<content, entries, key, cached>>

(* The external processor may reject any media, so a failure is always       *)
(* possible; prepare then raises and publishes nothing.                      *)
ProcessRaises(r) ==
    /\ MustProcess(r)
    /\ pc' = [pc EXCEPT ![r] = "failed"]
    /\ UNCHANGED <<content, entries, key, cached, result>>

Publish(r) ==
    /\ pc[r] = "made"
    /\ entries' = IF key[r] = NoKey THEN entries ELSE Insert(key[r], result[r])
    /\ pc' = [pc EXCEPT ![r] = "done"]
    /\ UNCHANGED <<content, key, cached, result>>

(* clear, called when the engine exits                                       *)
Clear ==
    /\ entries # <<>>
    /\ entries' = <<>>
    /\ UNCHANGED <<content, pc, key, cached, result>>

(* The caller owns its arrays and files, and changes them between requests:  *)
(* prepare reads a medium twice and relies on its standing still.            *)
Mutate(m) ==
    /\ \A r \in Requests :
          m \in ToSet(Req[r].media) => pc[r] \in {"new", "done", "failed"}
    /\ \E c \in Contents \ {content[m]} : content' = [content EXCEPT ![m] = c]
    /\ UNCHANGED <<entries, pc, key, cached, result>>

Next ==
    \/ \E r \in Requests :
          \/ Fingerprint(r) \/ LookupMiss(r) \/ LookupHit(r)
          \/ RebindPrompt(r) \/ ProcessMedia(r) \/ ProcessRaises(r)
          \/ Publish(r)
    \/ Clear
    \/ \E m \in Media : Mutate(m)

Spec == Init /\ [][Next]_vars

-----------------------------------------------------------------------------
(* Properties *)

(* An entry made for a prompt about some media: their pixels and identities, *)
(* and tokens that are those of its text with every placeholder expanded for *)
(* its medium, as processing that text would give.  The text is that of the  *)
(* prompt, unless a rebinding met a question that overlaps the template.     *)
Exact(entry, type, prompt, held) ==
    /\ entry.prompt = prompt
    /\ entry.inputs.pixels = held /\ entry.inputs.token = <<VisualToken(type)>>
    /\ entry.fingerprint = Identity(type, held)
    /\ entry.hashes = PerImageHashes(type, held)
    /\ Count(Tokenize(entry.inputs.text), entry.inputs.token) = Objects(type, held)
    /\ entry.inputs.ids = Expand(Tokenize(entry.inputs.text), entry.inputs.token, held)
    /\ QuestionsInPlace(type, held) => entry = Process(type, prompt, held)

(* What the cache holds under a key was made for the media of that key       *)
(* ("Reusable processor output for one exact media-content fingerprint"),    *)
(* once per key and at most max_entries of them.                             *)
EntriesHoldTheirContent ==
    /\ Len(entries) <= MaxEntries
    /\ \A i, j \in DOMAIN entries : entries[i].key = entries[j].key => i = j
    /\ \A i \in DOMAIN entries :
          Exact(entries[i].entry, entries[i].key[1], entries[i].entry.prompt, entries[i].key[2])

(* The content a request was prepared from, as far as it is still known.     *)
ReadBy(r) ==
    IF key[r] # NoKey THEN key[r][2]
    ELSE IF pc[r] = "made" THEN Held(r) ELSE result[r].inputs.pixels

(* Hit, rebound, processed after a lost race, or opaque: a request gets the  *)
(* tokens, media and identities that processing it alone would give; if its  *)
(* key has met a question that overlaps the template, possibly those of      *)
(* another text, but never tokens that disagree with its text and media.     *)
ResultsExact ==
    /\ EntriesHoldTheirContent
    /\ \A r \in Requests : pc[r] \in {"made", "done"} =>
          Exact(result[r], RequestType(r), Req[r].prompt, ReadBy(r))
=============================================================================
