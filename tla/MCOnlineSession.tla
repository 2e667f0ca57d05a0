--------------------------- MODULE MCOnlineSession ---------------------------
(* Instances of OnlineSession: texts and media requests that arrive close    *)
(* together, some of them cancelled while they are prepared or served.       *)
EXTENDS OnlineSession

L(media, arrival, cancel, tokens) ==
    [media |-> media, arrival |-> arrival, cancel |-> cancel, tokens |-> tokens]

MCNoCancel == 99

MixedLoad == <<L(FALSE, 0, MCNoCancel, 2), L(TRUE, 0, 2, 1), L(TRUE, 1, MCNoCancel, 1)>>
=============================================================================
