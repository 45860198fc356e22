--------------------------- MODULE MCStreamEvents ---------------------------
(***************************************************************************)
(* Small instances of StreamEvents for TLC.                                *)
(***************************************************************************)
EXTENDS StreamEvents

CONSTANTS s1, s2, chainsub, requested, fulfilled, eth, nil

AllEvents  == StreamFilter({"EVENT_KIND_UNSPECIFIED"}, nil)
Requests   == StreamFilter({"EVENT_KIND_PRICE_REQUESTED"}, eth)
TwoFilters == {AllEvents, Requests}
OneFilter  == {AllEvents}

L(b, x, k) == [block |-> b, logIndex |-> x, kind |-> k, asset |-> eth]

(* Two logs share block 2, the boundary block of a replay from it.          *)
ShortChain == <<L(1, 7, requested), L(2, 0, fulfilled), L(2, 3, requested)>>
OnlyOrder == {<<3, 2, 1>>}

(* The third log took the place of the second in a reorganisation.          *)
TiedChain == <<L(2, 0, fulfilled), L(2, 3, requested), L(2, 3, requested)>>
TiedEitherWay == {<<3, 2, 1>>, <<2, 3, 1>>}
=============================================================================
