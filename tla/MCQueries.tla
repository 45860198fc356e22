------------------------------ MODULE MCQueries ------------------------------
(***************************************************************************)
(* Small instances of Queries for TLC.  Two aggregators count their own    *)
(* requests, so both have a request 1; request 2 is of one aggregator.     *)
(* The two bootstrap rows share their key.  One asset is the zero hash,    *)
(* which the configuration may name.                                       *)
(***************************************************************************)
EXTENDS Queries

CONSTANTS weth, link, eth, alice, zero

Log(b, x, contract, r, p) ==
  [address |-> contract, tx |-> <<"tx", b, x>>, blockHash |-> <<"block", b>>,
   block |-> b, index |-> x, req |-> r, requester |-> alice, price |-> p,
   timestamp |-> b]

Seed(a, g)               == NewAssetRegisteredSeed(a, g, 500)
Requested(b, x, c, r, a) == PriceRequested(Log(b, x, c, r, 0), a, b * 1000 + 999)
Fulfilled(b, x, c, r, a, p) == PriceFulfilled(Log(b, x, c, r, p), a, b * 1000 + 1)

TwoAggregators ==
  <<Seed(eth, weth), Seed(zero, link),
    Requested(2, 0, weth, 1, eth), Fulfilled(2, 1, weth, 1, eth, -3),
    Requested(3, 0, link, 1, zero), Requested(4, 0, weth, 2, eth),
    Fulfilled(5, 0, weth, 2, eth, 0)>>

SeedsEitherWay == {<<7, 6, 5, 4, 3, 2, 1>>, <<7, 6, 5, 4, 3, 1, 2>>}

OneRequest == <<Requested(2, 0, weth, 1, eth), Fulfilled(3, 0, weth, 1, eth, 7)>>

NewestFirst == {<<2, 1>>}

SomeKinds == {"EVENT_KIND_PRICE_REQUESTED", "EVENT_KIND_UNSPECIFIED"}

(* With -8 the fourth page has the offset 8: the product overflows.         *)
SizesAround == {-8, 0, 1, 3, 5}

AllBlocksAndSome == {<<0, 0>>, <<2, 4>>}
=============================================================================
