----------------------------- MODULE MCChainSub -----------------------------
(***************************************************************************)
(* Small instances of ChainSub for TLC: two aggregators in the             *)
(* configuration, one that is registered on the chain.                     *)
(***************************************************************************)
EXTENDS ChainSub

CONSTANTS registry, weth, usdc, link, eth, usd, lnk, nil

TwoSeeds ==
  [a \in Address |-> CASE a = weth -> eth [] a = usdc -> usd [] OTHER -> nil]

L(f, k)   == [from |-> f, kind |-> k, agg |-> weth, asset |-> eth]
Ownable   == L(registry, "other")
AddLink   == [from |-> registry, kind |-> "registered", agg |-> link, asset |-> lnk]
Stray     == [AddLink EXCEPT !.from = weth]

MixedChain == <<L(weth, "requested"), AddLink, L(link, "requested"), Stray>>
ShortChain == <<Ownable, L(weth, "requested")>>
=============================================================================
