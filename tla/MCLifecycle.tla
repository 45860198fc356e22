----------------------------- MODULE MCLifecycle -----------------------------
(***************************************************************************)
(* A small instance of Lifecycle for TLC: two calls, so that one can hold  *)
(* up the shutdown while the other is served; three environments a process *)
(* can serve in, one of them with addresses that are none, and some it     *)
(* cannot.                                                                 *)
(***************************************************************************)
EXTENDS Lifecycle

CONSTANTS c1, c2, weth, link, eth, lnk, registry

TwoCalls == {c1, c2}

Text(value, upper, rest) ==
  [shaped |-> TRUE, upper |-> upper, value |-> value, rest |-> rest]

Spelled(value, upper) == Text(value, upper, Nil)
Entry(id, aggregator) == [id |-> Spelled(id, FALSE), aggregator |-> aggregator]
Shapeless == [Spelled(weth, FALSE) EXCEPT !.shaped = FALSE]

Deployed        == <<Entry(eth, Spelled(weth, FALSE)), Entry(lnk, Spelled(link, FALSE))>>
RegistryAddress == Spelled(registry, FALSE)

List(entries) == [form |-> "list", of |-> entries]
Secrets       == [db_password |-> "secret", ws_url |-> "wss"]

Served ==
  {[vars |-> Secrets, assets |-> Empty],
   [vars |-> Secrets, assets |-> List(<<Entry(lnk, Spelled(weth, TRUE))>>)],
   [vars |-> Secrets, assets |-> List(<<Entry(eth, Text(weth, FALSE, <<"zz">>)),
                                        Entry(lnk, Text(weth, TRUE, <<"yy">>)),
                                        Entry(eth, Spelled(link, FALSE))>>)]}

Refused ==
  {[vars |-> Secrets, assets |-> List(list)] :
     list \in {<<>>,
               <<Entry(eth, Spelled(weth, FALSE)), Entry(lnk, Spelled(weth, TRUE))>>,
               <<Entry(eth, Shapeless), Entry(lnk, Shapeless)>>}}
  \cup {[vars |-> Secrets, assets |-> Bad],
        [vars |-> [ws_url |-> "wss"], assets |-> Empty],
        [vars |-> [k \in DOMAIN Secrets \cup {"subscriber_buffer"} |->
                     IF k = "subscriber_buffer" THEN Empty ELSE Secrets[k]],
         assets |-> Empty],
        [vars |-> [k \in DOMAIN Secrets \cup {"chain_id"} |->
                     IF k = "chain_id" THEN Dec(-1) ELSE Secrets[k]],
         assets |-> Empty]}

AnyEnvironment == Served \cup Refused
=============================================================================
