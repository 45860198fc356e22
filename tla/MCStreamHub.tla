---------------------------- MODULE MCStreamHub ----------------------------
(***************************************************************************)
(* Small instances of StreamHub for TLC.                                   *)
(***************************************************************************)
EXTENDS StreamHub, TLC

CONSTANTS s1, s2, s3, p1, p2, requested, fulfilled, eth, btc, nil

Symmetric == Permutations(Subs)

(* A client that wants everything and one that wants one kind of one asset. *)
AllEvents    == [kinds |-> {}, asset |-> nil]
RequestedEth == [kinds |-> {requested}, asset |-> eth]
TwoFilters   == {AllEvents, RequestedEth}
OneFilter    == {AllEvents}

(* Clients that want one asset, of whatever kind.                           *)
OneAsset == {[kinds |-> {}, asset |-> eth]}
=============================================================================
