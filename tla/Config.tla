-------------------------------- MODULE Config --------------------------------
(***************************************************************************)
(* The configuration (config, cmd/root): defaults, environment, checks,    *)
(* and what the start makes of the asset list (internal/application.go,    *)
(* chainsub.New).  Nothing names a configuration file, so none is ever     *)
(* found, and there are no flags.                                          *)
(*                                                                         *)
(* A number in the environment is a text: [form, of], as in Records.  An   *)
(* address or a hash is one too, [shaped, upper, value, rest]: it has the  *)
(* 0x and the length that are checked, some letter is upper case, and, but *)
(* for the case of letters, it spells the value HexToAddress makes of it,  *)
(* and then the rest, from the first byte on that is not hexadecimal.      *)
(*                                                                         *)
(* SpelledKey is used nowhere: it is a faulty variant of AggregatorKey.    *)
(***************************************************************************)
EXTENDS Integers, SequencesExt

CONSTANTS
  DefaultAssets,     (* the deployed set: [id, aggregator]                  *)
  DefaultRegistry

Nil    == <<>>
Dec(n) == [form |-> "dec", of |-> n]
Empty  == [form |-> "empty"]
Bad    == [form |-> "bad"]

(* The form of an asset list: []AssetConfig.                                *)
IsText(t) ==
  /\ t = [shaped |-> t.shaped, upper |-> t.upper, value |-> t.value, rest |-> t.rest]
  /\ t.shaped \in BOOLEAN

IsAssetList(list) ==
  /\ Len(list) \in Nat
  /\ DOMAIN list = 1..Len(list)
  /\ \A i \in DOMAIN list : IsText(list[i].id) /\ IsText(list[i].aggregator)

-----------------------------------------------------------------------------
(* setDefaults.                                                             *)

TextDefaults ==
  [env |-> "prod", db_driver |-> "postgres", db_host |-> "localhost",
   db_ssl_mode |-> "disable", db_user |-> "indexer_user", db_password |-> "",
   db_name |-> "evm_indexer", grpc_host |-> "0.0.0.0", grpc_timeout |-> "30s",
   healthz_host |-> "0.0.0.0", chain_name |-> "ethereum-sepolia", ws_url |-> "",
   registry |-> DefaultRegistry, log_level |-> "info", log_format |-> "json",
   grpc_reflection |-> "true"]

NumberDefaults ==
  [db_port |-> 5432, db_max_open_conns |-> 25, db_max_idle_conns |-> 5,
   db_conn_max_lifetime |-> 300, grpc_port |-> 9090,
   grpc_max_send_msg_size |-> 60 * 1024 * 1024,
   grpc_max_recv_msg_size |-> 60 * 1024 * 1024, grpc_num_stream_workers |-> 0,
   healthz_port |-> 8080, chain_id |-> 11155111, subscriber_buffer |-> 256]

BoolTexts == {"", "1", "t", "T", "true", "TRUE", "True",
              "0", "f", "F", "false", "FALSE", "False"}

UnsignedKeys == {"chain_id", "grpc_num_stream_workers"}

-----------------------------------------------------------------------------
(* initializeConfig.  The environment is a function of the keys it sets;    *)
(* a variable that is set to "" counts (AllowEmptyEnv).                     *)

(* viper decodes weakly: "" is zero.                                        *)
Number(k, text) ==
  CASE text = Empty -> <<0>>
    [] text.form = "dec" /\ (k \in UnsignedKeys => text.of >= 0) -> <<text.of>>
    [] OTHER -> Nil

(* Defaults under environment, as a scheme; nil is the error.               *)
Unmarshal(environ) ==
  LET text   == [k \in DOMAIN TextDefaults |->
                   IF k \in DOMAIN environ THEN environ[k] ELSE TextDefaults[k]]
      number == [k \in DOMAIN NumberDefaults |->
                   IF k \in DOMAIN environ THEN Number(k, environ[k])
                   ELSE <<NumberDefaults[k]>>]
  IN  IF \/ text.grpc_reflection \notin BoolTexts
         \/ \E k \in DOMAIN number : number[k] = Nil
      THEN Nil
      ELSE <<[text |-> text, number |-> [k \in DOMAIN number |-> number[k][1]],
              assets |-> <<>>]>>

(* INDEXER_ASSETS replaces the list, an empty one included; "" does not.    *)
ApplyEnvOverrides(scheme, list) ==
  CASE list = Empty ->
         <<[scheme EXCEPT !.assets = IF @ = <<>> THEN DefaultAssets ELSE @]>>
    [] list.form = "list" -> <<[scheme EXCEPT !.assets = list.of]>>
    [] OTHER -> Nil

InitializeConfig(environ, list) ==
  LET scheme == Unmarshal(environ)
  IN  IF scheme = Nil THEN Nil ELSE ApplyEnvOverrides(scheme[1], list)

-----------------------------------------------------------------------------
(* Validate                                                                 *)

(* The digits are not looked at.                                            *)
IsHex(text)   == text.shaped
ToLower(text) == [text EXCEPT !.upper = FALSE]

SpelledKey(a) == a.aggregator

AggregatorKey(a) == ToLower(a.aggregator)

(* The second and later entries of one aggregator.                          *)
Repeated(assets) ==
  {i \in DOMAIN assets :
     /\ IsHex(assets[i].aggregator)
     /\ \E j \in 1..(i - 1) :
          /\ IsHex(assets[j].aggregator)
          /\ AggregatorKey(assets[j]) = AggregatorKey(assets[i])}

(* Every complaint, in one pass.  No block of the configuration is missing, *)
(* since every one has a default.                                           *)
Complaints(scheme) ==
  LET listed == scheme.assets
  IN  {k \in {"db_password", "db_name", "ws_url"} : scheme.text[k] = ""}
      \cup {k \in {"registry"} : ~IsHex(scheme.text[k])}
      \cup {k \in {"chain_id"} : scheme.number[k] = 0}
      \cup {k \in {"subscriber_buffer"} : scheme.number[k] <= 0}
      \cup {k \in {"assets"} : listed = <<>>}
      \cup {<<"asset_id", i>> : i \in {j \in DOMAIN listed : ~IsHex(listed[j].id)}}
      \cup {<<"aggregator", i>> : i \in {j \in DOMAIN listed : ~IsHex(listed[j].aggregator)}}
      \cup {<<"repeated", i>> : i \in Repeated(listed)}

-----------------------------------------------------------------------------
(* What the start makes of the list.                                        *)

(* HexToHash, HexToAddress: the bytes before the first that is not one, for *)
(* the error of the decoder is ignored.                                     *)
FromHex(text) == text.value

ParseEntry(entry) ==
  [asset |-> FromHex(entry.id), aggregator |-> FromHex(entry.aggregator)]

ParseAssets(listed) == [i \in DOMAIN listed |-> ParseEntry(listed[i])]

(* chainsub.New: the last entry of an aggregator wins.                      *)
Mapping(assets) ==
  [g \in {a.aggregator : a \in ToSet(assets)} |->
     assets[SelectLastInSeq(assets, LAMBDA a : a.aggregator = g)].asset]

(* Two of the settings have no default that would do; the rest do.          *)
ASSUME ConfigAssumption ==
  Complaints(InitializeConfig(<<>>, Empty)[1]) = {"db_password", "ws_url"}

ASSUME DefaultsAssumption == IsAssetList(DefaultAssets)
=============================================================================
