----------------------------- MODULE EventLedger -----------------------------
(***************************************************************************)
(* What the ingest pipeline promises the rest of the service, without      *)
(* connections, queues or a database: a growing table of events and the    *)
(* sequence of those announced.  An event is announced at most once, only  *)
(* right after it entered the table and before the next one does; it may   *)
(* also enter and never be announced.                                      *)
(***************************************************************************)
EXTENDS Naturals, Sequences

CONSTANT Events   (* the events, numbers from 1                            *)

VARIABLES
  rows,    (* the table                                                     *)
  ingest,  (* the event that is in the table and about to be announced, or 0 *)
  pubs     (* the announced events, in order                                *)

ledger == <<rows, ingest, pubs>>

LedgerInit ==
  /\ rows = {}
  /\ ingest = 0
  /\ pubs = <<>>

Enter(i) ==
  /\ ingest = 0
  /\ i \notin rows
  /\ rows' = rows \cup {i}
  /\ ingest' \in {0, i}
  /\ UNCHANGED pubs

Announce ==
  /\ ingest # 0
  /\ pubs' = Append(pubs, ingest)
  /\ ingest' = 0
  /\ UNCHANGED rows

Forget ==
  /\ ingest # 0
  /\ ingest' = 0
  /\ UNCHANGED <<rows, pubs>>

LedgerNext == (\E i \in Events : Enter(i)) \/ Announce \/ Forget

LedgerSpec == LedgerInit /\ [][LedgerNext]_ledger
=============================================================================
