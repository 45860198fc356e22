------------------------------ MODULE EventFeed ------------------------------
(***************************************************************************)
(* What the hub promises a subscriber, with no hub in it: a feed of the    *)
(* events it wants, from the moment it joined, in order and without a gap, *)
(* until the feed is cut.  No promise is made about when an event arrives  *)
(* or about when, or why, a feed is cut; only that nothing is skipped and  *)
(* nothing arrives afterwards.                                             *)
(***************************************************************************)
EXTENDS Naturals, Sequences

CONSTANTS
  Subs,           (* subscriptions                                          *)
  Event,          (* events                                                 *)
  Wants(_, _)     (* whether a filter matches an event                      *)

VARIABLES
  log,      (* the events published so far                                  *)
  filter,   (* what each subscription asked for                             *)
  status,   (* of each subscription: "new", "live" or "cut"                 *)
  base,     (* Len(log) when the subscription joined                        *)
  view      (* the numbers of the events handed to the subscription         *)

feed == <<log, filter, status, base, view>>

FeedInit ==
  /\ log = <<>>
  /\ status = [s \in Subs |-> "new"]
  /\ base = [s \in Subs |-> 0]
  /\ view = [s \in Subs |-> {}]

Publish(e) ==
  /\ log' = Append(log, e)
  /\ UNCHANGED <<filter, status, base, view>>

Join(s) ==
  /\ status[s] = "new"
  /\ status' = [status EXCEPT ![s] = "live"]
  /\ base' = [base EXCEPT ![s] = Len(log)]
  /\ UNCHANGED <<log, filter, view>>

(* The next event the subscription wants and has not been handed.           *)
IsNext(s, i) ==
  /\ Wants(filter[s], log[i])
  /\ i \notin view[s]
  /\ \A j \in (base[s] + 1)..(i - 1) : Wants(filter[s], log[j]) => j \in view[s]

Hand(s) ==
  /\ status[s] = "live"
  /\ \E i \in (base[s] + 1)..Len(log) :
       /\ IsNext(s, i)
       /\ view' = [view EXCEPT ![s] = @ \cup {i}]
  /\ UNCHANGED <<log, filter, status, base>>

Cut(s) ==
  /\ status[s] = "live"
  /\ status' = [status EXCEPT ![s] = "cut"]
  /\ UNCHANGED <<log, filter, base, view>>

FeedNext ==
  \/ \E e \in Event : Publish(e)
  \/ \E s \in Subs : Join(s) \/ Hand(s) \/ Cut(s)

FeedSpec == FeedInit /\ [][FeedNext]_feed
=============================================================================
