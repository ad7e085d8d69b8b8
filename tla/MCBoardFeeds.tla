---------------------------- MODULE MCBoardFeeds ----------------------------
(* Finite instances of BoardFeeds for TLC. *)
EXTENDS BoardFeeds, TLC

CONSTANTS a, b

(* Changes of tasks that no event will tell.                                *)
Silent ==
  {t \in 2..clock : feed \in Tasks /\ event[t] = None /\ pending[t] = None
                    /\ \A i \in Item : open[i] # t}

(* A page is followed until the first race, and the second of the changes   *)
(* without an event and the items that fall out.                            *)
UntilRace == ~spoiled /\ Cardinality(Silent) + Cardinality(fallen) <= 1
=============================================================================
