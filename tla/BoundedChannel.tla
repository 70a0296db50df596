--------------------------- MODULE BoundedChannel ---------------------------
(***************************************************************************)
(* What a queue of the shim promises its users: it holds a bounded number  *)
(* of items, each accepted item is received once, and none disappears.     *)
(* The order of items of different senders is left open.                   *)
(***************************************************************************)
EXTENDS Naturals, FiniteSets

CONSTANTS Items, Capacity

VARIABLES
  chan,       \* accepted items nobody has received
  got         \* received items

chvars == <<chan, got>>

Init == chan = {} /\ got = {}

Put(m) ==
  /\ m \notin chan \cup got
  /\ Cardinality(chan) < Capacity
  /\ chan' = chan \cup {m}
  /\ UNCHANGED got

Get(m) ==
  /\ m \in chan
  /\ chan' = chan \ {m}
  /\ got' = got \cup {m}

Next == \E m \in Items : Put(m) \/ Get(m)

Spec == Init /\ [][Next]_chvars
=============================================================================
