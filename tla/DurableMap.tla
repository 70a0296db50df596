------------------------------ MODULE DurableMap -----------------------------
(***************************************************************************)
(* What a small store promises its user: a map that is read and changed in *)
(* memory and saved whole.  A save that has been reported survives any     *)
(* loss of power; one that has not may leave what was saved before, the    *)
(* map, or nothing, but never a part of either.                            *)
(***************************************************************************)
CONSTANTS
  Keys, Vals,
  None,     \* the value of a key that is not stored
  Groups    \* sets of keys that are removed together

VARIABLES
  mem,      \* the map as it is read
  disk,     \* the map a boot can find
  up,       \* the store has been opened since power came
  done      \* the last save was reported as made

dmvars == <<mem, disk, up, done>>

Empty == [k \in Keys |-> None]

Init == mem = Empty /\ disk = Empty /\ up = FALSE /\ done = FALSE

\* A boot that cannot read starts with nothing.
Boot ==
  /\ ~up /\ up' = TRUE
  /\ UNCHANGED <<disk, done>>
  /\ mem' \in {disk, Empty}

Put(k) ==
  /\ up /\ done' = FALSE
  /\ UNCHANGED <<up, disk>>
  /\ mem'[k] \in Vals
  /\ mem' = [mem EXCEPT ![k] = mem'[k]]

Remove(g) ==
  /\ up /\ done' = FALSE
  /\ UNCHANGED <<up, disk>>
  /\ mem' = [k \in Keys |-> IF k \in g THEN None ELSE mem[k]]

Save ==
  /\ up /\ ~done /\ done' = TRUE
  /\ disk' = mem
  /\ UNCHANGED <<mem, up>>

\* A save under way, or one that fails, has nothing to show.
Wipe ==
  /\ up /\ ~done
  /\ UNCHANGED <<up, done, mem>>
  /\ disk' = Empty

PowerLoss ==
  /\ up /\ up' = FALSE /\ mem' = Empty
  /\ disk' = disk \/ (~done /\ disk' \in {mem, Empty})
  /\ UNCHANGED done

Next == \/ Boot \/ Save \/ PowerLoss \/ Wipe
        \/ \E k \in Keys : Put(k)
        \/ \E g \in Groups : Remove(g)

Spec == Init /\ [][Next]_dmvars
=============================================================================
