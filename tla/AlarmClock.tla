----------------------------- MODULE AlarmClock ------------------------------
(***************************************************************************)
(* What the timers of the shims promise their callers: a timer is set,     *)
(* set anew or cancelled at any time, its function is called once it is    *)
(* due and never otherwise, one function at a time, and a timer that is    *)
(* called is due again later if it is periodic and else no longer set.     *)
(***************************************************************************)
EXTENDS Naturals

CONSTANT Timers

VARIABLES
  now,      \* the time
  due,      \* when each timer is due, 0 for never
  ringing   \* the function of a timer is being called

acvars == <<now, due, ringing>>

Init == now = 1 /\ due = [k \in Timers |-> 0] /\ ringing = FALSE

\* At most timer k changes.
Changes(k) == due' \in [Timers -> Nat] /\ \A j \in Timers \ {k} : due'[j] = due[j]

Set(k) ==
  /\ Changes(k) /\ due'[k] > now
  /\ UNCHANGED <<now, ringing>>

Cancel(k) ==
  /\ Changes(k) /\ due'[k] = 0
  /\ UNCHANGED <<now, ringing>>

\* A periodic timer is due again, be it in the past if a period was missed.
Ring(k) ==
  /\ ~ringing /\ ringing' = TRUE
  /\ due[k] # 0 /\ due[k] <= now
  /\ Changes(k) /\ (due'[k] = 0 \/ due'[k] > due[k])
  /\ UNCHANGED now

Return ==
  /\ ringing /\ ringing' = FALSE
  /\ UNCHANGED <<now, due>>

Tick ==
  /\ now' = now + 1
  /\ UNCHANGED <<due, ringing>>

Next == (\E k \in Timers : Set(k) \/ Cancel(k) \/ Ring(k)) \/ Return \/ Tick

Spec == Init /\ [][Next]_acvars
=============================================================================
