----------------------------- MODULE Exclusive -----------------------------
(***************************************************************************)
(* What the controller promises about devices, and nothing about how: a    *)
(* device has at most one holder, a job holds a device at most once in its *)
(* life, and a holder only changes by first being let go.  "A lease is the *)
(* whole device."  Store implements this specification.                    *)
(***************************************************************************)
CONSTANTS Device, Job, None

VARIABLES
  holder,   \* the job each device is leased to, or None
  spent     \* the jobs that have had their one grant

vars == <<holder, spent>>

Init ==
  /\ holder = [d \in Device |-> None]
  /\ spent = {}

(* A free device goes to a job that never held one. *)
Grant(j, d) ==
  /\ holder[d] = None
  /\ j \notin spent
  /\ holder' = [holder EXCEPT ![d] = j]
  /\ spent' = spent \cup {j}

(* Any number of devices are let go at once: one sweep can end several     *)
(* leases in one transaction.                                              *)
LetGo(S) ==
  /\ holder' = [d \in Device |-> IF d \in S THEN None ELSE holder[d]]
  /\ UNCHANGED spent

Next ==
  \/ \E j \in Job, d \in Device : Grant(j, d)
  \/ \E S \in SUBSET Device : LetGo(S)

Spec == Init /\ [][Next]_vars
=============================================================================
