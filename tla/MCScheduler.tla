---------------------------- MODULE MCScheduler ----------------------------
(* Three submissions meet on two devices.                                     *)
EXTENDS Scheduler, TLC

Ask(pin, sel, time, prio, nowait, key) ==
  [pin |-> pin, sel |-> sel, asks |-> time, prio |-> prio,
   nowait |-> nowait, key |-> key]

(* A pinned job that inherits its device's ceiling, a broad selector that   *)
(* asks for the most any device allows, and an urgent no-wait one that      *)
(* takes what it lands on and is sent again.  Endless asks for a negative   *)
(* run time on the device with the ceiling.                                 *)
Pinned == Ask(1, {}, 0, 1, FALSE, None)
Broad == Ask(None, Label, 2, 1, FALSE, None)
Urgent == Ask(None, Label, 0, 2, TRUE, 1)

Endless == Ask(1, {}, -1, 1, FALSE, None)

MCRequest == (1 :> {Broad, Endless}) @@ (2 :> {Broad, Urgent})
                                     @@ (3 :> {Pinned, Urgent})

MCRuntime == -1..2

MCDeclared == [d \in Device |-> IF d = 1 THEN 2 ELSE 0]
=============================================================================
