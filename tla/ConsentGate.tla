----------------------------- MODULE ConsentGate -----------------------------
(***************************************************************************)
(* What the permission broker promises about one proposed action, seen     *)
(* from outside: nothing starts that was not granted, what was refused     *)
(* stays refused, and what was proposed before a restart never starts      *)
(* after it.  There are no policies, calls, files or audit here;           *)
(* PermissionBroker implements this module.                                *)
(***************************************************************************)

CONSTANT RequestIds

VARIABLE phase

Phases == {"absent", "asked", "granted", "refused", "started", "gone"}

GateTypeOK == phase \in [RequestIds -> Phases]

Init == phase = [r \in RequestIds |-> "absent"]

(* Request r moves from one of the phases in `from` to `to`. *)
Move(r, from, to) ==
    /\ phase[r] \in from
    /\ phase' = [phase EXCEPT ![r] = to]

Ask(r) == Move(r, {"absent"}, "asked")
Grant(r) == Move(r, {"absent", "asked"}, "granted")
Refuse(r) == Move(r, {"absent", "asked", "granted"}, "refused")
Start(r) == Move(r, {"granted"}, "started")

(* The broker restarts: every request it knew is forgotten for good. *)
Forget ==
    phase' = [r \in RequestIds |->
                IF phase[r] = "absent" THEN "absent" ELSE "gone"]

Next ==
    \/ \E r \in RequestIds : Ask(r) \/ Grant(r) \/ Refuse(r) \/ Start(r)
    \/ Forget

Spec == Init /\ [][Next]_phase
=============================================================================
