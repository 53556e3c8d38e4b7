---------------------------- MODULE UploadLedger ----------------------------
(***************************************************************************)
(* What the storage quota promises, without uploads, verification or       *)
(* deletion: every object is charged at most once, as a reservation or as  *)
(* stored content, and a charge ends only by being released.               *)
(***************************************************************************)
EXTENDS Integers

CONSTANTS
    Objects,    \* the provider keys
    Quota,      \* how much the tenant's plan lets it store
    Size(_)     \* how much of it a set of objects takes

VARIABLE charge \* what each object is charged as

Charge == {"none", "reserved", "committed", "released"}

Charged == {o \in Objects : charge[o] \in {"reserved", "committed"}}

Init == charge = [o \in Objects |-> "none"]

\* A new reservation, or one taken again after its release, fits the quota.
Reserve(o) ==
    /\ charge[o] \in {"none", "released"}
    /\ Size(Charged) < Quota
    /\ charge' = [charge EXCEPT ![o] = "reserved"]

Commit(o) ==
    /\ charge[o] = "reserved"
    /\ charge' = [charge EXCEPT ![o] = "committed"]

Release(o) ==
    /\ charge[o] \in {"reserved", "committed"}
    /\ charge' = [charge EXCEPT ![o] = "released"]

\* Content found at the provider is charged whatever the quota.
Import(o) ==
    /\ charge[o] \in {"none", "released"}
    /\ charge' = [charge EXCEPT ![o] = "committed"]

Next == \E o \in Objects : Reserve(o) \/ Commit(o) \/ Release(o) \/ Import(o)

Spec == Init /\ [][Next]_charge
=============================================================================
