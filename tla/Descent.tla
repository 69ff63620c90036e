------------------------------ MODULE Descent ------------------------------
(***************************************************************************)
(* What the arguments that something comes to an end have in common:       *)
(* tuples of naturals, compared by the first component in which they       *)
(* differ. Nothing descends for ever in this order (NoEndlessDescent in    *)
(* PlanRun_proofs), so a tuple that every step brings down leaves only     *)
(* finitely many steps.                                                    *)
(***************************************************************************)
EXTENDS Integers, Sequences

(* p is a tuple of naturals like q, and comes before it.                   *)
Below(p, q) ==
    /\ p \in [DOMAIN q -> Nat]
    /\ \E j \in DOMAIN q : /\ p[j] < q[j]
                           /\ \A i \in 1..(j - 1) : p[i] = q[i]
=============================================================================
