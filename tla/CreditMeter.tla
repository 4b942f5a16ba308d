---------------------------- MODULE CreditMeter ----------------------------
(***************************************************************************)
(* What the credit meter promises, whatever the concurrency behind it: a   *)
(* charge is taken whole, from one cycle that was opened, and only if the  *)
(* cycle then stays within a plan's quota; the only other thing that       *)
(* happens to a cycle is to be opened, or started again from zero.  No     *)
(* charge is lost, halved or taken twice.                                  *)
(***************************************************************************)
EXTENDS Integers

CONSTANTS Users, Instants, Costs, Caps

VARIABLES
    opened,  \* the cycles of every user
    used     \* the credits used in every cycle

meterVars == <<opened, used>>

Init ==
    /\ opened \in [Users -> SUBSET Instants]
    /\ used = [u \in Users |-> [c \in Instants |-> 0]]

Charge(u, c, cost) ==
    /\ c \in opened[u]
    /\ \E cap \in Caps : used[u][c] + cost <= cap
    /\ used' = [used EXCEPT ![u][c] = @ + cost]
    /\ UNCHANGED opened

Open(u, c) ==
    /\ opened' = [opened EXCEPT ![u] = @ \cup {c}]
    /\ used' = [used EXCEPT ![u][c] = 0]

Next == \E u \in Users, c \in Instants : \/ \E cost \in Costs : Charge(u, c, cost)
                                         \/ Open(u, c)

Spec == Init /\ [][Next]_meterVars
=============================================================================
