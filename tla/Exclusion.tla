------------------------------ MODULE Exclusion ------------------------------
(***************************************************************************)
(* What a resource lock promises: users hold sets of resources, nobody     *)
(* enters a resource that somebody uses, and only its user ever leaves it. *)
(* There is no step that takes a resource away from its user.              *)
(***************************************************************************)
CONSTANTS Resources, Users

VARIABLE users   \* users[r]: who may be using resource r

Init == users = [r \in Resources |-> {}]

Enter(u, S) ==
  /\ \A r \in S : users[r] = {}
  /\ users' = [r \in Resources |-> IF r \in S THEN {u} ELSE users[r]]

Leave(u) == users' = [r \in Resources |-> users[r] \ {u}]

Next == \E u \in Users : Leave(u) \/ \E S \in SUBSET Resources : Enter(u, S)

Spec == Init /\ [][Next]_users

=============================================================================
