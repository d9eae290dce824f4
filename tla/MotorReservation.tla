-------------------------- MODULE MotorReservation --------------------------
(***************************************************************************)
(* What the guarded operations promise: a motor belongs to one operation   *)
(* at a time, an operation obtains all its motors at once, only from       *)
(* nobody, and gives them all back at once, one time.                      *)
(***************************************************************************)
EXTENDS Integers

CONSTANTS Motors,        \* configured motor codes
          MaxOperations  \* bound: operations ever begun

Operations == 1..MaxOperations
Nobody     == 0

VARIABLES owner,  \* motor -> the operation that has it
          over    \* operations that gave their motors back

vars == <<owner, over>>

Init == /\ owner = [m \in Motors |-> Nobody]
        /\ over = {}

Acquire(i, codes) ==
  /\ codes # {}
  /\ i \notin over
  /\ \A m \in codes : owner[m] = Nobody
  /\ \A m \in Motors : owner[m] # i
  /\ owner' = [m \in Motors |-> IF m \in codes THEN i ELSE owner[m]]
  /\ UNCHANGED over

GiveBack(i) ==
  /\ \E m \in Motors : owner[m] = i
  /\ owner' = [m \in Motors |-> IF owner[m] = i THEN Nobody ELSE owner[m]]
  /\ over' = over \cup {i}

Next == \E i \in Operations :
          GiveBack(i) \/ \E codes \in SUBSET Motors : Acquire(i, codes)

Spec == Init /\ [][Next]_vars
=============================================================================
