---------------------------- MODULE KrefLifetime ----------------------------
(***************************************************************************)
(* What a kref promises about the objects it protects: an object is        *)
(* allocated alive, the put of its last reference starts exactly one       *)
(* release, and the release gives it back to the allocator.  In particular *)
(* nothing revives an object whose count has reached zero, and nothing is  *)
(* freed while its count is positive.                                      *)
(***************************************************************************)
CONSTANT Objects

VARIABLE state

TypeOK == state \in [Objects -> {"free", "alive", "dying"}]

Init == state = [o \in Objects |-> "free"]

Alloc(o) == /\ state[o] = "free"
            /\ state' = [state EXCEPT ![o] = "alive"]

LastPut(o) == /\ state[o] = "alive"
              /\ state' = [state EXCEPT ![o] = "dying"]

Release(o) == /\ state[o] = "dying"
              /\ state' = [state EXCEPT ![o] = "free"]

Next == \E o \in Objects : Alloc(o) \/ LastPut(o) \/ Release(o)

Spec == Init /\ [][Next]_state
=============================================================================
