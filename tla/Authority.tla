----------------------------- MODULE Authority -----------------------------
(***************************************************************************)
(* What a capability registry promises: a table of live grants.  A root    *)
(* grant may carry anything, a derived one only known rights that a live   *)
(* grant holds at that moment; a revoked grant is gone, and its identity   *)
(* is never given to another.                                              *)
(***************************************************************************)
EXTENDS Naturals

CONSTANTS
  Right,       \* everything a rights mask can express
  KnownRight   \* the rights that mean something

VARIABLES
  grants,      \* the live grants: identity -> rights
  next_id      \* identities from here on are unused

vars == <<grants, next_id>>

Init ==
  /\ grants = [id \in {} |-> {}]
  /\ next_id = 1

Grant(rights) ==
  /\ grants' = [id \in DOMAIN grants \cup {next_id} |->
                  IF id = next_id THEN rights ELSE grants[id]]
  /\ next_id' = next_id + 1

Attenuate(parent, rights) ==
  /\ parent \in DOMAIN grants
  /\ grants[parent] \subseteq KnownRight
  /\ rights \subseteq grants[parent]
  /\ Grant(rights)

Revoke(id) ==
  /\ id \in DOMAIN grants
  /\ grants' = [other \in DOMAIN grants \ {id} |-> grants[other]]
  /\ UNCHANGED next_id

Next ==
  \/ \E rights \in SUBSET Right : Grant(rights)
  \/ \E parent \in DOMAIN grants, rights \in SUBSET Right : Attenuate(parent, rights)
  \/ \E id \in DOMAIN grants : Revoke(id)

Spec == Init /\ [][Next]_vars
============================================================================
