------------------------------- MODULE MCLogin -------------------------------
EXTENDS Login, TLC

CONSTANTS p1, p2, alice, bob

AllWorlds ==
  {[user |-> alice, cookie |-> c, legacy |-> l] : c \in BOOLEAN, l \in BOOLEAN}
    \cup {[user |-> None, cookie |-> FALSE, legacy |-> FALSE]}
CookieWorld == {[user |-> alice, cookie |-> TRUE, legacy |-> FALSE]}
Symmetry == Permutations({p1, p2})
==============================================================================
