----------------------------- MODULE MCRevocation ------------------------------
(***************************************************************************)
(* Three tokens, enough for a grandchild; the filter takes the third one   *)
(* for revoked once the other two are.  A clock with two ticks: an expiry  *)
(* is due at once or later.  Two of the tokens can be registered under     *)
(* different parents, known or not, and again; no registration makes a     *)
(* token its own ancestor, from which a cascade would never return.        *)
(* is_revoked is asked about the child and the grandchild.                 *)
(***************************************************************************)
EXTENDS Revocation, TLC

CONSTANTS a, b, c, x, y

MCBits == (a :> {1}) @@ (b :> {2}) @@ (c :> {1, 2})
MCRegistrations ==
    {[token |-> b, parent |-> a, limit |-> "none", duration |-> 0],
     [token |-> c, parent |-> b, limit |-> "renewable", duration |-> 0],
     [token |-> c, parent |-> NoToken, limit |-> "fixed", duration |-> 0]}
MCRevocations == {[token |-> a, cascade |-> TRUE], [token |-> b, cascade |-> FALSE]}
Symmetry == Permutations({x, y})

================================================================================
