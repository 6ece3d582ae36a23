---------------------------- MODULE BlendClaims ----------------------------
(***************************************************************************)
(* What the double-billing guard promises, and nothing of how: a blend is  *)
(* held by at most one cart; a cart takes all its blends in one step, from *)
(* nobody, once in its life, and later lets go of all of them in one step. *)
(***************************************************************************)
CONSTANTS Carts, Orders, Nobody

VARIABLES
    owner,      \* owner[o]: the cart that holds blend o
    used        \* carts that have taken their blends

BlendClaimsInit ==
    /\ owner = [o \in Orders |-> Nobody]
    /\ used = {}

\* A new cart takes blends nobody holds; none, when it has only ad-hoc lines.
Take(c, os) ==
    /\ c \notin used
    /\ \A o \in os : owner[o] = Nobody
    /\ owner' = [o \in Orders |-> IF o \in os THEN c ELSE owner[o]]
    /\ used' = used \union {c}

Release(c) ==
    /\ c \in used
    /\ owner' = [o \in Orders |-> IF owner[o] = c THEN Nobody ELSE owner[o]]
    /\ UNCHANGED used

BlendClaimsNext ==
    \E c \in Carts : Release(c) \/ \E os \in SUBSET Orders : Take(c, os)

BlendClaimsSpec == BlendClaimsInit /\ [][BlendClaimsNext]_<<owner, used>>
=============================================================================
