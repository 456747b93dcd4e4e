------------------------- MODULE MCCommunityRefresh -------------------------
(* One request is a refresh, one a refresh or a create, one of any kind. *)
EXTENDS CommunityRefresh

CONSTANTS r1, r2, r3

MCAllowed == [t \in Tasks |-> CASE t = r1 -> {"refresh"}
                                [] t = r2 -> {"refresh", "create"}
                                [] OTHER -> DOMAIN After]
=============================================================================
