--------------------------- MODULE MCSubscriptions ---------------------------
(***************************************************************************)
(* Small instances of Subscriptions for TLC.                                *)
(***************************************************************************)
EXTENDS Subscriptions

\* All websockets belong to one user.
OneUser == [s \in Sockets |-> CHOOSE u \in Users : TRUE]

\* One websocket belongs to a user of its own, the others to another user.
TwoUsers ==
    LET alone == CHOOSE s \in Sockets : TRUE
        first == CHOOSE u \in Users : TRUE
    IN  [s \in Sockets |-> IF s = alone THEN first
                           ELSE CHOOSE u \in Users : u # first]
=============================================================================
