------------------------------- MODULE Topic -------------------------------
(***************************************************************************)
(* What webvirtd promises to a websocket client: from the moment its        *)
(* handshake handler has finished until it goes away, libvirt's lifecycle   *)
(* events are being collected for the client's user.  A user's topic is     *)
(* switched on by the first client that joins it and may only be switched   *)
(* off while nobody is subscribed.                                          *)
(*                                                                          *)
(* The module says nothing of threads, locks, or how events are collected:  *)
(* Subscriptions is the detailed specification that is compared with it.    *)
(***************************************************************************)
CONSTANTS
    Users,      \* libvirt users, one topic each
    Sockets,    \* websocket clients
    UserOf      \* the user each client subscribes to

VARIABLES
    subs,       \* per user, the clients that are subscribed
    active      \* per user, whether lifecycle events are being collected

vars == <<subs, active>>

Init ==
    /\ subs = [u \in Users |-> {}]
    /\ active = [u \in Users |-> FALSE]

\* A client subscribes; its topic is on from then on.
Join(s) ==
    /\ s \notin subs[UserOf[s]]
    /\ subs' = [subs EXCEPT ![UserOf[s]] = @ \cup {s}]
    /\ active' = [active EXCEPT ![UserOf[s]] = TRUE]

\* A client goes away.
Leave(s) ==
    /\ s \in subs[UserOf[s]]
    /\ subs' = [subs EXCEPT ![UserOf[s]] = @ \ {s}]
    /\ UNCHANGED active

\* A topic without subscribers is switched off.
SwitchOff(u) ==
    /\ subs[u] = {}
    /\ active' = [active EXCEPT ![u] = FALSE]
    /\ UNCHANGED subs

Next ==
    \/ \E s \in Sockets : Join(s) \/ Leave(s)
    \/ \E u \in Users : SwitchOff(u)

Spec == Init /\ [][Next]_vars
=============================================================================
