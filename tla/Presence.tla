------------------------------- MODULE Presence -------------------------------
(***************************************************************************)
(* What the connection manager promises about one bot, whatever callbacks, *)
(* timers and connection attempts are under way: it is on the server only  *)
(* while its operator wants it there, and it comes on either because it is *)
(* wanted already or because a start by the operator has just succeeded.   *)
(***************************************************************************)
VARIABLES
    wanted,    \* "on" and "off" are the saved autoStart flag, "gone" is a removed bot
    online     \* the bot counts as connected

Init == wanted \in {"on", "off"} /\ ~online

\* An attempt to connect that nobody called off has succeeded.
ComeOnline == wanted = "on" /\ online' /\ UNCHANGED wanted

\* A start by the operator has succeeded: from now on the bot is wanted.
Start == wanted # "gone" /\ wanted' = "on" /\ online'

\* The connection is lost, given up or torn down to be replaced.
GoOffline == ~online' /\ UNCHANGED wanted

Stop == wanted # "gone" /\ wanted' = "off" /\ ~online'

Remove == wanted' = "gone" /\ ~online'

Next == ComeOnline \/ Start \/ GoOffline \/ Stop \/ Remove

Spec == Init /\ [][Next]_<<wanted, online>>

===============================================================================
