----------------------------- MODULE MCReconnect -----------------------------
(* TLC instance of the connection manager: three instances alive at a time, *)
(* and what goes on by itself when nobody disturbs it.                      *)
EXTENDS Reconnect

CONSTANTS b1, b2, b3

MCInstances == {b1, b2, b3}

\* A handshake that nobody disconnected fails only because of the network.
Settle(i) ==
    \/ Detected(i)
    \/ ConnectOk(i)
    \/ ConnectAborted(i)
    \/ bot[i].client = "closed" /\ ConnectFails(i)

Recover == TimerFires \/ WatchdogTick \/ WatchdogCheck

Undisturbed == Recover \/ \E i \in Instances : Settle(i)

\* Probes and handshakes have deadlines (3 s, 15 s, the library's 60 s), the
\* backoff is at most a minute and the watchdog's interval always running.
MCSpec ==
    /\ Spec
    /\ \A i \in Instances : WF_vars(Settle(i))
    /\ WF_vars(TimerFires) /\ WF_vars(WatchdogTick) /\ WF_vars(WatchdogCheck)

\* A bot that should be up comes up: whatever instances, runs and timers any
\* number of drops, stops, starts and failures left behind, once they are over
\* a bot with autoStart is connected in the end and stays so.
ComesBack == <>[][Undisturbed]_vars => <>[](saved = "on" => Online)

===============================================================================
