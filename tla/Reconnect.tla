------------------------------ MODULE Reconnect -------------------------------
(***************************************************************************)
(* One saved bot and everything that connects or disconnects it: the       *)
(* operator (start, stop, remove), the boot sequence, the reconnect        *)
(* scheduler's timer, the watchdog, the idle timer and the network.        *)
(*                                                                         *)
(* Every start builds a new BotInstance and tears the old one down, while  *)
(* the connect() of the old one may still be running, so that several      *)
(* instances of the bot exist at a time.  A connect() has two waits: the   *)
(* protocol detection, during which there is no library client that a      *)
(* disconnect() could stop, and the handshake of the library client.       *)
(*                                                                         *)
(* Delays (backoff, cooldown, the 15 s deadline) are abstracted: a pending *)
(* timer may fire at any time.  An instance that is over is reused for a   *)
(* new one, so that Instances only bounds how many are alive at a time.    *)
(***************************************************************************)
EXTENDS Naturals

CONSTANTS
    Instances,     \* the BotInstance objects that may be alive at a time
    NoBot,         \* the manager's map has no entry for the bot
    Detects        \* the bot's serverProtocol is not forced: connect() probes it

ASSUME ReconnectAssumption ==
    /\ NoBot \notin Instances
    /\ Detects \in BOOLEAN

VARIABLES
    saved,         \* the database row: autoStart is "on" or "off", or no row ("gone")
    current,       \* the instance in the manager's map
    bot,           \* the state of each instance
    timer,         \* the reason of the pending reconnect timer, or "none"
    inFlight,      \* the scheduler awaits a reconnect
    watch          \* the watchdog's tick: over, bot listed, awaiting a reconnect

vars == <<saved, current, bot, timer, inFlight, watch>>

Reasons == {"remote-disconnect", "voice-transport-unhealthy", "retry-after-fail"}

\* Who awaits the connect() of an instance.  The scheduler's generation token
\* makes a "timer" run a "cancelled" one.
Owners == {"nobody", "boot", "operator", "timer", "cancelled", "watchdog"}

Phases == {"idle", "detect", "handshake", "settled"}

BotState == [
    phase : Phases,                         \* of its connect()
    owner : Owners,
    client : {"none", "live", "closed"},    \* the library client and its session
    connected : BOOLEAN,
    emitted : BOOLEAN,                      \* disconnectEmitted
    local : BOOLEAN]                        \* localDisconnect, not consumed yet

NewBot ==
    [phase |-> "idle", owner |-> "nobody", client |-> "none",
     connected |-> FALSE, emitted |-> FALSE, local |-> FALSE]

\* connect() up to its first wait.
Connecting(b, who) ==
    [b EXCEPT !.phase = IF Detects THEN "detect" ELSE "handshake",
              !.client = IF Detects THEN @ ELSE "live",
              !.owner = who, !.emitted = FALSE, !.local = FALSE]

Pending(i) == bot[i].phase \in {"detect", "handshake"}
FromTimer(i) == bot[i].owner \in {"timer", "cancelled"}

Online == current # NoBot /\ bot[current].connected

-----------------------------------------------------------------------------
(* The handlers' building blocks. *)

\* BotInstance.disconnect(): the manager's listener consumes the flag when it
\* still knows the instance.  During the detection there is no client to stop.
Disconnect(i) ==
    [bot[i] EXCEPT !.connected = FALSE, !.emitted = TRUE,
                   !.local = bot[i].emitted \/ i # current,
                   !.client = IF @ = "live" THEN "closed" ELSE @]

BusyTimerOnly == timer # "none"     \* mutation: a run in flight is not busy
Busy == timer # "none" \/ inFlight

Schedule(reason) == timer' = IF Busy THEN timer ELSE reason

\* cancel(): no timer, and the run in flight belongs to an old generation.
CancelledTimerOnly(b) == b     \* mutation: the generation is not bumped
Cancelled(b) == [b EXCEPT !.owner = IF @ = "timer" THEN "cancelled" ELSE @]
CancelAll(bots) == [i \in Instances |-> Cancelled(bots[i])]

\* startBot(): tear the current instance down, replace it, start to connect.
Free(i) == i # current /\ ~Pending(i) /\ bot[i].client # "live"

StartBot(i, who) ==
    /\ current # NoBot
    /\ Free(i)
    /\ bot' = [bot EXCEPT ![current] = Disconnect(current),
                          ![i] = Connecting(NewBot, who)]
    /\ current' = i

\* What awaits the connect() of i goes on after success, or after a failure.
ResumeNoFinally(i) ==     \* mutation: the watchdog's tick never ends
    /\ inFlight' = (inFlight /\ ~FromTimer(i))
    /\ watch' = watch

Resume(i) ==
    /\ inFlight' = (inFlight /\ ~FromTimer(i))
    /\ watch' = IF bot[i].owner = "watchdog" THEN "over" ELSE watch

-----------------------------------------------------------------------------
(* Booting and operating the bot. *)

\* A bot created or loaded is not connected; loadSavedBots connects one with
\* autoStart without awaiting it.
Init ==
    /\ saved \in {"on", "off"}
    /\ \E i \in Instances, booting \in BOOLEAN :
         /\ current = i
         /\ booting => saved = "on"
         /\ bot = [j \in Instances |->
                     IF j = i /\ booting THEN Connecting(NewBot, "boot") ELSE NewBot]
    /\ timer = "none"
    /\ inFlight = FALSE
    /\ watch = "over"

OperatorStart ==
    /\ \E i \in Instances : StartBot(i, "operator")
    /\ UNCHANGED <<saved, timer, inFlight, watch>>

OperatorStop ==
    /\ current # NoBot
    /\ timer' = "none"
    /\ saved' = "off"
    /\ bot' = CancelAll([bot EXCEPT ![current] = Disconnect(current)])
    /\ UNCHANGED <<current, inFlight, watch>>

Remove ==
    /\ current # NoBot
    /\ timer' = "none"
    /\ saved' = "gone"
    /\ bot' = CancelAll([bot EXCEPT ![current] = Disconnect(current)])
    /\ current' = NoBot
    /\ UNCHANGED <<inFlight, watch>>

\* The channel has been empty for idleTimeoutMinutes.
IdleOut ==
    /\ Online
    /\ bot' = [bot EXCEPT ![current] = Disconnect(current)]
    /\ UNCHANGED <<saved, current, timer, inFlight, watch>>

-----------------------------------------------------------------------------
(* connect(): detection, handshake, and what follows its outcome. *)

\* The protocol is known: create the library client, whatever happened to the
\* instance in the meantime.
Detected(i) ==
    /\ bot[i].phase = "detect"
    /\ bot' = [bot EXCEPT ![i].phase = "handshake", ![i].client = "live"]
    /\ UNCHANGED <<saved, current, timer, inFlight, watch>>

ConnectOkUnchecked(i) ==     \* mutation: connect() misses the disconnect meanwhile
    /\ bot[i].phase = "handshake" /\ bot[i].client = "live"
    /\ saved' = IF bot[i].owner = "operator" THEN "on" ELSE saved
    /\ bot' = [bot EXCEPT ![i].phase = "settled", ![i].connected = TRUE]
    /\ timer' = IF i = current THEN "none" ELSE timer
    /\ Resume(i)
    /\ UNCHANGED current

\* The handshake is done and nobody disconnected the instance: it is connected,
\* which resets the scheduler.  A reconnect keeps the connection if the bot is
\* still wanted, the operator's start makes it wanted.
ConnectOk(i) ==
    /\ bot[i].phase = "handshake" /\ bot[i].client = "live" /\ ~bot[i].emitted
    /\ saved' = IF bot[i].owner = "operator" THEN "on" ELSE saved
    /\ bot' = [bot EXCEPT ![i] =
                 IF bot[i].owner \in {"timer", "cancelled", "watchdog"} /\ saved # "on"
                   THEN [Disconnect(i) EXCEPT !.phase = "settled"]
                   ELSE [@ EXCEPT !.phase = "settled", !.connected = TRUE]]
    /\ timer' = IF i = current THEN "none" ELSE timer
    /\ Resume(i)
    /\ UNCHANGED current

\* The scheduler schedules its failed run again unless it was cancelled.
AfterFailure(i) ==
    /\ Resume(i)
    /\ timer' = IF bot[i].owner = "timer" /\ timer = "none"
                  THEN "retry-after-fail" ELSE timer

\* connectWithTimeout tears a failed instance down; the boot sequence only logs.
TornDownNever(i) == bot[i]     \* mutation: a failed start only logs

TornDown(i) ==
    IF bot[i].owner = "boot" THEN bot[i] ELSE Disconnect(i)

\* The handshake is done, but the instance was disconnected meanwhile.
ConnectAborted(i) ==
    /\ bot[i].phase = "handshake" /\ bot[i].client = "live" /\ bot[i].emitted
    /\ bot' = [bot EXCEPT ![i] = [TornDown(i) EXCEPT !.phase = "settled"]]
    /\ AfterFailure(i)
    /\ UNCHANGED <<saved, current>>

\* The library rejects the handshake, or the deadline passes.
ConnectFails(i) ==
    /\ bot[i].phase = "handshake"
    /\ bot' = [bot EXCEPT ![i] =
                 [TornDown(i) EXCEPT !.phase = "settled", !.client = "closed"]]
    /\ AfterFailure(i)
    /\ UNCHANGED <<saved, current>>

-----------------------------------------------------------------------------
(* Events of the connection, the timer and the watchdog. *)

\* The server or the network closes the session.
RemoteDrop(i) ==
    /\ bot[i].client = "live"
    /\ LET heard == ~bot[i].emitted /\ i = current IN
         /\ bot' = [bot EXCEPT ![i].client = "closed", ![i].connected = FALSE,
                               ![i].emitted = TRUE,
                               ![i].local = @ /\ ~heard]
         /\ IF heard /\ ~bot[i].local /\ saved = "on"
              THEN Schedule("remote-disconnect")
              ELSE UNCHANGED timer
    /\ UNCHANGED <<saved, current, inFlight, watch>>

\* Sending voice keeps failing on a connection that seems to be up.
Unhealthy ==
    /\ Online
    /\ saved = "on"
    /\ Schedule("voice-transport-unhealthy")
    /\ UNCHANGED <<saved, current, bot, inFlight, watch>>

\* The backoff is over: run the reconnect, which does not look whether the bot
\* is connected.
TimerFires ==
    /\ timer # "none"
    /\ timer' = "none"
    /\ IF inFlight \/ saved # "on"
         THEN UNCHANGED <<current, bot, inFlight>>
         ELSE /\ \E i \in Instances : StartBot(i, "timer")
              /\ inFlight' = TRUE
    /\ UNCHANGED <<saved, watch>>

\* A tick lists the bots with autoStart and comes to each after the others.
WatchdogTick ==
    /\ watch = "over"
    /\ saved = "on"
    /\ watch' = "listed"
    /\ UNCHANGED <<saved, current, bot, timer, inFlight>>

WatchdogCheck ==
    /\ watch = "listed"
    /\ IF Online \/ Busy \/ saved # "on"
         THEN watch' = "over" /\ UNCHANGED <<current, bot>>
         ELSE watch' = "waiting" /\ \E i \in Instances : StartBot(i, "watchdog")
    /\ UNCHANGED <<saved, timer, inFlight>>

Next ==
    \/ OperatorStart \/ OperatorStop \/ Remove \/ IdleOut
    \/ \E i \in Instances :
         \/ Detected(i) \/ ConnectOk(i) \/ ConnectAborted(i) \/ ConnectFails(i)
         \/ RemoteDrop(i)
    \/ Unhealthy \/ TimerFires
    \/ WatchdogTick \/ WatchdogCheck

Spec == Init /\ [][Next]_vars

-----------------------------------------------------------------------------
(* Properties *)

TypeOK ==
    /\ saved \in {"on", "off", "gone"}
    /\ current \in Instances \cup {NoBot}
    /\ current = NoBot <=> saved = "gone"
    /\ bot \in [Instances -> BotState]
    /\ timer \in Reasons \cup {"none"}
    /\ inFlight \in BOOLEAN
    /\ watch \in {"over", "listed", "waiting"}

\* "Single-flight per bot id": one timer or one run, never both, and a run is
\* in flight exactly as long as the one instance it builds is connecting - also
\* when the run was cancelled or its instance was replaced.
SingleFlight ==
    /\ timer # "none" => ~inFlight
    /\ inFlight <=> \E i \in Instances : Pending(i) /\ FromTimer(i)
    /\ \A i, j \in Instances :
         Pending(i) /\ FromTimer(i) /\ Pending(j) /\ FromTimer(j) => i = j

\* A bot that was stopped or removed is neither connected nor about to be
\* reconnected, and a replaced instance never counts as connected.
OnlineIsWanted ==
    /\ \A i \in Instances : bot[i].connected => i = current /\ saved = "on"
    /\ timer # "none" => saved = "on"
    /\ \A i \in Instances : Pending(i) /\ bot[i].owner = "timer" => saved = "on"

\* Every session on the server is the connected bot's, or somebody awaits the
\* connect() that will close it.
Orphan(i) ==
    /\ bot[i].client = "live" /\ ~Pending(i)
    /\ ~(i = current /\ bot[i].connected)

NoOrphanSession == \A i \in Instances : ~Orphan(i)

\* startBot never abandons a session, whoever called it and however its
\* instance was overtaken while it detected the protocol.
StartBotLeaksNothing == \A i \in Instances : Orphan(i) => bot[i].owner = "boot"

\* The scheduler replaces a connected instance only when its voice transport
\* was reported as unhealthy.
HealthyLeftAlone ==
    [][TimerFires /\ Online => timer = "voice-transport-unhealthy"]_vars

Service == INSTANCE Presence WITH wanted <- saved, online <- Online

ImplementsPresence == Service!Spec

===============================================================================
