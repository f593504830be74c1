--------------------------- MODULE ReconnectProofs ---------------------------
(***************************************************************************)
(* Machine-checked proofs about the connection manager, for any number of  *)
(* instances alive at a time, with and without protocol detection.         *)
(***************************************************************************)
EXTENDS Reconnect, TLAPS

\* A connected instance has a session and was never told to disconnect.
ConnectedIsUp ==
    \A i \in Instances : bot[i].connected =>
        bot[i].phase = "settled" /\ bot[i].client = "live" /\ ~bot[i].emitted

\* An instance that was replaced while it connects was told to disconnect.
ReplacedIsTold ==
    \A i \in Instances : Pending(i) /\ i # current => bot[i].emitted

\* One that connects for anybody but the operator, and was not told to
\* disconnect, connects a bot that is wanted.
PendingIsWanted ==
    \A i \in Instances :
        Pending(i) /\ ~bot[i].emitted /\ bot[i].owner # "operator" => saved = "on"

\* The inductive invariant behind all the theorems of this module.
ConnectionInv ==
    /\ TypeOK
    /\ SingleFlight
    /\ OnlineIsWanted
    /\ ConnectedIsUp
    /\ ReplacedIsTold
    /\ PendingIsWanted
    /\ StartBotLeaksNothing

-----------------------------------------------------------------------------
(* What the handlers' building blocks do to an instance. *)

\* disconnect() leaves an instance that is neither connected nor has a session;
\* its connect(), and whoever awaits it, goes on.
LEMMA DisconnectEffect ==
    ASSUME TypeOK, NEW i \in Instances
    PROVE  /\ Disconnect(i) \in BotState
           /\ Disconnect(i).phase = bot[i].phase
           /\ Disconnect(i).owner = bot[i].owner
           /\ Disconnect(i).client # "live"
           /\ ~Disconnect(i).connected
           /\ Disconnect(i).emitted
<1>1. bot[i] \in BotState
  BY DEF TypeOK
<1> QED  BY <1>1 DEF Disconnect, BotState

\* A new instance is connecting and was not told to disconnect.
LEMMA ConnectingEffect ==
    ASSUME NEW who \in Owners
    PROVE  LET b == Connecting(NewBot, who) IN
           /\ b \in BotState
           /\ b.phase \in {"detect", "handshake"}
           /\ b.owner = who
           /\ ~b.connected
           /\ ~b.emitted
BY ReconnectAssumption DEF Connecting, NewBot, BotState, Phases, Owners

\* startBot touches the old instance, which it disconnects, and the new one.
LEMMA StartBotEffect ==
    ASSUME TypeOK, NEW i \in Instances, NEW who \in Owners, StartBot(i, who)
    PROVE  /\ bot' \in [Instances -> BotState]
           /\ current \in Instances /\ current # i /\ current' = i
           /\ saved # "gone"
           /\ ~Pending(i)
           /\ bot'[i].phase \in {"detect", "handshake"}
           /\ bot'[i].owner = who
           /\ ~bot'[i].connected /\ ~bot'[i].emitted
           /\ bot'[current].phase = bot[current].phase
           /\ bot'[current].owner = bot[current].owner
           /\ bot'[current].client # "live"
           /\ ~bot'[current].connected /\ bot'[current].emitted
           /\ \A j \in Instances \ {i, current} : bot'[j] = bot[j]
<1> DEFINE old == Disconnect(current)
           new == Connecting(NewBot, who)
<1>1. /\ current \in Instances /\ current # i /\ current' = i
      /\ saved # "gone"
      /\ ~Pending(i)
      /\ bot \in [Instances -> BotState]
  BY DEF TypeOK, StartBot, Free
<1>2. /\ old \in BotState
      /\ old.phase = bot[current].phase /\ old.owner = bot[current].owner
      /\ old.client # "live" /\ ~old.connected /\ old.emitted
  BY <1>1, DisconnectEffect
<1>3. /\ new \in BotState
      /\ new.phase \in {"detect", "handshake"} /\ new.owner = who
      /\ ~new.connected /\ ~new.emitted
  BY ConnectingEffect
<1>4. bot' = [bot EXCEPT ![current] = old, ![i] = new]
  BY DEF StartBot
<1> HIDE DEF old, new
<1>5. /\ bot' \in [Instances -> BotState]
      /\ bot'[i] = new /\ bot'[current] = old
      /\ \A j \in Instances \ {i, current} : bot'[j] = bot[j]
  BY <1>1, <1>2, <1>3, <1>4
<1> QED  BY <1>1, <1>2, <1>3, <1>5

\* Cancelling changes the owners of the scheduler's runs, and nothing else.
LEMMA CancelAllEffect ==
    ASSUME NEW bots \in [Instances -> BotState]
    PROVE  /\ CancelAll(bots) \in [Instances -> BotState]
           /\ \A i \in Instances :
                /\ CancelAll(bots)[i].phase = bots[i].phase
                /\ CancelAll(bots)[i].client = bots[i].client
                /\ CancelAll(bots)[i].connected = bots[i].connected
                /\ CancelAll(bots)[i].emitted = bots[i].emitted
                /\ CancelAll(bots)[i].owner # "timer"
                /\ CancelAll(bots)[i].owner \in {bots[i].owner, "cancelled"}
                /\ CancelAll(bots)[i].owner = "cancelled"
                      <=> bots[i].owner \in {"timer", "cancelled"}
<1>1. ASSUME NEW b \in BotState
      PROVE  /\ Cancelled(b) \in BotState
             /\ Cancelled(b).phase = b.phase
             /\ Cancelled(b).client = b.client
             /\ Cancelled(b).connected = b.connected
             /\ Cancelled(b).emitted = b.emitted
             /\ Cancelled(b).owner # "timer"
             /\ Cancelled(b).owner \in {b.owner, "cancelled"}
             /\ Cancelled(b).owner = "cancelled" <=> b.owner \in {"timer", "cancelled"}
  BY DEF Cancelled, BotState, Owners
<1> QED  BY <1>1 DEF CancelAll

-----------------------------------------------------------------------------
(* Starting an instance. *)

\* What startBot preserves, whoever calls it; the scheduler's own state is the
\* caller's business.
LEMMA StartBotKeeps ==
    ASSUME ConnectionInv, NEW i \in Instances, NEW who \in Owners,
           StartBot(i, who), saved' = saved,
           who # "operator" => saved = "on",
           timer' \in {timer, "none"}
    PROVE  /\ OnlineIsWanted'
           /\ ConnectedIsUp'
           /\ ReplacedIsTold'
           /\ PendingIsWanted'
           /\ StartBotLeaksNothing'
<1>1. /\ current \in Instances /\ current # i /\ current' = i
      /\ ~Pending(i)
      /\ bot'[i].phase \in {"detect", "handshake"}
      /\ bot'[i].owner = who
      /\ ~bot'[i].connected /\ ~bot'[i].emitted
      /\ bot'[current].phase = bot[current].phase
      /\ bot'[current].owner = bot[current].owner
      /\ bot'[current].client # "live"
      /\ ~bot'[current].connected /\ bot'[current].emitted
      /\ \A j \in Instances \ {i, current} : bot'[j] = bot[j]
  BY StartBotEffect DEF ConnectionInv
<1>2. OnlineIsWanted'
  BY <1>1 DEF ConnectionInv, OnlineIsWanted, Pending
<1>3. ConnectedIsUp'
  BY <1>1 DEF ConnectionInv, ConnectedIsUp
<1>4. ReplacedIsTold'
  BY <1>1 DEF ConnectionInv, ReplacedIsTold, Pending
<1>5. PendingIsWanted'
  BY <1>1 DEF ConnectionInv, PendingIsWanted, Pending
<1>6. StartBotLeaksNothing'
  BY <1>1 DEF ConnectionInv, StartBotLeaksNothing, Orphan, Pending
<1> QED  BY <1>2, <1>3, <1>4, <1>5, <1>6

\* A start that is no run of the scheduler leaves the single flight alone.
LEMMA StartBotKeepsFlight ==
    ASSUME ConnectionInv, NEW i \in Instances, NEW who \in Owners,
           StartBot(i, who), who \notin {"timer", "cancelled"},
           UNCHANGED <<timer, inFlight>>
    PROVE  SingleFlight'
<1>1. /\ current \in Instances
      /\ ~Pending(i)
      /\ bot'[i].owner = who
      /\ bot'[current].phase = bot[current].phase
      /\ bot'[current].owner = bot[current].owner
      /\ \A j \in Instances \ {i, current} : bot'[j] = bot[j]
  BY StartBotEffect DEF ConnectionInv
<1>2. ~(Pending(i) /\ FromTimer(i))' /\ ~(Pending(i) /\ FromTimer(i))
  BY <1>1 DEF FromTimer
<1>3. \A j \in Instances :
        (Pending(j) /\ FromTimer(j))' <=> Pending(j) /\ FromTimer(j)
  BY <1>1, <1>2 DEF Pending, FromTimer
<1> QED  BY <1>3 DEF ConnectionInv, SingleFlight

\* An operator's start preserves the invariant.
LEMMA OperatorStartStep ==
    ASSUME ConnectionInv, OperatorStart
    PROVE  ConnectionInv'
<1>1. PICK i \in Instances : StartBot(i, "operator")
  BY DEF OperatorStart
<1>2. UNCHANGED <<saved, timer, inFlight, watch>>
  BY DEF OperatorStart
<1>3. "operator" \in Owners
  BY DEF Owners
<1>4. TypeOK'
  BY <1>1, <1>2, <1>3, StartBotEffect, ReconnectAssumption DEF ConnectionInv, TypeOK
<1>5. SingleFlight'
  BY <1>1, <1>2, <1>3, StartBotKeepsFlight
<1> QED  BY <1>1, <1>2, <1>3, <1>4, <1>5, StartBotKeeps DEF ConnectionInv

\* The scheduler's timer preserves the invariant: it starts a run only while
\* none is in flight.
LEMMA TimerFiresStep ==
    ASSUME ConnectionInv, TimerFires
    PROVE  ConnectionInv'
<1>1. /\ saved = "on" /\ ~inFlight /\ timer' = "none" /\ inFlight'
      /\ \E i \in Instances : StartBot(i, "timer")
      /\ UNCHANGED <<saved, watch>>
  BY DEF TimerFires, ConnectionInv, SingleFlight, OnlineIsWanted
<1>2. PICK i \in Instances : StartBot(i, "timer")
  BY <1>1
<1>3. "timer" \in Owners
  BY DEF Owners
<1>4. /\ current \in Instances /\ current' = i
      /\ bot' \in [Instances -> BotState]
      /\ bot'[i].phase \in {"detect", "handshake"} /\ bot'[i].owner = "timer"
      /\ bot'[current].phase = bot[current].phase
      /\ bot'[current].owner = bot[current].owner
      /\ \A j \in Instances \ {i, current} : bot'[j] = bot[j]
  BY <1>2, <1>3, StartBotEffect DEF ConnectionInv
<1>5. TypeOK'
  BY <1>1, <1>4, ReconnectAssumption DEF ConnectionInv, TypeOK
<1>6. SingleFlight'
  <2>1. \A j \in Instances : ~(Pending(j) /\ FromTimer(j))
    BY <1>1 DEF ConnectionInv, SingleFlight
  <2>2. \A j \in Instances \ {i} : ~(Pending(j) /\ FromTimer(j))'
    BY <1>4, <2>1 DEF Pending, FromTimer
  <2>3. (Pending(i) /\ FromTimer(i))'
    BY <1>4 DEF Pending, FromTimer
  <2> QED  BY <1>1, <2>2, <2>3 DEF SingleFlight
<1> QED  BY <1>1, <1>2, <1>3, <1>5, <1>6, StartBotKeeps DEF ConnectionInv

\* The watchdog's check preserves the invariant.
LEMMA WatchdogCheckStep ==
    ASSUME ConnectionInv, WatchdogCheck
    PROVE  ConnectionInv'
<1>1. UNCHANGED <<saved, timer, inFlight>> /\ watch' \in {"over", "waiting"}
  BY DEF WatchdogCheck
<1>2. CASE UNCHANGED <<current, bot>>
  BY <1>1, <1>2 DEF ConnectionInv, TypeOK, SingleFlight, Pending, FromTimer,
     OnlineIsWanted, ConnectedIsUp, ReplacedIsTold, PendingIsWanted,
     StartBotLeaksNothing, Orphan
<1>3. CASE saved = "on" /\ \E i \in Instances : StartBot(i, "watchdog")
  <2>1. PICK i \in Instances : StartBot(i, "watchdog")
    BY <1>3
  <2>2. "watchdog" \in Owners
    BY DEF Owners
  <2>3. TypeOK'
    BY <1>1, <2>1, <2>2, StartBotEffect, ReconnectAssumption
    DEF ConnectionInv, TypeOK
  <2>4. SingleFlight'
    BY <1>1, <2>1, <2>2, StartBotKeepsFlight
  <2> QED
    BY <1>1, <1>3, <2>1, <2>2, <2>3, <2>4, StartBotKeeps DEF ConnectionInv
<1> QED  BY <1>2, <1>3 DEF WatchdogCheck

-----------------------------------------------------------------------------
(* Calling off. *)

\* Stopping and removing disconnect the current instance and cancel the run in
\* flight, so that nothing is left that would connect the bot by itself.
LEMMA CallOffEffect ==
    ASSUME TypeOK, current # NoBot,
           bot' = CancelAll([bot EXCEPT ![current] = Disconnect(current)])
    PROVE  /\ current \in Instances
           /\ bot' \in [Instances -> BotState]
           /\ \A j \in Instances :
                /\ bot'[j].phase = bot[j].phase
                /\ bot'[j].connected => j # current /\ bot[j].connected
                /\ bot'[j].client = "live" => bot[j].client = "live"
                /\ bot'[j].emitted <=> bot[j].emitted \/ j = current
                /\ bot'[j].owner # "timer"
                /\ bot'[j].owner \in {bot[j].owner, "cancelled"}
                /\ bot'[j].owner = "cancelled" <=> bot[j].owner \in {"timer", "cancelled"}
                /\ j # current => bot'[j].client = bot[j].client
           /\ bot'[current].client # "live"
<1> DEFINE off == [bot EXCEPT ![current] = Disconnect(current)]
<1>1. current \in Instances /\ bot \in [Instances -> BotState]
  BY DEF TypeOK
<1>2. /\ Disconnect(current) \in BotState
      /\ Disconnect(current).phase = bot[current].phase
      /\ Disconnect(current).owner = bot[current].owner
      /\ Disconnect(current).client # "live"
      /\ ~Disconnect(current).connected
      /\ Disconnect(current).emitted
  BY <1>1, DisconnectEffect
<1>3. /\ off \in [Instances -> BotState]
      /\ off[current] = Disconnect(current)
      /\ \A j \in Instances \ {current} : off[j] = bot[j]
  BY <1>1, <1>2
<1>4. /\ bot' = CancelAll(off)
      /\ \A j \in Instances : bot[j].emitted \in BOOLEAN /\ off[j].emitted \in BOOLEAN
  BY <1>1, <1>3 DEF BotState
<1> HIDE DEF off
<1>5. /\ CancelAll(off) \in [Instances -> BotState]
      /\ \A j \in Instances :
           /\ CancelAll(off)[j].phase = off[j].phase
           /\ CancelAll(off)[j].client = off[j].client
           /\ CancelAll(off)[j].connected = off[j].connected
           /\ CancelAll(off)[j].emitted = off[j].emitted
           /\ CancelAll(off)[j].owner # "timer"
           /\ CancelAll(off)[j].owner \in {off[j].owner, "cancelled"}
           /\ CancelAll(off)[j].owner = "cancelled"
                 <=> off[j].owner \in {"timer", "cancelled"}
  BY <1>3, CancelAllEffect
<1>6. ASSUME NEW j \in Instances
      PROVE  /\ bot'[j].phase = bot[j].phase
             /\ bot'[j].connected => j # current /\ bot[j].connected
             /\ bot'[j].client = "live" => bot[j].client = "live"
             /\ bot'[j].emitted <=> bot[j].emitted \/ j = current
             /\ bot'[j].owner # "timer"
             /\ bot'[j].owner \in {bot[j].owner, "cancelled"}
             /\ bot'[j].owner = "cancelled" <=> bot[j].owner \in {"timer", "cancelled"}
             /\ j # current => bot'[j].client = bot[j].client
  <2>1. CASE j = current
    BY <1>2, <1>3, <1>4, <1>5, <2>1
  <2>2. CASE j # current
    BY <1>3, <1>4, <1>5, <2>2
  <2> QED  BY <2>1, <2>2
<1>7. bot' \in [Instances -> BotState] /\ bot'[current].client # "live"
  BY <1>1, <1>2, <1>3, <1>4, <1>5
<1> QED  BY <1>1, <1>6, <1>7

\* What stopping and removing have in common preserves the invariant.
LEMMA CallOffKeeps ==
    ASSUME ConnectionInv, current # NoBot, saved' # "on", timer' = "none",
           current' \in {current, NoBot}, UNCHANGED <<inFlight, watch>>,
           bot' = CancelAll([bot EXCEPT ![current] = Disconnect(current)])
    PROVE  /\ SingleFlight'
           /\ OnlineIsWanted'
           /\ ConnectedIsUp'
           /\ ReplacedIsTold'
           /\ PendingIsWanted'
           /\ StartBotLeaksNothing'
<1>1. /\ current \in Instances
      /\ \A j \in Instances :
           /\ bot'[j].phase = bot[j].phase
           /\ bot'[j].connected => j # current /\ bot[j].connected
           /\ bot'[j].client = "live" => bot[j].client = "live"
           /\ bot'[j].emitted <=> bot[j].emitted \/ j = current
           /\ bot'[j].owner # "timer"
           /\ bot'[j].owner \in {bot[j].owner, "cancelled"}
           /\ bot'[j].owner = "cancelled" <=> bot[j].owner \in {"timer", "cancelled"}
      /\ bot'[current].client # "live"
  BY CallOffEffect DEF ConnectionInv
<1>2. \A j \in Instances : ~bot'[j].connected
  BY <1>1 DEF ConnectionInv, OnlineIsWanted
<1>3. SingleFlight'
  <2>1. \A j \in Instances :
          (Pending(j) /\ FromTimer(j))' <=> Pending(j) /\ FromTimer(j)
    BY <1>1 DEF Pending, FromTimer
  <2> QED  BY <2>1 DEF ConnectionInv, SingleFlight
<1>4. OnlineIsWanted'
  BY <1>1, <1>2 DEF OnlineIsWanted
<1>5. ConnectedIsUp'
  BY <1>2 DEF ConnectedIsUp
<1>6. ReplacedIsTold' /\ PendingIsWanted'
  <2>1. \A j \in Instances : Pending(j)' => bot'[j].emitted
    BY <1>1 DEF ConnectionInv, ReplacedIsTold, Pending
  <2> QED  BY <2>1 DEF ReplacedIsTold, PendingIsWanted
<1>7. StartBotLeaksNothing'
  <2> SUFFICES ASSUME NEW j \in Instances, Orphan(j)'
               PROVE  bot'[j].owner = "boot"
    BY DEF StartBotLeaksNothing
  <2>1. bot[j].client = "live" /\ ~Pending(j) /\ j # current
    BY <1>1 DEF Orphan, Pending
  <2>2. bot[j].owner = "boot"
    BY <2>1 DEF ConnectionInv, StartBotLeaksNothing, Orphan
  <2> QED  BY <1>1, <2>2
<1> QED  BY <1>3, <1>4, <1>5, <1>6, <1>7

\* Stopping preserves the invariant.
LEMMA OperatorStopStep ==
    ASSUME ConnectionInv, OperatorStop
    PROVE  ConnectionInv'
<1>1. TypeOK'
  BY CallOffEffect, ReconnectAssumption DEF OperatorStop, ConnectionInv, TypeOK
<1> QED  BY <1>1, CallOffKeeps DEF OperatorStop, ConnectionInv

\* Removing the bot preserves the invariant.
LEMMA RemoveStep ==
    ASSUME ConnectionInv, Remove
    PROVE  ConnectionInv'
<1>1. TypeOK'
  BY CallOffEffect, ReconnectAssumption DEF Remove, ConnectionInv, TypeOK
<1> QED  BY <1>1, CallOffKeeps DEF Remove, ConnectionInv

\* The idle timer preserves the invariant.
LEMMA IdleOutStep ==
    ASSUME ConnectionInv, IdleOut
    PROVE  ConnectionInv'
<1>1. /\ current \in Instances /\ bot[current].connected
      /\ bot \in [Instances -> BotState]
      /\ bot' = [bot EXCEPT ![current] = Disconnect(current)]
      /\ UNCHANGED <<saved, current, timer, inFlight, watch>>
  BY DEF IdleOut, Online, ConnectionInv, TypeOK
<1>2. /\ Disconnect(current) \in BotState
      /\ Disconnect(current).phase = bot[current].phase
      /\ Disconnect(current).owner = bot[current].owner
      /\ Disconnect(current).client # "live"
      /\ ~Disconnect(current).connected
      /\ Disconnect(current).emitted
  BY <1>1, DisconnectEffect DEF ConnectionInv
<1>3. /\ bot' \in [Instances -> BotState]
      /\ bot'[current] = Disconnect(current)
      /\ \A j \in Instances \ {current} : bot'[j] = bot[j]
  BY <1>1, <1>2
<1>4. TypeOK'
  BY <1>1, <1>3 DEF ConnectionInv, TypeOK
<1>5. SingleFlight'
  BY <1>1, <1>2, <1>3 DEF ConnectionInv, SingleFlight, Pending, FromTimer
<1>6. OnlineIsWanted'
  BY <1>1, <1>2, <1>3 DEF ConnectionInv, OnlineIsWanted, Pending
<1>7. ConnectedIsUp' /\ ReplacedIsTold' /\ PendingIsWanted'
  BY <1>1, <1>2, <1>3
  DEF ConnectionInv, ConnectedIsUp, ReplacedIsTold, PendingIsWanted, Pending
<1>8. StartBotLeaksNothing'
  BY <1>1, <1>2, <1>3 DEF ConnectionInv, StartBotLeaksNothing, Orphan, Pending
<1> QED  BY <1>4, <1>5, <1>6, <1>7, <1>8 DEF ConnectionInv

-----------------------------------------------------------------------------
(* The steps of a connect(). *)

\* The end of a detection preserves the invariant.
LEMMA DetectedStep ==
    ASSUME ConnectionInv, NEW b \in Instances, Detected(b)
    PROVE  ConnectionInv'
<1>1. /\ bot \in [Instances -> BotState]
      /\ bot[b].phase = "detect" /\ Pending(b)
      /\ bot' = [bot EXCEPT ![b].phase = "handshake", ![b].client = "live"]
      /\ UNCHANGED <<saved, current, timer, inFlight, watch>>
  BY DEF Detected, ConnectionInv, TypeOK, Pending
<1>2. [bot[b] EXCEPT !.phase = "handshake", !.client = "live"] \in BotState
  <2>1. bot[b] \in BotState
    BY <1>1
  <2> QED  BY <2>1 DEF BotState, Phases
<1>3. TypeOK'
  BY <1>1, <1>2 DEF ConnectionInv, TypeOK
<1>4. /\ bot'[b].phase = "handshake" /\ bot'[b].client = "live"
      /\ bot'[b].owner = bot[b].owner /\ bot'[b].emitted = bot[b].emitted
      /\ bot'[b].connected = bot[b].connected
      /\ \A j \in Instances \ {b} : bot'[j] = bot[j]
  BY <1>1 DEF BotState
<1>5. \A j \in Instances : Pending(j)' <=> Pending(j)
  BY <1>1, <1>4 DEF Pending
<1>6. SingleFlight'
  BY <1>1, <1>4, <1>5 DEF ConnectionInv, SingleFlight, FromTimer
<1>7. OnlineIsWanted' /\ ConnectedIsUp'
  BY <1>1, <1>4, <1>5 DEF ConnectionInv, OnlineIsWanted, ConnectedIsUp
<1>8. ReplacedIsTold' /\ PendingIsWanted'
  BY <1>1, <1>4, <1>5 DEF ConnectionInv, ReplacedIsTold, PendingIsWanted
<1>9. StartBotLeaksNothing'
  BY <1>1, <1>4, <1>5 DEF ConnectionInv, StartBotLeaksNothing, Orphan
<1> QED  BY <1>3, <1>6, <1>7, <1>8, <1>9 DEF ConnectionInv

\* An answer to the handshake ends the run it belongs to.
LEMMA ResumeKeepsFlight ==
    ASSUME ConnectionInv, NEW b \in Instances, Pending(b), Resume(b),
           ~Pending(b)',
           \A j \in Instances \ {b} : bot'[j] = bot[j],
           \/ timer' \in {timer, "none"}
           \/ bot[b].owner = "timer"
    PROVE  SingleFlight'
<1>1. inFlight' = (inFlight /\ ~FromTimer(b))
  BY DEF Resume
<1>2. \A j \in Instances \ {b} :
        (Pending(j) /\ FromTimer(j))' <=> Pending(j) /\ FromTimer(j)
  BY DEF Pending, FromTimer
<1>3. CASE FromTimer(b)
  BY <1>1, <1>2, <1>3 DEF ConnectionInv, SingleFlight
<1>4. CASE ~FromTimer(b)
  <2>1. timer' \in {timer, "none"}
    BY <1>4 DEF FromTimer
  <2> QED  BY <1>1, <1>2, <1>4, <2>1 DEF ConnectionInv, SingleFlight
<1> QED  BY <1>3, <1>4

\* A successful handshake preserves the invariant: the instance was not told
\* to disconnect, hence is the current one and wanted.
LEMMA ConnectOkStep ==
    ASSUME ConnectionInv, NEW b \in Instances, ConnectOk(b)
    PROVE  ConnectionInv'
<1>1. /\ bot \in [Instances -> BotState]
      /\ Pending(b) /\ bot[b].client = "live" /\ ~bot[b].emitted
      /\ b = current /\ current' = current /\ timer' = "none"
      /\ Resume(b)
  BY DEF ConnectOk, ConnectionInv, TypeOK, Pending, ReplacedIsTold
<1>2. /\ bot[b].owner # "operator" => saved = "on"
      /\ saved' = "on" /\ saved # "gone"
  BY <1>1, ReconnectAssumption DEF ConnectOk, ConnectionInv, TypeOK, PendingIsWanted
<1>3. bot' = [bot EXCEPT ![b] = [@ EXCEPT !.phase = "settled", !.connected = TRUE]]
  BY <1>1, <1>2 DEF ConnectOk
<1>4. /\ bot[b] \in BotState
      /\ [bot[b] EXCEPT !.phase = "settled", !.connected = TRUE] \in BotState
  <2>1. bot[b] \in BotState
    BY <1>1
  <2> QED  BY <2>1 DEF BotState, Phases
<1>5. /\ bot'[b].phase = "settled" /\ bot'[b].connected
      /\ bot'[b].client = "live" /\ ~bot'[b].emitted
      /\ \A j \in Instances \ {b} : bot'[j] = bot[j]
  BY <1>1, <1>3, <1>4 DEF BotState
<1>6. TypeOK'
  <2>1. bot' \in [Instances -> BotState]
    BY <1>1, <1>3, <1>4
  <2>2. inFlight' \in BOOLEAN /\ watch' \in {"over", "listed", "waiting"}
    BY <1>1 DEF Resume, ConnectionInv, TypeOK
  <2> QED  BY <1>1, <1>2, <2>1, <2>2, ReconnectAssumption DEF ConnectionInv, TypeOK
<1>7. SingleFlight'
  <2>1. ~Pending(b)'
    BY <1>5 DEF Pending
  <2> QED  BY <1>1, <1>5, <2>1, ResumeKeepsFlight
<1>8. OnlineIsWanted'
  BY <1>1, <1>2, <1>5 DEF ConnectionInv, OnlineIsWanted, Pending
<1>9. ConnectedIsUp' /\ ReplacedIsTold' /\ PendingIsWanted'
  BY <1>1, <1>2, <1>5
  DEF ConnectionInv, ConnectedIsUp, ReplacedIsTold, PendingIsWanted, Pending
<1>10. StartBotLeaksNothing'
  BY <1>1, <1>5 DEF ConnectionInv, StartBotLeaksNothing, Orphan, Pending
<1> QED  BY <1>6, <1>7, <1>8, <1>9, <1>10 DEF ConnectionInv

\* A handshake that ends without a connection, whether it succeeded too late or
\* failed, preserves the invariant if its caller tears it down.
LEMMA FailureKeeps ==
    ASSUME ConnectionInv, NEW b \in Instances, NEW r \in BotState,
           bot[b].phase = "handshake",
           bot' = [bot EXCEPT ![b] = r],
           r.phase = "settled", ~r.connected,
           r.client = "live" => bot[b].owner = "boot",
           r.owner = bot[b].owner,
           AfterFailure(b), UNCHANGED <<saved, current>>
    PROVE  ConnectionInv'
<1>1. /\ bot \in [Instances -> BotState]
      /\ Pending(b) /\ Resume(b)
      /\ timer' \in {timer, "retry-after-fail"}
      /\ timer' # timer => bot[b].owner = "timer"
  BY DEF ConnectionInv, TypeOK, Pending, AfterFailure
<1>2. /\ bot' \in [Instances -> BotState]
      /\ bot'[b] = r
      /\ \A j \in Instances \ {b} : bot'[j] = bot[j]
  BY <1>1
<1>3. TypeOK'
  <2>1. inFlight' \in BOOLEAN /\ watch' \in {"over", "listed", "waiting"}
    BY <1>1 DEF Resume, ConnectionInv, TypeOK
  <2> QED  BY <1>1, <1>2, <2>1 DEF ConnectionInv, TypeOK, Reasons
<1>4. ~Pending(b)' /\ ~bot'[b].connected
  BY <1>2 DEF Pending
<1>5. SingleFlight'
  BY <1>1, <1>2, <1>4, ResumeKeepsFlight
<1>6. OnlineIsWanted'
  <2>1. timer' # "none" => saved = "on"
    BY <1>1 DEF ConnectionInv, OnlineIsWanted
  <2> QED  BY <1>2, <1>4, <2>1 DEF ConnectionInv, OnlineIsWanted, Pending
<1>7. ConnectedIsUp' /\ ReplacedIsTold' /\ PendingIsWanted'
  BY <1>2, <1>4
  DEF ConnectionInv, ConnectedIsUp, ReplacedIsTold, PendingIsWanted, Pending
<1>8. StartBotLeaksNothing'
  BY <1>2, <1>4 DEF ConnectionInv, StartBotLeaksNothing, Orphan, Pending
<1> QED  BY <1>3, <1>5, <1>6, <1>7, <1>8 DEF ConnectionInv

\* Tearing down leaves a session to nobody but the boot sequence.
LEMMA TornDownEffect ==
    ASSUME ConnectionInv, NEW b \in Instances, Pending(b)
    PROVE  /\ TornDown(b) \in BotState
           /\ ~TornDown(b).connected
           /\ TornDown(b).owner = bot[b].owner
           /\ TornDown(b).client = "live" => bot[b].owner = "boot"
<1>1. bot[b] \in BotState /\ ~bot[b].connected
  BY DEF ConnectionInv, TypeOK, ConnectedIsUp, Pending
<1>2. /\ Disconnect(b) \in BotState
      /\ Disconnect(b).owner = bot[b].owner
      /\ Disconnect(b).client # "live"
      /\ ~Disconnect(b).connected
  BY DisconnectEffect DEF ConnectionInv
<1> QED  BY <1>1, <1>2 DEF TornDown

\* A handshake that succeeds too late preserves the invariant.
LEMMA ConnectAbortedStep ==
    ASSUME ConnectionInv, NEW b \in Instances, ConnectAborted(b)
    PROVE  ConnectionInv'
<1> DEFINE torn == TornDown(b)
           r == [torn EXCEPT !.phase = "settled"]
<1>1. Pending(b)
  BY DEF ConnectAborted, Pending
<1>2. /\ torn \in BotState /\ ~torn.connected /\ torn.owner = bot[b].owner
      /\ torn.client = "live" => bot[b].owner = "boot"
  BY <1>1, TornDownEffect
<1> HIDE DEF torn
<1>3. /\ r \in BotState /\ r.phase = "settled" /\ ~r.connected
      /\ r.owner = bot[b].owner
      /\ r.client = "live" => bot[b].owner = "boot"
  BY <1>2 DEF BotState, Phases
<1>4. bot' = [bot EXCEPT ![b] = r]
  BY DEF ConnectAborted, torn
<1> HIDE DEF r
<1> QED  BY <1>3, <1>4, FailureKeeps DEF ConnectAborted

\* A failed handshake preserves the invariant.
LEMMA ConnectFailsStep ==
    ASSUME ConnectionInv, NEW b \in Instances, ConnectFails(b)
    PROVE  ConnectionInv'
<1> DEFINE torn == TornDown(b)
           r == [torn EXCEPT !.phase = "settled", !.client = "closed"]
<1>1. Pending(b)
  BY DEF ConnectFails, Pending
<1>2. torn \in BotState /\ ~torn.connected /\ torn.owner = bot[b].owner
  BY <1>1, TornDownEffect
<1> HIDE DEF torn
<1>3. /\ r \in BotState /\ r.phase = "settled" /\ ~r.connected
      /\ r.owner = bot[b].owner /\ r.client # "live"
  BY <1>2 DEF BotState, Phases
<1>4. bot' = [bot EXCEPT ![b] = r]
  BY DEF ConnectFails, torn
<1> HIDE DEF r
<1> QED  BY <1>3, <1>4, FailureKeeps DEF ConnectFails

-----------------------------------------------------------------------------
(* Events. *)

\* Scheduling does nothing while the scheduler is busy.
LEMMA ScheduleEffect ==
    ASSUME TypeOK, NEW reason \in Reasons, Schedule(reason)
    PROVE  /\ timer' \in Reasons \cup {"none"}
           /\ timer' # "none" /\ timer = "none" => ~inFlight
           /\ inFlight => timer' = timer
BY DEF Schedule, Busy, TypeOK

\* A drop preserves the invariant: only a wanted bot is scheduled.
LEMMA RemoteDropStep ==
    ASSUME ConnectionInv, NEW b \in Instances, RemoteDrop(b)
    PROVE  ConnectionInv'
<1>1. /\ bot \in [Instances -> BotState] /\ bot[b].client = "live"
      /\ UNCHANGED <<saved, current, inFlight, watch>>
      /\ timer' = timer \/ (saved = "on" /\ Schedule("remote-disconnect"))
  BY DEF RemoteDrop, ConnectionInv, TypeOK
<1>2. PICK l \in BOOLEAN :
        bot' = [bot EXCEPT ![b] = [@ EXCEPT !.client = "closed", !.connected = FALSE,
                                            !.emitted = TRUE, !.local = l]]
  <2> DEFINE heard == ~bot[b].emitted /\ b = current
  <2>1. (bot[b].local /\ ~heard) \in BOOLEAN
    OBVIOUS
  <2>2. bot' = [bot EXCEPT ![b] = [@ EXCEPT !.client = "closed", !.connected = FALSE,
                                     !.emitted = TRUE, !.local = bot[b].local /\ ~heard]]
    BY <1>1 DEF RemoteDrop
  <2> HIDE DEF heard
  <2> QED  BY <2>1, <2>2
<1>3. [bot[b] EXCEPT !.client = "closed", !.connected = FALSE,
                     !.emitted = TRUE, !.local = l] \in BotState
  <2>1. bot[b] \in BotState
    BY <1>1
  <2> QED  BY <2>1 DEF BotState
<1>4. /\ bot' \in [Instances -> BotState]
      /\ bot'[b].phase = bot[b].phase /\ bot'[b].owner = bot[b].owner
      /\ bot'[b].client = "closed" /\ ~bot'[b].connected /\ bot'[b].emitted
      /\ \A j \in Instances \ {b} : bot'[j] = bot[j]
  BY <1>1, <1>2, <1>3 DEF BotState
<1>5. /\ timer' \in Reasons \cup {"none"}
      /\ inFlight => timer' = timer
      /\ timer' # timer => saved = "on"
  <2>1. "remote-disconnect" \in Reasons
    BY DEF Reasons
  <2> QED  BY <1>1, <2>1, ScheduleEffect DEF ConnectionInv, TypeOK
<1>6. TypeOK'
  BY <1>1, <1>4, <1>5 DEF ConnectionInv, TypeOK
<1>7. SingleFlight'
  BY <1>1, <1>4, <1>5 DEF ConnectionInv, SingleFlight, Pending, FromTimer
<1>8. OnlineIsWanted'
  BY <1>1, <1>4, <1>5 DEF ConnectionInv, OnlineIsWanted, Pending
<1>9. ConnectedIsUp' /\ ReplacedIsTold' /\ PendingIsWanted'
  BY <1>1, <1>4
  DEF ConnectionInv, ConnectedIsUp, ReplacedIsTold, PendingIsWanted, Pending
<1>10. StartBotLeaksNothing'
  BY <1>1, <1>4 DEF ConnectionInv, StartBotLeaksNothing, Orphan, Pending
<1> QED  BY <1>6, <1>7, <1>8, <1>9, <1>10 DEF ConnectionInv

\* The unhealthy transport preserves the invariant.
LEMMA UnhealthyStep ==
    ASSUME ConnectionInv, Unhealthy
    PROVE  ConnectionInv'
<1>1. "voice-transport-unhealthy" \in Reasons
  BY DEF Reasons
<1>2. /\ timer' \in Reasons \cup {"none"}
      /\ timer' # "none" /\ timer = "none" => ~inFlight
      /\ inFlight => timer' = timer
      /\ saved = "on"
      /\ UNCHANGED <<saved, current, bot, inFlight, watch>>
  BY <1>1, ScheduleEffect DEF Unhealthy, ConnectionInv
<1> QED
  BY <1>2 DEF ConnectionInv, TypeOK, SingleFlight, Pending, FromTimer,
     OnlineIsWanted, ConnectedIsUp, ReplacedIsTold, PendingIsWanted,
     StartBotLeaksNothing, Orphan

-----------------------------------------------------------------------------
(* Theorems *)

\* A bot that was loaded or created satisfies the invariant.
LEMMA ConnectionInit == Init => ConnectionInv
<1> SUFFICES ASSUME Init PROVE ConnectionInv
  OBVIOUS
<1>1. PICK b \in Instances, booting \in BOOLEAN :
        /\ current = b
        /\ booting => saved = "on"
        /\ bot = [j \in Instances |->
                    IF j = b /\ booting THEN Connecting(NewBot, "boot") ELSE NewBot]
  BY DEF Init
<1> DEFINE boot == Connecting(NewBot, "boot")
<1>2. /\ boot \in BotState /\ boot.owner = "boot"
      /\ boot.phase \in {"detect", "handshake"}
      /\ ~boot.connected /\ ~boot.emitted
  <2>1. "boot" \in Owners
    BY DEF Owners
  <2> QED  BY <2>1, ConnectingEffect
<1>3. /\ NewBot \in BotState /\ NewBot.phase = "idle" /\ NewBot.client = "none"
      /\ ~NewBot.connected
  BY DEF NewBot, BotState, Phases, Owners
<1>4. bot \in [Instances -> BotState] /\ \A j \in Instances : bot[j] \in {boot, NewBot}
  BY <1>1, <1>2, <1>3
<1>5. \A j \in Instances : Pending(j) => j = current /\ saved = "on"
  <2>1. SUFFICES ASSUME NEW j \in Instances, ~(j = b /\ booting) PROVE ~Pending(j)
    BY <1>1
  <2> QED  BY <1>1, <1>3, <2>1 DEF Pending
<1> HIDE DEF boot
<1>6. TypeOK
  BY <1>1, <1>4, ReconnectAssumption DEF Init, TypeOK
<1>7. SingleFlight
  <2>1. \A j \in Instances : ~(Pending(j) /\ FromTimer(j))
    BY <1>2, <1>3, <1>4 DEF Pending, FromTimer
  <2> QED  BY <2>1 DEF Init, SingleFlight
<1>8. OnlineIsWanted /\ ConnectedIsUp
  BY <1>2, <1>3, <1>4, <1>5 DEF Init, OnlineIsWanted, ConnectedIsUp
<1>9. ReplacedIsTold /\ PendingIsWanted
  BY <1>5 DEF ReplacedIsTold, PendingIsWanted
<1>10. StartBotLeaksNothing
  BY <1>2, <1>3, <1>4 DEF StartBotLeaksNothing, Orphan, Pending
<1> QED  BY <1>6, <1>7, <1>8, <1>9, <1>10 DEF ConnectionInv

\* Every step preserves the invariant.
LEMMA ConnectionStep == ConnectionInv /\ [Next]_vars => ConnectionInv'
<1> SUFFICES ASSUME ConnectionInv, [Next]_vars PROVE ConnectionInv'
  OBVIOUS
<1>1. CASE OperatorStart \/ OperatorStop \/ Remove \/ IdleOut
  BY <1>1, OperatorStartStep, OperatorStopStep, RemoveStep, IdleOutStep
<1>2. CASE \E i \in Instances : Detected(i)
  BY <1>2, DetectedStep
<1>3. CASE \E i \in Instances : ConnectOk(i) \/ ConnectAborted(i) \/ ConnectFails(i)
  BY <1>3, ConnectOkStep, ConnectAbortedStep, ConnectFailsStep
<1>4. CASE \E i \in Instances : RemoteDrop(i)
  BY <1>4, RemoteDropStep
<1>5. CASE Unhealthy \/ TimerFires \/ WatchdogCheck
  BY <1>5, UnhealthyStep, TimerFiresStep, WatchdogCheckStep
<1>6. CASE WatchdogTick \/ UNCHANGED vars
  BY <1>6 DEF WatchdogTick, vars, ConnectionInv, TypeOK, SingleFlight, Pending,
     FromTimer, OnlineIsWanted, ConnectedIsUp, ReplacedIsTold, PendingIsWanted,
     StartBotLeaksNothing, Orphan
<1> QED  BY <1>1, <1>2, <1>3, <1>4, <1>5, <1>6 DEF Next

\* The invariant holds in every state the connection manager reaches.
THEOREM ConnectionInvariant == Spec => []ConnectionInv
<1> QED  BY ConnectionInit, ConnectionStep, PTL DEF Spec

\* At most one reconnect of the scheduler is under way, as a timer or as a run.
THEOREM SingleFlightHolds == Spec => []SingleFlight
<1>1. ConnectionInv => SingleFlight
  BY DEF ConnectionInv
<1> QED  BY <1>1, ConnectionInvariant, PTL

\* A stopped or removed bot is not connected and nothing will reconnect it.
THEOREM StopIsFinal == Spec => []OnlineIsWanted
<1>1. ConnectionInv => OnlineIsWanted
  BY DEF ConnectionInv
<1> QED  BY <1>1, ConnectionInvariant, PTL

\* No start by operator, timer or watchdog leaves a session behind.
THEOREM StartsLeakNothing == Spec => []StartBotLeaksNothing
<1>1. ConnectionInv => StartBotLeaksNothing
  BY DEF ConnectionInv
<1> QED  BY <1>1, ConnectionInvariant, PTL

-----------------------------------------------------------------------------
(* The connection manager implements the promise of module Presence. *)

\* Nothing but a successful handshake brings the bot online.
LEMMA OnlyConnectOkConnects ==
    ASSUME ConnectionInv, Next, Online', ~\E i \in Instances : ConnectOk(i)
    PROVE  Online
<1>1. current' # NoBot /\ bot'[current'].connected
  BY DEF Online
<1>2. CASE \E i \in Instances, who \in {"operator", "timer", "watchdog"} : StartBot(i, who)
  <2>1. PICK i \in Instances, who \in Owners : StartBot(i, who)
    BY <1>2 DEF Owners
  <2> QED  BY <1>1, <2>1, StartBotEffect DEF ConnectionInv
<1>3. CASE OperatorStop \/ Remove
  <2>1. /\ current \in Instances /\ current' \in {current, NoBot}
        /\ \A j \in Instances : bot'[j].connected => j # current
    BY <1>3, CallOffEffect DEF OperatorStop, Remove, ConnectionInv
  <2> QED  BY <1>1, <2>1
<1>4. CASE IdleOut
  BY <1>4 DEF IdleOut
<1>5. CASE \E i \in Instances : Detected(i) \/ RemoteDrop(i)
  <2>1. PICK i \in Instances : Detected(i) \/ RemoteDrop(i)
    BY <1>5
  <2>2. bot \in [Instances -> BotState] /\ current \in Instances /\ current' = current
    BY <1>1, <2>1 DEF Detected, RemoteDrop, ConnectionInv, TypeOK
  <2>3. bot'[current].connected => bot[current].connected
    BY <2>1, <2>2 DEF Detected, RemoteDrop, BotState
  <2> QED  BY <1>1, <2>2, <2>3 DEF Online
<1>6. CASE \E i \in Instances : ConnectAborted(i) \/ ConnectFails(i)
  <2>1. PICK i \in Instances : ConnectAborted(i) \/ ConnectFails(i)
    BY <1>6
  <2>2. bot \in [Instances -> BotState] /\ current \in Instances /\ current' = current
    BY <1>1, <2>1 DEF ConnectAborted, ConnectFails, ConnectionInv, TypeOK
  <2>3. TornDown(i) \in BotState /\ ~TornDown(i).connected
    BY <2>1, TornDownEffect DEF ConnectAborted, ConnectFails, Pending
  <2>4. CASE i = current
    <3>1. ~bot'[i].connected
      BY <2>1, <2>2, <2>3 DEF ConnectAborted, ConnectFails, BotState
    <3> QED  BY <1>1, <2>2, <2>4, <3>1
  <2>5. CASE i # current
    <3>1. bot'[current] = bot[current]
      BY <2>1, <2>2, <2>5 DEF ConnectAborted, ConnectFails
    <3> QED  BY <1>1, <2>2, <3>1 DEF Online
  <2> QED  BY <2>4, <2>5
<1>7. CASE UNCHANGED <<current, bot>>
  BY <1>7 DEF Online
<1> QED
  BY <1>2, <1>3, <1>4, <1>5, <1>6, <1>7
  DEF Next, OperatorStart, Unhealthy, TimerFires, WatchdogTick, WatchdogCheck

\* Every step of the connection manager is a step of the promise or a stutter.
LEMMA PresenceStep ==
    ASSUME ConnectionInv, ConnectionInv', [Next]_vars
    PROVE  [Service!Next]_<<saved, Online>>
<1>1. CASE UNCHANGED vars
  BY <1>1 DEF vars, Online
<1>2. CASE \E i \in Instances : ConnectOk(i)
  <2>1. PICK i \in Instances : ConnectOk(i)
    BY <1>2
  <2>2. /\ bot \in [Instances -> BotState]
        /\ i = current /\ current' = i /\ saved # "gone"
        /\ bot[i].owner # "operator" => saved = "on"
    BY <2>1, ReconnectAssumption
    DEF ConnectOk, ConnectionInv, TypeOK, Pending, ReplacedIsTold, PendingIsWanted
  <2>3. saved' = "on" /\ bot'[i].connected
    BY <2>1, <2>2 DEF ConnectOk, BotState
  <2>4. Online'
    BY <2>2, <2>3, ReconnectAssumption DEF Online
  <2> QED  BY <2>2, <2>3, <2>4 DEF Service!Next, Service!Start
<1>3. CASE OperatorStop
  <2>1. saved # "gone" /\ saved' = "off" /\ ~Online'
    BY <1>3 DEF OperatorStop, ConnectionInv, TypeOK, OnlineIsWanted, Online
  <2> QED  BY <2>1 DEF Service!Next, Service!Stop
<1>4. CASE Remove
  <2>1. saved' = "gone" /\ ~Online'
    BY <1>4 DEF Remove, Online
  <2> QED  BY <2>1 DEF Service!Next, Service!Remove
<1>5. CASE Next /\ ~(OperatorStop \/ Remove \/ \E i \in Instances : ConnectOk(i))
  <2>1. UNCHANGED saved
    BY <1>5 DEF Next, OperatorStart, IdleOut, Detected, ConnectAborted, ConnectFails,
       RemoteDrop, Unhealthy, TimerFires, WatchdogTick, WatchdogCheck
  <2>2. CASE Online'
    <3>1. Online
      BY <1>5, <2>2, OnlyConnectOkConnects
    <3>2. Online' = Online
      BY <2>2, <3>1 DEF Online
    <3> QED  BY <2>1, <3>2
  <2>3. CASE ~Online'
    BY <2>1, <2>3 DEF Service!Next, Service!GoOffline
  <2> QED  BY <2>2, <2>3
<1> QED  BY <1>1, <1>2, <1>3, <1>4, <1>5

\* Whatever callbacks, timers and attempts to connect interleave, the bot is on
\* the server only while it is wanted, and comes on only as Presence allows.
THEOREM PresenceImplemented == Spec => ImplementsPresence
<1>1. Init => Service!Init
  <2> SUFFICES ASSUME Init PROVE Service!Init
    OBVIOUS
  <2>1. saved \in {"on", "off"}
    BY DEF Init
  <2>2. PICK b \in Instances, booting \in BOOLEAN :
          bot = [j \in Instances |->
                  IF j = b /\ booting THEN Connecting(NewBot, "boot") ELSE NewBot]
          /\ current = b
    BY DEF Init
  <2>3. ~NewBot.connected /\ ~Connecting(NewBot, "boot").connected
    BY DEF NewBot, Connecting
  <2> QED  BY <2>1, <2>2, <2>3 DEF Service!Init, Online
<1>2. ConnectionInv /\ ConnectionInv' /\ [Next]_vars => [Service!Next]_<<saved, Online>>
  BY PresenceStep
<1> QED  BY <1>1, <1>2, ConnectionInvariant, PTL DEF Spec, ImplementsPresence, Service!Spec

=============================================================================
