-------------------------------- MODULE Relay ---------------------------------
(***************************************************************************)
(* The relay scheduler: while a profile relays a live stream there are no  *)
(* track boundaries, so bumpers come by a timer, which is set again when   *)
(* the bumper it asked for has been built or has failed.  start() and      *)
(* stop() may come while a bumper is being built.  Every start(cfg) begins *)
(* a chain of timers, named after the generation it begins in; what each   *)
(* closure of the chain captured is its gen.                               *)
(***************************************************************************)
EXTENDS Naturals

CONSTANT MaxGenerations     \* bound: calls of start and stop

RelayAssumption == MaxGenerations \in Nat

VARIABLES
    generation,
    relaying,      \* cfg is set
    handle,        \* the chain whose timer was set last, or NoChain
    chain,         \* what each chain is doing
    gen            \* the generation each chain's timer or bumper carries

relayVars == <<generation, relaying, handle, chain, gen>>

NoChain == 0
Chains == 1 .. MaxGenerations
ChainStages == {"none", "armed", "firing", "over"}

RelayTypeOK ==
    /\ generation \in 0 .. MaxGenerations
    /\ relaying \in BOOLEAN
    /\ handle \in Chains \cup {NoChain}
    /\ chain \in [Chains -> ChainStages]
    /\ gen \in [Chains -> 0 .. MaxGenerations]

RelayInit ==
    /\ generation = 0
    /\ relaying = FALSE
    /\ handle = NoChain
    /\ chain = [c \in Chains |-> "none"]
    /\ gen = [c \in Chains |-> NoChain]

-----------------------------------------------------------------------------

\* stop() clears the timer it holds, if that has not fired.
Cleared == [c \in Chains |->
              IF c = handle /\ chain[c] = "armed" THEN "over" ELSE chain[c]]

\* stop(), start(null) and a start with no interval.
RelayStop ==
    /\ generation < MaxGenerations
    /\ generation' = generation + 1
    /\ chain' = Cleared
    /\ relaying' = FALSE /\ handle' = NoChain
    /\ UNCHANGED gen

\* start(cfg): stop(), then arm() in the new generation.
RelayStart ==
    /\ generation < MaxGenerations
    /\ generation' = generation + 1
    /\ chain' = [Cleared EXCEPT ![generation'] = "armed"]
    /\ gen' = [gen EXCEPT ![generation'] = generation']
    /\ relaying' = TRUE /\ handle' = generation'

\* fire(gen) and the re-arming ask the same thing.
Live(c) == gen[c] = generation /\ relaying

\* The timer fires: onBumper is awaited, unless the scheduler has moved on.
Fires(c) ==
    /\ chain[c] = "armed"
    /\ chain' = [chain EXCEPT ![c] = IF Live(c) THEN "firing" ELSE "over"]
    /\ UNCHANGED <<generation, relaying, handle, gen>>

\* A re-arming that asks only whether something is relayed.
SettlesUnguarded(c) ==
    /\ chain[c] = "firing"
    /\ IF relaying
         THEN /\ chain' = [chain EXCEPT ![c] = "armed"]
              /\ gen' = [gen EXCEPT ![c] = generation]
              /\ handle' = c
         ELSE chain' = [chain EXCEPT ![c] = "over"] /\ UNCHANGED <<handle, gen>>
    /\ UNCHANGED <<generation, relaying>>

\* The bumper is built or has failed: the timer is set again if the
\* generation it was set in still runs.
Settles(c) ==
    /\ chain[c] = "firing"
    /\ IF Live(c)
         THEN /\ chain' = [chain EXCEPT ![c] = "armed"]
              /\ gen' = [gen EXCEPT ![c] = generation]
              /\ handle' = c
         ELSE chain' = [chain EXCEPT ![c] = "over"] /\ UNCHANGED <<handle, gen>>
    /\ UNCHANGED <<generation, relaying>>

RelayNext ==
    \/ RelayStop
    \/ RelayStart
    \/ \E c \in Chains : Fires(c) \/ Settles(c)

RelaySpec == RelayInit /\ [][RelayNext]_relayVars

-----------------------------------------------------------------------------

\* The chains that will ask for a bumper of the current schedule.
Scheduled == {c \in Chains : \/ chain[c] = "armed"
                             \/ chain[c] = "firing" /\ Live(c)}

\* While a stream is relayed exactly one chain asks for bumpers, that of the
\* last start, and none does after stop(): whatever was in flight when the
\* profile changed, bumpers never come twice as often or after the radio.
OneSchedule == Scheduled = IF relaying THEN {generation} ELSE {}
=============================================================================
