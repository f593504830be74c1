--------------------------- MODULE ChannelPresence ---------------------------
(***************************************************************************)
(* Who is in the bot's channel, as one connected bot knows it: the 30 s    *)
(* poll and the recounts after membership events feed the radio; the poll  *)
(* alone starts and stops the idle timer and sends the bot after the crowd.*)
(*                                                                         *)
(* Every list of clients is a question to the server whose answer is older *)
(* than the moment it is used.  A list that fails is not an error here:    *)
(* the client library's wrapper returns an empty one.                      *)
(*                                                                         *)
(* Times are abstracted: a timer that runs may fire at any moment.         *)
(***************************************************************************)
EXTENDS Naturals, FiniteSets

CONSTANTS
    People, Channels,
    Away,            \* not on the server
    AfkChannel,      \* the channel that autoFollowAfkChannels names
    FollowOn         \* autoFollowEnabled

PresenceAssumption ==
    /\ Away \notin Channels
    /\ AfkChannel \in Channels
    /\ FollowOn \in BOOLEAN

VARIABLES
    place,       \* where everybody is
    botAt,       \* the bot's channel
    online,      \* the bot is connected and its poll chain active
    idleOn,      \* idleTimeoutMinutes > 0
    idleTimer,
    polling,     \* the poll: between two, asked, or its answer
    recount,     \* the recount that no later one has superseded, likewise
    seen,        \* the radio was told of humans in the channel
    follows,     \* the runs of maybeFollow that await something
    afkCache,    \* afkIdCache's entry: "unknown", "id" or the miss "null"
    cooling      \* the cooldown since the last move

vars == <<place, botAt, online, idleOn, idleTimer, polling, recount, seen,
          follows, afkCache, cooling>>

Company(c) == \E p \in People : place[p] = c
Humans(c) == Cardinality({p \in People : place[p] = c})

\* A run of maybeFollow: it awaits the server's clients, or joins a channel.
Listing == [doing |-> "listing", to |-> Away]
Joining(c) == [doing |-> "joining", to |-> c]

Init ==
    /\ place \in [People -> Channels \cup {Away}]
    /\ botAt \in Channels \ {AfkChannel}
    /\ online = TRUE
    /\ idleOn \in BOOLEAN /\ idleTimer = FALSE
    /\ polling = "resting" /\ recount = "none"
    /\ seen = FALSE
    /\ follows = {} /\ afkCache = "unknown" /\ cooling = FALSE

-----------------------------------------------------------------------------
(* People, the operator and the network.                                   *)

\* Somebody enters, leaves or moves; the notification may be missed.
Moves(p, c) ==
    /\ place[p] # c
    /\ place' = [place EXCEPT ![p] = c]
    /\ recount' \in {recount} \cup IF online THEN {"asked"} ELSE {}
    /\ UNCHANGED <<botAt, online, idleOn, idleTimer, polling, seen, follows,
                   afkCache, cooling>>

\* The idle timeout is changed in the settings.
UpdateIdleTimeout ==
    /\ idleOn' = ~idleOn
    /\ idleTimer' = (idleTimer /\ idleOn')
    /\ UNCHANGED <<place, botAt, online, polling, recount, seen, follows,
                   afkCache, cooling>>

\* disconnect() stops the poll chain and the timer; what is awaited goes on.
Offline == online' = FALSE /\ idleTimer' = FALSE

Disconnect ==
    /\ online
    /\ Offline
    /\ UNCHANGED <<place, botAt, idleOn, polling, recount, seen, follows,
                   afkCache, cooling>>

IdleFires ==
    /\ idleTimer
    /\ Offline
    /\ UNCHANGED <<place, botAt, idleOn, polling, recount, seen, follows,
                   afkCache, cooling>>

-----------------------------------------------------------------------------
(* The poll and the recount.                                               *)

Truth == IF Company(botAt) THEN "company" ELSE "empty"

Poll ==
    /\ online /\ polling = "resting"
    /\ polling' = "asked"
    /\ UNCHANGED <<place, botAt, online, idleOn, idleTimer, recount, seen,
                   follows, afkCache, cooling>>

PollAnswered ==
    /\ polling = "asked" /\ polling' = Truth
    /\ UNCHANGED <<place, botAt, online, idleOn, idleTimer, recount, seen,
                   follows, afkCache, cooling>>

PollFails ==
    /\ polling = "asked" /\ polling' = "empty"
    /\ UNCHANGED <<place, botAt, online, idleOn, idleTimer, recount, seen,
                   follows, afkCache, cooling>>

Tell(answer) == seen' = (answer = "company")

TellNobody(answer) == UNCHANGED seen     \* mutation: only membership events count
TellRadio(answer) == Tell(answer)

IdleCheckOnce(empty) ==     \* mutation: the timer is started by the first empty poll only
    idleTimer' = (empty /\ online /\ idleOn /\ ~seen /\ ~idleTimer)
IdleCheck(empty) == idleTimer' = (empty /\ (idleTimer \/ (online /\ idleOn)))

PollHandled ==
    /\ polling \in {"company", "empty"}
    /\ polling' = "resting"
    /\ TellRadio(polling)
    /\ IdleCheck(polling = "empty")
    /\ follows' = follows \cup
         IF FollowOn /\ online /\ polling = "empty" /\ ~cooling THEN {Listing} ELSE {}
    /\ UNCHANGED <<place, botAt, online, idleOn, recount, afkCache, cooling>>

RecountAnswered ==
    /\ recount = "asked" /\ recount' = Truth
    /\ UNCHANGED <<place, botAt, online, idleOn, idleTimer, polling, seen,
                   follows, afkCache, cooling>>

RecountFails ==
    /\ recount = "asked" /\ recount' = "empty"
    /\ UNCHANGED <<place, botAt, online, idleOn, idleTimer, polling, seen,
                   follows, afkCache, cooling>>

RecountHandled ==
    /\ recount \in {"company", "empty"}
    /\ recount' = "none"
    /\ Tell(recount)
    /\ UNCHANGED <<place, botAt, online, idleOn, idleTimer, polling, follows,
                   afkCache, cooling>>

-----------------------------------------------------------------------------
(* Following the crowd.                                                    *)

\* The configured AFK channel is looked up once; the lookup's miss is kept.
AfkLookup(found) == afkCache' = IF afkCache = "unknown" THEN found ELSE afkCache

Eligible(c) ==
    /\ Company(c) /\ c # botAt
    /\ c = AfkChannel => afkCache' # "id"

Busiest == {c \in Channels : Eligible(c)
                /\ \A d \in Channels : Eligible(d) => Humans(d) <= Humans(c)}

\* The list of clients is there and the AFK channel is looked up; `found` says
\* how.  A tie goes to one of the busiest.
FollowListed(found) ==
    /\ Listing \in follows
    /\ AfkLookup(found)
    /\ IF Busiest = {}
         THEN follows' = follows \ {Listing}
         ELSE \E c \in Busiest : follows' = (follows \ {Listing}) \cup {Joining(c)}
    /\ UNCHANGED <<place, botAt, online, idleOn, idleTimer, polling, recount,
                   seen, cooling>>

\* The list failed: an empty one, and the bot stays.
FollowListFails ==
    /\ Listing \in follows
    /\ follows' = follows \ {Listing}
    /\ UNCHANGED <<place, botAt, online, idleOn, idleTimer, polling, recount,
                   seen, afkCache, cooling>>

Joins(f) ==
    /\ f.doing = "joining" /\ online
    /\ follows' = follows \ {f}
    /\ botAt' = f.to
    /\ cooling' = TRUE
    /\ recount' = "asked"
    /\ UNCHANGED <<place, online, idleOn, idleTimer, polling, seen, afkCache>>

JoinRefused(f) ==
    /\ f.doing = "joining"
    /\ follows' = follows \ {f}
    /\ UNCHANGED <<place, botAt, online, idleOn, idleTimer, polling, recount,
                   seen, afkCache, cooling>>

Cooled ==
    /\ cooling /\ cooling' = FALSE
    /\ UNCHANGED <<place, botAt, online, idleOn, idleTimer, polling, recount,
                   seen, follows, afkCache>>

Settles ==
    \/ Poll \/ PollAnswered \/ PollHandled
    \/ RecountAnswered \/ RecountHandled
    \/ FollowListed("id") \/ Cooled \/ \E f \in follows : Joins(f)
    \/ IdleFires

Disturbs ==
    \/ \E p \in People, c \in Channels \cup {Away} : Moves(p, c)
    \/ UpdateIdleTimeout \/ Disconnect
    \/ PollFails \/ RecountFails
    \/ FollowListed("null") \/ FollowListFails
    \/ \E f \in follows : JoinRefused(f)

Next == Settles \/ Disturbs

\* Polls come every 30 s, commands to the server are answered, timers fire.
Fairness ==
    /\ WF_vars(Poll) /\ WF_vars(PollAnswered \/ PollFails) /\ WF_vars(PollHandled)
    /\ WF_vars(RecountAnswered \/ RecountFails) /\ WF_vars(RecountHandled)
    /\ WF_vars(IdleFires)

Spec == Init /\ [][Next]_vars /\ Fairness

-----------------------------------------------------------------------------

TypeOK ==
    /\ place \in [People -> Channels \cup {Away}]
    /\ botAt \in Channels
    /\ online \in BOOLEAN /\ idleOn \in BOOLEAN /\ idleTimer \in BOOLEAN
    /\ polling \in {"resting", "asked", "company", "empty"}
    /\ recount \in {"none", "asked", "company", "empty"}
    /\ seen \in BOOLEAN /\ cooling \in BOOLEAN
    /\ follows \subseteq {Listing} \cup {Joining(c) : c \in Channels}
    /\ afkCache \in {"unknown", "id", "null"}

Undisturbed == <>[][Settles]_vars

\* The radio comes to know whether it has listeners: missed notifications,
\* failed lists and answers in the wrong order are repaired by the poll.
RadioSeesTheRoom == Undisturbed => <>[](online => seen = Company(botAt))

\* With an idle timeout, a bot left in an empty channel does not stay there:
\* it follows people to another one or disconnects, whatever polls, recounts
\* and moves were under way when the channel emptied.
EmptyRoomIsLeft == Undisturbed => <>[](online /\ idleOn => Company(botAt))
=============================================================================
