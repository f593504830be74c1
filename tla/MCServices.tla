------------------------------ MODULE MCServices ------------------------------
(***************************************************************************)
(* TLC instance of the services beside the queue, the engine and the       *)
(* radio: membership of the channel, session roles, the audio player, the  *)
(* relay timer, the TeamSpeak profile, the file drop, the doctrine corpus, *)
(* a conversation with the model, the ruleset in the settings and the      *)
(* commodity list.  They share no state, so one run explores them side by  *)
(* side, not interleaved: each behaviour is one service's, and the others  *)
(* keep their initial state.                                               *)
(***************************************************************************)
EXTENDS AudioPlayer, Relay, Conversation, FileDrop, Settings, Prices

CONSTANTS
    People, Channels, Away, AfkChannel, FollowOn,
    Members,
    Songs, Idle, Custom, MaxUpdates,
    Sources, Contents, Twins, Blank, Folder, MaxEdits

VARIABLES
    service,
    place, botAt, online, idleOn, idleTimer, polling, recount, seen, follows,
    afkCache, cooling,
    populated, granted, counts, emptyFor, inFlight, recent, clears,
    update, currentSong, customAvatar, jobStage, about, uploads, avatar,
    nickname, description, channelDescription, denied,
    disk, index, registry, events, timer, running, again, full, files, job,
    edits, missed, alone

Presence == INSTANCE ChannelPresence
Roles == INSTANCE SessionRoles
Shown == INSTANCE Profile WITH
    MaxGenerations <- MaxUpdates, generation <- update, stage <- jobStage
Corpus == INSTANCE Doctrine

\* Three of the shipped tokens (migrations.ts:47-110) and where they go.
ShippedTokens == {"radio", "radio.ops", "generate"}
ShippedFor == [t \in ShippedTokens |-> IF t = "radio" THEN "everybody" ELSE "dj"]
ShippedBy == [t \in ShippedTokens |-> IF t = "generate" THEN 2 ELSE 1]

ASSUME ServicesAssumption ==
    /\ Presence!PresenceAssumption
    /\ PlayerAssumption
    /\ RelayAssumption
    /\ Shown!ProfileAssumption
    /\ FileDropAssumption
    /\ Corpus!DoctrineAssumption
    /\ SettingsAssumption
    /\ PricesAssumption

presenceVars == <<place, botAt, online, idleOn, idleTimer, polling, recount,
                  seen, follows, afkCache, cooling>>
rolesVars == <<populated, granted, counts, emptyFor, inFlight, recent, clears>>
profileVars == <<update, currentSong, customAvatar, jobStage, about, uploads,
                 avatar, nickname, description, channelDescription, denied>>
corpusVars == <<disk, index, registry, events, timer, running, again, full, files,
                job, edits, missed, alone>>

allVars == <<service, presenceVars, rolesVars, audioVars, relayVars, profileVars,
             dropVars, corpusVars, conversationVars, rulesVars, pricesVars>>

Init ==
    /\ service \in {"presence", "roles", "audio", "relay", "profile", "drop",
                   "corpus", "talk", "rules", "prices"}
    /\ Presence!Init /\ Roles!Init /\ AudioInit
    /\ RelayInit /\ Shown!Init /\ DropInit
    /\ Corpus!DocInit /\ TalkInit /\ RulesInit /\ PricesInit
    /\ service # "presence" =>
         /\ place = [p \in People |-> Away] /\ ~idleOn
         /\ botAt = CHOOSE c \in Channels : c # AfkChannel
    /\ service # "profile" => ~customAvatar
    /\ service # "talk" => enabled
    /\ service # "rules" => release = 1 /\ file = Defaults
    /\ service # "corpus" => \A d \in Sources : disk[d] = None /\ index[d] = None

\* What a step of one service leaves alone.
OfPresence ==
    /\ service = "presence"
    /\ UNCHANGED <<service, rolesVars, audioVars, relayVars, profileVars,
                   dropVars, corpusVars, conversationVars, rulesVars, pricesVars>>
OfRoles ==
    /\ service = "roles"
    /\ UNCHANGED <<service, presenceVars, audioVars, relayVars, profileVars,
                   dropVars, corpusVars, conversationVars, rulesVars, pricesVars>>
OfAudio ==
    /\ service = "audio"
    /\ UNCHANGED <<service, presenceVars, rolesVars, relayVars, profileVars,
                   dropVars, corpusVars, conversationVars, rulesVars, pricesVars>>
OfRelay ==
    /\ service = "relay"
    /\ UNCHANGED <<service, presenceVars, rolesVars, audioVars, profileVars,
                   dropVars, corpusVars, conversationVars, rulesVars, pricesVars>>
OfProfile ==
    /\ service = "profile"
    /\ UNCHANGED <<service, presenceVars, rolesVars, audioVars, relayVars,
                   dropVars, corpusVars, conversationVars, rulesVars, pricesVars>>
OfDrop ==
    /\ service = "drop"
    /\ UNCHANGED <<service, presenceVars, rolesVars, audioVars, relayVars,
                   profileVars, corpusVars, conversationVars, rulesVars, pricesVars>>
OfCorpus ==
    /\ service = "corpus"
    /\ UNCHANGED <<service, presenceVars, rolesVars, audioVars, relayVars,
                   profileVars, dropVars, conversationVars, rulesVars, pricesVars>>
OfTalk ==
    /\ service = "talk"
    /\ UNCHANGED <<service, presenceVars, rolesVars, audioVars, relayVars,
                   profileVars, dropVars, corpusVars, rulesVars, pricesVars>>
OfRules ==
    /\ service = "rules"
    /\ UNCHANGED <<service, presenceVars, rolesVars, audioVars, relayVars,
                   profileVars, dropVars, corpusVars, conversationVars, pricesVars>>
OfPrices ==
    /\ service = "prices"
    /\ UNCHANGED <<service, presenceVars, rolesVars, audioVars, relayVars,
                   profileVars, dropVars, corpusVars, conversationVars, rulesVars>>

Next ==
    \/ OfPresence /\ Presence!Next
    \/ OfRoles /\ Roles!Next
    \/ OfAudio /\ AudioNext
    \/ OfRelay /\ RelayNext
    \/ OfProfile /\ Shown!Next
    \/ OfDrop /\ DropNext
    \/ OfCorpus /\ Corpus!DocNext
    \/ OfTalk /\ TalkNext
    \/ OfRules /\ RulesNext
    \/ OfPrices /\ PricesNext

\* The fairness of the services' own specifications, of the one that runs.
PresenceFair ==
    /\ WF_presenceVars(service = "presence" /\ Presence!Poll)
    /\ WF_presenceVars(service = "presence" /\
         (Presence!PollAnswered \/ Presence!PollFails))
    /\ WF_presenceVars(service = "presence" /\ Presence!PollHandled)
    /\ WF_presenceVars(service = "presence" /\
         (Presence!RecountAnswered \/ Presence!RecountFails))
    /\ WF_presenceVars(service = "presence" /\ Presence!RecountHandled)
    /\ WF_presenceVars(service = "presence" /\ Presence!IdleFires)

RolesFair ==
    /\ WF_rolesVars(service = "roles" /\ Roles!Poll)
    /\ WF_rolesVars(service = "roles" /\ (Roles!Listed \/ Roles!ListFails))
    /\ WF_rolesVars(service = "roles" /\ Roles!CountPeople)
    /\ WF_rolesVars(service = "roles" /\ Roles!CountNobody)
    /\ WF_rolesVars(service = "roles" /\ Roles!GraceOver)
    /\ WF_rolesVars(service = "roles" /\ Roles!MinuteOver)
    /\ WF_rolesVars(service = "roles" /\ Roles!Clearing)

AudioFair ==
    /\ WF_audioVars(service = "audio" /\ \E s \in Sessions : SpawnError(s))
    /\ WF_audioVars(service = "audio" /\ \E encoded \in BOOLEAN : Tick(encoded))

ProfileFair ==
    \A g \in Shown!Jobs : WF_profileVars(service = "profile" /\ Shown!Progress(g))

DropFair ==
    /\ WF_dropVars(service = "drop" /\ StartWatcher)
    /\ \A w \in Watchers : WF_dropVars(service = "drop" /\ Poll(w))

CorpusFair ==
    /\ WF_corpusVars(service = "corpus" /\
         \E e \in Sources \cup {None, Folder} : Corpus!Deliver(e))
    /\ WF_corpusVars(service = "corpus" /\ (Corpus!RunLater \/ Corpus!Run))
    /\ \A q \in Corpus!Jobs : WF_corpusVars(service = "corpus" /\ Corpus!Goes(q))

Spec == /\ Init /\ [][Next]_allVars
        /\ PresenceFair /\ RolesFair /\ AudioFair /\ ProfileFair /\ DropFair
        /\ CorpusFair

-----------------------------------------------------------------------------
(* The properties of the services, as their modules state them; those of   *)
(* the modules this one extends come with EXTENDS.                         *)

\* The radio comes to know whether it has listeners.
RadioSeesTheRoom == Presence!RadioSeesTheRoom

\* A bot with an idle timeout does not stay in an empty channel.
EmptyRoomIsLeft == Presence!EmptyRoomIsLeft

\* Temporary groups go in the end on a server that stays empty.
RolesGoInTheEnd == Roles!RolesGoInTheEnd

\* The nickname follows the music.
NicknameFollows == Shown!NicknameFollows

\* A change of the doctrine corpus reaches the knowledge base.
ChangesAreIndexed == Corpus!ChangesAreIndexed
===============================================================================
