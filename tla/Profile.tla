------------------------------- MODULE Profile --------------------------------
(***************************************************************************)
(* The bot's TeamSpeak profile follows the music: avatar, nickname,        *)
(* description and channel description.  Every change of song starts an    *)
(* asynchronous update that nobody awaits; setting a custom avatar and     *)
(* connecting start jobs of their own.  The generation counter is what     *)
(* keeps an old job from speaking after a newer one.  A job is named by    *)
(* the generation it captured.  Features are all enabled; on the TS3 wire  *)
(* a command that is not waited for takes effect in the order of sending.  *)
(***************************************************************************)
EXTENDS Naturals

CONSTANTS
    Songs,
    Idle,              \* no song: also the cleared avatar, the default nickname
    Custom,            \* the picture of the custom avatar
    MaxGenerations     \* bound: song changes, custom avatars and connects

ProfileAssumption == Idle \notin Songs /\ Custom \notin Songs \cup {Idle}

VARIABLES
    generation,
    currentSong,
    customAvatar,      \* a custom avatar is set
    stage, about,      \* of each job: how far it is, and the song it is about
    uploads,           \* file transfers under way: the job and the picture
    avatar, nickname, description, channelDescription,   \* what the server shows
    denied             \* permDenied, of the features that wait for an answer

jobVars == <<stage, about, uploads>>
shown == <<avatar, nickname, description, channelDescription>>
vars == <<generation, currentSong, customAvatar, jobVars, shown, denied>>

Jobs == 1 .. MaxGenerations
Features == {"avatar", "description"}
Stages == {"none", "cover", "uploading", "deleting", "describing", "shown",
           "over", "idleUpload", "idleDelete"}

TypeOK ==
    /\ generation \in 0 .. MaxGenerations
    /\ currentSong \in Songs \cup {Idle}
    /\ customAvatar \in BOOLEAN
    /\ stage \in [Jobs -> Stages]
    /\ about \in [Jobs -> Songs \cup {Idle}]
    /\ uploads \subseteq [by : Jobs, picture : Songs \cup {Custom}]
    /\ avatar \in Songs \cup {Idle, Custom}
    /\ {nickname, description, channelDescription} \subseteq Songs \cup {Idle}
    /\ denied \subseteq Features

Init ==
    /\ generation = 0
    /\ currentSong = Idle
    /\ customAvatar \in BOOLEAN
    /\ stage = [g \in Jobs |-> "none"]
    /\ about = [g \in Jobs |-> Idle]
    /\ uploads = {}
    /\ avatar = Idle /\ nickname = Idle
    /\ description = Idle /\ channelDescription = Idle
    /\ denied = {}

-----------------------------------------------------------------------------
(* Starting jobs. *)

Bump == generation < MaxGenerations /\ generation' = generation + 1

\* doAvatarUpload of picture p, begun by the job of the next generation.
Transfer(p) == uploads' = uploads \cup {[by |-> generation', picture |-> p]}

\* updateClientProperties of job g: nickname and away status, not waited for.
\* updateDescription waits for its answer after it.
Announce(g, s) ==
    /\ nickname' = s
    /\ stage' = [stage EXCEPT ![g] = "describing"]

\* onSongChange(s).  A song without a cover has the avatar cleared, as at a stop.
SongChanges(s) ==
    /\ Bump
    /\ currentSong' = s
    /\ about' = [about EXCEPT ![generation'] = s]
    /\ \/ /\ "avatar" \in denied
          /\ Announce(generation', s)
          /\ UNCHANGED uploads
       \/ /\ "avatar" \notin denied /\ s # Idle
          /\ stage' = [stage EXCEPT ![generation'] = "cover"]
          /\ UNCHANGED <<uploads, nickname>>
       \/ /\ "avatar" \notin denied /\ customAvatar
          /\ stage' = [stage EXCEPT ![generation'] = "uploading"]
          /\ Transfer(Custom)
          /\ UNCHANGED nickname
       \/ /\ "avatar" \notin denied /\ ~customAvatar
          /\ stage' = [stage EXCEPT ![generation'] = "deleting"]
          /\ UNCHANGED <<uploads, nickname>>
    /\ UNCHANGED <<customAvatar, avatar, description, channelDescription, denied>>

\* setCustomAvatar(buffer), with b false for null.  While a song plays the
\* picture waits for the next stop.
SetCustomAvatar(b) ==
    /\ customAvatar' = b
    /\ \/ /\ currentSong # Idle
          /\ customAvatar # b
          /\ UNCHANGED <<generation, stage, uploads>>
       \/ /\ currentSong = Idle
          /\ Bump
          /\ \/ /\ b /\ "avatar" \notin denied
                /\ stage' = [stage EXCEPT ![generation'] = "idleUpload"]
                /\ Transfer(Custom)
             \/ /\ b /\ "avatar" \in denied
                /\ UNCHANGED <<stage, uploads>>
             \/ /\ ~b
                /\ stage' = [stage EXCEPT ![generation'] = "idleDelete"]
                /\ UNCHANGED uploads
    /\ UNCHANGED <<currentSong, about, shown, denied>>

\* onConnect: the new connection has the default nickname.
OnConnect ==
    /\ Bump
    /\ currentSong' = Idle /\ nickname' = Idle
    /\ denied' = {}
    /\ IF customAvatar
         THEN /\ stage' = [stage EXCEPT ![generation'] = "idleUpload"]
              /\ Transfer(Custom)
         ELSE UNCHANGED <<stage, uploads>>
    /\ UNCHANGED <<customAvatar, about, avatar, description, channelDescription>>

-----------------------------------------------------------------------------
(* What the jobs do as their answers come. *)

\* updateAvatar is over: go on unless a newer job has begun.
MovesOnUnguarded(g) == Announce(g, about[g])

MovesOn(g) ==
    IF generation = g
      THEN Announce(g, about[g])
      ELSE stage' = [stage EXCEPT ![g] = "over"] /\ UNCHANGED nickname

\* The cover is downloaded, or cannot be used.
CoverComes(g, usable) ==
    /\ stage[g] = "cover"
    /\ IF usable /\ generation = g
         THEN /\ stage' = [stage EXCEPT ![g] = "uploading"]
              /\ uploads' = uploads \cup {[by |-> g, picture |-> about[g]]}
              /\ UNCHANGED nickname
         ELSE MovesOn(g) /\ UNCHANGED uploads
    /\ UNCHANGED <<generation, currentSong, customAvatar, about, avatar,
                   description, channelDescription, denied>>

\* Whoever awaits upload u, if the timeout has not ended that, goes on.
AwaitEnds(u) ==
    CASE stage[u.by] = "uploading" -> MovesOn(u.by)
      [] stage[u.by] = "idleUpload" ->
           stage' = [stage EXCEPT ![u.by] = "over"] /\ UNCHANGED nickname
      [] OTHER -> UNCHANGED <<stage, nickname>>

\* The transfer is complete: doAvatarUpload sets client_flag_avatar.
UploadLands(u) ==
    /\ u \in uploads
    /\ uploads' = uploads \ {u}
    /\ avatar' = u.picture
    /\ AwaitEnds(u)
    /\ UNCHANGED <<generation, currentSong, customAvatar, about, description,
                   channelDescription, denied>>

\* It is refused or breaks off; after the timeout nobody takes notice.
UploadFails(u, refused) ==
    /\ u \in uploads
    /\ uploads' = uploads \ {u}
    /\ denied' = IF refused /\ stage[u.by] \in {"uploading", "idleUpload"}
                   THEN denied \cup {"avatar"} ELSE denied
    /\ AwaitEnds(u)
    /\ UNCHANGED <<generation, currentSong, customAvatar, about, avatar,
                   description, channelDescription>>

\* FILE_TRANSFER_TIMEOUT_MS: the job goes on, the transfer is not cancelled.
UploadTimeout(g) ==
    /\ stage[g] \in {"uploading", "idleUpload"}
    /\ IF stage[g] = "uploading"
         THEN MovesOn(g)
         ELSE stage' = [stage EXCEPT ![g] = "over"] /\ UNCHANGED nickname
    /\ UNCHANGED <<generation, currentSong, customAvatar, about, uploads, avatar,
                   description, channelDescription, denied>>

\* The file is deleted, or is not there, or that timed out: the flag is
\* cleared unless a newer job has begun.
DeleteEnds(g) ==
    /\ stage[g] \in {"deleting", "idleDelete"}
    /\ avatar' = IF generation = g THEN Idle ELSE avatar
    /\ IF stage[g] = "deleting"
         THEN MovesOn(g)
         ELSE stage' = [stage EXCEPT ![g] = "over"] /\ UNCHANGED nickname
    /\ UNCHANGED <<generation, currentSong, customAvatar, about, uploads,
                   description, channelDescription, denied>>

\* clientedit is answered, refused or times out; the channel description
\* is sent after it, and the update is over.
DescriptionEnds(g, outcome) ==
    /\ stage[g] = "describing"
    /\ outcome = "set" => "description" \notin denied
    /\ description' = IF outcome = "set" THEN about[g] ELSE description
    /\ denied' = IF outcome = "refused" THEN denied \cup {"description"} ELSE denied
    /\ channelDescription' = about[g]
    /\ stage' = [stage EXCEPT ![g] = "shown"]
    /\ UNCHANGED <<generation, currentSong, customAvatar, about, uploads, avatar, nickname>>

Progress(g) ==
    \/ \E usable \in BOOLEAN : CoverComes(g, usable)
    \/ UploadTimeout(g)
    \/ DeleteEnds(g)
    \/ \E outcome \in {"set", "refused", "failed"} : DescriptionEnds(g, outcome)

Next ==
    \/ \E s \in Songs \cup {Idle} : SongChanges(s)
    \/ \E b \in BOOLEAN : SetCustomAvatar(b)
    \/ OnConnect
    \/ \E g \in Jobs : Progress(g)
    \/ \E u \in uploads : UploadLands(u) \/ \E refused \in BOOLEAN : UploadFails(u, refused)

Spec == Init /\ [][Next]_vars

\* Downloads, deletions and descriptions have timeouts, uploads have only
\* the one that ends the wait.
FairSpec == Spec /\ \A g \in Jobs : WF_vars(Progress(g))

-----------------------------------------------------------------------------

Announced == {g \in Jobs : stage[g] \in {"describing", "shown"}}

Waiting == generation \in Jobs /\ stage[generation] \in {"cover", "uploading", "deleting"}

\* The nickname follows the music: once the newest song update has announced
\* itself the nickname is about its song, whatever older updates were still
\* waiting for; and a file transfer that hangs does not keep it waiting.
NicknameFollows ==
    /\ [](\A g \in Announced : generation = g => nickname = currentSong)
    /\ []<>(~Waiting) \/ []<><<generation' # generation>>_generation
=============================================================================
