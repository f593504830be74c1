----------------------------- MODULE SessionRoles ----------------------------
(***************************************************************************)
(* Temporary server groups ("Session / ..."): a moderator's !session clear *)
(* and the automatic clear of an empty server, which share one routine     *)
(* that lists a group's members and removes them one after the other.      *)
(*                                                                         *)
(* Each poll of a connected bot counts the people on the whole server; the *)
(* count arrives later, and a list that fails counts nobody (the wrapper   *)
(* getAllClients returns an empty list, so the fallback is never used).    *)
(***************************************************************************)
CONSTANT Members     \* who may hold the temporary group

VARIABLES
    populated,   \* there are people on the server
    granted,     \* who holds the group, according to the server
    counts,      \* the counts under way: asked, or the answer
    emptyFor,    \* emptySinceMs: not set, counting, over the grace period
    inFlight,    \* autoClearInFlight
    recent,      \* the last automatic clear is less than 60 s old
    clears       \* the clears under way

vars == <<populated, granted, counts, emptyFor, inFlight, recent, clears>>

\* A clear lists the members, then removes those it listed.
Clear(by, doing, left) == [by |-> by, doing |-> doing, left |-> left]
Clears == [by : {"auto", "moderator"}, doing : {"listing", "removing"},
           left : SUBSET Members]

Init ==
    /\ populated = TRUE
    /\ granted = {}
    /\ counts = {}
    /\ emptyFor = "unset" /\ inFlight = FALSE /\ recent = FALSE
    /\ clears = {}

-----------------------------------------------------------------------------

Fills ==
    /\ populated' \in BOOLEAN
    /\ UNCHANGED <<granted, counts, emptyFor, inFlight, recent, clears>>

Grant(m) ==
    /\ granted' = granted \cup {m}
    /\ UNCHANGED <<populated, counts, emptyFor, inFlight, recent, clears>>

\* pollSessionRolesEmptyServer.
Poll ==
    /\ counts' = counts \cup {"asked"}
    /\ UNCHANGED <<populated, granted, emptyFor, inFlight, recent, clears>>

Answered(count) ==
    /\ "asked" \in counts
    /\ counts' = (counts \ {"asked"}) \cup {count}
    /\ UNCHANGED <<populated, granted, emptyFor, inFlight, recent, clears>>

Listed == Answered(IF populated THEN "people" ELSE "nobody")
ListFails == Answered("nobody")

\* onServerHumanCount with people.
CountPeople ==
    /\ "people" \in counts
    /\ counts' = counts \ {"people"}
    /\ emptyFor' = "unset"
    /\ UNCHANGED <<populated, granted, inFlight, recent, clears>>

\* onServerHumanCount with nobody there, for the first time, again, or long
\* enough: then the server is cleared, but not more than once a minute.
MayClear == emptyFor = "over" /\ ~inFlight /\ ~recent

CountNobody ==
    /\ "nobody" \in counts
    /\ counts' = counts \ {"nobody"}
    /\ emptyFor' = IF emptyFor = "unset" THEN "counting" ELSE emptyFor
    /\ inFlight' = (inFlight \/ MayClear)
    /\ recent' = (recent \/ MayClear)
    /\ clears' = clears \cup IF MayClear THEN {Clear("auto", "listing", {})} ELSE {}
    /\ UNCHANGED <<populated, granted>>

GraceOver ==
    /\ emptyFor = "counting" /\ emptyFor' = "over"
    /\ UNCHANGED <<populated, granted, counts, inFlight, recent, clears>>

MinuteOver ==
    /\ recent /\ recent' = FALSE
    /\ UNCHANGED <<populated, granted, counts, emptyFor, inFlight, clears>>

-----------------------------------------------------------------------------
(* clear().                                                                *)

SessionClear ==
    /\ clears' = clears \cup {Clear("moderator", "listing", {})}
    /\ UNCHANGED <<populated, granted, counts, emptyFor, inFlight, recent>>

MembersListed(c) ==
    /\ c.doing = "listing"
    /\ clears' = (clears \ {c}) \cup {Clear(c.by, "removing", granted)}
    /\ UNCHANGED <<populated, granted, counts, emptyFor, inFlight, recent>>

MembersNotListed(c) ==
    /\ c.doing = "listing"
    /\ clears' = (clears \ {c}) \cup {Clear(c.by, "removing", {})}
    /\ UNCHANGED <<populated, granted, counts, emptyFor, inFlight, recent>>

\* One removal succeeds or, as an error of the summary, fails.
Takes(c, m) ==
    /\ c.doing = "removing" /\ m \in c.left
    /\ clears' = (clears \ {c}) \cup {[c EXCEPT !.left = @ \ {m}]}

Removes(c, m) ==
    /\ Takes(c, m)
    /\ granted' = granted \ {m}
    /\ UNCHANGED <<populated, counts, emptyFor, inFlight, recent>>

RemoveFails(c, m) ==
    /\ Takes(c, m)
    /\ UNCHANGED <<populated, granted, counts, emptyFor, inFlight, recent>>

DoneNoFinally(c) ==     \* mutation: the flag is reset on an error only
    /\ emptyFor' = IF c.by = "auto" THEN "unset" ELSE emptyFor
    /\ inFlight' = inFlight

Done(c) ==
    /\ emptyFor' = IF c.by = "auto" THEN "unset" ELSE emptyFor
    /\ inFlight' = (inFlight /\ c.by # "auto")

ClearEnds(c) ==
    /\ c.doing = "removing" /\ c.left = {}
    /\ clears' = clears \ {c}
    /\ Done(c)
    /\ UNCHANGED <<populated, granted, counts, recent>>

Clearing ==
    \E c \in clears :
        MembersListed(c) \/ ClearEnds(c) \/ \E m \in c.left : Removes(c, m)

Settles ==
    \/ Poll \/ Listed \/ CountPeople \/ CountNobody \/ GraceOver \/ MinuteOver
    \/ Clearing

Disturbs ==
    \/ Fills \/ SessionClear \/ ListFails
    \/ \E m \in Members : Grant(m)
    \/ \E c \in clears :
         MembersNotListed(c) \/ \E m \in c.left : RemoveFails(c, m)

Next == Settles \/ Disturbs

\* Polls come while the bot is connected; lists and removals have deadlines.
Fairness ==
    /\ WF_vars(Poll) /\ WF_vars(Listed \/ ListFails)
    /\ WF_vars(CountPeople) /\ WF_vars(CountNobody)
    /\ WF_vars(GraceOver) /\ WF_vars(MinuteOver)
    /\ WF_vars(Clearing)

Spec == Init /\ [][Next]_vars /\ Fairness

-----------------------------------------------------------------------------

TypeOK ==
    /\ populated \in BOOLEAN /\ granted \subseteq Members
    /\ counts \subseteq {"asked", "people", "nobody"}
    /\ emptyFor \in {"unset", "counting", "over"}
    /\ inFlight \in BOOLEAN /\ recent \in BOOLEAN
    /\ clears \subseteq Clears

\* On a server that stays empty nobody keeps a temporary group, although clears
\* were under way when somebody was granted one and removals failed before.
RolesGoInTheEnd ==
    <>[][Settles]_vars => (<>[](~populated) => <>[](granted = {}))
=============================================================================
