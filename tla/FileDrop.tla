------------------------------- MODULE FileDrop -------------------------------
(***************************************************************************)
(* Audio files dropped into a TeamSpeak channel: a watcher polls the       *)
(* channel, reads what the seen-set does not name, saves it in the music   *)
(* library and then records it.  The seen-set and the library survive a    *)
(* crash of the bot, the watcher and its count of failed reads do not.     *)
(* A watcher stopped in the middle of a poll finishes that poll, and the   *)
(* next one may run beside it.  A file still being uploaded is listed with *)
(* the size it has, and the size is part of the key.                       *)
(* The library numbers files of one name.  Saving one is three waits: look *)
(* for a free number, write a temporary file that is named after it, and   *)
(* rename that.  Two saves that found the same number free write the same  *)
(* temporary file.                                                         *)
(***************************************************************************)
EXTENDS Naturals, Sequences, FiniteSets

CONSTANTS
    Files,
    MaxReads,          \* MAX_DOWNLOAD_ATTEMPTS
    MaxWatchers        \* bound: watchers started, in all runs of the bot

FileDropAssumption == MaxReads \in Nat \ {0} /\ MaxWatchers \in Nat \ {0}

VARIABLES
    dropped,           \* of each file: what the channel's listing shows
    recorded,          \* the seen-set: what was recorded for each key
    library,           \* the copies of each file in the library: how much of it
    started,           \* how many watchers there have been
    watcher,           \* what each of them is doing
    toDo,              \* the keys of its listing it has not come to
    at,                \* the key it is working on
    read,              \* how much of the file it has read
    target,            \* the number under which it saves the file
    clashed,           \* history: the keys of saves that shared a number
    attempts           \* how often it failed to read each key

watcherVars == <<started, watcher, toDo, at, read, target, clashed, attempts>>
dropVars == <<dropped, recorded, library, watcherVars>>

Parts == {"partial", "whole"}
Keys == Files \X Parts
NoKey == <<>>
Watchers == 1 .. MaxWatchers
Pieces == Parts \cup {"torn"}
Busy == {"listing", "reading", "choosing", "saving", "recording"}

DropTypeOK ==
    /\ dropped \in [Files -> Parts \cup {"absent"}]
    /\ recorded \in [Keys -> {"none", "music", "skipped"}]
    /\ library \in [Files -> Seq(Pieces)]
    /\ started \in 0 .. MaxWatchers
    /\ watcher \in [Watchers -> [doing : Busy \cup {"none", "waiting"}, stopped : BOOLEAN]]
    /\ toDo \in [Watchers -> SUBSET Keys]
    /\ at \in [Watchers -> Keys \cup {NoKey}]
    /\ read \in [Watchers -> Parts]
    /\ target \in [Watchers -> Nat]
    /\ clashed \subseteq Keys
    /\ attempts \in [Watchers -> [Keys -> 0 .. MaxReads]]

DropInit ==
    /\ dropped = [f \in Files |-> "absent"]
    /\ recorded = [k \in Keys |-> "none"]
    /\ library = [f \in Files |-> <<>>]
    /\ started = 0
    /\ watcher = [w \in Watchers |-> [doing |-> "none", stopped |-> TRUE]]
    /\ toDo = [w \in Watchers |-> {}]
    /\ at = [w \in Watchers |-> NoKey]
    /\ read = [w \in Watchers |-> "partial"]
    /\ target = [w \in Watchers |-> 0]
    /\ clashed = {}
    /\ attempts = [w \in Watchers |-> [k \in Keys |-> 0]]

-----------------------------------------------------------------------------

\* A member uploads a file, and the upload is complete.
Uploading(f) ==
    /\ dropped' = [dropped EXCEPT ![f] = CASE @ = "absent" -> "partial"
                                           [] @ = "partial" -> "whole"]
    /\ UNCHANGED <<recorded, library, watcherVars>>

Uploads(f) == dropped[f] # "whole" /\ Uploading(f)

\* The watcher in charge: the knowledge service keeps one stop function.
InCharge == {w \in Watchers : ~watcher[w].stopped}

\* startFileDropWatcher.
StartWatcher ==
    /\ InCharge = {} /\ started < MaxWatchers
    /\ started' = started + 1
    /\ watcher' = [watcher EXCEPT ![started'] = [doing |-> "waiting", stopped |-> FALSE]]
    /\ UNCHANGED <<dropped, recorded, library, toDo, at, read, target, clashed, attempts>>

\* stopFileDropWatcher, on disconnecting: the timer is cleared, a poll runs on.
StopWatcher(w) ==
    /\ w \in InCharge /\ started < MaxWatchers
    /\ watcher' = [watcher EXCEPT ![w].stopped = TRUE,
                                  ![w].doing = IF @ = "waiting" THEN "none" ELSE @]
    /\ UNCHANGED <<dropped, recorded, library, started, toDo, at, read, target, clashed, attempts>>

\* What was not recorded will be saved again, and by one watcher.
Crash ==
    /\ started < MaxWatchers
    /\ \E w \in Watchers : watcher[w].doing # "none"
    /\ watcher' = [w \in Watchers |-> [doing |-> "none", stopped |-> TRUE]]
    /\ toDo' = [w \in Watchers |-> {}]
    /\ at' = [w \in Watchers |-> NoKey]
    /\ clashed' = {k \in clashed : recorded[k] # "none"}
    /\ UNCHANGED <<dropped, recorded, library, started, read, target, attempts>>

-----------------------------------------------------------------------------

Doing(w, what) == watcher' = [watcher EXCEPT ![w].doing = what]

\* A poll is over: the next is set, unless the watcher was stopped.
PollEnds(w) == Doing(w, IF watcher[w].stopped THEN "none" ELSE "waiting")

\* tick: the channel is listed.
Lists(w) ==
    /\ watcher[w].doing = "waiting"
    /\ Doing(w, "listing")
    /\ toDo' = [toDo EXCEPT ![w] = {<<f, dropped[f]>> : f \in {g \in Files : dropped[g] # "absent"}}]
    /\ UNCHANGED <<dropped, recorded, library, started, at, read, target, clashed, attempts>>

\* The next entry; one in the seen-set is passed over.
Takes(w, k) ==
    /\ watcher[w].doing = "listing" /\ k \in toDo[w]
    /\ toDo' = [toDo EXCEPT ![w] = @ \ {k}]
    /\ IF recorded[k] # "none"
         THEN UNCHANGED <<watcher, at>>
         ELSE Doing(w, "reading") /\ at' = [at EXCEPT ![w] = k]
    /\ UNCHANGED <<dropped, recorded, library, started, read, target, clashed, attempts>>

Finishes(w) ==
    /\ watcher[w].doing = "listing" /\ toDo[w] = {}
    /\ PollEnds(w)
    /\ UNCHANGED <<dropped, recorded, library, started, toDo, at, read, target, clashed, attempts>>

\* ingestChannelFile has read the file, as much as there is by now.
ReadSucceeds(w) ==
    /\ watcher[w].doing = "reading"
    /\ Doing(w, "choosing")
    /\ read' = [read EXCEPT ![w] = dropped[at[w][1]]]
    /\ UNCHANGED <<dropped, recorded, library, started, toDo, at, target, clashed, attempts>>

\* A count of failed reads that every poll begins anew.
ReadFailsUncounted(w) ==
    /\ watcher[w].doing = "reading"
    /\ Doing(w, "listing")
    /\ UNCHANGED <<dropped, recorded, library, started, toDo, at, read, target, clashed, attempts>>

\* It has not: a later poll tries again, MaxReads times in all.
ReadFails(w) ==
    LET k == at[w]
        n == attempts[w][k] + 1
    IN  /\ watcher[w].doing = "reading"
        /\ Doing(w, "listing")
        /\ attempts' = [attempts EXCEPT ![w][k] = IF n >= MaxReads THEN 0 ELSE n]
        /\ recorded' = IF n >= MaxReads
                         THEN [recorded EXCEPT ![k] = "skipped"] ELSE recorded
        /\ UNCHANGED <<dropped, library, started, toDo, at, read, target, clashed>>

\* The others that write the temporary file of copy n of the watcher's file.
Rivals(w, n) ==
    {v \in Watchers \ {w} :
        watcher[v].doing = "saving" /\ at[v][1] = at[w][1] /\ target[v] = n}

\* uploadSong decides where to save the file.
ChoosesTarget(w, n) ==
    /\ watcher[w].doing = "choosing"
    /\ Doing(w, "saving")
    /\ target' = [target EXCEPT ![w] = n]
    /\ clashed' = clashed \cup (IF Rivals(w, n) = {} THEN {}
                                ELSE {at[v] : v \in {w} \cup Rivals(w, n)})
    /\ UNCHANGED <<dropped, recorded, library, started, toDo, at, read, attempts>>

ChoosesFirst(w) == ChoosesTarget(w, 1)     \* mutation: the name is not looked up

\* The first number that no copy has yet.
Chooses(w) == ChoosesTarget(w, Len(library[at[w][1]]) + 1)

\* The temporary file is renamed to its number, which may have a copy by now.
\* Alone, the watcher has written what it has read; two that wrote the same
\* temporary file may have left anything in it, also after the first of them
\* has renamed it.
Saves(w) ==
    LET f == at[w][1]
        n == target[w]
    IN  /\ watcher[w].doing = "saving"
        /\ Doing(w, "recording")
        /\ \E copy \in IF at[w] \in clashed THEN Pieces ELSE {read[w]} :
             library' = [library EXCEPT ![f] =
                           [i \in DOMAIN @ \cup {n} |-> IF i = n THEN copy ELSE @[i]]]
        /\ UNCHANGED <<dropped, recorded, started, toDo, at, read, target, clashed, attempts>>

\* The key is recorded: the file is in the library, or could not be saved.
Records(w, result) ==
    /\ \/ result = "music" /\ watcher[w].doing = "recording"
       \/ result = "skipped" /\ watcher[w].doing \in {"choosing", "saving", "recording"}
    /\ recorded' = [recorded EXCEPT ![at[w]] = result]
    /\ attempts' = [attempts EXCEPT ![w][at[w]] = 0]
    /\ Doing(w, "listing")
    /\ UNCHANGED <<dropped, library, started, toDo, at, read, target, clashed>>

Poll(w) ==
    \/ Lists(w)
    \/ \E k \in Keys : Takes(w, k)
    \/ Finishes(w)
    \/ ReadSucceeds(w)
    \/ ReadFails(w)
    \/ Chooses(w)
    \/ Saves(w)
    \/ \E result \in {"music", "skipped"} : Records(w, result)

DropNext ==
    \/ \E f \in Files : Uploads(f)
    \/ StartWatcher
    \/ \E w \in Watchers : StopWatcher(w) \/ Poll(w)
    \/ Crash

DropSpec == DropInit /\ [][DropNext]_dropVars

\* The bot is started and connected again after a crash or a disconnection;
\* polls come by a timer and every read has a timeout.
DropFairSpec ==
    /\ DropSpec
    /\ WF_dropVars(StartWatcher)
    /\ \A w \in Watchers : WF_dropVars(Poll(w))

-----------------------------------------------------------------------------

\* What the seen-set calls music is in the library, and whole if the upload
\* was complete when it was listed: a crash between two steps, or two
\* watchers at once, may bring a file in twice, never lose it or replace it by
\* the part an older poll has read - unless two saves shared a temporary file.
Serves(copy, k) == copy \in IF k[2] = "whole" THEN {"whole"} ELSE Parts

RecordedIsKept ==
    \A k \in Keys \ clashed :
        recorded[k] = "music" =>
            \E i \in DOMAIN library[k[1]] : Serves(library[k[1]][i], k)

\* Every file whose upload is complete is recorded in the end, as music or
\* as given up, also when it can never be read.
EveryDropIsSettled ==
    <>[](\A f \in Files : dropped[f] = "whole" => recorded[<<f, "whole">>] # "none")
=============================================================================
