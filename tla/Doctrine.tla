------------------------------- MODULE Doctrine -------------------------------
(***************************************************************************)
(* The doctrine corpus: documents on disk, their chunks in the vector      *)
(* store, and the registry that decides what has to be embedded anew       *)
(* (bot/src/rag/doctrine-ingest.ts, bot/src/data/doctrine.ts).  The disk   *)
(* changes under the watcher; uploads, deletions and re-indexings run      *)
(* beside it, and the sync at start-up is one of them.                     *)
(*                                                                         *)
(* Every job works through its documents one by one and waits for the      *)
(* embedding service and the vector store; disk and registry are read and  *)
(* written between two waits.  Contents are opaque: Twins are contents of  *)
(* the same length and front matter, a Blank one has no chunks.            *)
(***************************************************************************)
EXTENDS Naturals, SequencesExt

CONSTANTS
    Sources, Contents, Twins, Blank, None,
    Folder,        \* the name of an event that is not a document's
    MaxEdits       \* bound: changes on disk and commands

DoctrineAssumption ==
    /\ Twins \subseteq Contents /\ Blank \in Contents \ Twins
    /\ None \notin Contents \cup Sources
    /\ Folder \notin Sources \cup {None}
    /\ MaxEdits \in Nat

VARIABLES
    disk, index, registry,
    events,        \* of the file system, not yet delivered; None: without a name
    timer,         \* the debounce timer is armed
    running, again, full, files,   \* running, pending, pendingFull, pendingFiles
    job,           \* of the watcher and of a command
    edits,
    missed,        \* history: changed since without an event that says so
    alone          \* history: the watcher has not run during a command, nor a
                   \* command during its run, and no job has failed

watching == <<timer, running, again, full, files>>
docVars == <<disk, index, registry, events, watching, job, edits, missed, alone>>

Jobs == {"watcher", "command"}

\* What the registry keeps of a content: its size and its front matter.
Mark(c) == IF c \in Twins THEN "twins" ELSE c

InOrder(S) == SelectSeq(SetToSeq(Sources), LAMBDA s : s \in S)
OnDisk(d) == {s \in Sources : d[s] # None}

NoJob == [stage |-> "idle", todo |-> <<>>, source |-> None, content |-> None,
          list |-> "none", force |-> FALSE]

-----------------------------------------------------------------------------
(* A job goes on to its next wait, with the disk d and the registry r. *)

ShouldReingest(j, s, d, r) == j.force \/ r[s] # Mark(d[s])

Needs(j, s, d, r) ==
    IF d[s] # None THEN ShouldReingest(j, s, d, r)
                   ELSE j.list = "selective" /\ r[s] # None

\* The first listed document that needs work is worked on.
Walk(j, d, r) ==
    LET due == SelectInSeq(j.todo, LAMBDA s : Needs(j, s, d, r))
        s == j.todo[due]
    IN  IF due = 0 THEN NoJob
        ELSE [j EXCEPT !.stage = IF d[s] = None THEN "purging" ELSE "embedding",
                       !.todo = SubSeq(j.todo, due + 1, Len(j.todo)),
                       !.source = s,
                       !.content = d[s]]

\* A full sync purges its orphans first, whatever has become of them.
GoOn(j, d, r) ==
    IF j.list # "orphans" THEN Walk(j, d, r)
    ELSE IF j.todo # <<>>
           THEN [j EXCEPT !.stage = "purging", !.todo = Tail(j.todo),
                          !.source = Head(j.todo)]
           ELSE Walk([j EXCEPT !.list = "all", !.todo = InOrder(OnDisk(d))], d, r)

Sync(d, r) ==
    GoOn([NoJob EXCEPT !.list = "orphans",
                       !.todo = InOrder({s \in Sources \ OnDisk(d) : r[s] # None})], d, r)

Reindex(S, force, d, r) ==
    GoOn([NoJob EXCEPT !.list = "selective", !.todo = InOrder(S), !.force = force], d, r)

Busy(q) == job[q].stage # "idle"

\* Job q begins or goes on as j; the watcher's looks for what came meanwhile.
NoLoopback == FALSE        \* mutation: what came during a job is left for the next event
Loopback == again

Becomes(q, j) ==
    /\ job' = [job EXCEPT ![q] = j]
    /\ IF q = "watcher" /\ j.stage = "idle"
         THEN /\ running' = FALSE /\ again' = FALSE
              /\ timer' = (timer \/ Loopback)
         ELSE UNCHANGED <<running, again, timer>>

Changed(s, c) == disk' = [disk EXCEPT ![s] = c]
Noticed(s, c) == events' = IF disk[s] = c THEN events ELSE events \cup {s}

-----------------------------------------------------------------------------

\* Registry and vector store agree after an earlier run; the disk has changed
\* since, and the start-up sync is at work, if there is anything to do.
DocInit ==
    /\ disk \in [Sources -> Contents \cup {None}]
    /\ index \in [Sources -> Contents \cup {None}]
    /\ registry = [s \in Sources |-> Mark(index[s])]
    /\ events = {}
    /\ timer = FALSE /\ running = FALSE /\ again = FALSE /\ full = FALSE /\ files = {}
    /\ job = [q \in Jobs |-> IF q = "command" THEN Sync(disk, registry) ELSE NoJob]
    /\ edits = 0
    /\ missed = {} /\ alone = TRUE

\* git, scp, an editor: the event may come without a name, with the name of
\* the folder that was moved, or not at all, as for a subfolder where only the
\* top level can be watched.
Edit(s, c) ==
    /\ edits < MaxEdits
    /\ disk[s] # c
    /\ Changed(s, c)
    /\ \/ \E e \in {s, None} : events' = events \cup {e} /\ UNCHANGED missed
       \/ events' \in {events, events \cup {Folder}} /\ missed' = missed \cup {s}
    /\ edits' = edits + 1
    /\ UNCHANGED <<index, registry, watching, job, alone>>

\* onFsEvent: a name that is not a document's is ignored.
Deliver(e) ==
    /\ e \in events
    /\ events' = events \ {e}
    /\ IF e = Folder
         THEN UNCHANGED <<full, files, timer>>
         ELSE /\ full' = (full \/ e = None)
              /\ files' = IF e = None THEN {} ELSE files \cup {e}
              /\ timer' = TRUE
    /\ UNCHANGED <<disk, index, registry, running, again, job, edits, missed, alone>>

\* run, when the debounce timer fires
RunLater ==
    /\ timer /\ running
    /\ timer' = FALSE
    /\ again' = TRUE
    /\ UNCHANGED <<disk, index, registry, events, running, full, files, job, edits, missed, alone>>

Run ==
    /\ timer /\ ~running
    /\ full' = FALSE /\ files' = {}
    /\ LET j == IF full THEN Sync(disk, registry)
                        ELSE Reindex(files, FALSE, disk, registry)
       IN  /\ job' = [job EXCEPT !["watcher"] = j]
           /\ running' = (j.stage # "idle")
           /\ alone' = (alone /\ ~Busy("command"))
    /\ missed' = IF full THEN {} ELSE missed \ files
    /\ timer' = FALSE
    /\ UNCHANGED <<disk, index, registry, events, again, edits>>

-----------------------------------------------------------------------------
(* The steps of a job: what it waited for is there. *)

\* The chunks have their vectors, if there are any, and the old ones go.
Embedded(q) ==
    /\ job[q].stage = "embedding"
    /\ LET s == job[q].source  c == job[q].content
       IN  IF c = Blank
             THEN /\ registry' = [registry EXCEPT ![s] = Mark(c)]
                  /\ Becomes(q, GoOn(job[q], disk, registry'))
             ELSE /\ Becomes(q, [job[q] EXCEPT !.stage = "clearing"])
                  /\ UNCHANGED registry
    /\ UNCHANGED <<disk, index, events, full, files, edits, missed, alone>>

Cleared(q) ==
    /\ job[q].stage = "clearing"
    /\ index' = [index EXCEPT ![job[q].source] = None]
    /\ Becomes(q, [job[q] EXCEPT !.stage = "storing"])
    /\ UNCHANGED <<disk, registry, events, full, files, edits, missed, alone>>

Stored(q) ==
    /\ job[q].stage = "storing"
    /\ LET s == job[q].source  c == job[q].content
       IN  /\ index' = [index EXCEPT ![s] = c]
           /\ registry' = [registry EXCEPT ![s] = Mark(c)]
    /\ Becomes(q, GoOn(job[q], disk, registry'))
    /\ UNCHANGED <<disk, events, full, files, edits, missed, alone>>

\* The chunks are gone; the file goes with the row, also one that has come back.
Purged(q) ==
    /\ job[q].stage = "purging"
    /\ LET s == job[q].source
       IN  /\ index' = [index EXCEPT ![s] = None]
           /\ Changed(s, None) /\ Noticed(s, None)
           /\ registry' = [registry EXCEPT ![s] = None]
    /\ Becomes(q, GoOn(job[q], disk', registry'))
    /\ UNCHANGED <<full, files, edits, missed, alone>>

\* The rest of the job's documents is dropped.
Failed(q) ==
    /\ Busy(q)
    /\ Becomes(q, NoJob)
    /\ alone' = FALSE
    /\ UNCHANGED <<disk, index, registry, events, full, files, edits, missed>>

Goes(q) == Embedded(q) \/ Cleared(q) \/ Stored(q) \/ Purged(q)

-----------------------------------------------------------------------------
(* Commands: uploads and saved reports, deletions, !reindex. *)

Command(j) ==
    /\ edits < MaxEdits
    /\ ~Busy("command")
    /\ j.stage # "idle"
    /\ job' = [job EXCEPT !["command"] = j]
    /\ edits' = edits + 1
    /\ alone' = (alone /\ ~Busy("watcher"))
    /\ UNCHANGED <<index, registry, watching>>

Upload(s, c) ==
    /\ Command([NoJob EXCEPT !.stage = "embedding", !.source = s, !.content = c])
    /\ Changed(s, c) /\ Noticed(s, c)
    /\ missed' = missed \ {s}

Delete(s) ==
    /\ Command([NoJob EXCEPT !.stage = "purging", !.source = s])
    /\ missed' = missed \ {s}
    /\ UNCHANGED <<disk, events>>

ReindexAll ==
    /\ Command(Sync(disk, registry))
    /\ missed' = {}
    /\ UNCHANGED <<disk, events>>

ReindexSome(s) ==
    /\ Command(Reindex({s}, TRUE, disk, registry))
    /\ missed' = missed \ {s}
    /\ UNCHANGED <<disk, events>>

Commands ==
    \/ \E s \in Sources, c \in Contents : Upload(s, c)
    \/ \E s \in Sources : Delete(s) \/ ReindexSome(s)
    \/ ReindexAll

DocNext ==
    \/ \E s \in Sources, c \in Contents \cup {None} : Edit(s, c)
    \/ \E e \in Sources \cup {None, Folder} : Deliver(e)
    \/ RunLater \/ Run
    \/ \E q \in Jobs : Goes(q) \/ Failed(q)
    \/ Commands

\* Events are delivered, the timer fires, and services answer.
DocFair ==
    /\ WF_docVars(\E e \in Sources \cup {None, Folder} : Deliver(e))
    /\ WF_docVars(RunLater \/ Run)
    /\ \A q \in Jobs : WF_docVars(Goes(q))

DocSpec == DocInit /\ [][DocNext]_docVars /\ DocFair

-----------------------------------------------------------------------------

\* What is known of a document is what is on disk, as far as the registry can
\* tell; a document without chunks leaves its old ones behind.
Known(s) ==
    /\ registry[s] = Mark(disk[s])
    /\ disk[s] # Blank => Mark(index[s]) = Mark(disk[s])

\* Every change of the corpus that an event announces, by the document's name or
\* without one, reaches the knowledge base in the end, however it falls between a
\* job, the timer and the events of other changes (doctrine-ingest.ts:136-141) -
\* as long as jobs neither overlap nor fail, which nothing makes good.  Nothing
\* makes good either what came with a folder's name: that event is ignored
\* (doctrine-ingest.ts:206), though the comment has it start a full sync.
ChangesAreIndexed == \A s \in Sources : <>[](alone /\ s \notin missed => Known(s))

===============================================================================
