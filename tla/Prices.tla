-------------------------------- MODULE Prices --------------------------------
(***************************************************************************)
(* The commodity list of the economy: a copy in memory, a row in SQLite    *)
(* that may be served although it is stale, and the request that brings a  *)
(* newer one (bot/src/economy/uex.ts, bot/src/economy/cache/store.ts).     *)
(*                                                                         *)
(* A list is the version the remote catalogue had when it was read; a copy *)
(* is fresh until its time is up, which is the same for both copies.       *)
(***************************************************************************)
EXTENDS Naturals

CONSTANTS
    Requests,      \* that can be in flight
    MaxVersion     \* bound: changes of the remote catalogue

PricesAssumption == MaxVersion \in Nat \ {0} /\ Requests # {}

VARIABLES
    remote,
    memory, row,
    request,       \* of each request, what it is doing
    last,          \* history: the version given last
    written        \* history: every write of the row has succeeded

pricesVars == <<remote, memory, row, request, last, written>>

Versions == 1..MaxVersion

\* Version 0 is none.
Copies == [version : 0..MaxVersion, fresh : BOOLEAN]
Nothing == [version |-> 0, fresh |-> FALSE]

\* fallback: the stale row a background refresh answers with when it fails.
NoRequest == [doing |-> "none", version |-> 0, fallback |-> 0, awaited |-> FALSE]

PricesTypeOK ==
    /\ remote \in Versions
    /\ memory \in Copies /\ row \in Copies
    /\ request \in [Requests -> [doing : {"none", "asking", "answered"},
                                 version : 0..MaxVersion,
                                 fallback : 0..MaxVersion, awaited : BOOLEAN]]
    /\ last \in 0..MaxVersion
    /\ written \in BOOLEAN

PricesInit ==
    /\ remote = 1
    /\ memory = Nothing /\ row = Nothing
    /\ request = [q \in Requests |-> NoRequest]
    /\ last = 0
    /\ written = TRUE

-----------------------------------------------------------------------------
(* getCommodities                                                          *)

AtRest == {q \in Requests : request[q].doing = "none"}
InFlight == Requests \ AtRest

SetOff(q, fallback, awaited) ==
    request' = [request EXCEPT ![q] = [doing |-> "asking", version |-> 0,
                                       fallback |-> fallback, awaited |-> awaited]]

\* this.inflight
NoFlag == AtRest # {}       \* mutation: the request in flight is not looked for
Alone == InFlight = {}

FromMemory ==
    /\ memory.fresh
    /\ last' = memory.version
    /\ UNCHANGED <<remote, memory, row, request, written>>

FromFreshRow ==
    /\ ~memory.fresh /\ row.fresh
    /\ memory' = row
    /\ last' = row.version
    /\ UNCHANGED <<remote, row, request, written>>

\* Stale while revalidate.
FromStaleRow ==
    /\ ~memory.fresh /\ ~row.fresh /\ row.version # 0
    /\ memory' = row
    /\ last' = row.version
    /\ IF Alone THEN \E q \in AtRest : SetOff(q, row.version, FALSE)
                ELSE UNCHANGED request
    /\ UNCHANGED <<remote, row, written>>

\* Nothing on disk: the caller waits for a request, one in flight or his own.
FromRemote ==
    /\ ~memory.fresh /\ row.version = 0
    /\ IF Alone THEN \E q \in AtRest : SetOff(q, 0, TRUE)
                ELSE \E q \in InFlight :
                       request' = [request EXCEPT ![q].awaited = TRUE]
    /\ UNCHANGED <<remote, memory, row, last, written>>

GetCommodities == FromMemory \/ FromFreshRow \/ FromStaleRow \/ FromRemote

-----------------------------------------------------------------------------

\* The service answers with what it has; the answer is on its way.
Answers(q) ==
    /\ request[q].doing = "asking"
    /\ request' = [request EXCEPT ![q].doing = "answered", ![q].version = remote]
    /\ UNCHANGED <<remote, memory, row, last, written>>

\* Writing the row may fail; memory has the list all the same.
Loaded(q) ==
    /\ request[q].doing = "answered"
    /\ memory' = [version |-> request[q].version, fresh |-> TRUE]
    /\ \/ row' = memory' /\ UNCHANGED written
       \/ UNCHANGED row /\ written' = FALSE
    /\ last' = IF request[q].awaited THEN request[q].version ELSE last
    /\ request' = [request EXCEPT ![q] = NoRequest]
    /\ UNCHANGED remote

\* Who waits gets the stale row of the refresh, or the copy in memory, if any.
Fails(q) ==
    /\ request[q].doing # "none"
    /\ LET rest == IF request[q].fallback # 0 THEN request[q].fallback
                                              ELSE memory.version
       IN  last' = IF request[q].awaited /\ rest # 0 THEN rest ELSE last
    /\ request' = [request EXCEPT ![q] = NoRequest]
    /\ UNCHANGED <<remote, memory, row, written>>

\* Time is up for both copies.
Expire ==
    /\ memory.fresh \/ row.fresh
    /\ memory' = [memory EXCEPT !.fresh = FALSE]
    /\ row' = [row EXCEPT !.fresh = FALSE]
    /\ UNCHANGED <<remote, request, last, written>>

\* pruneIfNeeded: newer rows have pushed this one out.
Prune ==
    /\ row.version # 0
    /\ row' = Nothing
    /\ UNCHANGED <<remote, memory, request, last, written>>

NewVersion ==
    /\ remote < MaxVersion
    /\ remote' = remote + 1
    /\ UNCHANGED <<memory, row, request, last, written>>

Restart ==
    /\ memory' = Nothing
    /\ request' = [q \in Requests |-> NoRequest]
    /\ UNCHANGED <<remote, row, last, written>>

PricesNext ==
    \/ GetCommodities \/ Expire \/ Prune \/ NewVersion \/ Restart
    \/ \E q \in Requests : Answers(q) \/ Loaded(q) \/ Fails(q)

PricesSpec == PricesInit /\ [][PricesNext]_pricesVars

-----------------------------------------------------------------------------

\* Nobody is given an older list than somebody before him, whichever copy it is
\* from, with answers late, requests failed, rows pruned and the bot restarted
\* (uex.ts:183-232) - unless a row could not be written: then it takes the place
\* of the newer list in memory as soon as that has expired.
NeverOlder == [][written => last' >= last]_pricesVars
===============================================================================
