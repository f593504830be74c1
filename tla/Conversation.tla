---------------------------- MODULE Conversation ----------------------------
(***************************************************************************)
(* One conversation with the language model: the questions of !ask with    *)
(* the chunks they are grounded in, the intents that may be ambiguous, and *)
(* the history both are remembered in (bot/src/llm/index.ts,               *)
(* bot/src/llm/history.ts, bot/src/memory/turn-context.ts,                 *)
(* bot/src/control/llm-path.ts, bot/src/control/clarify-service.ts).       *)
(*                                                                         *)
(* Calls of several people wait for retrieval and for the model side by    *)
(* side; history, injection log and pending questions are read and written *)
(* between two waits.                                                      *)
(***************************************************************************)
EXTENDS Naturals, SequencesExt

CONSTANTS
    Calls,          \* bound: each is made once
    Invokers, None,
    Chunks,         \* what retrieval can find
    ChunkBudget,    \* doctrineChunks
    MaxTurns,
    MaxTokens,
    WorkingTurns,
    Sizes           \* tokens of an answer; a question has one

ASSUME ConversationAssumption ==
    /\ ChunkBudget \in Nat \ {0}
    /\ MaxTurns \in Nat \ {0} /\ MaxTokens \in Nat /\ WorkingTurns \in Nat
    /\ Sizes \subseteq Nat

VARIABLES
    history,    \* the turns kept, the oldest first
    log,        \* the chunks injected so far
    pending,    \* who was asked a question back
    enabled,    \* clarify-once is switched on, for good
    stage,      \* of each call
    invoker,
    found,      \* by retrieval for a question
    given,      \* to the model with it
    asked       \* history: the invokers whose last intent was a question back

conversationVars ==
    <<history, log, pending, enabled, stage, invoker, found, given, asked>>

Turns == [call : Calls, role : {"user", "assistant"}, size : Sizes \cup {1}]

Stages == {"none", "retrieving", "asking", "intending", "questioned", "over"}

TalkTypeOK ==
    /\ history \in Seq(Turns)
    /\ log \subseteq Chunks
    /\ pending \subseteq Invokers /\ asked \subseteq Invokers
    /\ enabled \in BOOLEAN
    /\ stage \in [Calls -> Stages]
    /\ invoker \in [Calls -> Invokers \cup {None}]
    /\ found \in [Calls -> SUBSET Chunks]
    /\ given \in [Calls -> SUBSET Chunks]

-----------------------------------------------------------------------------
(* What is kept of the history, and what of it goes to the model.          *)

TokensOf(h) == FoldSeq(LAMBDA turn, sum : turn.size + sum, 0, h)

From(h, k) == SubSeq(h, k, Len(h))

Fits(h) == /\ Len(h) <= MaxTurns
           /\ Len(h) = 1 \/ TokensOf(h) <= MaxTokens

Earliest(S) == CHOOSE k \in S : \A other \in S : k <= other

\* The oldest turns go until the rest fits.
TrimNewest(h) ==        \* mutation: evicts at the other end
    SubSeq(h, 1, Len(h) + 1 - Earliest({k \in 1..Len(h) : Fits(SubSeq(h, 1, Len(h) + 1 - k))}))
Trim(h) == From(h, Earliest({k \in 1..Len(h) : Fits(From(h, k))}))

\* capWorkingTurns
Working(h) ==
    IF Len(h) <= 2 * WorkingTurns THEN h
    ELSE From(h, Len(h) + 1 - 2 * WorkingTurns)

\* appendMany: the question and its answer at once.
Recorded(c, size) ==
    Trim(history \o <<[call |-> c, role |-> "user", size |-> 1],
                      [call |-> c, role |-> "assistant", size |-> size]>>)

-----------------------------------------------------------------------------

TalkInit ==
    /\ history = <<>> /\ log = {} /\ pending = {} /\ asked = {}
    /\ enabled \in BOOLEAN
    /\ stage = [c \in Calls |-> "none"]
    /\ invoker = [c \in Calls |-> None]
    /\ found = [c \in Calls |-> {}] /\ given = [c \in Calls |-> {}]

Becomes(c, s) == stage' = [stage EXCEPT ![c] = s]

\* What a call was about is forgotten with it.
Over(c) ==
    /\ Becomes(c, "over")
    /\ invoker' = [invoker EXCEPT ![c] = None]
    /\ found' = [found EXCEPT ![c] = {}]
    /\ given' = [given EXCEPT ![c] = {}]

Ask(c) ==
    /\ stage[c] = "none"
    /\ Becomes(c, "retrieving")
    /\ UNCHANGED <<history, log, pending, enabled, invoker, found, given, asked>>

\* As many of S as the budget allows; which ones, their scores decide.
Best(S) == {P \in SUBSET S : \/ P = S /\ Cardinality(S) <= ChunkBudget
                             \/ Cardinality(P) = ChunkBudget}

\* Chunks injected before are left out, unless nothing else was found.
NothingTwice(S) == {{}}     \* mutation: not even then
Reinjected(S) == Best(S)

Retrieved(c, S) ==
    /\ stage[c] = "retrieving"
    /\ found' = [found EXCEPT ![c] = S]
    /\ IF S \subseteq log
         THEN /\ \E P \in Reinjected(S) : given' = [given EXCEPT ![c] = P]
              /\ UNCHANGED log
         ELSE \E P \in Best(S \ log) :
                /\ given' = [given EXCEPT ![c] = P]
                /\ log' = log \cup P
    /\ Becomes(c, "asking")
    /\ UNCHANGED <<history, pending, enabled, invoker, asked>>

\* Best effort: the question is asked without chunks.
RetrievalFails(c) ==
    /\ stage[c] = "retrieving"
    /\ Becomes(c, "asking")
    /\ UNCHANGED <<history, log, pending, enabled, invoker, found, given, asked>>

Answered(c, size) ==
    /\ stage[c] = "asking"
    /\ history' = Recorded(c, size)
    /\ Over(c)
    /\ UNCHANGED <<log, pending, enabled, asked>>

\* chatForIntent: no retrieval.
Intent(c, u) ==
    /\ stage[c] = "none"
    /\ invoker' = [invoker EXCEPT ![c] = u]
    /\ Becomes(c, "intending")
    /\ UNCHANGED <<history, log, pending, enabled, found, given, asked>>

\* decideClarifyOnce: an ambiguous set of tool calls is questioned once.
Clarify(u, ambiguous) == enabled /\ ambiguous /\ u \notin pending

OnlyLast(u) == {u}      \* mutation: one question pending for all
Remembered(u) == pending \cup {u}

\* The tool calls are recorded, then run or questioned.
ToolsCalled(c, ambiguous, size) ==
    /\ stage[c] = "intending"
    /\ history' = Recorded(c, size)
    /\ LET u == invoker[c]
       IN  IF Clarify(u, ambiguous)
             THEN /\ Becomes(c, "questioned")
                  /\ UNCHANGED <<invoker, found, given>>
                  /\ pending' = Remembered(u)
                  /\ asked' = asked \cup {u}
             ELSE /\ Over(c)
                  /\ pending' = pending \ {u}
                  /\ asked' = asked \ {u}
    /\ UNCHANGED <<log, enabled>>

\* The model has answered an intent in words.
Chatted(c, size) ==
    /\ stage[c] = "intending"
    /\ history' = Recorded(c, size)
    /\ Over(c)
    /\ UNCHANGED <<log, pending, enabled, asked>>

\* Failed turns and empty intents are not kept; the log of chunks stays.
ChatFails(c) ==
    /\ stage[c] \in {"asking", "intending"}
    /\ Over(c)
    /\ UNCHANGED <<history, log, pending, enabled, asked>>

\* expireStale
Expires(u) ==
    /\ u \in pending
    /\ pending' = pending \ {u} /\ asked' = asked \ {u}
    /\ UNCHANGED <<history, log, enabled, stage, invoker, found, given>>

\* Other conversations have pushed this one's log out.
LogEvicted ==
    /\ log # {}
    /\ log' = {}
    /\ UNCHANGED <<history, pending, enabled, stage, invoker, found, given, asked>>

TalkNext ==
    \/ \E c \in Calls :
         \/ Ask(c) \/ RetrievalFails(c) \/ ChatFails(c)
         \/ \E u \in Invokers : Intent(c, u)
         \/ \E S \in SUBSET Chunks : Retrieved(c, S)
         \/ \E size \in Sizes :
              \/ Answered(c, size) \/ Chatted(c, size)
              \/ \E ambiguous \in BOOLEAN : ToolsCalled(c, ambiguous, size)
    \/ \E u \in Invokers : Expires(u)
    \/ LogEvicted

TalkSpec == TalkInit /\ [][TalkNext]_conversationVars

-----------------------------------------------------------------------------

\* Every question in h is followed by its own answer.
Whole(h) ==
    \A i \in 1..Len(h) :
       h[i].role = "user" =>
          /\ i < Len(h)
          /\ h[i + 1].role = "assistant" /\ h[i + 1].call = h[i].call

\* However calls overlap and turns are evicted (history.ts:69-93), neither the
\* history nor the part of it that goes to the model has a question without its
\* answer; an answer whose question has been evicted may stand at the front.
ExchangesStayWhole == Whole(history) /\ Whole(Working(history))

\* A question whose retrieval succeeded does not go ungrounded, also when all
\* that was found has been injected before (llm/index.ts:241-252).
TurnsAreGrounded ==
    \A c \in Calls : found[c] # {} => given[c] # {}

\* Whoever has been asked back gets his next intent run, however many people
\* are asked meanwhile (clarify.ts:1-4), unless the question has expired.
AskedOnce ==
    [][\A c \in Calls :
          stage[c] # "questioned" /\ stage'[c] = "questioned" => invoker[c] \notin asked]_conversationVars
=============================================================================
