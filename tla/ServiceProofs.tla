---------------------------- MODULE ServiceProofs ----------------------------
(***************************************************************************)
(* Proofs about the services beside the player: the conversation with the  *)
(* language model, the file drop, the ruleset and the commodity list.      *)
(***************************************************************************)
EXTENDS Conversation, FileDrop, Settings, Prices,
        SequenceTheorems, FiniteSetTheorems, WellFoundedInduction, TLAPS

-----------------------------------------------------------------------------
(* The conversation with the language model.                              *)

\* A set of naturals that is not empty has an earliest member.
LEMMA EarliestProperties ==
    ASSUME NEW S \in SUBSET Nat, S # {}
    PROVE  Earliest(S) \in S
<1>1. PICK k \in S : \A other \in S : ~ (<<other, k>> \in OpToRel(<, Nat))
  BY NatLessThanWellFounded, WFMin
<1>2. ASSUME NEW other \in S PROVE k <= other
  <2>1. SUFFICES ASSUME other < k PROVE FALSE
    OBVIOUS
  <2>2. <<other, k>> \in OpToRel(<, Nat)
    BY <2>1 DEF OpToRel
  <2> QED  BY <1>1, <2>2
<1> QED  BY <1>1, <1>2 DEF Earliest

\* The history is cut in front, somewhere before its last turn.
LEMMA TrimProperties ==
    ASSUME ConversationAssumption, NEW h \in Seq(Turns), h # <<>>
    PROVE  \E k \in 1..Len(h) : Trim(h) = From(h, k)
<1> DEFINE Fitting == {k \in 1..Len(h) : Fits(From(h, k))}
<1>1. Len(h) \in 1..Len(h)
  BY EmptySeq
<1>2. Len(From(h, Len(h))) = 1
  BY <1>1, SubSeqProperties, ElementOfSeq DEF From
<1>3. Fits(From(h, Len(h)))
  BY <1>2 DEF Fits, ConversationAssumption
<1>4. Fitting # {} /\ Fitting \in SUBSET Nat
  BY <1>1, <1>3
<1>5. Earliest(Fitting) \in Fitting
  BY <1>4, EarliestProperties
<1> QED  BY <1>5 DEF Trim

\* What is left of whole exchanges when they are cut in front is whole.
LEMMA CutIsWhole ==
    ASSUME NEW h \in Seq(Turns), Whole(h), NEW k \in 1..Len(h)
    PROVE  From(h, k) \in Seq(Turns) /\ Whole(From(h, k))
<1> DEFINE rest == From(h, k)
<1>1. \A i \in k..Len(h) : h[i] \in Turns
  BY ElementOfSeq
<1>2. /\ rest \in Seq(Turns)
      /\ Len(rest) = Len(h) - k + 1
      /\ \A i \in 1..Len(h) - k + 1 : rest[i] = h[k + i - 1]
  BY <1>1, SubSeqProperties DEF From
<1> HIDE DEF rest
<1>3. SUFFICES ASSUME NEW i \in 1..Len(rest), rest[i].role = "user"
               PROVE  /\ i < Len(rest)
                      /\ rest[i + 1].role = "assistant"
                      /\ rest[i + 1].call = rest[i].call
  BY <1>2 DEF Whole, rest
<1> DEFINE j == k + i - 1
<1>4. j \in 1..Len(h) /\ rest[i] = h[j]
  BY <1>2
<1>5. j < Len(h) /\ h[j + 1].role = "assistant" /\ h[j + 1].call = h[j].call
  BY <1>3, <1>4 DEF Whole
<1>6. i + 1 \in 1..Len(h) - k + 1 /\ k + (i + 1) - 1 = j + 1
  BY <1>2, <1>5
<1>7. rest[i + 1] = h[j + 1]
  BY <1>2, <1>6
<1> QED  BY <1>2, <1>4, <1>5, <1>6, <1>7

\* So is a history with one more exchange.
LEMMA RecordedIsWhole ==
    ASSUME ConversationAssumption, history \in Seq(Turns), Whole(history),
           NEW c \in Calls, NEW size \in Sizes
    PROVE  Recorded(c, size) \in Seq(Turns) /\ Whole(Recorded(c, size))
<1> DEFINE question == [call |-> c, role |-> "user", size |-> 1]
           answer == [call |-> c, role |-> "assistant", size |-> size]
           exchange == <<question, answer>>
           h == history \o exchange
<1>1. question \in Turns /\ answer \in Turns
  BY DEF Turns
<1>2. /\ exchange \in Seq(Turns) /\ Len(exchange) = 2
      /\ exchange[1] = question /\ exchange[2] = answer
  BY <1>1
<1>3. question.role = "user" /\ answer.role = "assistant" /\ question.call = answer.call
  OBVIOUS
<1>4. Recorded(c, size) = Trim(h)
  BY DEF Recorded
<1> HIDE DEF question, answer, exchange
<1>5. /\ h \in Seq(Turns) /\ Len(h) = Len(history) + 2
      /\ \A i \in 1..Len(history) + 2 :
           h[i] = IF i <= Len(history) THEN history[i] ELSE exchange[i - Len(history)]
  <2>1. /\ h \in Seq(Turns) /\ Len(h) = Len(history) + Len(exchange)
        /\ \A i \in 1..Len(history) + Len(exchange) :
             h[i] = IF i <= Len(history) THEN history[i] ELSE exchange[i - Len(history)]
    BY <1>2, ConcatProperties, Zenon
  <2> QED  BY <1>2, <2>1
<1> HIDE DEF h
<1>6. Whole(h)
  <2> SUFFICES ASSUME NEW i \in 1..Len(h), h[i].role = "user"
               PROVE  /\ i < Len(h)
                      /\ h[i + 1].role = "assistant" /\ h[i + 1].call = h[i].call
    BY DEF Whole
  <2>0. Len(history) \in Nat
    OBVIOUS
  <2>1. CASE i <= Len(history)
    <3>1. h[i] = history[i]
      BY <1>5, <2>0, <2>1
    <3>2. /\ i < Len(history)
          /\ history[i + 1].role = "assistant" /\ history[i + 1].call = history[i].call
      BY <2>0, <2>1, <3>1 DEF Whole
    <3>3. h[i + 1] = history[i + 1]
      BY <1>5, <2>0, <3>2
    <3> QED  BY <1>5, <2>0, <3>1, <3>2, <3>3
  <2>2. CASE i = Len(history) + 1
    <3>1. h[i] = question /\ h[i + 1] = answer
      BY <1>2, <1>5, <2>0, <2>2
    <3> QED  BY <1>3, <1>5, <2>0, <2>2, <3>1
  <2>3. CASE i = Len(history) + 2
    <3>1. h[i] = answer
      BY <1>2, <1>5, <2>0, <2>3
    <3> QED  BY <1>3, <3>1
  <2> QED  BY <1>5, <2>0, <2>1, <2>2, <2>3
<1>7. h # <<>>
  BY <1>5, EmptySeq
<1>8. PICK k \in 1..Len(h) : Trim(h) = From(h, k)
  BY <1>5, <1>7, TrimProperties
<1> QED  BY <1>4, <1>5, <1>6, <1>8, CutIsWhole

(* The inductive invariant. *)

\* An intent under way is somebody's.
IntentIsSomebodys ==
    \A c \in Calls : stage[c] = "intending" => invoker[c] \in Invokers

TalkInv == TalkTypeOK /\ Whole(history) /\ TurnsAreGrounded /\ IntentIsSomebodys

\* What best there is of something is something.
LEMMA BestIsSome ==
    ASSUME ConversationAssumption, NEW S, S # {}, NEW P \in Best(S)
    PROVE  P # {} /\ P \subseteq S
  BY FS_EmptySet DEF Best, ConversationAssumption

LEMMA TalkInitInv == TalkInit => TalkInv
<1> SUFFICES ASSUME TalkInit PROVE TalkInv
  OBVIOUS
<1>1. history \in Seq(Turns) /\ Whole(history)
  BY DEF TalkInit, Whole
<1> QED  BY <1>1 DEF TalkInit, TalkInv, TalkTypeOK, Stages, TurnsAreGrounded, IntentIsSomebodys

\* A call that is over: nothing was found, nothing is missing.
LEMMA OverKeeps ==
    ASSUME TalkTypeOK, TurnsAreGrounded, IntentIsSomebodys, NEW c \in Calls, Over(c)
    PROVE  /\ stage' \in [Calls -> Stages]
           /\ invoker' \in [Calls -> Invokers \cup {None}]
           /\ found' \in [Calls -> SUBSET Chunks]
           /\ given' \in [Calls -> SUBSET Chunks]
           /\ TurnsAreGrounded' /\ IntentIsSomebodys'
  BY DEF TalkTypeOK, TurnsAreGrounded, IntentIsSomebodys, Over, Becomes, Stages

LEMMA TalkStepInv ==
    ASSUME ConversationAssumption, TalkInv, [TalkNext]_conversationVars
    PROVE  TalkInv'
<1> USE DEF TalkInv
<1>1. CASE UNCHANGED conversationVars
  BY <1>1 DEF conversationVars, TalkTypeOK, Whole, TurnsAreGrounded, IntentIsSomebodys
<1>2. ASSUME NEW c \in Calls, Ask(c) PROVE TalkInv'
  BY <1>2 DEF Ask, Becomes, TalkTypeOK, Whole, TurnsAreGrounded, IntentIsSomebodys, Stages
<1>3. ASSUME NEW c \in Calls, RetrievalFails(c) PROVE TalkInv'
  BY <1>3 DEF RetrievalFails, Becomes, TalkTypeOK, Whole, TurnsAreGrounded, IntentIsSomebodys, Stages
<1>4. ASSUME NEW c \in Calls, ChatFails(c) PROVE TalkInv'
  <2>1. Over(c) /\ UNCHANGED <<history, log, pending, enabled, asked>>
    BY <1>4 DEF ChatFails
  <2> QED  BY <2>1, OverKeeps DEF TalkTypeOK, Whole
<1>5. ASSUME NEW c \in Calls, NEW u \in Invokers, Intent(c, u) PROVE TalkInv'
  BY <1>5 DEF Intent, Becomes, TalkTypeOK, Whole, TurnsAreGrounded, IntentIsSomebodys, Stages
<1>6. ASSUME NEW c \in Calls, NEW S \in SUBSET Chunks, Retrieved(c, S) PROVE TalkInv'
  <2>1. \E P \in SUBSET S :
          /\ S # {} => P # {}
          /\ given' = [given EXCEPT ![c] = P]
          /\ (log' = log) \/ (log' = log \cup P)
    <3>1. CASE S \subseteq log
      <4>1. PICK P \in Best(S) : given' = [given EXCEPT ![c] = P] /\ log' = log
        BY <1>6, <3>1 DEF Retrieved, Reinjected
      <4>2. P \in SUBSET S
        BY DEF Best
      <4> QED  BY <4>1, <4>2, BestIsSome
    <3>2. CASE ~(S \subseteq log)
      <4>1. S \ log # {}
        BY <3>2
      <4>2. PICK P \in Best(S \ log) : given' = [given EXCEPT ![c] = P] /\ log' = log \cup P
        BY <1>6, <3>2 DEF Retrieved
      <4>3. P \in SUBSET S
        BY DEF Best
      <4> QED  BY <4>1, <4>2, <4>3, BestIsSome
    <3> QED  BY <3>1, <3>2
  <2> PICK P \in SUBSET S :
          /\ S # {} => P # {}
          /\ given' = [given EXCEPT ![c] = P]
          /\ (log' = log) \/ (log' = log \cup P)
    BY <2>1
  <2>2. /\ found' = [found EXCEPT ![c] = S]
        /\ stage' = [stage EXCEPT ![c] = "asking"]
        /\ UNCHANGED <<history, pending, enabled, invoker, asked>>
    BY <1>6 DEF Retrieved, Becomes
  <2>3. log' \subseteq Chunks /\ P \subseteq Chunks
    BY DEF TalkTypeOK
  <2>4. TalkTypeOK'
    BY <2>2, <2>3 DEF TalkTypeOK, Stages
  <2>5. TurnsAreGrounded'
    BY <2>2 DEF TurnsAreGrounded, TalkTypeOK
  <2>6. IntentIsSomebodys'
    BY <2>2 DEF IntentIsSomebodys, TalkTypeOK
  <2> QED  BY <2>2, <2>4, <2>5, <2>6 DEF Whole
<1>7. ASSUME NEW c \in Calls, NEW size \in Sizes, Answered(c, size) \/ Chatted(c, size)
      PROVE  TalkInv'
  <2>1. /\ Over(c) /\ history' = Recorded(c, size)
        /\ UNCHANGED <<log, pending, enabled, asked>>
    BY <1>7 DEF Answered, Chatted
  <2>2. history' \in Seq(Turns) /\ Whole(history')
    BY <2>1, RecordedIsWhole DEF TalkTypeOK
  <2> QED  BY <2>1, <2>2, OverKeeps DEF TalkTypeOK, Whole
<1>8. ASSUME NEW c \in Calls, NEW size \in Sizes, NEW ambiguous \in BOOLEAN,
             ToolsCalled(c, ambiguous, size)
      PROVE  TalkInv'
  <2>1. history' = Recorded(c, size) /\ UNCHANGED <<log, enabled>>
    BY <1>8 DEF ToolsCalled
  <2>2. history' \in Seq(Turns) /\ Whole(history')
    BY <2>1, RecordedIsWhole DEF TalkTypeOK
  <2>3. invoker[c] \in Invokers
    BY <1>8 DEF ToolsCalled, IntentIsSomebodys
  <2>4. CASE Clarify(invoker[c], ambiguous)
    <3>1. /\ stage' = [stage EXCEPT ![c] = "questioned"]
          /\ UNCHANGED <<invoker, found, given>>
          /\ pending' = pending \cup {invoker[c]} /\ asked' = asked \cup {invoker[c]}
      BY <1>8, <2>4 DEF ToolsCalled, Becomes, Remembered
    <3> QED  BY <2>1, <2>2, <2>3, <3>1
             DEF TalkTypeOK, Stages, TurnsAreGrounded, IntentIsSomebodys
  <2>5. CASE ~ Clarify(invoker[c], ambiguous)
    <3>1. /\ Over(c)
          /\ pending' = pending \ {invoker[c]} /\ asked' = asked \ {invoker[c]}
      BY <1>8, <2>5 DEF ToolsCalled
    <3> QED  BY <2>1, <2>2, <3>1, OverKeeps DEF TalkTypeOK
  <2> QED  BY <2>4, <2>5
<1>9. ASSUME NEW u \in Invokers, Expires(u) PROVE TalkInv'
  BY <1>9 DEF Expires, TalkTypeOK, Whole, TurnsAreGrounded, IntentIsSomebodys
<1>10. CASE LogEvicted
  BY <1>10 DEF LogEvicted, TalkTypeOK, Whole, TurnsAreGrounded, IntentIsSomebodys
<1> QED
  BY <1>1, <1>2, <1>3, <1>4, <1>5, <1>6, <1>7, <1>8, <1>9, <1>10 DEF TalkNext

\* The invariant of a conversation: its types, a whole history, grounded turns.
THEOREM TalkInvariant == TalkSpec => []TalkInv
<1>1. TalkInit => TalkInv
  BY TalkInitInv
<1>2. TalkInv /\ [TalkNext]_conversationVars => TalkInv'
  BY ConversationAssumption, TalkStepInv
<1> QED  BY <1>1, <1>2, PTL DEF TalkSpec

\* The variables are of the types the code's declarations give them.
THEOREM TalkTypeCorrect == TalkSpec => []TalkTypeOK
<1>1. TalkInv => TalkTypeOK
  BY DEF TalkInv
<1> QED  BY <1>1, TalkInvariant, PTL

\* No question whose retrieval succeeded goes ungrounded, whatever was injected
\* before and however the calls interleave (llm/index.ts:241-252).
THEOREM Grounded == TalkSpec => []TurnsAreGrounded
<1>1. TalkInv => TurnsAreGrounded
  BY DEF TalkInv
<1> QED  BY <1>1, TalkInvariant, PTL

\* What goes to the model of whole exchanges is whole: it is cut in front too.
LEMMA WorkingIsWhole ==
    ASSUME ConversationAssumption, NEW h \in Seq(Turns), Whole(h)
    PROVE  Whole(Working(h))
<1>1. CASE Len(h) <= 2 * WorkingTurns
  BY <1>1 DEF Working
<1>2. CASE ~ (Len(h) <= 2 * WorkingTurns)
  <2> DEFINE k == Len(h) + 1 - 2 * WorkingTurns
  <2>1. Working(h) = From(h, k)
    BY <1>2 DEF Working
  <2>2. CASE WorkingTurns = 0
    <3>1. Len(From(h, k)) = 0
      BY <2>2, SubSeqProperties, ElementOfSeq DEF From
    <3> QED  BY <2>1, <3>1 DEF Whole
  <2>3. CASE WorkingTurns # 0
    <3>1. k \in 1..Len(h)
      BY <1>2, <2>3 DEF ConversationAssumption
    <3> QED  BY <2>1, <3>1, CutIsWhole
  <2> QED  BY <2>2, <2>3
<1> QED  BY <1>1, <1>2

\* However calls overlap and turns are evicted (history.ts:69-93), there is no
\* question without its answer, in the history and in what goes to the model.
THEOREM HistoryStaysWhole == TalkSpec => []ExchangesStayWhole
<1>1. TalkInv => ExchangesStayWhole
  BY ConversationAssumption, WorkingIsWhole DEF TalkInv, TalkTypeOK, ExchangesStayWhole
<1> QED  BY <1>1, TalkInvariant, PTL

\* Every question that waits for an answer is still pending.
AskedIsPending == asked \subseteq pending

\* Only an ambiguous intent of somebody who is not pending is questioned.
LEMMA QuestionedStep ==
    ASSUME TalkInv, AskedIsPending, [TalkNext]_conversationVars
    PROVE  /\ AskedIsPending'
           /\ \A c \in Calls : stage[c] # "questioned" /\ stage'[c] = "questioned" =>
                invoker[c] \notin asked
<1> DEFINE Unasked == \A c \in Calls : stage[c] # "questioned" /\ stage'[c] = "questioned" =>
                        invoker[c] \notin asked
<1>0. stage \in [Calls -> Stages]
  BY DEF TalkInv, TalkTypeOK
<1>1. ASSUME UNCHANGED <<pending, asked>>,
             \/ UNCHANGED stage
             \/ \E c \in Calls : \E s \in Stages \ {"questioned"} : Becomes(c, s)
      PROVE  AskedIsPending' /\ Unasked
  <2>1. Unasked
    BY <1>0, <1>1 DEF Becomes
  <2> QED  BY <1>1, <2>1 DEF AskedIsPending
<1>2. ASSUME NEW c \in Calls, Ask(c) \/ RetrievalFails(c) \/ ChatFails(c)
      PROVE  AskedIsPending' /\ Unasked
  BY <1>1, <1>2 DEF Ask, RetrievalFails, ChatFails, Over, Stages
<1>3. ASSUME NEW c \in Calls,
             \/ \E u \in Invokers : Intent(c, u)
             \/ \E S \in SUBSET Chunks : Retrieved(c, S)
      PROVE  AskedIsPending' /\ Unasked
  BY <1>1, <1>3 DEF Intent, Retrieved, Stages
<1>4. ASSUME NEW c \in Calls, NEW size \in Sizes, Answered(c, size) \/ Chatted(c, size)
      PROVE  AskedIsPending' /\ Unasked
  BY <1>1, <1>4 DEF Answered, Chatted, Over, Stages
<1>5. ASSUME NEW c \in Calls, NEW size \in Sizes, NEW ambiguous \in BOOLEAN,
             ToolsCalled(c, ambiguous, size)
      PROVE  AskedIsPending' /\ Unasked
  <2> DEFINE u == invoker[c]
  <2>1. CASE Clarify(u, ambiguous)
    <3>1. /\ u \notin pending /\ stage' = [stage EXCEPT ![c] = "questioned"]
          /\ pending' = pending \cup {u} /\ asked' = asked \cup {u}
      BY <1>5, <2>1 DEF ToolsCalled, Clarify, Becomes, Remembered
    <3>2. \A d \in Calls : stage[d] # "questioned" /\ stage'[d] = "questioned" => d = c
      BY <1>0, <3>1
    <3>3. u \notin asked
      BY <3>1 DEF AskedIsPending
    <3> QED  BY <3>1, <3>2, <3>3 DEF AskedIsPending
  <2>2. CASE ~Clarify(u, ambiguous)
    <3>1. /\ stage' = [stage EXCEPT ![c] = "over"]
          /\ pending' = pending \ {u} /\ asked' = asked \ {u}
      BY <1>5, <2>2 DEF ToolsCalled, Over, Becomes
    <3>2. Unasked
      BY <1>0, <3>1
    <3> QED  BY <3>1, <3>2 DEF AskedIsPending
  <2> QED  BY <2>1, <2>2
<1>6. ASSUME (\E u \in Invokers : Expires(u)) \/ LogEvicted \/ UNCHANGED conversationVars
      PROVE  AskedIsPending' /\ Unasked
  <2>1. UNCHANGED stage /\ AskedIsPending'
    BY <1>6 DEF Expires, LogEvicted, conversationVars, AskedIsPending
  <2> QED  BY <2>1
<1> QED  BY <1>2, <1>3, <1>4, <1>5, <1>6 DEF TalkNext

\* However many people are asked back meanwhile, nobody is questioned a second
\* time before an intent of his has run or the question has expired
\* (clarify.ts:1-4).
THEOREM NobodyIsAskedTwice == TalkSpec => AskedOnce
<1>1. TalkInit => AskedIsPending
  BY DEF TalkInit, AskedIsPending
<1>2. TalkInv /\ AskedIsPending /\ [TalkNext]_conversationVars => AskedIsPending'
  BY QuestionedStep
<1>3. TalkInv /\ AskedIsPending /\ [TalkNext]_conversationVars =>
        [\A c \in Calls :
           stage[c] # "questioned" /\ stage'[c] = "questioned" =>
             invoker[c] \notin asked]_conversationVars
  BY QuestionedStep
<1> QED  BY <1>1, <1>2, <1>3, TalkInvariant, PTL DEF TalkSpec, AskedOnce

-----------------------------------------------------------------------------
(* The file drop.                                                          *)

\* A key names what the channel has shown: a file of which there is something,
\* and all of it if the key says so.  Uploads only grow.
Listed(k) ==
    /\ k \in Keys
    /\ dropped[k[1]] # "absent"
    /\ k[2] = "whole" => dropped[k[1]] = "whole"

\* So what a watcher has read is no less than its key says.
Sound(w) ==
    /\ \A k \in toDo[w] : Listed(k)
    /\ watcher[w].doing \in {"reading", "choosing", "saving", "recording"} => Listed(at[w])
    /\ watcher[w].doing \in {"choosing", "saving"} /\ at[w][2] = "whole" => read[w] = "whole"

WorkIsSound == \A w \in Watchers : Sound(w)

Saving(w) == watcher[w].doing = "saving"
Holds(w) == Len(library[at[w][1]])     \* how many copies there are of w's file

\* Who saves a file has found its number free.  It still is, and nobody else
\* has it, unless two saves clashed.
SavesAreApart ==
    /\ \A w \in Watchers : Saving(w) => target[w] \in 1 .. Holds(w) + 1
    /\ \A w \in Watchers : Saving(w) /\ at[w] \notin clashed => target[w] = Holds(w) + 1
    /\ \A v, w \in Watchers :
         Saving(v) /\ Saving(w) /\ v # w /\ at[v][1] = at[w][1] /\ target[v] = target[w]
           => at[v] \in clashed /\ at[w] \in clashed

\* A copy that serves for the key, and that nobody is about to replace.
Stored(k) ==
    \E i \in DOMAIN library[k[1]] :
        /\ Serves(library[k[1]][i], k)
        /\ \A w \in Watchers : ~ (Saving(w) /\ at[w][1] = k[1] /\ target[w] = i)

Claimed(k) ==
    \/ recorded[k] = "music"
    \/ \E w \in Watchers : watcher[w].doing = "recording" /\ at[w] = k

ClaimsAreStored == \A k \in Keys \ clashed : Claimed(k) => Stored(k)

DropInv == DropTypeOK /\ WorkIsSound /\ SavesAreApart /\ ClaimsAreStored

Jobs == [doing : Busy \cup {"none", "waiting"}, stopped : BOOLEAN]

LEMMA DropInitInv == ASSUME FileDropAssumption, DropInit PROVE DropInv
<1>1. DropTypeOK
  <2>1. [doing |-> "none", stopped |-> TRUE] \in Jobs
    BY DEF Jobs
  <2>2. [k \in Keys |-> 0] \in [Keys -> 0 .. MaxReads]
    BY DEF FileDropAssumption
  <2>3. <<>> \in Seq(Pieces)
    OBVIOUS
  <2> QED
    BY <2>1, <2>2, <2>3 DEF DropInit, DropTypeOK, FileDropAssumption, Parts, Jobs
<1>2. \A w \in Watchers : toDo[w] = {} /\ watcher[w].doing = "none"
  BY DEF DropInit
<1>3. WorkIsSound
  BY <1>2 DEF WorkIsSound, Sound
<1>4. SavesAreApart /\ ClaimsAreStored
  BY <1>2 DEF DropInit, SavesAreApart, Saving, ClaimsAreStored, Claimed
<1> QED  BY <1>1, <1>3, <1>4 DEF DropInv

\* A step of one watcher that neither records nor takes anything back.
LEMMA Doing1 ==
    ASSUME DropTypeOK, NEW w \in Watchers, NEW what \in Busy \cup {"none", "waiting"},
           Doing(w, what)
    PROVE  /\ watcher' \in [Watchers -> Jobs]
           /\ watcher'[w].doing = what
           /\ \A v \in Watchers \ {w} : watcher'[v] = watcher[v]
<1>1. watcher \in [Watchers -> Jobs] /\ watcher[w] \in Jobs
  BY DEF DropTypeOK, Jobs
<1>2. [watcher[w] EXCEPT !.doing = what] \in Jobs /\ [watcher[w] EXCEPT !.doing = what].doing = what
  BY <1>1 DEF Jobs
<1>3. watcher' = [watcher EXCEPT ![w] = [watcher[w] EXCEPT !.doing = what]]
  BY <1>1 DEF Doing
<1> QED  BY <1>1, <1>2, <1>3

\* The library is as it was, nobody has begun to save or has saved, and what is
\* newly recorded had been saved.
LEMMA LibraryLeftAlone ==
    ASSUME SavesAreApart, ClaimsAreStored, UNCHANGED <<library, target, clashed>>,
           \A v \in Watchers : watcher'[v].doing \in {"saving", "recording"} =>
             watcher'[v].doing = watcher[v].doing /\ at'[v] = at[v],
           \A k \in Keys : recorded'[k] = "music" => Claimed(k)
    PROVE  SavesAreApart' /\ ClaimsAreStored'
<1>1. \A v \in Watchers : Saving(v)' => Saving(v) /\ at'[v] = at[v]
  BY DEF Saving
<1>2. SavesAreApart'
  BY <1>1 DEF SavesAreApart, Holds
<1>3. ASSUME NEW k \in Keys \ clashed, Claimed(k)' PROVE Stored(k)'
  <2>1. Claimed(k)
    BY <1>3 DEF Claimed
  <2>2. Stored(k)
    BY <2>1 DEF ClaimsAreStored
  <2> QED  BY <1>1, <2>2 DEF Stored
<1> QED  BY <1>2, <1>3 DEF ClaimsAreStored

LEMMA DropStepInv ==
    ASSUME FileDropAssumption, DropInv, [DropNext]_dropVars
    PROVE  DropInv'
<1> USE DEF DropInv
<1>0. watcher \in [Watchers -> Jobs]
  BY DEF DropTypeOK, Jobs
<1>a. library \in [Files -> Seq(Pieces)]
  BY DEF DropTypeOK
<1>b. \A k \in Keys : k[1] \in Files
  BY DEF Keys
<1>1. ASSUME NEW f \in Files, Uploads(f) PROVE DropInv'
  <2>1. /\ dropped' \in [Files -> Parts \cup {"absent"}]
        /\ \A g \in Files : dropped[g] # "absent" => dropped'[g] # "absent"
        /\ \A g \in Files : dropped[g] = "whole" => dropped'[g] = "whole"
    <3>1. dropped[f] \in {"absent", "partial"}
      BY <1>1 DEF Uploads, DropTypeOK, Parts
    <3>2. dropped' = [dropped EXCEPT ![f] = IF dropped[f] = "absent" THEN "partial" ELSE "whole"]
      BY <1>1, <3>1 DEF Uploads, Uploading, DropTypeOK
    <3> QED  BY <3>1, <3>2 DEF DropTypeOK, Parts
  <2>2. UNCHANGED <<recorded, library, started, watcher, toDo, at, read, target, clashed, attempts>>
    BY <1>1 DEF Uploads, Uploading, watcherVars
  <2>3. DropTypeOK'
    BY <2>1, <2>2 DEF DropTypeOK
  <2>4. \A k : Listed(k) => Listed(k)'
    BY <2>1 DEF Listed, Keys
  <2>5. WorkIsSound'
    BY <2>2, <2>4 DEF WorkIsSound, Sound
  <2>6. SavesAreApart' /\ ClaimsAreStored'
    BY <2>2, LibraryLeftAlone DEF Claimed
  <2> QED  BY <2>3, <2>5, <2>6
<1>2. CASE StartWatcher
  <2>1. started + 1 \in Watchers
    BY <1>2 DEF StartWatcher, DropTypeOK, Watchers, FileDropAssumption
  <2>2. /\ watcher' = [watcher EXCEPT ![started + 1] = [doing |-> "waiting", stopped |-> FALSE]]
        /\ started' = started + 1
        /\ UNCHANGED <<dropped, recorded, library, toDo, at, read, target, clashed, attempts>>
    BY <1>2 DEF StartWatcher
  <2>3. watcher' \in [Watchers -> Jobs]
    BY <1>0, <2>1, <2>2 DEF Jobs
  <2>4. DropTypeOK'
    BY <2>1, <2>2, <2>3 DEF DropTypeOK, Jobs, Watchers
  <2>5. \A v \in Watchers : watcher'[v] = watcher[v] \/ watcher'[v].doing = "waiting"
    BY <1>0, <2>1, <2>2
  <2>6. WorkIsSound'
    BY <2>2, <2>5 DEF WorkIsSound, Sound, Listed
  <2>7. SavesAreApart' /\ ClaimsAreStored'
    BY <2>2, <2>5, LibraryLeftAlone DEF Claimed
  <2> QED  BY <2>4, <2>6, <2>7
<1>3. ASSUME NEW w \in Watchers, StopWatcher(w) PROVE DropInv'
  <2>1. UNCHANGED <<dropped, recorded, library, started, toDo, at, read, target, clashed, attempts>>
    BY <1>3 DEF StopWatcher
  <2>2. /\ watcher' \in [Watchers -> Jobs]
        /\ \A v \in Watchers : watcher'[v].doing \in {watcher[v].doing, "none"}
    <3> DEFINE job == [watcher[w] EXCEPT !.stopped = TRUE,
                         !.doing = IF watcher[w].doing = "waiting" THEN "none" ELSE watcher[w].doing]
    <3>1. job \in Jobs /\ job.doing \in {watcher[w].doing, "none"}
      BY <1>0 DEF Jobs, Busy
    <3>2. watcher' = [watcher EXCEPT ![w] = job]
      BY <1>0, <1>3 DEF StopWatcher, Jobs
    <3> HIDE DEF job
    <3> QED  BY <1>0, <3>1, <3>2
  <2>3. DropTypeOK'
    BY <2>1, <2>2 DEF DropTypeOK, Jobs
  <2>4. WorkIsSound'
    BY <2>1, <2>2 DEF WorkIsSound, Sound, Listed
  <2>5. SavesAreApart' /\ ClaimsAreStored'
    BY <2>1, <2>2, LibraryLeftAlone DEF Claimed
  <2> QED  BY <2>3, <2>4, <2>5
<1>4. CASE Crash
  <2>1. /\ UNCHANGED <<dropped, recorded, library, started, read, target, attempts>>
        /\ watcher' = [w \in Watchers |-> [doing |-> "none", stopped |-> TRUE]]
        /\ toDo' = [w \in Watchers |-> {}] /\ at' = [w \in Watchers |-> NoKey]
        /\ clashed' = {k \in clashed : recorded[k] # "none"}
    BY <1>4 DEF Crash
  <2>2. [doing |-> "none", stopped |-> TRUE] \in Jobs
    BY DEF Jobs
  <2>3. DropTypeOK'
    BY <2>1, <2>2 DEF DropTypeOK, Jobs
  <2>4. WorkIsSound'
    BY <2>1 DEF WorkIsSound, Sound
  <2>5. SavesAreApart'
    BY <2>1 DEF SavesAreApart, Saving
  <2>6. ASSUME NEW k \in Keys \ clashed', Claimed(k)' PROVE Stored(k)'
    <3>1. recorded[k] = "music" /\ k \notin clashed
      BY <2>1, <2>6 DEF Claimed
    <3>2. Stored(k)
      BY <3>1, <2>6 DEF ClaimsAreStored, Claimed
    <3> QED  BY <2>1, <3>2 DEF Stored, Saving
  <2>7. ClaimsAreStored'
    BY <2>6 DEF ClaimsAreStored
  <2> QED  BY <2>3, <2>4, <2>5, <2>7
<1>5. ASSUME NEW w \in Watchers, Lists(w) PROVE DropInv'
  <2> DEFINE shown == {<<f, dropped[f]>> : f \in {g \in Files : dropped[g] # "absent"}}
  <2>1. \A k \in shown : Listed(k)
    BY DEF Listed, Keys, DropTypeOK
  <2>2. shown \in SUBSET Keys
    BY <2>1 DEF Listed
  <2>3. /\ toDo' = [toDo EXCEPT ![w] = shown] /\ Doing(w, "listing")
        /\ UNCHANGED <<dropped, recorded, library, started, at, read, target, clashed, attempts>>
    BY <1>5 DEF Lists
  <2> HIDE DEF shown
  <2>4. DropTypeOK'
    BY <2>2, <2>3, Doing1 DEF DropTypeOK, Jobs, Busy
  <2>5. WorkIsSound'
    BY <2>1, <2>3, Doing1 DEF WorkIsSound, Sound, Listed, DropTypeOK, Busy
  <2>6. SavesAreApart' /\ ClaimsAreStored'
    <3>1. watcher'[w].doing = "listing" /\ \A v \in Watchers \ {w} : watcher'[v] = watcher[v]
      BY <2>3, Doing1 DEF Busy
    <3> QED  BY <2>3, <3>1, LibraryLeftAlone DEF Claimed
  <2> QED  BY <2>4, <2>5, <2>6
<1>6. ASSUME NEW w \in Watchers, NEW k \in Keys, Takes(w, k) PROVE DropInv'
  <2>1. /\ k \in toDo[w] /\ toDo' = [toDo EXCEPT ![w] = @ \ {k}]
        /\ UNCHANGED <<dropped, recorded, library, started, read, target, clashed, attempts>>
    BY <1>6 DEF Takes
  <2>2. Listed(k) /\ \A v \in Watchers : toDo'[v] \subseteq toDo[v]
    BY <2>1 DEF WorkIsSound, Sound, DropTypeOK
  <2>3. CASE UNCHANGED <<watcher, at>>
    <3>1. DropTypeOK' /\ WorkIsSound'
      BY <2>1, <2>2, <2>3 DEF DropTypeOK, WorkIsSound, Sound, Listed
    <3>2. SavesAreApart' /\ ClaimsAreStored'
      BY <2>1, <2>3, LibraryLeftAlone DEF Claimed
    <3> QED  BY <3>1, <3>2
  <2>4. CASE Doing(w, "reading") /\ at' = [at EXCEPT ![w] = k]
    <3>1. DropTypeOK'
      BY <2>1, <2>4, Doing1 DEF DropTypeOK, Jobs, Busy
    <3>2. /\ watcher'[w].doing = "reading" /\ at'[w] = k
          /\ \A v \in Watchers \ {w} : watcher'[v] = watcher[v] /\ at'[v] = at[v]
      BY <2>4, Doing1 DEF DropTypeOK, Busy
    <3>3. WorkIsSound'
      <4>1. Sound(w)'
        <5>1. \A j \in toDo[w] : Listed(j)
          BY DEF WorkIsSound, Sound
        <5>2. \A j : Listed(j) => Listed(j)'
          BY <2>1 DEF Listed
        <5> QED  BY <2>2, <3>2, <5>1, <5>2 DEF Sound
      <4>2. ASSUME NEW v \in Watchers, v # w PROVE Sound(v)'
        BY <2>1, <2>2, <3>2, <4>2 DEF WorkIsSound, Sound, Listed
      <4> QED  BY <4>1, <4>2 DEF WorkIsSound
    <3>4. SavesAreApart' /\ ClaimsAreStored'
      BY <2>1, <3>2, LibraryLeftAlone DEF Claimed
    <3> QED  BY <3>1, <3>3, <3>4
  <2> QED  BY <1>6, <2>3, <2>4 DEF Takes
<1>7. ASSUME NEW w \in Watchers, Finishes(w) PROVE DropInv'
  <2>1. PICK what \in {"none", "waiting"} : Doing(w, what)
    BY <1>7 DEF Finishes, PollEnds
  <2>2. UNCHANGED <<dropped, recorded, library, started, toDo, at, read, target, clashed, attempts>>
    BY <1>7 DEF Finishes
  <2>3. DropTypeOK'
    BY <2>1, <2>2, Doing1 DEF DropTypeOK, Jobs
  <2>4. watcher'[w].doing = what /\ \A v \in Watchers \ {w} : watcher'[v] = watcher[v]
    BY <2>1, Doing1
  <2>5. WorkIsSound'
    BY <2>2, <2>4 DEF WorkIsSound, Sound, Listed
  <2>6. SavesAreApart' /\ ClaimsAreStored'
    BY <2>2, <2>4, LibraryLeftAlone DEF Claimed
  <2> QED  BY <2>3, <2>5, <2>6
<1>8. ASSUME NEW w \in Watchers, ReadSucceeds(w) PROVE DropInv'
  <2>1. /\ watcher[w].doing = "reading" /\ Doing(w, "choosing")
        /\ read' = [read EXCEPT ![w] = dropped[at[w][1]]]
        /\ UNCHANGED <<dropped, recorded, library, started, toDo, at, target, clashed, attempts>>
    BY <1>8 DEF ReadSucceeds
  <2>2. Listed(at[w])
    BY <2>1 DEF WorkIsSound, Sound
  <2>3. dropped[at[w][1]] \in Parts
    BY <2>2 DEF Listed, Keys, DropTypeOK
  <2>4. DropTypeOK'
    BY <2>1, <2>3, Doing1 DEF DropTypeOK, Jobs, Busy
  <2>5. WorkIsSound'
    <3>1. Sound(w)'
      <4>1. /\ watcher'[w].doing = "choosing" /\ at'[w] = at[w] /\ toDo'[w] = toDo[w]
            /\ read'[w] = dropped[at[w][1]]
        BY <2>1, Doing1 DEF DropTypeOK, Busy
      <4>2. \A j \in toDo[w] : Listed(j)
        BY DEF WorkIsSound, Sound
      <4>3. \A j : Listed(j) => Listed(j)'
        BY <2>1 DEF Listed
      <4>4. at[w][2] = "whole" => read'[w] = "whole"
        BY <2>2, <4>1 DEF Listed
      <4> QED  BY <2>2, <4>1, <4>2, <4>3, <4>4 DEF Sound
    <3>2. ASSUME NEW v \in Watchers, v # w PROVE Sound(v)'
      BY <2>1, <3>2, Doing1 DEF WorkIsSound, Sound, Listed, DropTypeOK, Busy
    <3> QED  BY <3>1, <3>2 DEF WorkIsSound
  <2>6. SavesAreApart' /\ ClaimsAreStored'
    <3>1. watcher'[w].doing = "choosing" /\ \A v \in Watchers \ {w} : watcher'[v] = watcher[v]
      BY <2>1, Doing1 DEF Busy
    <3> QED  BY <2>1, <3>1, LibraryLeftAlone DEF Claimed
  <2> QED  BY <2>4, <2>5, <2>6
<1>9. ASSUME NEW w \in Watchers, ReadFails(w) PROVE DropInv'
  <2> DEFINE k == at[w]
             n == attempts[w][k] + 1
             left == IF n >= MaxReads THEN 0 ELSE n
  <2>1. /\ watcher[w].doing = "reading" /\ Doing(w, "listing")
        /\ attempts' = [attempts EXCEPT ![w][k] = left]
        /\ recorded' = IF n >= MaxReads THEN [recorded EXCEPT ![k] = "skipped"] ELSE recorded
        /\ UNCHANGED <<dropped, library, started, toDo, at, read, target, clashed>>
    BY <1>9 DEF ReadFails
  <2>2. k \in Keys
    BY <2>1 DEF WorkIsSound, Sound, Listed
  <2>3. attempts[w] \in [Keys -> 0 .. MaxReads] /\ left \in 0 .. MaxReads
    BY <2>2 DEF DropTypeOK, FileDropAssumption
  <2> HIDE DEF k, left
  <2>4. attempts' \in [Watchers -> [Keys -> 0 .. MaxReads]]
    <3>1. attempts' = [attempts EXCEPT ![w] = [attempts[w] EXCEPT ![k] = left]]
      BY <2>1 DEF DropTypeOK
    <3>2. [attempts[w] EXCEPT ![k] = left] \in [Keys -> 0 .. MaxReads]
      BY <2>3
    <3> QED  BY <3>1, <3>2 DEF DropTypeOK
  <2>5. /\ recorded' \in [Keys -> {"none", "music", "skipped"}]
        /\ \A j \in Keys : recorded'[j] = "music" => recorded[j] = "music"
    BY <2>1, <2>2 DEF DropTypeOK
  <2>6. DropTypeOK'
    BY <2>1, <2>4, <2>5, Doing1 DEF DropTypeOK, Jobs, Busy
  <2>7. watcher'[w].doing = "listing" /\ \A v \in Watchers \ {w} : watcher'[v] = watcher[v]
    BY <2>1, Doing1 DEF Busy
  <2>8. WorkIsSound'
    BY <2>1, <2>7 DEF WorkIsSound, Sound, Listed
  <2>9. SavesAreApart' /\ ClaimsAreStored'
    BY <2>1, <2>5, <2>7, LibraryLeftAlone DEF Claimed
  <2> QED  BY <2>6, <2>8, <2>9
<1>10. ASSUME NEW w \in Watchers, Chooses(w) PROVE DropInv'
  <2> DEFINE n == Holds(w) + 1
  <2>1. /\ watcher[w].doing = "choosing" /\ Doing(w, "saving")
        /\ target' = [target EXCEPT ![w] = n]
        /\ clashed' = clashed \cup (IF Rivals(w, n) = {} THEN {}
                                      ELSE {at[v] : v \in {w} \cup Rivals(w, n)})
        /\ UNCHANGED <<dropped, recorded, library, started, toDo, at, read, attempts>>
    BY <1>10 DEF Chooses, ChoosesTarget, Holds
  <2>2. Listed(at[w]) /\ at[w] \in Keys
    BY <2>1 DEF WorkIsSound, Sound, Listed
  <2>3. Holds(w) \in Nat /\ n \in Nat /\ n = Holds(w) + 1
        /\ DOMAIN library[at[w][1]] = 1 .. Holds(w)
    <3>1. library[at[w][1]] \in Seq(Pieces)
      BY <1>a, <1>b, <2>2
    <3> QED  BY <3>1 DEF Holds
  <2> HIDE DEF n
  <2>4. /\ watcher'[w].doing = "saving" /\ target'[w] = n
        /\ \A v \in Watchers \ {w} : watcher'[v] = watcher[v] /\ target'[v] = target[v]
        /\ \A v \in Watchers : Holds(v)' = Holds(v)
    BY <2>1, Doing1 DEF DropTypeOK, Busy, Holds
  <2>5. \A v \in Rivals(w, n) : Listed(at[v])
    BY DEF Rivals, WorkIsSound, Sound
  <2>6. /\ clashed' \subseteq Keys /\ clashed \subseteq clashed'
        /\ \A v \in Rivals(w, n) : at[v] \in clashed' /\ at[w] \in clashed'
    BY <2>1, <2>2, <2>5 DEF DropTypeOK, Listed
  <2>7. DropTypeOK'
    <3>1. target' \in [Watchers -> Nat]
      BY <2>1, <2>3 DEF DropTypeOK
    <3>2. watcher' \in [Watchers -> Jobs]
      BY <2>1, Doing1 DEF Busy
    <3> QED  BY <2>1, <2>6, <3>1, <3>2 DEF DropTypeOK, Jobs
  <2>8. WorkIsSound'
    BY <2>1, <2>4 DEF WorkIsSound, Sound, Listed
  <2>9. SavesAreApart'
    <3>1. ASSUME NEW v \in Watchers, v # w, Saving(v)', at[v][1] = at[w][1], target'[v] = n
          PROVE  at[v] \in clashed' /\ at[w] \in clashed'
      BY <2>4, <2>6, <3>1 DEF Saving, Rivals
    <3>2. ASSUME NEW v \in Watchers, Saving(v)'
          PROVE  /\ target'[v] \in 1 .. Holds(v)' + 1
                 /\ at'[v] \notin clashed' => target'[v] = Holds(v)' + 1
      <4>1. CASE v = w
        BY <2>3, <2>4, <4>1
      <4>2. CASE v # w
        <5>1. Saving(v) /\ target'[v] = target[v] /\ at'[v] = at[v]
          BY <2>1, <2>4, <3>2, <4>2 DEF Saving
        <5> QED  BY <2>4, <2>6, <5>1 DEF SavesAreApart
      <4> QED  BY <4>1, <4>2
    <3>3. ASSUME NEW u \in Watchers, NEW v \in Watchers, Saving(u)', Saving(v)', u # v,
                 at'[u][1] = at'[v][1], target'[u] = target'[v]
          PROVE  at'[u] \in clashed' /\ at'[v] \in clashed'
      <4>1. CASE u = w \/ v = w
        BY <2>1, <2>4, <3>1, <3>3, <4>1
      <4>2. CASE u # w /\ v # w
        <5>1. /\ Saving(u) /\ Saving(v) /\ at[u][1] = at[v][1] /\ target[u] = target[v]
              /\ at'[u] = at[u] /\ at'[v] = at[v]
          BY <2>1, <2>4, <3>3, <4>2 DEF Saving
        <5> QED  BY <2>6, <3>3, <5>1 DEF SavesAreApart
      <4> QED  BY <4>1, <4>2
    <3> QED  BY <3>2, <3>3 DEF SavesAreApart
  <2>10. ClaimsAreStored'
    <3>1. SUFFICES ASSUME NEW k \in Keys \ clashed', Claimed(k)' PROVE Stored(k)'
      BY DEF ClaimsAreStored
    <3>2. Claimed(k)
      BY <2>1, <2>4, <3>1 DEF Claimed
    <3>3. PICK i \in DOMAIN library[k[1]] :
            /\ Serves(library[k[1]][i], k)
            /\ \A v \in Watchers : ~ (Saving(v) /\ at[v][1] = k[1] /\ target[v] = i)
      BY <2>6, <3>2 DEF ClaimsAreStored, Stored
    <3>4. at[w][1] = k[1] => n # i
      BY <2>2, <2>3 DEF Holds
    <3>5. \A v \in Watchers : ~ (Saving(v) /\ at[v][1] = k[1] /\ target[v] = i)'
      BY <2>1, <2>4, <3>3, <3>4 DEF Saving
    <3> QED  BY <2>1, <3>3, <3>5 DEF Stored
  <2> QED  BY <2>7, <2>8, <2>9, <2>10
<1>11. ASSUME NEW w \in Watchers, Saves(w) PROVE DropInv'
  <2> DEFINE f == at[w][1]
             n == target[w]
             old == library[f]
             new(copy) == [i \in DOMAIN old \cup {n} |-> IF i = n THEN copy ELSE old[i]]
  <2>2. /\ watcher[w].doing = "saving" /\ Doing(w, "recording")
        /\ UNCHANGED <<dropped, recorded, started, toDo, at, read, target, clashed, attempts>>
    BY <1>11 DEF Saves
  <2>3. f \in Files /\ old \in Seq(Pieces) /\ read[w] \in Pieces
    <3>1. at[w] \in Keys
      BY <2>2 DEF WorkIsSound, Sound, Listed
    <3>2. f \in Files /\ old \in Seq(Pieces)
      BY <1>a, <1>b, <3>1
    <3>3. read[w] \in Pieces
      BY DEF DropTypeOK, Pieces
    <3> QED  BY <3>2, <3>3
  <2>1. PICK copy \in Pieces :
          /\ at[w] \notin clashed => copy = read[w]
          /\ library' = [library EXCEPT ![f] = new(copy)]
    <3>1. PICK copy \in IF at[w] \in clashed THEN Pieces ELSE {read[w]} :
            library' = [library EXCEPT ![f] = new(copy)]
      <4>1. library' \in {[library EXCEPT ![f] = new(copy)] :
                            copy \in IF at[w] \in clashed THEN Pieces ELSE {read[w]}}
        BY <1>11, <1>a, <2>3 DEF Saves
      <4> QED  BY <4>1
    <3> QED  BY <2>3, <3>1
  <2>4. n \in 1 .. Len(old) + 1 /\ Len(old) \in Nat /\ DOMAIN old = 1 .. Len(old)
    BY <2>2, <2>3 DEF SavesAreApart, Saving, Holds
  <2>5. /\ new(copy) \in Seq(Pieces)
        /\ DOMAIN new(copy) = DOMAIN old \cup {n}
        /\ new(copy)[n] = copy
        /\ \A i \in DOMAIN old : i # n => new(copy)[i] = old[i]
        /\ Len(new(copy)) = IF n = Len(old) + 1 THEN Len(old) + 1 ELSE Len(old)
    <3> DEFINE m == IF n = Len(old) + 1 THEN Len(old) + 1 ELSE Len(old)
    <3>1. m \in Nat /\ DOMAIN old \cup {n} = 1 .. m
      BY <2>4
    <3>2. \A i \in 1 .. m : (IF i = n THEN copy ELSE old[i]) \in Pieces
      BY <2>3, <2>4
    <3> HIDE DEF m
    <3>3. new(copy) \in [1 .. m -> Pieces]
      BY <3>1, <3>2
    <3> HIDE DEF new
    <3>4. new(copy) \in Seq(Pieces) /\ Len(new(copy)) = m
      <4>1. new(copy) \in Seq(Pieces)
        BY <3>1, <3>3, SeqDef
      <4> QED  BY <3>1, <3>3, <4>1, LenProperties
    <3>5. /\ DOMAIN new(copy) = DOMAIN old \cup {n} /\ new(copy)[n] = copy
          /\ \A i \in DOMAIN old : i # n => new(copy)[i] = old[i]
      BY DEF new
    <3> QED  BY <3>4, <3>5 DEF m
  <2> HIDE DEF new
  <2>6. /\ library' \in [Files -> Seq(Pieces)] /\ library'[f] = new(copy)
        /\ \A g \in Files \ {f} : library'[g] = library[g]
    BY <1>a, <2>1, <2>3, <2>5
  <2>7. DropTypeOK'
    <3>1. watcher' \in [Watchers -> Jobs]
      BY <2>2, Doing1 DEF Busy
    <3> QED  BY <2>2, <2>6, <3>1 DEF DropTypeOK, Jobs
  <2>8. watcher'[w].doing = "recording" /\ \A v \in Watchers \ {w} : watcher'[v] = watcher[v]
    BY <2>2, Doing1 DEF Busy
  <2>9. WorkIsSound'
    BY <2>2, <2>8 DEF WorkIsSound, Sound, Listed
  <2>10. \A v \in Watchers : Saving(v)' => Saving(v) /\ v # w
    BY <2>8 DEF Saving
  <2>11. SavesAreApart'
    <3>1. ASSUME NEW v \in Watchers, Saving(v)'
          PROVE  /\ target[v] \in 1 .. Holds(v)' + 1
                 /\ at[v] \notin clashed => target[v] = Holds(v)' + 1
      <4>1. /\ Saving(v) /\ v # w /\ at[v][1] \in Files
            /\ target[v] \in 1 .. Holds(v) + 1
            /\ at[v] \notin clashed => target[v] = Holds(v) + 1
        BY <2>10, <3>1 DEF SavesAreApart, Saving, WorkIsSound, Sound, Listed, Keys
      <4>2. CASE at[v][1] # f
        <5>1. Holds(v)' = Holds(v)
          BY <2>2, <2>6, <4>1, <4>2 DEF Holds
        <5> QED  BY <4>1, <5>1
      <4>3. CASE at[v][1] = f
        <5>1. Holds(v) = Len(old) /\ Holds(v)' = Len(new(copy))
          BY <2>2, <2>6, <4>3 DEF Holds
        <5>2. at[v] \notin clashed => target[v] # n
          BY <2>2, <4>1, <4>3 DEF SavesAreApart, Saving
        <5> QED  BY <2>4, <2>5, <4>1, <5>1, <5>2
      <4> QED  BY <4>2, <4>3
    <3>2. ASSUME NEW u \in Watchers, NEW v \in Watchers, Saving(u)', Saving(v)', u # v,
                 at[u][1] = at[v][1], target[u] = target[v]
          PROVE  at[u] \in clashed /\ at[v] \in clashed
      BY <2>10, <3>2 DEF SavesAreApart
    <3> QED  BY <2>2, <3>1, <3>2 DEF SavesAreApart
  <2>12. ClaimsAreStored'
    <3>1. SUFFICES ASSUME NEW k \in Keys \ clashed, Claimed(k)' PROVE Stored(k)'
      BY <2>2 DEF ClaimsAreStored
    <3>2. k[1] \in Files
      BY DEF Keys
    <3>3. CASE Claimed(k)
      <4>1. PICK i \in DOMAIN library[k[1]] :
              /\ Serves(library[k[1]][i], k)
              /\ \A v \in Watchers : ~ (Saving(v) /\ at[v][1] = k[1] /\ target[v] = i)
        BY <3>3 DEF ClaimsAreStored, Stored
      <4>2. i \in DOMAIN library'[k[1]] /\ library'[k[1]][i] = library[k[1]][i]
        <5>1. CASE k[1] = f
          <6>1. i # n
            BY <2>2, <4>1, <5>1 DEF Saving
          <6> QED  BY <2>5, <2>6, <5>1, <6>1
        <5>2. CASE k[1] # f
          BY <2>6, <3>2, <5>2
        <5> QED  BY <5>1, <5>2
      <4>3. \A v \in Watchers : ~ (Saving(v) /\ at[v][1] = k[1] /\ target[v] = i)'
        BY <2>2, <2>10, <4>1
      <4> QED  BY <4>1, <4>2, <4>3 DEF Stored
    <3>4. CASE ~Claimed(k)
      <4>1. k = at[w]
        BY <2>2, <2>8, <3>1, <3>4 DEF Claimed
      <4>2. read[w] \in Parts /\ (k[2] = "whole" => read[w] = "whole")
        BY <2>2, <4>1 DEF WorkIsSound, Sound, DropTypeOK
      <4>3. PICK i : i = n
        OBVIOUS
      <4>4. i \in DOMAIN library'[k[1]] /\ Serves(library'[k[1]][i], k)
        BY <2>1, <2>5, <2>6, <4>1, <4>2, <4>3 DEF Serves
      <4>5. \A v \in Watchers : ~ (Saving(v) /\ at[v][1] = k[1] /\ target[v] = i)'
        BY <2>2, <2>10, <4>1, <4>3 DEF SavesAreApart, Saving
      <4> QED  BY <4>4, <4>5 DEF Stored
    <3> QED  BY <3>3, <3>4
  <2> QED  BY <2>7, <2>9, <2>11, <2>12
<1>12. ASSUME NEW w \in Watchers, NEW result \in {"music", "skipped"}, Records(w, result)
       PROVE  DropInv'
  <2> DEFINE k == at[w]
  <2>1. /\ result = "music" => watcher[w].doing = "recording"
        /\ watcher[w].doing \in {"choosing", "saving", "recording"} /\ Doing(w, "listing")
        /\ recorded' = [recorded EXCEPT ![k] = result]
        /\ attempts' = [attempts EXCEPT ![w][k] = 0]
        /\ UNCHANGED <<dropped, library, started, toDo, at, read, target, clashed>>
    BY <1>12 DEF Records
  <2>2. k \in Keys
    BY <2>1 DEF WorkIsSound, Sound, Listed
  <2> HIDE DEF k
  <2>3. attempts' \in [Watchers -> [Keys -> 0 .. MaxReads]]
    <3>1. attempts' = [attempts EXCEPT ![w] = [attempts[w] EXCEPT ![k] = 0]]
      BY <2>1 DEF DropTypeOK
    <3>2. [attempts[w] EXCEPT ![k] = 0] \in [Keys -> 0 .. MaxReads]
      <4>1. attempts[w] \in [Keys -> 0 .. MaxReads] /\ 0 \in 0 .. MaxReads
        BY DEF DropTypeOK, FileDropAssumption
      <4> QED  BY <4>1
    <3> QED  BY <3>1, <3>2 DEF DropTypeOK
  <2>4. DropTypeOK'
    BY <2>1, <2>2, <2>3, Doing1 DEF DropTypeOK, Jobs, Busy
  <2>5. watcher'[w].doing = "listing" /\ \A v \in Watchers \ {w} : watcher'[v] = watcher[v]
    BY <2>1, Doing1 DEF Busy
  <2>6. WorkIsSound'
    BY <2>1, <2>5 DEF WorkIsSound, Sound, Listed
  <2>7. \A j \in Keys : recorded'[j] = "music" => Claimed(j)
    BY <2>1, <2>2 DEF DropTypeOK, Claimed, k
  <2>8. SavesAreApart' /\ ClaimsAreStored'
    BY <2>1, <2>5, <2>7, LibraryLeftAlone
  <2> QED  BY <2>4, <2>6, <2>8
<1>13. CASE UNCHANGED dropVars
  <2>1. UNCHANGED <<dropped, recorded, library, started, watcher, toDo, at, read, target,
                    clashed, attempts>>
    BY <1>13 DEF dropVars, watcherVars
  <2>2. DropTypeOK' /\ WorkIsSound'
    BY <2>1 DEF DropTypeOK, WorkIsSound, Sound, Listed
  <2>3. SavesAreApart' /\ ClaimsAreStored'
    BY <2>1, LibraryLeftAlone DEF Claimed
  <2> QED  BY <2>2, <2>3
<1> QED
  BY <1>1, <1>2, <1>3, <1>4, <1>5, <1>6, <1>7, <1>8, <1>9, <1>10, <1>11, <1>12, <1>13
     DEF DropNext, Poll

\* What the seen-set calls music is in the library, and all of it if the
\* upload was complete when it was listed: after any crash and with any number
\* of watchers that poll beside one another, unless two saves of the file shared
\* a temporary file.
THEOREM DropsAreKept == FileDropAssumption => (DropSpec => []RecordedIsKept)
<1> SUFFICES ASSUME FileDropAssumption PROVE DropSpec => []RecordedIsKept
  OBVIOUS
<1>1. DropInit => DropInv
  BY DropInitInv
<1>2. DropInv /\ [DropNext]_dropVars => DropInv'
  BY DropStepInv
<1>3. DropInv => RecordedIsKept
  BY DEF DropInv, ClaimsAreStored, Claimed, Stored, RecordedIsKept
<1> QED  BY <1>1, <1>2, <1>3, PTL DEF DropSpec

-----------------------------------------------------------------------------
(* The ruleset.                                                            *)

\* The version in the file is the release that saved it, the one in memory the
\* release that runs.
VersionsTell ==
    /\ file # Missing => file.version = savedBy
    /\ config # Missing => config.version = release

RulesInv == RulesTypeOK /\ VersionsTell

\* A ruleset stays one when it is migrated, and keeps its groups.
LEMMA MigratedFacts ==
    ASSUME SettingsAssumption, release \in Releases,
           NEW rights \in Rulesets \cup {Missing}, NEW version \in 0..LastRelease
    PROVE  /\ Migrated(rights, version) \in Rulesets \cup {Missing}
           /\ rights # Missing =>
                Migrated(rights, version).tokens =
                   rights.tokens \cup {t \in Tokens : /\ version < Shipped[t]
                                                      /\ Shipped[t] <= release
                                                      /\ Home[t] \in rights.groups}
<1> DEFINE due == {t \in Tokens : /\ version < Shipped[t] /\ Shipped[t] <= release
                                  /\ Home[t] \in rights.groups}
<1>1. CASE rights = Missing
  BY <1>1 DEF Migrated
<1>2. CASE rights # Missing /\ version >= release
  <2>1. due = {}
    BY <1>2 DEF SettingsAssumption, Releases
  <2> QED  BY <1>2, <2>1 DEF Migrated
<1>3. CASE rights # Missing /\ ~(version >= release)
  <2>1. /\ rights \in [groups : SUBSET Groups, tokens : SUBSET Tokens]
        /\ Everybody \in rights.groups /\ \A t \in rights.tokens : Home[t] \in rights.groups
    BY <1>3 DEF Rulesets
  <2>2. Migrated(rights, version) = [rights EXCEPT !.tokens = rights.tokens \cup due]
    <3>1. {t \in Newer(version) : Home[t] \in rights.groups} = due
      BY DEF Newer
    <3> QED  BY <1>3, <3>1, <2>1 DEF Migrated
  <2> HIDE DEF due
  <2>3. due \subseteq Tokens /\ \A t \in due : Home[t] \in rights.groups
    BY DEF due
  <2>4. Migrated(rights, version) \in Rulesets
    BY <2>1, <2>2, <2>3 DEF Rulesets
  <2>5. Migrated(rights, version).tokens = rights.tokens \cup due
    BY <2>1, <2>2
  <2> QED  BY <2>4, <2>5 DEF due
<1> QED  BY <1>1, <1>2, <1>3

\* What a start-up makes of the file.
LEMMA BootFacts ==
    ASSUME SettingsAssumption, RulesInv, Boot
    PROVE  /\ config' \in Configs /\ config'.version = release
           /\ config'.rights = Migrated(LoadedConfig.rights, LoadedConfig.version)
           /\ LoadedConfig \in Configs
<1>1. LoadedConfig \in Configs
  BY DEF LoadedConfig, Defaults, RulesInv, RulesTypeOK, Configs, SettingsAssumption
<1>2. config' = [rights |-> Migrated(LoadedConfig.rights, LoadedConfig.version),
                 version |-> release]
  BY DEF Boot, VersionAfter
<1>3. Migrated(LoadedConfig.rights, LoadedConfig.version) \in Rulesets \cup {Missing}
  BY <1>1, MigratedFacts DEF Configs, RulesInv, RulesTypeOK
<1>4. release \in 0..LastRelease
  BY DEF RulesInv, RulesTypeOK, Releases, SettingsAssumption
<1> QED  BY <1>1, <1>2, <1>3, <1>4 DEF Configs

LEMMA RulesInitInv == ASSUME SettingsAssumption, RulesInit PROVE RulesInv
  BY DEF RulesInit, RulesInv, RulesTypeOK, VersionsTell, Configs, SettingsAssumption

\* A release is replaced while the bot is down, and every write is of what is
\* in memory.
LEMMA RulesStepInv ==
    ASSUME SettingsAssumption, RulesInv, [RulesNext]_rulesVars
    PROVE  RulesInv'
<1> USE DEF RulesInv
<1>1. release \in 0..LastRelease
  BY DEF RulesTypeOK, Releases, SettingsAssumption
<1>2. CASE Boot
  <2>1. UNCHANGED release /\ file' = config' /\ savedBy' = release /\ live' = config'.rights
    BY <1>2 DEF Boot
  <2> QED  BY <1>1, <1>2, <2>1, BootFacts DEF RulesTypeOK, VersionsTell, Configs
<1>3. CASE StopProcess
  BY <1>3 DEF StopProcess, RulesTypeOK, VersionsTell
<1>4. CASE Torn
  BY <1>4 DEF Torn, RulesTypeOK, VersionsTell
<1>5. CASE Upgrade
  BY <1>5 DEF Upgrade, RulesTypeOK, VersionsTell, Releases, SettingsAssumption
<1>6. CASE SetOther
  <2>1. config # Missing /\ config \in Configs /\ config.version = release
    BY <1>6 DEF SetOther, RulesTypeOK, VersionsTell
  <2>2. /\ file' = config /\ savedBy' = release /\ UNCHANGED <<config, release>>
        /\ live' = live \/ live' = config.rights
    BY <1>6 DEF SetOther, Save
  <2>3. config.rights \in Rulesets \cup {Missing}
    BY <2>1 DEF Configs
  <2> QED  BY <1>1, <2>1, <2>2, <2>3 DEF RulesTypeOK, VersionsTell
<1>7. ASSUME NEW rights \in Rulesets \cup {Missing}, SetRights(rights) \/ Refused(rights)
      PROVE  RulesInv'
  <2> DEFINE new == [config EXCEPT !.rights = rights]
  <2>1. config # Missing /\ config \in Configs /\ config.version = release
    BY <1>7 DEF SetRights, Refused, RulesTypeOK, VersionsTell
  <2>2. new \in Configs /\ new.version = release
    BY <2>1 DEF Configs
  <2>3. CASE SetRights(rights)
    <3>1. config' = new /\ file' = new /\ savedBy' = release /\ live' = rights /\ UNCHANGED release
      BY <2>3 DEF SetRights, Save
    <3> HIDE DEF new
    <3> QED  BY <1>1, <2>2, <3>1 DEF RulesTypeOK, VersionsTell
  <2>4. CASE Refused(rights)
    <3>1. config' = new /\ UNCHANGED <<release, file, live, savedBy>>
      BY <2>4 DEF Refused
    <3> HIDE DEF new
    <3> QED  BY <2>2, <3>1 DEF RulesTypeOK, VersionsTell
  <2> QED  BY <1>7, <2>3, <2>4
<1>8. CASE UNCHANGED rulesVars
  BY <1>8 DEF rulesVars, RulesTypeOK, VersionsTell
<1> QED  BY <1>2, <1>3, <1>4, <1>5, <1>6, <1>7, <1>8 DEF RulesNext

\* The file, the memory and what is enforced are of the types the code's
\* declarations give them (bot/src/data/config.ts, rights/engine.ts).
THEOREM RulesTypeCorrect == SettingsAssumption => (RulesSpec => []RulesTypeOK)
<1> SUFFICES ASSUME SettingsAssumption PROVE RulesSpec => []RulesTypeOK
  OBVIOUS
<1>1. RulesInit => RulesInv
  BY RulesInitInv
<1>2. RulesInv /\ [RulesNext]_rulesVars => RulesInv'
  BY RulesStepInv
<1> QED  BY <1>1, <1>2, PTL DEF RulesSpec, RulesInv

\* Whatever releases are skipped, whatever is edited or refused between them
\* and whenever the process stops or a write is torn: a start-up adds exactly
\* what has been shipped since the release that wrote the file it finds.
THEOREM DeltasComeOnce == SettingsAssumption => (RulesSpec => EachDeltaOnce)
<1> SUFFICES ASSUME SettingsAssumption PROVE RulesSpec => EachDeltaOnce
  OBVIOUS
<1>1. RulesInit => RulesInv
  BY RulesInitInv
<1>2. RulesInv /\ [RulesNext]_rulesVars => RulesInv'
  BY RulesStepInv
<1>3. ASSUME RulesInv, [RulesNext]_rulesVars,
             config = Missing, config' # Missing, file # Missing, file.rights # Missing
      PROVE  config'.rights.tokens =
               file.rights.tokens
                 \cup {t \in Tokens : /\ savedBy < Shipped[t] /\ Shipped[t] <= release
                                      /\ Home[t] \in file.rights.groups}
  <2>1. Boot
    BY <1>3 DEF RulesNext, StopProcess, Torn, Upgrade, SetOther, SetRights, Refused, rulesVars
  <2>2. LoadedConfig = file /\ file.version = savedBy
    BY <1>3 DEF LoadedConfig, RulesInv, VersionsTell
  <2>3. file.rights \in Rulesets \cup {Missing} /\ savedBy \in 0..LastRelease
    BY <1>3 DEF RulesInv, RulesTypeOK, Configs
  <2>4. config'.rights = Migrated(file.rights, savedBy)
    BY <1>3, <2>1, <2>2, BootFacts
  <2> QED  BY <1>3, <2>3, <2>4, MigratedFacts DEF RulesInv, RulesTypeOK
<1>4. RulesInv /\ [RulesNext]_rulesVars =>
        [config = Missing /\ config' # Missing /\ file # Missing /\ file.rights # Missing =>
         config'.rights.tokens =
            file.rights.tokens
              \cup {t \in Tokens : /\ savedBy < Shipped[t] /\ Shipped[t] <= release
                                   /\ Home[t] \in file.rights.groups}]_rulesVars
  BY <1>3
<1> QED  BY <1>1, <1>2, <1>4, PTL DEF RulesSpec, EachDeltaOnce

-----------------------------------------------------------------------------
(* The commodity list.                                                     *)

\* One request at a time is in flight; what it has been answered is the newest
\* list there is, and while it runs memory has the row it falls back on.
OneRequest == \A p, q \in InFlight : p = q

AnswersAreNewest ==
    \A q \in Requests : request[q].doing = "answered" =>
        /\ last <= request[q].version
        /\ memory.version <= request[q].version /\ row.version <= request[q].version

FallbacksAreHeld ==
    \A q \in InFlight : request[q].fallback # 0 => request[q].fallback = memory.version

\* No copy is older than what was given last, and the two do not differ.
CopiesAgree ==
    /\ memory.version # 0 => memory.version >= last
    /\ row.version # 0 => row.version >= last
    /\ memory.version # 0 /\ row.version # 0 => memory.version = row.version

\* Nothing is newer than the catalogue itself.
NoneIsAhead ==
    /\ written => last <= remote
    /\ memory.version <= remote /\ row.version <= remote
    /\ memory.fresh => memory.version # 0
    /\ row.fresh => row.version # 0
    /\ \A q \in Requests : request[q].doing = "answered" =>
         request[q].version # 0 /\ request[q].version <= remote

ListInv ==
    /\ PricesTypeOK /\ NoneIsAhead
    /\ written => OneRequest /\ AnswersAreNewest /\ FallbacksAreHeld /\ CopiesAgree

RequestRecords == [doing : {"none", "asking", "answered"}, version : 0..MaxVersion,
                   fallback : 0..MaxVersion, awaited : BOOLEAN]

LEMMA PricesInitInv == ASSUME PricesAssumption, PricesInit PROVE ListInv
<1>1. /\ remote = 1 /\ last = 0 /\ written = TRUE
      /\ memory = Nothing /\ row = Nothing
      /\ \A q \in Requests : request[q] = NoRequest
  BY DEF PricesInit
<1>2. NoRequest \in RequestRecords /\ Nothing \in Copies
  BY DEF NoRequest, RequestRecords, Nothing, Copies, PricesAssumption
<1>3. PricesTypeOK
  BY <1>2 DEF PricesInit, PricesTypeOK, RequestRecords, Versions, PricesAssumption
<1>4. InFlight = {} /\ \A q \in Requests : request[q].doing = "none"
  BY <1>1 DEF InFlight, AtRest, NoRequest
<1>5. OneRequest /\ AnswersAreNewest /\ FallbacksAreHeld
  BY <1>4 DEF OneRequest, AnswersAreNewest, FallbacksAreHeld
<1>6. NoneIsAhead /\ CopiesAgree
  BY <1>1, <1>4 DEF NoneIsAhead, CopiesAgree, Nothing
<1> QED  BY <1>3, <1>5, <1>6 DEF ListInv

\* A request is set off when there is none.
LEMMA SetOffFacts ==
    ASSUME PricesAssumption, PricesTypeOK,
           NEW q \in Requests, NEW fallback \in 0..MaxVersion,
           NEW awaited \in BOOLEAN, SetOff(q, fallback, awaited), Alone
    PROVE  /\ request' \in [Requests -> RequestRecords]
           /\ \A p \in Requests : request'[p].doing # "answered"
           /\ \A p \in Requests : request'[p].doing # "none" =>
                p = q /\ request'[p].fallback = fallback
<1> DEFINE new == [doing |-> "asking", version |-> 0, fallback |-> fallback, awaited |-> awaited]
<1>1. new \in RequestRecords /\ new.doing = "asking" /\ new.fallback = fallback
  BY DEF RequestRecords, PricesAssumption
<1>2. request' = [request EXCEPT ![q] = new] /\ request \in [Requests -> RequestRecords]
  BY DEF SetOff, PricesTypeOK, RequestRecords
<1>3. \A p \in Requests : request[p].doing = "none"
  BY DEF Alone, InFlight, AtRest
<1> HIDE DEF new
<1> QED  BY <1>1, <1>2, <1>3

LEMMA PricesStepInv ==
    ASSUME PricesAssumption, ListInv, [PricesNext]_pricesVars
    PROVE  ListInv' /\ (written => last' >= last)
<1> DEFINE Goal == ListInv' /\ (written => last' >= last)
<1>0. /\ MaxVersion \in Nat /\ 0 \in 0..MaxVersion
      /\ remote \in 1..MaxVersion /\ remote \in 0..MaxVersion /\ last \in 0..MaxVersion
      /\ memory \in Copies /\ row \in Copies
      /\ memory.version \in 0..MaxVersion /\ row.version \in 0..MaxVersion
      /\ request \in [Requests -> RequestRecords]
      /\ NoneIsAhead
  BY DEF ListInv, PricesTypeOK, Versions, Copies, RequestRecords, PricesAssumption
<1>a. written => OneRequest /\ AnswersAreNewest /\ FallbacksAreHeld /\ CopiesAgree
  BY DEF ListInv
<1>1. CASE FromMemory
  <2>1. /\ memory.fresh /\ last' = memory.version
        /\ UNCHANGED <<remote, memory, row, request, written>>
    BY <1>1 DEF FromMemory
  <2>2. PricesTypeOK' /\ NoneIsAhead'
    BY <1>0, <2>1 DEF ListInv, PricesTypeOK, NoneIsAhead
  <2>3. ASSUME written
        PROVE  /\ last' >= last
               /\ OneRequest' /\ AnswersAreNewest' /\ FallbacksAreHeld' /\ CopiesAgree'
    BY <1>0, <1>a, <2>1, <2>3
       DEF NoneIsAhead, OneRequest, AnswersAreNewest, FallbacksAreHeld, CopiesAgree, InFlight, AtRest
  <2> QED  BY <2>1, <2>2, <2>3 DEF ListInv
<1>2. ASSUME ~memory.fresh, row.version # 0, memory' = row, last' = row.version,
             UNCHANGED <<remote, row, written>>,
             \/ UNCHANGED request
             \/ Alone /\ \E q \in AtRest : SetOff(q, row.version, FALSE)
      PROVE  Goal
  <2>1. request' \in [Requests -> RequestRecords]
    BY <1>0, <1>2, SetOffFacts DEF AtRest, ListInv
  <2>2. PricesTypeOK'
    BY <1>0, <1>2, <2>1 DEF PricesTypeOK, ListInv, RequestRecords
  <2>3. \A p \in Requests : request'[p].doing = "answered" => request' = request
    BY <1>0, <1>2, SetOffFacts DEF AtRest, ListInv
  <2>4. NoneIsAhead'
    BY <1>0, <1>2, <2>3 DEF NoneIsAhead
  <2>5. ASSUME written
        PROVE  /\ last' >= last
               /\ OneRequest' /\ AnswersAreNewest' /\ FallbacksAreHeld' /\ CopiesAgree'
    <3>1. last' >= last /\ CopiesAgree'
      BY <1>0, <1>2, <1>a, <2>5 DEF CopiesAgree
    <3>2. CASE UNCHANGED request
      <4>1. OneRequest' /\ AnswersAreNewest'
        BY <1>2, <1>a, <2>5, <3>2 DEF OneRequest, AnswersAreNewest, InFlight, AtRest
      <4>2. FallbacksAreHeld'
        BY <1>0, <1>2, <1>a, <2>5, <3>2 DEF FallbacksAreHeld, CopiesAgree, InFlight, AtRest
      <4> QED  BY <3>1, <4>1, <4>2
    <3>3. ASSUME Alone, NEW q \in AtRest, SetOff(q, row.version, FALSE)
          PROVE  OneRequest' /\ AnswersAreNewest' /\ FallbacksAreHeld'
      <4>1. /\ \A p \in Requests : request'[p].doing # "answered"
            /\ \A p \in Requests : request'[p].doing # "none" =>
                 p = q /\ request'[p].fallback = row.version
        BY <1>0, <3>3, SetOffFacts DEF AtRest, ListInv
      <4> QED  BY <1>2, <4>1 DEF OneRequest, AnswersAreNewest, FallbacksAreHeld, InFlight, AtRest
    <3> QED  BY <1>2, <3>1, <3>2, <3>3
  <2> QED  BY <1>2, <2>2, <2>4, <2>5 DEF ListInv
<1>3. CASE FromFreshRow
  BY <1>0, <1>2, <1>3 DEF FromFreshRow, NoneIsAhead
<1>4. CASE FromStaleRow
  BY <1>2, <1>4 DEF FromStaleRow
<1>5. CASE FromRemote
  <2>1. UNCHANGED <<remote, memory, row, last, written>> /\ row.version = 0
    BY <1>5 DEF FromRemote
  <2>2. CASE Alone
    <3>1. PICK q \in AtRest : SetOff(q, 0, TRUE)
      BY <1>5, <2>2 DEF FromRemote
    <3>2. /\ request' \in [Requests -> RequestRecords]
          /\ \A p \in Requests : request'[p].doing # "answered"
          /\ \A p \in Requests : request'[p].doing # "none" =>
               p = q /\ request'[p].fallback = 0
      BY <1>0, <2>2, <3>1, SetOffFacts DEF AtRest, ListInv
    <3>3. PricesTypeOK' /\ NoneIsAhead'
      BY <1>0, <2>1, <3>2 DEF PricesTypeOK, NoneIsAhead, ListInv, RequestRecords
    <3>4. OneRequest' /\ AnswersAreNewest' /\ FallbacksAreHeld'
      BY <3>2 DEF OneRequest, AnswersAreNewest, FallbacksAreHeld, InFlight, AtRest
    <3> QED  BY <1>0, <1>a, <2>1, <3>3, <3>4 DEF ListInv, CopiesAgree
  <2>3. CASE ~Alone
    <3>1. PICK q \in InFlight : request' = [request EXCEPT ![q].awaited = TRUE]
      BY <1>5, <2>3 DEF FromRemote
    <3>2. /\ request' \in [Requests -> RequestRecords]
          /\ \A p \in Requests : /\ request'[p].doing = request[p].doing
                                 /\ request'[p].version = request[p].version
                                 /\ request'[p].fallback = request[p].fallback
      <4>1. request[q] \in RequestRecords /\ q \in Requests
        BY <1>0, <3>1 DEF InFlight
      <4>2. request' = [request EXCEPT ![q] = [request[q] EXCEPT !.awaited = TRUE]]
        BY <1>0, <3>1
      <4>3. [request[q] EXCEPT !.awaited = TRUE] \in RequestRecords
        BY <4>1 DEF RequestRecords
      <4> QED  BY <1>0, <4>1, <4>2, <4>3 DEF RequestRecords
    <3>3. PricesTypeOK' /\ NoneIsAhead'
      BY <1>0, <2>1, <3>2 DEF PricesTypeOK, NoneIsAhead, ListInv, RequestRecords
    <3>4. ASSUME written PROVE OneRequest' /\ AnswersAreNewest' /\ FallbacksAreHeld'
      BY <1>a, <2>1, <3>2, <3>4 DEF OneRequest, AnswersAreNewest, FallbacksAreHeld, InFlight, AtRest
    <3> QED  BY <1>0, <1>a, <2>1, <3>3, <3>4 DEF ListInv, CopiesAgree
  <2> QED  BY <2>2, <2>3
<1>6. ASSUME NEW q \in Requests, Answers(q) PROVE Goal
  <2> DEFINE new == [request[q] EXCEPT !.doing = "answered", !.version = remote]
  <2>1. request[q] \in RequestRecords /\ request[q].doing = "asking"
    BY <1>0, <1>6 DEF Answers
  <2>2. /\ new \in RequestRecords /\ new.doing = "answered" /\ new.version = remote
        /\ new.fallback = request[q].fallback
    BY <1>0, <2>1 DEF RequestRecords
  <2>3. request' = [request EXCEPT ![q] = new] /\ UNCHANGED <<remote, memory, row, last, written>>
    BY <1>0, <1>6 DEF Answers
  <2> HIDE DEF new
  <2>4. PricesTypeOK' /\ NoneIsAhead'
    BY <1>0, <2>2, <2>3 DEF PricesTypeOK, NoneIsAhead, ListInv, RequestRecords
  <2>5. InFlight' = InFlight
    BY <1>0, <2>1, <2>2, <2>3 DEF InFlight, AtRest
  <2>6. ASSUME written PROVE OneRequest' /\ AnswersAreNewest' /\ FallbacksAreHeld'
    <3>1. OneRequest' /\ FallbacksAreHeld'
      BY <1>0, <1>a, <2>2, <2>3, <2>5, <2>6 DEF OneRequest, FallbacksAreHeld, InFlight
    <3>2. AnswersAreNewest'
      BY <1>0, <1>a, <2>2, <2>3, <2>6 DEF AnswersAreNewest, NoneIsAhead
    <3> QED  BY <3>1, <3>2
  <2> QED  BY <1>0, <1>a, <2>3, <2>4, <2>6 DEF ListInv, CopiesAgree
<1>7. ASSUME NEW q \in Requests, request[q].doing # "none",
             request' = [request EXCEPT ![q] = NoRequest]
      PROVE  /\ request' \in [Requests -> RequestRecords]
             /\ written => \A p \in Requests : request'[p].doing = "none"
  <2>1. NoRequest \in RequestRecords /\ NoRequest.doing = "none"
    BY DEF NoRequest, RequestRecords, PricesAssumption
  <2>2. written => \A p \in Requests \ {q} : request[p].doing = "none"
    BY <1>a, <1>7 DEF OneRequest, InFlight, AtRest
  <2> QED  BY <1>0, <1>7, <2>1, <2>2
<1>8. ASSUME \A p \in Requests : request'[p].doing = "none"
      PROVE  OneRequest' /\ AnswersAreNewest' /\ FallbacksAreHeld'
  BY <1>8 DEF OneRequest, AnswersAreNewest, FallbacksAreHeld, InFlight, AtRest
<1>9. ASSUME NEW q \in Requests, Loaded(q) PROVE Goal
  <2> DEFINE v == request[q].version
  <2>1. v \in 0..MaxVersion
    BY <1>0 DEF RequestRecords
  <2>2. /\ request[q].doing = "answered"
        /\ memory' = [version |-> v, fresh |-> TRUE]
        /\ \/ row' = memory' /\ UNCHANGED written
           \/ UNCHANGED row /\ written' = FALSE
        /\ last' = IF request[q].awaited THEN v ELSE last
        /\ request' = [request EXCEPT ![q] = NoRequest] /\ UNCHANGED remote
    BY <1>9 DEF Loaded
  <2>3. v # 0 /\ v <= remote
    BY <1>0, <2>2 DEF NoneIsAhead
  <2> HIDE DEF v
  <2>4. /\ memory' \in Copies /\ memory'.version = v /\ memory'.fresh = TRUE
        /\ row' \in Copies /\ row' \in {row, memory'}
    <3>1. memory' \in Copies /\ memory'.version = v /\ memory'.fresh = TRUE
      BY <2>1, <2>2 DEF Copies
    <3> QED  BY <1>0, <2>2, <3>1
  <2>5. request' \in [Requests -> RequestRecords]
    BY <1>7, <2>2
  <2>6. PricesTypeOK'
    BY <1>0, <2>1, <2>2, <2>4, <2>5 DEF ListInv, PricesTypeOK, RequestRecords
  <2>7. NoneIsAhead'
    <3>1. \A p \in Requests : request'[p].doing = "answered" =>
            request'[p].version # 0 /\ request'[p].version <= remote
      BY <1>0, <2>2 DEF NoneIsAhead, NoRequest
    <3> QED  BY <1>0, <2>1, <2>2, <2>3, <2>4, <3>1 DEF NoneIsAhead
  <2>8. ASSUME written PROVE last' >= last
    BY <1>0, <1>a, <2>1, <2>2, <2>8 DEF AnswersAreNewest, v
  <2>9. ASSUME written' PROVE OneRequest' /\ AnswersAreNewest' /\ FallbacksAreHeld' /\ CopiesAgree'
    <3>1. written /\ row' = memory'
      BY <2>2, <2>9
    <3>2. last' <= v
      BY <1>0, <1>a, <2>1, <2>2, <3>1 DEF AnswersAreNewest, v
    <3>3. CopiesAgree'
      BY <1>0, <2>1, <2>2, <2>4, <3>1, <3>2 DEF CopiesAgree
    <3> QED  BY <1>7, <1>8, <2>2, <3>1, <3>3
  <2> QED  BY <2>6, <2>7, <2>8, <2>9 DEF ListInv
<1>10. ASSUME NEW q \in Requests, Fails(q) PROVE Goal
  <2> DEFINE rest == IF request[q].fallback # 0 THEN request[q].fallback ELSE memory.version
  <2>1. request[q].fallback \in 0..MaxVersion /\ rest \in 0..MaxVersion
    BY <1>0 DEF RequestRecords
  <2>2. /\ request[q].doing # "none" /\ request' = [request EXCEPT ![q] = NoRequest]
        /\ last' = IF request[q].awaited /\ rest # 0 THEN rest ELSE last
        /\ UNCHANGED <<remote, memory, row, written>>
    BY <1>10 DEF Fails
  <2>3. ASSUME written PROVE rest = memory.version
    BY <1>a, <2>2, <2>3 DEF FallbacksAreHeld, InFlight, AtRest
  <2>4. request' \in [Requests -> RequestRecords]
    BY <1>7, <2>2
  <2> HIDE DEF rest
  <2>5. PricesTypeOK'
    BY <1>0, <2>1, <2>2, <2>4 DEF ListInv, PricesTypeOK, RequestRecords
  <2>6. NoneIsAhead'
    <3>1. \A p \in Requests : request'[p].doing = "answered" => request'[p] = request[p]
      BY <1>0, <2>2 DEF NoRequest
    <3>2. written => last' <= remote
      BY <1>0, <2>2, <2>3 DEF NoneIsAhead
    <3> QED  BY <1>0, <2>2, <3>1, <3>2 DEF NoneIsAhead
  <2>7. ASSUME written
        PROVE  /\ last' >= last
               /\ OneRequest' /\ AnswersAreNewest' /\ FallbacksAreHeld' /\ CopiesAgree'
    <3>1. last' >= last /\ CopiesAgree'
      BY <1>0, <1>a, <2>2, <2>3, <2>7 DEF CopiesAgree
    <3> QED  BY <1>7, <1>8, <2>2, <2>7, <3>1
  <2> QED  BY <2>2, <2>5, <2>6, <2>7 DEF ListInv
<1>11. CASE Expire
  <2>1. /\ UNCHANGED <<remote, request, last, written>>
        /\ memory' \in Copies /\ memory'.version = memory.version /\ memory'.fresh = FALSE
        /\ row' \in Copies /\ row'.version = row.version /\ row'.fresh = FALSE
    BY <1>0, <1>11 DEF Expire, Copies
  <2>2. PricesTypeOK' /\ NoneIsAhead'
    BY <1>0, <2>1 DEF ListInv, PricesTypeOK, NoneIsAhead
  <2> QED  BY <1>0, <1>a, <2>1, <2>2
       DEF ListInv, OneRequest, AnswersAreNewest, FallbacksAreHeld, CopiesAgree, InFlight, AtRest
<1>12. CASE Prune
  <2>1. row' = Nothing /\ UNCHANGED <<remote, memory, request, last, written>>
    BY <1>12 DEF Prune
  <2>2. row' \in Copies /\ row'.version = 0 /\ row'.fresh = FALSE
    BY <1>0, <2>1 DEF Nothing, Copies
  <2>3. PricesTypeOK' /\ NoneIsAhead'
    BY <1>0, <2>1, <2>2 DEF ListInv, PricesTypeOK, NoneIsAhead
  <2>4. ASSUME written PROVE OneRequest' /\ AnswersAreNewest' /\ FallbacksAreHeld' /\ CopiesAgree'
    <3>1. OneRequest' /\ FallbacksAreHeld'
      BY <1>a, <2>1, <2>4 DEF OneRequest, FallbacksAreHeld, InFlight, AtRest
    <3>2. AnswersAreNewest'
      BY <1>0, <1>a, <2>1, <2>2, <2>4 DEF AnswersAreNewest, RequestRecords
    <3>3. CopiesAgree'
      BY <1>0, <1>a, <2>1, <2>2, <2>4 DEF CopiesAgree
    <3> QED  BY <3>1, <3>2, <3>3
  <2> QED  BY <1>0, <2>1, <2>3, <2>4 DEF ListInv
<1>13. CASE Restart
  <2>1. /\ memory' = Nothing /\ request' = [q \in Requests |-> NoRequest]
        /\ UNCHANGED <<remote, row, last, written>>
    BY <1>13 DEF Restart
  <2>2. memory' \in Copies /\ memory'.version = 0 /\ memory'.fresh = FALSE
    BY <1>0, <2>1 DEF Nothing, Copies
  <2>3. NoRequest \in RequestRecords /\ NoRequest.doing = "none"
    BY <1>0 DEF NoRequest, RequestRecords
  <2>4. /\ request' \in [Requests -> RequestRecords]
        /\ \A p \in Requests : request'[p].doing = "none"
    BY <2>1, <2>3
  <2>5. PricesTypeOK' /\ NoneIsAhead'
    BY <1>0, <2>1, <2>2, <2>4 DEF ListInv, PricesTypeOK, NoneIsAhead, RequestRecords
  <2> QED  BY <1>0, <1>a, <1>8, <2>1, <2>2, <2>4, <2>5 DEF ListInv, CopiesAgree
<1>14. CASE NewVersion
  <2>1. remote' = remote + 1 /\ remote' \in 1..MaxVersion
    BY <1>0, <1>14 DEF NewVersion, PricesAssumption
  <2>2. UNCHANGED <<memory, row, request, last, written>>
    BY <1>14 DEF NewVersion
  <2>3. PricesTypeOK'
    BY <2>1, <2>2 DEF ListInv, PricesTypeOK, Versions
  <2>4. NoneIsAhead'
    BY <1>0, <2>1, <2>2 DEF NoneIsAhead, RequestRecords
  <2> QED  BY <1>0, <1>a, <2>2, <2>3, <2>4
       DEF ListInv, OneRequest, AnswersAreNewest, FallbacksAreHeld, CopiesAgree, InFlight, AtRest
<1>15. CASE UNCHANGED pricesVars
  BY <1>0, <1>a, <1>15
     DEF pricesVars, ListInv, PricesTypeOK, NoneIsAhead, OneRequest, AnswersAreNewest,
         FallbacksAreHeld, CopiesAgree, InFlight, AtRest
<1> QED
  BY <1>1, <1>3, <1>4, <1>5, <1>6, <1>9, <1>10, <1>11, <1>12, <1>13, <1>14, <1>15
     DEF PricesNext, GetCommodities

\* With answers late, requests failed, rows pruned and the bot restarted at
\* any time: as long as every row could be written, nobody is given an older
\* list than somebody before him.
THEOREM ListsNeverAge == PricesAssumption => (PricesSpec => NeverOlder)
<1> SUFFICES ASSUME PricesAssumption PROVE PricesSpec => NeverOlder
  OBVIOUS
<1>1. PricesInit => ListInv
  BY PricesInitInv
<1>2. ListInv /\ [PricesNext]_pricesVars => ListInv'
  BY PricesStepInv
<1>3. ListInv /\ [PricesNext]_pricesVars => [written => last' >= last]_pricesVars
  BY PricesStepInv
<1> QED  BY <1>1, <1>2, <1>3, PTL DEF PricesSpec, NeverOlder
=============================================================================
