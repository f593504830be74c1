------------------------- MODULE RadioDirectorProofs -------------------------
(***************************************************************************)
(* Proofs about the radio: the director and the relay scheduler.           *)
(***************************************************************************)
EXTENDS MCRadioDirector, Relay, SpliceFacts

(* The inductive invariant: who waits for what, and that one of the        *)
(* director's restocks at most is among them.                              *)

Restocking(w) == w.at \in {"search", "restart"}

Waits == {w \in [at : Waited, by : Askers] :
            /\ Restocking(w) => w.by \in Resumes \cup {"bumper", "fill", "ops"}
            /\ w.at = "cue" => w.by \in {"boundary", "idle", "now", "fill", "fillAlone"}}

\* No restock but an operator's is under way in s.
NoneIn(s) == \A k \in DOMAIN s : Restocking(s[k]) => s[k].by = "ops"

OneIn(s) ==
    \A j, k \in DOMAIN s :
        Restocking(s[j]) /\ Restocking(s[k]) /\ j # k => "ops" \in {s[j].by, s[k].by}

StationOK ==
    /\ {enabled, here, seen, paused, pending, restock, cue, timer} \subseteq BOOLEAN
    /\ alone \in Loneliness
    /\ air \in {"idle", "song", "bumper"}
    /\ queue \in Queues

Waiters == waits \in Seq(Waits) /\ OneIn(waits)

Inv == StationOK /\ Waiters /\ run \in Seq(Steps)

-----------------------------------------------------------------------------
(* Names *)

LEMMA PastFacts ==
    /\ DOMAIN Past = {"boundary", "advance", "poll", "deadAir"}
    /\ Resumes = {"boundary2", "advance2", "poll2", "deadAir2"}
    /\ \A step \in DOMAIN Past : Past[step] \in Resumes
  BY DEF Past, Resumes

LEMMA StepsFacts ==
    Steps = {"boundary", "advance", "poll", "deadAir",
             "boundary2", "advance2", "poll2", "deadAir2",
             "trackBoundary", "dry", "arm", "rearm", "fill", "fillAlone", "program", "playNext"}
  BY PastFacts, Zenon DEF Steps

LEMMA AskersFacts ==
    Askers = {"boundary2", "advance2", "poll2", "deadAir2", "boundary", "bumper", "advance",
              "nobody", "idle", "now", "fill", "fillAlone", "ops", "user",
              "test"}
  BY PastFacts, Zenon DEF Askers

LEMMA WaitFacts ==
    ASSUME NEW at \in Waited, NEW by \in Askers,
           at \in {"search", "restart"} => by \in Resumes \cup {"bumper", "fill", "ops"},
           at = "cue" => by \in {"boundary", "idle", "now", "fill", "fillAlone"}
    PROVE  Wait(at, by) \in Waits /\ Wait(at, by).at = at /\ Wait(at, by).by = by
  BY DEF Wait, Waits, Restocking

-----------------------------------------------------------------------------
(* Who begins to wait, and who is through. *)

LEMMA NoneProgramming == ~Programming /\ waits \in Seq(Waits) => NoneIn(waits)
  BY DEF Programming, NoneIn, Restocking

LEMMA Appended ==
    ASSUME NEW s \in Seq(Waits), OneIn(s), NEW w \in Waits,
           Restocking(w) /\ w.by # "ops" => NoneIn(s)
    PROVE  Append(s, w) \in Seq(Waits) /\ OneIn(Append(s, w))
<1> DEFINE t == Append(s, w)
<1>1. /\ t \in Seq(Waits) /\ DOMAIN t = 1 .. Len(s) + 1
      /\ t[Len(s) + 1] = w /\ \A i \in 1 .. Len(s) : t[i] = s[i]
  OBVIOUS
<1> HIDE DEF t
<1>2. DOMAIN s = 1 .. Len(s) /\ Len(s) \in Nat
  OBVIOUS
<1>3. SUFFICES ASSUME NEW j \in DOMAIN t, NEW k \in DOMAIN t,
                      Restocking(t[j]), Restocking(t[k]), j # k
               PROVE  "ops" \in {t[j].by, t[k].by}
  BY <1>1 DEF OneIn
<1>4. CASE j \in DOMAIN s /\ k \in DOMAIN s
  BY <1>1, <1>2, <1>3, <1>4 DEF OneIn
<1>5. CASE j = Len(s) + 1
  <2>1. k \in DOMAIN s /\ t[k] = s[k] /\ t[j] = w
    BY <1>1, <1>2, <1>3, <1>5
  <2> QED  BY <1>3, <2>1 DEF NoneIn
<1>6. CASE k = Len(s) + 1
  <2>1. j \in DOMAIN s /\ t[j] = s[j] /\ t[k] = w
    BY <1>1, <1>2, <1>3, <1>6
  <2> QED  BY <1>3, <2>1 DEF NoneIn
<1> QED  BY <1>1, <1>2, <1>4, <1>5, <1>6

LEMMA Removed ==
    ASSUME NEW s \in Seq(Waits), OneIn(s), NEW k \in DOMAIN s
    PROVE  /\ RemoveAt(s, k) \in Seq(Waits) /\ OneIn(RemoveAt(s, k))
           /\ Restocking(s[k]) /\ s[k].by # "ops" => NoneIn(RemoveAt(s, k))
<1> DEFINE t == RemoveAt(s, k)
           Old(i) == IF i < k THEN i ELSE i + 1
<1>1. /\ t \in Seq(Waits) /\ Len(t) = Len(s) - 1
      /\ \A i \in 1 .. Len(s) - 1 : t[i] = IF i < k THEN s[i] ELSE s[i + 1]
  BY RemoveAtProperties
<1>2. DOMAIN s = 1 .. Len(s) /\ Len(s) \in Nat /\ DOMAIN t = 1 .. Len(s) - 1
  BY <1>1
<1> HIDE DEF t
<1>3. \A i \in DOMAIN t : Old(i) \in DOMAIN s /\ Old(i) # k /\ t[i] = s[Old(i)]
  BY <1>1, <1>2
<1>4. \A i, j \in DOMAIN t : i # j => Old(i) # Old(j)
  BY <1>2
<1> HIDE DEF Old
<1>5. OneIn(t)
  BY <1>3, <1>4 DEF OneIn
<1>6. Restocking(s[k]) /\ s[k].by # "ops" => NoneIn(t)
  BY <1>3 DEF OneIn, NoneIn
<1> QED  BY <1>1, <1>5, <1>6 DEF t

\* The director's turn goes on,
LEMMA Gone ==
    ASSUME run \in Seq(Steps), run # <<>>, NEW steps \in Seq(Steps), Go(steps)
    PROVE  run' \in Seq(Steps)
  BY DEF Go

\* or waits,
LEMMA Awaited ==
    ASSUME run \in Seq(Steps), run # <<>>, Waiters, NEW at \in Waited, NEW by \in Askers,
           at \in {"search", "restart"} =>
              by \in Resumes \cup {"bumper", "fill"} /\ ~Programming,
           at = "cue" => by \in {"boundary", "idle", "now", "fill", "fillAlone"},
           Await(at, by)
    PROVE  run' \in Seq(Steps) /\ Waiters'
<1>1. run' \in Seq(Steps)
  BY Gone, EmptySeq DEF Await, Done
<1>2. Wait(at, by) \in Waits /\ Wait(at, by).at = at
  BY WaitFacts
<1>3. Restocking(Wait(at, by)) => NoneIn(waits)
  BY <1>2, NoneProgramming DEF Restocking, Waiters
<1>4. waits' = Append(waits, Wait(at, by))
  BY DEF Await
<1> QED  BY <1>1, <1>2, <1>3, <1>4, Appended DEF Waiters

\* or arms the timer,
LEMMA Armed ==
    ASSUME run \in Seq(Steps), run # <<>>, Waiters, StationOK, Arm
    PROVE  run' \in Seq(Steps) /\ Waiters' /\ cue' \in BOOLEAN /\ timer' \in BOOLEAN
<1>1. CASE Done /\ UNCHANGED waits /\ cue' \in {cue, FALSE} /\ timer' \in {timer, TRUE}
  <2>1. run' \in Seq(Steps)
    BY <1>1, Gone, EmptySeq DEF Done
  <2> QED  BY <1>1, <2>1 DEF Waiters, StationOK
<1>2. CASE cue' = FALSE /\ timer' = FALSE /\ Await("cue", "idle")
  <2>1. "cue" \in Waited /\ "idle" \in Askers
    BY AskersFacts DEF Waited, Chained
  <2> QED  BY <1>2, <2>1, Awaited
<1> QED  BY <1>1, <1>2 DEF Arm

\* or advances the queue.
LEMMA Advanced ==
    ASSUME run \in Seq(Steps), run # <<>>, Waiters, StationOK,
           NEW by \in Askers, NEW dry \in Seq(Steps), PlayNext(by, dry)
    PROVE  /\ run' \in Seq(Steps) /\ Waiters'
           /\ air' \in {"idle", "song", "bumper"} /\ queue' \in Queues
<1>1. CASE Go(dry) /\ UNCHANGED <<queue, waits>> /\ air' \in {air, "idle"}
  BY <1>1, Gone DEF Waiters, StationOK
<1>2. CASE queue' \in Stocked /\ Await("next", by) /\ UNCHANGED air
  <2>1. "next" \in Waited
    BY DEF Waited, Chained
  <2>2. run' \in Seq(Steps) /\ Waiters'
    BY <1>2, <2>1, Awaited
  <2> QED  BY <1>2, <2>2 DEF StationOK, Stocked, Queues
<1> QED  BY <1>1, <1>2 DEF PlayNext
-----------------------------------------------------------------------------

LEMMA InitInv == Init => Inv
<1> SUFFICES ASSUME Init PROVE Inv
  OBVIOUS
<1>1. waits \in Seq(Waits) /\ run \in Seq(Steps) /\ OneIn(waits)
  BY DEF Init, OneIn
<1> QED  BY <1>1 DEF Init, Inv, StationOK, Waiters, Loneliness, Queues

\* Every handler's step keeps the invariant,
LEMMA StepInv ==
    ASSUME Inv, Step
    PROVE  Inv'
<1> USE DEF Inv
<1> USE PastFacts, StepsFacts, AskersFacts
<1>0. /\ "presence" \in Waited /\ "search" \in Waited /\ "cue" \in Waited /\ "build" \in Waited
  BY DEF Waited
<1>1. ASSUME NEW step \in DOMAIN Past, Accompanied(step) PROVE Inv'
  <2>1. run' \in Seq(Steps)
    <3>1. <<Past[step]>> \in Seq(Steps)
      OBVIOUS
    <3> QED  BY <1>1, <3>1, Gone DEF Accompanied, Turn
  <2> QED  BY <1>1, <2>1 DEF Accompanied, StationOK, Waiters, Loneliness
<1>2. ASSUME NEW step \in DOMAIN Past, Resumed(step) PROVE Inv'
  <2>1. run # <<>> /\ Past[step] \in Askers /\ <<Past[step]>> \in Seq(Steps)
    BY <1>2 DEF Resumed, Turn
  <2>2. CASE Go(<<Past[step]>>) /\ UNCHANGED waits
    BY <1>2, <2>1, <2>2, Gone DEF Resumed, StationOK, Waiters, Loneliness
  <2>3. CASE MayProgram /\ Await("search", Past[step])
    <3>1. run' \in Seq(Steps) /\ Waiters'
      BY <1>0, <2>1, <2>3, Awaited DEF MayProgram
    <3> QED  BY <1>2, <3>1 DEF Resumed, StationOK, Loneliness
  <2> QED  BY <1>2, <2>2, <2>3 DEF Resumed
<1>3. ASSUME NEW step \in DOMAIN Past, AloneStop(step) PROVE Inv'
  <2>1. run' \in Seq(Steps)
    BY <1>3, Gone, EmptySeq DEF AloneStop, Turn, Done
  <2> QED  BY <1>3, <2>1 DEF AloneStop, StationOK, Waiters, Loneliness, Queues
<1>4. CASE Boundary
  <2>1. run # <<>> /\ <<>> \in Seq(Steps)
    BY <1>4 DEF Boundary, Turn
  <2>2. CASE Await("presence", "boundary") /\ UNCHANGED <<air, queue>>
    <3>1. run' \in Seq(Steps) /\ Waiters'
      BY <1>0, <2>1, <2>2, Awaited
    <3> QED  BY <1>4, <2>2, <3>1 DEF Boundary, StationOK
  <2>3. CASE PlayNext("nobody", <<>>)
    <3>1. /\ run' \in Seq(Steps) /\ Waiters'
          /\ air' \in {"idle", "song", "bumper"} /\ queue' \in Queues
      BY <2>1, <2>3, Advanced
    <3> QED  BY <1>4, <3>1 DEF Boundary, StationOK
  <2> QED  BY <1>4, <2>2, <2>3 DEF Boundary
<1>5. CASE AfterBumper
  <2>1. run # <<>> /\ <<"advance">> \in Seq(Steps)
    BY <1>5 DEF AfterBumper, Turn
  <2>2. CASE MayProgram /\ timer' = FALSE /\ Await("search", "bumper")
    <3>1. run' \in Seq(Steps) /\ Waiters'
      BY <1>0, <2>1, <2>2, Awaited DEF MayProgram
    <3> QED  BY <1>5, <2>2, <3>1 DEF AfterBumper, StationOK
  <2>3. CASE Go(<<"advance">>) /\ UNCHANGED <<timer, waits>>
    <3>1. run' \in Seq(Steps)
      BY <2>1, <2>3, Gone
    <3> QED  BY <1>5, <2>3, <3>1 DEF AfterBumper, StationOK, Waiters
  <2> QED  BY <1>5, <2>2, <2>3 DEF AfterBumper
<1>6. CASE NextSlot
  <2>1. run # <<>> /\ <<"advance">> \in Seq(Steps)
    BY <1>6 DEF NextSlot, Turn
  <2>2. run' \in Seq(Steps) /\ Waiters'
    <3>1. CASE Await("cue", "boundary")
      BY <1>0, <2>1, <3>1, Awaited
    <3>2. CASE Await("build", "boundary")
      BY <1>0, <2>1, <3>2, Awaited
    <3>3. CASE Go(<<"advance">>) /\ UNCHANGED waits
      BY <2>1, <3>3, Gone DEF Waiters
    <3> QED  BY <1>6, <3>1, <3>2, <3>3 DEF NextSlot
  <2> QED  BY <1>6, <2>2 DEF NextSlot, StationOK
<1>7. CASE Advance
  <2>1. run # <<>> /\ <<"dry">> \in Seq(Steps) /\ PlayNext("advance", <<"dry">>)
    BY <1>7 DEF Advance, Turn
  <2>2. /\ run' \in Seq(Steps) /\ Waiters'
        /\ air' \in {"idle", "song", "bumper"} /\ queue' \in Queues
    BY <2>1, Advanced
  <2> QED  BY <1>7, <2>2 DEF Advance, StationOK
<1>8. CASE Dry \/ ArmAgain \/ Rearm
  <2>1. /\ run # <<>>
        /\ Arm \/ (Done /\ UNCHANGED <<cue, timer, waits>>)
        /\ UNCHANGED <<enabled, here, seen, alone, air, queue, paused, pending, restock>>
    BY <1>8 DEF Dry, ArmAgain, Rearm, Turn
  <2>2. CASE Arm
    BY <2>1, <2>2, Armed DEF StationOK
  <2>3. CASE Done /\ UNCHANGED <<cue, timer, waits>>
    <3>1. run' \in Seq(Steps)
      BY <2>1, <2>3, Gone, EmptySeq DEF Done
    <3> QED  BY <2>1, <2>3, <3>1 DEF StationOK, Waiters
  <2> QED  BY <2>1, <2>2, <2>3
<1>9. CASE PollGoesOn
  <2>1. /\ run # <<>>
        /\ \/ Arm
           \/ Done /\ UNCHANGED <<cue, timer, waits>>
           \/ cue' = FALSE /\ Await("cue", "idle") /\ UNCHANGED timer
        /\ UNCHANGED <<enabled, here, seen, alone, air, queue, paused, pending, restock>>
    BY <1>9 DEF PollGoesOn, Turn
  <2>2. CASE Arm
    BY <2>1, <2>2, Armed DEF StationOK
  <2>3. CASE Done /\ UNCHANGED <<cue, timer, waits>>
    <3>1. run' \in Seq(Steps)
      BY <2>1, <2>3, Gone, EmptySeq DEF Done
    <3> QED  BY <2>1, <2>3, <3>1 DEF StationOK, Waiters
  <2>4. CASE cue' = FALSE /\ Await("cue", "idle") /\ UNCHANGED timer
    <3>1. run' \in Seq(Steps) /\ Waiters'
      BY <1>0, <2>1, <2>4, Awaited
    <3> QED  BY <2>1, <2>4, <3>1 DEF StationOK
  <2> QED  BY <2>1, <2>2, <2>3, <2>4
<1>10. CASE DeadAir
  <2> DEFINE by == IF seen THEN "fill" ELSE "fillAlone"
  <2>1. run # <<>> /\ by \in {"fill", "fillAlone"} /\ <<by>> \in Seq(Steps)
    BY <1>10 DEF DeadAir, Turn
  <2>2. run' \in Seq(Steps) /\ Waiters' /\ cue' \in {cue, FALSE}
    <3>1. CASE cue' = FALSE /\ Await("cue", by)
      BY <1>0, <2>1, <3>1, Awaited
    <3>2. CASE Go(<<by>>) /\ UNCHANGED <<cue, waits>>
      BY <2>1, <3>2, Gone DEF Waiters
    <3> QED  BY <1>10, <3>1, <3>2 DEF DeadAir
  <2> QED  BY <1>10, <2>2 DEF DeadAir, StationOK
<1>11. CASE Program
  <2>1. run # <<>>
    BY <1>11 DEF Program, Turn
  <2>2. run' \in Seq(Steps) /\ Waiters' /\ cue' \in BOOLEAN /\ timer' \in BOOLEAN
    <3>1. CASE MayProgram /\ timer' = FALSE /\ Await("search", "fill") /\ UNCHANGED cue
      <4>1. run' \in Seq(Steps) /\ Waiters'
        BY <1>0, <2>1, <3>1, Awaited DEF MayProgram
      <4> QED  BY <3>1, <4>1 DEF StationOK
    <3>2. CASE Arm
      BY <2>1, <3>2, Armed
    <3> QED  BY <1>11, <3>1, <3>2 DEF Program
  <2> QED  BY <1>11, <2>2 DEF Program, StationOK
<1>12. CASE Error
  <2>1. run # <<>> /\ <<>> \in Seq(Steps) /\ PlayNext("nobody", <<>>)
    BY <1>12 DEF Error, Turn
  <2>2. /\ run' \in Seq(Steps) /\ Waiters'
        /\ air' \in {"idle", "song", "bumper"} /\ queue' \in Queues
    BY <2>1, Advanced
  <2> QED  BY <1>12, <2>2 DEF Error, StationOK
<1>13. ASSUME NEW by \in {"fill", "fillAlone"}, FillBumper(by) PROVE Inv'
  <2>1. run # <<>> /\ <<"program">> \in Seq(Steps) /\ UNCHANGED station
    BY <1>13 DEF FillBumper, Turn
  <2>2. run' \in Seq(Steps) /\ Waiters'
    <3>1. CASE Await("build", by)
      BY <1>0, <2>1, <3>1, Awaited
    <3>2. CASE Go(<<"program">>) /\ UNCHANGED waits
      BY <2>1, <3>2, Gone DEF Waiters
    <3>3. CASE Done /\ UNCHANGED waits
      BY <2>1, <3>3, Gone, EmptySeq DEF Done, Waiters
    <3> QED  BY <1>13, <3>1, <3>2, <3>3 DEF FillBumper
  <2> QED  BY <2>1, <2>2 DEF station, StationOK
<1> QED
  BY <1>1, <1>2, <1>3, <1>4, <1>5, <1>6, <1>7, <1>8, <1>9, <1>10, <1>11, <1>12, <1>13, Zenon
  DEF Step

\* so does whatever was waited for,
LEMMA AnswerInv ==
    ASSUME Inv, NEW k \in DOMAIN waits,
           \/ Counted(k) \/ SongsFound(k) \/ NoSongsFound(k) \/ BumperBuilt(k)
           \/ NoBumper(k) \/ SongStarts(k) \/ SongFails(k)
    PROVE  Inv'
<1> USE DEF Inv
<1> USE PastFacts, StepsFacts, AskersFacts
<1> DEFINE w == waits[k]
           rest == Without(k)
<1>1. /\ w \in Waits /\ rest \in Seq(Waits) /\ OneIn(rest)
      /\ Restocking(w) /\ w.by # "ops" => NoneIn(rest)
  <2>1. waits \in Seq(Waits) /\ OneIn(waits)
    BY DEF Waiters
  <2>2. w \in Waits
    BY <2>1
  <2> QED  BY <2>1, <2>2, Removed DEF Without
<1>2. w.at \in Waited /\ w.by \in Askers
  BY <1>1 DEF Waits
<1>3. ASSUME NEW steps \in Seq(Steps), Ended(k, steps)
      PROVE  Waiters' /\ run' \in Seq(Steps)
  BY <1>1, <1>3 DEF Ended, Waiters
<1>4. /\ <<>> \in Seq(Steps)
      /\ \A step \in Steps : <<step>> \in Seq(Steps)
      /\ \A step, then \in Steps : <<step, then>> \in Seq(Steps)
  OBVIOUS
<1>12. Restocked(w.by) \in Seq(Steps)
  BY <1>4 DEF Restocked
<1> HIDE DEF rest
<1>5. CASE Counted(k)
  <2>1. Backstop \o <<"boundary">> \in Seq(Steps)
    <3>1. CASE enabled
      BY <3>1 DEF Backstop
    <3>2. CASE ~ enabled
      BY <3>2, ConcatEmptySeq, <1>4 DEF Backstop
    <3> QED  BY <3>1, <3>2
  <2>2. Waiters' /\ run' \in Seq(Steps)
    BY <1>3, <1>4, <1>5, <2>1 DEF Counted
  <2> QED  BY <1>5, <2>2 DEF Counted, StationOK
<1>6. CASE SongsFound(k)
  <2>1. w.at = "search"
    BY <1>6 DEF SongsFound, Answered
  <2>2. Waiters' /\ run' \in Seq(Steps)
    <3>1. CASE Ended(k, Restocked(w.by))
      BY <1>3, <1>12, <3>1
    <3>2. CASE waits' = Append(rest, Wait("restart", w.by)) /\ UNCHANGED run
      <4>1. w.by \in Resumes \cup {"bumper", "fill", "ops"} /\ Restocking(w)
        BY <1>1, <2>1 DEF Waits, Restocking
      <4>2. Wait("restart", w.by) \in Waits /\ Wait("restart", w.by).by = w.by
        <5>1. "restart" \in Waited
          BY DEF Waited, Chained
        <5> QED  BY <1>2, <4>1, <5>1, WaitFacts
      <4> QED  BY <1>1, <3>2, <4>1, <4>2, Appended DEF Waiters
    <3> QED  BY <1>6, <3>1, <3>2 DEF SongsFound, rest
  <2> QED  BY <1>6, <2>2 DEF SongsFound, StationOK, Stocked, Queues
<1>7. CASE NoSongsFound(k)
  <2>1. w.at = "search" /\ Restocking(w)
    BY <1>7 DEF NoSongsFound, Answered, Restocking
  <2>2. w.by \in Resumes \cup {"bumper", "fill", "ops"}
    BY <1>1, <2>1 DEF Waits
  <2>3. NotRestocked(w.by) \in Seq(Steps)
    <3>1. CASE w.by \in Resumes
      BY <1>4, <3>1 DEF NotRestocked
    <3>2. CASE w.by = "bumper"
      BY <1>4, <3>2 DEF NotRestocked
    <3>3. CASE w.by = "fill"
      BY <1>4, <3>3 DEF NotRestocked
    <3>4. CASE w.by = "ops"
      BY <1>4, <3>4 DEF NotRestocked
    <3> QED  BY <2>2, <3>1, <3>2, <3>3, <3>4
  <2>4. Waiters' /\ run' \in Seq(Steps)
    BY <1>3, <1>12, <1>7, <2>3 DEF NoSongsFound
  <2> QED  BY <1>7, <2>4 DEF NoSongsFound, StationOK, Queues
<1>8. CASE BumperBuilt(k)
  <2>1. Waiters' /\ run' \in Seq(Steps)
    BY <1>3, <1>4, <1>8 DEF BumperBuilt
  <2>2. Owed(k) \in BOOLEAN /\ (timer /\ w.at = "build") \in BOOLEAN
    BY DEF Owed, StationOK
  <2> QED  BY <1>8, <2>1, <2>2 DEF BumperBuilt, StationOK
<1>9. CASE NoBumper(k)
  <2>1. w.at \in {"cue", "build"}
    BY <1>9 DEF NoBumper, Answered
  <2>2. w.at = "cue" => w.by \in {"boundary", "idle", "now", "fill", "fillAlone"}
    BY <1>1 DEF Waits
  <2> DEFINE after == CASE w.by = "boundary" -> <<"advance">>
                        [] w.by \in {"idle", "now"} -> <<>>
                        [] w.at = "cue" /\ w.by \in {"fill", "fillAlone"} -> <<w.by>>
                        [] w.at = "build" /\ w.by = "fill" -> <<"program">>
                        [] OTHER -> <<>>
  <2>3. after \in Seq(Steps)
    <3>1. after \in {<<"advance">>, <<>>, <<"program">>, <<"fill">>, <<"fillAlone">>}
      BY <2>1, <2>2
    <3> HIDE DEF after
    <3> QED  BY <1>4, <3>1
  <2>4. Waiters' /\ run' \in Seq(Steps)
    BY <1>3, <1>9, <2>3 DEF NoBumper
  <2> QED  BY <1>9, <2>4 DEF NoBumper, StationOK
<1>10. CASE SongStarts(k)
  <2>1. Waiters' /\ run' \in Seq(Steps)
    BY <1>3, <1>4, <1>10, <1>12 DEF SongStarts
  <2>2. /\ (timer /\ w.by \in {"nobody", "user", "test", "ops"}) \in BOOLEAN
        /\ (paused /\ w.by = "test") \in BOOLEAN
    BY DEF StationOK
  <2> QED  BY <1>10, <2>1, <2>2 DEF SongStarts, StationOK
<1>11. CASE SongFails(k)
  <2>1. Waiters' /\ run' \in Seq(Steps) /\ queue' \in Queues /\ air' \in {air, "idle"}
    <3>1. CASE /\ queue' \in Stocked
               /\ waits' = Append(rest, w)
               /\ UNCHANGED <<air, run>>
      BY <1>1, <3>1, Appended DEF Waiters, Stocked, Queues
    <3>2. CASE /\ air' = IF w.at = "next" THEN "idle" ELSE air
               /\ Ended(k, CASE w.at = "restart" -> Restocked(w.by)
                             [] w.by = "advance" -> <<"dry">>
                             [] OTHER -> <<>>)
               /\ queue' \in {queue, "empty"}
      <4> DEFINE after == CASE w.at = "restart" -> Restocked(w.by)
                            [] w.by = "advance" -> <<"dry">>
                            [] OTHER -> <<>>
      <4>1. after \in Seq(Steps)
        BY <1>4, <1>12
      <4> QED  BY <1>3, <3>2, <4>1 DEF StationOK, Queues
    <3> QED  BY <1>11, <3>1, <3>2 DEF SongFails, rest
  <2> QED  BY <1>11, <2>1 DEF SongFails, StationOK
<1> QED  BY <1>5, <1>6, <1>7, <1>8, <1>9, <1>10, <1>11

\* and whatever begins a turn.
LEMMA BeginInv ==
    ASSUME Inv,
           \/ TrackEnds \/ PlayerFails \/ TimerFires \/ Poll \/ GraceOver \/ Commute \/ Switch
           \/ Cue \/ SkipBumper \/ Ops \/ Skip \/ Play \/ Test \/ Add \/ Stop \/ Pause \/ Resume
    PROVE  Inv'
<1> USE DEF Inv
<1> USE PastFacts, StepsFacts, AskersFacts
<1>1. \A step \in Steps : <<step>> \in Seq(Steps)
  OBVIOUS
<1>2. <<>> \in Seq(Steps)
  OBVIOUS
<1>3. ASSUME NEW at \in {"cue", "search", "play"}, NEW by \in Askers,
             at = "cue" => by = "now", at = "search" => by = "ops",
             waits' = Append(waits, Wait(at, by))
      PROVE  Waiters'
  <2>1. at \in Waited
    BY DEF Waited, Chained
  <2>2. Wait(at, by) \in Waits /\ (Restocking(Wait(at, by)) => Wait(at, by).by = "ops")
    BY <1>3, <2>1, WaitFacts DEF Restocking
  <2> QED  BY <1>3, <2>2, Appended DEF Waiters
<1>4. CASE TrackEnds \/ PlayerFails \/ Skip
  <2>1. run' \in Seq(Steps) /\ UNCHANGED waits
    <3>1. run' \in {<<"trackBoundary">>, <<"playNext">>} /\ UNCHANGED waits
      BY <1>4 DEF TrackEnds, PlayerFails, Skip, station
    <3>2. <<"trackBoundary">> \in Seq(Steps) /\ <<"playNext">> \in Seq(Steps)
      BY <1>1
    <3> QED  BY <3>1, <3>2, Zenon
  <2>2. StationOK'
    <3>1. CASE TrackEnds
      BY <3>1 DEF TrackEnds, StationOK
    <3>2. CASE PlayerFails
      BY <3>2 DEF PlayerFails, station, StationOK
    <3>3. CASE Skip
      BY <3>3 DEF Skip, StationOK
    <3> QED  BY <1>4, <3>1, <3>2, <3>3
  <2> QED  BY <2>1, <2>2 DEF Waiters
<1>5. CASE TimerFires
  <2>1. run' \in Seq(Steps)
    BY <1>1, <1>2, <1>5 DEF TimerFires
  <2> QED  BY <1>5, <2>1 DEF TimerFires, StationOK, Waiters
<1>6. CASE Poll
  <2>1. run' \in Seq(Steps)
    BY <1>1, <1>2, <1>6 DEF Poll, Backstop
  <2> QED  BY <1>6, <2>1 DEF Poll, StationOK, Waiters
<1>7. CASE GraceOver
  BY <1>7 DEF GraceOver, StationOK, Loneliness, Waiters
<1>8. CASE Commute
  BY <1>8 DEF Commute, StationOK, Waiters
<1>9. CASE Switch
  BY <1>9 DEF Switch, StationOK, Waiters
<1>10. CASE Cue
  <2>1. Waiters' /\ cue' \in BOOLEAN /\ timer' \in BOOLEAN
    <3>1. CASE cue' = FALSE /\ timer' = FALSE /\ waits' = Append(waits, Wait("cue", "now"))
      BY <1>3, <3>1
    <3>2. CASE cue' = TRUE /\ UNCHANGED <<timer, waits>>
      BY <3>2 DEF StationOK, Waiters
    <3> QED  BY <1>10, <3>1, <3>2 DEF Cue
  <2> QED  BY <1>10, <2>1 DEF Cue, StationOK
<1>11. CASE SkipBumper
  BY <1>11 DEF SkipBumper, StationOK, Waiters
<1>12. CASE Ops
  <2>1. Waiters'
    BY <1>3, <1>12 DEF Ops
  <2> QED  BY <1>12, <2>1 DEF Ops, station, StationOK
<1>13. CASE Play
  <2>1. Waiters'
    BY <1>3, <1>13 DEF Play
  <2> QED  BY <1>13, <2>1 DEF Play, StationOK, Stocked, Queues
<1>18. CASE Test
  <2>1. Waiters'
    BY <1>3, <1>18 DEF Test
  <2> QED  BY <1>18, <2>1 DEF Test, StationOK, Queues
<1>14. CASE Add
  <2>1. Waiters' /\ queue' \in Queues
    <3>1. CASE Idle
      BY <1>3, <1>14, <3>1 DEF Add, Stocked, Queues
    <3>2. CASE ~ Idle
      BY <1>14, <3>2 DEF Add, Queues, Waiters
    <3> QED  BY <3>1, <3>2
  <2> QED  BY <1>14, <2>1 DEF Add, StationOK
<1>15. CASE Stop
  BY <1>15 DEF Stop, StationOK, Queues, Waiters
<1>16. CASE Pause
  BY <1>16 DEF Pause, StationOK, Waiters
<1>17. CASE Resume
  <2>1. Waiters' /\ paused' \in BOOLEAN
    <3>1. CASE queue \in Stocked
      BY <1>3, <1>17, <3>1 DEF Resume, StationOK
    <3>2. CASE queue \notin Stocked
      BY <1>17, <3>2 DEF Resume, Waiters
    <3> QED  BY <3>1, <3>2
  <2> QED  BY <1>17, <2>1 DEF Resume, StationOK
<1> QED
  BY <1>4, <1>5, <1>6, <1>7, <1>8, <1>9, <1>10, <1>11, <1>12, <1>13, <1>14, <1>15, <1>16, <1>17,
     <1>18

-----------------------------------------------------------------------------

\* The director's inductive invariant holds in every state it reaches.
THEOREM Invariance == Spec => []Inv
<1>1. Init => Inv
  BY InitInv
<1>2. Inv /\ [Next]_vars => Inv'
  <2> SUFFICES ASSUME Inv, [Next]_vars PROVE Inv'
    OBVIOUS
  <2>1. CASE UNCHANGED vars
    BY <2>1 DEF vars, station, Inv, StationOK, Waiters
  <2>2. CASE Runs
    BY <2>2, StepInv, AnswerInv, BeginInv DEF Runs, Answer
  <2>3. CASE Disturbed
    BY <2>3, AnswerInv, BeginInv DEF Disturbed
  <2> QED  BY <2>1, <2>2, <2>3 DEF Next
<1> QED  BY <1>1, <1>2, PTL DEF Spec

\* The variables are of the types the code's declarations give them.
THEOREM TypeCorrect == Spec => []TypeOK
<1>1. waits \in Seq(Waits) => waits \in Seq([at : Waited, by : Askers])
  <2> SUFFICES ASSUME waits \in Seq(Waits) PROVE waits \in Seq([at : Waited, by : Askers])
    OBVIOUS
  <2>1. Waits \subseteq [at : Waited, by : Askers]
    BY DEF Waits
  <2> QED  BY <2>1, SeqMonotonic
<1>2. Inv => TypeOK
  BY <1>1 DEF Inv, StationOK, Waiters, TypeOK
<1> QED  BY <1>2, Invariance, PTL

\* However boundaries, polls, timers, people and operators interleave, the
\* director has at most one restock under way (director.ts:101-105, 542-551).
THEOREM OneRestockAtATime == Spec => []SingleRestock
<1>1. Inv => SingleRestock
  BY DEF Inv, Waiters, OneIn, Restocking, SingleRestock
<1> QED  BY <1>1, Invariance, PTL

-----------------------------------------------------------------------------
(* A pause holds. *)

\* The silence of a pause: the operator's, or the one that is left when the
\* empty station has been stopped under it.  A poll that is under way has
\* just taken over the head count.
AtRest ==
    /\ Idle /\ waits = <<>>
    /\ \/ paused /\ run \in {<<>>, <<"poll">>, <<"poll2">>}
       \/ /\ ~paused /\ alone = "stopped" /\ ~seen /\ ~here /\ ~timer
          /\ run \in {<<>>, <<"poll">>}
    /\ run # <<>> => seen = here

\* Whatever the station does by itself leaves it in that silence.
LEMMA RestStays ==
    ASSUME AtRest, Runs
    PROVE  AtRest'
<1>1. ASSUME NEW step \in DOMAIN Past, Turn(step) PROVE step = "poll" /\ Past[step] = "poll2"
  BY <1>1 DEF AtRest, Turn, Past
<1>2. ASSUME run = <<"poll">> \/ run = <<"poll2">> PROVE Tail(run) = <<>>
  <2>1. Tail(<<"poll">>) = <<>>
    OBVIOUS
  <2>2. Tail(<<"poll2">>) = <<>>
    OBVIOUS
  <2> QED  BY <1>2, <2>1, <2>2
<1>3. ASSUME NEW step \in DOMAIN Past, Accompanied(step) PROVE AtRest'
  <2>1. run = <<"poll">> /\ paused
    BY <1>1, <1>3 DEF Accompanied, AtRest, Turn, InGrace
  <2>2. run' = <<"poll2">>
    BY <1>1, <1>2, <1>3, <2>1 DEF Accompanied, Turn, Go
  <2> QED  BY <1>3, <2>1, <2>2 DEF Accompanied, AtRest, Idle
<1>4. ASSUME NEW step \in DOMAIN Past, Resumed(step) PROVE AtRest'
  <2>1. run = <<"poll">> /\ paused
    BY <1>1, <1>4 DEF Resumed, AtRest, Turn
  <2>2. run' = <<"poll2">> /\ UNCHANGED waits
    BY <1>1, <1>4, <2>1 DEF Resumed, Go, Turn
  <2> QED  BY <1>4, <2>1, <2>2 DEF Resumed, AtRest, Idle
<1>5. ASSUME NEW step \in DOMAIN Past, AloneStop(step) PROVE AtRest'
  <2>1. run = <<"poll">> /\ ~seen /\ ~here
    BY <1>1, <1>5 DEF AloneStop, AtRest, Turn
  <2>2. run' = <<>>
    BY <1>2, <1>5, <2>1 DEF AloneStop, Done, Go
  <2> QED  BY <1>5, <2>1, <2>2 DEF AloneStop, AtRest, Idle
<1>6. ASSUME PollGoesOn PROVE AtRest'
  <2>1. run = <<"poll2">> /\ paused
    BY <1>6 DEF PollGoesOn, AtRest, Turn
  <2>2. run' = <<>>
    BY <1>2, <1>6, <2>1 DEF PollGoesOn, Done, Go
  <2> QED  BY <1>6, <2>1, <2>2 DEF PollGoesOn, AtRest, Idle
<1>7. /\ ~Boundary /\ ~AfterBumper /\ ~NextSlot /\ ~Advance /\ ~Dry /\ ~ArmAgain /\ ~Rearm
      /\ ~DeadAir /\ ~Program /\ ~Error
      /\ \A by \in {"fill", "fillAlone"} : ~FillBumper(by)
  BY DEF AtRest, Turn, Boundary, AfterBumper, NextSlot, Advance, Dry, ArmAgain, Rearm,
         DeadAir, Program, Error, FillBumper
<1>8. ASSUME TimerFires PROVE AtRest'
  <2>1. run' = <<>> /\ paused
    BY <1>8 DEF TimerFires, AtRest
  <2> QED  BY <1>8, <2>1 DEF TimerFires, AtRest, Idle
<1>9. ASSUME Poll PROVE AtRest'
  BY <1>9 DEF Poll, Backstop, AtRest, Idle
<1>10. ASSUME GraceOver PROVE AtRest'
  BY <1>10 DEF GraceOver, AtRest, Idle
<1>11. ~TrackEnds /\ ~Answer
  BY DEF TrackEnds, Answer, AtRest
<1> QED
  BY <1>3, <1>4, <1>5, <1>6, <1>7, <1>8, <1>9, <1>10, <1>11 DEF Runs, Step

\* For any number of handlers at once and of disturbances before: when nothing
\* is under way in a paused station, nothing but a disturbance ends its silence
\* (director.ts:322, 433, 545, 584).
THEOREM PausesHold == MCSpec => PauseHolds
<1> DEFINE Undisturbed == left = 0 /\ AtRest
<1>1. Undisturbed /\ [MCNext]_<<vars, left>> => Undisturbed'
  <2> SUFFICES ASSUME Undisturbed, [MCNext]_<<vars, left>> PROVE Undisturbed'
    OBVIOUS
  <2>1. CASE MCNext
    <3>1. Runs /\ UNCHANGED left
      BY <2>1 DEF MCNext
    <3> QED  BY <3>1, RestStays
  <2>2. CASE UNCHANGED <<vars, left>>
    BY <2>2 DEF vars, station, AtRest, Idle
  <2> QED  BY <2>1, <2>2
<1>2. left = 0 /\ paused /\ Idle /\ waits = <<>> /\ run = <<>> => Undisturbed
  BY DEF AtRest
<1>3. Undisturbed => Idle
  BY DEF AtRest
<1> HIDE DEF Undisturbed
<1> QED  BY <1>1, <1>2, <1>3, PTL DEF MCSpec, PauseHolds

-----------------------------------------------------------------------------
(* The relay scheduler has one schedule at a time, for any number of calls *)
(* of start and stop and whatever bumpers are being built when they come.  *)

\* A chain carries the generation it was begun in, so that of several that
\* are in flight only the last one's can be live.
ChainsKeepTheirGeneration ==
    \A c \in Chains : chain[c] # "none" => c <= generation /\ gen[c] = c

\* Only the timer that stop() can clear is armed.
ArmedIsHeld == \A c \in Chains : chain[c] = "armed" => c = handle

LastChainRuns ==
    IF relaying
      THEN /\ generation \in Chains /\ handle = generation
           /\ chain[generation] \in {"armed", "firing"}
      ELSE handle = NoChain

RelayInv == RelayTypeOK /\ ChainsKeepTheirGeneration /\ ArmedIsHeld /\ LastChainRuns

USE DEF NoChain, Chains, ChainStages, RelayAssumption

\* The scheduler starts with no timer and no chain.
LEMMA RelayInitInv == ASSUME RelayAssumption, RelayInit PROVE RelayInv
<1>1. RelayTypeOK
  <2>1. generation \in 0 .. MaxGenerations
    BY DEF RelayInit
  <2>2. chain \in [Chains -> ChainStages] /\ gen \in [Chains -> 0 .. MaxGenerations]
    BY DEF RelayInit
  <2> QED BY <2>1, <2>2 DEF RelayInit, RelayTypeOK
<1>2. ChainsKeepTheirGeneration /\ ArmedIsHeld /\ LastChainRuns
  BY DEF RelayInit, ChainsKeepTheirGeneration, ArmedIsHeld, LastChainRuns
<1> QED BY <1>1, <1>2 DEF RelayInv

\* What stop() leaves of the chains: nothing armed, and no chain brought back.
LEMMA ClearedChains ==
  ASSUME RelayAssumption, RelayInv
  PROVE  /\ Cleared \in [Chains -> ChainStages]
         /\ \A c \in Chains : Cleared[c] # "armed"
         /\ \A c \in Chains : Cleared[c] # "none" => chain[c] # "none"
  BY DEF Cleared, RelayInv, RelayTypeOK, ArmedIsHeld

\* stop() ends the schedule.
LEMMA RelayStopInv == ASSUME RelayAssumption, RelayInv, RelayStop PROVE RelayInv'
<1>1. RelayTypeOK'
  <2>1. generation' \in 0 .. MaxGenerations
    BY DEF RelayStop, RelayInv, RelayTypeOK
  <2>2. chain' \in [Chains -> ChainStages] /\ gen' \in [Chains -> 0 .. MaxGenerations]
    BY ClearedChains DEF RelayStop, RelayInv, RelayTypeOK
  <2> QED BY <2>1, <2>2 DEF RelayStop, RelayTypeOK
<1>2. ChainsKeepTheirGeneration'
  BY ClearedChains DEF RelayStop, RelayInv, RelayTypeOK, ChainsKeepTheirGeneration
<1>3. ArmedIsHeld' /\ LastChainRuns'
  BY ClearedChains DEF RelayStop, ArmedIsHeld, LastChainRuns
<1> QED BY <1>1, <1>2, <1>3 DEF RelayInv

\* start(cfg) ends the schedule and begins the chain of a new generation.
LEMMA RelayStartInv == ASSUME RelayAssumption, RelayInv, RelayStart PROVE RelayInv'
<1> DEFINE n == generation + 1
<1>0. n \in Chains
  BY DEF RelayStart, RelayInv, RelayTypeOK
<1>1. RelayTypeOK'
  BY <1>0, ClearedChains DEF RelayStart, RelayInv, RelayTypeOK
<1>2. ASSUME NEW c \in Chains, chain'[c] # "none"
      PROVE  c <= generation' /\ gen'[c] = c
  <2>1. CASE c = n
    BY <1>0, <2>1 DEF RelayStart, RelayInv, RelayTypeOK
  <2>2. CASE c # n
    BY <1>0, <1>2, <2>2, ClearedChains DEF RelayStart, RelayInv, RelayTypeOK, ChainsKeepTheirGeneration
  <2> QED BY <2>1, <2>2
<1>3. ArmedIsHeld'
  BY <1>0, ClearedChains DEF RelayStart, ArmedIsHeld
<1>4. LastChainRuns'
  BY <1>0, ClearedChains DEF RelayStart, LastChainRuns
<1> QED BY <1>1, <1>2, <1>3, <1>4 DEF RelayInv, ChainsKeepTheirGeneration

\* A timer fires: the chain of the current generation builds its bumper.
LEMMA FiresInv ==
  ASSUME RelayAssumption, RelayInv, NEW c \in Chains, Fires(c)
  PROVE  RelayInv'
<1>1. RelayTypeOK' /\ ChainsKeepTheirGeneration' /\ ArmedIsHeld'
  BY DEF Fires, RelayInv, RelayTypeOK, ChainsKeepTheirGeneration, ArmedIsHeld
<1>2. LastChainRuns'
  <2>1. CASE relaying
    <3>1. generation \in Chains /\ gen[generation] = generation
      BY <2>1 DEF RelayInv, LastChainRuns, ChainsKeepTheirGeneration
    <3> QED BY <2>1, <3>1 DEF Fires, RelayInv, RelayTypeOK, LastChainRuns, Live
  <2>2. CASE ~relaying
    BY <2>2 DEF Fires, RelayInv, LastChainRuns
  <2> QED BY <2>1, <2>2
<1> QED BY <1>1, <1>2 DEF RelayInv

\* A bumper is over: the timer is set again in the current generation only.
LEMMA SettlesInv ==
  ASSUME RelayAssumption, RelayInv, NEW c \in Chains, Settles(c)
  PROVE  RelayInv'
<1>0. c <= generation /\ gen[c] = c
  BY DEF Settles, RelayInv, ChainsKeepTheirGeneration
<1>1. CASE Live(c)
  <2>1. c = generation /\ relaying
    BY <1>0, <1>1 DEF Live
  <2>2. RelayTypeOK' /\ ChainsKeepTheirGeneration'
    BY <1>1, <2>1 DEF Settles, RelayInv, RelayTypeOK, ChainsKeepTheirGeneration
  <2>3. ArmedIsHeld' /\ LastChainRuns'
    BY <1>1, <2>1 DEF Settles, RelayInv, RelayTypeOK, ArmedIsHeld, LastChainRuns
  <2> QED BY <2>2, <2>3 DEF RelayInv
<1>2. CASE ~Live(c)
  <2>1. ~relaying \/ c # generation
    BY <1>0, <1>2 DEF Live
  <2>2. RelayTypeOK' /\ ChainsKeepTheirGeneration' /\ ArmedIsHeld'
    BY <1>2 DEF Settles, RelayInv, RelayTypeOK, ChainsKeepTheirGeneration, ArmedIsHeld
  <2>3. LastChainRuns'
    BY <1>2, <2>1 DEF Settles, RelayInv, RelayTypeOK, LastChainRuns
  <2> QED BY <2>2, <2>3 DEF RelayInv
<1> QED BY <1>1, <1>2

\* Nothing but the calls and the timers changes the scheduler.
LEMMA RelayStepInv == ASSUME RelayAssumption, RelayInv, [RelayNext]_relayVars PROVE RelayInv'
<1>1. CASE RelayStop
  BY <1>1, RelayStopInv
<1>2. CASE RelayStart
  BY <1>2, RelayStartInv
<1>3. ASSUME NEW c \in Chains, Fires(c) PROVE RelayInv'
  BY <1>3, FiresInv
<1>4. ASSUME NEW c \in Chains, Settles(c) PROVE RelayInv'
  BY <1>4, SettlesInv
<1>5. CASE UNCHANGED relayVars
  BY <1>5 DEF relayVars, RelayInv, RelayTypeOK, ChainsKeepTheirGeneration, ArmedIsHeld, LastChainRuns
<1> QED BY <1>1, <1>2, <1>3, <1>4, <1>5 DEF RelayNext

\* The invariant leaves one chain to ask for bumpers: the last start's.
LEMMA InvOneSchedule == ASSUME RelayAssumption, RelayInv PROVE OneSchedule
<1>1. CASE relaying
  <2>1. generation \in Chains /\ handle = generation /\ gen[generation] = generation
    BY <1>1 DEF RelayInv, LastChainRuns, ChainsKeepTheirGeneration
  <2>2. ASSUME NEW c \in Chains, c \in Scheduled PROVE c = generation
    BY <2>1, <2>2 DEF Scheduled, Live, RelayInv, ArmedIsHeld, ChainsKeepTheirGeneration
  <2>3. generation \in Scheduled
    BY <1>1, <2>1 DEF Scheduled, Live, RelayInv, LastChainRuns
  <2>4. Scheduled \subseteq Chains
    BY DEF Scheduled
  <2> QED BY <1>1, <2>2, <2>3, <2>4 DEF OneSchedule
<1>2. CASE ~relaying
  <2>1. \A c \in Chains : c \notin Scheduled
    BY <1>2 DEF Scheduled, Live, RelayInv, ArmedIsHeld, LastChainRuns
  <2>2. Scheduled \subseteq Chains
    BY DEF Scheduled
  <2> QED BY <1>2, <2>1, <2>2 DEF OneSchedule
<1> QED BY <1>1, <1>2

\* While a stream is relayed exactly the chain of the last start asks for
\* bumpers, and none does after a stop (radio/relay.ts: "in-flight bumpers
\* will not re-arm").
THEOREM OneScheduleAtATime == RelayAssumption => (RelaySpec => []OneSchedule)
<1> SUFFICES ASSUME RelayAssumption PROVE RelaySpec => []OneSchedule
  OBVIOUS
<1>1. RelayInit => RelayInv
  BY RelayInitInv
<1>2. RelayInv /\ [RelayNext]_relayVars => RelayInv'
  BY RelayStepInv
<1>3. RelayInv => OneSchedule
  BY InvOneSchedule
<1> QED BY <1>1, <1>2, <1>3, PTL DEF RelaySpec
=============================================================================
