----------------------------- MODULE TurnsProofs -----------------------------
(***************************************************************************)
(* What Turns guarantees for any tree, any hosts and any bounds.  A         *)
(* behaviour is one of a single part, so each theorem rests on an invariant *)
(* of one part that its own steps keep and the steps of the others leave    *)
(* alone.                                                                   *)
(***************************************************************************)
EXTENDS Turns, FiniteSetTheorems, TLAPS

-----------------------------------------------------------------------------
(* The watchdog of the terminal host                                        *)

(* A free loop has snoozed less than two periods ago, and the watchdog's    *)
(* thread that saw ~paused before a close began still compares the clock of *)
(* then, because no period passes between its two looks.                    *)
DogInv ==
  /\ SparesTheLiving
  /\ paused = (span = "closing")
  /\ span \in {"free", "over"} => lapse <= 1
  /\ span = "closing" /\ reader = "checks" => lapse <= 1

LEMMA DogStarts == DogInit => DogInv
<1> SUFFICES ASSUME DogInit PROVE DogInv
  OBVIOUS
<1>1. lapse \in 0..Timeout /\ lapse <= 1
  BY WatchdogAssumption DEF DogInit
<1>2. span \in {"over", "free"} /\ paused = FALSE /\ stopped \in BOOLEAN
  BY DEF DogInit
<1>3. reader = "sleeps" /\ process = "runs" /\ firedIn = "none"
  BY DEF DogInit
<1>4. paused = (span = "closing")
  BY <1>2
<1> QED BY <1>1, <1>2, <1>3, <1>4 DEF DogInv, SparesTheLiving, DogTypeOK

LEMMA DogSteps == ASSUME DogInv, DogNext PROVE DogInv'
<1> USE WatchdogAssumption DEF DogInv, SparesTheLiving, DogTypeOK
<1>1. CASE Tick
  BY <1>1 DEF Tick
<1>2. CASE Snooze
  BY <1>2 DEF Snooze
<1>3. CASE Suspend
  BY <1>3 DEF Suspend, Into
<1>4. CASE Unpause
  BY <1>4 DEF Unpause, Into
<1>5. CASE Resume
  BY <1>5 DEF Resume, Into, Snoozed
<1>6. CASE CloseBare
  BY <1>6 DEF CloseBare, Into
<1>12. CASE ClosedBare
  BY <1>12 DEF ClosedBare, Into
<1>7. CASE Wedge
  BY <1>7 DEF Wedge, Into
<1>8. CASE Stop
  BY <1>8 DEF Stop, Into
<1>9. CASE Poll
  BY <1>9 DEF Poll, SeesPause
<1>10. CASE Check
  BY <1>10 DEF Check, Late
<1>11. CASE Kill
  BY <1>11 DEF Kill
<1> QED BY <1>1, <1>2, <1>3, <1>4, <1>5, <1>6, <1>7, <1>8, <1>9, <1>10, <1>11, <1>12 DEF DogNext

LEMMA DogNextInv == ASSUME DogInv, [Next]_vars PROVE DogInv'
<1>1. CASE UNCHANGED dogVars
  BY <1>1 DEF dogVars, DogInv, SparesTheLiving, DogTypeOK
<1> QED BY <1>1, DogSteps DEF Next, vars

(* The watchdog kills the process only while the app's thread is wedged, or *)
(* in one of the two spans in which the code itself leaves it unprotected,  *)
(* whatever the timeout and however long a suspended close takes.           *)
THEOREM WatchdogSparesTheLiving == Spec => []SparesTheLiving
<1>1. Init => DogInv
  BY DogStarts DEF Init
<1>2. DogInv => SparesTheLiving
  BY DEF DogInv
<1> QED BY <1>1, <1>2, DogNextInv, PTL DEF Spec

-----------------------------------------------------------------------------
(* The ACP host                                                             *)

(* A coroutine that holds the flag awaits its worker thread or does its own *)
(* work, and the worker of nobody else runs.                                *)
RunInv ==
  /\ OneRunAtATime
  /\ \A h \in Host : awaits[h] = "turn" <=> worker[h] # "off"

(* The latch is what the run in flight was asked, and the session's turn is *)
(* the one whose event a cancel would set.                                  *)
CancelInv ==
  /\ CancelIsExact
  /\ inFlight => cancelRequested = cancelAsked
  /\ \A h \in Host : awaits[h] = "turn" => current = h

(* What a handler chained waits in the queue only until its own run drains  *)
(* it, then alone in a batch that will not reset the counter, or among      *)
(* messages that will; until then it has been counted and not yet run.      *)
ChainInv ==
  /\ auto <= chained
  /\ Chained \in Elements(queued) =>
       /\ auto < chained
       /\ \E h \in Host : awaits[h] = "pump" \/ worker[h] = "returned"
  /\ \A h \in Host :
       /\ batch[h] # <<>> => awaits[h] = "notify" \/ worker[h] = "starting"
       /\ Elements(batch[h]) = {Chained} => continuation /\ auto < chained

HostInv == HostTypeOK /\ RunInv /\ CancelInv /\ ChainInv
(* What a sequence holds after one more was appended.                       *)
LEMMA ElementsOfAppend ==
  ASSUME NEW S, NEW seq \in Seq(S), NEW x \in S
  PROVE  Elements(Append(seq, x)) = Elements(seq) \cup {x}
<1>1. Len(Append(seq, x)) = Len(seq) + 1 /\ Append(seq, x)[Len(seq) + 1] = x
  OBVIOUS
<1>2. \A i \in 1..Len(seq) : Append(seq, x)[i] = seq[i]
  OBVIOUS
<1> QED BY <1>1, <1>2 DEF Elements

LEMMA ElementsOfEmpty == Elements(<<>>) = {}
BY DEF Elements

(* While one coroutine holds the flag, the other is nowhere.                *)
LEMMA Alone ==
  ASSUME HostInv, NEW h \in Host, awaits[h] # "none" \/ worker[h] # "off",
         NEW g \in Host \ {h}
  PROVE  awaits[g] = "none" /\ worker[g] = "off" /\ batch[g] = <<>>
BY DEF HostInv, RunInv, OneRunAtATime, ChainInv, Host

LEMMA NobodyYet ==
  ASSUME HostInv, ~inFlight
  PROVE  /\ \A h \in Host : awaits[h] = "none" /\ worker[h] = "off" /\ batch[h] = <<>>
         /\ Chained \notin Elements(queued)
BY DEF HostInv, RunInv, OneRunAtATime, ChainInv

LEMMA NoBatch ==
  ASSUME HostTypeOK, NEW h \in Host
  PROVE  /\ [batch EXCEPT ![h] = <<>>] \in [Host -> Seq(HostMessage \cup {Chained})]
         /\ <<>> \in Seq(HostMessage \cup {Chained})
<1>1. <<>> \in Seq(HostMessage \cup {Chained})
  OBVIOUS
<1> QED BY <1>1 DEF HostTypeOK

LEMMA HostStarts == HostInit => HostInv
<1> SUFFICES ASSUME HostInit PROVE HostInv
  OBVIOUS
<1>1. HostTypeOK
  <2>1. <<>> \in Seq(HostMessage \cup {Chained})
    OBVIOUS
  <2>2. batch \in [Host -> Seq(HostMessage \cup {Chained})] /\ queued \in Seq(HostMessage \cup {Chained})
    BY <2>1 DEF HostInit
  <2>3. chained \in 0..MaxChained /\ prompts \in 0..MaxPrompts
    BY HostAssumption DEF HostInit
  <2> QED BY <2>2, <2>3 DEF HostInit, HostTypeOK
<1>2. RunInv /\ CancelInv
  <2>1. ~inFlight /\ \A h \in Host : awaits[h] = "none" /\ worker[h] = "off"
    BY DEF HostInit
  <2> QED BY <2>1 DEF RunInv, OneRunAtATime, CancelInv, CancelIsExact, Host
<1>3. ChainInv
  BY ElementsOfEmpty DEF HostInit, ChainInv
<1> QED BY <1>1, <1>2, <1>3 DEF HostInv

LEMMA PromptKeeps == ASSUME HostInv, Prompt PROVE HostInv'
<1>1. HostTypeOK'
  <2>1. batch' \in [Host -> Seq(HostMessage \cup {Chained})]
    BY NoBatch DEF HostInv, Prompt, Host
  <2>2. /\ awaits' \in [Host -> {"none", "turn", "pump", "notify", "usage"}]
        /\ worker' \in [Host -> {"off", "starting", "round", "hook", "returned"}]
        /\ event' \in [Host -> BOOLEAN] /\ current' \in Host
    BY DEF HostInv, HostTypeOK, Prompt, BeginRun, Iterate, Host
  <2>3. prompts' \in 0..MaxPrompts
    BY HostAssumption DEF HostInv, HostTypeOK, Prompt
  <2> QED BY <2>1, <2>2, <2>3 DEF HostInv, HostTypeOK, Prompt, BeginRun, sessionVars
<1>2. RunInv'
  BY Alone, NobodyYet DEF HostInv, HostTypeOK, RunInv, OneRunAtATime, Host, Prompt, BeginRun, Iterate,
     loopVars, sessionVars, historyVars
<1>3. CancelInv'
  BY Alone, NobodyYet DEF HostInv, HostTypeOK, RunInv, OneRunAtATime, CancelInv, CancelIsExact, Host,
     Prompt, BeginRun, Iterate, loopVars, sessionVars, historyVars
<1>4. ChainInv'
  BY Alone, NobodyYet, ElementsOfEmpty DEF HostInv, HostTypeOK, ChainInv, Prompt, BeginRun, Iterate,
     loopVars, sessionVars, historyVars
<1> QED BY <1>1, <1>2, <1>3, <1>4 DEF HostInv

LEMMA RunWakeKeeps == ASSUME HostInv, RunWake PROVE HostInv'
<1>1. HostTypeOK'
  <2>1. CASE IdleForWake /\ queued # <<>>
    <3>1. /\ batch' \in [Host -> Seq(HostMessage \cup {Chained})]
          /\ queued' \in Seq(HostMessage \cup {Chained})
      BY <2>1, NoBatch DEF HostInv, HostTypeOK, RunWake, Host
    <3>0. BeginRun("wake")
      BY <2>1 DEF RunWake
    <3>2. /\ awaits' \in [Host -> {"none", "turn", "pump", "notify", "usage"}]
          /\ worker' \in [Host -> {"off", "starting", "round", "hook", "returned"}]
          /\ event' \in [Host -> BOOLEAN] /\ current' \in Host
          /\ inFlight' = TRUE /\ cancelRequested' = FALSE /\ cancelAsked' = FALSE
      BY <3>0 DEF HostInv, HostTypeOK, BeginRun, Iterate, Host
    <3>3. continuation' \in BOOLEAN /\ wakes' \in Nat
      BY <2>1 DEF HostInv, HostTypeOK, RunWake, OnlyChained
    <3> QED BY <3>1, <3>2, <3>3 DEF HostInv, HostTypeOK, RunWake
  <2>2. CASE ~(IdleForWake /\ queued # <<>>)
    BY <2>2 DEF HostInv, HostTypeOK, RunWake
  <2> QED BY <2>1, <2>2
<1>2. RunInv'
  BY Alone, NobodyYet DEF HostInv, HostTypeOK, RunInv, OneRunAtATime, Host, RunWake, BeginRun, Iterate,
     IdleForWake, OnlyChained, loopVars, sessionVars, historyVars
<1>3. CancelInv'
  BY Alone, NobodyYet DEF HostInv, HostTypeOK, RunInv, OneRunAtATime, CancelInv, CancelIsExact, Host,
     RunWake, BeginRun, Iterate, IdleForWake, OnlyChained, loopVars, sessionVars, historyVars
<1>4. ChainInv'
  <2>1. CASE IdleForWake /\ queued # <<>>
    <3>1. /\ Chained \notin Elements(queued) /\ queued' = <<>>
          /\ \A h \in Host : batch[h] = <<>>
      BY <2>1, NobodyYet DEF RunWake, IdleForWake
    <3>2. \A h \in Host : /\ batch'[h] # <<>> => worker'[h] = "starting"
                          /\ batch'[h] \in {<<>>, queued}
      BY <2>1, <3>1 DEF HostInv, HostTypeOK, RunWake, BeginRun, Iterate, Host
    <3>3. UNCHANGED <<auto, chained>>
      BY <2>1 DEF RunWake
    <3> QED BY <3>1, <3>2, <3>3, ElementsOfEmpty DEF HostInv, ChainInv
  <2>2. CASE ~(IdleForWake /\ queued # <<>>)
    BY <2>2 DEF HostInv, ChainInv, RunWake
  <2> QED BY <2>1, <2>2
<1> QED BY <1>1, <1>2, <1>3, <1>4 DEF HostInv

LEMMA CancelKeeps == ASSUME HostInv, Cancel PROVE HostInv'
<1>1. HostTypeOK'
  BY HostAssumption DEF HostInv, HostTypeOK, Cancel, loopVars, sessionVars, historyVars
<1>2. RunInv'
  BY Alone, NobodyYet DEF HostInv, HostTypeOK, RunInv, OneRunAtATime, Host, Cancel, loopVars, sessionVars,
     historyVars
<1>3. CancelInv'
  BY Alone, NobodyYet DEF HostInv, HostTypeOK, RunInv, OneRunAtATime, CancelInv, CancelIsExact, Host,
     Cancel, loopVars, sessionVars, historyVars
<1>4. ChainInv'
  BY Alone, NobodyYet, ElementsOfEmpty DEF HostInv, HostTypeOK, ChainInv, Cancel, loopVars, sessionVars,
     historyVars
<1> QED BY <1>1, <1>2, <1>3, <1>4 DEF HostInv

LEMMA StopPumpKeeps == ASSUME HostInv, NEW h \in Host, StopPump(h) PROVE HostInv'
<1>1. HostTypeOK'
  BY HostAssumption DEF HostInv, HostTypeOK, StopPump, loopVars, sessionVars, historyVars
<1>2. RunInv'
  BY Alone, NobodyYet DEF HostInv, HostTypeOK, RunInv, OneRunAtATime, Host, StopPump, loopVars,
     sessionVars, historyVars
<1>3. CancelInv'
  BY Alone, NobodyYet DEF HostInv, HostTypeOK, RunInv, OneRunAtATime, CancelInv, CancelIsExact, Host,
     StopPump, loopVars, sessionVars, historyVars
<1>4. ChainInv'
  BY Alone, NobodyYet, ElementsOfEmpty DEF HostInv, HostTypeOK, ChainInv, StopPump, loopVars, sessionVars,
     historyVars
<1> QED BY <1>1, <1>2, <1>3, <1>4 DEF HostInv

LEMMA DrainKeeps == ASSUME HostInv, NEW h \in Host, Drain(h) PROVE HostInv'
<1>1. HostTypeOK'
  <2>1. /\ batch' \in [Host -> Seq(HostMessage \cup {Chained})]
        /\ queued' \in Seq(HostMessage \cup {Chained})
    BY NoBatch DEF HostInv, HostTypeOK, Drain
  <2>2. /\ awaits' \in [Host -> {"none", "turn", "pump", "notify", "usage"}]
        /\ continuation' \in BOOLEAN
    BY DEF HostInv, HostTypeOK, Drain, OnlyChained
  <2> QED BY <2>1, <2>2 DEF HostInv, HostTypeOK, Drain, historyVars
<1>2. RunInv'
  BY Alone, NobodyYet DEF HostInv, HostTypeOK, RunInv, OneRunAtATime, Host, Drain, OnlyChained, loopVars,
     sessionVars, historyVars
<1>3. CancelInv'
  BY Alone, NobodyYet DEF HostInv, HostTypeOK, RunInv, OneRunAtATime, CancelInv, CancelIsExact, Host,
     Drain, OnlyChained, loopVars, sessionVars, historyVars
<1>4. ChainInv'
  <2>0. /\ awaits[h] = "pump" /\ UNCHANGED <<auto, chained, worker>>
        /\ batch \in [Host -> Seq(HostMessage \cup {Chained})]
    BY DEF Drain, historyVars, HostInv, HostTypeOK
  <2>1. CASE queued = <<>>
    <3>1. batch' = batch /\ queued' = queued /\ continuation' = continuation
      BY <2>1 DEF Drain
    <3>2. \A g \in Host : awaits[g] = "notify" => awaits'[g] = "notify"
      BY <2>0, <2>1 DEF Drain, HostInv, HostTypeOK
    <3> QED BY <2>0, <2>1, <3>1, <3>2, ElementsOfEmpty DEF HostInv, ChainInv
  <2>2. CASE queued # <<>>
    <3>1. /\ batch' = [batch EXCEPT ![h] = queued] /\ queued' = <<>>
          /\ continuation' = OnlyChained(queued)
          /\ awaits' = [awaits EXCEPT ![h] = "notify"]
      BY <2>2 DEF Drain
    <3>2. awaits'[h] = "notify" /\ batch'[h] = queued
      BY <2>0, <3>1 DEF HostInv, HostTypeOK
    <3>3. \A g \in Host \ {h} : batch'[g] = <<>>
      BY <2>0, <3>1, Alone
    <3>4. Elements(queued) = {Chained} => continuation' /\ auto < chained
      BY <2>2, <3>1 DEF OnlyChained, HostInv, ChainInv
    <3> QED BY <2>0, <3>1, <3>2, <3>3, <3>4, ElementsOfEmpty DEF HostInv, ChainInv
  <2> QED BY <2>1, <2>2
<1> QED BY <1>1, <1>2, <1>3, <1>4 DEF HostInv

LEMMA NextIterationKeeps == ASSUME HostInv, NEW h \in Host, NextIteration(h) PROVE HostInv'
<1>1. HostTypeOK'
  BY HostAssumption DEF HostInv, HostTypeOK, NextIteration, Iterate, loopVars, sessionVars, historyVars
<1>2. RunInv'
  BY Alone, NobodyYet DEF HostInv, HostTypeOK, RunInv, OneRunAtATime, Host, NextIteration, Iterate,
     loopVars, sessionVars, historyVars
<1>3. CancelInv'
  BY Alone, NobodyYet DEF HostInv, HostTypeOK, RunInv, OneRunAtATime, CancelInv, CancelIsExact, Host,
     NextIteration, Iterate, loopVars, sessionVars, historyVars
<1>4. ChainInv'
  <2>1. /\ awaits[h] = "notify" /\ worker'[h] = "starting"
        /\ UNCHANGED <<auto, chained, continuation, queued, batch>>
    BY DEF HostInv, HostTypeOK, NextIteration, Iterate, sessionVars, historyVars
  <2>2. \A g \in Host \ {h} : batch[g] = <<>> /\ awaits[g] = "none" /\ worker[g] = "off"
    BY <2>1, Alone
  <2>3. worker[h] = "off"
    BY <2>1 DEF HostInv, RunInv, HostTypeOK
  <2>4. Chained \notin Elements(queued)
    BY <2>1, <2>2, <2>3 DEF HostInv, ChainInv
  <2> QED BY <2>1, <2>2, <2>4 DEF HostInv, ChainInv
<1> QED BY <1>1, <1>2, <1>3, <1>4 DEF HostInv

LEMMA EndRunKeeps == ASSUME HostInv, NEW h \in Host, EndRun(h) PROVE HostInv'
<1>1. HostTypeOK'
  <2>1. batch' \in [Host -> Seq(HostMessage \cup {Chained})]
    BY NoBatch DEF HostInv, EndRun
  <2>2. dropped' \in SUBSET HostMessage
    BY DEF HostInv, HostTypeOK, EndRun, Messages
  <2>3. awaits' \in [Host -> {"none", "turn", "pump", "notify", "usage"}]
    BY DEF HostInv, HostTypeOK, EndRun
  <2> QED BY <2>1, <2>2, <2>3 DEF HostInv, HostTypeOK, EndRun, sessionVars
<1>2. RunInv'
  BY Alone, NobodyYet DEF HostInv, HostTypeOK, RunInv, OneRunAtATime, Host, EndRun, Messages, loopVars,
     sessionVars, historyVars
<1>3. CancelInv'
  BY Alone, NobodyYet DEF HostInv, HostTypeOK, RunInv, OneRunAtATime, CancelInv, CancelIsExact, Host,
     EndRun, Messages, loopVars, sessionVars, historyVars
<1>4. ChainInv'
  <2>1. /\ awaits[h] \in {"usage", "notify"} /\ batch'[h] = <<>> 
        /\ UNCHANGED <<auto, chained, continuation, queued, worker>>
    BY DEF HostInv, HostTypeOK, EndRun, sessionVars
  <2>2. \A g \in Host \ {h} : batch'[g] = <<>> /\ awaits[g] = "none" /\ worker[g] = "off"
    BY <2>1, Alone DEF HostInv, HostTypeOK, EndRun
  <2>3. worker[h] = "off"
    BY <2>1 DEF HostInv, RunInv, HostTypeOK
  <2>4. Chained \notin Elements(queued)
    BY <2>1, <2>2, <2>3 DEF HostInv, ChainInv
  <2> QED BY <2>1, <2>2, <2>4, ElementsOfEmpty DEF HostInv, ChainInv
<1> QED BY <1>1, <1>2, <1>3, <1>4 DEF HostInv

LEMMA TurnStartsKeeps == ASSUME HostInv, NEW h \in Host, TurnStarts(h) PROVE HostInv'
<1>1. HostTypeOK'
  <2>1. batch' \in [Host -> Seq(HostMessage \cup {Chained})]
    BY NoBatch DEF HostInv, TurnStarts
  <2>2. taken' \in [HostMessage -> Nat]
    BY DEF HostInv, HostTypeOK, TurnStarts, Delivered
  <2>3. chained' \in 0..MaxChained /\ auto' \in Nat
    BY HostAssumption DEF HostInv, HostTypeOK, TurnStarts
  <2>4. worker' \in [Host -> {"off", "starting", "round", "hook", "returned"}]
    BY DEF HostInv, HostTypeOK, TurnStarts
  <2> QED BY <2>1, <2>2, <2>3, <2>4 DEF HostInv, HostTypeOK, TurnStarts
<1>2. RunInv'
  BY Alone, NobodyYet DEF HostInv, HostTypeOK, RunInv, OneRunAtATime, Host, TurnStarts, Delivered,
     loopVars, sessionVars, historyVars
<1>3. CancelInv'
  BY Alone, NobodyYet DEF HostInv, HostTypeOK, RunInv, OneRunAtATime, CancelInv, CancelIsExact, Host,
     TurnStarts, Delivered, loopVars, sessionVars, historyVars
<1>4. ChainInv'
  <2>1. /\ worker[h] = "starting" /\ batch'[h] = <<>> /\ queued' = queued
        /\ chained' = IF continuation THEN chained ELSE 0
        /\ auto' = IF Elements(batch[h]) = {Chained} THEN auto + 1 ELSE 0
        /\ auto \in Nat /\ chained \in Nat
    BY HostAssumption DEF HostInv, HostTypeOK, TurnStarts
  <2>2. \A g \in Host \ {h} : batch'[g] = <<>> /\ awaits[g] = "none" /\ worker[g] = "off"
    BY <2>1, Alone DEF HostInv, HostTypeOK, TurnStarts
  <2>3. awaits[h] # "pump"
    BY <2>1 DEF HostInv, RunInv, HostTypeOK
  <2>4. Chained \notin Elements(queued)
    BY <2>1, <2>2, <2>3 DEF HostInv, ChainInv
  <2>5. auto' <= chained'
    BY <2>1 DEF HostInv, ChainInv
  <2> QED BY <2>1, <2>2, <2>4, <2>5, ElementsOfEmpty DEF ChainInv
<1> QED BY <1>1, <1>2, <1>3, <1>4 DEF HostInv

LEMMA TurnFailsToStartKeeps == ASSUME HostInv, NEW h \in Host, TurnFailsToStart(h) PROVE HostInv'
<1>1. HostTypeOK'
  BY HostAssumption DEF HostInv, HostTypeOK, TurnFailsToStart, Messages, loopVars, sessionVars, historyVars
<1>2. RunInv'
  BY Alone, NobodyYet DEF HostInv, HostTypeOK, RunInv, OneRunAtATime, Host, TurnFailsToStart, Messages,
     loopVars, sessionVars, historyVars
<1>3. CancelInv'
  BY Alone, NobodyYet DEF HostInv, HostTypeOK, RunInv, OneRunAtATime, CancelInv, CancelIsExact, Host,
     TurnFailsToStart, Messages, loopVars, sessionVars, historyVars
<1>4. ChainInv'
  BY Alone, NobodyYet, ElementsOfEmpty DEF HostInv, HostTypeOK, ChainInv, TurnFailsToStart, Messages,
     loopVars, sessionVars, historyVars
<1> QED BY <1>1, <1>2, <1>3, <1>4 DEF HostInv

LEMMA DeliverMidTurnKeeps == ASSUME HostInv, NEW h \in Host, DeliverMidTurn(h) PROVE HostInv'
<1>1. HostTypeOK'
  BY HostAssumption DEF HostInv, HostTypeOK, DeliverMidTurn, Delivered, loopVars, sessionVars, historyVars
<1>2. RunInv'
  BY Alone, NobodyYet DEF HostInv, HostTypeOK, RunInv, OneRunAtATime, Host, DeliverMidTurn, Delivered,
     loopVars, sessionVars, historyVars
<1>3. CancelInv'
  BY Alone, NobodyYet DEF HostInv, HostTypeOK, RunInv, OneRunAtATime, CancelInv, CancelIsExact, Host,
     DeliverMidTurn, Delivered, loopVars, sessionVars, historyVars
<1>4. ChainInv'
  BY Alone, NobodyYet, ElementsOfEmpty DEF HostInv, HostTypeOK, ChainInv, DeliverMidTurn, Delivered,
     loopVars, sessionVars, historyVars
<1> QED BY <1>1, <1>2, <1>3, <1>4 DEF HostInv

LEMMA TurnCompletesKeeps == ASSUME HostInv, NEW h \in Host, TurnCompletes(h) PROVE HostInv'
<1>1. HostTypeOK'
  BY HostAssumption DEF HostInv, HostTypeOK, TurnCompletes, loopVars, sessionVars, historyVars
<1>2. RunInv'
  BY Alone, NobodyYet DEF HostInv, HostTypeOK, RunInv, OneRunAtATime, Host, TurnCompletes, loopVars,
     sessionVars, historyVars
<1>3. CancelInv'
  BY Alone, NobodyYet DEF HostInv, HostTypeOK, RunInv, OneRunAtATime, CancelInv, CancelIsExact, Host,
     TurnCompletes, loopVars, sessionVars, historyVars
<1>4. ChainInv'
  BY Alone, NobodyYet, ElementsOfEmpty DEF HostInv, HostTypeOK, ChainInv, TurnCompletes, loopVars,
     sessionVars, historyVars
<1> QED BY <1>1, <1>2, <1>3, <1>4 DEF HostInv

LEMMA TurnStopsKeeps == ASSUME HostInv, NEW h \in Host, TurnStops(h) PROVE HostInv'
<1>1. HostTypeOK'
  BY HostAssumption DEF HostInv, HostTypeOK, TurnStops, loopVars, sessionVars, historyVars
<1>2. RunInv'
  BY Alone, NobodyYet DEF HostInv, HostTypeOK, RunInv, OneRunAtATime, Host, TurnStops, loopVars,
     sessionVars, historyVars
<1>3. CancelInv'
  BY Alone, NobodyYet DEF HostInv, HostTypeOK, RunInv, OneRunAtATime, CancelInv, CancelIsExact, Host,
     TurnStops, loopVars, sessionVars, historyVars
<1>4. ChainInv'
  BY Alone, NobodyYet, ElementsOfEmpty DEF HostInv, HostTypeOK, ChainInv, TurnStops, loopVars, sessionVars,
     historyVars
<1> QED BY <1>1, <1>2, <1>3, <1>4 DEF HostInv

LEMMA AgentTurnEndHookKeeps == ASSUME HostInv, NEW h \in Host, AgentTurnEndHook(h) PROVE HostInv'
<1>1. HostTypeOK'
  <2>1. worker' \in [Host -> {"off", "starting", "round", "hook", "returned"}]
    BY DEF HostInv, HostTypeOK, AgentTurnEndHook
  <2>2. CASE Says
    <3>0. Append(queued, Chained) \in Seq(HostMessage \cup {Chained})
      BY DEF HostInv, HostTypeOK
    <3>1. queued' \in Seq(HostMessage \cup {Chained})
      BY <2>2, <3>0 DEF HostInv, HostTypeOK, Says
    <3>2. chained' \in 0..MaxChained
      BY <2>2, HostAssumption DEF HostInv, HostTypeOK, Says, ChainAllowed
    <3> QED BY <2>1, <2>2, <3>1, <3>2 DEF HostInv, HostTypeOK, AgentTurnEndHook, Says, loopVars
  <2>3. CASE Resets
    <3>1. queued' = <<>> \/ queued' = <<Chained>>
      BY <2>3 DEF Resets
    <3>4. queued' \in Seq(HostMessage \cup {Chained})
      <4>1. <<>> \in Seq(HostMessage \cup {Chained}) /\ <<Chained>> \in Seq(HostMessage \cup {Chained})
        OBVIOUS
      <4> QED BY <3>1, <4>1
    <3>2. chained' \in 0..MaxChained
      BY <2>3, HostAssumption DEF Resets
    <3>3. dropped' \in SUBSET HostMessage
      BY <2>3 DEF HostInv, HostTypeOK, Resets, Messages
    <3> QED BY <2>1, <2>3, <3>2, <3>3, <3>4 DEF HostInv, HostTypeOK, AgentTurnEndHook, Resets, loopVars
  <2> QED BY <2>2, <2>3 DEF AgentTurnEndHook
<1>2. RunInv'
  BY Alone, NobodyYet DEF HostInv, HostTypeOK, RunInv, OneRunAtATime, Host, AgentTurnEndHook, Says, Resets,
     ChainAllowed, Messages, loopVars, sessionVars, historyVars
<1>3. CancelInv'
  BY Alone, NobodyYet DEF HostInv, HostTypeOK, RunInv, OneRunAtATime, CancelInv, CancelIsExact, Host,
     AgentTurnEndHook, Says, Resets, ChainAllowed, Messages, loopVars, sessionVars, historyVars
<1>4. ChainInv'
  <2>1. /\ worker[h] = "hook" /\ worker'[h] = "returned" /\ UNCHANGED <<awaits, batch>>
        /\ auto \in Nat /\ chained \in Nat /\ MaxChained \in Nat
        /\ queued \in Seq(HostMessage \cup {Chained})
    BY HostAssumption DEF HostInv, HostTypeOK, AgentTurnEndHook, loopVars
  <2>2. awaits[h] = "turn"
    BY <2>1 DEF HostInv, RunInv
  <2>3. \A g \in Host : batch[g] = <<>>
    BY <2>1, <2>2, Alone DEF HostInv, ChainInv
  <2>4. auto' <= chained' /\ (Chained \in Elements(queued') => auto' < chained')
    <3>1. CASE UNCHANGED <<chained, queued, auto>>
      BY <3>1 DEF HostInv, ChainInv
    <3>2. CASE chained' = chained + 1 /\ auto' = auto
      BY <2>1, <3>2 DEF HostInv, ChainInv
    <3>3. CASE Resets
      BY <2>1, <3>3, ElementsOfEmpty DEF Resets
    <3> QED BY <3>1, <3>2, <3>3 DEF AgentTurnEndHook, Says
  <2> QED BY <2>1, <2>3, <2>4, ElementsOfEmpty DEF ChainInv
<1> QED BY <1>1, <1>2, <1>3, <1>4 DEF HostInv

LEMMA EnqueueMessageKeeps == ASSUME HostInv, NEW m \in HostMessage, EnqueueMessage(m) PROVE HostInv'
<1>1. HostTypeOK'
  BY HostAssumption DEF HostInv, HostTypeOK, EnqueueMessage, loopVars, sessionVars, historyVars
<1>2. RunInv'
  BY Alone, NobodyYet DEF HostInv, HostTypeOK, RunInv, OneRunAtATime, Host, EnqueueMessage, loopVars,
     sessionVars, historyVars
<1>3. CancelInv'
  BY Alone, NobodyYet DEF HostInv, HostTypeOK, RunInv, OneRunAtATime, CancelInv, CancelIsExact, Host,
     EnqueueMessage, loopVars, sessionVars, historyVars
<1>4. ChainInv'
  <2>1. /\ queued' = Append(queued, m) /\ m # Chained
        /\ queued \in Seq(HostMessage \cup {Chained})
    BY HostAssumption DEF HostInv, HostTypeOK, EnqueueMessage
  <2>2. Chained \in Elements(queued') => Chained \in Elements(queued)
    BY <2>1, ElementsOfAppend
  <2> QED BY <2>2 DEF HostInv, ChainInv, EnqueueMessage, loopVars, historyVars
<1> QED BY <1>1, <1>2, <1>3, <1>4 DEF HostInv

LEMMA EventEnqueuesKeeps == ASSUME HostInv, NEW m \in HostMessage, EventEnqueues(m) PROVE HostInv'
<1>1. HostTypeOK'
  BY HostAssumption DEF HostInv, HostTypeOK, EventEnqueues, loopVars, sessionVars, historyVars
<1>2. RunInv'
  BY Alone, NobodyYet DEF HostInv, HostTypeOK, RunInv, OneRunAtATime, Host, EventEnqueues, loopVars,
     sessionVars, historyVars
<1>3. CancelInv'
  BY Alone, NobodyYet DEF HostInv, HostTypeOK, RunInv, OneRunAtATime, CancelInv, CancelIsExact, Host,
     EventEnqueues, loopVars, sessionVars, historyVars
<1>4. ChainInv'
  <2>1. /\ queued' = Append(queued, m) /\ m # Chained
        /\ queued \in Seq(HostMessage \cup {Chained})
    BY HostAssumption DEF HostInv, HostTypeOK, EventEnqueues
  <2>2. Chained \in Elements(queued') => Chained \in Elements(queued)
    BY <2>1, ElementsOfAppend
  <2> QED BY <2>2 DEF HostInv, ChainInv, EventEnqueues, loopVars, historyVars
<1> QED BY <1>1, <1>2, <1>3, <1>4 DEF HostInv

LEMMA DeliverWakeKeeps == ASSUME HostInv, NEW m \in HostMessage, DeliverWake(m) PROVE HostInv'
<1>1. HostTypeOK'
  BY HostAssumption DEF HostInv, HostTypeOK, DeliverWake, loopVars, sessionVars, historyVars
<1>2. RunInv'
  BY Alone, NobodyYet DEF HostInv, HostTypeOK, RunInv, OneRunAtATime, Host, DeliverWake, loopVars,
     sessionVars, historyVars
<1>3. CancelInv'
  BY Alone, NobodyYet DEF HostInv, HostTypeOK, RunInv, OneRunAtATime, CancelInv, CancelIsExact, Host,
     DeliverWake, loopVars, sessionVars, historyVars
<1>4. ChainInv'
  BY Alone, NobodyYet, ElementsOfEmpty DEF HostInv, HostTypeOK, ChainInv, DeliverWake, loopVars,
     sessionVars, historyVars
<1> QED BY <1>1, <1>2, <1>3, <1>4 DEF HostInv

LEMMA HostSteps == ASSUME HostInv, HostNext PROVE HostInv'
<1>1. ASSUME NEW h \in Host, Loop(h) \/ Work(h) PROVE HostInv'
  BY <1>1, StopPumpKeeps, DrainKeeps, NextIterationKeeps, EndRunKeeps, TurnStartsKeeps,
     TurnFailsToStartKeeps, DeliverMidTurnKeeps, TurnCompletesKeeps, TurnStopsKeeps,
     AgentTurnEndHookKeeps
  DEF Loop, Work, Starts, Ends
<1>2. ASSUME NEW m \in HostMessage, EnqueueMessage(m) \/ EventEnqueues(m) \/ DeliverWake(m)
      PROVE  HostInv'
  BY <1>2, EnqueueMessageKeeps, EventEnqueuesKeeps, DeliverWakeKeeps
<1> QED BY <1>1, <1>2, PromptKeeps, RunWakeKeeps, CancelKeeps DEF HostNext

LEMMA HostNextInv == ASSUME HostInv, [Next]_vars PROVE HostInv'
<1>1. CASE UNCHANGED hostVars
  <2>1. HostTypeOK' /\ RunInv' /\ CancelInv'
    BY <1>1 DEF hostVars, loopVars, sessionVars, historyVars, HostInv, HostTypeOK, RunInv, OneRunAtATime,
                CancelInv, CancelIsExact
  <2>2. ChainInv'
    <3>1. UNCHANGED <<auto, chained, queued, awaits, worker, batch, continuation>>
      BY <1>1 DEF hostVars, loopVars, sessionVars, historyVars
    <3> QED BY <3>1 DEF HostInv, ChainInv
  <2> QED BY <2>1, <2>2 DEF HostInv
<1> QED BY <1>1, HostSteps DEF Next, vars

(* A prompt and a wake-up never drive the session's turn side by side, and  *)
(* a run on chained messages alone is bounded by max_chained_hook_turns,    *)
(* whatever messages arrive and whenever a hook resets the conversation.    *)
THEOREM HostRunsAreSound == Spec => []RunsAreSound
<1>1. Init => HostInv
  BY HostStarts DEF Init
<1>2. HostInv => RunsAreSound
  <2> SUFFICES ASSUME HostInv PROVE auto <= MaxChained
    BY DEF HostInv, RunInv, RunsAreSound, ChainIsBounded
  <2>1. auto \in Nat /\ chained \in 0..MaxChained /\ auto <= chained
    BY DEF HostInv, HostTypeOK, ChainInv
  <2> QED BY <2>1, HostAssumption
<1> QED BY <1>1, <1>2, HostNextInv, PTL DEF Spec

-----------------------------------------------------------------------------
(* The terminal host                                                        *)

Activity == [step : {"mount", "turn", "command", "asking", "panel", "late", "limit",
                     "handler", "unwinding", "over"},
             texts : SUBSET Text, queued : BOOLEAN, session : Number \cup {0},
             cancelled : BOOLEAN, asked : BOOLEAN, ok : BOOLEAN, stopped : BOOLEAN,
             finished : BOOLEAN]

ReplTyped == ReplTypeOK /\ budget \in Budgets /\ activities \in Seq(Activity)

(* A replacement that was put off has a session left to build.              *)
SessionsInv == live <= budget.sessions /\ (replacing => live < budget.sessions)

(* Besides naming the one activity that is not finished, only one of the    *)
(* two events is in use, and neither when nothing is in flight.             *)
FlightInv ==
  /\ OneActivityAtATime
  /\ turnInFlight => (cancelEvent = 0 <=> shellEvent # 0)
  /\ ~turnInFlight => cancelEvent = 0 /\ shellEvent = 0

(* Texts wait in the session they were meant for; FromStart is not meant    *)
(* for any before it is submitted.                                          *)
HomeInv ==
  /\ \A s \in Number : \A m \in waiting[s] : home[m] = s
  /\ starting => home[FromStart] = 0

(* What holds of activity a while r describes it: one that is not finished  *)
(* and was not displaced belongs to the live session, also before it has    *)
(* called send_turn.                                                        *)
Sound(a, r) ==
  /\ r.finished => r.step \in {"unwinding", "over"}
  /\ r.step \in {"turn", "asking", "panel", "late", "limit"} => r.session # 0
  /\ a \notin displaced =>
       LET s == IF r.session = 0 THEN live ELSE r.session
       IN  /\ ~r.finished => s = live
           /\ r.session # 0 \/ ~r.finished => \A m \in r.texts : home[m] = s
  /\ ~r.finished => (r.cancelled <=> r.stopped)
  /\ exited /\ ~r.finished => r.step = "mount" /\ r.queued

AllSound == \A a \in Activities : Sound(a, activities[a])

ReplInv ==
  /\ ReplTyped /\ SessionsInv /\ FlightInv /\ HomeInv /\ AllSound
  /\ exitRequested => exited \/ turnInFlight

LEMMA ReplacedInSequence ==
  ASSUME NEW S, NEW q \in Seq(S), NEW i \in 1..Len(q), NEW x \in S
  PROVE  /\ [q EXCEPT ![i] = x] \in Seq(S)
         /\ Len([q EXCEPT ![i] = x]) = Len(q)
         /\ \A j \in 1..Len(q) : [q EXCEPT ![i] = x][j] = IF j = i THEN x ELSE q[j]
OBVIOUS

LEMMA AppendedToSequence ==
  ASSUME NEW S, NEW q \in Seq(S), NEW x \in S
  PROVE  /\ Append(q, x) \in Seq(S)
         /\ Len(Append(q, x)) = Len(q) + 1
         /\ \A j \in 1..Len(q) : Append(q, x)[j] = q[j]
         /\ Append(q, x)[Len(q) + 1] = x
OBVIOUS

(* The one activity in flight.                                              *)
LEMMA TheOne ==
  ASSUME FlightInv, NEW a \in Activities, ~activities[a].finished
  PROVE  turnInFlight /\ Unfinished = {a} /\ a \in {cancelEvent, shellEvent}
<1>1. a \in Unfinished
  BY DEF Unfinished
<1> QED BY <1>1 DEF FlightInv, OneActivityAtATime

LEMMA NoneInFlight == ASSUME FlightInv, ~turnInFlight PROVE \A a \in Activities : activities[a].finished
BY DEF FlightInv, OneActivityAtATime, Unfinished

(* Steps in which activities neither start nor finish.                      *)
LEMMA FlightKept ==
  ASSUME FlightInv, Len(activities') = Len(activities),
         \A a \in Activities : activities'[a].finished = activities[a].finished,
         UNCHANGED <<turnInFlight, cancelEvent, shellEvent>>
  PROVE  FlightInv'
<1>1. Activities' = Activities
  BY DEF Activities
<1>2. Unfinished' = Unfinished
  BY <1>1 DEF Unfinished
<1> QED BY <1>2 DEF FlightInv, OneActivityAtATime

(* A step of one worker that leaves the host alone.                         *)
LEMMA WorkerMoves ==
  ASSUME ReplInv, NEW a \in Activities, NEW r \in Activity,
         activities' = [activities EXCEPT ![a] = r],
         r.finished = activities[a].finished, Sound(a, r),
         UNCHANGED workerUnchanged,
         waiting' \in [Number -> SUBSET Text], \A s \in Number : waiting'[s] \subseteq waiting[s]
  PROVE  ReplInv'
<1>u. UNCHANGED <<budget, turnInFlight, cancelEvent, shellEvent, replacing, exitRequested, exited, oneShot,
                  live, pings, pinging, starting, diskFull, home, displaced>>
  BY DEF workerUnchanged, hostState
<1>1. /\ activities' \in Seq(Activity) /\ Len(activities') = Len(activities)
      /\ \A b \in Activities : activities'[b] = IF b = a THEN r ELSE activities[b]
  BY ReplacedInSequence DEF ReplInv, ReplTyped, Activities
<1>2. Activities' = Activities
  BY <1>1 DEF Activities
<1>3. ReplTyped'
  <2>1. \A b \in Activities' : activities'[b] \in Activity
    BY <1>1, <1>2 DEF Activities
  <2> QED BY <1>u, <1>1, <1>2, <2>1 DEF ReplInv, ReplTyped, ReplTypeOK, Activity
<1>4. SessionsInv' /\ HomeInv'
  BY <1>u DEF ReplInv, SessionsInv, HomeInv
<1>5. FlightInv'
  BY <1>u, <1>1, FlightKept DEF ReplInv
<1>6. AllSound'
  BY <1>u, <1>1, <1>2 DEF ReplInv, AllSound, Sound
<1> QED BY <1>u, <1>3, <1>4, <1>5, <1>6 DEF ReplInv

(* Facts about the record of an activity.                                   *)
LEMMA Recorded ==
  ASSUME ReplInv, NEW a \in Activities
  PROVE  activities[a] \in Activity /\ Sound(a, activities[a])
BY DEF ReplInv, ReplTyped, Activities, AllSound

LEMMA WaitingKept ==
  ASSUME ReplInv, waiting' = waiting
  PROVE  waiting' \in [Number -> SUBSET Text] /\ \A s \in Number : waiting'[s] \subseteq waiting[s]
BY DEF ReplInv, ReplTyped, ReplTypeOK

(* A worker's step that changes the step of its activity and nothing else.  *)
LEMMA Steps ==
  ASSUME ReplInv, NEW a \in Activities, NEW from, NEW next, Step(a, from, next),
         UNCHANGED <<waiting, workerUnchanged>>,
         Sound(a, [activities[a] EXCEPT !.step = next]),
         next \in {"turn", "panel", "late", "unwinding", "over"}
  PROVE  ReplInv'
<1> DEFINE r == [activities[a] EXCEPT !.step = next]
<1>1. r \in Activity /\ r.finished = activities[a].finished
  BY Recorded DEF Activity
<1>2. activities' = [activities EXCEPT ![a] = r]
  BY DEF Step
<1> QED BY <1>1, <1>2, WaitingKept, WorkerMoves

LEMMA SendTurnKeeps == ASSUME ReplInv, NEW a \in Activities, SendTurn(a) PROVE ReplInv'
<1> DEFINE r == [activities[a] EXCEPT !.step = "turn", !.session = live]
<1>1. activities[a].step = "mount" /\ ~exited /\ live \in Number /\ live # 0
  BY DEF SendTurn, At, ReplInv, ReplTyped, ReplTypeOK, Number
<1>2. r \in Activity /\ r.finished = activities[a].finished
  BY <1>1, Recorded DEF Activity
<1>3. Sound(a, r)
  BY <1>1, Recorded DEF Sound, Activity
<1>4. activities' = [activities EXCEPT ![a] = r]
  BY DEF SendTurn
<1> QED BY <1>2, <1>3, <1>4, WaitingKept, WorkerMoves DEF SendTurn

LEMMA FoldInKeeps == ASSUME ReplInv, NEW a \in Activities, FoldIn(a) PROVE ReplInv'
<1> DEFINE s == activities[a].session
           r == [activities[a] EXCEPT !.texts = @ \cup waiting[s]]
<1>1. activities[a].step = "turn" /\ s \in Number
  BY Recorded DEF FoldIn, At, Sound, Activity
<1>2. waiting[s] \subseteq Text /\ \A m \in waiting[s] : home[m] = s
  BY <1>1 DEF ReplInv, ReplTyped, ReplTypeOK, HomeInv
<1>3. r \in Activity /\ r.finished = activities[a].finished
  BY <1>2, Recorded DEF Activity
<1>4. Sound(a, r)
  BY <1>1, <1>2, Recorded DEF Sound, Activity
<1>5. /\ waiting' \in [Number -> SUBSET Text]
      /\ \A t \in Number : waiting'[t] \subseteq waiting[t]
  BY DEF FoldIn, ReplInv, ReplTyped, ReplTypeOK
<1>6. activities' = [activities EXCEPT ![a] = r]
  BY DEF FoldIn
<1> QED BY <1>3, <1>4, <1>5, <1>6, WorkerMoves DEF FoldIn

LEMMA AskKeeps == ASSUME ReplInv, NEW a \in Activities, Ask(a) PROVE ReplInv'
<1>1. PICK next \in {"asking", "limit"} :
        activities' = [activities EXCEPT ![a] = [activities[a] EXCEPT !.step = next, !.asked = TRUE]]
  BY DEF Ask
<1> DEFINE r == [activities[a] EXCEPT !.step = next, !.asked = TRUE]
<1>2. activities[a].step = "turn" /\ ~exited
  BY DEF Ask, At
<1>3. r \in Activity /\ r.finished = activities[a].finished
  BY Recorded DEF Activity
<1>4. Sound(a, r)
  BY <1>2, Recorded DEF Sound, Activity
<1> QED BY <1>1, <1>3, <1>4, WaitingKept, WorkerMoves DEF Ask

LEMMA PanelKeeps ==
  ASSUME ReplInv, NEW a \in Activities, OpenPanel(a) \/ Answer(a)
  PROVE  ReplInv'
<1>1. PICK from \in {"asking", "panel", "late", "limit"}, next \in {"turn", "panel", "late"} :
        Step(a, from, next)
  BY DEF OpenPanel, Answer
<1>2. UNCHANGED <<waiting, workerUnchanged>> /\ ~exited
  BY DEF OpenPanel, Answer
<1>3. Sound(a, [activities[a] EXCEPT !.step = next])
  BY <1>1, <1>2, Recorded DEF Step, At, Sound, Activity
<1> QED BY <1>1, <1>2, <1>3, Steps

LEMMA ActivityEndsKeeps == ASSUME ReplInv, NEW a \in Activities, ActivityEnds(a) PROVE ReplInv'
<1>1. PICK ok \in {FALSE, At(a, "turn")} :
        activities' = [activities EXCEPT ![a] = [activities[a] EXCEPT !.step = "handler", !.ok = ok]]
  BY DEF ActivityEnds
<1> DEFINE r == [activities[a] EXCEPT !.step = "handler", !.ok = ok]
<1>2. activities[a].step \in {"turn", "command"} /\ ok \in BOOLEAN
  BY DEF ActivityEnds, At
<1>3. r \in Activity /\ r.finished = activities[a].finished
  BY <1>2, Recorded DEF Activity
<1>4. Sound(a, r)
  BY <1>2, Recorded DEF Sound, Activity
<1> QED BY <1>1, <1>3, <1>4, WaitingKept, WorkerMoves DEF ActivityEnds

(* An activity starts beside workers that have all finished.                *)
LEMMA Launches ==
  ASSUME NEW w \in Seq(Activity), \A b \in 1..Len(w) : w[b].finished,
         NEW r \in Activity, ~r.finished, activities' = Append(w, r), turnInFlight' = TRUE,
         \/ cancelEvent' = Len(w) + 1 /\ shellEvent' = 0
         \/ cancelEvent' = 0 /\ shellEvent' = Len(w) + 1
  PROVE  /\ activities' \in Seq(Activity)
         /\ Activities' = 1..(Len(w) + 1)
         /\ \A b \in 1..Len(w) : activities'[b] = w[b]
         /\ activities'[Len(w) + 1] = r
         /\ FlightInv'
<1>1. /\ activities' \in Seq(Activity) /\ Len(activities') = Len(w) + 1
      /\ \A b \in 1..Len(w) : activities'[b] = w[b]
      /\ activities'[Len(w) + 1] = r
  BY AppendedToSequence
<1>2. Len(w) \in Nat /\ Activities' = 1..(Len(w) + 1)
  BY <1>1 DEF Activities
<1>3. Unfinished' = {Len(w) + 1}
  BY <1>1, <1>2 DEF Unfinished
<1>4. FlightInv'
  BY <1>2, <1>3 DEF FlightInv, OneActivityAtATime
<1> QED BY <1>1, <1>2, <1>4

(* A text that gets its home now was at home nowhere.                       *)
LEMMA GetsItsHome ==
  ASSUME ReplInv, NEW m \in Text, home[m] = 0, Meant(m)
  PROVE  /\ home' \in [Text -> Number \cup {0}] /\ home'[m] = live
         /\ \A s \in Number : \A k \in waiting[s] : home'[k] = s
         /\ \A a \in Activities \ displaced :
              activities[a].session # 0 \/ ~activities[a].finished =>
                \A k \in activities[a].texts : home'[k] = home[k]
<1>1. /\ home \in [Text -> Number \cup {0}] /\ live \in Number /\ 0 \notin Number
      /\ home' = [home EXCEPT ![m] = live]
  BY DEF ReplInv, ReplTyped, ReplTypeOK, Number, Meant
<1>2. \A k \in Text : home[k] # 0 => home'[k] = home[k]
  BY <1>1
<1>3. \A s \in Number : \A k \in waiting[s] : k \in Text /\ home[k] = s
  BY DEF ReplInv, ReplTyped, ReplTypeOK, HomeInv
<1>4. \A a \in Activities \ displaced :
        activities[a].session # 0 \/ ~activities[a].finished =>
          \A k \in activities[a].texts : k \in Text /\ home[k] # 0
  BY <1>1, Recorded DEF Sound, Activity
<1> QED BY <1>1, <1>2, <1>3, <1>4

(* An activity that starts while nothing is in flight.                      *)
LEMMA StartSound ==
  ASSUME ReplInv, ~turnInFlight, ~exited, NEW r \in Activity,
         r.step \in {"mount", "command"}, r.session = 0, ~r.cancelled, ~r.stopped, ~r.finished,
         activities' = Append(activities, r), turnInFlight' = TRUE,
         \/ cancelEvent' = Len(activities) + 1 /\ shellEvent' = 0
         \/ cancelEvent' = 0 /\ shellEvent' = Len(activities) + 1,
         UNCHANGED <<exited, live, displaced>>,
         \A a \in Activities \ displaced :
           activities[a].session # 0 => \A k \in activities[a].texts : home'[k] = home[k],
         \A k \in r.texts : home'[k] = live
  PROVE  /\ activities' \in Seq(Activity) /\ FlightInv' /\ AllSound'
         /\ Activities \subseteq Activities'
         /\ {cancelEvent', shellEvent'} \subseteq {0} \cup Activities'
         /\ \A a \in Activities' : activities'[a] \in Activity
<1> DEFINE n == Len(activities)
<1>1. activities \in Seq(Activity) /\ Activities = 1..n /\ \A a \in 1..n : activities[a].finished
  BY NoneInFlight DEF ReplInv, ReplTyped, Activities
<1>2. /\ activities' \in Seq(Activity) /\ FlightInv'
      /\ Activities' = 1..(n + 1)
      /\ \A a \in 1..n : activities'[a] = activities[a]
      /\ activities'[n + 1] = r
  BY <1>1, Launches
<1>3. \A a \in 1..n : Sound(a, activities[a])'
  BY <1>1, <1>2, Recorded DEF Sound
<1>4. ASSUME NEW a, a = n + 1 PROVE Sound(a, activities[a])'
  BY <1>2, <1>4 DEF Sound
<1>5. AllSound'
  BY <1>1, <1>2, <1>3, <1>4 DEF AllSound
<1>6. n \in Nat /\ Activities \subseteq Activities' /\ \A a \in Activities' : activities'[a] \in Activity
  BY <1>1, <1>2, Recorded
<1> QED BY <1>2, <1>5, <1>6

LEMMA NewActivityIsOne ==
  ASSUME NEW step \in {"mount", "command"}, NEW texts \in SUBSET Text, NEW fromQueue \in BOOLEAN
  PROVE  LET r == NewActivity(step, texts, fromQueue)
         IN  /\ r \in Activity /\ r.step = step /\ r.texts = texts /\ r.queued = fromQueue
             /\ r.session = 0 /\ ~r.cancelled /\ ~r.stopped /\ ~r.finished
BY DEF NewActivity, Activity

LEMMA EnterKeeps == ASSUME ReplInv, NEW m \in Text, Enter(m) PROVE ReplInv'
<1>1. home[m] = 0 /\ Meant(m) /\ ~exited /\ shellEvent = 0 /\ m \in Typed
  BY DEF Enter, CanType
<1>2. UNCHANGED <<budget, live, shellEvent, pings, pinging, replacing, exitRequested, exited, oneShot,
                  starting, diskFull, displaced>>
  BY DEF Enter
<1>3. m # FromStart
  BY <1>1, ReplAssumption
<1>4. starting' => home'[FromStart] = 0
  BY <1>1, <1>2, <1>3 DEF Meant, ReplInv, ReplTyped, ReplTypeOK, HomeInv, Text
<1>5. SessionsInv'
  BY <1>2 DEF ReplInv, SessionsInv
<1>6. CASE turnInFlight
  <2>1. /\ waiting' = [waiting EXCEPT ![live] = @ \cup {m}]
        /\ UNCHANGED <<turnInFlight, activities, cancelEvent>>
    BY <1>6 DEF Enter
  <2>2. ReplTyped'
    BY <1>1, <1>2, <2>1, GetsItsHome DEF ReplInv, ReplTyped, ReplTypeOK, Activities
  <2>3. HomeInv'
    BY <1>1, <1>4, <2>1, GetsItsHome DEF ReplInv, ReplTyped, ReplTypeOK, HomeInv
  <2>4. AllSound'
    BY <1>1, <1>2, <2>1, GetsItsHome, Recorded DEF AllSound, Sound, Activities
  <2>5. FlightInv'
    BY <1>2, <2>1, FlightKept DEF ReplInv
  <2> QED BY <1>2, <1>5, <2>1, <2>2, <2>3, <2>4, <2>5 DEF ReplInv
<1>7. CASE ~turnInFlight
  <2> DEFINE r == NewActivity("mount", {m}, FALSE)
  <2>1. /\ turnInFlight' = TRUE /\ activities' = Append(activities, r)
        /\ cancelEvent' = Len(activities) + 1 /\ waiting' = waiting
    BY <1>7 DEF Enter, SubmitTo
  <2>2. /\ r \in Activity /\ r.step = "mount" /\ r.texts = {m}
        /\ r.session = 0 /\ ~r.cancelled /\ ~r.stopped /\ ~r.finished
    BY NewActivityIsOne
  <2>3. /\ activities' \in Seq(Activity) /\ FlightInv' /\ AllSound'
        /\ Activities \subseteq Activities'
        /\ {cancelEvent', shellEvent'} \subseteq {0} \cup Activities'
        /\ \A a \in Activities' : activities'[a] \in Activity
    BY <1>1, <1>2, <1>7, <2>1, <2>2, GetsItsHome, StartSound
  <2>4. ReplTyped'
    BY <1>1, <1>2, <2>1, <2>3, GetsItsHome DEF ReplInv, ReplTyped, ReplTypeOK, Activity
  <2>5. HomeInv'
    BY <1>1, <1>4, <2>1, GetsItsHome DEF HomeInv
  <2> QED BY <1>2, <1>5, <2>1, <2>3, <2>4, <2>5 DEF ReplInv
<1> QED BY <1>6, <1>7

LEMMA EnterCommandKeeps == ASSUME ReplInv, EnterCommand PROVE ReplInv'
<1> DEFINE r == NewActivity("command", {}, FALSE)
<1>1. /\ ~turnInFlight /\ ~exited
      /\ turnInFlight' = TRUE /\ activities' = Append(activities, r)
      /\ shellEvent' = Len(activities) + 1
  BY DEF EnterCommand, CanType
<1>2. UNCHANGED <<budget, live, cancelEvent, waiting, pings, pinging, replacing, exitRequested, exited,
                  oneShot, starting, diskFull, home, displaced>>
  BY DEF EnterCommand
<1>3. /\ r \in Activity /\ r.step = "command" /\ r.texts = {}
      /\ r.session = 0 /\ ~r.cancelled /\ ~r.stopped /\ ~r.finished
  BY NewActivityIsOne
<1>4. cancelEvent = 0
  BY <1>1 DEF ReplInv, FlightInv
<1>5. /\ activities' \in Seq(Activity) /\ FlightInv' /\ AllSound'
      /\ Activities \subseteq Activities'
      /\ {cancelEvent', shellEvent'} \subseteq {0} \cup Activities'
      /\ \A a \in Activities' : activities'[a] \in Activity
  BY <1>1, <1>2, <1>3, <1>4, StartSound
<1>6. ReplTyped'
  BY <1>1, <1>2, <1>5 DEF ReplInv, ReplTyped, ReplTypeOK, Activity
<1> QED BY <1>1, <1>2, <1>5, <1>6 DEF ReplInv, SessionsInv, HomeInv

LEMMA SubmitInitialKeeps == ASSUME ReplInv, SubmitInitial PROVE ReplInv'
<1>1. /\ starting /\ ~exited /\ starting' = FALSE /\ Meant(FromStart)
      /\ FromStart \in Text /\ home[FromStart] = 0
  BY DEF SubmitInitial, Text, ReplInv, HomeInv
<1>2. UNCHANGED <<budget, live, shellEvent, waiting, pings, pinging, replacing, exitRequested, exited,
                  oneShot, diskFull, displaced>>
  BY DEF SubmitInitial
<1>3. SessionsInv' /\ HomeInv'
  BY <1>1, <1>2, GetsItsHome DEF ReplInv, SessionsInv, HomeInv
<1>4. CASE turnInFlight
  <2>1. UNCHANGED <<turnInFlight, activities, cancelEvent>>
    BY <1>4 DEF SubmitInitial
  <2>2. ReplTyped'
    BY <1>1, <1>2, <2>1, GetsItsHome DEF ReplInv, ReplTyped, ReplTypeOK, Activities
  <2>3. AllSound'
    BY <1>1, <1>2, <2>1, GetsItsHome, Recorded DEF AllSound, Sound, Activities
  <2>4. FlightInv'
    BY <1>2, <2>1, FlightKept DEF ReplInv
  <2> QED BY <1>2, <1>3, <2>1, <2>2, <2>3, <2>4 DEF ReplInv
<1>5. CASE ~turnInFlight
  <2> DEFINE r == NewActivity("mount", {FromStart}, FALSE)
  <2>1. /\ turnInFlight' = TRUE /\ activities' = Append(activities, r)
        /\ cancelEvent' = Len(activities) + 1
    BY <1>5 DEF SubmitInitial, SubmitTo
  <2>2. /\ r \in Activity /\ r.step = "mount" /\ r.texts = {FromStart}
        /\ r.session = 0 /\ ~r.cancelled /\ ~r.stopped /\ ~r.finished
    <3>1. {FromStart} \in SUBSET Text
      BY <1>1
    <3> QED BY <3>1, NewActivityIsOne
  <2>3. shellEvent' = 0
    BY <1>2, <1>5 DEF ReplInv, FlightInv
  <2>4. /\ activities' \in Seq(Activity) /\ FlightInv' /\ AllSound'
        /\ Activities \subseteq Activities'
        /\ {cancelEvent', shellEvent'} \subseteq {0} \cup Activities'
        /\ \A a \in Activities' : activities'[a] \in Activity
    BY <1>1, <1>2, <1>5, <2>1, <2>2, <2>3, GetsItsHome, StartSound
  <2>5. ReplTyped'
    BY <1>1, <1>2, <2>1, <2>4, GetsItsHome DEF ReplInv, ReplTyped, ReplTypeOK, Activity
  <2> QED BY <1>2, <1>3, <2>1, <2>4, <2>5 DEF ReplInv
<1> QED BY <1>4, <1>5

LEMMA ReportKeeps == ASSUME ReplInv, NEW m \in Text, Report(m) PROVE ReplInv'
<1>1. home[m] = 0 /\ Meant(m) /\ m \in Reported /\ m # FromStart
  BY ReplAssumption DEF Report
<1>2. /\ UNCHANGED <<hostState, live, activities, pings, starting, diskFull, displaced>>
      /\ waiting' = [waiting EXCEPT ![live] = @ \cup {m}] /\ pinging' = pinging \cup {m}
  BY DEF Report
<1>3. ReplTyped'
  BY <1>1, <1>2, GetsItsHome DEF ReplInv, ReplTyped, ReplTypeOK, Activities, hostState
<1>4. HomeInv'
  <2>1. starting' => home'[FromStart] = 0
    BY <1>1, <1>2 DEF Meant, ReplInv, ReplTyped, ReplTypeOK, HomeInv, Text
  <2> QED BY <1>1, <1>2, <2>1, GetsItsHome DEF ReplInv, ReplTyped, ReplTypeOK, HomeInv
<1>5. AllSound'
  BY <1>1, <1>2, GetsItsHome, Recorded DEF AllSound, Sound, Activities, hostState
<1>6. FlightInv'
  BY <1>2, FlightKept DEF ReplInv, hostState
<1> QED BY <1>2, <1>3, <1>4, <1>5, <1>6 DEF ReplInv, SessionsInv, hostState

LEMMA WakeKeeps == ASSUME ReplInv, Wake PROVE ReplInv'
<1>1. /\ ~exited /\ pings > 0 /\ pings' = pings - 1
      /\ UNCHANGED <<budget, live, shellEvent, pinging, replacing, exitRequested, exited, oneShot, starting,
                     diskFull, home, displaced>>
  BY DEF Wake
<1>2. CASE turnInFlight \/ waiting[live] = {}
  <2>1. UNCHANGED <<turnInFlight, activities, cancelEvent, waiting>>
    BY <1>2 DEF Wake
  <2> QED BY <1>1, <2>1, FlightKept
          DEF ReplInv, ReplTyped, ReplTypeOK, SessionsInv, HomeInv, AllSound, Sound, Activities
<1>3. CASE ~(turnInFlight \/ waiting[live] = {})
  <2> DEFINE r == NewActivity("mount", waiting[live], TRUE)
  <2>1. /\ turnInFlight' = TRUE /\ activities' = Append(activities, r)
        /\ cancelEvent' = Len(activities) + 1
        /\ waiting' = [waiting EXCEPT ![live] = {}]
    BY <1>3 DEF Wake, SubmitTo
  <2>2. live \in Number /\ waiting[live] \in SUBSET Text /\ \A k \in waiting[live] : home[k] = live
    BY DEF ReplInv, ReplTyped, ReplTypeOK, HomeInv
  <2>3. /\ r \in Activity /\ r.step = "mount" /\ r.texts = waiting[live]
        /\ r.session = 0 /\ ~r.cancelled /\ ~r.stopped /\ ~r.finished
    BY <2>2, NewActivityIsOne
  <2>4. shellEvent' = 0
    BY <1>1, <1>3 DEF ReplInv, FlightInv
  <2>5. /\ activities' \in Seq(Activity) /\ FlightInv' /\ AllSound'
        /\ Activities \subseteq Activities'
        /\ {cancelEvent', shellEvent'} \subseteq {0} \cup Activities'
        /\ \A a \in Activities' : activities'[a] \in Activity
    BY <1>1, <1>3, <2>1, <2>2, <2>3, <2>4, StartSound
  <2>6. ReplTyped'
    <3>1. pings' \in Nat
      BY <1>1 DEF ReplInv, ReplTyped, ReplTypeOK
    <3>2. waiting' \in [Number -> SUBSET Text]
      BY <2>1, <2>2 DEF ReplInv, ReplTyped, ReplTypeOK
    <3> QED BY <1>1, <2>1, <2>5, <3>1, <3>2 DEF ReplInv, ReplTyped, ReplTypeOK, Activity
  <2>7. HomeInv'
    BY <1>1, <2>1 DEF ReplInv, ReplTyped, ReplTypeOK, HomeInv
  <2> QED BY <1>1, <2>1, <2>5, <2>6, <2>7 DEF ReplInv, SessionsInv
<1> QED BY <1>2, <1>3

LEMMA PingKeeps == ASSUME ReplInv, NEW m \in Text, Ping(m) PROVE ReplInv'
<1>1. /\ UNCHANGED <<hostState, live, activities, waiting, starting, diskFull, home, displaced>>
      /\ pinging' \subseteq pinging /\ pings' = pings + 1
  BY DEF Ping
<1> QED BY <1>1, FlightKept
        DEF ReplInv, ReplTyped, ReplTypeOK, SessionsInv, HomeInv, AllSound, Sound, Activities, hostState

(* _finish_turn ends the one activity in flight, and builds the replacement *)
(* that was put off or drives on with what waits in the live session.       *)
LEMMA FinishKeeps ==
  ASSUME ReplInv, NEW a \in Activities, ~activities[a].finished, ~exited,
         NEW next \in {"unwinding", "over"}, FinishTurn(a, next)
  PROVE  ReplInv'
<1> DEFINE f == [activities[a] EXCEPT !.step = next, !.finished = TRUE]
           w == [activities EXCEPT ![a] = f]
           again == NewActivity("mount", waiting[live], TRUE)
<1>1. /\ shellEvent' = 0 /\ replacing' = FALSE
      /\ live' = IF replacing THEN live + 1 ELSE live
      /\ UNCHANGED <<budget, exitRequested, pings, pinging, starting, diskFull, home, displaced>>
      /\ IF replacing \/ waiting[live] = {}
           THEN /\ turnInFlight' = FALSE /\ cancelEvent' = 0 /\ activities' = w
                /\ waiting' = waiting
           ELSE /\ turnInFlight' = TRUE /\ cancelEvent' = Len(w) + 1
                /\ activities' = Append(w, again)
                /\ waiting' = [waiting EXCEPT ![live] = {}]
  BY DEF FinishTurn, SubmitTo, ShellEventCleared
<1>2. oneShot' \in BOOLEAN /\ exited' \in BOOLEAN /\ (exitRequested' => exited')
  BY <1>1 DEF FinishTurn, ReplInv, ReplTyped, ReplTypeOK
<1>3. f \in Activity /\ f.finished /\ f.step = next /\ f.session = activities[a].session
      /\ f.texts = activities[a].texts
  BY Recorded DEF Activity
<1>4. /\ w \in Seq(Activity) /\ Len(w) = Len(activities)
      /\ \A b \in Activities : w[b] = IF b = a THEN f ELSE activities[b]
  BY <1>3, ReplacedInSequence DEF ReplInv, ReplTyped, Activities
<1> HIDE DEF f, w
<1>5. \A b \in Activities : w[b].finished
  BY <1>3, <1>4, TheOne DEF ReplInv, Unfinished
<1>6. \A b \in Activities : w[b].session = activities[b].session /\ w[b].texts = activities[b].texts
                            /\ w[b].step \in {"unwinding", "over"}
  BY <1>3, <1>4, <1>5, Recorded DEF Sound
<1>7. live' \in Number /\ SessionsInv'
  BY <1>1, ReplAssumption DEF ReplInv, ReplTyped, ReplTypeOK, SessionsInv, Number
<1>8. \A b \in Activities \ displaced :
        activities[b].session # 0 => \A m \in activities[b].texts : home[m] = activities[b].session
  BY Recorded DEF Sound
<1>9. CASE replacing \/ waiting[live] = {}
  <2>1. turnInFlight' = FALSE /\ cancelEvent' = 0 /\ activities' = w /\ waiting' = waiting
    BY <1>1, <1>9
  <2>2. Activities' = Activities
    BY <1>4, <2>1 DEF Activities
  <2>3. FlightInv'
    BY <1>1, <1>5, <2>1, <2>2 DEF FlightInv, OneActivityAtATime, Unfinished
  <2>4. AllSound'
    BY <1>1, <1>4, <1>5, <1>6, <1>8, <2>1, <2>2 DEF AllSound, Sound
  <2>5. \A b \in Activities' : activities'[b] \in Activity
    BY <1>3, <1>4, <2>1, <2>2, Recorded
  <2>6. ReplTyped'
    BY <1>1, <1>2, <1>4, <1>7, <2>1, <2>2, <2>5 DEF ReplInv, ReplTyped, ReplTypeOK, Activity
  <2>7. HomeInv'
    BY <1>1, <2>1 DEF ReplInv, HomeInv
  <2> QED BY <1>1, <1>2, <1>7, <2>3, <2>4, <2>6, <2>7 DEF ReplInv
<1>10. CASE ~(replacing \/ waiting[live] = {})
  <2>1. /\ turnInFlight' = TRUE /\ cancelEvent' = Len(w) + 1 /\ activities' = Append(w, again)
        /\ waiting' = [waiting EXCEPT ![live] = {}] /\ live' = live
    BY <1>1, <1>10
  <2>2. live \in Number /\ waiting[live] \in SUBSET Text /\ \A m \in waiting[live] : home[m] = live
    BY DEF ReplInv, ReplTyped, ReplTypeOK, HomeInv
  <2>3. /\ again \in Activity /\ again.step = "mount" /\ again.texts = waiting[live] /\ again.queued = TRUE
        /\ again.session = 0 /\ ~again.cancelled /\ ~again.stopped /\ ~again.finished
    BY <2>2, NewActivityIsOne
  <2> HIDE DEF again
  <2>4. /\ activities' \in Seq(Activity) /\ FlightInv'
        /\ Activities' = 1..(Len(w) + 1)
        /\ \A b \in 1..Len(w) : activities'[b] = w[b]
        /\ activities'[Len(w) + 1] = again
    BY <1>1, <1>4, <1>5, <2>1, <2>3, Launches DEF Activities
  <2>5. Activities = 1..Len(w) /\ Len(w) \in Nat
    BY <1>4 DEF Activities
  <2>6. ASSUME NEW b \in Activities PROVE Sound(b, activities[b])'
    BY <1>1, <1>5, <1>6, <1>8, <2>4, <2>5 DEF Sound
  <2>7. ASSUME NEW b, b = Len(w) + 1 PROVE Sound(b, activities[b])'
    BY <1>1, <2>1, <2>2, <2>3, <2>4, <2>7 DEF Sound
  <2>8. AllSound'
    BY <2>4, <2>5, <2>6, <2>7 DEF AllSound
  <2>9. \A b \in Activities' : activities'[b] \in Activity
    <3>1. \A b \in Activities : w[b] \in Activity
      BY <1>3, <1>4, Recorded
    <3> QED BY <2>3, <2>4, <2>5, <3>1
  <2>10. ReplTyped'
    <3>1. Activities \subseteq Activities' /\ {cancelEvent', shellEvent'} \subseteq {0} \cup Activities'
      BY <1>1, <2>1, <2>4, <2>5
    <3>2. waiting' \in [Number -> SUBSET Text]
      BY <2>1, <2>2 DEF ReplInv, ReplTyped, ReplTypeOK
    <3> QED BY <1>1, <1>2, <1>7, <2>1, <2>4, <2>9, <3>1, <3>2 DEF ReplInv, ReplTyped, ReplTypeOK, Activity
  <2>11. HomeInv'
    BY <1>1, <2>1 DEF ReplInv, ReplTyped, ReplTypeOK, HomeInv
  <2> QED BY <1>1, <1>2, <1>7, <2>4, <2>8, <2>10, <2>11 DEF ReplInv
<1> QED BY <1>9, <1>10

LEMMA HandleKeeps == ASSUME ReplInv, NEW a \in Activities, Handle(a) PROVE ReplInv'
<1>1. activities[a].step = "handler" /\ ~exited /\ ~activities[a].finished
  BY Recorded DEF Handle, At, Sound
<1>2. CASE FinishTurn(a, "unwinding")
  BY <1>1, <1>2, FinishKeeps
<1>3. CASE Step(a, "handler", "unwinding") /\ UNCHANGED <<waiting, workerUnchanged>>
  <2>1. Sound(a, [activities[a] EXCEPT !.step = "unwinding"])
    BY <1>1, Recorded DEF Sound, Activity
  <2> QED BY <1>3, <2>1, Steps
<1> QED BY <1>2, <1>3 DEF Handle

LEMMA BackstopKeeps == ASSUME ReplInv, NEW a \in Activities, Backstop(a) PROVE ReplInv'
<1>1. activities[a].step = "unwinding" /\ ~exited
  BY DEF Backstop, At
<1>2. CASE IsOwn(a) /\ FinishTurn(a, "over")
  <2>1. a # 0 /\ a \in Unfinished
    BY <1>2 DEF IsOwn, Activities, ReplInv, FlightInv, OneActivityAtATime
  <2> QED BY <1>1, <1>2, <2>1, FinishKeeps DEF Unfinished
<1>3. CASE Step(a, "unwinding", "over") /\ UNCHANGED <<waiting, workerUnchanged>>
  <2>1. Sound(a, [activities[a] EXCEPT !.step = "over"])
    BY <1>1, Recorded DEF Sound, Activity
  <2> QED BY <1>3, <2>1, Steps
<1> QED BY <1>2, <1>3 DEF Backstop

(* Setting the events of all that is in flight, for any of the panels.      *)
LEMMA SignalKeeps ==
  ASSUME ReplInv, ~exited, NEW C, Unfinished \subseteq C, NEW R,
         activities' = Signalled(C, R), UNCHANGED <<live, displaced, home, exited>>
  PROVE  /\ activities' \in Seq(Activity) /\ Len(activities') = Len(activities)
         /\ \A a \in Activities : activities'[a] \in Activity
         /\ \A a \in Activities : /\ activities'[a].finished = activities[a].finished
                                  /\ activities'[a].texts = activities[a].texts
         /\ AllSound'
<1> DEFINE r(a) == [activities[a] EXCEPT
                      !.cancelled = @ \/ a \in C,
                      !.stopped = @ \/ a \in Unfinished,
                      !.step = IF @ \in {"panel", "late"} /\ R[a] THEN "turn" ELSE @]
<1>1. activities' = [a \in 1..Len(activities) |-> r(a)] /\ Len(activities) \in Nat
  <2>1. activities' = [a \in Activities |-> r(a)]
    BY Zenon DEF Signalled
  <2>2. Len(activities) \in Nat
    BY DEF ReplInv, ReplTyped
  <2> QED BY <2>1, <2>2, Zenon DEF Activities
<1>2. \A a \in Activities : activities[a] \in Activity
  BY Recorded
<1>3. \A a \in Activities :
        /\ r(a) \in Activity /\ r(a).finished = activities[a].finished
        /\ r(a).session = activities[a].session /\ r(a).texts = activities[a].texts
        /\ r(a).step \in {activities[a].step, "turn"}
        /\ r(a).step # activities[a].step => activities[a].step \in {"panel", "late"}
        /\ r(a).cancelled = (activities[a].cancelled \/ a \in C)
        /\ r(a).stopped = (activities[a].stopped \/ a \in Unfinished)
  <2> HIDE DEF r
  <2> SUFFICES ASSUME NEW a \in Activities
               PROVE  /\ r(a) \in Activity /\ r(a).finished = activities[a].finished
                      /\ r(a).session = activities[a].session /\ r(a).texts = activities[a].texts
                      /\ r(a).step \in {activities[a].step, "turn"}
                      /\ r(a).step # activities[a].step => activities[a].step \in {"panel", "late"}
                      /\ r(a).cancelled = (activities[a].cancelled \/ a \in C)
                      /\ r(a).stopped = (activities[a].stopped \/ a \in Unfinished)
    OBVIOUS
  <2> DEFINE c == activities[a].cancelled \/ a \in C
             d == activities[a].stopped \/ a \in Unfinished
             t == IF activities[a].step \in {"panel", "late"} /\ R[a] THEN "turn" ELSE activities[a].step
  <2>1. r(a) = [activities[a] EXCEPT !.cancelled = c, !.stopped = d, !.step = t]
    BY Zenon DEF r
  <2>2. c \in BOOLEAN /\ d \in BOOLEAN
    BY Zenon
  <2>3. /\ t \in {activities[a].step, "turn"}
        /\ t # activities[a].step => activities[a].step \in {"panel", "late"}
    <3> HIDE DEF c, d
    <3>1. CASE activities[a].step \in {"panel", "late"} /\ R[a]
      <4>1. t = "turn"
        BY <3>1
      <4> QED BY <3>1, <4>1
    <3>2. CASE ~(activities[a].step \in {"panel", "late"} /\ R[a])
      <4>1. t = activities[a].step
        BY <3>2
      <4> QED BY <4>1
    <3> QED BY <3>1, <3>2
  <2> HIDE DEF r, c, d, t
  <2>4. /\ r(a) \in Activity /\ r(a).finished = activities[a].finished
        /\ r(a).session = activities[a].session /\ r(a).texts = activities[a].texts
        /\ r(a).step = t /\ r(a).cancelled = c /\ r(a).stopped = d
    BY <1>2, <2>1, <2>2, <2>3 DEF Activity
  <2> QED BY <2>3, <2>4 DEF c, d
<1> HIDE DEF r
<1>4. /\ activities' \in Seq(Activity) /\ Len(activities') = Len(activities)
      /\ \A a \in Activities : activities'[a] = r(a)
  BY <1>1, <1>3 DEF Activities
<1>5. Activities' = Activities
  BY <1>4 DEF Activities
<1>6. AllSound'
  <2> SUFFICES ASSUME NEW a \in Activities PROVE Sound(a, activities[a])'
    BY <1>5 DEF AllSound
  <2>1. ~activities[a].finished => a \in Unfinished /\ a \in C
    BY DEF Unfinished
  <2> QED BY <1>3, <1>4, <2>1, Recorded DEF Sound
<1> QED BY <1>3, <1>4, <1>6

(* The types, when activities change only their records and the host's      *)
(* flags are given new ones.                                                *)
LEMMA SignalTyped ==
  ASSUME ReplInv, activities' \in Seq(Activity), Len(activities') = Len(activities),
         \A a \in Activities : activities'[a] \in Activity,
         exitRequested' \in BOOLEAN, replacing' \in BOOLEAN,
         UNCHANGED <<budget, turnInFlight, live, cancelEvent, shellEvent, waiting, pings, pinging, exited,
                     oneShot, starting, diskFull, home, displaced>>
  PROVE  ReplTyped'
<1>1. Activities' = Activities
  BY DEF Activities
<1> QED BY <1>1 DEF ReplInv, ReplTyped, ReplTypeOK, Activity

(* What Interrupt, Quit and ClearSession have in common: the activity in    *)
(* flight is told to stop.                                                  *)
LEMMA StopKeeps ==
  ASSUME ReplInv, ~exited, NEW C, Unfinished \subseteq C, NEW R,
         activities' = Signalled(C, R), turnInFlight,
         exitRequested' \in BOOLEAN, replacing' \in BOOLEAN, replacing' => live < budget.sessions,
         UNCHANGED <<budget, turnInFlight, live, cancelEvent, shellEvent, waiting, pings, pinging, exited,
                     oneShot, starting, diskFull, home, displaced>>
  PROVE  ReplInv'
<1>1. /\ activities' \in Seq(Activity) /\ Len(activities') = Len(activities)
      /\ \A a \in Activities : activities'[a] \in Activity
      /\ \A a \in Activities : activities'[a].finished = activities[a].finished
      /\ AllSound'
  BY SignalKeeps
<1>2. ReplTyped'
  BY <1>1, SignalTyped
<1>3. FlightInv'
  BY <1>1, FlightKept DEF ReplInv
<1>4. SessionsInv' /\ HomeInv'
  BY DEF ReplInv, SessionsInv, HomeInv
<1> QED BY <1>1, <1>2, <1>3, <1>4 DEF ReplInv

LEMMA InterruptIsSignal ==
  ASSUME ReplInv, Interrupt
  PROVE  \E C, R : activities' = Signalled(C, R) /\ Unfinished \subseteq C
<1>1. CASE shellEvent # 0
  <2>1. activities' = Signalled({shellEvent}, [a \in Activities |-> FALSE])
    BY <1>1 DEF Interrupt
  <2>2. Unfinished \subseteq {shellEvent}
    BY <1>1 DEF Interrupt, ReplInv, FlightInv, OneActivityAtATime
  <2> QED BY <2>1, <2>2
<1>2. CASE shellEvent = 0
  <2>1. activities' = Signalled({cancelEvent}, [a \in Activities |-> activities[a].session = live])
    BY <1>2 DEF Interrupt
  <2>2. Unfinished \subseteq {cancelEvent}
    BY <1>2 DEF Interrupt, ReplInv, FlightInv, OneActivityAtATime
  <2> QED BY <2>1, <2>2
<1> QED BY <1>1, <1>2

LEMMA InterruptKeeps == ASSUME ReplInv, Interrupt PROVE ReplInv'
<1>1. /\ turnInFlight /\ ~exited
      /\ UNCHANGED <<budget, turnInFlight, live, cancelEvent, shellEvent, waiting, pings, pinging, exited,
                     oneShot, starting, diskFull, home, displaced, exitRequested, replacing>>
  BY DEF Interrupt, workerUnchanged, hostState
<1>2. PICK C, R : activities' = Signalled(C, R) /\ Unfinished \subseteq C
  BY InterruptIsSignal
<1>3. exitRequested' \in BOOLEAN /\ replacing' \in BOOLEAN /\ (replacing' => live < budget.sessions)
  BY <1>1 DEF ReplInv, ReplTyped, ReplTypeOK, SessionsInv
<1> QED BY <1>1, <1>2, <1>3, StopKeeps

LEMMA ReleaseIsSignal ==
  ASSUME ReplInv, turnInFlight, ReleaseWorkers
  PROVE  \E C, R : activities' = Signalled(C, R) /\ Unfinished \subseteq C
<1>1. activities' = Signalled({cancelEvent, shellEvent}, AnyPanel)
  BY DEF ReleaseWorkers
<1>2. Unfinished \subseteq {cancelEvent, shellEvent}
  BY DEF ReplInv, FlightInv, OneActivityAtATime
<1> QED BY <1>1, <1>2

LEMMA QuitKeeps == ASSUME ReplInv, Quit PROVE ReplInv'
<1>1. /\ ~exited
      /\ UNCHANGED <<budget, live, turnInFlight, cancelEvent, shellEvent, waiting, pings, pinging, replacing,
                     oneShot, starting, diskFull, home, displaced>>
  BY DEF Quit
<1>2. CASE turnInFlight
  <2>1. exitRequested' = TRUE /\ ReleaseWorkers /\ exited' = exited
    BY <1>2 DEF Quit
  <2>2. replacing' \in BOOLEAN /\ (replacing' => live < budget.sessions)
    BY <1>1 DEF ReplInv, ReplTyped, ReplTypeOK, SessionsInv
  <2>3. PICK C, R : activities' = Signalled(C, R) /\ Unfinished \subseteq C
    BY <1>2, <2>1, ReleaseIsSignal
  <2> QED BY <1>1, <1>2, <2>1, <2>2, <2>3, StopKeeps
<1>3. CASE ~turnInFlight
  <2>1. exited' = TRUE /\ UNCHANGED <<exitRequested, activities>>
    BY <1>3 DEF Quit
  <2>2. FlightInv'
    BY <1>1, <2>1, FlightKept DEF ReplInv
  <2>3. AllSound'
    BY <1>1, <1>3, <2>1, NoneInFlight, Recorded DEF ReplInv, AllSound, Sound, Activities
  <2>4. ReplTyped'
    BY <1>1, <2>1 DEF ReplInv, ReplTyped, ReplTypeOK, Activities
  <2> QED BY <1>1, <2>1, <2>2, <2>3, <2>4 DEF ReplInv, SessionsInv, HomeInv
<1> QED BY <1>2, <1>3

(* A session put off counts against the bound like one that exists.         *)
LEMMA SessionLeft ==
  ASSUME ReplInv, live + Cardinality({replacing} \ {FALSE}) < budget.sessions
  PROVE  /\ live + 1 \in Number /\ live < budget.sessions
         /\ replacing => live + 1 < budget.sessions
<1>1. live \in Number /\ replacing \in BOOLEAN /\ budget.sessions \in Number
  BY ReplAssumption DEF ReplInv, ReplTyped, ReplTypeOK
<1>2. CASE replacing
  <2>1. {replacing} \ {FALSE} = {TRUE}
    BY <1>1, <1>2
  <2>2. Cardinality({replacing} \ {FALSE}) = 1
    BY <2>1, FS_Singleton
  <2> QED BY <1>1, <2>2, ReplAssumption DEF Number
<1>3. CASE ~replacing
  <2>1. {replacing} \ {FALSE} = {}
    BY <1>1, <1>3
  <2>2. Cardinality({replacing} \ {FALSE}) = 0
    BY <2>1, FS_EmptySet
  <2> QED BY <1>1, <1>3, <2>2, ReplAssumption DEF Number
<1> QED BY <1>2, <1>3

LEMMA ClearSessionKeeps == ASSUME ReplInv, ClearSession PROVE ReplInv'
<1>1. /\ ~exited
      /\ UNCHANGED <<budget, turnInFlight, cancelEvent, shellEvent, waiting, pings, pinging, exitRequested,
                     exited, oneShot, starting, diskFull, home, displaced>>
      /\ live + 1 \in Number /\ live < budget.sessions /\ (replacing => live + 1 < budget.sessions)
  BY SessionLeft DEF ClearSession
<1>2. CASE turnInFlight
  <2>1. replacing' = TRUE /\ ReleaseWorkers /\ live' = live
    BY <1>2 DEF ClearSession, Defers
  <2>2. PICK C, R : activities' = Signalled(C, R) /\ Unfinished \subseteq C
    BY <1>2, <2>1, ReleaseIsSignal
  <2>3. exitRequested' \in BOOLEAN
    BY <1>1 DEF ReplInv, ReplTyped, ReplTypeOK
  <2> QED BY <1>1, <1>2, <2>1, <2>2, <2>3, StopKeeps
<1>3. CASE ~turnInFlight
  <2>1. live' = live + 1 /\ UNCHANGED <<replacing, activities>>
    BY <1>3 DEF ClearSession, Defers
  <2>2. FlightInv'
    BY <1>1, <2>1, FlightKept DEF ReplInv
  <2>3. AllSound'
    BY <1>1, <1>3, <2>1, NoneInFlight, Recorded DEF ReplInv, AllSound, Sound, Activities
  <2>4. ReplTyped'
    BY <1>1, <2>1 DEF ReplInv, ReplTyped, ReplTypeOK, Activities
  <2>5. SessionsInv'
    BY <1>1, <2>1, ReplAssumption DEF ReplInv, ReplTyped, ReplTypeOK, Number, SessionsInv
  <2> QED BY <1>1, <2>1, <2>2, <2>3, <2>4, <2>5 DEF ReplInv, HomeInv
<1> QED BY <1>2, <1>3

LEMMA LoadRecentSessionKeeps == ASSUME ReplInv, LoadRecentSession PROVE ReplInv'
<1>1. /\ ~exited /\ live' = live + 1 /\ displaced' = displaced \cup Unfinished
      /\ UNCHANGED <<hostState, activities, waiting, pings, pinging, starting, diskFull, home>>
      /\ live + 1 \in Number /\ live < budget.sessions /\ (replacing => live + 1 < budget.sessions)
  BY SessionLeft DEF LoadRecentSession
<1>2. FlightInv'
  BY <1>1, FlightKept DEF ReplInv, hostState
<1>3. AllSound'
  <2> SUFFICES ASSUME NEW a \in Activities PROVE Sound(a, activities[a])'
    BY <1>1 DEF AllSound, Activities
  <2>1. a \notin displaced' => activities[a].finished
    BY <1>1 DEF Unfinished
  <2> QED BY <1>1, <2>1, Recorded DEF Sound, hostState
<1>4. ReplTyped'
  BY <1>1 DEF ReplInv, ReplTyped, ReplTypeOK, Activities, Unfinished, hostState
<1>5. SessionsInv'
  BY <1>1, ReplAssumption DEF ReplInv, ReplTyped, ReplTypeOK, Number, SessionsInv, hostState
<1> QED BY <1>1, <1>2, <1>3, <1>4, <1>5 DEF ReplInv, HomeInv, hostState

LEMMA UntouchedKeeps ==
  ASSUME ReplInv, diskFull' \in BOOLEAN,
         UNCHANGED <<hostState, live, activities, waiting, pings, pinging, starting, home, displaced>>
  PROVE  ReplInv'
<1>1. ReplTyped'
  BY DEF ReplInv, ReplTyped, ReplTypeOK, Activities, hostState
<1>2. FlightInv'
  BY FlightKept DEF ReplInv, hostState
<1>3. AllSound' /\ SessionsInv' /\ HomeInv'
  BY DEF ReplInv, AllSound, Sound, SessionsInv, HomeInv, Activities, hostState
<1> QED BY <1>1, <1>2, <1>3 DEF ReplInv, hostState

LEMMA ReplStarts == ReplInit => ReplInv
<1> SUFFICES ASSUME ReplInit PROVE ReplInv
  OBVIOUS
<1>1. activities = <<>> /\ activities \in Seq(Activity) /\ Activities = {} /\ Unfinished = {}
  BY DEF ReplInit, Activities, Unfinished
<1>2. 1 \in Number /\ budget.sessions \in Number
  BY ReplAssumption DEF ReplInit, Number
<1>3. starting \in BOOLEAN /\ oneShot \in BOOLEAN
  <2>1. starting \in BOOLEAN
    <3>1. starting = (FromStart \in budget.texts)
      BY DEF ReplInit
    <3>2. CASE FromStart \in budget.texts
      <4>1. starting = TRUE
        BY <3>1, <3>2
      <4> QED BY <4>1
    <3>3. CASE ~(FromStart \in budget.texts)
      <4>1. (FromStart \in budget.texts) = FALSE
        BY <3>3
      <4> QED BY <3>1, <4>1
    <3> QED BY <3>2, <3>3
  <2>2. oneShot \in {FALSE, starting}
    BY Zenon DEF ReplInit
  <2> QED BY <2>1, <2>2
<1>4. ReplTyped
  BY <1>1, <1>2, <1>3 DEF ReplInit, ReplTyped, ReplTypeOK
<1>5. FlightInv /\ AllSound
  BY <1>1 DEF ReplInit, FlightInv, OneActivityAtATime, AllSound
<1>6. SessionsInv /\ HomeInv
  BY <1>2 DEF ReplInit, SessionsInv, HomeInv, Number, Text
<1> QED BY <1>4, <1>5, <1>6 DEF ReplInit, ReplInv

LEMMA ReplSteps == ASSUME ReplInv, ReplNext PROVE ReplInv'
<1>1. ASSUME NEW m \in Text, Enter(m) \/ Report(m) \/ Ping(m) PROVE ReplInv'
  BY <1>1, EnterKeeps, ReportKeeps, PingKeeps
<1>2. ASSUME NEW a \in Activities, WorkerStep(a) PROVE ReplInv'
  BY <1>2, SendTurnKeeps, FoldInKeeps, AskKeeps, PanelKeeps, ActivityEndsKeeps, HandleKeeps, BackstopKeeps
  DEF WorkerStep
<1>3. CASE DiskFills
  BY <1>3, UntouchedKeeps DEF DiskFills
<1> QED BY <1>1, <1>2, <1>3, EnterCommandKeeps, SubmitInitialKeeps, WakeKeeps, InterruptKeeps, QuitKeeps,
           ClearSessionKeeps, LoadRecentSessionKeeps
        DEF ReplNext

LEMMA ReplNextInv == ASSUME ReplInv, [Next]_vars PROVE ReplInv'
<1>1. CASE UNCHANGED replVars
  BY <1>1, UntouchedKeeps DEF replVars, ReplInv, ReplTyped, ReplTypeOK
<1> QED BY <1>1, ReplSteps DEF Next, vars

(* The terminal host drives one activity at a time, on the session its      *)
(* texts were meant for, and leaves no worker thread behind when it exits   *)
(* but one it has just started itself, whatever the user types, asks for    *)
(* or loads, and whether or not the disk is full.                           *)
THEOREM TerminalHostIsSound == Spec => []ReplIsSound
<1>1. Init => ReplInv
  BY ReplStarts DEF Init
<1>2. ReplInv => ReplIsSound
  <2> SUFFICES ASSUME ReplInv PROVE ReplIsSound
    OBVIOUS
  <2>1. ReplTypeOK /\ OneActivityAtATime
    BY DEF ReplInv, ReplTyped, FlightInv
  <2>2. TurnsKeepTheirSession
    BY Recorded DEF TurnsKeepTheirSession, Sound, Unfinished
  <2>3. ExitLeavesNoWorker
    BY Recorded DEF ReplInv, ExitLeavesNoWorker, Sound, Unfinished, At
  <2> QED BY <2>1, <2>2, <2>3 DEF ReplIsSound
<1> QED BY <1>1, <1>2, ReplNextInv, PTL DEF Spec

(* Cancelling, interrupting, quitting and replacing the session stop what   *)
(* runs when they are asked for and nothing that starts later, on both      *)
(* hosts.                                                                   *)
THEOREM CancelsStopWhatRuns == Spec => []CancelsAreExact
<1>1. Init => HostInv /\ ReplInv
  BY HostStarts, ReplStarts DEF Init
<1>2. HostInv /\ ReplInv => CancelsAreExact
  <2>1. HostInv => CancelIsExact
    BY DEF HostInv, CancelInv
  <2>2. ReplInv => StopIsExact
    BY Recorded DEF StopIsExact, Sound, Unfinished
  <2> QED BY <2>1, <2>2 DEF CancelsAreExact
<1>3. HostInv /\ ReplInv /\ [Next]_vars => HostInv' /\ ReplInv'
  BY HostNextInv, ReplNextInv
<1> QED BY <1>1, <1>2, <1>3, PTL DEF Spec

-----------------------------------------------------------------------------
(* The agents of a tree                                                     *)

AllExist(s) == \A a \in Agent : ParentOf[a] = s => a \in Existing

(* What a thread that is about to start agent a's next chain relies on.     *)
MayStart(a) ==
  Dormant(a) /\ (AllExist(ParentOf[a]) => RunningCount(ParentOf[a]) < MaxPerParent)

(* What a worker at its place knows: a wake attempt has a purpose and a     *)
(* target once it has named one; who creates a subagent is its parent.      *)
Placed(w) ==
  /\ pc[w] \in {"peek", "named", "held"} => purpose[w] \in {"send", "relay", "exit"}
  /\ pc[w] \in {"named", "held"} => target[w] \in Agent
  /\ pc[w] = "create" => target[w] \in Agent /\ ParentOf[target[w]] = w[1] /\ chain[target[w]] = 0

(* A chain has a worker once it is dispatched, the newest alone drives its  *)
(* agent, and the agents of the beginning have had a chain.                 *)
ChainsInv ==
  /\ OneChainPerAgent
  /\ \A a \in Agent : \A n \in 1..MaxChains : n > chain[a] => pc[<<a, n>>] = "none"
  /\ \A a \in Agent : chain[a] = 0 <=> state[a] = "absent"
  /\ \A a \in Existing : chain[a] > 0
  /\ pc[RootWorker] \notin {"ending", "relay"}
  /\ \A w \in Worker : Placed(w)

(* Who holds a parent's dispatch guard will start a subagent of it or       *)
(* finish one; until then nobody else takes the slot it has found.          *)
GuardsInv ==
  /\ \A w \in Worker : pc[w] = "held" => guard[ParentOf[target[w]]] = w /\ MayStart(target[w])
  /\ \A w \in Worker : pc[w] = "ending" => guard[ParentOf[w[1]]] = w
  /\ human.to # None => guard[ParentOf[human.to]] = Outside /\ MayStart(human.to)

AgentsInv == AgentsTypeOK /\ ChainsInv /\ GuardsInv /\ PerParentLimit

LEMMA WorkerParts ==
  /\ RootWorker \in Worker
  /\ \A w \in Worker : w # RootWorker =>
       w[1] \in Agent /\ w[2] \in 1..MaxChains /\ w = <<w[1], w[2]>>
  /\ \A w \in Worker : w[1] \in Session /\ (w[1] = Root <=> w = RootWorker)
  /\ \A a \in Agent : \A n \in 1..MaxChains : <<a, n>> \in Worker /\ <<a, n>> # RootWorker
BY MessagingAssumption DEF Worker, RootWorker, Session

LEMMA ParentIsSession ==
  ASSUME AgentsTypeOK
  PROVE  /\ ParentOf \in [Agent -> Session] /\ Existing \subseteq Agent
         /\ None \notin Worker /\ None # Outside /\ Outside \notin Worker /\ None \notin Agent
BY MessagingAssumption DEF AgentsTypeOK, ParentOf, Existing, Session

(* Which of two places of a set comes first shows in how many places come   *)
(* before them.                                                             *)
LEMMA RanksDiffer ==
  ASSUME NEW n \in Nat, NEW I \in SUBSET (1..n), NEW i \in I, NEW k \in I, i < k
  PROVE  Cardinality({j \in I : j < i}) < Cardinality({j \in I : j < k})
<1> DEFINE below == {j \in I : j < i}
           belowK == {j \in I : j < k}
<1>1. IsFiniteSet(1..n) /\ 1 \in Int /\ n \in Int
  BY FS_Interval
<1>2. IsFiniteSet(below) /\ IsFiniteSet(belowK)
  <2>1. below \in SUBSET (1..n) /\ belowK \in SUBSET (1..n)
    OBVIOUS
  <2> QED BY <1>1, <2>1, FS_Subset
<1>3. below \cup {i} \subseteq belowK /\ i \notin below
  <2>1. \A j \in I : j \in Nat
    OBVIOUS
  <2>2. \A j \in I : j < i => j < k
    BY <2>1
  <2>3. ~ (i < i)
    BY <2>1
  <2> QED BY <2>2, <2>3
<1>4. Cardinality(below \cup {i}) = Cardinality(below) + 1
  BY <1>2, <1>3, FS_AddElement
<1>5. Cardinality(below \cup {i}) <= Cardinality(belowK)
  BY <1>2, <1>3, FS_Subset
<1>6. Cardinality(below) \in Nat /\ Cardinality(belowK) \in Nat
  BY <1>2, FS_CardinalityType
<1> QED BY <1>4, <1>5, <1>6

(* Every rank below the number of places is that of one of them.            *)
LEMMA RanksAreTaken ==
  ASSUME NEW n \in Nat, NEW I \in SUBSET (1..n), NEW k \in 1..Cardinality(I)
  PROVE  \E i \in I : Cardinality({j \in I : j < i}) = k - 1
<1> DEFINE rank == [i \in I |-> Cardinality({j \in I : j < i})]
           c == Cardinality(I)
<1>1. IsFiniteSet(1..n) /\ 1 \in Int /\ n \in Int
  BY FS_Interval
<1>2. IsFiniteSet(I) /\ c \in Nat
  BY <1>1, FS_Subset, FS_CardinalityType
<1>3. \A i \in I : rank[i] \in 0..(c - 1)
  <2> SUFFICES ASSUME NEW i \in I
               PROVE  Cardinality({j \in I : j < i}) \in 0..(c - 1)
    OBVIOUS
  <2> DEFINE below == {j \in I : j < i}
  <2>1. IsFiniteSet(below) /\ Cardinality(below) \in Nat
    <3>1. below \subseteq I
      OBVIOUS
    <3> QED BY <1>2, <3>1, FS_Subset, FS_CardinalityType
  <2>2. below \subseteq I \ {i}
    BY <1>1
  <2>3. IsFiniteSet(I \ {i}) /\ Cardinality(I \ {i}) = c - 1
    BY <1>2, FS_RemoveElement
  <2>4. Cardinality(below) <= c - 1
    BY <2>2, <2>3, FS_Subset
  <2> QED BY <1>2, <2>1, <2>4
<1>4. rank \in Injection(I, 0..(c - 1))
  <2>1. rank \in [I -> 0..(c - 1)]
    BY <1>3
  <2>2. ASSUME NEW i \in I, NEW j \in I, rank[i] = rank[j] PROVE i = j
    <3>1. i \in Nat /\ j \in Nat
      OBVIOUS
    <3>2. rank[i] \in Nat /\ rank[j] \in Nat
      BY <1>3
    <3>3. CASE i < j
      <4>1. Cardinality({l \in I : l < i}) < Cardinality({l \in I : l < j})
        BY <3>3, RanksDiffer
      <4> QED BY <2>2, <3>2, <4>1
    <3>4. CASE j < i
      <4>1. Cardinality({l \in I : l < j}) < Cardinality({l \in I : l < i})
        BY <3>4, RanksDiffer
      <4> QED BY <2>2, <3>2, <4>1
    <3> QED BY <3>1, <3>3, <3>4
  <2> QED BY <2>1, <2>2 DEF Injection, IsInjective
<1>5. IsFiniteSet(0..(c - 1)) /\ Cardinality(0..(c - 1)) = c
  <2>1. 0 \in Int /\ c - 1 \in Int
    BY <1>2
  <2>2. IsFiniteSet(0..(c - 1)) /\ Cardinality(0..(c - 1)) = IF 0 > c - 1 THEN 0 ELSE c - 1 - 0 + 1
    BY <2>1, FS_Interval
  <2> QED BY <1>2, <2>2
<1>6. rank \in Surjection(I, 0..(c - 1))
  BY <1>4, <1>5, FS_Injection
<1>7. k - 1 \in 0..(c - 1)
  BY <1>2
<1>8. \E i \in I : rank[i] = k - 1
  BY <1>6, <1>7 DEF Surjection
<1> QED BY <1>8

(* Entries lists what is at the places, each once.                          *)
LEMMA EntriesListPlaces ==
  ASSUME NEW S, queue \in Seq(S), NEW I \in SUBSET (1..Len(queue))
  PROVE  /\ Entries(I) \in Seq(S) /\ Len(Entries(I)) = Cardinality(I) /\ Cardinality(I) \in Nat
         /\ \E at \in Bijection(1..Cardinality(I), I) :
              \A k \in 1..Cardinality(I) : Entries(I)[k] = queue[at[k]]
<1> DEFINE n == Len(queue)
           c == Cardinality(I)
           Rank(i) == Cardinality({j \in I : j < i})
           at == [k \in 1..c |-> CHOOSE i \in I : Rank(i) = k - 1]
<1>1. n \in Nat /\ 1 \in Int /\ n \in Int /\ IsFiniteSet(1..n)
  <2>1. n \in Nat
    OBVIOUS
  <2> QED BY <2>1, FS_Interval
<1>2. IsFiniteSet(I) /\ c \in Nat
  BY <1>1, FS_Subset, FS_CardinalityType
<1>3. \A k \in 1..c : at[k] \in I /\ Rank(at[k]) = k - 1
  BY <1>1, RanksAreTaken
<1> HIDE DEF Rank
<1>4. at \in Injection(1..c, I)
  <2>1. at \in [1..c -> I]
    BY <1>3
  <2>2. ASSUME NEW k \in 1..c, NEW l \in 1..c, at[k] = at[l] PROVE k = l
    <3>1. k - 1 = l - 1
      BY <1>3, <2>2
    <3> QED BY <1>2, <3>1
  <2> QED BY <2>1, <2>2 DEF Injection, IsInjective
<1>5. at \in Bijection(1..c, I)
  <2>1. Cardinality(1..c) = c
    BY <1>2, FS_Interval
  <2> QED BY <1>2, <1>4, <2>1, FS_Injection DEF Bijection
<1>6. Entries(I) = [k \in 1..c |-> queue[at[k]]]
  BY DEF Entries, Rank
<1>7. \A k \in 1..c : queue[at[k]] \in S
  <2>1. \A i \in 1..Len(queue) : queue[i] \in S
    OBVIOUS
  <2>2. \A k \in 1..c : at[k] \in 1..Len(queue)
    BY <1>3
  <2> QED BY <2>1, <2>2
<1> HIDE DEF at
<1> QED BY <1>2, <1>5, <1>6, <1>7

LEMMA WithoutIsTyped ==
  ASSUME AgentsTypeOK, NEW s
  PROVE  Without(s) \in Seq(Message) /\ For(s) \in Seq(Message)
BY EntriesListPlaces DEF AgentsTypeOK, Without, For, PlacesOf

(* Types                                                                    *)

LEMMA HandedIsTyped ==
  ASSUME AgentsTypeOK, NEW seq, Hand(seq)
  PROVE  got' \in [Message -> Nat]
BY DEF AgentsTypeOK, Hand

LEMMA StartedIsTyped ==
  ASSUME AgentsTypeOK, NEW a \in Agent, Started(a)
  PROVE  /\ chain' \in [Agent -> 0..MaxChains]
         /\ state' \in [Agent -> {"absent", "running", "finished", "stopped"}]
         /\ NewWorker(a) \in Worker /\ NewWorker(a) # RootWorker
         /\ chain[a] \in Nat /\ chain[a] + 1 \in 1..MaxChains
BY MessagingAssumption, WorkerParts DEF AgentsTypeOK, Started, NewWorker

(* Where a wake attempt of w goes on, and that it changes nobody else.      *)
LEMMA WakeReturnsTo ==
  ASSUME AgentsTypeOK, NEW w \in Worker, purpose[w] \in {"send", "relay", "exit"}, NEW newPc,
         newPc \in [Worker -> {"none", "idle", "turn", "create", "peek", "named", "held",
                               "ending", "relay", "done"}],
         WakeReturns(w, newPc)
  PROVE  /\ pc' \in [Worker -> {"none", "idle", "turn", "create", "peek", "named", "held",
                                "ending", "relay", "done"}]
         /\ purpose' \in [Worker -> {"none", "send", "relay", "exit"}]
         /\ target' \in [Worker -> Agent \cup {None}]
         /\ \/ purpose[w] = "send" /\ pc'[w] = "turn" /\ purpose'[w] = "none"
            \/ purpose[w] = "relay" /\ pc'[w] = "peek" /\ purpose'[w] = "exit"
            \/ purpose[w] = "exit" /\ pc'[w] = "done" /\ purpose'[w] = "none"
         /\ \A v \in Worker : v # w =>
              pc'[v] = newPc[v] /\ purpose'[v] = purpose[v] /\ target'[v] = target[v]
<1> DEFINE to_ == CASE purpose[w] = "send" -> "turn"
                    [] purpose[w] = "relay" -> "peek"
                    [] purpose[w] = "exit" -> "done"
<1>1. /\ purpose[w] = "send" => to_ = "turn"
      /\ purpose[w] = "relay" => to_ = "peek"
      /\ purpose[w] = "exit" => to_ = "done"
  OBVIOUS
<1>2. pc' = [newPc EXCEPT ![w] = to_]
  BY DEF WakeReturns
<1> HIDE DEF to_
<1>3. /\ pc' \in [Worker -> {"none", "idle", "turn", "create", "peek", "named", "held",
                             "ending", "relay", "done"}]
      /\ pc'[w] = to_ /\ \A v \in Worker : v # w => pc'[v] = newPc[v]
  BY <1>1, <1>2
<1>4. /\ purpose' \in [Worker -> {"none", "send", "relay", "exit"}]
      /\ purpose'[w] = (IF purpose[w] = "relay" THEN "exit" ELSE "none")
      /\ \A v \in Worker : v # w => purpose'[v] = purpose[v]
  BY DEF WakeReturns, AgentsTypeOK
<1>5. /\ target' \in [Worker -> Agent \cup {None}]
      /\ \A v \in Worker : v # w => target'[v] = target[v]
  BY DEF WakeReturns, AgentsTypeOK
<1> QED BY <1>1, <1>3, <1>4, <1>5

LEMMA SomePlaceIsFirst ==
  ASSUME NEW n \in Nat, NEW I \in SUBSET (1..n), I # {}
  PROVE  \E i \in I : \A j \in I : i <= j
<1>1. IsFiniteSet(1..n)
  <2>1. 1 \in Int /\ n \in Int
    OBVIOUS
  <2> QED BY <2>1, FS_Interval
<1>2. IsFiniteSet(I) /\ Cardinality(I) \in Nat /\ Cardinality(I) # 0
  BY <1>1, FS_Subset, FS_CardinalityType, FS_EmptySet
<1>3. PICK i \in I : Cardinality({j \in I : j < i}) = 0
  <2>1. 1 \in 1..Cardinality(I)
    BY <1>2
  <2>2. \E i \in I : Cardinality({j \in I : j < i}) = 1 - 1
    BY <2>1, RanksAreTaken
  <2> QED BY <2>2
<1>4. {j \in I : j < i} = {}
  <2>1. IsFiniteSet({j \in I : j < i})
    <3>1. {j \in I : j < i} \in SUBSET I
      OBVIOUS
    <3> QED BY <1>2, <3>1, FS_Subset
  <2> QED BY <1>3, <2>1, FS_EmptySet
<1>5. \A j \in I : i \in Nat /\ j \in Nat /\ ~(j < i)
  BY <1>4
<1> QED BY <1>5

LEMMA CandidateIsAgent ==
  ASSUME AgentsTypeOK, Candidates # {}
  PROVE  Candidate \in Agent
<1>1. Len(queue) \in Nat /\ Candidates \in SUBSET (1..Len(queue))
  BY DEF AgentsTypeOK, Candidates
<1>2. \E i \in Candidates : \A j \in Candidates : i <= j
  BY <1>1, SomePlaceIsFirst
<1>3. Oldest \in Candidates
  BY <1>2 DEF Oldest
<1> QED BY <1>3 DEF Candidates, Candidate

LEMMA CreateIsTyped ==
  ASSUME AgentsInv, NEW w \in Worker,
         CreateRegister(w) \/ \E a \in Agent : CreateCheck(w, a)
  PROVE  AgentsTypeOK'
<1> USE DEF AgentsTypeOK
<1>1. CASE CreateRegister(w)
  <2>1. target[w] \in Agent
    BY <1>1 DEF AgentsInv, ChainsInv, Placed, CreateRegister
  <2> QED BY <1>1, <2>1, StartedIsTyped DEF AgentsInv, CreateRegister
<1>2. ASSUME NEW a \in Agent, CreateCheck(w, a) PROVE AgentsTypeOK'
  BY <1>2 DEF AgentsInv, CreateCheck
<1> QED BY <1>1, <1>2

LEMMA MessagesAreTyped ==
  ASSUME AgentsInv, NEW w \in Worker,
         \/ \E m \in Message : SendToIdleRoot(w, m) \/ Relay(w, m)
         \/ \E m \in Message, s \in Session : Send(w, m, s)
         \/ GetMessages(w) \/ DrainLocal(w)
  PROVE  AgentsTypeOK'
<1> USE DEF AgentsInv
<1>1. ASSUME NEW m \in Message, SendToIdleRoot(w, m) PROVE AgentsTypeOK'
  BY <1>1, HandedIsTyped, WorkerParts DEF AgentsTypeOK, SendToIdleRoot, Session
<1>2. ASSUME NEW m \in Message, Relay(w, m) PROVE AgentsTypeOK'
  <2>1. w # RootWorker
    BY <1>2 DEF Relay, ChainsInv
  <2>2. ParentOf[w[1]] \in Session
    BY <2>1, ParentIsSession, WorkerParts
  <2>3. /\ queue' = Append(queue, m) /\ to' = [to EXCEPT ![m] = ParentOf[w[1]]]
        /\ pc' = [pc EXCEPT ![w] = "peek"] /\ purpose' = [purpose EXCEPT ![w] = "relay"]
        /\ UNCHANGED <<setup, chain, state, local, guard, target, human, nudges, got>>
    BY <1>2 DEF Relay, TryWake
  <2> QED BY <2>2, <2>3 DEF AgentsTypeOK
<1>3. ASSUME NEW m \in Message, NEW s \in Session, Send(w, m, s) PROVE AgentsTypeOK'
  BY <1>3 DEF AgentsTypeOK, Send, TryWake
<1>4. CASE GetMessages(w)
  BY <1>4, HandedIsTyped, WithoutIsTyped DEF AgentsTypeOK, GetMessages
<1>5. CASE DrainLocal(w)
  <2>1. w[1] \in Agent
    BY <1>5, WorkerParts DEF DrainLocal
  <2>2. <<>> \in Seq(Message)
    OBVIOUS
  <2> QED BY <1>5, <2>1, <2>2, HandedIsTyped DEF AgentsTypeOK, DrainLocal
<1> QED BY <1>1, <1>2, <1>3, <1>4, <1>5

LEMMA WakesAreTyped ==
  ASSUME AgentsInv, NEW w \in Worker, WakeStep(w)
  PROVE  AgentsTypeOK'
<1> USE DEF AgentsInv
<1>1. purpose[w] \in {"send", "relay", "exit"}
  BY DEF WakeStep, WakePeek, WakeCheck, WakeDispatch, ChainsInv, Placed
<1>2. CASE WakePeek(w)
  <2>1. CASE Candidates = {}
    <3>1. WakeReturns(w, pc) /\ UNCHANGED <<setup, chain, state, queue, to, local, guard, human, nudges, got>>
      BY <1>2, <2>1 DEF WakePeek
    <3> QED BY <1>1, <3>1, WakeReturnsTo DEF AgentsTypeOK
  <2>2. CASE Candidates # {}
    BY <1>2, <2>2, CandidateIsAgent DEF AgentsTypeOK, WakePeek
  <2> QED BY <2>1, <2>2
<1>3. CASE WakeCheck(w)
  <2>1. target[w] \in Agent /\ ParentOf[target[w]] \in Session
    BY <1>3, ParentIsSession DEF ChainsInv, Placed, WakeCheck
  <2>2. CASE Wakeable(target[w])
    <3>1. /\ guard' = [guard EXCEPT ![ParentOf[target[w]]] = w]
          /\ pc' = [pc EXCEPT ![w] = "held"]
          /\ UNCHANGED <<setup, purpose, target, chain, state, queue, to, local, human, nudges, got>>
      BY <1>3, <2>2 DEF WakeCheck
    <3> QED BY <2>1, <3>1 DEF AgentsTypeOK
  <2>3. CASE ~Wakeable(target[w])
    <3>1. WakeReturns(w, pc) /\ UNCHANGED <<setup, chain, state, queue, to, local, guard, human, nudges, got>>
      BY <1>3, <2>3 DEF WakeCheck
    <3> QED BY <1>1, <3>1, WakeReturnsTo DEF AgentsTypeOK
  <2> QED BY <2>2, <2>3
<1>4. CASE WakeDispatch(w)
  <2> DEFINE a == target[w]
  <2>1. a \in Agent /\ ParentOf[a] \in Session
    BY <1>4, ParentIsSession DEF ChainsInv, Placed, WakeDispatch
  <2>2. /\ guard' = [guard EXCEPT ![ParentOf[a]] = None]
        /\ UNCHANGED <<setup, to, local, human, nudges>>
    BY <1>4 DEF WakeDispatch
  <2>3. CASE HasPending(a)
    <3>1. /\ Started(a) /\ Hand(For(a)) /\ queue' = Without(a)
          /\ WakeReturns(w, [pc EXCEPT ![NewWorker(a)] = "turn"])
      BY <1>4, <2>3 DEF WakeDispatch
    <3>2. [pc EXCEPT ![NewWorker(a)] = "turn"] \in
             [Worker -> {"none", "idle", "turn", "create", "peek", "named", "held", "ending", "relay", "done"}]
      BY DEF AgentsTypeOK
    <3>3. /\ pc' \in [Worker -> {"none", "idle", "turn", "create", "peek", "named", "held",
                                 "ending", "relay", "done"}]
          /\ purpose' \in [Worker -> {"none", "send", "relay", "exit"}]
          /\ target' \in [Worker -> Agent \cup {None}]
      BY <1>1, <3>1, <3>2, WakeReturnsTo
    <3>4. queue' \in Seq(Message) /\ got' \in [Message -> Nat]
      BY <3>1, WithoutIsTyped, HandedIsTyped
    <3>5. /\ chain' \in [Agent -> 0..MaxChains]
          /\ state' \in [Agent -> {"absent", "running", "finished", "stopped"}]
      BY <2>1, <3>1, StartedIsTyped
    <3> QED BY <2>2, <3>3, <3>4, <3>5 DEF AgentsTypeOK
  <2>4. CASE ~HasPending(a)
    <3>1. WakeReturns(w, pc) /\ UNCHANGED <<chain, state, queue, got>>
      BY <1>4, <2>4 DEF WakeDispatch
    <3> QED BY <1>1, <2>2, <3>1, WakeReturnsTo DEF AgentsTypeOK
  <2> QED BY <2>3, <2>4
<1> QED BY <1>2, <1>3, <1>4 DEF WakeStep

LEMMA EndsAreTyped ==
  ASSUME AgentsInv, NEW w \in Worker, EndStep(w) \/ EndStopped(w)
  PROVE  AgentsTypeOK'
<1> USE DEF AgentsInv
<1>1. CASE EndDrain(w)
  <2>1. w[1] \in Agent /\ ParentOf[w[1]] \in Session
    BY <1>1, WorkerParts, ParentIsSession DEF EndDrain
  <2>2. UNCHANGED <<setup, chain, state, to, purpose, target, human, nudges>>
    BY <1>1 DEF EndDrain
  <2>3. \/ /\ Hand(local[w[1]]) /\ local' = [local EXCEPT ![w[1]] = <<>>]
           /\ UNCHANGED <<guard, pc, queue>>
        \/ /\ Hand(For(w[1])) /\ queue' = Without(w[1])
           /\ UNCHANGED <<guard, pc, local>>
        \/ /\ guard' = [guard EXCEPT ![ParentOf[w[1]]] = w]
           /\ pc' = [pc EXCEPT ![w] = "ending"]
           /\ UNCHANGED <<local, got, queue>>
    BY <1>1 DEF EndDrain
  <2>4. got' \in [Message -> Nat]
    BY <2>3, HandedIsTyped DEF AgentsTypeOK
  <2>5. queue' \in Seq(Message)
    BY <2>3, WithoutIsTyped DEF AgentsTypeOK
  <2>6. local' \in [Agent -> Seq(Message)]
    <3>1. <<>> \in Seq(Message)
      OBVIOUS
    <3> QED BY <2>3, <3>1 DEF AgentsTypeOK
  <2>7. guard' \in [Session -> Worker \cup {Outside, None}]
    BY <2>1, <2>3 DEF AgentsTypeOK
  <2>8. pc' \in [Worker -> {"none", "idle", "turn", "create", "peek", "named", "held",
                           "ending", "relay", "done"}]
    BY <2>3 DEF AgentsTypeOK
  <2> QED BY <2>2, <2>4, <2>5, <2>6, <2>7, <2>8 DEF AgentsTypeOK
<1>2. CASE EndMark(w)
  BY <1>2 DEF AgentsTypeOK, EndMark
<1>3. CASE NoRelay(w)
  BY <1>3 DEF AgentsTypeOK, NoRelay, TryWake
<1>4. CASE EndStopped(w)
  BY <1>4 DEF AgentsTypeOK, EndStopped
<1> QED BY <1>1, <1>2, <1>3, <1>4 DEF EndStep

LEMMA OutsideIsTyped ==
  ASSUME AgentsInv, NEW a \in Agent,
         NudgeCheck(a) \/ \E m \in Message : DirectToRunning(a, m) \/ DirectCheck(a, m)
  PROVE  AgentsTypeOK'
<1> USE DEF AgentsInv
<1>1. ASSUME NEW m \in Message, DirectToRunning(a, m) PROVE AgentsTypeOK'
  BY <1>1 DEF AgentsTypeOK, DirectToRunning, Session
<1>2. ASSUME NEW m \in Message, DirectCheck(a, m) PROVE AgentsTypeOK'
  BY <1>2, ParentIsSession DEF AgentsTypeOK, DirectCheck, Session
<1>3. CASE NudgeCheck(a)
  BY <1>3, ParentIsSession, MessagingAssumption DEF AgentsTypeOK, NudgeCheck
<1> QED BY <1>1, <1>2, <1>3

(* Chains                                                                   *)

LEMMA SameTree ==
  ASSUME setup' = setup
  PROVE  ParentOf' = ParentOf /\ Existing' = Existing /\ \A s : AllExist(s)' <=> AllExist(s)
BY DEF ParentOf, Existing, AllExist

(* Nobody starts or ends: who drives which agent stays as it was.           *)
LEMMA ChainsStayAsTheyAre ==
  ASSUME AgentsTypeOK, ChainsInv, UNCHANGED <<setup, chain, state>>,
         \A w \in Worker : /\ w # RootWorker => (InTurn(w)' <=> InTurn(w))
                           /\ pc[w] = "none" => pc'[w] = "none"
                           /\ Placed(w)',
         pc'[RootWorker] \notin {"ending", "relay"}
  PROVE  ChainsInv'
<1>1. \A a \in Agent : (Running(a)' <=> Running(a)) /\ CurrentWorker(a)' = CurrentWorker(a)
  BY DEF Running, CurrentWorker
<1>2. \A a \in Agent : chain[a] > 0 => CurrentWorker(a) \in Worker \ {RootWorker}
  BY WorkerParts, MessagingAssumption DEF AgentsTypeOK, CurrentWorker
<1>3. OneChainPerAgent'
  BY <1>1, <1>2, WorkerParts DEF OneChainPerAgent, ChainsInv
<1>4. \A a \in Agent : \A n \in 1..MaxChains : n > chain'[a] => pc'[<<a, n>>] = "none"
  BY WorkerParts DEF ChainsInv
<1> QED BY <1>3, <1>4, SameTree DEF ChainsInv

(* A worker moves on within its turn or outside of it.                      *)
LEMMA AgentMovesOn ==
  ASSUME AgentsTypeOK, ChainsInv, NEW w \in Worker, UNCHANGED <<setup, chain, state>>,
         \A v \in Worker : v # w => pc'[v] = pc[v] /\ purpose'[v] = purpose[v] /\ target'[v] = target[v],
         w # RootWorker => (InTurn(w)' <=> InTurn(w)), pc[w] # "none", Placed(w)',
         w = RootWorker => pc'[w] \notin {"ending", "relay"}
  PROVE  ChainsInv'
<1>1. \A v \in Worker : v # w => (InTurn(v)' <=> InTurn(v)) /\ Placed(v)'
  <2> SUFFICES ASSUME NEW v \in Worker, v # w
               PROVE  (InTurn(v)' <=> InTurn(v)) /\ Placed(v)'
    OBVIOUS
  <2>1. pc'[v] = pc[v] /\ purpose'[v] = purpose[v] /\ target'[v] = target[v] /\ Placed(v)
    BY DEF ChainsInv
  <2> QED BY <2>1, SameTree DEF InTurn, Placed
<1>2. pc'[RootWorker] \notin {"ending", "relay"}
  BY WorkerParts DEF ChainsInv
<1>3. \A v \in Worker : /\ v # RootWorker => (InTurn(v)' <=> InTurn(v))
                        /\ pc[v] = "none" => pc'[v] = "none"
                        /\ Placed(v)'
  <2> SUFFICES ASSUME NEW v \in Worker
               PROVE  /\ v # RootWorker => (InTurn(v)' <=> InTurn(v))
                      /\ pc[v] = "none" => pc'[v] = "none"
                      /\ Placed(v)'
    OBVIOUS
  <2>1. CASE v = w
    BY <2>1
  <2>2. CASE v # w
    BY <1>1, <2>2
  <2> QED BY <2>1, <2>2
<1> QED BY <1>2, <1>3, ChainsStayAsTheyAre

LEMMA DriverIsNewest ==
  ASSUME AgentsTypeOK, ChainsInv, NEW w \in Worker, InTurn(w), w # RootWorker
  PROVE  /\ w[1] \in Agent /\ w = <<w[1], chain[w[1]]>> /\ chain[w[1]] > 0 /\ Running(w[1])
<1>1. w[1] \in Agent /\ w[2] \in 1..MaxChains /\ w = <<w[1], w[2]>>
  BY WorkerParts
<1>2. w[2] = chain[w[1]]
  BY <1>1 DEF ChainsInv, OneChainPerAgent
<1> QED BY <1>1, <1>2 DEF ChainsInv, OneChainPerAgent, CurrentWorker

(* A worker ends its turn and its agent's chain with it.                    *)
LEMMA ChainEnds ==
  ASSUME AgentsTypeOK, ChainsInv, NEW w \in Worker, w # RootWorker, InTurn(w),
         NEW end \in {"finished", "stopped"},
         state' = [state EXCEPT ![w[1]] = end], pc' = [pc EXCEPT ![w] = "relay"],
         UNCHANGED <<setup, chain, purpose, target>>
  PROVE  ChainsInv'
<1> DEFINE a == w[1]
<1>1. a \in Agent /\ w = <<a, chain[a]>> /\ chain[a] > 0 /\ chain[a] \in 1..MaxChains
  BY DriverIsNewest, MessagingAssumption DEF AgentsTypeOK
<1>2. pc'[w] = "relay" /\ ~InTurn(w)' /\ \A v \in Worker : v # w => pc'[v] = pc[v]
  BY DEF AgentsTypeOK, InTurn, RunningPC
<1>3. \A v \in Worker : v # w => (InTurn(v)' <=> InTurn(v)) /\ Placed(v)'
  BY <1>2, SameTree DEF InTurn, ChainsInv, Placed
<1>4. Placed(w)'
  BY <1>2 DEF Placed
<1>5. /\ state'[a] = end /\ ~Running(a)'
      /\ \A b \in Agent : b # a => state'[b] = state[b] /\ (Running(b)' <=> Running(b))
  BY <1>1 DEF AgentsTypeOK, Running
<1>6. OneChainPerAgent'
  <2> SUFFICES ASSUME NEW b \in Agent
               PROVE  /\ \A n \in 1..MaxChains : InTurn(<<b, n>>)' => n = chain[b]
                      /\ Running(b)' <=> chain[b] > 0 /\ InTurn(<<b, chain[b]>>)'
    BY DEF OneChainPerAgent, CurrentWorker
  <2>1. \A n \in 1..MaxChains : InTurn(<<b, n>>) => n = chain[b]
    BY DEF ChainsInv, OneChainPerAgent
  <2>2. \A n \in 1..MaxChains : InTurn(<<b, n>>)' => n = chain[b]
    BY <1>2, <1>3, <2>1, WorkerParts
  <2>3. CASE b = a
    BY <1>1, <1>2, <1>5, <2>2, <2>3
  <2>4. CASE b # a
    <3>1. chain[b] > 0 => <<b, chain[b]>> \in Worker /\ <<b, chain[b]>> # w
      BY <1>1, <2>4, WorkerParts, MessagingAssumption DEF AgentsTypeOK
    <3> QED BY <1>3, <1>5, <2>2, <2>4, <3>1 DEF ChainsInv, OneChainPerAgent, CurrentWorker
  <2> QED BY <2>3, <2>4
<1>7. \A b \in Agent : \A n \in 1..MaxChains : n > chain'[b] => pc'[<<b, n>>] = "none"
  <2> SUFFICES ASSUME NEW b \in Agent, NEW n \in 1..MaxChains, n > chain[b]
               PROVE  pc'[<<b, n>>] = "none"
    OBVIOUS
  <2>1. pc[<<b, n>>] = "none" /\ <<b, n>> \in Worker
    BY WorkerParts DEF ChainsInv
  <2>2. pc[w] # "none"
    BY DEF InTurn, RunningPC
  <2> QED BY <1>2, <2>1, <2>2
<1>8. \A b \in Agent : chain'[b] = 0 <=> state'[b] = "absent"
  BY <1>1, <1>5 DEF ChainsInv
<1>9. pc'[RootWorker] \notin {"ending", "relay"}
  BY <1>2, WorkerParts DEF ChainsInv
<1>10. (\A b \in Existing : chain[b] > 0)'
  BY SameTree DEF ChainsInv
<1> QED BY <1>3, <1>4, <1>6, <1>7, <1>8, <1>9, <1>10 DEF ChainsInv

(* An agent that does not run is given its next chain, by a thread that     *)
(* stays in its turn or outside.                                            *)
LEMMA ChainStarts ==
  ASSUME AgentsTypeOK, ChainsInv, NEW a \in Agent, Started(a), ~Running(a), setup' = setup,
         pc'[NewWorker(a)] = "turn",
         \A v \in Worker : v # NewWorker(a) =>
           (InTurn(v)' <=> InTurn(v)) /\ Placed(v)' /\ (pc[v] = "none" => pc'[v] = "none"),
         pc'[RootWorker] \notin {"ending", "relay"}
  PROVE  ChainsInv'
<1>n. PICK n \in 1..MaxChains : n = chain[a] + 1
  BY StartedIsTyped
<1>1. /\ <<a, n>> \in Worker /\ NewWorker(a) = <<a, n>> /\ chain[a] \in Nat
      /\ chain'[a] = n /\ \A b \in Agent : b # a => chain'[b] = chain[b]
      /\ state'[a] = "running" /\ \A b \in Agent : b # a => state'[b] = state[b]
  <2>1. <<a, n>> \in Worker /\ NewWorker(a) = <<a, n>> /\ chain[a] \in Nat
    BY <1>n, StartedIsTyped DEF NewWorker
  <2> QED BY <1>n, <2>1 DEF AgentsTypeOK, Started
<1>2. InTurn(<<a, n>>)' /\ Placed(<<a, n>>)'
  <2>1. pc'[<<a, n>>] = "turn"
    BY <1>1
  <2> QED BY <2>1 DEF InTurn, RunningPC, Placed
<1>0. \A v \in Worker : v # <<a, n>> =>
        (InTurn(v)' <=> InTurn(v)) /\ Placed(v)' /\ (pc[v] = "none" => pc'[v] = "none")
  BY <1>1
<1>3. \A k \in 1..MaxChains : ~InTurn(<<a, k>>)
  <2> SUFFICES ASSUME NEW k \in 1..MaxChains, InTurn(<<a, k>>)
               PROVE  FALSE
    OBVIOUS
  <2>1. <<a, k>> \in Worker /\ <<a, k>> # RootWorker /\ <<a, k>>[1] = a
    BY WorkerParts
  <2> QED BY <2>1, DriverIsNewest
<1>4. OneChainPerAgent'
  <2> SUFFICES ASSUME NEW b \in Agent
               PROVE  /\ \A k \in 1..MaxChains : InTurn(<<b, k>>)' => k = chain'[b]
                      /\ Running(b)' <=> chain'[b] > 0 /\ InTurn(CurrentWorker(b))'
    BY DEF OneChainPerAgent
  <2>1. CASE b = a
    <3>1. CurrentWorker(b)' = <<a, n>> /\ chain'[b] > 0
      BY <1>1, <2>1 DEF CurrentWorker
    <3>2. InTurn(CurrentWorker(b))' /\ Running(b)'
      BY <1>1, <1>2, <2>1, <3>1 DEF InTurn, Running
    <3>3. \A k \in 1..MaxChains : k # n => ~InTurn(<<b, k>>)'
      BY <1>0, <1>3, <2>1, WorkerParts
    <3> QED BY <1>1, <2>1, <3>1, <3>2, <3>3
  <2>2. CASE b # a
    <3>1. \A k \in 1..MaxChains : <<b, k>> \in Worker /\ <<b, k>> # <<a, n>>
      BY <2>2, WorkerParts
    <3>2. chain[b] \in 0..MaxChains /\ chain'[b] = chain[b]
      BY <1>1, <2>2 DEF AgentsTypeOK
    <3>3. Running(b)' <=> Running(b)
      BY <1>1, <2>2 DEF Running
    <3>4. \A k \in 1..MaxChains : InTurn(<<b, k>>)' <=> InTurn(<<b, k>>)
      BY <1>0, <3>1
    <3>5. PICK k \in 0..MaxChains : k = chain[b]
      BY <3>2
    <3>6. CurrentWorker(b)' = <<b, k>> /\ CurrentWorker(b) = <<b, k>>
      BY <3>2, <3>5 DEF CurrentWorker
    <3>7. k > 0 => (InTurn(CurrentWorker(b))' <=> InTurn(CurrentWorker(b)))
      <4> SUFFICES ASSUME k > 0 PROVE InTurn(CurrentWorker(b))' <=> InTurn(<<b, k>>)
        BY <3>6 DEF InTurn
      <4>1. k \in 1..MaxChains
        OBVIOUS
      <4> QED BY <3>4, <3>6, <4>1 DEF InTurn
    <3> QED BY <3>2, <3>3, <3>4, <3>5, <3>7 DEF ChainsInv, OneChainPerAgent
  <2> QED BY <2>1, <2>2
<1>5. \A b \in Agent : \A k \in 1..MaxChains : k > chain'[b] => pc'[<<b, k>>] = "none"
  <2> SUFFICES ASSUME NEW b \in Agent, NEW k \in 1..MaxChains, k > chain'[b]
               PROVE  pc'[<<b, k>>] = "none"
    OBVIOUS
  <2>1. chain[b] \in Nat
    BY DEF AgentsTypeOK
  <2>2. k > chain[b] /\ <<b, k>> # <<a, n>>
    <3>1. CASE b = a
      BY <1>1, <1>n, <2>1, <3>1
    <3>2. CASE b # a
      BY <1>1, <3>2
    <3> QED BY <3>1, <3>2
  <2>3. pc[<<b, k>>] = "none" /\ <<b, k>> \in Worker
    BY <2>2, WorkerParts DEF ChainsInv
  <2> QED BY <1>0, <2>2, <2>3
<1>6. \A b \in Agent : chain'[b] = 0 <=> state'[b] = "absent"
  BY <1>1 DEF ChainsInv
<1>7. (\A b \in Existing : chain[b] > 0)'
  <2>1. \A b \in Existing : b \in Agent
    BY ParentIsSession
  <2> QED BY <1>1, <2>1, SameTree DEF ChainsInv
<1>8. \A v \in Worker : Placed(v)'
  BY <1>0, <1>2
<1> QED BY <1>4, <1>5, <1>6, <1>7, <1>8 DEF ChainsInv

(* Guards and limits                                                        *)

LEMMA RunningIsCounted ==
  ASSUME NEW s
  PROVE  /\ IsFiniteSet({a \in Agent : ParentOf[a] = s /\ Running(a)})
         /\ RunningCount(s) \in Nat
<1> DEFINE S == {a \in Agent : ParentOf[a] = s /\ Running(a)}
<1>1. S \in SUBSET Agent
  OBVIOUS
<1>2. IsFiniteSet(S)
  BY <1>1, FS_Subset, MessagingAssumption
<1> QED BY <1>2, FS_CardinalityType DEF RunningCount

(* While no agent starts, counts do not grow.                               *)
LEMMA CountsShrink ==
  ASSUME setup' = setup, \A a \in Agent : Running(a)' => Running(a)
  PROVE  /\ PerParentLimit => PerParentLimit'
         /\ \A s : RunningCount(s)' \in Nat /\ RunningCount(s)' <= RunningCount(s)
<1>1. ASSUME NEW s
      PROVE  RunningCount(s)' \in Nat /\ RunningCount(s)' <= RunningCount(s)
  <2> DEFINE S == {a \in Agent : ParentOf[a] = s /\ Running(a)}
             T == {a \in Agent : ParentOf'[a] = s /\ Running(a)'}
  <2>1. T \in SUBSET S
    BY SameTree
  <2>2. IsFiniteSet(S) /\ RunningCount(s) = Cardinality(S)
    BY RunningIsCounted DEF RunningCount
  <2>3. RunningCount(s)' = Cardinality(T)
    BY DEF RunningCount
  <2>4. IsFiniteSet(T) /\ Cardinality(T) <= Cardinality(S)
    BY <2>1, <2>2, FS_Subset
  <2> QED BY <2>2, <2>3, <2>4, FS_CardinalityType
<1>2. ASSUME PerParentLimit, NEW s \in Session, AllExist(s) PROVE RunningCount(s)' <= MaxPerParent
  <2>1. RunningCount(s) <= MaxPerParent /\ RunningCount(s) \in Nat
    BY <1>2, RunningIsCounted DEF PerParentLimit, AllExist
  <2>2. RunningCount(s)' \in Nat /\ RunningCount(s)' <= RunningCount(s)
    BY <1>1
  <2>3. MaxPerParent \in Nat
    BY MessagingAssumption
  <2> QED BY <2>1, <2>2, <2>3
<1>3. PerParentLimit => PerParentLimit'
  BY <1>2, SameTree DEF PerParentLimit, AllExist
<1> QED BY <1>1, <1>3

(* An agent that starts is one more below its own parent, and only there.   *)
LEMMA StartCountsOne ==
  ASSUME AgentsTypeOK, NEW a \in Agent, Started(a), setup' = setup
  PROVE  \A s : /\ RunningCount(s)' \in Nat
                /\ RunningCount(s)' <= RunningCount(s) + 1
                /\ s # ParentOf[a] => RunningCount(s)' = RunningCount(s)
<1> SUFFICES ASSUME NEW s
             PROVE  /\ RunningCount(s)' \in Nat
                    /\ RunningCount(s)' <= RunningCount(s) + 1
                    /\ s # ParentOf[a] => RunningCount(s)' = RunningCount(s)
  OBVIOUS
<1> DEFINE S == {b \in Agent : ParentOf[b] = s /\ Running(b)}
           T == {b \in Agent : ParentOf'[b] = s /\ Running(b)'}
<1>1. \A b \in Agent : b # a => (Running(b)' <=> Running(b))
  BY DEF Started, AgentsTypeOK, Running
<1>2. T \in SUBSET (S \cup {a}) /\ (s # ParentOf[a] => T = S)
  BY <1>1, SameTree
<1>3. IsFiniteSet(S) /\ RunningCount(s) = Cardinality(S) /\ Cardinality(S) \in Nat
  BY RunningIsCounted DEF RunningCount
<1>4. RunningCount(s)' = Cardinality(T)
  BY DEF RunningCount
<1>5. IsFiniteSet(S \cup {a}) /\ Cardinality(S \cup {a}) <= Cardinality(S) + 1 /\ Cardinality(S \cup {a}) \in Nat
  BY <1>3, FS_AddElement
<1>6. IsFiniteSet(T) /\ Cardinality(T) <= Cardinality(S \cup {a}) /\ Cardinality(T) \in Nat
  BY <1>2, <1>5, FS_Subset, FS_CardinalityType
<1> QED BY <1>2, <1>3, <1>4, <1>5, <1>6

(* No agent starts, and none that was dormant is anything else now.         *)
LEMMA GuardsStay ==
  ASSUME AgentsInv, setup' = setup,
         \A a \in Agent : (Running(a)' => Running(a)) /\ (Dormant(a) => Dormant(a)'),
         \A w \in Worker : /\ pc'[w] = "held" => /\ target'[w] \in Agent /\ guard'[ParentOf[target'[w]]] = w
                                                 /\ MayStart(target'[w])
                           /\ pc'[w] = "ending" => guard'[ParentOf[w[1]]] = w,
         human'.to # None => human'.to \in Agent /\ guard'[ParentOf[human'.to]] = Outside /\ MayStart(human'.to)
  PROVE  GuardsInv' /\ PerParentLimit'
<1>1. ASSUME NEW a \in Agent, MayStart(a)
      PROVE  MayStart(a)'
  <2>1. PICK p : p = ParentOf[a]
    OBVIOUS
  <2>2. p = ParentOf'[a] /\ (AllExist(p)' <=> AllExist(p))
    BY <2>1, SameTree
  <2>3. RunningCount(p)' \in Nat /\ RunningCount(p)' <= RunningCount(p) /\ RunningCount(p) \in Nat
    BY CountsShrink, RunningIsCounted
  <2>4. AllExist(p) => RunningCount(p) < MaxPerParent
    BY <1>1, <2>1 DEF MayStart
  <2>5. AllExist(p)' => RunningCount(p)' < MaxPerParent
    BY <2>2, <2>3, <2>4, MessagingAssumption
  <2>6. Dormant(a)'
    BY <1>1 DEF MayStart
  <2> QED BY <2>2, <2>5, <2>6 DEF MayStart, RunningCount, AllExist
<1>2. \A w \in Worker : pc'[w] = "held" => guard'[ParentOf'[target'[w]]] = w /\ MayStart(target[w])'
  <2> SUFFICES ASSUME NEW w \in Worker, pc'[w] = "held"
               PROVE  guard'[ParentOf'[target'[w]]] = w /\ MayStart(target[w])'
    OBVIOUS
  <2>1. PICK a \in Agent : a = target'[w]
    OBVIOUS
  <2>2. guard'[ParentOf[a]] = w /\ MayStart(a)
    BY <2>1
  <2>3. MayStart(a)'
    BY <1>1, <2>2
  <2> QED BY <2>1, <2>2, <2>3, SameTree DEF MayStart, RunningCount, AllExist, Dormant
<1>3. GuardsInv'
  <2>1. \A w \in Worker : pc'[w] = "ending" => guard'[ParentOf'[w[1]]] = w
    BY SameTree
  <2>2. human'.to # None => guard'[ParentOf'[human'.to]] = Outside /\ MayStart(human.to)'
    <3> SUFFICES ASSUME human'.to # None
                 PROVE  guard'[ParentOf'[human'.to]] = Outside /\ MayStart(human.to)'
      OBVIOUS
    <3>1. PICK a \in Agent : a = human'.to
      OBVIOUS
    <3>2. guard'[ParentOf[a]] = Outside /\ MayStart(a)
      BY <3>1
    <3>3. MayStart(a)'
      BY <1>1, <3>2
    <3> QED BY <3>1, <3>2, <3>3, SameTree DEF MayStart, RunningCount, AllExist, Dormant
  <2> QED BY <1>2, <2>1, <2>2 DEF GuardsInv
<1>4. PerParentLimit'
  BY CountsShrink DEF AgentsInv
<1> QED BY <1>3, <1>4

(* What guards the others hold, w being the one that acts, stays theirs:    *)
(* nobody takes or releases a guard that another one has.                   *)
LEMMA OthersKeepGuards ==
  ASSUME AgentsInv, NEW w \in Worker \cup {Outside},
         \A v \in Worker : v # w => pc'[v] = pc[v] /\ target'[v] = target[v],
         \A s \in Session : guard'[s] = guard[s] \/ guard[s] \in {None, w}
  PROVE  /\ \A v \in Worker : v # w =>
              /\ pc'[v] = "held" => /\ target'[v] \in Agent /\ guard'[ParentOf[target'[v]]] = v
                                    /\ MayStart(target'[v])
              /\ pc'[v] = "ending" => guard'[ParentOf[v[1]]] = v
         /\ w # Outside /\ human.to # None =>
              human.to \in Agent /\ guard'[ParentOf[human.to]] = Outside /\ MayStart(human.to)
<1>1. ASSUME NEW v \in Worker, v # w, pc'[v] = "held"
      PROVE  target'[v] \in Agent /\ guard'[ParentOf[target'[v]]] = v /\ MayStart(target'[v])
  <2>1. pc[v] = "held" /\ target'[v] = target[v]
    BY <1>1
  <2>2. target[v] \in Agent /\ guard[ParentOf[target[v]]] = v /\ MayStart(target[v])
    BY <2>1 DEF AgentsInv, ChainsInv, GuardsInv, Placed
  <2>3. ParentOf[target[v]] \in Session /\ v # None
    BY <2>2, ParentIsSession DEF AgentsInv
  <2> QED BY <1>1, <2>1, <2>2, <2>3
<1>2. ASSUME NEW v \in Worker, v # w, pc'[v] = "ending"
      PROVE  guard'[ParentOf[v[1]]] = v
  <2>1. pc[v] = "ending" /\ guard[ParentOf[v[1]]] = v /\ v # RootWorker
    BY <1>2 DEF AgentsInv, GuardsInv, ChainsInv
  <2>2. ParentOf[v[1]] \in Session /\ v # None
    BY <2>1, WorkerParts, ParentIsSession DEF AgentsInv
  <2> QED BY <1>2, <2>1, <2>2
<1>3. ASSUME w # Outside, human.to # None
      PROVE  human.to \in Agent /\ guard'[ParentOf[human.to]] = Outside /\ MayStart(human.to)
  <2>1. human.to \in Agent /\ guard[ParentOf[human.to]] = Outside /\ MayStart(human.to)
    BY <1>3 DEF AgentsInv, GuardsInv, AgentsTypeOK
  <2>2. ParentOf[human.to] \in Session /\ None # Outside
    BY <2>1, ParentIsSession DEF AgentsInv
  <2> QED BY <1>3, <2>1, <2>2
<1> QED BY <1>1, <1>2, <1>3

(* A step of w starts and ends nothing.                                     *)
LEMMA SlotsStay ==
  ASSUME AgentsInv, AgentsTypeOK', NEW w \in Worker, UNCHANGED <<setup, chain, state, human>>,
         \A v \in Worker : v # w => pc'[v] = pc[v] /\ purpose'[v] = purpose[v] /\ target'[v] = target[v],
         w # RootWorker => (InTurn(w)' <=> InTurn(w)),
         pc[w] # "none", w = RootWorker => pc'[w] \notin {"ending", "relay"}, Placed(w)',
         \A s \in Session : guard'[s] = guard[s] \/ guard[s] \in {None, w},
         pc'[w] = "held" => /\ target'[w] \in Agent /\ guard'[ParentOf[target'[w]]] = w
                            /\ MayStart(target'[w]),
         pc'[w] = "ending" => guard'[ParentOf[w[1]]] = w
  PROVE  AgentsInv'
<1>1. ChainsInv'
  BY AgentMovesOn DEF AgentsInv
<1>2. w # Outside /\ w \in Worker \cup {Outside}
  BY ParentIsSession DEF AgentsInv
<1>3. /\ \A v \in Worker : v # w =>
           /\ pc'[v] = "held" => /\ target'[v] \in Agent /\ guard'[ParentOf[target'[v]]] = v
                                 /\ MayStart(target'[v])
           /\ pc'[v] = "ending" => guard'[ParentOf[v[1]]] = v
      /\ human'.to # None =>
           human'.to \in Agent /\ guard'[ParentOf[human'.to]] = Outside /\ MayStart(human'.to)
  BY <1>2, OthersKeepGuards
<1>4. \A a \in Agent : (Running(a)' => Running(a)) /\ (Dormant(a) => Dormant(a)')
  BY DEF Running, Dormant
<1>5. \A v \in Worker : /\ pc'[v] = "held" => /\ target'[v] \in Agent /\ guard'[ParentOf[target'[v]]] = v
                                              /\ MayStart(target'[v])
                        /\ pc'[v] = "ending" => guard'[ParentOf[v[1]]] = v
  BY <1>3
<1>6. GuardsInv' /\ PerParentLimit'
  BY <1>3, <1>4, <1>5, GuardsStay
<1> QED BY <1>1, <1>6 DEF AgentsInv

(* Nothing of what the invariant is about changes.                          *)
LEMMA SlotsUntouched ==
  ASSUME AgentsInv, AgentsTypeOK', UNCHANGED <<setup, chain, state, human, pc, purpose, target, guard>>
  PROVE  AgentsInv'
<1>2. \A w \in Worker : InTurn(w)' <=> InTurn(w)
  BY DEF InTurn
<1>3. \A w \in Worker : Placed(w)'
  BY SameTree DEF Placed, AgentsInv, ChainsInv
<1>4. ChainsInv'
  BY <1>2, <1>3, ChainsStayAsTheyAre DEF AgentsInv, ChainsInv
<1>5. \A a \in Agent : (Running(a)' => Running(a)) /\ (Dormant(a) => Dormant(a)')
  BY DEF Running, Dormant
<1>6. \A w \in Worker : /\ pc'[w] = "held" => /\ target'[w] \in Agent /\ guard'[ParentOf[target'[w]]] = w
                                              /\ MayStart(target'[w])
                        /\ pc'[w] = "ending" => guard'[ParentOf[w[1]]] = w
  BY DEF AgentsInv, GuardsInv, ChainsInv, Placed
<1>7. human'.to # None => human'.to \in Agent /\ guard'[ParentOf[human'.to]] = Outside /\ MayStart(human'.to)
  BY DEF AgentsInv, GuardsInv, AgentsTypeOK
<1>8. GuardsInv' /\ PerParentLimit'
  BY <1>5, <1>6, <1>7, GuardsStay
<1> QED BY <1>4, <1>8 DEF AgentsInv

LEMMA MessagesKeepSlots ==
  ASSUME AgentsInv, NEW w \in Worker,
         \/ \E m \in Message : SendToIdleRoot(w, m) \/ Relay(w, m)
         \/ \E m \in Message, s \in Session : Send(w, m, s)
         \/ GetMessages(w) \/ DrainLocal(w)
  PROVE  AgentsInv'
<1>t. AgentsTypeOK'
  BY MessagesAreTyped
<1>1. ASSUME NEW m \in Message, SendToIdleRoot(w, m) PROVE AgentsInv'
  <2>1. /\ pc[RootWorker] = "idle" /\ pc' = [pc EXCEPT ![RootWorker] = "turn"]
        /\ UNCHANGED <<setup, chain, state, human, purpose, target, guard>>
    BY <1>1 DEF SendToIdleRoot
  <2>2. RootWorker \in Worker /\ pc'[RootWorker] = "turn"
    BY <2>1, WorkerParts DEF AgentsInv, AgentsTypeOK
  <2>3. Placed(RootWorker)'
    BY <2>2 DEF Placed
  <2>4. \A v \in Worker : v # RootWorker => pc'[v] = pc[v] /\ purpose'[v] = purpose[v] /\ target'[v] = target[v]
    BY <2>1 DEF AgentsInv, AgentsTypeOK
  <2> QED BY <1>t, <2>1, <2>2, <2>3, <2>4, SlotsStay
<1>2. ASSUME NEW m \in Message, Relay(w, m) PROVE AgentsInv'
  <2>1. /\ pc[w] = "relay" /\ pc' = [pc EXCEPT ![w] = "peek"] /\ purpose' = [purpose EXCEPT ![w] = "relay"]
        /\ UNCHANGED <<setup, chain, state, human, target, guard>>
    BY <1>2 DEF Relay, TryWake
  <2>2. /\ pc'[w] = "peek" /\ purpose'[w] = "relay"
        /\ \A v \in Worker : v # w => pc'[v] = pc[v] /\ purpose'[v] = purpose[v] /\ target'[v] = target[v]
    BY <2>1 DEF AgentsInv, AgentsTypeOK
  <2>3. Placed(w)' /\ ~InTurn(w)' /\ ~InTurn(w)
    BY <2>1, <2>2 DEF Placed, InTurn, RunningPC
  <2> QED BY <1>t, <2>1, <2>2, <2>3, SlotsStay
<1>3. ASSUME NEW m \in Message, NEW s \in Session, Send(w, m, s) PROVE AgentsInv'
  <2>1. /\ pc[w] = "turn" /\ pc' = [pc EXCEPT ![w] = "peek"] /\ purpose' = [purpose EXCEPT ![w] = "send"]
        /\ UNCHANGED <<setup, chain, state, human, target, guard>>
    BY <1>3 DEF Send, TryWake
  <2>2. /\ pc'[w] = "peek" /\ purpose'[w] = "send"
        /\ \A v \in Worker : v # w => pc'[v] = pc[v] /\ purpose'[v] = purpose[v] /\ target'[v] = target[v]
    BY <2>1 DEF AgentsInv, AgentsTypeOK
  <2>3. Placed(w)' /\ InTurn(w)' /\ InTurn(w)
    BY <2>1, <2>2 DEF Placed, InTurn, RunningPC
  <2> QED BY <1>t, <2>1, <2>2, <2>3, SlotsStay
<1>4. CASE GetMessages(w) \/ DrainLocal(w)
  <2>1. UNCHANGED <<setup, chain, state, human, pc, purpose, target, guard>>
    BY <1>4 DEF GetMessages, DrainLocal
  <2> QED BY <1>t, <2>1, SlotsUntouched
<1> QED BY <1>1, <1>2, <1>3, <1>4

LEMMA CreateKeepsSlots ==
  ASSUME AgentsInv, NEW w \in Worker, NEW a \in Agent, CreateCheck(w, a)
  PROVE  AgentsInv'
<1>t. AgentsTypeOK'
  BY CreateIsTyped
<1>1. /\ pc[w] = "turn" /\ pc' = [pc EXCEPT ![w] = "create"] /\ target' = [target EXCEPT ![w] = a]
      /\ ParentOf[a] = w[1] /\ chain[a] = 0
      /\ UNCHANGED <<setup, chain, state, human, purpose, guard>>
  BY DEF CreateCheck
<1>2. /\ pc'[w] = "create" /\ target'[w] = a
      /\ \A v \in Worker : v # w => pc'[v] = pc[v] /\ purpose'[v] = purpose[v] /\ target'[v] = target[v]
  BY <1>1 DEF AgentsInv, AgentsTypeOK
<1>3. Placed(w)' /\ InTurn(w)' /\ InTurn(w)
  BY <1>1, <1>2, SameTree DEF Placed, InTurn, RunningPC
<1> QED BY <1>t, <1>1, <1>2, <1>3, SlotsStay

(* A wake attempt that gives up, at whatever point.                         *)
LEMMA GivingUpKeepsSlots ==
  ASSUME AgentsInv, AgentsTypeOK', NEW w \in Worker, pc[w] \in {"peek", "named", "held"},
         WakeReturns(w, pc), UNCHANGED <<setup, chain, state, human>>,
         \A s \in Session : guard'[s] = guard[s] \/ guard[s] = w
  PROVE  AgentsInv'
<1>1. purpose[w] \in {"send", "relay", "exit"}
  BY DEF AgentsInv, ChainsInv, Placed
<1>2. /\ \/ purpose[w] = "send" /\ pc'[w] = "turn" /\ purpose'[w] = "none"
         \/ purpose[w] = "relay" /\ pc'[w] = "peek" /\ purpose'[w] = "exit"
         \/ purpose[w] = "exit" /\ pc'[w] = "done" /\ purpose'[w] = "none"
      /\ \A v \in Worker : v # w => pc'[v] = pc[v] /\ purpose'[v] = purpose[v] /\ target'[v] = target[v]
  BY <1>1, WakeReturnsTo DEF AgentsInv, AgentsTypeOK
<1>3. Placed(w)' /\ (InTurn(w)' <=> InTurn(w))
  BY <1>2 DEF Placed, InTurn, RunningPC
<1> QED BY <1>2, <1>3, SlotsStay

LEMMA WakeablesMayStart ==
  ASSUME NEW a, Wakeable(a)
  PROVE  MayStart(a)
<1>1. ~(RunningCount(ParentOf[a]) >= MaxPerParent)
  BY DEF Wakeable, LimitsExceeded
<1>2. RunningCount(ParentOf[a]) \in Nat /\ MaxPerParent \in Nat
  BY RunningIsCounted, MessagingAssumption
<1>3. RunningCount(ParentOf[a]) < MaxPerParent
  BY <1>1, <1>2
<1> QED BY <1>3 DEF Wakeable, MayStart

LEMMA PeeksKeepSlots ==
  ASSUME AgentsInv, NEW w \in Worker, WakePeek(w) \/ WakeCheck(w)
  PROVE  AgentsInv'
<1>t. AgentsTypeOK'
  BY WakesAreTyped DEF WakeStep
<1>1. CASE WakePeek(w)
  <2>1. CASE Candidates = {}
    BY <1>t, <1>1, <2>1, GivingUpKeepsSlots DEF WakePeek
  <2>2. CASE Candidates # {}
    <3>1. /\ pc[w] = "peek" /\ pc' = [pc EXCEPT ![w] = "named"] /\ target' = [target EXCEPT ![w] = Candidate]
          /\ UNCHANGED <<setup, chain, state, human, purpose, guard>>
      BY <1>1, <2>2 DEF WakePeek
    <3>2. /\ pc'[w] = "named" /\ target'[w] \in Agent
          /\ \A v \in Worker : v # w => pc'[v] = pc[v] /\ purpose'[v] = purpose[v] /\ target'[v] = target[v]
      BY <2>2, <3>1, CandidateIsAgent DEF AgentsInv, AgentsTypeOK
    <3>3. Placed(w)' /\ (InTurn(w)' <=> InTurn(w))
      BY <3>1, <3>2 DEF Placed, InTurn, RunningPC, AgentsInv, ChainsInv
    <3> QED BY <1>t, <3>1, <3>2, <3>3, SlotsStay
  <2> QED BY <2>1, <2>2
<1>2. CASE WakeCheck(w)
  <2>1. PICK a \in Agent : a = target[w]
    BY <1>2 DEF WakeCheck, AgentsInv, ChainsInv, Placed
  <2>2. CASE Wakeable(a)
    <3>1. /\ pc[w] = "named" /\ pc' = [pc EXCEPT ![w] = "held"]
          /\ guard[ParentOf[a]] = None /\ guard' = [guard EXCEPT ![ParentOf[a]] = w]
          /\ UNCHANGED <<setup, chain, state, human, purpose, target>>
      BY <1>2, <2>1, <2>2 DEF WakeCheck
    <3>2. /\ pc'[w] = "held" /\ target'[w] = a
          /\ \A v \in Worker : v # w => pc'[v] = pc[v] /\ purpose'[v] = purpose[v] /\ target'[v] = target[v]
      BY <2>1, <3>1 DEF AgentsInv, AgentsTypeOK
    <3>3. Placed(w)' /\ (InTurn(w)' <=> InTurn(w))
      BY <3>1, <3>2 DEF Placed, InTurn, RunningPC, AgentsInv, ChainsInv
    <3>4. /\ guard'[ParentOf[a]] = w
          /\ \A s \in Session : guard'[s] = guard[s] \/ guard[s] \in {None, w}
      BY <3>1, ParentIsSession DEF AgentsInv, AgentsTypeOK
    <3>5. MayStart(a)
      BY <2>2, WakeablesMayStart
    <3> QED BY <1>t, <3>1, <3>2, <3>3, <3>4, <3>5, SlotsStay
  <2>3. CASE ~Wakeable(a)
    BY <1>t, <1>2, <2>1, <2>3, GivingUpKeepsSlots DEF WakeCheck
  <2> QED BY <2>2, <2>3
<1> QED BY <1>1, <1>2

LEMMA EndsKeepSlots ==
  ASSUME AgentsInv, NEW w \in Worker, EndStep(w) \/ EndStopped(w)
  PROVE  AgentsInv'
<1>t. AgentsTypeOK'
  BY EndsAreTyped
<1>1. CASE EndDrain(w)
  <2>1. UNCHANGED <<setup, chain, state, purpose, target, human>> /\ pc[w] = "turn" /\ w # RootWorker
    BY <1>1 DEF EndDrain
  <2>2. CASE UNCHANGED <<guard, pc>>
    BY <1>t, <2>1, <2>2, SlotsUntouched
  <2>3. CASE guard' = [guard EXCEPT ![ParentOf[w[1]]] = w] /\ pc' = [pc EXCEPT ![w] = "ending"]
    <3>1. ParentOf[w[1]] \in Session /\ guard[ParentOf[w[1]]] = None
      BY <1>1, <2>1, WorkerParts, ParentIsSession DEF EndDrain, AgentsInv
    <3>2. /\ pc'[w] = "ending" /\ guard'[ParentOf[w[1]]] = w
          /\ \A s \in Session : guard'[s] = guard[s] \/ guard[s] \in {None, w}
          /\ \A v \in Worker : v # w => pc'[v] = pc[v] /\ purpose'[v] = purpose[v] /\ target'[v] = target[v]
      BY <2>1, <2>3, <3>1 DEF AgentsInv, AgentsTypeOK
    <3>3. Placed(w)' /\ InTurn(w)' /\ InTurn(w)
      BY <2>1, <3>2 DEF Placed, InTurn, RunningPC
    <3> QED BY <1>t, <2>1, <3>2, <3>3, SlotsStay
  <2> QED BY <1>1, <2>2, <2>3 DEF EndDrain
<1>2. CASE NoRelay(w)
  <2>1. /\ pc[w] = "relay" /\ pc' = [pc EXCEPT ![w] = "peek"] /\ purpose' = [purpose EXCEPT ![w] = "exit"]
        /\ UNCHANGED <<setup, chain, state, human, target, guard>>
    BY <1>2 DEF NoRelay, TryWake
  <2>2. /\ pc'[w] = "peek" /\ purpose'[w] = "exit"
        /\ \A v \in Worker : v # w => pc'[v] = pc[v] /\ purpose'[v] = purpose[v] /\ target'[v] = target[v]
    BY <2>1 DEF AgentsInv, AgentsTypeOK
  <2>3. Placed(w)' /\ ~InTurn(w)' /\ ~InTurn(w)
    BY <2>1, <2>2 DEF Placed, InTurn, RunningPC
  <2> QED BY <1>t, <2>1, <2>2, <2>3, SlotsStay
<1>3. CASE EndMark(w) \/ EndStopped(w)
  <2>1. PICK end \in {"finished", "stopped"} : state' = [state EXCEPT ![w[1]] = end]
    BY <1>3 DEF EndMark, EndStopped
  <2>2. /\ w # RootWorker /\ InTurn(w) /\ pc' = [pc EXCEPT ![w] = "relay"]
        /\ UNCHANGED <<setup, chain, purpose, target, human>>
    BY <1>3 DEF EndMark, EndStopped, InTurn, RunningPC, AgentsInv, ChainsInv
  <2>3. ChainsInv'
    BY <2>1, <2>2, ChainEnds DEF AgentsInv
  <2>4. \A s \in Session : guard'[s] = guard[s] \/ guard[s] \in {None, w}
    <3>1. CASE EndMark(w)
      <4>1. guard' = [guard EXCEPT ![ParentOf[w[1]]] = None] /\ guard[ParentOf[w[1]]] = w
        BY <3>1 DEF EndMark, AgentsInv, GuardsInv
      <4> QED BY <4>1 DEF AgentsInv, AgentsTypeOK
    <3>2. CASE EndStopped(w)
      BY <3>2 DEF EndStopped
    <3> QED BY <1>3, <3>1, <3>2
  <2>5. /\ pc'[w] = "relay"
        /\ \A v \in Worker : v # w => pc'[v] = pc[v] /\ target'[v] = target[v]
    BY <2>2 DEF AgentsInv, AgentsTypeOK
  <2>6. w # Outside /\ w \in Worker \cup {Outside}
    BY ParentIsSession DEF AgentsInv
  <2>7. /\ \A v \in Worker : v # w =>
             /\ pc'[v] = "held" => /\ target'[v] \in Agent /\ guard'[ParentOf[target'[v]]] = v
                                   /\ MayStart(target'[v])
             /\ pc'[v] = "ending" => guard'[ParentOf[v[1]]] = v
        /\ human'.to # None =>
             human'.to \in Agent /\ guard'[ParentOf[human'.to]] = Outside /\ MayStart(human'.to)
    BY <2>2, <2>4, <2>5, <2>6, OthersKeepGuards
  <2>8. \A v \in Worker : /\ pc'[v] = "held" => /\ target'[v] \in Agent /\ guard'[ParentOf[target'[v]]] = v
                                                /\ MayStart(target'[v])
                          /\ pc'[v] = "ending" => guard'[ParentOf[v[1]]] = v
    BY <2>5, <2>7
  <2>9. \A a \in Agent : (Running(a)' => Running(a)) /\ (Dormant(a) => Dormant(a)')
    <3>1. w[1] \in Agent /\ Running(w[1])
      BY <2>2, DriverIsNewest DEF AgentsInv
    <3>2. \A a \in Agent : state'[a] = IF a = w[1] THEN end ELSE state[a]
      BY <2>1, <3>1 DEF AgentsInv, AgentsTypeOK
    <3> QED BY <3>2 DEF Running, Dormant
  <2>10. GuardsInv' /\ PerParentLimit'
    BY <2>2, <2>7, <2>8, <2>9, GuardsStay
  <2> QED BY <1>t, <2>3, <2>10 DEF AgentsInv
<1> QED BY <1>1, <1>2, <1>3 DEF EndStep

(* An agent starts: woken by a thread that found it dormant and room for it *)
(* and holds its parent's guard since, or created by its parent.            *)
LEMMA SlotTaken ==
  ASSUME AgentsInv, AgentsTypeOK', NEW h \in Worker \cup {Outside}, NEW a \in Agent,
         Started(a), setup' = setup,
         \/ MayStart(a) /\ guard[ParentOf[a]] = h
         \/ h \in Worker /\ pc[h] = "create" /\ target[h] = a,
         pc'[NewWorker(a)] = "turn",
         \A v \in Worker : v \notin {h, NewWorker(a)} =>
           pc'[v] = pc[v] /\ purpose'[v] = purpose[v] /\ target'[v] = target[v],
         h \in Worker => /\ InTurn(h)' <=> InTurn(h)
                         /\ pc[h] # "none" /\ pc'[h] \in {"turn", "peek", "done"}
                         /\ Placed(h)',
         \A s \in Session : guard'[s] = guard[s] \/ guard[s] \in {None, h},
         human'.to = None \/ (h # Outside /\ human' = human)
  PROVE  AgentsInv'
<1>n. PICK new \in Worker : new = NewWorker(a) /\ new # RootWorker /\ pc[new] = "none"
  <2>1. NewWorker(a) \in Worker /\ NewWorker(a) # RootWorker /\ chain[a] + 1 \in 1..MaxChains /\ chain[a] \in Nat
    BY StartedIsTyped DEF AgentsInv
  <2>2. pc[NewWorker(a)] = "none"
    BY <2>1 DEF NewWorker, AgentsInv, ChainsInv
  <2> QED BY <2>1, <2>2
<1>0. None \notin Worker /\ None # Outside /\ Outside \notin Worker
  BY ParentIsSession DEF AgentsInv
<1>1. \/ MayStart(a) /\ guard[ParentOf[a]] = h /\ chain[a] > 0
      \/ /\ h \in Worker /\ pc[h] = "create" /\ chain[a] = 0 /\ ParentOf[a] = h[1]
         /\ state[a] = "absent" /\ ~AllExist(ParentOf[a])
  <2>1. CASE MayStart(a) /\ guard[ParentOf[a]] = h
    <3>1. chain[a] # 0 /\ chain[a] \in Nat
      BY <2>1 DEF AgentsInv, AgentsTypeOK, ChainsInv, MayStart, Dormant
    <3> QED BY <2>1, <3>1
  <2>2. CASE h \in Worker /\ pc[h] = "create" /\ target[h] = a
    <3>1. chain[a] = 0 /\ ParentOf[a] = h[1]
      BY <2>2 DEF AgentsInv, ChainsInv, Placed
    <3>2. state[a] = "absent" /\ a \notin Existing
      BY <3>1 DEF AgentsInv, ChainsInv
    <3> QED BY <2>2, <3>1, <3>2 DEF AllExist
  <2> QED BY <2>1, <2>2
<1>2. ~Running(a)
  BY <1>1 DEF MayStart, Dormant, Running
<1>3. /\ \A b \in Agent : b # a => chain'[b] = chain[b] /\ state'[b] = state[b]
  BY DEF Started, AgentsInv, AgentsTypeOK
(* Only one thread creates a.                                               *)
<1>4. ASSUME NEW v \in Worker, v \notin {h, new}
      PROVE  /\ InTurn(v)' <=> InTurn(v)
             /\ Placed(v)'
             /\ pc'[v] = pc[v]
  <2>1. pc'[v] = pc[v] /\ purpose'[v] = purpose[v] /\ target'[v] = target[v] /\ Placed(v)
    BY <1>n, <1>4 DEF AgentsInv, ChainsInv
  <2>2. ASSUME pc[v] = "create" PROVE target[v] # a
    <3>1. CASE chain[a] > 0
      BY <2>1, <2>2, <3>1 DEF Placed, AgentsInv, AgentsTypeOK
    <3>2. CASE h \in Worker /\ pc[h] = "create" /\ ParentOf[a] = h[1]
      <4> SUFFICES ASSUME target[v] = a
                   PROVE  FALSE
        OBVIOUS
      <4>1. v[1] = h[1]
        BY <2>1, <2>2, <3>2 DEF Placed
      <4>2. InTurn(v) /\ InTurn(h)
        BY <2>2, <3>2 DEF InTurn, RunningPC
      <4>3. CASE h = RootWorker
        <5>1. h[1] = Root
          BY <4>3, WorkerParts
        <5>2. v = RootWorker
          BY <4>1, <5>1, WorkerParts
        <5> QED BY <1>4, <4>3, <5>2
      <4>4. CASE h # RootWorker
        <5>1. h[1] # Root
          BY <3>2, <4>4, WorkerParts
        <5>2. v # RootWorker
          BY <4>1, <5>1, WorkerParts
        <5>3. v = <<v[1], chain[v[1]]>> /\ h = <<h[1], chain[h[1]]>>
          BY <3>2, <4>2, <4>4, <5>2, DriverIsNewest DEF AgentsInv
        <5> QED BY <1>4, <4>1, <5>3
      <4> QED BY <4>3, <4>4
    <3> QED BY <1>1, <3>1, <3>2
  <2>3. pc[v] = "create" => chain'[target[v]] = chain[target[v]]
    BY <1>3, <2>1, <2>2 DEF Placed
  <2>4. InTurn(v)' <=> InTurn(v)
    BY <2>1 DEF InTurn
  <2>5. Placed(v)'
    BY <2>1, <2>3, SameTree DEF Placed
  <2> QED BY <2>1, <2>4, <2>5
<1>5. ChainsInv'
  <2>1. \A v \in Worker : v # NewWorker(a) =>
          (InTurn(v)' <=> InTurn(v)) /\ Placed(v)' /\ (pc[v] = "none" => pc'[v] = "none")
    <3> SUFFICES ASSUME NEW v \in Worker, v # new
                 PROVE  (InTurn(v)' <=> InTurn(v)) /\ Placed(v)' /\ (pc[v] = "none" => pc'[v] = "none")
      BY <1>n
    <3>1. CASE v = h
      BY <3>1
    <3>2. CASE v # h
      BY <1>4, <3>2
    <3> QED BY <3>1, <3>2
  <2>2. pc'[RootWorker] \notin {"ending", "relay"}
    <3>1. RootWorker \in Worker
      BY WorkerParts
    <3>2. CASE RootWorker = h
      BY <3>1, <3>2
    <3>3. CASE RootWorker # h
      <4>1. pc'[RootWorker] = pc[RootWorker]
        BY <1>n, <1>4, <3>1, <3>3
      <4> QED BY <4>1 DEF AgentsInv, ChainsInv
    <3> QED BY <3>2, <3>3
  <2> QED BY <1>2, <2>1, <2>2, ChainStarts DEF AgentsInv
<1>6. ASSUME NEW b \in Agent, MayStart(b), guard[ParentOf[b]] # h
      PROVE  MayStart(b)'
  <2>1. PICK p : p = ParentOf[b]
    OBVIOUS
  <2>2. p = ParentOf'[b] /\ (AllExist(p)' <=> AllExist(p))
    BY <2>1, SameTree
  <2>3. b # a
    BY <1>1, <1>6 DEF MayStart, Dormant
  <2>4. Dormant(b)'
    BY <1>3, <1>6, <2>3 DEF MayStart, Dormant
  <2>5. AllExist(p) => p # ParentOf[a]
    BY <1>1, <1>6, <2>1
  <2>6. p # ParentOf[a] => RunningCount(p)' = RunningCount(p)
    BY StartCountsOne DEF AgentsInv
  <2>7. AllExist(p) => RunningCount(p) < MaxPerParent
    BY <1>6, <2>1 DEF MayStart
  <2>8. AllExist(p)' => RunningCount(p)' < MaxPerParent
    BY <2>2, <2>5, <2>6, <2>7
  <2> QED BY <2>2, <2>4, <2>8 DEF MayStart, RunningCount, AllExist
<1>7. ASSUME NEW v \in Worker, pc'[v] = "held"
      PROVE  guard'[ParentOf'[target'[v]]] = v /\ MayStart(target[v])'
  <2>1. v \notin {h, new}
    BY <1>n, <1>7
  <2>2. pc[v] = "held" /\ target'[v] = target[v]
    BY <1>n, <1>7, <2>1
  <2>3. PICK b \in Agent : b = target[v]
    BY <2>2 DEF AgentsInv, ChainsInv, Placed
  <2>4. guard[ParentOf[b]] = v /\ MayStart(b)
    BY <2>2, <2>3 DEF AgentsInv, GuardsInv
  <2>5. MayStart(b)'
    BY <1>6, <2>1, <2>4
  <2>6. ParentOf[b] \in Session
    BY ParentIsSession DEF AgentsInv
  <2>7. guard'[ParentOf[b]] = v
    BY <1>0, <2>1, <2>4, <2>6
  <2>8. b = target'[v]
    BY <2>2, <2>3
  <2> QED BY <2>5, <2>7, <2>8, SameTree DEF MayStart, RunningCount, AllExist, Dormant
<1>8. ASSUME NEW v \in Worker, pc'[v] = "ending"
      PROVE  guard'[ParentOf'[v[1]]] = v
  <2>1. v \notin {h, new}
    BY <1>n, <1>8
  <2>2. pc[v] = "ending"
    BY <1>n, <1>8, <2>1
  <2>3. guard[ParentOf[v[1]]] = v /\ v # RootWorker
    BY <2>2 DEF AgentsInv, GuardsInv, ChainsInv
  <2>4. ParentOf[v[1]] \in Session
    BY <2>3, ParentIsSession, WorkerParts DEF AgentsInv
  <2> QED BY <1>0, <2>1, <2>3, <2>4, SameTree
<1>9. ASSUME human'.to # None
      PROVE  guard'[ParentOf'[human'.to]] = Outside /\ MayStart(human.to)'
  <2>1. h # Outside /\ human' = human
    BY <1>9
  <2>2. PICK b \in Agent : b = human.to
    BY <1>9, <2>1 DEF AgentsInv, AgentsTypeOK
  <2>3. guard[ParentOf[b]] = Outside /\ MayStart(b)
    BY <1>9, <2>1, <2>2 DEF AgentsInv, GuardsInv
  <2>4. MayStart(b)'
    BY <1>6, <2>1, <2>3
  <2>5. ParentOf[b] \in Session
    BY ParentIsSession DEF AgentsInv
  <2>6. guard'[ParentOf[b]] = Outside
    BY <1>0, <2>1, <2>3, <2>5
  <2>7. b = human'.to
    BY <2>1, <2>2
  <2> QED BY <2>4, <2>6, <2>7, SameTree DEF MayStart, RunningCount, AllExist, Dormant
<1>10. PerParentLimit'
  <2>1. ASSUME NEW s \in Session, AllExist(s) PROVE RunningCount(s)' <= MaxPerParent
    <3>1. CASE s = ParentOf[a]
      <4>1. RunningCount(s) < MaxPerParent
        BY <1>1, <2>1, <3>1 DEF MayStart
      <4>2. RunningCount(s)' \in Nat /\ RunningCount(s)' <= RunningCount(s) + 1
        BY StartCountsOne DEF AgentsInv
      <4>3. RunningCount(s) \in Nat /\ MaxPerParent \in Nat
        BY RunningIsCounted, MessagingAssumption
      <4> QED BY <4>1, <4>2, <4>3
    <3>2. CASE s # ParentOf[a]
      <4>1. RunningCount(s)' = RunningCount(s)
        BY <3>2, StartCountsOne DEF AgentsInv
      <4> QED BY <2>1, <4>1 DEF AgentsInv, PerParentLimit, AllExist
    <3> QED BY <3>1, <3>2
  <2> QED BY <2>1, SameTree DEF PerParentLimit, AllExist
<1>11. GuardsInv'
  BY <1>7, <1>8, <1>9 DEF GuardsInv
<1> QED BY <1>5, <1>10, <1>11 DEF AgentsInv

LEMMA CreationKeepsSlots ==
  ASSUME AgentsInv, NEW w \in Worker, CreateRegister(w)
  PROVE  AgentsInv'
<1>t. AgentsTypeOK'
  BY CreateIsTyped
<1>1. PICK a \in Agent : a = target[w]
  BY DEF CreateRegister, AgentsInv, ChainsInv, Placed
<1>2. /\ pc[w] = "create" /\ Started(a)
      /\ pc' = [pc EXCEPT ![w] = "turn", ![NewWorker(a)] = "turn"]
      /\ target' = [target EXCEPT ![w] = None]
      /\ UNCHANGED <<setup, purpose, guard, human>>
  BY <1>1 DEF CreateRegister
<1>3. NewWorker(a) \in Worker
  BY <1>2, StartedIsTyped DEF AgentsInv
<1>4. /\ pc'[NewWorker(a)] = "turn" /\ pc'[w] = "turn"
      /\ \A v \in Worker : v \notin {w, NewWorker(a)} =>
           pc'[v] = pc[v] /\ purpose'[v] = purpose[v] /\ target'[v] = target[v]
  BY <1>2, <1>3 DEF AgentsInv, AgentsTypeOK
<1>5. (InTurn(w)' <=> InTurn(w)) /\ Placed(w)'
  BY <1>2, <1>4 DEF InTurn, RunningPC, Placed
<1>6. w # Outside
  BY ParentIsSession DEF AgentsInv
<1>7. pc[w] # "none" /\ target[w] = a /\ human' = human /\ guard' = guard
  BY <1>1, <1>2
<1> QED BY <1>t, <1>2, <1>4, <1>5, <1>6, <1>7, SlotTaken

LEMMA WakeKeepsSlots ==
  ASSUME AgentsInv, NEW w \in Worker, WakeDispatch(w)
  PROVE  AgentsInv'
<1>t. AgentsTypeOK'
  BY WakesAreTyped DEF WakeStep
<1>1. PICK a \in Agent : a = target[w]
  BY DEF WakeDispatch, AgentsInv, ChainsInv, Placed
<1>2. /\ pc[w] = "held" /\ guard' = [guard EXCEPT ![ParentOf[a]] = None]
      /\ UNCHANGED <<setup, human>>
  BY <1>1 DEF WakeDispatch
<1>3. guard[ParentOf[a]] = w /\ MayStart(a)
  BY <1>1, <1>2 DEF AgentsInv, GuardsInv
<1>4. \A s \in Session : guard'[s] = guard[s] \/ guard[s] = w
  BY <1>2, <1>3 DEF AgentsInv, AgentsTypeOK
<1>5. purpose[w] \in {"send", "relay", "exit"}
  BY <1>2 DEF AgentsInv, ChainsInv, Placed
<1>6. CASE HasPending(a)
  <2>1. Started(a) /\ WakeReturns(w, [pc EXCEPT ![NewWorker(a)] = "turn"])
    BY <1>1, <1>6 DEF WakeDispatch
  <2>2. NewWorker(a) \in Worker /\ NewWorker(a) # w
    <3>1. NewWorker(a) \in Worker /\ chain[a] + 1 \in 1..MaxChains /\ chain[a] \in Nat
      BY <2>1, StartedIsTyped DEF AgentsInv
    <3>2. pc[NewWorker(a)] = "none"
      BY <3>1 DEF NewWorker, AgentsInv, ChainsInv
    <3> QED BY <1>2, <3>1, <3>2
  <2>3. PICK mid \in [Worker -> {"none", "idle", "turn", "create", "peek", "named", "held",
                                 "ending", "relay", "done"}] :
          mid = [pc EXCEPT ![NewWorker(a)] = "turn"]
    BY DEF AgentsInv, AgentsTypeOK
  <2>4. /\ \/ purpose[w] = "send" /\ pc'[w] = "turn" /\ purpose'[w] = "none"
           \/ purpose[w] = "relay" /\ pc'[w] = "peek" /\ purpose'[w] = "exit"
           \/ purpose[w] = "exit" /\ pc'[w] = "done" /\ purpose'[w] = "none"
        /\ \A v \in Worker : v # w =>
             pc'[v] = mid[v] /\ purpose'[v] = purpose[v] /\ target'[v] = target[v]
    <3>1. WakeReturns(w, mid)
      BY <2>1, <2>3 DEF WakeReturns
    <3> QED BY <1>5, <3>1, WakeReturnsTo DEF AgentsInv
  <2>5. /\ pc'[NewWorker(a)] = "turn"
        /\ \A v \in Worker : v \notin {w, NewWorker(a)} =>
             pc'[v] = pc[v] /\ purpose'[v] = purpose[v] /\ target'[v] = target[v]
    BY <2>2, <2>3, <2>4 DEF AgentsInv, AgentsTypeOK
  <2>6. (InTurn(w)' <=> InTurn(w)) /\ Placed(w)'
    BY <1>2, <2>4 DEF InTurn, RunningPC, Placed
  <2>7. w # Outside
    BY ParentIsSession DEF AgentsInv
  <2> QED BY <1>t, <1>2, <1>3, <1>4, <2>1, <2>4, <2>5, <2>6, <2>7, SlotTaken
<1>7. CASE ~HasPending(a)
  <2>1. WakeReturns(w, pc) /\ UNCHANGED <<chain, state>>
    BY <1>1, <1>7 DEF WakeDispatch
  <2> QED BY <1>t, <1>2, <1>4, <2>1, GivingUpKeepsSlots
<1> QED BY <1>6, <1>7

(* The outside thread finds agent a dormant and room for it.                *)
LEMMA OutsideHoldsKeepSlots ==
  ASSUME AgentsInv, NEW a \in Agent, NudgeCheck(a) \/ \E m \in Message : DirectCheck(a, m)
  PROVE  AgentsInv'
<1>t. AgentsTypeOK'
  BY OutsideIsTyped
<1>1. /\ guard[ParentOf[a]] = None /\ MayStart(a) /\ human'.to = a /\ human.to = None
      /\ guard' = [guard EXCEPT ![ParentOf[a]] = Outside]
      /\ UNCHANGED <<setup, chain, state, pc, purpose, target>>
  BY WakeablesMayStart DEF DirectCheck, NudgeCheck
<1>2. \A s \in Session : guard'[s] = guard[s] \/ guard[s] \in {None, Outside}
  BY <1>1 DEF AgentsInv, AgentsTypeOK
<1>3. guard'[ParentOf[a]] = Outside
  BY <1>1, ParentIsSession DEF AgentsInv, AgentsTypeOK
<1>4. Outside \notin Worker
  BY ParentIsSession DEF AgentsInv
<1>5. \A v \in Worker : /\ pc'[v] = "held" => /\ target'[v] \in Agent /\ guard'[ParentOf[target'[v]]] = v
                                              /\ MayStart(target'[v])
                        /\ pc'[v] = "ending" => guard'[ParentOf[v[1]]] = v
  BY <1>1, <1>2, <1>4, OthersKeepGuards
<1>6. \A v \in Worker : (InTurn(v)' <=> InTurn(v)) /\ Placed(v)'
  BY <1>1, SameTree DEF InTurn, Placed, AgentsInv, ChainsInv
<1>7. ChainsInv'
  BY <1>1, <1>6, ChainsStayAsTheyAre DEF AgentsInv, ChainsInv
<1>8. \A b \in Agent : (Running(b)' => Running(b)) /\ (Dormant(b) => Dormant(b)')
  BY <1>1 DEF Running, Dormant
<1>9. human'.to # None => human'.to \in Agent /\ guard'[ParentOf[human'.to]] = Outside /\ MayStart(human'.to)
  BY <1>1, <1>3
<1>10. GuardsInv' /\ PerParentLimit'
  BY <1>1, <1>5, <1>8, <1>9, GuardsStay
<1> QED BY <1>t, <1>7, <1>10 DEF AgentsInv

LEMMA OutsideKeepsSlots ==
  ASSUME AgentsInv, OutsideDispatch
  PROVE  AgentsInv'
<1>t. AgentsTypeOK'
  <2> SUFFICES ASSUME NEW a \in Agent, a = human.to PROVE AgentsTypeOK'
    BY DEF OutsideDispatch, AgentsInv, AgentsTypeOK
  <2>1. /\ chain' \in [Agent -> 0..MaxChains]
        /\ state' \in [Agent -> {"absent", "running", "finished", "stopped"}]
    BY StartedIsTyped DEF OutsideDispatch, AgentsInv
  <2>2. got' \in [Message -> Nat]
    BY HandedIsTyped DEF OutsideDispatch, AgentsInv
  <2> QED BY <2>1, <2>2 DEF AgentsInv, AgentsTypeOK, OutsideDispatch
<1>1. PICK a \in Agent : a = human.to
  BY DEF OutsideDispatch, AgentsInv, AgentsTypeOK
<1>2. /\ Started(a) /\ pc' = [pc EXCEPT ![NewWorker(a)] = "turn"]
      /\ guard' = [guard EXCEPT ![ParentOf[a]] = None] /\ human'.to = None
      /\ UNCHANGED <<setup, purpose, target>>
  BY <1>1 DEF OutsideDispatch
<1>3. guard[ParentOf[a]] = Outside /\ MayStart(a)
  BY <1>1, ParentIsSession DEF AgentsInv, GuardsInv
<1>4. NewWorker(a) \in Worker
  BY <1>2, StartedIsTyped DEF AgentsInv
<1>5. /\ pc'[NewWorker(a)] = "turn"
      /\ \A v \in Worker : v \notin {Outside, NewWorker(a)} =>
           pc'[v] = pc[v] /\ purpose'[v] = purpose[v] /\ target'[v] = target[v]
  BY <1>2, <1>4 DEF AgentsInv, AgentsTypeOK
<1>6. \A s \in Session : guard'[s] = guard[s] \/ guard[s] \in {None, Outside}
  BY <1>2, <1>3 DEF AgentsInv, AgentsTypeOK
<1>7. Outside \notin Worker
  BY ParentIsSession DEF AgentsInv
<1> QED BY <1>t, <1>2, <1>3, <1>5, <1>6, <1>7, SlotTaken

LEMMA RootKeepsSlots ==
  ASSUME AgentsInv, RootStarts \/ RootEnds
  PROVE  AgentsInv'
<1>t. AgentsTypeOK'
  BY DEF AgentsInv, AgentsTypeOK, RootStarts, RootEnds
<1>1. PICK at \in {"turn", "idle"} : pc' = [pc EXCEPT ![RootWorker] = at]
  BY DEF RootStarts, RootEnds
<1>2. pc[RootWorker] \in {"turn", "idle"} /\ UNCHANGED <<setup, chain, state, human, purpose, target, guard>>
  BY DEF RootStarts, RootEnds
<1>3. RootWorker \in Worker
  BY WorkerParts
<1>4. pc'[RootWorker] = at /\ \A v \in Worker : v # RootWorker => pc'[v] = pc[v]
  BY <1>1, <1>3 DEF AgentsInv, AgentsTypeOK
<1>5. Placed(RootWorker)'
  BY <1>4 DEF Placed
<1> QED BY <1>t, <1>2, <1>3, <1>4, <1>5, SlotsStay

LEMMA AgentsStart == AgentsInit => AgentsInv
<1> SUFFICES ASSUME AgentsInit PROVE AgentsInv
  OBVIOUS
<1>1. /\ ParentOf \in [Agent -> Session] /\ Existing \subseteq Agent
  BY MessagingAssumption DEF AgentsInit, ParentOf, Existing
<1>2. AgentsTypeOK
  <2>1. Cardinality(Message) \in Nat
    BY MessagingAssumption, FS_CardinalityType
  <2>2. 1 \in 0..MaxChains /\ 0 \in 0..MaxChains /\ 0 \in 0..MaxNudges
    BY <2>1, MessagingAssumption
  <2>3. <<>> \in Seq(Message)
    OBVIOUS
  <2>4. chain \in [Agent -> 0..MaxChains]
    BY <2>2 DEF AgentsInit
  <2>5. nudges \in 0..MaxNudges
    BY <2>2 DEF AgentsInit
  <2>6. queue \in Seq(Message) /\ local \in [Agent -> Seq(Message)]
    BY <2>3 DEF AgentsInit
  <2> QED BY <2>4, <2>5, <2>6 DEF AgentsInit, AgentsTypeOK
<1>3. \A w \in Worker : pc[w] \in {"idle", "done", "none"}
  BY DEF AgentsInit
<1>4. \A w \in Worker : ~InTurn(w) /\ Placed(w)
  BY <1>3 DEF InTurn, RunningPC, Placed
<1>5. \A a \in Agent : ~Running(a) /\ (chain[a] = 0 <=> state[a] = "absent") /\ chain[a] \in {0, 1}
  BY DEF AgentsInit, Running
<1>6. OneChainPerAgent
  <2> SUFFICES ASSUME NEW a \in Agent
               PROVE  /\ \A n \in 1..MaxChains : ~InTurn(<<a, n>>)
                      /\ chain[a] > 0 => ~InTurn(CurrentWorker(a))
    BY <1>5 DEF OneChainPerAgent
  <2>1. \A n \in 1..MaxChains : ~InTurn(<<a, n>>)
    BY <1>4, WorkerParts
  <2>2. chain[a] > 0 => chain[a] \in 1..MaxChains
    BY <1>2, MessagingAssumption DEF AgentsTypeOK
  <2> QED BY <2>1, <2>2 DEF CurrentWorker
<1>7. \A a \in Agent : \A n \in 1..MaxChains : n > chain[a] => pc[<<a, n>>] = "none"
  <2> SUFFICES ASSUME NEW a \in Agent, NEW n \in 1..MaxChains, n > chain[a]
               PROVE  pc[<<a, n>>] = "none"
    OBVIOUS
  <2>1. a \in Existing => chain[a] = 1 /\ n # 1
    BY DEF AgentsInit
  <2>2. <<a, n>> \in Worker /\ <<a, n>> # RootWorker /\ <<a, n>>[1] = a /\ <<a, n>>[2] = n
    BY WorkerParts
  <2> QED BY <2>1, <2>2 DEF AgentsInit
<1>8. \A a \in Existing : chain[a] > 0
  BY <1>1 DEF AgentsInit
<1>9. ChainsInv
  BY <1>3, <1>4, <1>5, <1>6, <1>7, <1>8, WorkerParts DEF ChainsInv
<1>10. GuardsInv
  BY <1>3 DEF GuardsInv, AgentsInit
<1>11. PerParentLimit
  <2>1. ASSUME NEW s PROVE RunningCount(s) = 0
    <3>1. {a \in Agent : ParentOf[a] = s /\ Running(a)} = {}
      BY <1>5
    <3> QED BY <3>1, FS_EmptySet DEF RunningCount
  <2>2. MaxPerParent \in Nat
    BY MessagingAssumption
  <2> QED BY <2>1, <2>2 DEF PerParentLimit
<1> QED BY <1>2, <1>9, <1>10, <1>11 DEF AgentsInv

LEMMA AgentsNextInv == AgentsInv /\ [Next]_vars => AgentsInv'
<1> SUFFICES ASSUME AgentsInv, [Next]_vars PROVE AgentsInv'
  OBVIOUS
<1>1. ASSUME NEW w \in Worker, NEW a \in Agent, CreateCheck(w, a) PROVE AgentsInv'
  BY <1>1, CreateKeepsSlots
<1>2. ASSUME NEW w \in Worker, CreateRegister(w) PROVE AgentsInv'
  BY <1>2, CreationKeepsSlots
<1>3. ASSUME NEW w \in Worker, NEW m \in Message, NEW s \in Session,
             SendToIdleRoot(w, m) \/ Relay(w, m) \/ Send(w, m, s)
      PROVE  AgentsInv'
  BY <1>3, MessagesKeepSlots
<1>4. ASSUME NEW w \in Worker, GetMessages(w) \/ DrainLocal(w) PROVE AgentsInv'
  BY <1>4, MessagesKeepSlots
<1>5. ASSUME NEW w \in Worker, WakeStep(w) PROVE AgentsInv'
  BY <1>5, PeeksKeepSlots, WakeKeepsSlots DEF WakeStep
<1>6. ASSUME NEW w \in Worker, EndStep(w) \/ EndStopped(w) PROVE AgentsInv'
  BY <1>6, EndsKeepSlots
<1>7. ASSUME NEW a \in Agent, NEW m \in Message, DirectToRunning(a, m) PROVE AgentsInv'
  <2>1. UNCHANGED <<setup, chain, state, human, pc, purpose, target, guard>>
    BY <1>7 DEF DirectToRunning
  <2> QED BY <1>7, <2>1, OutsideIsTyped, SlotsUntouched
<1>8. ASSUME NEW a \in Agent, NEW m \in Message, DirectCheck(a, m) PROVE AgentsInv'
  BY <1>8, OutsideHoldsKeepSlots
<1>9. ASSUME NEW a \in Agent, NudgeCheck(a) PROVE AgentsInv'
  BY <1>9, OutsideHoldsKeepSlots
<1>10. CASE OutsideDispatch
  BY <1>10, OutsideKeepsSlots
<1>11. CASE RootStarts \/ RootEnds
  BY <1>11, RootKeepsSlots
<1>12. CASE AgentsNext
  BY <1>1, <1>2, <1>3, <1>4, <1>5, <1>6, <1>7, <1>8, <1>9, <1>10, <1>11, <1>12, WorkerParts DEF AgentsNext
<1>13. CASE UNCHANGED agentVars
  <2>1. UNCHANGED <<setup, chain, state, queue, to, local, guard, pc, purpose, target, human, nudges, got>>
    BY <1>13 DEF agentVars
  <2>2. AgentsTypeOK'
    BY <2>1 DEF AgentsInv, AgentsTypeOK
  <2> QED BY <2>1, <2>2, SlotsUntouched
<1> QED BY <1>12, <1>13 DEF Next, vars

(* Every thread that starts or finishes a subagent: each agent is driven by *)
(* one thread at a time, the tracker says "running" just then, and the      *)
(* wake-ups and direct messages of a session whose subagents all exist      *)
(* never go beyond maxConcurrentPerParent (agents/policy.py).               *)
THEOREM AgentSlotsAreSound == Spec => []SlotsAreSound
<1>1. Init => AgentsInv
  BY AgentsStart DEF Init
<1>2. AgentsInv => SlotsAreSound
  BY DEF AgentsInv, ChainsInv, SlotsAreSound
<1> QED BY <1>1, <1>2, AgentsNextInv, PTL DEF Spec

-----------------------------------------------------------------------------
(* Messages of the ACP host                                                 *)

(* A message that was sent is accounted for once, and one that was lost or  *)
(* never sent not at all.                                                   *)
Places(m) == Occurs(m, queued) + Occurs(m, batch["prompt"]) + Occurs(m, batch["wake"]) + taken[m]
Due(m) == IF source[m] = "unsent" \/ m \in dropped THEN 0 ELSE 1

AccountInv ==
  \A m \in HostMessage : Places(m) = Due(m) /\ (m \in dropped => source[m] # "unsent")

LEMMA OccursIsCounted ==
  ASSUME NEW m, NEW S, NEW seq \in Seq(S)
  PROVE  Occurs(m, seq) \in Nat /\ (Occurs(m, seq) = 0 <=> m \notin Elements(seq))
<1> DEFINE I == {i \in 1..Len(seq) : seq[i] = m}
<1>1. IsFiniteSet(1..Len(seq))
  <2>1. 1 \in Int /\ Len(seq) \in Int
    OBVIOUS
  <2> QED BY <2>1, FS_Interval
<1>2. IsFiniteSet(I)
  <2>1. I \in SUBSET (1..Len(seq))
    OBVIOUS
  <2> QED BY <1>1, <2>1, FS_Subset
<1>3. Cardinality(I) \in Nat /\ (Cardinality(I) = 0 <=> I = {})
  BY <1>2, FS_CardinalityType, FS_EmptySet
<1> QED BY <1>3 DEF Occurs, Elements

LEMMA OccursInAppend ==
  ASSUME NEW m, NEW S, NEW seq \in Seq(S), NEW x \in S
  PROVE  Occurs(m, Append(seq, x)) = Occurs(m, seq) + (IF x = m THEN 1 ELSE 0)
<1> DEFINE I == {i \in 1..Len(seq) : seq[i] = m}
           J == {i \in 1..Len(Append(seq, x)) : Append(seq, x)[i] = m}
<1>1. /\ Len(seq) \in Nat /\ Len(Append(seq, x)) = Len(seq) + 1
      /\ \A j \in 1..Len(seq) : Append(seq, x)[j] = seq[j]
      /\ Append(seq, x)[Len(seq) + 1] = x
  BY AppendedToSequence
<1>2. IsFiniteSet(I) /\ Cardinality(I) \in Nat
  <2>1. IsFiniteSet(1..Len(seq))
    <3>1. 1 \in Int /\ Len(seq) \in Int
      BY <1>1
    <3> QED BY <3>1, FS_Interval
  <2>2. I \in SUBSET (1..Len(seq))
    OBVIOUS
  <2> QED BY <2>1, <2>2, FS_Subset, FS_CardinalityType
<1>3. CASE x = m
  <2>1. J = I \cup {Len(seq) + 1} /\ Len(seq) + 1 \notin I
    BY <1>1, <1>3
  <2> QED BY <1>2, <1>3, <2>1, FS_AddElement DEF Occurs
<1>4. CASE x # m
  <2>1. J = I
    BY <1>1, <1>4
  <2>2. Occurs(m, Append(seq, x)) = Cardinality(J) /\ Occurs(m, seq) = Cardinality(I)
    BY DEF Occurs
  <2> HIDE DEF I, J
  <2> QED BY <1>2, <1>4, <2>1, <2>2
<1> QED BY <1>3, <1>4

LEMMA OccursInEmpty == \A m : Occurs(m, <<>>) = 0
<1> SUFFICES ASSUME NEW m PROVE Occurs(m, <<>>) = 0
  OBVIOUS
<1>1. {i \in 1..Len(<<>>) : <<>>[i] = m} = {}
  OBVIOUS
<1> QED BY <1>1, FS_EmptySet DEF Occurs

(* What the account of message m adds up.                                   *)
LEMMA PlacesAreCounted ==
  ASSUME HostTypeOK, NEW m \in HostMessage
  PROVE  /\ Occurs(m, queued) \in Nat /\ taken[m] \in Nat
         /\ Occurs(m, batch["prompt"]) \in Nat /\ Occurs(m, batch["wake"]) \in Nat
         /\ Occurs(m, queued) = 0 <=> m \notin Messages(queued)
         /\ \A h \in Host : Occurs(m, batch[h]) = 0 <=> m \notin Messages(batch[h])
<1>1. queued \in Seq(HostMessage \cup {Chained}) /\ \A h \in Host : batch[h] \in Seq(HostMessage \cup {Chained})
  BY DEF HostTypeOK
<1> QED BY <1>1, OccursIsCounted DEF HostTypeOK, Host, Messages

(* Nothing is sent, moved, taken or dropped.                                *)
LEMMA AccountUntouched ==
  ASSUME AccountInv, UNCHANGED <<queued, batch, taken, dropped>>,
         \A m \in HostMessage : source'[m] = "unsent" <=> source[m] = "unsent"
  PROVE  AccountInv'
BY DEF AccountInv, Places, Due

(* The whole queue becomes the batch of h, which has none.                  *)
LEMMA QueueBecomesBatch ==
  ASSUME HostInv, AccountInv, NEW h \in Host, batch[h] = <<>>,
         batch' = [batch EXCEPT ![h] = queued], queued' = <<>>, UNCHANGED <<source, taken, dropped>>
  PROVE  AccountInv'
<1> SUFFICES ASSUME NEW m \in HostMessage PROVE Places(m)' = Places(m)
  BY DEF AccountInv, Due
<1>1. batch'[h] = queued /\ \A g \in Host \ {h} : batch'[g] = batch[g]
  BY DEF HostInv, HostTypeOK
<1> QED BY <1>1, OccursInEmpty, PlacesAreCounted DEF Places, Host, HostInv

(* The batch of h is taken or dropped.                                      *)
LEMMA BatchGoes ==
  ASSUME HostInv, AccountInv, NEW h \in Host, batch' = [batch EXCEPT ![h] = <<>>],
         UNCHANGED <<queued, source>>,
         \/ taken' = Delivered(batch[h]) /\ dropped' = dropped
         \/ taken' = taken /\ dropped' = dropped \cup Messages(batch[h])
  PROVE  AccountInv'
<1> SUFFICES ASSUME NEW m \in HostMessage
             PROVE  Places(m)' = Due(m)' /\ (m \in dropped' => source[m] # "unsent")
  BY DEF AccountInv
<1>1. batch'[h] = <<>> /\ \A g \in Host \ {h} : batch'[g] = batch[g]
  BY DEF HostInv, HostTypeOK
<1>2. Places(m) = Due(m) /\ Due(m) \in {0, 1} /\ (m \in dropped => source[m] # "unsent")
  BY DEF AccountInv, Due
<1>3. CASE m \notin Messages(batch[h])
  <2>1. Occurs(m, batch[h]) = 0 /\ taken'[m] = taken[m] /\ (m \in dropped' <=> m \in dropped)
    BY <1>3, PlacesAreCounted DEF HostInv, HostTypeOK, Delivered, Messages
  <2> QED BY <1>1, <1>2, <2>1, OccursInEmpty DEF Places, Due, Host
<1>4. CASE m \in Messages(batch[h])
  <2>1. Occurs(m, batch[h]) # 0 /\ Occurs(m, batch[h]) \in Nat
    BY <1>4, PlacesAreCounted DEF HostInv, Host
  <2>2. /\ Occurs(m, batch[h]) = 1 /\ Occurs(m, queued) = 0 /\ taken[m] = 0
        /\ \A g \in Host \ {h} : Occurs(m, batch[g]) = 0
        /\ m \notin dropped /\ source[m] # "unsent"
    BY <1>2, <2>1, PlacesAreCounted DEF HostInv, Host, Places, Due
  <2>3. Places(m)' = taken'[m]
    <3>1. Occurs(m, batch'["prompt"]) = 0 /\ Occurs(m, batch'["wake"]) = 0
      BY <1>1, <2>2, OccursInEmpty DEF Host
    <3>2. taken'[m] \in Nat
      BY <1>4, <2>2 DEF Delivered, Messages, HostInv, HostTypeOK
    <3> QED BY <2>2, <3>1, <3>2 DEF Places
  <2>4. (taken'[m] = 1 /\ m \notin dropped') \/ (taken'[m] = 0 /\ m \in dropped')
    <3>1. CASE taken' = Delivered(batch[h]) /\ dropped' = dropped
      <4>1. m \in Elements(batch[h])
        BY <1>4 DEF Messages
      <4>2. taken'[m] = taken[m] + 1
        BY <3>1, <4>1 DEF Delivered
      <4> QED BY <2>2, <3>1, <4>2
    <3>2. CASE taken' = taken /\ dropped' = dropped \cup Messages(batch[h])
      BY <1>4, <2>2, <3>2
    <3> QED BY <3>1, <3>2
  <2> QED BY <2>2, <2>3, <2>4 DEF Due
<1> QED BY <1>3, <1>4

(* The queue is taken or dropped, but for what is chained.                  *)
LEMMA QueueGoes ==
  ASSUME HostInv, AccountInv, queued' \in {<<>>, <<Chained>>}, UNCHANGED <<batch, source>>,
         \/ taken' = Delivered(queued) /\ dropped' = dropped
         \/ taken' = taken /\ dropped' = dropped \cup Messages(queued)
  PROVE  AccountInv'
<1> SUFFICES ASSUME NEW m \in HostMessage
             PROVE  Places(m)' = Due(m)' /\ (m \in dropped' => source[m] # "unsent")
  BY DEF AccountInv
<1>1. Occurs(m, queued') = 0
  <2>1. m # Chained
    BY HostAssumption
  <2>2. Occurs(m, <<Chained>>) = 0
    <3>1. <<Chained>> \in Seq({Chained}) /\ m \notin Elements(<<Chained>>)
      BY <2>1 DEF Elements
    <3> QED BY <3>1, OccursIsCounted
  <2> QED BY <2>2, OccursInEmpty
<1>2. Places(m) = Due(m) /\ Due(m) \in {0, 1} /\ (m \in dropped => source[m] # "unsent")
  BY DEF AccountInv, Due
<1>3. CASE m \notin Messages(queued)
  <2>1. Occurs(m, queued) = 0 /\ taken'[m] = taken[m] /\ (m \in dropped' <=> m \in dropped)
    BY <1>3, PlacesAreCounted DEF HostInv, HostTypeOK, Delivered, Messages
  <2> QED BY <1>1, <1>2, <2>1 DEF Places, Due
<1>4. CASE m \in Messages(queued)
  <2>1. Occurs(m, queued) # 0 /\ Occurs(m, queued) \in Nat
    BY <1>4, PlacesAreCounted DEF HostInv
  <2>2. /\ Occurs(m, batch["prompt"]) = 0 /\ Occurs(m, batch["wake"]) = 0 /\ taken[m] = 0
        /\ m \notin dropped /\ source[m] # "unsent"
    BY <1>2, <2>1, PlacesAreCounted DEF HostInv, Places, Due
  <2>3. (taken'[m] = 1 /\ m \notin dropped') \/ (taken'[m] = 0 /\ m \in dropped')
    <3>1. CASE taken' = Delivered(queued) /\ dropped' = dropped
      <4>1. m \in Elements(queued)
        BY <1>4 DEF Messages
      <4>2. taken'[m] = taken[m] + 1
        BY <3>1, <4>1 DEF Delivered
      <4> QED BY <2>2, <3>1, <4>2
    <3>2. CASE taken' = taken /\ dropped' = dropped \cup Messages(queued)
      BY <1>4, <2>2, <3>2
    <3> QED BY <3>1, <3>2
  <2> QED BY <1>1, <2>2, <2>3 DEF Places, Due
<1> QED BY <1>3, <1>4

(* One message is sent, or one is chained, which nothing accounts for.      *)
LEMMA QueueGrows ==
  ASSUME HostInv, AccountInv, NEW x \in HostMessage \cup {Chained}, queued' = Append(queued, x),
         UNCHANGED <<batch, taken, dropped>>,
         \A m \in HostMessage : IF m = x THEN source[m] = "unsent" /\ source'[m] # "unsent"
                                         ELSE source'[m] = source[m]
  PROVE  AccountInv'
<1> SUFFICES ASSUME NEW m \in HostMessage
             PROVE  Places(m)' = Due(m)' /\ (m \in dropped => source'[m] # "unsent")
  BY DEF AccountInv
<1>1. Occurs(m, queued') = Occurs(m, queued) + (IF x = m THEN 1 ELSE 0)
  BY OccursInAppend DEF HostInv, HostTypeOK
<1>2. Places(m) = Due(m) /\ (m \in dropped => source[m] # "unsent")
  BY DEF AccountInv
<1> QED BY <1>1, <1>2, PlacesAreCounted DEF HostInv, Places, Due

LEMMA AccountStarts == HostInit => AccountInv
BY OccursInEmpty DEF HostInit, AccountInv, Places, Due, Host

LEMMA AccountSteps == ASSUME HostInv, AccountInv, HostNext PROVE AccountInv'
<1>1. CASE Prompt
  <2>1. \A h \in Host : batch[h] = <<>> /\ batch \in [Host -> Seq(HostMessage \cup {Chained})]
    BY <1>1, NobodyYet DEF Prompt, HostInv, HostTypeOK
  <2>2. batch' = batch /\ UNCHANGED <<queued, taken, dropped, source>>
    BY <1>1, <2>1 DEF Prompt, Host, sessionVars
  <2> QED BY <2>2, AccountUntouched
<1>2. CASE RunWake
  <2>1. CASE IdleForWake /\ queued # <<>>
    <3>1. batch["wake"] = <<>> /\ "wake" \in Host
      BY <2>1, NobodyYet DEF IdleForWake, Host
    <3>2. /\ batch' = [batch EXCEPT !["wake"] = queued] /\ queued' = <<>>
          /\ UNCHANGED <<source, taken, dropped>>
      BY <1>2, <2>1 DEF RunWake
    <3> QED BY <3>1, <3>2, QueueBecomesBatch
  <2>2. CASE ~(IdleForWake /\ queued # <<>>)
    BY <1>2, <2>2, AccountUntouched DEF RunWake
  <2> QED BY <2>1, <2>2
<1>3. CASE Cancel
  BY <1>3, AccountUntouched DEF Cancel, sessionVars
<1>4. ASSUME NEW h \in Host, Drain(h) PROVE AccountInv'
  <2>1. CASE queued = <<>>
    BY <1>4, <2>1, AccountUntouched DEF Drain, historyVars
  <2>2. CASE queued # <<>>
    <3>1. batch[h] = <<>>
      BY <1>4 DEF Drain, HostInv, ChainInv, RunInv
    <3> QED BY <1>4, <2>2, <3>1, QueueBecomesBatch DEF Drain, historyVars
  <2> QED BY <2>1, <2>2
<1>5. ASSUME NEW h \in Host, EndRun(h) PROVE AccountInv'
  <2>1. batch' = [batch EXCEPT ![h] = <<>>] /\ UNCHANGED <<queued, source, taken>>
    BY <1>5 DEF EndRun, sessionVars
  <2>2. CASE awaits[h] = "notify"
    BY <1>5, <2>1, <2>2, BatchGoes DEF EndRun
  <2>3. CASE awaits[h] # "notify"
    <3>1. batch[h] = <<>> /\ dropped' = dropped
      BY <1>5, <2>3 DEF EndRun, HostInv, ChainInv, RunInv
    <3>2. batch' = batch
      BY <2>1, <3>1 DEF HostInv, HostTypeOK
    <3> QED BY <2>1, <3>1, <3>2, AccountUntouched
  <2> QED BY <2>2, <2>3
<1>6. ASSUME NEW h \in Host, StopPump(h) \/ NextIteration(h) \/ TurnCompletes(h) \/ TurnStops(h)
      PROVE  AccountInv'
  BY <1>6, AccountUntouched
  DEF StopPump, NextIteration, TurnCompletes, TurnStops, loopVars, sessionVars, historyVars
<1>7. ASSUME NEW h \in Host, TurnStarts(h) \/ TurnFailsToStart(h) PROVE AccountInv'
  BY <1>7, BatchGoes DEF TurnStarts, TurnFailsToStart
<1>8. ASSUME NEW h \in Host, DeliverMidTurn(h) PROVE AccountInv'
  BY <1>8, QueueGoes DEF DeliverMidTurn, loopVars
<1>9. ASSUME NEW h \in Host, AgentTurnEndHook(h) PROVE AccountInv'
  <2>1. UNCHANGED <<batch, source, taken>>
    BY <1>9 DEF AgentTurnEndHook, loopVars
  <2>2. CASE Says
    <3>1. CASE queued' = queued
      BY <2>1, <2>2, <3>1, AccountUntouched DEF Says
    <3>2. CASE queued' = Append(queued, Chained)
      BY <2>1, <2>2, <3>2, HostAssumption, QueueGrows DEF Says
    <3> QED BY <2>2, <3>1, <3>2 DEF Says
  <2>3. CASE Resets
    BY <2>1, <2>3, QueueGoes DEF Resets
  <2> QED BY <1>9, <2>2, <2>3 DEF AgentTurnEndHook
<1>10. ASSUME NEW m \in HostMessage, EnqueueMessage(m) \/ EventEnqueues(m) PROVE AccountInv'
  <2>1. /\ queued' = Append(queued, m) /\ source[m] = "unsent"
        /\ source' = [source EXCEPT ![m] = "sent"] \/ source' = [source EXCEPT ![m] = "enqueued"]
        /\ UNCHANGED <<batch, taken, dropped>>
    BY <1>10 DEF EnqueueMessage, EventEnqueues, loopVars, historyVars
  <2> QED BY <2>1, QueueGrows DEF HostInv, HostTypeOK
<1>11. ASSUME NEW m \in HostMessage, DeliverWake(m) PROVE AccountInv'
  BY <1>11, AccountUntouched DEF DeliverWake, sessionVars, historyVars, HostInv, HostTypeOK
<1> QED
  BY <1>1, <1>2, <1>3, <1>4, <1>5, <1>6, <1>7, <1>8, <1>9, <1>10, <1>11
  DEF HostNext, Loop, Work, Starts, Ends

LEMMA AccountNextInv == ASSUME HostInv, AccountInv, [Next]_vars PROVE AccountInv'
<1>1. CASE UNCHANGED hostVars
  BY <1>1, AccountUntouched DEF hostVars, sessionVars, loopVars, historyVars
<1> QED BY <1>1, AccountSteps DEF Next, vars

-----------------------------------------------------------------------------
(* Texts of the terminal host                                               *)

(* A text was meant for a session that exists; an activity's texts wait     *)
(* nowhere and are no other's; and each but the initial message is in one   *)
(* of the two places.                                                       *)
TextsInv ==
  /\ \A m \in Text : home[m] <= live
  /\ \A a \in Activities : \A m \in activities[a].texts :
       /\ home[m] # 0 /\ m \notin waiting[home[m]]
       /\ \A b \in Activities : m \in activities[b].texts => a = b
  /\ \A m \in Text \ {FromStart} : home[m] # 0 =>
       m \in waiting[home[m]] \/ \E a \in Activities : m \in activities[a].texts

LEMMA TextsTyped ==
  ASSUME ReplInv
  PROVE  /\ live \in Nat /\ live # 0 /\ live \in Number
         /\ home \in [Text -> Number \cup {0}] /\ \A m \in Text : home[m] \in Nat
         /\ waiting \in [Number -> SUBSET Text]
         /\ \A s \in Number : \A m \in waiting[s] : m \in Text /\ home[m] = s
         /\ \A a \in Activities : activities[a].texts \subseteq Text
         /\ \A s \in Number : s \in Nat /\ s # 0
BY DEF ReplInv, ReplTyped, ReplTypeOK, HomeInv, Number

LEMMA FreshIsEmpty ==
  ASSUME ReplInv, TextsInv, live + 1 \in Number
  PROVE  waiting[live + 1] = {}
<1> SUFFICES ASSUME NEW m \in waiting[live + 1] PROVE FALSE
  OBVIOUS
<1>1. m \in Text /\ home[m] = live + 1
  BY TextsTyped
<1>2. home[m] <= live
  BY <1>1 DEF TextsInv
<1> QED BY <1>1, <1>2, TextsTyped

(* No text moves.                                                           *)
LEMMA TextsStay ==
  ASSUME ReplInv, TextsInv, Len(activities') = Len(activities),
         \A a \in Activities : activities'[a].texts = activities[a].texts,
         UNCHANGED <<waiting, home>>, live' \in {live, live + 1}
  PROVE  TextsInv'
<1>1. Activities' = Activities
  BY DEF Activities
<1>2. \A m \in Text : home'[m] <= live'
  BY TextsTyped DEF TextsInv
<1> QED BY <1>1, <1>2 DEF TextsInv

(* The texts in S become those of activity new: what waited, or what was    *)
(* nowhere.                                                                 *)
LEMMA TextsMove ==
  ASSUME ReplInv, ReplInv', TextsInv, NEW new, Activities' = Activities \cup {new},
         NEW S \in SUBSET Text,
         \A a \in Activities \ {new} : activities'[a].texts = activities[a].texts,
         activities'[new].texts = S \cup (IF new \in Activities THEN activities[new].texts ELSE {}),
         \A s \in Number : waiting'[s] = waiting[s] \ S,
         \A m \in S : /\ home'[m] # 0 /\ home'[m] <= live'
                      /\ \A a \in Activities : m \notin activities[a].texts,
         \A m \in Text \ S : home'[m] = home[m],
         live' \in {live, live + 1}
  PROVE  TextsInv'
<1>1. \A m \in Text : home'[m] <= live'
  BY TextsTyped DEF TextsInv
<1>2. ASSUME NEW m \in Text, NEW a \in Activities' PROVE
        m \in activities'[a].texts <=> \/ m \in S /\ a = new
                                       \/ m \notin S /\ a \in Activities /\ m \in activities[a].texts
  <2>1. CASE a = new
    BY <2>1
  <2>2. CASE a # new
    BY <2>2
  <2> QED BY <2>1, <2>2
<1>3. ASSUME NEW a \in Activities', NEW m \in activities'[a].texts
      PROVE  /\ home'[m] # 0 /\ m \notin waiting'[home'[m]]
             /\ \A b \in Activities' : m \in activities'[b].texts => a = b
  <2>0. m \in Text /\ home'[m] \in Number \cup {0}
    <3>1. activities'[a].texts \subseteq Text /\ home' \in [Text -> Number \cup {0}]
      BY DEF ReplInv, ReplTyped, ReplTypeOK
    <3> QED BY <3>1
  <2>1. CASE m \in S
    BY <1>2, <2>0, <2>1
  <2>2. CASE m \notin S
    <3>1. a \in Activities /\ m \in activities[a].texts /\ home'[m] = home[m]
      BY <1>2, <2>0, <2>2
    <3>2. home[m] # 0 /\ m \notin waiting[home[m]]
      BY <3>1 DEF TextsInv
    <3>3. \A b \in Activities : m \in activities[b].texts => a = b
      BY <3>1 DEF TextsInv
    <3> QED BY <1>2, <2>0, <2>2, <3>1, <3>2, <3>3
  <2> QED BY <2>1, <2>2
<1>4. ASSUME NEW m \in Text \ {FromStart}, home'[m] # 0
      PROVE  m \in waiting'[home'[m]] \/ \E a \in Activities' : m \in activities'[a].texts
  <2>1. CASE m \in S
    BY <1>2, <2>1
  <2>2. CASE m \notin S
    <3>1. home'[m] = home[m] /\ home[m] \in Number
      BY <1>4, <2>2, TextsTyped
    <3>2. m \in waiting[home[m]] \/ \E a \in Activities : m \in activities[a].texts
      BY <1>4, <3>1 DEF TextsInv
    <3> QED BY <1>2, <2>2, <3>1, <3>2
  <2> QED BY <2>1, <2>2
<1> QED BY <1>1, <1>3, <1>4 DEF TextsInv

(* A text that was nowhere waits in the live session.                       *)
LEMMA TextWaits ==
  ASSUME ReplInv, TextsInv, NEW m \in Text, home[m] = 0, Meant(m),
         waiting' = [waiting EXCEPT ![live] = @ \cup {m}], UNCHANGED <<activities, live>>
  PROVE  TextsInv'
<1>1. /\ home'[m] = live /\ \A k \in Text \ {m} : home'[k] = home[k]
      /\ waiting'[live] = waiting[live] \cup {m}
      /\ \A s \in Number \ {live} : waiting'[s] = waiting[s]
  BY TextsTyped DEF Meant
<1>2. \A a \in Activities : m \notin activities[a].texts
  BY DEF TextsInv
<1>3. Activities' = Activities
  BY DEF Activities
<1>4. \A k \in Text : home'[k] <= live'
  BY <1>1, TextsTyped DEF TextsInv
<1>5. ASSUME NEW a \in Activities, NEW k \in activities[a].texts
      PROVE  /\ home'[k] # 0 /\ k \notin waiting'[home'[k]]
             /\ \A b \in Activities : k \in activities[b].texts => a = b
  <2>1. k \in Text /\ k # m /\ home[k] \in Number
    BY <1>2, TextsTyped DEF TextsInv
  <2>2. home[k] # 0 /\ k \notin waiting[home[k]] /\ \A b \in Activities : k \in activities[b].texts => a = b
    BY DEF TextsInv
  <2>3. home'[k] = home[k]
    BY <1>1, <2>1
  <2> QED BY <1>1, <2>1, <2>2, <2>3
<1>6. ASSUME NEW k \in Text \ {FromStart}, home'[k] # 0
      PROVE  k \in waiting'[home'[k]] \/ \E a \in Activities : k \in activities[a].texts
  <2>1. CASE k = m
    BY <1>1, <2>1
  <2>2. CASE k # m
    <3>1. home'[k] = home[k] /\ home[k] \in Number
      BY <1>1, <1>6, <2>2, TextsTyped
    <3>2. k \in waiting[home[k]] \/ \E a \in Activities : k \in activities[a].texts
      BY <1>6, <3>1 DEF TextsInv
    <3> QED BY <1>1, <3>1, <3>2
  <2> QED BY <2>1, <2>2
<1> QED BY <1>3, <1>4, <1>5, <1>6 DEF TextsInv

LEMMA Grown ==
  ASSUME ReplInv, NEW r \in Activity, NEW w \in Seq(Activity), Len(w) = Len(activities),
         activities' = Append(w, r)
  PROVE  /\ Activities' = Activities \cup {Len(activities) + 1}
         /\ Len(activities) + 1 \notin Activities
         /\ \A a \in Activities : activities'[a] = w[a]
         /\ activities'[Len(activities) + 1] = r
<1>1. /\ Len(activities') = Len(w) + 1
      /\ \A b \in 1..Len(w) : activities'[b] = w[b]
      /\ activities'[Len(w) + 1] = r
  BY AppendedToSequence
<1>2. Len(w) \in Nat
  OBVIOUS
<1> QED BY <1>1, <1>2 DEF Activities

(* A new activity is given what waits for the live session.                 *)
LEMMA QueueIsSubmitted ==
  ASSUME ReplInv, ReplInv', TextsInv, NEW w \in Seq(Activity), Len(w) = Len(activities),
         \A a \in Activities : w[a].texts = activities[a].texts,
         SubmitTo(w, waiting[live], TRUE), waiting' = [waiting EXCEPT ![live] = {}],
         UNCHANGED <<live, home>>
  PROVE  TextsInv'
<1> DEFINE r == NewActivity("mount", waiting[live], TRUE)
<1>1. r \in Activity /\ r.texts = waiting[live] /\ waiting[live] \in SUBSET Text
  BY TextsTyped, NewActivityIsOne
<1>2. activities' = Append(w, r)
  BY DEF SubmitTo
<1> HIDE DEF r
<1>0. PICK n, T : n = Len(activities) + 1 /\ T = waiting[live]
  OBVIOUS
<1>3. /\ Activities' = Activities \cup {n} /\ n \notin Activities
      /\ \A a \in Activities : activities'[a] = w[a]
      /\ activities'[n] = r
  BY <1>0, <1>1, <1>2, Grown
<1>4. \A s \in Number : waiting'[s] = waiting[s] \ T
  BY <1>0, TextsTyped
<1>5. \A m \in T : /\ home'[m] # 0 /\ home'[m] <= live'
                   /\ \A a \in Activities : m \notin activities[a].texts
  BY <1>0, TextsTyped DEF TextsInv
<1>6. T \in SUBSET Text /\ r.texts = T
  BY <1>0, <1>1
<1>7. activities'[n].texts = T \cup (IF n \in Activities THEN activities[n].texts ELSE {})
  BY <1>3, <1>6
<1>8. \A a \in Activities \ {n} : activities'[a].texts = activities[a].texts
  BY <1>3
<1>9. \A m \in Text \ T : home'[m] = home[m]
  OBVIOUS
<1>10. live' \in {live, live + 1} /\ Activities' = Activities \cup {n}
  BY <1>3
<1> QED BY <1>4, <1>5, <1>6, <1>7, <1>8, <1>9, <1>10, TextsMove, Zenon

(* A text that was nowhere is given to a new activity, or none is.          *)
LEMMA TextIsSubmitted ==
  ASSUME ReplInv, ReplInv', TextsInv, NEW T \in SUBSET Text, NEW r \in Activity, r.texts = T,
         activities' = Append(activities, r), UNCHANGED <<live, waiting>>,
         \A m \in T : home[m] = 0 /\ home'[m] = live,
         \A m \in Text \ T : home'[m] = home[m]
  PROVE  TextsInv'
<1>1. activities \in Seq(Activity)
  BY DEF ReplInv, ReplTyped
<1>0. PICK n : n = Len(activities) + 1
  OBVIOUS
<1>2. /\ Activities' = Activities \cup {n} /\ n \notin Activities
      /\ \A a \in Activities : activities'[a] = activities[a]
      /\ activities'[n] = r
  BY <1>0, <1>1, Grown
<1>3. \A s \in Number : waiting'[s] = waiting[s] \ T
  BY TextsTyped
<1>4. \A m \in T : /\ home'[m] # 0 /\ home'[m] <= live'
                   /\ \A a \in Activities : m \notin activities[a].texts
  BY TextsTyped DEF TextsInv
<1>5. activities'[n].texts = T \cup (IF n \in Activities THEN activities[n].texts ELSE {})
  BY <1>2
<1>6. \A a \in Activities \ {n} : activities'[a].texts = activities[a].texts
  BY <1>2
<1>7. live' \in {live, live + 1} /\ Activities' = Activities \cup {n}
  BY <1>2
<1> QED BY <1>3, <1>4, <1>5, <1>6, <1>7, TextsMove, Zenon

(* One worker's step that moves no text.                                    *)
LEMMA WorkerKeepsTexts ==
  ASSUME ReplInv, TextsInv, IdleMeansEmpty, NEW a \in Activities, NEW r \in Activity,
         r.texts = activities[a].texts, activities' = [activities EXCEPT ![a] = r],
         UNCHANGED <<waiting, workerUnchanged>>
  PROVE  TextsInv' /\ IdleMeansEmpty'
<1>1. /\ Len(activities') = Len(activities)
      /\ \A b \in Activities : activities'[b] = IF b = a THEN r ELSE activities[b]
  BY ReplacedInSequence DEF ReplInv, ReplTyped, Activities
<1>2. UNCHANGED <<turnInFlight, exited, live, pings, pinging, home, waiting>>
  BY DEF workerUnchanged, hostState
<1> QED BY <1>1, <1>2, TextsStay DEF IdleMeansEmpty

LEMMA StepKeepsTexts ==
  ASSUME ReplInv, TextsInv, IdleMeansEmpty, NEW a \in Activities, NEW from,
         NEW next \in {"turn", "panel", "late", "unwinding", "over"}, Step(a, from, next),
         UNCHANGED <<waiting, workerUnchanged>>
  PROVE  TextsInv' /\ IdleMeansEmpty'
<1> DEFINE r == [activities[a] EXCEPT !.step = next]
<1>1. r \in Activity /\ r.texts = activities[a].texts
  BY Recorded DEF Activity
<1>2. activities' = [activities EXCEPT ![a] = r]
  BY DEF Step
<1> QED BY <1>1, <1>2, WorkerKeepsTexts

LEMMA TurnKeepsTexts ==
  ASSUME ReplInv, TextsInv, IdleMeansEmpty, NEW a \in Activities,
         SendTurn(a) \/ Ask(a) \/ OpenPanel(a) \/ Answer(a) \/ ActivityEnds(a)
  PROVE  TextsInv' /\ IdleMeansEmpty'
<1>1. CASE SendTurn(a)
  <2> DEFINE r == [activities[a] EXCEPT !.step = "turn", !.session = live]
  <2>0. live \in Number
    BY TextsTyped
  <2>1. r \in Activity /\ r.texts = activities[a].texts
    BY <2>0, Recorded DEF Activity
  <2>2. activities' = [activities EXCEPT ![a] = r]
    BY <1>1 DEF SendTurn
  <2> QED BY <1>1, <2>1, <2>2, WorkerKeepsTexts DEF SendTurn
<1>2. CASE Ask(a)
  <2>1. PICK next \in {"asking", "limit"} :
          activities' = [activities EXCEPT ![a] = [activities[a] EXCEPT !.step = next, !.asked = TRUE]]
    BY <1>2 DEF Ask
  <2> DEFINE r == [activities[a] EXCEPT !.step = next, !.asked = TRUE]
  <2>2. r \in Activity /\ r.texts = activities[a].texts
    BY Recorded DEF Activity
  <2> QED BY <1>2, <2>1, <2>2, WorkerKeepsTexts DEF Ask
<1>3. CASE OpenPanel(a) \/ Answer(a)
  <2>1. PICK from \in {"asking", "panel", "late", "limit"}, next \in {"turn", "panel", "late"} :
          Step(a, from, next)
    BY <1>3 DEF OpenPanel, Answer
  <2> QED BY <1>3, <2>1, StepKeepsTexts DEF OpenPanel, Answer
<1>4. CASE ActivityEnds(a)
  <2>1. PICK ok \in {FALSE, At(a, "turn")} :
          activities' = [activities EXCEPT ![a] = [activities[a] EXCEPT !.step = "handler", !.ok = ok]]
    BY <1>4 DEF ActivityEnds
  <2> DEFINE r == [activities[a] EXCEPT !.step = "handler", !.ok = ok]
  <2>0. ok \in BOOLEAN
    BY DEF At
  <2>2. r \in Activity /\ r.texts = activities[a].texts
    BY <2>0, Recorded DEF Activity
  <2> QED BY <1>4, <2>1, <2>2, WorkerKeepsTexts DEF ActivityEnds
<1> QED BY <1>1, <1>2, <1>3, <1>4

LEMMA FoldInKeepsTexts ==
  ASSUME ReplInv, ReplInv', TextsInv, IdleMeansEmpty, NEW a \in Activities, FoldIn(a)
  PROVE  TextsInv' /\ IdleMeansEmpty'
<1> DEFINE r == [activities[a] EXCEPT !.texts = @ \cup waiting[activities[a].session]]
<1>1. PICK s \in Number : s = activities[a].session
  BY Recorded DEF FoldIn, At, Sound, Activity
<1>2. PICK T \in SUBSET Text : T = waiting[s]
  BY TextsTyped
<1>3. r \in Activity /\ r.texts = T \cup activities[a].texts
  BY <1>1, <1>2, TextsTyped, Recorded DEF Activity
<1>4. activities' = [activities EXCEPT ![a] = r] /\ waiting' = [waiting EXCEPT ![s] = {}]
  BY <1>1 DEF FoldIn
<1>5. UNCHANGED <<turnInFlight, exited, live, pings, pinging, home>>
  BY DEF FoldIn, workerUnchanged, hostState
<1> HIDE DEF r
<1>6. /\ Len(activities') = Len(activities)
      /\ \A b \in Activities : activities'[b] = IF b = a THEN r ELSE activities[b]
  BY <1>3, <1>4, ReplacedInSequence DEF ReplInv, ReplTyped, Activities
<1>7. Activities' = Activities \cup {a}
  BY <1>6 DEF Activities
<1>8. \A b \in Activities \ {a} : activities'[b].texts = activities[b].texts
  BY <1>6
<1>9. activities'[a].texts = T \cup (IF a \in Activities THEN activities[a].texts ELSE {})
  BY <1>3, <1>6
<1>10. \A t \in Number : waiting'[t] = waiting[t] \ T
  BY <1>2, <1>4, TextsTyped
<1>11. \A m \in T : /\ home'[m] # 0 /\ home'[m] <= live'
                    /\ \A b \in Activities : m \notin activities[b].texts
  BY <1>2, <1>5, TextsTyped DEF TextsInv
<1>12. (\A m \in Text \ T : home'[m] = home[m]) /\ live' \in {live, live + 1}
  BY <1>5
<1>13. TextsInv'
  BY <1>7, <1>8, <1>9, <1>10, <1>11, <1>12, TextsMove, Zenon
<1>14. waiting'[live] \subseteq waiting[live]
  BY <1>10, TextsTyped
<1> QED BY <1>5, <1>13, <1>14 DEF IdleMeansEmpty

LEMMA FinishKeepsTexts ==
  ASSUME ReplInv, ReplInv', TextsInv, NEW a \in Activities, NEW next \in {"unwinding", "over"},
         FinishTurn(a, next)
  PROVE  TextsInv' /\ IdleMeansEmpty'
<1> DEFINE f == [activities[a] EXCEPT !.step = next, !.finished = TRUE]
           w == [activities EXCEPT ![a] = f]
<1>1. f \in Activity /\ f.texts = activities[a].texts
  BY Recorded DEF Activity
<1>2. /\ w \in Seq(Activity) /\ Len(w) = Len(activities)
      /\ \A b \in Activities : w[b] = IF b = a THEN f ELSE activities[b]
  BY <1>1, ReplacedInSequence DEF ReplInv, ReplTyped, Activities
<1>3. /\ live' = IF replacing THEN live + 1 ELSE live
      /\ home' = home
      /\ IF replacing \/ waiting[live] = {}
           THEN activities' = w /\ waiting' = waiting
           ELSE SubmitTo(w, waiting[live], TRUE) /\ waiting' = [waiting EXCEPT ![live] = {}]
  BY DEF FinishTurn
<1> HIDE DEF f, w
<1>4. \A b \in Activities : w[b].texts = activities[b].texts
  BY <1>1, <1>2
<1>5. live' \in Number
  BY DEF ReplInv, ReplTyped, ReplTypeOK
<1>6. CASE replacing
  <2>1. live' = live + 1 /\ activities' = w /\ waiting' = waiting
    BY <1>3, <1>6
  <2>2. waiting[live + 1] = {}
    BY <1>5, <2>1, FreshIsEmpty
  <2>3. TextsInv'
    BY <1>2, <1>3, <1>4, <2>1, TextsStay
  <2> QED BY <2>1, <2>2, <2>3 DEF IdleMeansEmpty
<1>7. CASE ~replacing /\ waiting[live] = {}
  <2>1. live' = live /\ activities' = w /\ waiting' = waiting
    BY <1>3, <1>7
  <2>2. TextsInv'
    BY <1>2, <1>3, <1>4, <2>1, TextsStay
  <2> QED BY <1>7, <2>1, <2>2 DEF IdleMeansEmpty
<1>8. CASE ~replacing /\ waiting[live] # {}
  <2>1. /\ live' = live /\ SubmitTo(w, waiting[live], TRUE)
        /\ waiting' = [waiting EXCEPT ![live] = {}]
    BY <1>3, <1>8
  <2>2. TextsInv'
    BY <1>2, <1>3, <1>4, <2>1, QueueIsSubmitted
  <2> QED BY <2>1, <2>2 DEF SubmitTo, IdleMeansEmpty
<1> QED BY <1>6, <1>7, <1>8

LEMMA EndKeepsTexts ==
  ASSUME ReplInv, ReplInv', TextsInv, IdleMeansEmpty, NEW a \in Activities, Handle(a) \/ Backstop(a)
  PROVE  TextsInv' /\ IdleMeansEmpty'
<1>1. CASE FinishTurn(a, "unwinding") \/ FinishTurn(a, "over")
  BY <1>1, FinishKeepsTexts
<1>2. CASE \/ Step(a, "handler", "unwinding") /\ UNCHANGED <<waiting, workerUnchanged>>
           \/ Step(a, "unwinding", "over") /\ UNCHANGED <<waiting, workerUnchanged>>
  BY <1>2, StepKeepsTexts
<1> QED BY <1>1, <1>2 DEF Handle, Backstop

(* A text, or none, with a home from now on, goes to a new activity.        *)
LEMMA SubmitKeepsTexts ==
  ASSUME ReplInv, ReplInv', TextsInv, NEW T \in SUBSET Text, NEW step \in {"mount", "command"},
         activities' = Append(activities, NewActivity(step, T, FALSE)), turnInFlight' = TRUE,
         UNCHANGED <<live, waiting>>,
         \A m \in T : home[m] = 0 /\ home'[m] = live,
         \A m \in Text \ T : home'[m] = home[m]
  PROVE  TextsInv' /\ IdleMeansEmpty'
<1> DEFINE r == NewActivity(step, T, FALSE)
<1>1. r \in Activity /\ r.texts = T
  BY NewActivityIsOne
<1> HIDE DEF r
<1>2. TextsInv'
  BY <1>1, TextIsSubmitted DEF r
<1> QED BY <1>2 DEF IdleMeansEmpty

LEMMA EnterKeepsTexts ==
  ASSUME ReplInv, ReplInv', TextsInv, IdleMeansEmpty, NEW m \in Text, Enter(m)
  PROVE  TextsInv' /\ IdleMeansEmpty'
<1>1. home[m] = 0 /\ Meant(m) /\ live' = live
  BY DEF Enter
<1>2. CASE turnInFlight
  <2>1. /\ waiting' = [waiting EXCEPT ![live] = @ \cup {m}]
        /\ UNCHANGED <<activities, live, turnInFlight>>
    BY <1>2 DEF Enter
  <2>2. TextsInv'
    BY <1>1, <2>1, TextWaits
  <2> QED BY <1>2, <2>1, <2>2 DEF IdleMeansEmpty
<1>3. CASE ~turnInFlight
  <2>1. SubmitTo(activities, {m}, FALSE) /\ waiting' = waiting
    BY <1>3 DEF Enter
  <2>2. activities' = Append(activities, NewActivity("mount", {m}, FALSE)) /\ turnInFlight' = TRUE
    BY <2>1 DEF SubmitTo
  <2>3. home'[m] = live /\ \A k \in Text \ {m} : home'[k] = home[k]
    BY <1>1, TextsTyped DEF Meant
  <2>4. {m} \in SUBSET Text /\ "mount" \in {"mount", "command"}
    OBVIOUS
  <2>5. \A k \in {m} : home[k] = 0 /\ home'[k] = live
    BY <1>1, <2>3
  <2>6. UNCHANGED <<live, waiting>>
    BY <1>1, <2>1
  <2>7. activities' = Append(activities, NewActivity("mount", {m}, FALSE))
    BY <2>2
  <2>8. turnInFlight' = TRUE /\ \A k \in Text \ {m} : home'[k] = home[k]
    BY <2>2, <2>3
  <2> QED BY <2>4, <2>5, <2>6, <2>7, <2>8, SubmitKeepsTexts, Zenon
<1> QED BY <1>2, <1>3

LEMMA EnterCommandKeepsTexts ==
  ASSUME ReplInv, ReplInv', TextsInv, EnterCommand
  PROVE  TextsInv' /\ IdleMeansEmpty'
<1>1. /\ activities' = Append(activities, NewActivity("command", {}, FALSE)) /\ turnInFlight' = TRUE
      /\ UNCHANGED <<live, waiting, home>>
  BY DEF EnterCommand
<1>2. {} \in SUBSET Text /\ "command" \in {"mount", "command"}
  OBVIOUS
<1>3. /\ \A k \in {} : home[k] = 0 /\ home'[k] = live
      /\ \A k \in Text \ {} : home'[k] = home[k]
  BY <1>1
<1>4. activities' = Append(activities, NewActivity("command", {}, FALSE))
  BY <1>1
<1>5. turnInFlight' = TRUE /\ UNCHANGED <<live, waiting>>
  BY <1>1
<1> QED BY <1>2, <1>3, <1>4, <1>5, SubmitKeepsTexts, Zenon

LEMMA SubmitInitialKeepsTexts ==
  ASSUME ReplInv, ReplInv', TextsInv, SubmitInitial
  PROVE  TextsInv' /\ IdleMeansEmpty'
<1>0. FromStart \in Text
  BY DEF Text
<1>1. home[FromStart] = 0 /\ Meant(FromStart) /\ UNCHANGED <<live, waiting>>
  BY DEF SubmitInitial, ReplInv, HomeInv
<1>2. home'[FromStart] = live /\ \A k \in Text \ {FromStart} : home'[k] = home[k]
  BY <1>0, <1>1, TextsTyped DEF Meant
<1>3. CASE turnInFlight
  <2>1. UNCHANGED <<activities, turnInFlight>>
    BY <1>3 DEF SubmitInitial
  <2>2. Activities' = Activities
    BY <2>1 DEF Activities
  <2>3. \A k \in Text : home'[k] <= live'
    BY <1>1, <1>2, TextsTyped DEF TextsInv
  <2>4. \A a \in Activities : \A k \in activities[a].texts : k \in Text /\ k # FromStart
    BY <1>1, TextsTyped DEF TextsInv
  <2>5. TextsInv'
    BY <1>1, <1>2, <2>1, <2>2, <2>3, <2>4 DEF TextsInv
  <2> QED BY <1>3, <2>1, <2>5 DEF IdleMeansEmpty
<1>4. CASE ~turnInFlight
  <2>1. SubmitTo(activities, {FromStart}, FALSE)
    BY <1>4 DEF SubmitInitial
  <2>2. activities' = Append(activities, NewActivity("mount", {FromStart}, FALSE)) /\ turnInFlight' = TRUE
    BY <2>1 DEF SubmitTo
  <2>3. {FromStart} \in SUBSET Text /\ "mount" \in {"mount", "command"}
    BY <1>0
  <2>4. \A k \in {FromStart} : home[k] = 0 /\ home'[k] = live
    BY <1>1, <1>2
  <2>5. UNCHANGED <<live, waiting>> /\ \A k \in Text \ {FromStart} : home'[k] = home[k]
    BY <1>1, <1>2
  <2> QED BY <2>2, <2>3, <2>4, <2>5, SubmitKeepsTexts, Zenon
<1> QED BY <1>3, <1>4

LEMMA ReportKeepsTexts ==
  ASSUME ReplInv, TextsInv, NEW m \in Text, Report(m)
  PROVE  TextsInv' /\ IdleMeansEmpty'
<1>1. /\ home[m] = 0 /\ Meant(m) /\ UNCHANGED <<activities, live>>
      /\ waiting' = [waiting EXCEPT ![live] = @ \cup {m}]
      /\ m \in pinging'
  BY DEF Report
<1>2. TextsInv'
  BY <1>1, TextWaits
<1> QED BY <1>1, <1>2 DEF IdleMeansEmpty

LEMMA PingKeepsTexts ==
  ASSUME ReplInv, TextsInv, NEW m \in Text, Ping(m)
  PROVE  TextsInv' /\ IdleMeansEmpty'
<1>1. pings' = pings + 1 /\ UNCHANGED <<activities, live, waiting, home>> /\ pings \in Nat
  BY DEF Ping, ReplInv, ReplTyped, ReplTypeOK
<1>2. TextsInv'
  BY <1>1, TextsStay
<1>3. pings' # 0
  BY <1>1
<1> QED BY <1>2, <1>3 DEF IdleMeansEmpty

LEMMA WakeKeepsTexts ==
  ASSUME ReplInv, ReplInv', TextsInv, Wake
  PROVE  TextsInv' /\ IdleMeansEmpty'
<1>1. CASE turnInFlight \/ waiting[live] = {}
  <2>1. UNCHANGED <<turnInFlight, activities, waiting, live, home>>
    BY <1>1 DEF Wake
  <2>2. TextsInv'
    BY <2>1, TextsStay
  <2> QED BY <1>1, <2>1, <2>2 DEF IdleMeansEmpty
<1>2. CASE ~(turnInFlight \/ waiting[live] = {})
  <2>1. /\ SubmitTo(activities, waiting[live], TRUE) /\ waiting' = [waiting EXCEPT ![live] = {}]
        /\ UNCHANGED <<live, home>>
    BY <1>2 DEF Wake
  <2>2. activities \in Seq(Activity)
    BY DEF ReplInv, ReplTyped
  <2>3. TextsInv'
    BY <2>1, <2>2, QueueIsSubmitted
  <2> QED BY <2>1, <2>3 DEF SubmitTo, IdleMeansEmpty
<1> QED BY <1>1, <1>2

LEMMA SignalKeepsTexts ==
  ASSUME ReplInv, TextsInv, turnInFlight, ~exited,
         \E C, R : activities' = Signalled(C, R) /\ Unfinished \subseteq C,
         UNCHANGED <<turnInFlight, live, displaced, home, exited, waiting>>
  PROVE  TextsInv' /\ IdleMeansEmpty'
<1>1. PICK C, R : activities' = Signalled(C, R) /\ Unfinished \subseteq C
  OBVIOUS
<1>2. /\ Len(activities') = Len(activities)
      /\ \A a \in Activities : activities'[a].texts = activities[a].texts
  BY <1>1, SignalKeeps
<1>3. TextsInv'
  BY <1>2, TextsStay
<1> QED BY <1>3 DEF IdleMeansEmpty

LEMMA StopKeepsTexts ==
  ASSUME ReplInv, TextsInv, IdleMeansEmpty, Interrupt \/ Quit
  PROVE  TextsInv' /\ IdleMeansEmpty'
<1>1. ~exited /\ UNCHANGED <<turnInFlight, live, displaced, home, waiting, pings, pinging>>
  BY DEF Interrupt, Quit, workerUnchanged, hostState
<1>2. CASE Interrupt
  <2>1. turnInFlight /\ exited' = exited
    BY <1>2 DEF Interrupt, workerUnchanged, hostState
  <2> QED BY <1>1, <1>2, <2>1, InterruptIsSignal, SignalKeepsTexts
<1>3. CASE Quit /\ turnInFlight
  <2>1. ReleaseWorkers /\ exited' = exited
    BY <1>3 DEF Quit
  <2> QED BY <1>1, <1>3, <2>1, ReleaseIsSignal, SignalKeepsTexts
<1>4. CASE Quit /\ ~turnInFlight
  <2>1. exited' = TRUE /\ activities' = activities
    BY <1>4 DEF Quit
  <2>2. TextsInv'
    BY <1>1, <2>1, TextsStay
  <2> QED BY <2>1, <2>2 DEF IdleMeansEmpty
<1> QED BY <1>2, <1>3, <1>4

LEMMA ReplaceKeepsTexts ==
  ASSUME ReplInv, TextsInv, ClearSession \/ LoadRecentSession
  PROVE  TextsInv' /\ IdleMeansEmpty'
<1>1. ~exited /\ live + 1 \in Number /\ UNCHANGED <<turnInFlight, waiting, home, exited>>
  BY SessionLeft DEF ClearSession, LoadRecentSession, hostState
<1>2. CASE live' = live + 1 /\ activities' = activities
  <2>1. TextsInv'
    BY <1>1, <1>2, TextsStay
  <2>2. waiting'[live'] = {}
    BY <1>1, <1>2, FreshIsEmpty
  <2> QED BY <2>1, <2>2 DEF IdleMeansEmpty
<1>3. CASE ClearSession /\ turnInFlight
  <2>1. ReleaseWorkers /\ UNCHANGED <<live, displaced>>
    BY <1>3 DEF ClearSession, Defers
  <2> QED BY <1>1, <1>3, <2>1, ReleaseIsSignal, SignalKeepsTexts
<1> QED BY <1>2, <1>3 DEF ClearSession, LoadRecentSession, Defers

LEMMA TextsSteps ==
  ASSUME ReplInv, ReplInv', TextsInv, IdleMeansEmpty, ReplNext
  PROVE  TextsInv' /\ IdleMeansEmpty'
<1>1. ASSUME NEW m \in Text, Enter(m) \/ Report(m) \/ Ping(m) PROVE TextsInv' /\ IdleMeansEmpty'
  BY <1>1, EnterKeepsTexts, ReportKeepsTexts, PingKeepsTexts
<1>2. ASSUME NEW a \in Activities, WorkerStep(a) PROVE TextsInv' /\ IdleMeansEmpty'
  BY <1>2, TurnKeepsTexts, FoldInKeepsTexts, EndKeepsTexts DEF WorkerStep
<1>3. CASE DiskFills
  <2>1. UNCHANGED <<turnInFlight, exited, live, pings, pinging, home, waiting, activities>>
    BY <1>3 DEF DiskFills, hostState
  <2>2. TextsInv'
    BY <2>1, TextsStay
  <2> QED BY <2>1, <2>2 DEF IdleMeansEmpty
<1> QED BY <1>1, <1>2, <1>3, EnterCommandKeepsTexts, SubmitInitialKeepsTexts, WakeKeepsTexts, StopKeepsTexts,
           ReplaceKeepsTexts
        DEF ReplNext

LEMMA TextsNextInv ==
  ASSUME ReplInv, TextsInv, IdleMeansEmpty, [Next]_vars
  PROVE  TextsInv' /\ IdleMeansEmpty'
<1>1. ReplInv'
  BY ReplNextInv
<1>2. CASE UNCHANGED replVars
  <2>1. UNCHANGED <<turnInFlight, exited, live, pings, pinging, home, waiting, activities>>
    BY <1>2 DEF replVars, hostState
  <2>2. TextsInv'
    BY <2>1, TextsStay
  <2> QED BY <2>1, <2>2 DEF IdleMeansEmpty
<1> QED BY <1>1, <1>2, TextsSteps DEF Next, vars

LEMMA TextsStart == ReplInit => TextsInv /\ IdleMeansEmpty
<1> SUFFICES ASSUME ReplInit PROVE TextsInv /\ IdleMeansEmpty
  OBVIOUS
<1>1. activities = <<>> /\ Activities = {}
  BY DEF ReplInit, Activities
<1>2. 1 \in Number /\ live = 1 /\ waiting = [s \in Number |-> {}] /\ home = [m \in Text |-> 0]
  BY ReplAssumption DEF ReplInit, Number
<1> QED BY <1>1, <1>2 DEF TextsInv, IdleMeansEmpty

LEMMA EachTextHasItsPlace == ASSUME ReplInv, TextsInv PROVE TextsAreKept
<1> SUFFICES ASSUME NEW m \in Text, home[m] # 0
             PROVE  LET places == Cardinality({s \in Number : m \in waiting[s]})
                                + Cardinality({a \in Activities : m \in activities[a].texts})
                    IN  places = 1 \/ (m = FromStart /\ places = 0)
  BY DEF TextsAreKept
<1>1. \A s \in Number : m \in waiting[s] => s = home[m]
  BY TextsTyped
<1>2. home[m] \in Number
  BY TextsTyped
<1>3. CASE m \in waiting[home[m]]
  <2>1. {s \in Number : m \in waiting[s]} = {home[m]}
    BY <1>1, <1>2, <1>3
  <2>2. {a \in Activities : m \in activities[a].texts} = {}
    BY <1>3 DEF TextsInv
  <2>3. Cardinality({s \in Number : m \in waiting[s]}) = 1
    BY <2>1, FS_Singleton
  <2>4. Cardinality({a \in Activities : m \in activities[a].texts}) = 0
    BY <2>2, FS_EmptySet
  <2> QED BY <2>3, <2>4
<1>4. CASE m \notin waiting[home[m]]
  <2>1. {s \in Number : m \in waiting[s]} = {}
    BY <1>1, <1>4
  <2>2. Cardinality({s \in Number : m \in waiting[s]}) = 0
    BY <2>1, FS_EmptySet
  <2>3. CASE \E a \in Activities : m \in activities[a].texts
    <3>1. PICK a \in Activities : m \in activities[a].texts
      BY <2>3
    <3>2. {b \in Activities : m \in activities[b].texts} = {a}
      BY <3>1 DEF TextsInv
    <3>3. Cardinality({b \in Activities : m \in activities[b].texts}) = 1
      BY <3>2, FS_Singleton
    <3> QED BY <2>2, <3>3
  <2>4. CASE \A a \in Activities : m \notin activities[a].texts
    <3>1. {b \in Activities : m \in activities[b].texts} = {}
      BY <2>4
    <3>2. Cardinality({b \in Activities : m \in activities[b].texts}) = 0
      BY <3>1, FS_EmptySet
    <3>3. m = FromStart
      BY <1>4, <2>4 DEF TextsInv
    <3> QED BY <2>2, <3>2, <3>3
  <2> QED BY <2>3, <2>4
<1> QED BY <1>3, <1>4

-----------------------------------------------------------------------------
(* The agents' messages                                                     *)

Found(seq, m) == \E i \in 1..Len(seq) : seq[i] = m
Distinct(seq) == \A i, j \in 1..Len(seq) : seq[i] = seq[j] => i = j

(* A message is in one place at most, has been handed over once if it is in *)
(* none, and is nowhere before it is sent.                                  *)
Account(m) ==
  /\ \A a, b \in Agent : Found(local[a], m) /\ Found(local[b], m) => a = b
  /\ Found(queue, m) => got[m] = 0 /\ human.msg # m /\ \A a \in Agent : ~Found(local[a], m)
  /\ \A a \in Agent : Found(local[a], m) => got[m] = 0 /\ human.msg # m
  /\ human.msg = m => got[m] = 0
  /\ Sent(m) => Found(queue, m) \/ human.msg = m \/ got[m] = 1 \/ \E a \in Agent : Found(local[a], m)
  /\ ~Sent(m) => /\ ~Found(queue, m) /\ human.msg # m /\ got[m] = 0
                 /\ \A a \in Agent : ~Found(local[a], m)

MailInv ==
  /\ Distinct(queue)
  /\ \A a \in Agent : Distinct(local[a])
  /\ \A m \in Message : Account(m)
  /\ human.to = None => human.msg = None

(* An agent whose chain is about to be marked finished has no text of its   *)
(* own waiting.                                                             *)
LocalInv ==
  /\ NothingStrandsLocally
  /\ \A w \in Worker : pc[w] = "ending" => local[w[1]] = <<>>

LEMMA FoundInAppended ==
  ASSUME NEW seq \in Seq(Message), NEW m \in Message
  PROVE  /\ \A k : Found(Append(seq, m), k) <=> Found(seq, k) \/ k = m
         /\ Distinct(seq) /\ ~Found(seq, m) => Distinct(Append(seq, m))
<1>1. /\ Len(seq) \in Nat /\ Len(Append(seq, m)) = Len(seq) + 1
      /\ \A i \in 1..Len(seq) : Append(seq, m)[i] = seq[i]
      /\ Append(seq, m)[Len(seq) + 1] = m
  OBVIOUS
<1>2. \A i : i \in 1..Len(Append(seq, m)) <=> i \in 1..Len(seq) \/ i = Len(seq) + 1
  BY <1>1
<1>3. \A i \in 1..Len(seq) : i # Len(seq) + 1
  BY <1>1
<1> QED BY <1>1, <1>2, <1>3 DEF Found, Distinct

LEMMA FoundInNone == (\A k : ~Found(<<>>, k)) /\ Distinct(<<>>)
BY DEF Found, Distinct

LEMMA FoundAtPlaces ==
  ASSUME AgentsTypeOK, NEW I \in SUBSET (1..Len(queue))
  PROVE  /\ \A k : Found(Entries(I), k) <=> \E i \in I : queue[i] = k
         /\ Distinct(queue) => Distinct(Entries(I))
<1>1. queue \in Seq(Message)
  BY DEF AgentsTypeOK
<1>0. PICK n, seq : n = Cardinality(I) /\ seq = Entries(I)
  OBVIOUS
<1>2. PICK at \in Bijection(1..n, I) : Len(seq) = n /\ \A k \in 1..n : seq[k] = queue[at[k]]
  BY <1>0, <1>1, EntriesListPlaces
<1>3. /\ \A k \in 1..n : at[k] \in I
      /\ \A i \in I : \E k \in 1..n : at[k] = i
      /\ \A k, l \in 1..n : at[k] = at[l] => k = l
  BY DEF Bijection, Injection, Surjection, IsInjective
<1>4. \A k : Found(seq, k) <=> \E i \in I : queue[i] = k
  <2> SUFFICES ASSUME NEW k PROVE Found(seq, k) <=> \E i \in I : queue[i] = k
    OBVIOUS
  <2>1. ASSUME NEW j \in 1..n, seq[j] = k PROVE \E i \in I : queue[i] = k
    BY <1>2, <1>3, <2>1
  <2>2. ASSUME NEW i \in I, queue[i] = k PROVE \E j \in 1..n : seq[j] = k
    <3>1. PICK j \in 1..n : at[j] = i
      BY <1>3
    <3> QED BY <1>2, <2>2, <3>1
  <2> QED BY <1>2, <2>1, <2>2 DEF Found
<1>5. ASSUME Distinct(queue) PROVE Distinct(seq)
  <2> SUFFICES ASSUME NEW k \in 1..n, NEW l \in 1..n, seq[k] = seq[l] PROVE k = l
    BY <1>2 DEF Distinct
  <2>1. queue[at[k]] = queue[at[l]] /\ at[k] \in 1..Len(queue) /\ at[l] \in 1..Len(queue)
    BY <1>2, <1>3
  <2>2. at[k] = at[l]
    BY <1>5, <2>1 DEF Distinct
  <2> QED BY <1>3, <2>2
<1> QED BY <1>0, <1>4, <1>5

LEMMA HandGives ==
  ASSUME NEW seq, Hand(seq)
  PROVE  \A m \in Message : got'[m] = IF Found(seq, m) THEN got[m] + 1 ELSE got[m]
BY DEF Hand, Found

(* The same messages are in the same places.                                *)
LEMMA MailStays ==
  ASSUME MailInv, UNCHANGED <<queue, local, to>>, human'.msg = human.msg,
         \A m \in Message : got'[m] = got[m], human'.to = None => human'.msg = None
  PROVE  MailInv'
BY DEF MailInv, Account, Sent, Found, Distinct

(* A message not sent before is queued, given to an agent that runs, or     *)
(* taken by the outside thread.                                             *)
LEMMA MailIsSent ==
  ASSUME AgentsTypeOK, MailInv, NEW m \in Message, ~Sent(m), NEW s \in Session,
         to' = [to EXCEPT ![m] = s], got' = got,
         \/ queue' = Append(queue, m) /\ UNCHANGED <<local, human>>
         \/ /\ UNCHANGED <<queue, human>>
            /\ \E a \in Agent : local' = [local EXCEPT ![a] = Append(@, m)]
         \/ human.to = None /\ human' = [to |-> s, msg |-> m] /\ UNCHANGED <<queue, local>>
  PROVE  MailInv'
<1>1. /\ s # None /\ to'[m] = s /\ \A k \in Message : k # m => to'[k] = to[k]
      /\ None \notin Message
  BY MessagingAssumption DEF AgentsTypeOK
<1>2. /\ \A k \in Message : Account(k)
      /\ Distinct(queue) /\ \A a \in Agent : Distinct(local[a])
      /\ human.to = None => human.msg = None
  BY DEF MailInv
<1>3. ~Found(queue, m) /\ human.msg # m /\ got[m] = 0 /\ \A a \in Agent : ~Found(local[a], m)
  BY <1>2 DEF Account
<1>4. CASE queue' = Append(queue, m) /\ UNCHANGED <<local, human>>
  <2>1. /\ \A k \in Message : Found(queue', k) <=> Found(queue, k) \/ k = m
        /\ Distinct(queue')
    BY <1>2, <1>3, <1>4, FoundInAppended DEF AgentsTypeOK
  <2>2. \A k \in Message : Account(k)'
    BY <1>1, <1>2, <1>3, <1>4, <2>1 DEF Account, Sent
  <2> QED BY <1>2, <1>4, <2>1, <2>2 DEF MailInv
<1>5. ASSUME NEW a \in Agent, local' = [local EXCEPT ![a] = Append(@, m)], UNCHANGED <<queue, human>>
      PROVE  MailInv'
  <2>1. /\ \A k \in Message : Found(local'[a], k) <=> Found(local[a], k) \/ k = m
        /\ Distinct(local'[a])
    BY <1>2, <1>3, <1>5, FoundInAppended DEF AgentsTypeOK
  <2>2. \A b \in Agent : b # a => local'[b] = local[b]
    BY <1>5 DEF AgentsTypeOK
  <2>3. \A b \in Agent : Distinct(local'[b])
    BY <1>2, <2>1, <2>2
  <2>4. \A b \in Agent : \A k \in Message : k # m => (Found(local'[b], k) <=> Found(local[b], k))
    BY <2>1, <2>2
  <2>5. \A b \in Agent : Found(local'[b], m) <=> b = a
    BY <1>3, <2>1, <2>2
  <2>6. \A k \in Message : Account(k)'
    BY <1>1, <1>2, <1>3, <1>5, <2>4, <2>5 DEF Account, Sent
  <2> QED BY <1>2, <1>5, <2>3, <2>6 DEF MailInv
<1>6. CASE human.to = None /\ human' = [to |-> s, msg |-> m] /\ UNCHANGED <<queue, local>>
  <2>1. human'.msg = m /\ human'.to = s /\ human.msg = None
    BY <1>2, <1>6
  <2>2. \A k \in Message : Account(k)'
    BY <1>1, <1>2, <1>3, <1>6, <2>1 DEF Account, Sent
  <2> QED BY <1>1, <1>2, <1>6, <2>1, <2>2 DEF MailInv
<1> QED BY <1>4, <1>5, <1>6

(* The messages in seq leave the places they were in.                       *)
LEMMA MailIsHanded ==
  ASSUME AgentsTypeOK, MailInv, NEW seq, Hand(seq), UNCHANGED <<to, human>>,
         Distinct(queue'), \A a \in Agent : Distinct(local'[a]),
         \A m \in Message : Found(seq, m) =>
           /\ Found(queue, m) \/ \E a \in Agent : Found(local[a], m)
           /\ ~Found(queue', m) /\ \A a \in Agent : ~Found(local'[a], m),
         \A m \in Message : ~Found(seq, m) =>
           /\ Found(queue', m) <=> Found(queue, m)
           /\ \A a \in Agent : Found(local'[a], m) <=> Found(local[a], m)
  PROVE  MailInv'
<1>1. \A m \in Message : Account(m) /\ got'[m] = IF Found(seq, m) THEN got[m] + 1 ELSE got[m]
  BY HandGives DEF MailInv
<1>2. ASSUME NEW m \in Message, Found(seq, m) PROVE Account(m)'
  <2>1. got'[m] = 1 /\ human.msg # m /\ Sent(m)
    BY <1>1, <1>2 DEF Account
  <2> QED BY <1>2, <2>1 DEF Account, Sent
<1>3. ASSUME NEW m \in Message, ~Found(seq, m) PROVE Account(m)'
  BY <1>1, <1>3 DEF Account, Sent
<1>4. \A m \in Message : Account(m)'
  BY <1>2, <1>3
<1> QED BY <1>4 DEF MailInv

LEMMA QueueIsHanded ==
  ASSUME AgentsTypeOK, MailInv, NEW s, Hand(For(s)), queue' = Without(s), UNCHANGED <<to, human, local>>
  PROVE  MailInv'
<1>1. PICK seq : seq = For(s)
  OBVIOUS
<1>2. /\ \A m : Found(seq, m) <=> \E i \in PlacesOf(s) : queue[i] = m
      /\ \A m : Found(queue', m) <=> \E i \in (1..Len(queue)) \ PlacesOf(s) : queue[i] = m
      /\ Distinct(queue')
  <2>1. Distinct(queue) /\ PlacesOf(s) \in SUBSET (1..Len(queue))
    BY DEF MailInv, PlacesOf
  <2> QED BY <1>1, <2>1, FoundAtPlaces DEF For, Without
<1>3. \A m \in Message : Found(seq, m) => ~Found(queue', m)
  BY <1>2 DEF MailInv, Distinct, PlacesOf
<1>4. \A m \in Message : Found(queue, m) <=> Found(seq, m) \/ Found(queue', m)
  BY <1>2 DEF Found, PlacesOf
<1>5. \A m \in Message : Found(queue, m) => \A a \in Agent : ~Found(local[a], m)
  BY DEF MailInv, Account
<1>6. \A m \in Message : Found(seq, m) =>
           /\ Found(queue, m) \/ \E a \in Agent : Found(local[a], m)
           /\ ~Found(queue', m) /\ \A a \in Agent : ~Found(local'[a], m)
  BY <1>3, <1>4, <1>5
<1>7. \A m \in Message : ~Found(seq, m) =>
           /\ Found(queue', m) <=> Found(queue, m)
           /\ \A a \in Agent : Found(local'[a], m) <=> Found(local[a], m)
  BY <1>4
<1>8. Hand(seq)
  BY <1>1
<1>9. Distinct(queue') /\ \A a \in Agent : Distinct(local'[a])
  BY <1>2 DEF MailInv
<1> QED BY <1>6, <1>7, <1>8, <1>9, MailIsHanded, Zenon

LEMMA LocalIsHanded ==
  ASSUME AgentsTypeOK, MailInv, NEW a \in Agent, Hand(local[a]), local' = [local EXCEPT ![a] = <<>>],
         UNCHANGED <<to, human, queue>>
  PROVE  MailInv'
<1>1. PICK seq : seq = local[a]
  OBVIOUS
<1>2. local'[a] = <<>> /\ \A b \in Agent : b # a => local'[b] = local[b]
  BY DEF AgentsTypeOK
<1>3. Distinct(queue') /\ \A b \in Agent : Distinct(local'[b])
  BY <1>2, FoundInNone DEF MailInv
<1>4. \A m \in Message : Found(seq, m) =>
           /\ Found(queue, m) \/ \E b \in Agent : Found(local[b], m)
           /\ ~Found(queue', m) /\ \A b \in Agent : ~Found(local'[b], m)
  BY <1>1, <1>2, FoundInNone DEF MailInv, Account
<1>5. \A m \in Message : ~Found(seq, m) =>
           /\ Found(queue', m) <=> Found(queue, m)
           /\ \A b \in Agent : Found(local'[b], m) <=> Found(local[b], m)
  BY <1>1, <1>2, FoundInNone
<1>6. Hand(seq)
  BY <1>1
<1> QED BY <1>3, <1>4, <1>5, <1>6, MailIsHanded, Zenon

(* Once handed over, whether by the outside thread or to an idle root.      *)
LEMMA MessageIsHanded ==
  ASSUME AgentsTypeOK, MailInv, NEW m \in Message, UNCHANGED <<queue, local>>, Hand(<<m>>),
         \/ human.msg = m /\ to' = to /\ human'.msg = None
         \/ ~Sent(m) /\ to' = [to EXCEPT ![m] = Root] /\ human' = human
  PROVE  MailInv'
<1>1. \A k : Found(<<m>>, k) <=> k = m
  BY DEF Found
<1>2. got'[m] = got[m] + 1 /\ \A k \in Message : k # m => got'[k] = got[k]
  BY <1>1, HandGives
<1>3. None \notin Message /\ Root # None
  BY MessagingAssumption DEF Session
<1>4. \A k \in Message : Account(k)
  BY DEF MailInv
<1>5. got[m] = 0 /\ ~Found(queue, m) /\ \A a \in Agent : ~Found(local[a], m)
  BY <1>4 DEF Account
<1>6. to'[m] # None /\ \A k \in Message : k # m => to'[k] = to[k]
  BY <1>3, <1>4 DEF Account, Sent, AgentsTypeOK
<1>7. human'.msg # m /\ \A k \in Message : k # m => (human'.msg = k <=> human.msg = k)
  BY <1>3, <1>4 DEF Account
<1>8. \A k \in Message : Account(k)'
  BY <1>2, <1>4, <1>5, <1>6, <1>7 DEF Account, Sent
<1> QED BY <1>8 DEF MailInv

LEMMA LocalStays ==
  ASSUME LocalInv, local' = local, \A w \in Worker : pc'[w] = "ending" => pc[w] = "ending",
         \A a \in Agent : state'[a] \in {state[a], "running", "stopped"}
  PROVE  LocalInv'
BY DEF LocalInv, NothingStrandsLocally, Running

(* A step that moves no message and ends no chain.                          *)
LEMMA NothingMoves ==
  ASSUME MailInv, LocalInv, UNCHANGED <<queue, local, to, human, got>>,
         \A w \in Worker : pc'[w] = "ending" => pc[w] = "ending",
         \A a \in Agent : state'[a] \in {state[a], "running", "stopped"}
  PROVE  MailInv' /\ LocalInv'
<1>1. MailInv'
  <2>1. human'.to = None => human'.msg = None
    BY DEF MailInv
  <2> QED BY <2>1, MailStays
<1> QED BY <1>1, LocalStays

LEMMA CreateKeepsMail ==
  ASSUME AgentsInv, MailInv, LocalInv, NEW w \in Worker,
         CreateRegister(w) \/ \E a \in Agent : CreateCheck(w, a)
  PROVE  MailInv' /\ LocalInv'
<1>1. UNCHANGED <<queue, local, to, human, got>>
  BY DEF CreateRegister, CreateCheck
<1>2. CASE CreateRegister(w)
  <2>1. PICK a \in Agent : a = target[w]
    BY <1>2 DEF CreateRegister, AgentsInv, ChainsInv, Placed
  <2>2. Started(a) /\ pc' = [pc EXCEPT ![w] = "turn", ![NewWorker(a)] = "turn"]
    BY <1>2, <2>1 DEF CreateRegister
  <2>3. \A v \in Worker : pc'[v] = "ending" => pc[v] = "ending"
    BY <2>2 DEF AgentsInv, AgentsTypeOK
  <2>4. \A b \in Agent : state'[b] \in {state[b], "running", "stopped"}
    BY <2>2 DEF AgentsInv, AgentsTypeOK, Started
  <2> QED BY <1>1, <2>3, <2>4, NothingMoves
<1>3. ASSUME NEW a \in Agent, CreateCheck(w, a) PROVE MailInv' /\ LocalInv'
  <2>1. pc' = [pc EXCEPT ![w] = "create"] /\ state' = state
    BY <1>3 DEF CreateCheck
  <2>2. \A v \in Worker : pc'[v] = "ending" => pc[v] = "ending"
    BY <2>1 DEF AgentsInv, AgentsTypeOK
  <2> QED BY <1>1, <2>1, <2>2, NothingMoves
<1> QED BY <1>2, <1>3

LEMMA SendsKeepMail ==
  ASSUME AgentsInv, MailInv, LocalInv, NEW w \in Worker, NEW m \in Message,
         SendToIdleRoot(w, m) \/ Relay(w, m) \/ \E s \in Session : Send(w, m, s)
  PROVE  MailInv' /\ LocalInv'
<1>t. AgentsTypeOK /\ Root \in Session
  BY DEF AgentsInv, Session
<1>1. ~Sent(m) /\ UNCHANGED <<local, human, state>>
  BY DEF SendToIdleRoot, Relay, Send, Sendable
<1>2. CASE SendToIdleRoot(w, m)
  <2>1. /\ to' = [to EXCEPT ![m] = Root] /\ Hand(<<m>>) /\ queue' = queue
        /\ pc' = [pc EXCEPT ![RootWorker] = "turn"]
    BY <1>2 DEF SendToIdleRoot
  <2>2. MailInv'
    BY <1>t, <1>1, <2>1, MessageIsHanded
  <2>3. \A v \in Worker : pc'[v] = "ending" => pc[v] = "ending"
    BY <1>t, <2>1 DEF AgentsTypeOK
  <2> QED BY <1>1, <2>2, <2>3, LocalStays
<1>3. ASSUME NEW s \in Session, to' = [to EXCEPT ![m] = s], queue' = Append(queue, m), got' = got,
             pc' = [pc EXCEPT ![w] = "peek"]
      PROVE  MailInv' /\ LocalInv'
  <2>1. MailInv'
    BY <1>t, <1>1, <1>3, MailIsSent
  <2>2. \A v \in Worker : pc'[v] = "ending" => pc[v] = "ending"
    BY <1>t, <1>3 DEF AgentsTypeOK
  <2> QED BY <1>1, <2>1, <2>2, LocalStays
<1>4. CASE Relay(w, m)
  <2>1. w # RootWorker
    BY <1>4 DEF Relay, AgentsInv, ChainsInv
  <2>2. ParentOf[w[1]] \in Session
    BY <1>t, <2>1, ParentIsSession, WorkerParts
  <2>3. /\ to' = [to EXCEPT ![m] = ParentOf[w[1]]] /\ queue' = Append(queue, m) /\ got' = got
        /\ pc' = [pc EXCEPT ![w] = "peek"]
    BY <1>4 DEF Relay, TryWake
  <2> QED BY <1>3, <2>2, <2>3
<1>5. ASSUME NEW s \in Session, Send(w, m, s) PROVE MailInv' /\ LocalInv'
  BY <1>3, <1>5 DEF Send, TryWake
<1> QED BY <1>2, <1>4, <1>5

LEMMA TakesKeepMail ==
  ASSUME AgentsInv, MailInv, LocalInv, NEW w \in Worker, GetMessages(w) \/ DrainLocal(w)
  PROVE  MailInv' /\ LocalInv'
<1>t. AgentsTypeOK
  BY DEF AgentsInv
<1>1. CASE GetMessages(w)
  <2>1. Hand(For(w[1])) /\ queue' = Without(w[1]) /\ UNCHANGED <<to, human, local, pc, state>>
    BY <1>1 DEF GetMessages
  <2>2. MailInv'
    BY <1>t, <2>1, QueueIsHanded
  <2> QED BY <2>1, <2>2, LocalStays
<1>2. CASE DrainLocal(w)
  <2>1. /\ w[1] \in Agent /\ Hand(local[w[1]]) /\ local' = [local EXCEPT ![w[1]] = <<>>]
        /\ UNCHANGED <<to, human, queue, pc, state>>
    BY <1>2, WorkerParts DEF DrainLocal
  <2>2. MailInv'
    BY <1>t, <2>1, LocalIsHanded
  <2>3. \A a \in Agent : local'[a] \in {local[a], <<>>}
    BY <1>t, <2>1 DEF AgentsTypeOK
  <2>4. \A v \in Worker : pc[v] = "ending" => v[1] \in Agent
    BY WorkerParts DEF AgentsInv, ChainsInv
  <2>5. LocalInv'
    BY <2>1, <2>3, <2>4 DEF LocalInv, NothingStrandsLocally, Running
  <2> QED BY <2>2, <2>5
<1> QED BY <1>1, <1>2

(* A wake attempt puts nobody at the end of its chain.                      *)
LEMMA WakesEndNothing ==
  ASSUME AgentsInv, NEW w \in Worker, purpose[w] \in {"send", "relay", "exit"}, NEW newPc,
         newPc \in [Worker -> {"none", "idle", "turn", "create", "peek", "named", "held",
                               "ending", "relay", "done"}],
         \A v \in Worker : newPc[v] = "ending" => pc[v] = "ending",
         WakeReturns(w, newPc)
  PROVE  \A v \in Worker : pc'[v] = "ending" => pc[v] = "ending"
<1>1. /\ pc'[w] # "ending"
      /\ \A v \in Worker : v # w => pc'[v] = newPc[v]
  BY WakeReturnsTo DEF AgentsInv
<1> QED BY <1>1

LEMMA WakesKeepMail ==
  ASSUME AgentsInv, MailInv, LocalInv, NEW w \in Worker, WakeStep(w)
  PROVE  MailInv' /\ LocalInv'
<1>t. AgentsTypeOK
  BY DEF AgentsInv
<1>0. purpose[w] \in {"send", "relay", "exit"}
  BY DEF WakeStep, WakePeek, WakeCheck, WakeDispatch, AgentsInv, ChainsInv, Placed
<1>1. CASE WakePeek(w) \/ WakeCheck(w)
  <2>1. UNCHANGED <<queue, local, to, human, got, state>>
    BY <1>1 DEF WakePeek, WakeCheck
  <2>2. \/ WakeReturns(w, pc)
        \/ pc' = [pc EXCEPT ![w] = "named"]
        \/ pc' = [pc EXCEPT ![w] = "held"]
    BY <1>1 DEF WakePeek, WakeCheck
  <2>3. CASE WakeReturns(w, pc)
    <3>1. \A v \in Worker : pc'[v] = "ending" => pc[v] = "ending"
      BY <1>t, <1>0, <2>3, WakesEndNothing DEF AgentsTypeOK
    <3> QED BY <2>1, <3>1, NothingMoves
  <2>4. CASE ~WakeReturns(w, pc)
    <3>1. \A v \in Worker : pc'[v] = "ending" => pc[v] = "ending"
      BY <1>t, <2>2, <2>4 DEF AgentsTypeOK
    <3> QED BY <2>1, <3>1, NothingMoves
  <2> QED BY <2>3, <2>4
<1>2. CASE WakeDispatch(w)
  <2>1. PICK a \in Agent : a = target[w]
    BY <1>2 DEF WakeDispatch, AgentsInv, ChainsInv, Placed
  <2>2. UNCHANGED <<to, local, human>>
    BY <1>2 DEF WakeDispatch
  <2>3. CASE HasPending(a)
    <3>1. Started(a) /\ Hand(For(a)) /\ queue' = Without(a)
      BY <1>2, <2>1, <2>3 DEF WakeDispatch
    <3>2. MailInv'
      BY <1>t, <2>2, <3>1, QueueIsHanded
    <3>3. PICK mid \in [Worker -> {"none", "idle", "turn", "create", "peek", "named", "held",
                                   "ending", "relay", "done"}] :
            mid = [pc EXCEPT ![NewWorker(a)] = "turn"]
      BY <1>t DEF AgentsTypeOK
    <3>4. WakeReturns(w, mid)
      BY <1>2, <2>1, <2>3, <3>3 DEF WakeDispatch, WakeReturns
    <3>5. \A v \in Worker : mid[v] = "ending" => pc[v] = "ending"
      BY <1>t, <3>3 DEF AgentsTypeOK
    <3>6. \A v \in Worker : pc'[v] = "ending" => pc[v] = "ending"
      BY <1>0, <3>4, <3>5, WakesEndNothing
    <3>7. \A b \in Agent : state'[b] \in {state[b], "running", "stopped"}
      BY <1>t, <3>1 DEF AgentsTypeOK, Started
    <3> QED BY <2>2, <3>2, <3>6, <3>7, LocalStays
  <2>4. CASE ~HasPending(a)
    <3>1. WakeReturns(w, pc) /\ UNCHANGED <<queue, got, state>>
      BY <1>2, <2>1, <2>4 DEF WakeDispatch
    <3>2. \A v \in Worker : pc'[v] = "ending" => pc[v] = "ending"
      BY <1>t, <1>0, <3>1, WakesEndNothing DEF AgentsTypeOK
    <3> QED BY <2>2, <3>1, <3>2, NothingMoves
  <2> QED BY <2>3, <2>4
<1> QED BY <1>1, <1>2 DEF WakeStep

LEMMA EndsKeepMail ==
  ASSUME AgentsInv, MailInv, LocalInv, NEW w \in Worker, EndStep(w) \/ EndStopped(w)
  PROVE  MailInv' /\ LocalInv'
<1>t. AgentsTypeOK
  BY DEF AgentsInv
<1>1. CASE EndDrain(w)
  <2>1. w[1] \in Agent /\ UNCHANGED <<state, to, human>>
    BY <1>1, WorkerParts DEF EndDrain
  <2>2. CASE Hand(local[w[1]]) /\ local' = [local EXCEPT ![w[1]] = <<>>] /\ UNCHANGED <<pc, queue>>
    <3>1. MailInv'
      BY <1>t, <2>1, <2>2, LocalIsHanded
    <3>2. \A a \in Agent : local'[a] \in {local[a], <<>>}
      BY <1>t, <2>1, <2>2 DEF AgentsTypeOK
    <3>3. \A v \in Worker : pc[v] = "ending" => v[1] \in Agent
      BY WorkerParts DEF AgentsInv, ChainsInv
    <3>4. LocalInv'
      BY <2>1, <2>2, <3>2, <3>3 DEF LocalInv, NothingStrandsLocally, Running
    <3> QED BY <3>1, <3>4
  <2>3. CASE Hand(For(w[1])) /\ queue' = Without(w[1]) /\ UNCHANGED <<pc, local>>
    <3>1. MailInv'
      BY <1>t, <2>1, <2>3, QueueIsHanded
    <3> QED BY <2>1, <2>3, <3>1, LocalStays
  <2>4. CASE local[w[1]] = <<>> /\ pc' = [pc EXCEPT ![w] = "ending"] /\ UNCHANGED <<local, got, queue>>
    <3>1. MailInv'
      <4>1. human'.to = None => human'.msg = None
        BY <2>1 DEF MailInv
      <4> QED BY <2>1, <2>4, <4>1, MailStays
    <3>2. \A v \in Worker : pc'[v] = "ending" => v = w \/ pc[v] = "ending"
      BY <1>t, <2>4 DEF AgentsTypeOK
    <3>3. LocalInv'
      BY <2>1, <2>4, <3>2 DEF LocalInv, NothingStrandsLocally, Running
    <3> QED BY <3>1, <3>3
  <2> QED BY <1>1, <2>2, <2>3, <2>4 DEF EndDrain
<1>2. CASE EndMark(w)
  <2>1. /\ pc[w] = "ending" /\ state' = [state EXCEPT ![w[1]] = "finished"] /\ pc' = [pc EXCEPT ![w] = "relay"]
        /\ UNCHANGED <<queue, to, local, human, got>>
    BY <1>2 DEF EndMark
  <2>2. MailInv'
    <3>1. human'.to = None => human'.msg = None
      BY <2>1 DEF MailInv
    <3> QED BY <2>1, <3>1, MailStays
  <2>3. \A v \in Worker : pc'[v] = "ending" => pc[v] = "ending"
    BY <1>t, <2>1 DEF AgentsTypeOK
  <2>4. \A a \in Agent : a # w[1] => state'[a] = state[a]
    BY <1>t, <2>1 DEF AgentsTypeOK
  <2>5. local[w[1]] = <<>>
    BY <2>1 DEF LocalInv
  <2>6. LocalInv'
    BY <2>1, <2>3, <2>4, <2>5 DEF LocalInv, NothingStrandsLocally, Running
  <2> QED BY <2>2, <2>6
<1>3. CASE NoRelay(w) \/ EndStopped(w)
  <2>1. UNCHANGED <<queue, local, to, human, got>>
    BY <1>3 DEF NoRelay, EndStopped
  <2>2. \A v \in Worker : pc'[v] = "ending" => pc[v] = "ending"
    BY <1>t, <1>3 DEF AgentsTypeOK, NoRelay, TryWake, EndStopped
  <2>3. \A a \in Agent : state'[a] \in {state[a], "running", "stopped"}
    BY <1>t, <1>3 DEF AgentsTypeOK, NoRelay, EndStopped
  <2> QED BY <2>1, <2>2, <2>3, NothingMoves
<1> QED BY <1>1, <1>2, <1>3 DEF EndStep

LEMMA OutsideKeepsMail ==
  ASSUME AgentsInv, MailInv, LocalInv, NEW a \in Agent,
         NudgeCheck(a) \/ \E m \in Message : DirectToRunning(a, m) \/ DirectCheck(a, m)
  PROVE  MailInv' /\ LocalInv'
<1>t. AgentsTypeOK /\ a \in Session /\ human.to = None
  BY DEF AgentsInv, Session, NudgeCheck, DirectToRunning, DirectCheck
<1>1. ASSUME NEW m \in Message, DirectToRunning(a, m) PROVE MailInv' /\ LocalInv'
  <2>1. /\ guard[ParentOf[a]] = None /\ Running(a) /\ ~Sent(m)
        /\ local' = [local EXCEPT ![a] = Append(@, m)] /\ to' = [to EXCEPT ![m] = a]
        /\ UNCHANGED <<state, queue, pc, human, got>>
    BY <1>1 DEF DirectToRunning, Sendable
  <2>2. MailInv'
    BY <1>t, <2>1, MailIsSent
  <2>3. \A b \in Agent : b # a => local'[b] = local[b]
    BY <1>t, <2>1 DEF AgentsTypeOK
  <2>4. ASSUME NEW v \in Worker, pc[v] = "ending" PROVE v[1] \in Agent /\ v[1] # a
    <3>1. guard[ParentOf[v[1]]] = v /\ v # None /\ v[1] \in Agent
      BY <2>4, WorkerParts, ParentIsSession DEF AgentsInv, GuardsInv, ChainsInv
    <3> QED BY <2>1, <3>1
  <2>5. LocalInv'
    BY <2>1, <2>3, <2>4 DEF LocalInv, NothingStrandsLocally, Running
  <2> QED BY <2>2, <2>5
<1>2. ASSUME NEW m \in Message, DirectCheck(a, m) PROVE MailInv' /\ LocalInv'
  <2>1. /\ ~Sent(m) /\ human' = [to |-> a, msg |-> m] /\ to' = [to EXCEPT ![m] = a]
        /\ UNCHANGED <<state, queue, local, pc, got>>
    BY <1>2 DEF DirectCheck, Sendable
  <2>2. MailInv'
    BY <1>t, <2>1, MailIsSent
  <2> QED BY <2>1, <2>2, LocalStays
<1>3. CASE NudgeCheck(a)
  <2>1. human' = [to |-> a, msg |-> None] /\ UNCHANGED <<state, queue, to, local, pc, got>>
    BY <1>3 DEF NudgeCheck
  <2>2. human.msg = None
    BY <1>t DEF MailInv
  <2>3. MailInv'
    BY <2>1, <2>2, MailStays
  <2> QED BY <2>1, <2>3, LocalStays
<1> QED BY <1>1, <1>2, <1>3

LEMMA DispatchKeepsMail ==
  ASSUME AgentsInv, MailInv, LocalInv, OutsideDispatch
  PROVE  MailInv' /\ LocalInv'
<1>t. AgentsTypeOK
  BY DEF AgentsInv
<1>1. PICK a \in Agent : a = human.to
  BY <1>t DEF OutsideDispatch, AgentsTypeOK
<1>2. /\ Started(a) /\ pc' = [pc EXCEPT ![NewWorker(a)] = "turn"] /\ human' = [to |-> None, msg |-> None]
      /\ Hand(IF human.msg = None THEN <<>> ELSE <<human.msg>>)
      /\ UNCHANGED <<queue, to, local>>
  BY <1>1 DEF OutsideDispatch
<1>3. MailInv'
  <2>1. CASE human.msg = None
    <3>1. \A m \in Message : got'[m] = got[m]
      BY <1>2, <2>1, HandGives, FoundInNone
    <3> QED BY <1>2, <2>1, <3>1, MailStays
  <2>2. CASE human.msg # None
    <3>1. PICK m \in Message : m = human.msg
      BY <1>t, <2>2 DEF AgentsTypeOK
    <3>2. Hand(<<m>>)
      BY <1>2, <2>2, <3>1
    <3> QED BY <1>t, <1>2, <3>1, <3>2, MessageIsHanded
  <2> QED BY <2>1, <2>2
<1>4. \A v \in Worker : pc'[v] = "ending" => pc[v] = "ending"
  BY <1>t, <1>2 DEF AgentsTypeOK
<1>5. \A b \in Agent : state'[b] \in {state[b], "running", "stopped"}
  BY <1>t, <1>2 DEF AgentsTypeOK, Started
<1> QED BY <1>2, <1>3, <1>4, <1>5, LocalStays

LEMMA MailNextInv ==
  ASSUME AgentsInv, MailInv, LocalInv, [Next]_vars
  PROVE  MailInv' /\ LocalInv'
<1>1. ASSUME NEW w \in Worker, CreateRegister(w) \/ \E a \in Agent : CreateCheck(w, a)
      PROVE  MailInv' /\ LocalInv'
  BY <1>1, CreateKeepsMail
<1>2. ASSUME NEW w \in Worker, NEW m \in Message,
             SendToIdleRoot(w, m) \/ Relay(w, m) \/ \E s \in Session : Send(w, m, s)
      PROVE  MailInv' /\ LocalInv'
  BY <1>2, SendsKeepMail
<1>3. ASSUME NEW w \in Worker, GetMessages(w) \/ DrainLocal(w) PROVE MailInv' /\ LocalInv'
  BY <1>3, TakesKeepMail
<1>4. ASSUME NEW w \in Worker, WakeStep(w) PROVE MailInv' /\ LocalInv'
  BY <1>4, WakesKeepMail
<1>5. ASSUME NEW w \in Worker, EndStep(w) \/ EndStopped(w) PROVE MailInv' /\ LocalInv'
  BY <1>5, EndsKeepMail
<1>6. ASSUME NEW a \in Agent,
             NudgeCheck(a) \/ \E m \in Message : DirectToRunning(a, m) \/ DirectCheck(a, m)
      PROVE  MailInv' /\ LocalInv'
  BY <1>6, OutsideKeepsMail
<1>7. CASE RootStarts \/ RootEnds
  <2>1. UNCHANGED <<queue, local, to, human, got, state>>
    BY <1>7 DEF RootStarts, RootEnds
  <2>2. \A v \in Worker : pc'[v] = "ending" => pc[v] = "ending"
    BY <1>7 DEF RootStarts, RootEnds, AgentsInv, AgentsTypeOK
  <2> QED BY <2>1, <2>2, NothingMoves
<1>8. CASE AgentsNext
  BY <1>1, <1>2, <1>3, <1>4, <1>5, <1>6, <1>7, <1>8, DispatchKeepsMail DEF AgentsNext
<1>9. CASE UNCHANGED agentVars
  <2>1. UNCHANGED <<queue, local, to, human, got, state, pc>>
    BY <1>9 DEF agentVars
  <2> QED BY <2>1, NothingMoves
<1> QED BY <1>8, <1>9 DEF Next, vars

LEMMA MailStarts == AgentsInit => MailInv /\ LocalInv
<1> SUFFICES ASSUME AgentsInit PROVE MailInv /\ LocalInv
  OBVIOUS
<1>1. /\ queue = <<>> /\ \A a \in Agent : local[a] = <<>>
      /\ \A m \in Message : ~Sent(m) /\ got[m] = 0 /\ human.msg # m
      /\ human.msg = None
  BY MessagingAssumption DEF AgentsInit, Sent
<1>2. \A m \in Message : Account(m)
  BY <1>1, FoundInNone DEF Account
<1>3. MailInv
  BY <1>1, <1>2, FoundInNone DEF MailInv
<1>4. \A w \in Worker : pc[w] # "ending"
  BY DEF AgentsInit
<1> QED BY <1>1, <1>3, <1>4 DEF LocalInv, NothingStrandsLocally

(* Counting the places of a message that is in one of them at most.         *)
LEMMA QueuedOnce ==
  ASSUME AgentsTypeOK, MailInv, NEW m \in Message
  PROVE  Queued(m) = IF Found(queue, m) THEN 1 ELSE 0
<1>1. CASE Found(queue, m)
  <2>1. PICK i \in 1..Len(queue) : queue[i] = m
    BY <1>1 DEF Found
  <2>2. {j \in 1..Len(queue) : queue[j] = m} = {i}
    BY <2>1 DEF MailInv, Distinct
  <2> QED BY <1>1, <2>2, FS_Singleton DEF Queued
<1>2. CASE ~Found(queue, m)
  <2>1. {j \in 1..Len(queue) : queue[j] = m} = {}
    BY <1>2 DEF Found
  <2> QED BY <1>2, <2>1, FS_EmptySet DEF Queued
<1> QED BY <1>1, <1>2

LEMMA DistinctAreFew ==
  ASSUME NEW seq \in Seq(Message), Distinct(seq)
  PROVE  Len(seq) <= Cardinality(Message)
<1>1. PICK n \in Nat : n = Len(seq)
  OBVIOUS
<1>2. seq \in Injection(1..n, Message)
  BY <1>1 DEF Distinct, Injection, IsInjective
<1>3. Cardinality(1..n) <= Cardinality(Message)
  BY <1>2, FS_Injection, MessagingAssumption
<1>4. Cardinality(1..n) = n
  <2>1. 1 \in Int /\ n \in Int
    OBVIOUS
  <2>2. Cardinality(1..n) = IF 1 > n THEN 0 ELSE n - 1 + 1
    BY <2>1, FS_Interval
  <2> QED BY <2>2
<1> QED BY <1>1, <1>3, <1>4

LEMMA QueuedLocallyOnce ==
  ASSUME AgentsTypeOK, MailInv, NEW m \in Message
  PROVE  QueuedLocally(m) = IF \E a \in Agent : Found(local[a], m) THEN 1 ELSE 0
<1> DEFINE S == {ai \in Agent \X (1..Cardinality(Message)) :
                   ai[2] <= Len(local[ai[1]]) /\ local[ai[1]][ai[2]] = m}
<1>0. Cardinality(Message) \in Nat /\ \A a \in Agent : local[a] \in Seq(Message) /\ Len(local[a]) \in Nat
  BY MessagingAssumption, FS_CardinalityType DEF AgentsTypeOK
<1>1. CASE \E a \in Agent : Found(local[a], m)
  <2>0. PICK a \in Agent : Found(local[a], m)
    BY <1>1
  <2>1. PICK i \in 1..Len(local[a]) : local[a][i] = m
    BY <2>0 DEF Found
  <2>2. Len(local[a]) <= Cardinality(Message)
    BY <1>0, DistinctAreFew DEF MailInv
  <2>3. <<a, i>> \in S
    BY <1>0, <2>1, <2>2
  <2>4. ASSUME NEW b \in Agent, NEW j \in 1..Cardinality(Message), j <= Len(local[b]), local[b][j] = m
        PROVE  b = a /\ j = i
    <3>1. j \in 1..Len(local[b])
      BY <1>0, <2>4
    <3>2. Found(local[b], m) /\ Found(local[a], m)
      BY <2>1, <2>4, <3>1 DEF Found
    <3>3. b = a
      BY <3>2 DEF MailInv, Account
    <3> QED BY <2>1, <2>4, <3>1, <3>3 DEF MailInv, Distinct
  <2>5. S = {<<a, i>>}
    <3>1. ASSUME NEW ai \in S PROVE ai = <<a, i>>
      <4>1. ai[1] \in Agent /\ ai[2] \in 1..Cardinality(Message) /\ ai = <<ai[1], ai[2]>>
        OBVIOUS
      <4>2. ai[2] <= Len(local[ai[1]]) /\ local[ai[1]][ai[2]] = m
        OBVIOUS
      <4> QED BY <2>4, <4>1, <4>2
    <3> QED BY <2>3, <3>1
  <2> QED BY <1>1, <2>5, FS_Singleton DEF QueuedLocally
<1>2. CASE ~ \E a \in Agent : Found(local[a], m)
  <2>1. ASSUME NEW ai \in S PROVE FALSE
    <3>1. ai[1] \in Agent /\ ai[2] \in 1..Len(local[ai[1]]) /\ local[ai[1]][ai[2]] = m
      BY <1>0
    <3> QED BY <1>2, <3>1 DEF Found
  <2>2. S = {}
    BY <2>1
  <2> QED BY <1>2, <2>2, FS_EmptySet DEF QueuedLocally
<1> QED BY <1>1, <1>2

LEMMA EachMessageIsOnce == ASSUME AgentsTypeOK, MailInv PROVE MessageConserved
<1> SUFFICES ASSUME NEW m \in Message, Sent(m)
             PROVE  Queued(m) + QueuedLocally(m) + got[m] + (IF human.msg = m THEN 1 ELSE 0) = 1
  BY DEF MessageConserved
<1>1. Account(m) /\ got[m] \in Nat
  BY DEF MailInv, AgentsTypeOK
<1>2. Queued(m) = IF Found(queue, m) THEN 1 ELSE 0
  BY QueuedOnce
<1>3. QueuedLocally(m) = IF \E a \in Agent : Found(local[a], m) THEN 1 ELSE 0
  BY QueuedLocallyOnce
<1> QED BY <1>1, <1>2, <1>3 DEF Account

(* No message, prompt or text of a tree, a server or a terminal is lost or  *)
(* repeated on its way through the queues, and none waits where nothing     *)
(* will look (deliver_or_queue_agent_message, run_turn, _finish_turn).      *)
THEOREM NoMessageIsLost == Spec => []MessagesAreKept
<1>1. Init => AgentsInv /\ MailInv /\ LocalInv
  BY AgentsStart, MailStarts DEF Init
<1>2. Init => HostInv /\ AccountInv
  BY HostStarts, AccountStarts DEF Init
<1>3. Init => ReplInv /\ TextsInv /\ IdleMeansEmpty
  BY ReplStarts, TextsStart DEF Init
<1>4. AgentsInv /\ MailInv /\ LocalInv /\ [Next]_vars => AgentsInv' /\ MailInv' /\ LocalInv'
  BY AgentsNextInv, MailNextInv
<1>5. HostInv /\ AccountInv /\ [Next]_vars => HostInv' /\ AccountInv'
  BY HostNextInv, AccountNextInv
<1>6. ReplInv /\ TextsInv /\ IdleMeansEmpty /\ [Next]_vars => ReplInv' /\ TextsInv' /\ IdleMeansEmpty'
  BY ReplNextInv, TextsNextInv
<1>7. /\ AgentsInv /\ MailInv /\ LocalInv => MessageConserved /\ NothingStrandsLocally
      /\ AccountInv => MessagesConserved
      /\ ReplInv /\ TextsInv => TextsAreKept
  <2>1. AgentsInv /\ MailInv /\ LocalInv => MessageConserved /\ NothingStrandsLocally
    BY EachMessageIsOnce DEF AgentsInv, LocalInv
  <2>2. AccountInv => MessagesConserved
    BY DEF AccountInv, Places, Due, MessagesConserved
  <2> QED BY <2>1, <2>2, EachTextHasItsPlace
<1> QED BY <1>1, <1>2, <1>3, <1>4, <1>5, <1>6, <1>7, PTL DEF Spec, MessagesAreKept
=============================================================================
