--------------------------- MODULE ToolRoundProofs ---------------------------
(***************************************************************************)
(* What holds of the rounds of tool calls and of the grants for any rules,  *)
(* calls, limits and files.  RoundInv, inductive on its own, keeps the      *)
(* round and the questions in order; the other invariants build on it.      *)
(***************************************************************************)
EXTENDS ToolRound, WellFoundedInduction, TLAPS

-----------------------------------------------------------------------------
(* The tables                                                               *)

LEMMA FirstIsIn ==
  ASSUME NEW S \in SUBSET Nat, S # {}
  PROVE  First(S) \in S
PROOF
  <1>1. PICK k \in S : \A j \in S : ~ (<<j, k>> \in OpToRel(<, Nat))
        BY NatLessThanWellFounded, WFMin
  <1>2. \A j \in S : ~ (j < k)
        <2>1. ASSUME NEW j \in S, j < k PROVE <<j, k>> \in OpToRel(<, Nat)
              BY <2>1, Zenon DEF OpToRel
        <2> QED BY <1>1, <2>1
  <1>3. \A j \in S : k <= j
        BY <1>2
  <1> QED BY <1>3 DEF First

LEMMA GrantPathsAreDirs ==
  ASSUME NEW a \in Access, NEW i \in PathItem
  PROVE  GrantPaths(a, i) \in SUBSET Dir
PROOF
  <1>1. a.read \in Rules /\ a.write \in Rules /\ i.file \in File
        BY DEF Access, PathItem
  <1>2. Home[i.file] \in Dir
        BY <1>1, PathAssumption
  <1>3. a.read.ask \subseteq Dir /\ a.write.ask \subseteq Dir
        BY <1>1 DEF Rules
  <1> QED BY <1>2, <1>3 DEF GrantPaths, Matching

LEMMA DecideIsRules ==
  ASSUME NEW r \in Rules, NEW paths \in SUBSET Dir, NEW action
  PROVE  Decide(r, paths, action) \in Rules
PROOF BY DEF Rules, Decide

LEMMA GrantsAreTables ==
  ASSUME NEW a \in Access, NEW paths \in SUBSET Dir, NEW write \in BOOLEAN, NEW action
  PROVE  /\ GrantInMemory(a, paths, write, action) \in Access
         /\ GrantOnDisk(a, paths, write, action) \in Access
         /\ CleanAsk(a, paths) \in Access
PROOF
  <1>1. a.read \in Rules /\ a.write \in Rules
        BY DEF Access
  <1>2. Decide(a.read, paths, action) \in Rules /\ Decide(a.write, paths, action) \in Rules
        BY <1>1, DecideIsRules
  <1>3. [a.read EXCEPT !.ask = @ \ paths] \in Rules /\ [a.write EXCEPT !.ask = @ \ paths] \in Rules
        BY <1>1 DEF Rules
  <1> QED BY <1>1, <1>2, <1>3 DEF GrantInMemory, GrantOnDisk, CleanAsk, Access

LEMMA LoadIsTables ==
  ASSUME NEW files \in [{"user", "project"} -> Access]
  PROVE  Load(files) \in Access
PROOF
  <1>1. files["user"] \in Access /\ files["project"] \in Access
        OBVIOUS
  <1>2. ASSUME NEW a \in Access, NEW b \in Access PROVE Concat(a, b) \in Access
        <2>1. a.read \in Rules /\ a.write \in Rules /\ b.read \in Rules /\ b.write \in Rules
              BY DEF Access
        <2>2. ConcatRules(a.read, b.read) \in Rules /\ ConcatRules(a.write, b.write) \in Rules
              BY <2>1 DEF ConcatRules, Rules
        <2> QED BY <2>2 DEF Concat, Access
  <1> QED BY <1>1, <1>2 DEF Load

LEMMA NoAccessIsTables == NoAccess \in Access
PROOF BY DEF NoAccess, NoRules, Access, Rules

-----------------------------------------------------------------------------
(* Rounds and questions                                                     *)

FileJob ==
  [step : {"grant", "clean"}, file : {"user", "project"}, read : Access, grant : Grant, paths : SUBSET Dir]

Typed ==
  /\ TypeOK /\ loaded \in [access : Access, limit : Nat]
  /\ reply \in Seq(Calls) /\ job \in FileJob \cup {NoJob}

(* A round has a call in hand and answered those before it; between rounds  *)
(* there is none.  Who said yes to more calls has room for one.             *)
Rounds ==
  /\ IF phase \in {"idle", "model"} THEN at = 0 /\ answered = {}
                                    ELSE at \in 1..Len(reply) /\ answered = 1..(at - 1)
  /\ phase = "run" => count < limit \/ (limit = 0 /\ count < raises)
  /\ CallsWithinLimit /\ OnlyBrokenTurnsOweAnswers

(* What is asked about are items of the call in hand.                       *)
Questions ==
  /\ DOMAIN items \subseteq Nat /\ todo \subseteq DOMAIN decisions
  /\ \A k \in DOMAIN items : items[k] \in PathItem \cup {Structural}
  /\ \A k \in DOMAIN decisions : decisions[k] \in Decision
  /\ \A k \in todo : decisions[k].scope # "once"
  /\ phase # "grants" => todo = {} /\ job = NoJob
  /\ phase = "ask" => DOMAIN decisions # DOMAIN items
  /\ phase \in {"ask", "grants"} =>
       /\ ran = {} /\ DOMAIN items \subseteq DOMAIN Call.items /\ DOMAIN items # {}
       /\ \A k \in DOMAIN items : items[k] = Call.items[k]

RoundInv == Typed /\ Rounds /\ Questions

LEMMA NothingIsAsked ==
  /\ DOMAIN <<>> = {}
PROOF OBVIOUS

LEMMA CallIsTyped ==
  ASSUME RoundInv, phase \notin {"idle", "model"}
  PROVE  /\ Call \in Calls /\ Call.items \in Seq(PathItem \cup {Structural})
         /\ DOMAIN Call.items \subseteq Nat
         /\ \A k \in DOMAIN Call.items : Call.items[k] \in PathItem \cup {Structural}
         /\ Call.tool = "file" => DOMAIN Call.items = {1} /\ Call.items[1] # Structural
PROOF
  <1>1. Call \in Calls
        BY DEF RoundInv, Typed, Rounds, Call
  <1>2. Call.items \in Seq(PathItem \cup {Structural})
        BY <1>1, RoundAssumption
  <1>3. Call.tool = "file" => Len(Call.items) = 1 /\ Call.items[1] # Structural
        BY <1>1, RoundAssumption
  <1> QED BY <1>1, <1>2, <1>3

(* A tool_response ends the call, and the last one the round.               *)
LEMMA AnswersKeepRounds ==
  ASSUME RoundInv, phase \notin {"idle", "model"}, NEW touched, Answer(touched)
  PROVE  /\ phase' \in {"model", "calls"} /\ ran' = touched /\ reply' = reply
         /\ at' \in 0..Len(reply') /\ answered' \subseteq 1..Len(reply')
         /\ IF phase' = "model" THEN at' = 0 /\ answered' = {}
                                ELSE at' \in 1..Len(reply') /\ answered' = 1..(at' - 1)
         /\ (owed' <=> owed) /\ stopped' = stopped
PROOF
  <1>1. at \in 1..Len(reply) /\ answered = 1..(at - 1) /\ Len(reply) \in Nat
        BY DEF RoundInv, Rounds, Typed
  <1>2. Record(touched) = 1..at
        BY <1>1 DEF Record
  <1>3. CASE at = Len(reply)
        <2>1. owed' <=> owed
              BY <1>1, <1>2, <1>3, Zenon DEF Answer
        <2>2. phase' = "model" /\ at' = 0 /\ answered' = {} /\ ran' = touched /\ UNCHANGED <<reply, stopped>>
              BY <1>3 DEF Answer
        <2> QED BY <1>1, <2>1, <2>2
  <1>4. CASE at # Len(reply)
        BY <1>1, <1>2, <1>4 DEF Answer
  <1> QED BY <1>3, <1>4

LEMMA StopsKeepRounds ==
  ASSUME RoundInv, Stop
  PROVE  phase' = "idle" /\ stopped' = TRUE /\ at' = 0 /\ answered' = {} /\ reply' = reply
PROOF BY DEF Stop

LEMMA RoundStaysTyped ==
  ASSUME RoundInv, UNCHANGED roundVars
  PROVE  /\ at' \in 0..Len(reply') /\ answered' \subseteq 1..Len(reply') /\ reply' \in Seq(Calls)
         /\ owed' = owed /\ stopped' = stopped /\ at' = at /\ answered' = answered /\ reply' = reply
PROOF BY DEF RoundInv, Typed, TypeOK, roundVars

(* One lemma for each action: the round and the questions stay in order.    *)
LEMMA StartTurnKeepsRounds ==
  ASSUME RoundInv, StartTurn
  PROVE  RoundInv'
PROOF
  <1>1. Typed'
        <2>1. /\ phase' = "model" /\ cancel' = FALSE /\ count' = 0 /\ rounds' = 0 /\ raises' = 0
              /\ turns' \in 0..MaxTurns /\ rounds' \in 0..MaxRounds
              BY RoundAssumption DEF RoundInv, Typed, TypeOK, StartTurn
        <2>2. /\ UNCHANGED <<access, template, disk, framework, approved, interactive, limit, reply, at, answered>>
              /\ UNCHANGED <<items, decisions, ran, job, other, snapshot, loaded, consent, promised>>
              BY DEF StartTurn, tableVars, modeVars, roundVars, askVars, grantVars, otherVars, consentVars
        <2>3. at' \in 0..Len(reply') /\ answered' \subseteq 1..Len(reply') /\ reply' \in Seq(Calls)
              BY RoundStaysTyped DEF StartTurn
        <2> QED BY <2>1, <2>2, <2>3 DEF RoundInv, Typed, TypeOK
  <1>2. Rounds'
        BY <1>1 DEF RoundInv, Rounds, Typed, TypeOK, StartTurn, CallsWithinLimit, OnlyBrokenTurnsOweAnswers, roundVars
  <1>3. Questions'
        BY DEF RoundInv, Questions, StartTurn, askVars, grantVars, roundVars, Call
  <1> QED BY <1>1, <1>2, <1>3 DEF RoundInv

LEMMA FinishTurnKeepsRounds ==
  ASSUME RoundInv, FinishTurn
  PROVE  RoundInv'
PROOF
  <1>1. /\ phase' = "idle" /\ at' = 0 /\ answered' = {} /\ reply' = reply
        /\ (owed' <=> owed) /\ (stopped => stopped')
        <2>1. at = 0 /\ answered = {}
              BY DEF RoundInv, Rounds, FinishTurn
        <2>2. CASE phase' = "idle" /\ UNCHANGED roundVars
              BY <2>1, <2>2 DEF roundVars
        <2>3. CASE Stop
              <3>1. owed' <=> owed
                    BY <2>1, <2>3, Zenon DEF Stop
              <3> QED BY <3>1, <2>3 DEF Stop
        <2> QED BY <2>2, <2>3 DEF FinishTurn
  <1>2. Typed'
        BY <1>1 DEF RoundInv, Typed, TypeOK, FinishTurn, tableVars, modeVars, limitVars, paceVars, askVars,
           grantVars, otherVars, consentVars
  <1>3. Rounds'
        BY <1>1, <1>2 DEF RoundInv, Rounds, FinishTurn, CallsWithinLimit, OnlyBrokenTurnsOweAnswers,
           limitVars, paceVars
  <1>4. Questions'
        BY <1>1 DEF RoundInv, Questions, FinishTurn, askVars, grantVars
  <1> QED BY <1>2, <1>3, <1>4 DEF RoundInv

LEMMA BeginRoundKeepsRounds ==
  ASSUME RoundInv, NEW n \in 1..MaxCalls, NEW calls \in [1..n -> Calls], BeginRound(calls)
  PROVE  RoundInv'
PROOF
  <1>1. n \in Nat \ {0} /\ calls \in Seq(Calls) /\ Len(calls) = n
        BY RoundAssumption
  <1>2. /\ at = 0 /\ answered = {} /\ todo' = {} /\ job' = NoJob
        BY DEF RoundInv, Rounds, Questions, BeginRound, grantVars
  <1>3. \/ /\ phase' = "idle" /\ stopped' = TRUE
           /\ reply' = reply /\ at' = 0 /\ answered' = {} /\ rounds' = rounds
        \/ /\ phase' = "calls" /\ reply' = calls /\ at' = 1 /\ rounds' = rounds + 1
           /\ answered' = 1..(at' - 1) /\ owed' = owed /\ stopped' = stopped /\ rounds # MaxRounds
        <2>1. CASE cancel \/ OutOfRounds
              BY <1>2, <2>1 DEF BeginRound
        <2>2. CASE ~(cancel \/ OutOfRounds)
              <3>1. 1..(1 - 1) = {}
                    OBVIOUS
              <3> QED BY <1>2, <2>2, <3>1 DEF BeginRound, OutOfRounds
        <2> QED BY <2>1, <2>2
  <1>4. /\ at' \in 0..Len(reply') /\ answered' \subseteq 1..Len(reply') /\ reply' \in Seq(Calls)
        /\ rounds' \in 0..MaxRounds /\ phase' \in {"idle", "calls"}
        BY <1>1, <1>3, RoundAssumption DEF RoundInv, Typed, TypeOK
  <1>5. DOMAIN items' = {} /\ DOMAIN decisions' = {} /\ ran' = {}
        BY NothingIsAsked DEF BeginRound
  <1>6. Typed'
        BY <1>2, <1>4, <1>5 DEF RoundInv, Typed, TypeOK, BeginRound, tableVars, modeVars, limitVars, otherVars,
           consentVars, grantVars
  <1>7. Rounds'
        <2>1. (phase' = "run" => count < limit) /\ CallsWithinLimit'
              BY <1>4 DEF RoundInv, Rounds, BeginRound, CallsWithinLimit, limitVars
        <2>2. OnlyBrokenTurnsOweAnswers'
              BY <1>3 DEF RoundInv, Rounds, OnlyBrokenTurnsOweAnswers
        <2>3. IF phase' \in {"idle", "model"} THEN at' = 0 /\ answered' = {}
                                              ELSE at' \in 1..Len(reply') /\ answered' = 1..(at' - 1)
              BY <1>1, <1>3
        <2> QED BY <1>4, <2>1, <2>2, <2>3 DEF Rounds
  <1>8. Questions'
        BY <1>2, <1>4, <1>5 DEF RoundInv, Questions, BeginRound, grantVars
  <1> QED BY <1>6, <1>7, <1>8 DEF RoundInv

LEMMA AbortBeforeCallKeepsRounds ==
  ASSUME RoundInv, AbortBeforeCall
  PROVE  RoundInv'
PROOF
  <1>1. phase' = "idle" /\ stopped' = TRUE /\ at' = 0 /\ answered' = {} /\ reply' = reply
        BY StopsKeepRounds DEF AbortBeforeCall
  <1>2. Typed'
        BY <1>1 DEF RoundInv, Typed, TypeOK, AbortBeforeCall, tableVars, modeVars, limitVars, paceVars, askVars,
           grantVars, otherVars, consentVars
  <1>3. Rounds'
        BY <1>1, <1>2 DEF RoundInv, Rounds, AbortBeforeCall, CallsWithinLimit, OnlyBrokenTurnsOweAnswers,
           limitVars, paceVars
  <1>4. Questions'
        BY <1>1 DEF RoundInv, Questions, AbortBeforeCall, askVars, grantVars
  <1> QED BY <1>2, <1>3, <1>4 DEF RoundInv

LEMMA ReachLimitKeepsRounds ==
  ASSUME RoundInv, ReachLimit
  PROVE  RoundInv'
PROOF
  <1>1. \/ phase' = "idle" /\ stopped' = TRUE /\ at' = 0 /\ answered' = {} /\ reply' = reply
        \/ phase' = "limit" /\ UNCHANGED roundVars
        BY StopsKeepRounds DEF ReachLimit
  <1>2. Typed'
        <2>1. at' \in 0..Len(reply') /\ answered' \subseteq 1..Len(reply') /\ reply' \in Seq(Calls)
              BY <1>1, RoundStaysTyped DEF RoundInv, Typed
        <2> QED BY <1>1, <2>1 DEF RoundInv, Typed, TypeOK, ReachLimit, tableVars, modeVars, limitVars, paceVars,
                askVars, grantVars, otherVars, consentVars
  <1>3. Rounds'
        BY <1>1, <1>2 DEF RoundInv, Rounds, ReachLimit, CallsWithinLimit, OnlyBrokenTurnsOweAnswers,
           limitVars, paceVars, roundVars
  <1>4. Questions'
        BY <1>1 DEF RoundInv, Questions, ReachLimit, askVars, grantVars
  <1> QED BY <1>2, <1>3, <1>4 DEF RoundInv

LEMMA AnswerLimitKeepsRounds ==
  ASSUME RoundInv, NEW yes \in BOOLEAN, AnswerLimit(yes)
  PROVE  RoundInv'
PROOF
  <1>1. \/ /\ phase' = "idle" /\ stopped' = TRUE /\ at' = 0 /\ answered' = {} /\ reply' = reply
           /\ UNCHANGED limitVars
        \/ phase' = "run" /\ limit' = 2 * limit /\ raises' = raises + 1 /\ UNCHANGED roundVars
        BY StopsKeepRounds DEF AnswerLimit
  <1>2. phase = "limit" /\ count' = count /\ limit \in Nat /\ raises \in Nat /\ count \in Nat
        BY DEF AnswerLimit, paceVars, RoundInv, Typed, TypeOK
  <1>3. Typed'
        <2>1. at' \in 0..Len(reply') /\ answered' \subseteq 1..Len(reply') /\ reply' \in Seq(Calls)
              BY <1>1, RoundStaysTyped DEF RoundInv, Typed
        <2>2. limit' \in Nat /\ raises' \in Nat /\ phase' \in {"idle", "run"}
              BY <1>1, <1>2 DEF limitVars
        <2> QED BY <2>1, <2>2 DEF RoundInv, Typed, TypeOK, AnswerLimit, tableVars, modeVars, paceVars,
                askVars, grantVars, otherVars, consentVars
  <1>4. Rounds'
        <2>1. CallsWithinLimit' /\ (phase' = "run" => count' < limit' \/ (limit' = 0 /\ count' < raises'))
              BY <1>1, <1>2 DEF RoundInv, Rounds, CallsWithinLimit, limitVars
        <2>2. OnlyBrokenTurnsOweAnswers'
              BY <1>1 DEF RoundInv, Rounds, OnlyBrokenTurnsOweAnswers, roundVars
        <2>3. IF phase' \in {"idle", "model"} THEN at' = 0 /\ answered' = {}
                                              ELSE at' \in 1..Len(reply') /\ answered' = 1..(at' - 1)
              BY <1>1, <1>2 DEF RoundInv, Rounds, roundVars
        <2> QED BY <2>1, <2>2, <2>3 DEF Rounds
  <1>5. Questions'
        BY <1>1, <1>2 DEF RoundInv, Questions, AnswerLimit, askVars, grantVars
  <1> QED BY <1>3, <1>4, <1>5 DEF RoundInv

LEMMA StartCallKeepsLimit ==
  ASSUME RoundInv, StartCall
  PROVE  /\ phase \in {"run", "calls"} /\ todo = {} /\ job = NoJob /\ at \in 1..Len(reply) /\ answered = 1..(at - 1)
         /\ count' \in Nat /\ CallsWithinLimit'
PROOF
  <1>1. limit \in Nat /\ raises \in Nat /\ count \in Nat /\ limit' = limit /\ raises' = raises /\ count' = count + 1
        BY DEF StartCall, limitVars, RoundInv, Typed, TypeOK
  <1>2. phase \in {"run", "calls"} /\ todo = {} /\ job = NoJob /\ at \in 1..Len(reply) /\ answered = 1..(at - 1)
        BY DEF StartCall, RoundInv, Questions, Rounds
  <1>3. count < limit \/ (limit = 0 /\ count < raises)
        BY <1>1 DEF StartCall, AtLimit, RoundInv, Rounds
  <1>4. CallsWithinLimit'
        BY <1>1, <1>3 DEF CallsWithinLimit
  <1> QED BY <1>1, <1>2, <1>4

LEMMA AskedIsTyped ==
  ASSUME RoundInv, phase \notin {"idle", "model"}
  PROVE  /\ Asked \subseteq DOMAIN Call.items /\ Asked \subseteq Nat
         /\ DOMAIN AskedItems = Asked
         /\ \A k \in Asked : AskedItems[k] = Call.items[k] /\ Call.items[k] \in PathItem \cup {Structural}
PROOF BY CallIsTyped DEF Asked, AskedItems

LEMMA ShownIsDirs ==
  ASSUME RoundInv, NEW asked, asked \subseteq PathItem \cup {Structural}
  PROVE  Shown(asked) \subseteq Dir
PROOF
  <1>1. access \in Access
        BY DEF RoundInv, Typed, TypeOK
  <1>2. \A i \in asked \ {Structural} : GrantPaths(access, i) \subseteq Dir
        BY <1>1, GrantPathsAreDirs
  <1> QED BY <1>2 DEF Shown

LEMMA RunUnaskedKeepsRounds ==
  ASSUME RoundInv, RunUnasked
  PROVE  RoundInv'
PROOF
  <1> DEFINE touched == IF Permitted({}) THEN ToSet(Call.items) ELSE {}
  <1>1. StartCall /\ Answer(touched) /\ UNCHANGED <<access, template, todo, consent>>
        BY DEF RunUnasked
  <1>2. DOMAIN items' = {} /\ DOMAIN decisions' = {}
        BY NothingIsAsked DEF RunUnasked
  <1>3. touched \subseteq PathItem \cup {Structural}
        BY <1>1, StartCallKeepsLimit, CallIsTyped DEF ToSet
  <1> HIDE DEF touched
  <1>4. /\ phase' \in {"model", "calls"} /\ ran' = touched /\ reply' = reply
        /\ at' \in 0..Len(reply') /\ answered' \subseteq 1..Len(reply')
        /\ IF phase' = "model" THEN at' = 0 /\ answered' = {}
                               ELSE at' \in 1..Len(reply') /\ answered' = 1..(at' - 1)
        /\ (owed' <=> owed) /\ stopped' = stopped
        BY <1>1, AnswersKeepRounds, StartCallKeepsLimit
  <1>5. todo' = {} /\ job' = NoJob
        BY <1>1, StartCallKeepsLimit DEF StartCall
  <1>6. Typed'
        <2>1. count' \in Nat
              BY <1>1, StartCallKeepsLimit
        <2> QED BY <2>1, <1>1, <1>2, <1>3, <1>4, <1>5 DEF RoundInv, Typed, TypeOK, StartCall, modeVars, limitVars,
                otherVars
  <1>7. Rounds'
        <2>1. CallsWithinLimit'
              BY <1>1, StartCallKeepsLimit
        <2>2. OnlyBrokenTurnsOweAnswers'
              BY <1>4 DEF RoundInv, Rounds, OnlyBrokenTurnsOweAnswers
        <2> QED BY <2>1, <2>2, <1>4 DEF Rounds
  <1>8. Questions'
        BY <1>2, <1>4, <1>5 DEF Questions
  <1> QED BY <1>6, <1>7, <1>8 DEF RoundInv

LEMMA AutoApproveKeepsRounds ==
  ASSUME RoundInv, AutoApprove
  PROVE  RoundInv'
PROOF
  <1>1. /\ StartCall /\ UNCHANGED <<access, template>> /\ UNCHANGED roundVars
        /\ phase' = "grants" /\ ran' = {} /\ items' = AskedItems
        /\ decisions' = [k \in Asked |-> AllowSession] /\ todo' = Asked /\ Asked # {}
        /\ consent' = consent \cup Shown({Call.items[k] : k \in Asked})
        BY DEF AutoApprove
  <1>2. /\ phase \notin {"idle", "model"} /\ job' = NoJob /\ count' \in Nat /\ CallsWithinLimit'
        /\ at \in 1..Len(reply) /\ answered = 1..(at - 1)
        BY <1>1, StartCallKeepsLimit DEF StartCall
  <1>3. /\ at' \in 0..Len(reply') /\ answered' \subseteq 1..Len(reply') /\ reply' \in Seq(Calls)
        /\ owed' = owed /\ stopped' = stopped /\ at' = at /\ answered' = answered /\ reply' = reply
        BY <1>1, RoundStaysTyped
  <1>4. /\ DOMAIN items' = Asked /\ DOMAIN decisions' = Asked
        /\ Asked \subseteq Nat /\ Asked \subseteq DOMAIN Call.items
        /\ \A k \in Asked : items'[k] = Call.items[k] /\ Call.items[k] \in PathItem \cup {Structural}
        BY <1>1, <1>2, AskedIsTyped
  <1>5. consent' \subseteq Dir
        <2>1. {Call.items[k] : k \in Asked} \subseteq PathItem \cup {Structural}
              BY <1>4
        <2> QED BY <1>1, <2>1, ShownIsDirs DEF RoundInv, Typed, TypeOK
  <1>6. Typed'
        BY <1>1, <1>2, <1>3, <1>4, <1>5 DEF RoundInv, Typed, TypeOK, StartCall, modeVars, limitVars, otherVars
  <1>7. Rounds'
        BY <1>1, <1>2, <1>3 DEF RoundInv, Rounds, OnlyBrokenTurnsOweAnswers
  <1>8. Questions'
        <2>1. Call' = Call
              BY <1>3 DEF Call
        <2>2. \A k \in Asked : decisions'[k] = AllowSession
              BY <1>1
        <2>3. AllowSession \in Decision /\ AllowSession.scope # "once"
              BY DEF AllowSession, Decision, Scope
        <2> QED BY <1>1, <1>4, <2>1, <2>2, <2>3 DEF Questions
  <1> QED BY <1>6, <1>7, <1>8 DEF RoundInv

LEMMA AskUserKeepsRounds ==
  ASSUME RoundInv, AskUser
  PROVE  RoundInv'
PROOF
  <1>1. /\ StartCall /\ UNCHANGED <<access, template, todo, consent>> /\ UNCHANGED roundVars /\ ran' = {}
        /\ \/ phase' \in {"escalate", "questions"} /\ items' = <<>>
           \/ phase' = "ask" /\ Asked # {} /\ items' = AskedItems
        BY DEF AskUser
  <1>2. /\ phase \notin {"idle", "model"} /\ todo' = {} /\ job' = NoJob /\ count' \in Nat /\ CallsWithinLimit'
        /\ at \in 1..Len(reply) /\ answered = 1..(at - 1)
        BY <1>1, StartCallKeepsLimit DEF StartCall
  <1>3. /\ at' \in 0..Len(reply') /\ answered' \subseteq 1..Len(reply') /\ reply' \in Seq(Calls)
        /\ owed' = owed /\ stopped' = stopped /\ at' = at /\ answered' = answered /\ reply' = reply
        BY <1>1, RoundStaysTyped
  <1>4. /\ DOMAIN decisions' = {}
        /\ \/ phase' \in {"escalate", "questions"} /\ DOMAIN items' = {}
           \/ /\ phase' = "ask" /\ Asked # {} /\ DOMAIN items' = Asked
              /\ Asked \subseteq Nat /\ Asked \subseteq DOMAIN Call.items
              /\ \A k \in Asked : items'[k] = Call.items[k] /\ Call.items[k] \in PathItem \cup {Structural}
        BY <1>1, <1>2, AskedIsTyped, NothingIsAsked DEF AskUser
  <1>5. Typed'
        BY <1>1, <1>2, <1>3, <1>4 DEF RoundInv, Typed, TypeOK, StartCall, modeVars, limitVars, otherVars
  <1>6. Rounds'
        BY <1>1, <1>2, <1>3 DEF RoundInv, Rounds, OnlyBrokenTurnsOweAnswers
  <1>7. Questions'
        <2>1. Call' = Call
              BY <1>3 DEF Call
        <2> QED BY <1>1, <1>2, <1>4, <2>1 DEF Questions
  <1> QED BY <1>5, <1>6, <1>7 DEF RoundInv

(* A call without items of its own ends with its user's answer.             *)
LEMMA TalkKeepsRounds ==
  ASSUME RoundInv, phase \in {"questions", "escalate"}, Answer({}),
         UNCHANGED <<tableVars, framework, interactive, limitVars, cancel, paceVars, askVars, grantVars, otherVars,
                     consentVars>>,
         approved' \in BOOLEAN
  PROVE  RoundInv'
PROOF
  <1>1. /\ phase' \in {"model", "calls"} /\ ran' = {} /\ reply' = reply
        /\ at' \in 0..Len(reply') /\ answered' \subseteq 1..Len(reply')
        /\ IF phase' = "model" THEN at' = 0 /\ answered' = {}
                               ELSE at' \in 1..Len(reply') /\ answered' = 1..(at' - 1)
        /\ (owed' <=> owed) /\ stopped' = stopped
        BY AnswersKeepRounds
  <1>2. Typed'
        BY <1>1 DEF RoundInv, Typed, TypeOK, tableVars, limitVars, paceVars, askVars, grantVars, otherVars, consentVars
  <1>3. Rounds'
        BY <1>1 DEF RoundInv, Rounds, CallsWithinLimit, OnlyBrokenTurnsOweAnswers, limitVars, paceVars
  <1>4. Questions'
        BY <1>1 DEF RoundInv, Questions, askVars, grantVars
  <1> QED BY <1>2, <1>3, <1>4 DEF RoundInv

LEMMA AnswersToTalkKeepRounds ==
  ASSUME RoundInv, AnswerQuestions \/ \E yes \in BOOLEAN : AnswerEscalation(yes)
  PROVE  RoundInv'
PROOF
  <1>1. approved \in BOOLEAN
        BY DEF RoundInv, Typed, TypeOK
  <1>2. CASE AnswerQuestions
        BY <1>1, <1>2, TalkKeepsRounds DEF AnswerQuestions, modeVars
  <1>3. CASE \E yes \in BOOLEAN : AnswerEscalation(yes)
        BY <1>1, <1>3, TalkKeepsRounds DEF AnswerEscalation
  <1> QED BY <1>2, <1>3

(* The answers that a grant follows from.                                   *)
Kept == {k \in DOMAIN decisions : Lasting(decisions[k], items[k])}

(* One answer more: the asking goes on, or it was the last one and grants   *)
(* follow, or it was a denial and they do, for a file only, or do not.      *)
LEMMA AnswerAskEffects ==
  ASSUME RoundInv, NEW d \in Decision, AnswerAsk(d)
  PROVE  \E a \in DOMAIN items \ DOMAIN decisions :
           /\ DOMAIN decisions' = DOMAIN decisions \cup {a} /\ decisions'[a] = d
           /\ \A k \in DOMAIN decisions : decisions'[k] = decisions[k]
           /\ items[a] = Structural => d.scope \in {"once", "session"}
           /\ \/ /\ d.action = "allow" /\ DOMAIN decisions' # DOMAIN items
                 /\ UNCHANGED <<phase, roundVars, ran, todo, consent>>
              \/ /\ d.action = "allow" /\ DOMAIN decisions' = DOMAIN items /\ phase' = "grants"
                 /\ todo' = Kept' /\ UNCHANGED <<roundVars, ran>>
                 /\ consent' = consent \cup Shown({items[k] : k \in todo'})
              \/ /\ d.action = "deny" /\ Call.tool = "file" /\ phase' = "grants"
                 /\ todo' = Kept' /\ UNCHANGED <<roundVars, ran, consent>>
              \/ d.action = "deny" /\ Answer({}) /\ UNCHANGED <<todo, consent>>
PROOF
  <1>1. /\ phase = "ask" /\ DOMAIN items \subseteq Nat /\ DOMAIN decisions \subseteq DOMAIN items
        /\ DOMAIN decisions # DOMAIN items /\ items' = items
        BY DEF AnswerAsk, RoundInv, Questions, Typed, TypeOK
  <1> DEFINE open == DOMAIN items \ DOMAIN decisions
             a == First(open)
             all == [k \in DOMAIN decisions \cup {a} |-> IF k = a THEN d ELSE decisions[k]]
             kept == {k \in DOMAIN all : Lasting(all[k], items[k])}
  <1>2. a \in open
        <2>1. open \in SUBSET Nat /\ open # {}
              BY <1>1
        <2> HIDE DEF open
        <2> QED BY <2>1, FirstIsIn
  <1>3. /\ items[a] = Structural => d.scope \in {"once", "session"}
        /\ decisions' = all
        /\ IF d.action = "allow" /\ open # {a}
             THEN UNCHANGED <<phase, roundVars, ran, todo, consent>>
           ELSE IF d.action = "deny"
             THEN IF DenialIsKept(kept)
                    THEN /\ phase' = "grants" /\ todo' = kept
                         /\ UNCHANGED <<roundVars, ran, consent>>
                    ELSE Answer({}) /\ UNCHANGED <<todo, consent>>
             ELSE /\ phase' = "grants" /\ todo' = kept
                  /\ consent' = consent \cup Shown({items[k] : k \in kept})
                  /\ UNCHANGED <<roundVars, ran>>
        BY DEF AnswerAsk
  <1>4. DOMAIN all = DOMAIN decisions \cup {a} /\ all[a] = d /\ \A k \in DOMAIN decisions : all[k] = decisions[k]
        BY <1>2
  <1>5. kept = Kept'
        BY <1>1, <1>3 DEF Kept
  <1>6. DOMAIN all = DOMAIN items <=> open = {a}
        BY <1>1, <1>2, <1>4
  <1>7. d.action \in {"allow", "deny"}
        BY DEF Decision
  <1> HIDE DEF open, a, all, kept
  <1>8. \/ /\ d.action = "allow" /\ DOMAIN all # DOMAIN items
           /\ UNCHANGED <<phase, roundVars, ran, todo, consent>>
        \/ /\ d.action = "allow" /\ DOMAIN all = DOMAIN items /\ phase' = "grants"
           /\ todo' = kept /\ UNCHANGED <<roundVars, ran>>
           /\ consent' = consent \cup Shown({items[k] : k \in todo'})
        \/ /\ d.action = "deny" /\ Call.tool = "file" /\ phase' = "grants"
           /\ todo' = kept /\ UNCHANGED <<roundVars, ran, consent>>
        \/ d.action = "deny" /\ Answer({}) /\ UNCHANGED <<todo, consent>>
        BY <1>3, <1>6, <1>7 DEF DenialIsKept
  <1>9. a \in DOMAIN items \ DOMAIN decisions
        BY <1>2 DEF open
  <1> QED BY <1>3, <1>4, <1>5, <1>8, <1>9

LEMMA AnswerAskKeepsRounds ==
  ASSUME RoundInv, NEW d \in Decision, AnswerAsk(d)
  PROVE  RoundInv'
PROOF
  <1>1. PICK a \in DOMAIN items \ DOMAIN decisions :
           /\ DOMAIN decisions' = DOMAIN decisions \cup {a} /\ decisions'[a] = d
           /\ \A k \in DOMAIN decisions : decisions'[k] = decisions[k]
           /\ \/ /\ DOMAIN decisions' # DOMAIN items
                 /\ UNCHANGED <<phase, roundVars, ran, todo, consent>>
              \/ /\ phase' = "grants" /\ todo' = Kept' /\ UNCHANGED <<roundVars, ran>>
                 /\ consent' = consent \cup Shown({items[k] : k \in todo'}) \/ consent' = consent
              \/ Answer({}) /\ UNCHANGED <<todo, consent>>
        BY AnswerAskEffects
  <1>2. /\ phase = "ask" /\ items' = items /\ job' = job /\ todo = {} /\ job = NoJob /\ ran = {}
        BY DEF AnswerAsk, RoundInv, Questions
  <1>3. CASE UNCHANGED roundVars
        <2>1. /\ at' \in 0..Len(reply') /\ answered' \subseteq 1..Len(reply') /\ reply' \in Seq(Calls)
              /\ owed' = owed /\ stopped' = stopped /\ at' = at /\ answered' = answered /\ reply' = reply
              BY <1>3, RoundStaysTyped
        <2>2. phase' \in {"ask", "grants", "calls", "model"} /\ ran' = {}
              BY <1>1, <1>2 DEF Answer
        <2>3. phase' \in {"ask", "grants"}
              <3>1. SUFFICES ASSUME Answer({}) PROVE FALSE
                    BY <1>1, <1>2
              <3>2. at \in 1..Len(reply)
                    BY <1>2 DEF RoundInv, Rounds
              <3> QED BY <2>1, <3>1, <3>2 DEF Answer
        <2>4. consent' \subseteq Dir
              <3>1. ASSUME todo' = Kept' PROVE {items[k] : k \in todo'} \subseteq PathItem \cup {Structural}
                    BY <1>1, <1>2, <3>1 DEF Kept, RoundInv, Questions, Typed, TypeOK
              <3> QED BY <1>1, <3>1, ShownIsDirs DEF RoundInv, Typed, TypeOK, Answer
        <2>5. DOMAIN decisions' \subseteq DOMAIN items'
              BY <1>1, <1>2 DEF RoundInv, Typed, TypeOK
        <2>6. Typed'
              BY <1>2, <2>1, <2>2, <2>4, <2>5 DEF RoundInv, Typed, TypeOK, AnswerAsk, tableVars, modeVars, limitVars,
                 paceVars, otherVars
        <2>7. Rounds'
              BY <1>2, <2>1, <2>3 DEF RoundInv, Rounds, CallsWithinLimit, OnlyBrokenTurnsOweAnswers, AnswerAsk,
                 limitVars, paceVars
        <2>8. Questions'
              <3>1. Call' = Call
                    BY <2>1 DEF Call
              <3>2. todo' \subseteq DOMAIN decisions' /\ \A k \in todo' : decisions'[k].scope # "once"
                    BY <1>1, <1>2 DEF Kept, Lasting
              <3>3. \A k \in DOMAIN decisions' : decisions'[k] \in Decision
                    BY <1>1 DEF RoundInv, Questions
              <3>4. phase' = "ask" => DOMAIN decisions' # DOMAIN items /\ todo' = {}
                    BY <1>1, <1>2, <2>1 DEF Answer
              <3> QED BY <1>2, <2>2, <2>3, <3>1, <3>2, <3>3, <3>4 DEF RoundInv, Questions
        <2> QED BY <2>6, <2>7, <2>8 DEF RoundInv
  <1>4. CASE Answer({}) /\ UNCHANGED <<todo, consent>>
        <2>1. /\ phase' \in {"model", "calls"} /\ ran' = {} /\ reply' = reply
              /\ at' \in 0..Len(reply') /\ answered' \subseteq 1..Len(reply')
              /\ IF phase' = "model" THEN at' = 0 /\ answered' = {}
                                     ELSE at' \in 1..Len(reply') /\ answered' = 1..(at' - 1)
              /\ (owed' <=> owed) /\ stopped' = stopped
              BY <1>2, <1>4, AnswersKeepRounds
        <2>2. DOMAIN decisions' \subseteq DOMAIN items'
              BY <1>1, <1>2 DEF RoundInv, Typed, TypeOK
        <2>3. Typed'
              BY <1>2, <1>4, <2>1, <2>2 DEF RoundInv, Typed, TypeOK, AnswerAsk, tableVars, modeVars, limitVars,
                 paceVars, otherVars
        <2>4. Rounds'
              BY <1>2, <2>1 DEF RoundInv, Rounds, CallsWithinLimit, OnlyBrokenTurnsOweAnswers, AnswerAsk,
                 limitVars, paceVars
        <2>5. Questions'
              BY <1>1, <1>2, <1>4, <2>1 DEF RoundInv, Questions
        <2> QED BY <2>3, <2>4, <2>5 DEF RoundInv
  <1> QED BY <1>1, <1>3, <1>4 DEF roundVars

(* One grant: the session's tables, and for a lasting scope the template's  *)
(* and the file to be rewritten.                                            *)
LEMMA ApplyGrantEffects ==
  ASSUME RoundInv, ApplyGrant
  PROVE  /\ phase = "grants" /\ job = NoJob
         /\ UNCHANGED <<disk, modeVars, limitVars, phase, cancel, roundVars, paceVars, askVars, ran, otherVars,
                        loaded, consent, promised>>
         /\ \E k \in todo :
              /\ todo' = todo \ {k}
              /\ \/ items[k] = Structural /\ UNCHANGED <<access, template, job, narrowed>>
                 \/ /\ items[k] \in PathItem /\ items[k] # Structural
                    /\ access' = GrantInMemory(access, GrantPaths(access, items[k]), items[k].write,
                                               decisions[k].action)
                    /\ narrowed' = (narrowed \/ ~(consent \cap Within[items[k].file]
                                                    \subseteq GrantPaths(access, items[k])))
                    /\ \/ decisions[k].scope = "session" /\ UNCHANGED <<template, job>>
                       \/ /\ decisions[k].scope \in {"workspace", "homedir"}
                          /\ template' = GrantInMemory(template, GrantPaths(access, items[k]), items[k].write,
                                                       decisions[k].action)
                          /\ \E file \in {"user", "project"} :
                               /\ (file = "project" <=> decisions[k].scope = "workspace")
                               /\ job' = [step |-> "grant", file |-> file, read |-> disk[file],
                                          grant |-> GrantOf(k), paths |-> GrantPaths(access, items[k])]
PROOF
  <1>1. /\ phase = "grants" /\ job = NoJob
        /\ UNCHANGED <<disk, modeVars, limitVars, phase, cancel, roundVars, paceVars, askVars, ran, otherVars,
                       loaded, consent, promised>>
        BY DEF ApplyGrant
  <1>2. /\ todo # {} /\ todo \subseteq DOMAIN decisions /\ DOMAIN decisions \subseteq DOMAIN items
        /\ DOMAIN items \subseteq Nat
        BY DEF ApplyGrant, RoundInv, Questions, Typed, TypeOK
  <1>3. PICK k \in todo : k = First(todo)
        BY <1>2, FirstIsIn
  <1>4. items[k] \in PathItem \cup {Structural} /\ decisions[k] \in Decision /\ decisions[k].scope # "once"
        BY <1>2 DEF RoundInv, Questions
  <1>5. decisions[k].scope \in {"session", "workspace", "homedir"}
        BY <1>4 DEF Decision, Scope
  <1>6. GrantOf(k).item = items[k] /\ GrantOf(k).action = decisions[k].action /\ GrantOf(k).scope = decisions[k].scope
        BY DEF GrantOf
  <1>7. todo' = todo \ {k}
        BY <1>3 DEF ApplyGrant
  <1>8. CASE items[k] = Structural
        BY <1>1, <1>3, <1>6, <1>7, <1>8 DEF ApplyGrant
  <1>9. CASE items[k] # Structural
        <2>1. /\ access' = GrantInMemory(access, GrantPaths(access, items[k]), items[k].write, decisions[k].action)
              /\ narrowed' = (narrowed \/ ~(consent \cap Within[items[k].file] \subseteq GrantPaths(access, items[k])))
              BY <1>3, <1>6, <1>9 DEF ApplyGrant
        <2>2. CASE decisions[k].scope = "session"
              BY <1>1, <1>3, <1>4, <1>6, <1>7, <1>9, <2>1, <2>2 DEF ApplyGrant
        <2>3. CASE decisions[k].scope \in {"workspace", "homedir"}
              <3>1. template' = GrantInMemory(template, GrantPaths(access, items[k]), items[k].write,
                                              decisions[k].action)
                    BY <1>3, <1>6, <1>9, <2>3 DEF ApplyGrant
              <3>2. \E file \in {"user", "project"} :
                      /\ (file = "project" <=> decisions[k].scope = "workspace")
                      /\ job' = [step |-> "grant", file |-> file, read |-> disk[file],
                                 grant |-> GrantOf(k), paths |-> GrantPaths(access, items[k])]
                    <4>1. CASE decisions[k].scope = "workspace"
                          BY <1>3, <1>6, <1>9, <4>1 DEF ApplyGrant
                    <4>2. CASE decisions[k].scope # "workspace"
                          BY <1>3, <1>6, <1>9, <2>3, <4>2 DEF ApplyGrant
                    <4> QED BY <4>1, <4>2
              <3> QED BY <1>1, <1>4, <1>7, <1>9, <2>1, <2>3, <3>1, <3>2
        <2> QED BY <1>5, <2>2, <2>3
  <1> QED BY <1>8, <1>9

LEMMA ApplyGrantKeepsRounds ==
  ASSUME RoundInv, ApplyGrant
  PROVE  RoundInv'
PROOF
  <1>1. /\ phase = "grants" /\ job = NoJob /\ phase' = phase
        /\ UNCHANGED <<disk, modeVars, limitVars, cancel, roundVars, paceVars, askVars, ran, otherVars, loaded,
                       consent, promised>>
        BY ApplyGrantEffects
  <1>2. access \in Access /\ template \in Access /\ todo \subseteq DOMAIN decisions
        BY DEF RoundInv, Typed, TypeOK, Questions
  <1>3. PICK k \in todo :
          /\ todo' = todo \ {k}
          /\ \/ UNCHANGED <<access, template, job>>
             \/ /\ items[k] \in PathItem
                /\ access' = GrantInMemory(access, GrantPaths(access, items[k]), items[k].write, decisions[k].action)
                /\ \/ UNCHANGED <<template, job>>
                   \/ /\ template' = GrantInMemory(template, GrantPaths(access, items[k]), items[k].write,
                                                   decisions[k].action)
                      /\ \E file \in {"user", "project"} :
                           job' = [step |-> "grant", file |-> file, read |-> disk[file],
                                   grant |-> GrantOf(k), paths |-> GrantPaths(access, items[k])]
        <2>1. PICK k \in todo :
                /\ todo' = todo \ {k}
                /\ \/ items[k] = Structural /\ UNCHANGED <<access, template, job, narrowed>>
                   \/ /\ items[k] \in PathItem
                      /\ access' = GrantInMemory(access, GrantPaths(access, items[k]), items[k].write,
                                                 decisions[k].action)
                      /\ \/ UNCHANGED <<template, job>>
                         \/ /\ template' = GrantInMemory(template, GrantPaths(access, items[k]), items[k].write,
                                                         decisions[k].action)
                            /\ \E file \in {"user", "project"} :
                                 job' = [step |-> "grant", file |-> file, read |-> disk[file],
                                         grant |-> GrantOf(k), paths |-> GrantPaths(access, items[k])]
              BY ApplyGrantEffects
        <2> QED BY <2>1
  <1>4. decisions[k] \in Decision /\ decisions[k].scope # "once"
        BY <1>2 DEF RoundInv, Questions
  <1>5. ASSUME items[k] \in PathItem
        PROVE  /\ GrantPaths(access, items[k]) \in SUBSET Dir /\ items[k].write \in BOOLEAN
               /\ GrantOf(k) \in Grant
        BY <1>2, <1>4, <1>5, GrantPathsAreDirs DEF GrantOf, Grant, Decision, PathItem
  <1>6. access' \in Access /\ template' \in Access
        BY <1>2, <1>3, <1>5, GrantsAreTables
  <1>7. job' \in FileJob \cup {NoJob}
        BY <1>1, <1>3, <1>5 DEF FileJob, RoundInv, Typed, TypeOK
  <1>8. /\ at' \in 0..Len(reply') /\ answered' \subseteq 1..Len(reply') /\ reply' \in Seq(Calls)
        /\ owed' = owed /\ stopped' = stopped /\ at' = at /\ answered' = answered /\ reply' = reply
        BY <1>1, RoundStaysTyped
  <1>9. Typed'
        BY <1>1, <1>6, <1>7, <1>8 DEF RoundInv, Typed, TypeOK, modeVars, limitVars, paceVars, askVars, otherVars
  <1>10. Rounds'
        BY <1>1, <1>8 DEF RoundInv, Rounds, CallsWithinLimit, OnlyBrokenTurnsOweAnswers, limitVars, paceVars
  <1>11. Questions'
        <2>1. Call' = Call
              BY <1>8 DEF Call
        <2> QED BY <1>1, <1>3, <2>1 DEF RoundInv, Questions, askVars
  <1> QED BY <1>9, <1>10, <1>11 DEF RoundInv

(* A step of the rewriting of a file.                                       *)
LEMMA FileStepKeepsRounds ==
  ASSUME RoundInv, job # NoJob, disk' \in [{"user", "project"} -> Access], job' \in FileJob \cup {NoJob},
         promised' \subseteq Grant,
         UNCHANGED <<access, template, modeVars, limitVars, phase, cancel, roundVars, paceVars, askVars, ran, todo,
                     other, snapshot, loaded, consent, narrowed>>
  PROVE  RoundInv'
PROOF
  <1>1. /\ at' \in 0..Len(reply') /\ answered' \subseteq 1..Len(reply') /\ reply' \in Seq(Calls)
        /\ owed' = owed /\ stopped' = stopped /\ at' = at /\ answered' = answered /\ reply' = reply
        BY RoundStaysTyped
  <1>2. Typed'
        BY <1>1 DEF RoundInv, Typed, TypeOK, modeVars, limitVars, paceVars, askVars
  <1>3. Rounds'
        BY <1>1 DEF RoundInv, Rounds, CallsWithinLimit, OnlyBrokenTurnsOweAnswers, limitVars, paceVars
  <1>4. Questions'
        <2>1. Call' = Call
              BY <1>1 DEF Call
        <2> QED BY <2>1 DEF RoundInv, Questions, askVars
  <1> QED BY <1>2, <1>3, <1>4 DEF RoundInv

LEMMA RewriteFileKeepsRounds ==
  ASSUME RoundInv, RewriteFile
  PROVE  RoundInv'
PROOF
  <1>1. /\ job \in FileJob /\ job # NoJob /\ disk \in [{"user", "project"} -> Access] /\ promised \subseteq Grant
        BY DEF RewriteFile, RoundInv, Typed, TypeOK
  <1>2. /\ job.read \in Access /\ job.paths \in SUBSET Dir /\ job.grant \in Grant /\ job.grant.item.write \in BOOLEAN
        BY <1>1 DEF FileJob, Grant, PathItem
  <1>3. disk' \in [{"user", "project"} -> Access]
        BY <1>1, <1>2, GrantsAreTables DEF RewriteFile
  <1>4. [job EXCEPT !.step = "clean", !.file = "project", !.read = disk["project"]] \in FileJob
        BY <1>1 DEF FileJob
  <1>5. job' \in FileJob \cup {NoJob} /\ promised' \subseteq Grant
        BY <1>1, <1>2, <1>4 DEF RewriteFile
  <1> QED BY <1>1, <1>3, <1>5, FileStepKeepsRounds DEF RewriteFile

LEMMA CleanProjectFileKeepsRounds ==
  ASSUME RoundInv, CleanProjectFile
  PROVE  RoundInv'
PROOF
  <1>1. /\ job \in FileJob /\ job # NoJob /\ disk \in [{"user", "project"} -> Access] /\ promised \subseteq Grant
        BY DEF CleanProjectFile, RoundInv, Typed, TypeOK
  <1>2. job.read \in Access /\ job.paths \in SUBSET Dir /\ job.grant \in Grant
        BY <1>1 DEF FileJob
  <1>3. CleanAsk(job.read, job.paths) \in Access
        BY <1>2, GrantsAreTables
  <1>4. disk' \in [{"user", "project"} -> Access]
        BY <1>1, <1>3 DEF CleanProjectFile
  <1>5. job' = NoJob /\ promised' \subseteq Grant
        BY <1>1, <1>2 DEF CleanProjectFile
  <1> QED BY <1>1, <1>4, <1>5, FileStepKeepsRounds DEF CleanProjectFile

LEMMA RetryKeepsRounds ==
  ASSUME RoundInv, Retry
  PROVE  RoundInv'
PROOF
  <1> DEFINE touched == IF ~Refused /\ Permitted(Override) THEN ToSet(Call.items) ELSE {}
  <1>1. /\ phase = "grants" /\ todo = {} /\ job = NoJob /\ Answer(touched)
        /\ UNCHANGED <<tableVars, modeVars, limitVars, cancel, paceVars, askVars, grantVars, otherVars, consentVars>>
        BY DEF Retry, GrantsDone
  <1>2. touched \subseteq PathItem \cup {Structural}
        BY <1>1, CallIsTyped DEF ToSet
  <1> HIDE DEF touched
  <1>3. /\ phase' \in {"model", "calls"} /\ ran' = touched /\ reply' = reply
        /\ at' \in 0..Len(reply') /\ answered' \subseteq 1..Len(reply')
        /\ IF phase' = "model" THEN at' = 0 /\ answered' = {}
                               ELSE at' \in 1..Len(reply') /\ answered' = 1..(at' - 1)
        /\ (owed' <=> owed) /\ stopped' = stopped
        BY <1>1, AnswersKeepRounds
  <1>4. Typed'
        BY <1>1, <1>2, <1>3 DEF RoundInv, Typed, TypeOK, tableVars, modeVars, limitVars, paceVars, askVars, grantVars,
           otherVars, consentVars
  <1>5. Rounds'
        BY <1>1, <1>3 DEF RoundInv, Rounds, CallsWithinLimit, OnlyBrokenTurnsOweAnswers, limitVars, paceVars
  <1>6. Questions'
        BY <1>1, <1>3 DEF RoundInv, Questions, askVars, grantVars
  <1> QED BY <1>4, <1>5, <1>6 DEF RoundInv

(* What happens beside the turn.                                            *)
LEMMA OthersKeepRounds ==
  ASSUME RoundInv,
         UNCHANGED <<access, template, approved, interactive, limitVars, phase, roundVars, paceVars, askVars, ran,
                     grantVars, consentVars>>,
         disk' \in [{"user", "project"} -> Access], framework' \in {"ask", "auto", "deny"}, cancel' \in BOOLEAN,
         other' \in {"ready", "read", "done"}, snapshot' \in Access
  PROVE  RoundInv'
PROOF
  <1>1. /\ at' \in 0..Len(reply') /\ answered' \subseteq 1..Len(reply') /\ reply' \in Seq(Calls)
        /\ owed' = owed /\ stopped' = stopped /\ at' = at /\ answered' = answered /\ reply' = reply
        BY RoundStaysTyped
  <1>2. Typed'
        BY <1>1 DEF RoundInv, Typed, TypeOK, limitVars, paceVars, askVars, grantVars, consentVars
  <1>3. Rounds'
        BY <1>1 DEF RoundInv, Rounds, CallsWithinLimit, OnlyBrokenTurnsOweAnswers, limitVars, paceVars
  <1>4. Questions'
        <2>1. Call' = Call
              BY <1>1 DEF Call
        <2> QED BY <2>1 DEF RoundInv, Questions, askVars, grantVars
  <1> QED BY <1>2, <1>3, <1>4 DEF RoundInv

LEMMA OtherStepsKeepRounds ==
  ASSUME RoundInv,
         \/ Cancel \/ OtherReads \/ OtherWrites
         \/ \E v \in {"ask", "auto", "deny"} : SetFramework(v)
  PROVE  RoundInv'
PROOF
  <1>1. /\ disk \in [{"user", "project"} -> Access] /\ framework \in {"ask", "auto", "deny"} /\ cancel \in BOOLEAN
        /\ other \in {"ready", "read", "done"} /\ snapshot \in Access
        BY DEF RoundInv, Typed, TypeOK
  <1>2. CASE Cancel
        BY <1>1, <1>2, OthersKeepRounds DEF Cancel, tableVars, modeVars, otherVars
  <1>3. CASE OtherReads
        <2>1. snapshot' \in Access
              BY <1>1, <1>3 DEF OtherReads
        <2> QED BY <1>1, <1>3, <2>1, OthersKeepRounds DEF OtherReads, tableVars, modeVars
  <1>4. CASE OtherWrites
        <2>1. GrantOnDisk(snapshot, OtherGrant.paths, OtherGrant.write, OtherGrant.action) \in Access
              BY <1>1, RoundAssumption, GrantsAreTables
        <2>2. disk' \in [{"user", "project"} -> Access] /\ snapshot' \in Access
              BY <1>1, <1>4, <2>1, NoAccessIsTables DEF OtherWrites
        <2> QED BY <1>1, <1>4, <2>2, OthersKeepRounds DEF OtherWrites, modeVars
  <1>5. CASE \E v \in {"ask", "auto", "deny"} : SetFramework(v)
        BY <1>1, <1>5, OthersKeepRounds DEF SetFramework, tableVars, otherVars
  <1> QED BY <1>2, <1>3, <1>4, <1>5

LEMMA FreshStateIsInOrder ==
  ASSUME FreshTurnState, limit' \in Nat
  PROVE  /\ at' \in 0..Len(reply') /\ answered' \subseteq 1..Len(reply') /\ reply' \in Seq(Calls)
         /\ Rounds' /\ Questions' /\ DOMAIN decisions' \subseteq DOMAIN items'
         /\ rounds' \in 0..MaxRounds /\ count' \in Nat /\ raises' \in Nat
         /\ cancel' = FALSE /\ framework' = "ask" /\ phase' = "idle" /\ ran' = {} /\ job' = NoJob
PROOF
  <1>1. DOMAIN items' = {} /\ DOMAIN decisions' = {}
        BY NothingIsAsked DEF FreshTurnState
  <1>2. at' \in 0..Len(reply') /\ answered' \subseteq 1..Len(reply') /\ reply' \in Seq(Calls)
        BY DEF FreshTurnState
  <1>3. Rounds'
        BY DEF FreshTurnState, Rounds, CallsWithinLimit, OnlyBrokenTurnsOweAnswers
  <1>4. Questions'
        BY <1>1 DEF FreshTurnState, Questions
  <1>5. rounds' \in 0..MaxRounds
        BY RoundAssumption DEF FreshTurnState
  <1> QED BY <1>1, <1>2, <1>3, <1>4, <1>5 DEF FreshTurnState

LEMMA NewSessionKeepsRounds ==
  ASSUME RoundInv, NewSession
  PROVE  RoundInv'
PROOF
  <1>1. FreshTurnState /\ limit' \in Nat
        BY DEF NewSession, RoundInv, Typed
  <1>2. Typed'
        <2>1. access' \in Access /\ UNCHANGED <<template, disk, approved, interactive, turns, other, snapshot,
                                                loaded, consent, promised>>
              BY DEF NewSession, RoundInv, Typed, TypeOK, otherVars, consentVars
        <2>2. /\ at' \in 0..Len(reply') /\ answered' \subseteq 1..Len(reply') /\ reply' \in Seq(Calls)
              /\ DOMAIN decisions' \subseteq DOMAIN items'
              /\ rounds' \in 0..MaxRounds /\ count' \in Nat /\ raises' \in Nat
              /\ cancel' = FALSE /\ framework' = "ask" /\ phase' = "idle" /\ ran' = {} /\ job' = NoJob
              BY <1>1, FreshStateIsInOrder
        <2> QED BY <1>1, <2>1, <2>2 DEF RoundInv, Typed, TypeOK
  <1> QED BY <1>1, <1>2, FreshStateIsInOrder DEF RoundInv

LEMMA RestartKeepsRounds ==
  ASSUME RoundInv, Restart
  PROVE  RoundInv'
PROOF
  <1>1. FreshTurnState /\ limit' \in Nat
        BY DEF Restart, RoundInv, Typed
  <1>2. template' \in Access
        BY LoadIsTables DEF Restart, RoundInv, Typed, TypeOK
  <1>3. loaded' \in [access : Access, limit : Nat]
        BY <1>2 DEF Restart, RoundInv, Typed
  <1>4. Typed'
        <2>1. /\ access' \in Access /\ approved' = FALSE /\ consent' = {}
              /\ UNCHANGED <<disk, interactive, turns, other, snapshot, promised>>
              BY <1>2 DEF Restart, otherVars
        <2>2. /\ at' \in 0..Len(reply') /\ answered' \subseteq 1..Len(reply') /\ reply' \in Seq(Calls)
              /\ DOMAIN decisions' \subseteq DOMAIN items'
              /\ rounds' \in 0..MaxRounds /\ count' \in Nat /\ raises' \in Nat
              /\ cancel' = FALSE /\ framework' = "ask" /\ phase' = "idle" /\ ran' = {} /\ job' = NoJob
              BY <1>1, FreshStateIsInOrder
        <2> QED BY <1>1, <1>2, <1>3, <2>1, <2>2 DEF RoundInv, Typed, TypeOK
  <1> QED BY <1>1, <1>4, FreshStateIsInOrder DEF RoundInv

LEMMA RoundInvHolds == Init => RoundInv
PROOF
  <1> SUFFICES ASSUME Init PROVE RoundInv
      OBVIOUS
  <1>1. disk \in [{"user", "project"} -> Access]
        BY RoundAssumption DEF Init
  <1>2. template \in Access /\ access \in Access
        BY <1>1, LoadIsTables DEF Init
  <1>3. limit \in Nat /\ loaded \in [access : Access, limit : Nat]
        BY <1>2, RoundAssumption DEF Init
  <1>4. DOMAIN items = {} /\ DOMAIN decisions = {}
        BY NothingIsAsked DEF Init
  <1>5. at \in 0..Len(reply) /\ answered \subseteq 1..Len(reply) /\ reply \in Seq(Calls)
        BY DEF Init
  <1>6. Typed
        <2>1. rounds \in 0..MaxRounds /\ turns \in 0..MaxTurns /\ count \in Nat /\ raises \in Nat
              BY RoundAssumption DEF Init
        <2>2. /\ framework = "ask" /\ approved = FALSE /\ interactive \in BOOLEAN /\ phase = "idle"
              /\ cancel = FALSE /\ ran = {} /\ job = NoJob /\ other = "ready" /\ snapshot \in Access
              /\ consent = {} /\ promised = {}
              BY NoAccessIsTables DEF Init
        <2> QED BY <1>1, <1>2, <1>3, <1>4, <1>5, <2>1, <2>2 DEF Typed, TypeOK
  <1>7. Rounds
        BY <1>3 DEF Init, Rounds, CallsWithinLimit, OnlyBrokenTurnsOweAnswers
  <1>8. Questions
        BY <1>4 DEF Init, Questions
  <1> QED BY <1>6, <1>7, <1>8 DEF RoundInv

LEMMA RoundInvIsInductive == RoundInv /\ [Next]_vars => RoundInv'
PROOF
  <1> SUFFICES ASSUME RoundInv, [Next]_vars PROVE RoundInv'
      OBVIOUS
  <1>1. CASE StartTurn
        BY <1>1, StartTurnKeepsRounds
  <1>2. CASE Work
        <2>1. CASE \E n \in 1..MaxCalls : \E calls \in [1..n -> Calls] : BeginRound(calls)
              BY <2>1, BeginRoundKeepsRounds
        <2> QED BY <1>2, <2>1, FinishTurnKeepsRounds, AbortBeforeCallKeepsRounds, ReachLimitKeepsRounds,
                RunUnaskedKeepsRounds, AutoApproveKeepsRounds, AskUserKeepsRounds, ApplyGrantKeepsRounds,
                RewriteFileKeepsRounds, CleanProjectFileKeepsRounds, RetryKeepsRounds DEF Work
  <1>3. CASE User
        BY <1>3, AnswerLimitKeepsRounds, AnswersToTalkKeepRounds, AnswerAskKeepsRounds, OtherStepsKeepRounds DEF User
  <1>4. CASE NewSession \/ Restart
        BY <1>4, NewSessionKeepsRounds, RestartKeepsRounds
  <1>5. CASE OtherReads \/ OtherWrites
        BY <1>5, OtherStepsKeepRounds
  <1>6. CASE UNCHANGED vars
        <2>1. UNCHANGED <<access, template, approved, interactive, limitVars, phase, roundVars, paceVars, askVars, ran,
                          grantVars, consentVars>>
              BY <1>6 DEF vars, tableVars, modeVars
        <2>2. UNCHANGED <<disk, framework, cancel, other, snapshot>>
              BY <1>6 DEF vars, tableVars, modeVars, otherVars
        <2> QED BY <2>1, <2>2, OthersKeepRounds DEF RoundInv, Typed, TypeOK
  <1> QED BY <1>1, <1>2, <1>3, <1>4, <1>5, <1>6 DEF Next

LEMMA RoundInvIsInvariant == Spec => []RoundInv
PROOF BY RoundInvHolds, RoundInvIsInductive, PTL DEF Spec

(* _run_tool_calls and _dispatch_turn: for any replies, limits and rules    *)
(* every call of a round gets its response in turn, unless the turn broke   *)
(* off, and no call runs past the limit its user agreed to.                 *)
THEOREM RoundsStaySound == Spec => []RoundsAreSound
PROOF
  <1>1. RoundInv => RoundsAreSound
        BY DEF RoundInv, Typed, Rounds, RoundsAreSound
  <1> QED BY <1>1, RoundInvIsInvariant, PTL

-----------------------------------------------------------------------------
(* What a call may touch                                                    *)

EffectsInv == RoundInv /\ OnlyPermittedEffects

LEMMA QuietStepsKeepEffects ==
  ASSUME OnlyPermittedEffects, UNCHANGED <<access, items, decisions, ran>>
  PROVE  OnlyPermittedEffects'
PROOF BY DEF OnlyPermittedEffects, Refused

LEMMA NothingTouchedIsPermitted ==
  ASSUME ran' = {}
  PROVE  OnlyPermittedEffects'
PROOF BY DEF OnlyPermittedEffects

LEMMA UnaskedEffectsArePermitted ==
  ASSUME RoundInv, RunUnasked
  PROVE  OnlyPermittedEffects'
PROOF
  <1>1. StartCall /\ access' = access /\ DOMAIN decisions' = {}
        BY NothingIsAsked DEF RunUnasked
  <1>2. ran' = IF Permitted({}) THEN ToSet(Call.items) ELSE {}
        BY DEF RunUnasked, Answer
  <1>3. SUFFICES ASSUME Permitted({}), NEW i \in ToSet(Call.items)
                 PROVE  i # Structural /\ VerdictOf(access, i) = "allow"
        BY <1>1, <1>2 DEF OnlyPermittedEffects, Refused
  <1>4. ItemVerdict(i, {}) = "allow"
        BY <1>3 DEF Permitted
  <1> QED BY <1>4 DEF ItemVerdict

LEMMA RetriedEffectsArePermitted ==
  ASSUME RoundInv, Retry
  PROVE  OnlyPermittedEffects'
PROOF
  <1>1. phase = "grants" /\ UNCHANGED <<access, items, decisions>>
        BY DEF Retry, GrantsDone, tableVars, askVars
  <1>2. ran' = IF ~Refused /\ Permitted(Override) THEN ToSet(Call.items) ELSE {}
        BY DEF Retry, Answer
  <1>3. SUFFICES ASSUME ~Refused, Permitted(Override), NEW i \in ToSet(Call.items)
                 PROVE  \/ i # Structural /\ VerdictOf(access, i) = "allow"
                        \/ \E k \in DOMAIN decisions :
                             /\ decisions[k] = [action |-> "allow", scope |-> "once"]
                             /\ i = Structural => items[k] = i
                             /\ i # Structural => items[k] # Structural /\ items[k].file = i.file
        BY <1>1, <1>2 DEF OnlyPermittedEffects, Refused
  <1>4. ItemVerdict(i, Override) = "allow"
        BY <1>3 DEF Permitted
  <1>5. ASSUME NEW o \in Override
        PROVE  \E k \in DOMAIN decisions : decisions[k] = [action |-> "allow", scope |-> "once"] /\ items[k] = o
        <2>1. PICK k \in DOMAIN decisions : decisions[k].scope = "once" /\ items[k] = o
              BY DEF Override
        <2>2. decisions[k] \in Decision /\ decisions[k].action # "deny"
              BY <1>3 DEF RoundInv, Questions, Refused
        <2> QED BY <2>1, <2>2 DEF Decision
  <1>6. CASE i = Structural
        BY <1>4, <1>5, <1>6 DEF ItemVerdict
  <1>7. CASE i # Structural /\ \E o \in Override \ {Structural} : o.file = i.file
        BY <1>5, <1>7
  <1>8. CASE i # Structural /\ ~ \E o \in Override \ {Structural} : o.file = i.file
        BY <1>4, <1>8 DEF ItemVerdict
  <1> QED BY <1>6, <1>7, <1>8

LEMMA EffectsInvIsInductive == EffectsInv /\ [Next]_vars => EffectsInv'
PROOF
  <1> SUFFICES ASSUME EffectsInv, [Next]_vars PROVE OnlyPermittedEffects'
      BY RoundInvIsInductive DEF EffectsInv
  <1> USE DEF EffectsInv
  <1>1. CASE StartTurn \/ FinishTurn \/ AbortBeforeCall \/ ReachLimit \/ \E yes \in BOOLEAN : AnswerLimit(yes)
        <2>1. UNCHANGED <<access, items, decisions, ran>>
              BY <1>1 DEF StartTurn, FinishTurn, AbortBeforeCall, ReachLimit, AnswerLimit, tableVars, askVars
        <2> QED BY <2>1, QuietStepsKeepEffects
  <1>2. CASE \/ RewriteFile \/ CleanProjectFile \/ Cancel \/ OtherReads \/ OtherWrites
             \/ \E v \in {"ask", "auto", "deny"} : SetFramework(v)
        <2>1. UNCHANGED <<access, items, decisions, ran>>
              BY <1>2 DEF RewriteFile, CleanProjectFile, Cancel, OtherReads, OtherWrites, SetFramework, tableVars,
                 askVars
        <2> QED BY <2>1, QuietStepsKeepEffects
  <1>3. CASE \/ \E n \in 1..MaxCalls : \E calls \in [1..n -> Calls] : BeginRound(calls)
             \/ AutoApprove \/ AskUser
        <2>1. ran' = {}
              BY <1>3 DEF BeginRound, AutoApprove, AskUser
        <2> QED BY <2>1, NothingTouchedIsPermitted
  <1>4. CASE NewSession \/ Restart \/ AnswerQuestions \/ \E yes \in BOOLEAN : AnswerEscalation(yes)
        <2>1. ran' = {}
              BY <1>4 DEF NewSession, Restart, FreshTurnState, AnswerQuestions, AnswerEscalation, Answer
        <2> QED BY <2>1, NothingTouchedIsPermitted
  <1>5. CASE \E d \in Decision : AnswerAsk(d)
        <2>1. PICK d \in Decision : AnswerAsk(d)
              BY <1>5
        <2>2. ran = {}
              BY <2>1 DEF AnswerAsk, RoundInv, Questions
        <2>3. ran' = ran \/ ran' = {}
              BY <2>1, AnswerAskEffects DEF Answer
        <2> QED BY <2>2, <2>3, NothingTouchedIsPermitted
  <1>6. CASE ApplyGrant
        <2>1. ran' = {}
              BY <1>6 DEF ApplyGrant, RoundInv, Questions
        <2> QED BY <2>1, NothingTouchedIsPermitted
  <1>7. CASE RunUnasked \/ Retry
        BY <1>7, UnaskedEffectsArePermitted, RetriedEffectsArePermitted
  <1>8. CASE UNCHANGED vars
        <2>1. UNCHANGED <<access, items, decisions, ran>>
              BY <1>8 DEF vars, tableVars, askVars
        <2> QED BY <2>1, QuietStepsKeepEffects
  <1> QED BY <1>1, <1>2, <1>3, <1>4, <1>5, <1>6, <1>7, <1>8 DEF Next, Work, User

(* _run_tool_calls and the tools' own checks: for any calls, rules and      *)
(* answers, a call touches what the tables allow or its user allowed for    *)
(* this very call, and nothing once it was refused.                         *)
THEOREM EffectsArePermitted == Spec => []OnlyPermittedEffects
PROOF
  <1>1. Init => EffectsInv
        BY RoundInvHolds DEF EffectsInv, Init, OnlyPermittedEffects
  <1>2. EffectsInv => OnlyPermittedEffects
        BY DEF EffectsInv
  <1> QED BY <1>1, <1>2, EffectsInvIsInductive, PTL DEF Spec

-----------------------------------------------------------------------------
(* What a decision does to a verdict                                        *)

LEMMA DecideOnRules ==
  ASSUME NEW r, NEW f, NEW paths, NEW action \in {"allow", "deny"}
  PROVE  LET new == Evaluate(Decide(r, paths, action), f) old == Evaluate(r, f) IN
         /\ paths \cap Within[f] = {} => new = old
         /\ action = "deny" => new \in {"deny", old}
         /\ action = "allow" => /\ new = "deny" <=> old = "deny"
                                /\ old = "allow" => new = "allow"
                                /\ old = "none" => new \in {"none", "allow"}
                                /\ /\ paths \cap Within[f] # {} /\ old # "deny"
                                   /\ r.ask \cap Within[f] \subseteq paths
                                   => new = "allow"
PROOF
  <1> DEFINE d == Decide(r, paths, action)
  <1>1. /\ d.deny = r.deny \cup (IF action = "deny" THEN paths ELSE {})
        /\ d.ask = r.ask \ paths
        /\ d.allow = r.allow \cup (IF action = "allow" THEN paths ELSE {})
        BY DEF Decide
  <1>2. /\ Matching(d.deny, f) = Matching(r.deny, f) \cup (IF action = "deny" THEN paths \cap Within[f] ELSE {})
        /\ Matching(d.ask, f) = Matching(r.ask, f) \ paths
        /\ Matching(d.allow, f) = Matching(r.allow, f) \cup (IF action = "allow" THEN paths \cap Within[f] ELSE {})
        BY <1>1 DEF Matching
  <1>3. paths \cap Within[f] = {} => Matching(r.ask, f) \ paths = Matching(r.ask, f)
        BY DEF Matching
  <1>4. r.ask \cap Within[f] \subseteq paths => Matching(r.ask, f) \ paths = {}
        BY DEF Matching
  <1> HIDE DEF d
  <1>5. CASE action = "deny"
        BY <1>2, <1>3, <1>5 DEF Evaluate, d
  <1>6. CASE action = "allow"
        <2>1. paths \cap Within[f] = {} => Evaluate(d, f) = Evaluate(r, f)
              BY <1>2, <1>3, <1>6 DEF Evaluate
        <2>2. Evaluate(d, f) = "deny" <=> Evaluate(r, f) = "deny"
              BY <1>2, <1>6 DEF Evaluate
        <2>3. Evaluate(r, f) = "allow" => Evaluate(d, f) = "allow"
              BY <1>2, <1>6 DEF Evaluate
        <2>4. Evaluate(r, f) = "none" => Evaluate(d, f) \in {"none", "allow"}
              BY <1>2, <1>6 DEF Evaluate
        <2>5. /\ paths \cap Within[f] # {} /\ Evaluate(r, f) # "deny" /\ r.ask \cap Within[f] \subseteq paths
              => Evaluate(d, f) = "allow"
              BY <1>2, <1>4, <1>6 DEF Evaluate
        <2> QED BY <1>6, <2>1, <2>2, <2>3, <2>4, <2>5 DEF d
  <1> QED BY <1>5, <1>6

LEMMA VerdictsAreThree ==
  ASSUME NEW r, NEW f
  PROVE  Evaluate(r, f) \in {"deny", "ask", "allow", "none"}
PROOF BY DEF Evaluate

(* A grant for directories that do not contain a file leaves its verdict.   *)
LEMMA GrantsElsewhereChangeNothing ==
  ASSUME NEW a, NEW i \in PathItem, NEW paths, NEW write \in BOOLEAN, NEW action \in {"allow", "deny"},
         paths \cap Within[i.file] = {}
  PROVE  VerdictOf(GrantInMemory(a, paths, write, action), i) = VerdictOf(a, i)
PROOF
  <1>1. /\ Evaluate(Decide(a.read, paths, action), i.file) = Evaluate(a.read, i.file)
        /\ Evaluate(Decide(a.write, paths, action), i.file) = Evaluate(a.write, i.file)
        BY DecideOnRules
  <1>2. /\ Evaluate(GrantInMemory(a, paths, write, action).read, i.file) = Evaluate(a.read, i.file)
        /\ Evaluate(GrantInMemory(a, paths, write, action).write, i.file) = Evaluate(a.write, i.file)
        BY <1>1 DEF GrantInMemory
  <1> QED BY <1>2 DEF VerdictOf, EvaluateRead, EvaluateWrite

LEMMA DenialsAllowNothing ==
  ASSUME NEW a, NEW i \in PathItem, NEW paths, NEW write \in BOOLEAN,
         VerdictOf(GrantInMemory(a, paths, write, "deny"), i) = "allow"
  PROVE  VerdictOf(a, i) = "allow"
PROOF
  <1>1. /\ Evaluate(Decide(a.read, paths, "deny"), i.file) \in {"deny", Evaluate(a.read, i.file)}
        /\ Evaluate(Decide(a.write, paths, "deny"), i.file) \in {"deny", Evaluate(a.write, i.file)}
        BY DecideOnRules
  <1>2. /\ Evaluate(GrantInMemory(a, paths, write, "deny").read, i.file) \in {"deny", Evaluate(a.read, i.file)}
        /\ Evaluate(GrantInMemory(a, paths, write, "deny").write, i.file) \in {"deny", Evaluate(a.write, i.file)}
        BY <1>1 DEF GrantInMemory
  <1> QED BY <1>2 DEF VerdictOf, EvaluateRead, EvaluateWrite, OrElse, StricterVerdict

LEMMA AllowingTakesNothingAway ==
  ASSUME NEW a, NEW i \in PathItem, NEW paths, NEW write \in BOOLEAN
  PROVE  LET new == VerdictOf(GrantInMemory(a, paths, write, "allow"), i) old == VerdictOf(a, i) IN
         /\ old = "allow" => new = "allow"
         /\ old # "deny" => new # "deny"
PROOF
  <1> DEFINE b == GrantInMemory(a, paths, write, "allow")
             olds == Evaluate(a.read, i.file)
             news == Evaluate(b.read, i.file)
             oldw == Evaluate(a.write, i.file)
             neww == Evaluate(b.write, i.file)
  <1>1. /\ (news = "deny" <=> olds = "deny") /\ (olds = "allow" => news = "allow")
        /\ (olds = "none" => news \in {"none", "allow"})
        BY DecideOnRules DEF GrantInMemory
  <1>2. /\ (neww = "deny" <=> oldw = "deny") /\ (oldw = "allow" => neww = "allow")
        /\ (oldw = "none" => neww \in {"none", "allow"})
        BY DecideOnRules DEF GrantInMemory
  <1>3. /\ olds \in {"deny", "ask", "allow", "none"} /\ oldw \in {"deny", "ask", "allow", "none"}
        /\ news \in {"deny", "ask", "allow", "none"} /\ neww \in {"deny", "ask", "allow", "none"}
        BY VerdictsAreThree
  <1> HIDE DEF b, olds, oldw, news, neww
  <1>4. /\ VerdictOf(a, i) = IF i.write THEN StricterVerdict(OrElse(olds, "ask"), OrElse(oldw, "ask"))
                                        ELSE OrElse(olds, IF Trusted THEN "ask" ELSE "allow")
        /\ VerdictOf(b, i) = IF i.write THEN StricterVerdict(OrElse(news, "ask"), OrElse(neww, "ask"))
                                        ELSE OrElse(news, IF Trusted THEN "ask" ELSE "allow")
        BY DEF VerdictOf, EvaluateRead, EvaluateWrite, olds, oldw, news, neww
  <1>5. /\ VerdictOf(a, i) = "allow" => VerdictOf(b, i) = "allow"
        /\ VerdictOf(a, i) # "deny" => VerdictOf(b, i) # "deny"
        <2>1. CASE i.write
              BY <1>1, <1>2, <1>3, <1>4, <2>1 DEF OrElse, StricterVerdict
        <2>2. CASE ~i.write
              BY <1>1, <1>3, <1>4, <2>2 DEF OrElse
        <2> QED BY <2>1, <2>2
  <1> QED BY <1>5 DEF b

(* compute_grant_paths: never empty, and only directories that contain the  *)
(* file.                                                                    *)
LEMMA GrantPathsCover ==
  ASSUME NEW a \in Access, NEW i \in PathItem
  PROVE  /\ GrantPaths(a, i) # {} /\ GrantPaths(a, i) \subseteq Within[i.file]
         /\ a.read.ask \cap Within[i.file] \subseteq GrantPaths(a, i)
         /\ i.write => a.write.ask \cap Within[i.file] \subseteq GrantPaths(a, i)
PROOF
  <1>1. i.file \in File /\ Home[i.file] \in Dir /\ Home[i.file] \in Within[i.file]
        BY PathAssumption DEF PathItem
  <1> QED BY <1>1 DEF GrantPaths, Matching

(* A grant for an item allows it, unless it is denied.                      *)
LEMMA GrantAllowsItsItem ==
  ASSUME NEW a \in Access, NEW i \in PathItem, VerdictOf(a, i) # "deny"
  PROVE  VerdictOf(GrantInMemory(a, GrantPaths(a, i), i.write, "allow"), i) = "allow"
PROOF
  <1> DEFINE b == GrantInMemory(a, GrantPaths(a, i), i.write, "allow")
  <1>1. /\ GrantPaths(a, i) \cap Within[i.file] # {}
        /\ a.read.ask \cap Within[i.file] \subseteq GrantPaths(a, i)
        /\ i.write => a.write.ask \cap Within[i.file] \subseteq GrantPaths(a, i)
        BY GrantPathsCover
  <1>2. /\ Evaluate(a.read, i.file) # "deny"
        /\ i.write => Evaluate(a.write, i.file) # "deny"
        BY DEF VerdictOf, EvaluateRead, EvaluateWrite, OrElse, StricterVerdict, PathItem
  <1>3. Evaluate(b.read, i.file) = "allow"
        BY <1>1, <1>2, DecideOnRules DEF GrantInMemory
  <1>4. i.write => Evaluate(b.write, i.file) = "allow"
        BY <1>1, <1>2, DecideOnRules DEF GrantInMemory
  <1> HIDE DEF b
  <1>5. VerdictOf(b, i) = "allow"
        BY <1>3, <1>4 DEF VerdictOf, EvaluateRead, EvaluateWrite, OrElse, StricterVerdict
  <1> QED BY <1>5 DEF b

(* After a grant the rules that ask about an item are some of those before, *)
(* and its directory stands in when none is left.                           *)
LEMMA GrantPathsShrink ==
  ASSUME NEW a \in Access, NEW i \in PathItem, NEW paths, NEW write \in BOOLEAN, NEW action \in {"allow", "deny"}
  PROVE  LET new == GrantPaths(GrantInMemory(a, paths, write, action), i) IN
         new \subseteq GrantPaths(a, i) \/ new = {Home[i.file]}
PROOF
  <1> DEFINE b == GrantInMemory(a, paths, write, action)
  <1>1. b.read.ask \subseteq a.read.ask /\ b.write.ask \subseteq a.write.ask
        BY DEF GrantInMemory, Decide
  <1> HIDE DEF b
  <1>2. GrantPaths(b, i) \subseteq GrantPaths(a, i) \/ GrantPaths(b, i) = {Home[i.file]}
        BY <1>1 DEF GrantPaths, Matching
  <1> QED BY <1>2 DEF b

-----------------------------------------------------------------------------
(* Consent                                                                  *)

Consented(table) ==
  \A i \in PathItem :
    VerdictOf(table, i) = "allow" /\ VerdictOf(loaded.access, i) # "allow" => Within[i.file] \cap consent # {}

(* What a grant still to be applied will name lies in directories that were *)
(* shown, also if the grants before it change what it will name.            *)
ConsentIsShown ==
  \A k \in todo :
    decisions[k].action = "allow" /\ items[k] # Structural
      => \A d \in GrantPaths(access, items[k]) : Within[d] \cap consent # {}

ConsentInv == RoundInv /\ Consented(access) /\ Consented(template) /\ ConsentIsShown

LEMMA GrantsKeepConsent ==
  ASSUME NEW table, Consented(table), NEW paths \in SUBSET Dir, NEW write \in BOOLEAN,
         NEW action \in {"allow", "deny"},
         action = "allow" => \A d \in paths : Within[d] \cap consent # {}
  PROVE  Consented(GrantInMemory(table, paths, write, action))
PROOF
  <1>1. SUFFICES ASSUME NEW i \in PathItem, VerdictOf(GrantInMemory(table, paths, write, action), i) = "allow",
                        VerdictOf(loaded.access, i) # "allow"
                 PROVE  Within[i.file] \cap consent # {}
        BY DEF Consented
  <1>2. VerdictOf(table, i) = "allow" => Within[i.file] \cap consent # {}
        BY <1>1 DEF Consented
  <1>3. CASE paths \cap Within[i.file] = {}
        BY <1>1, <1>2, <1>3, GrantsElsewhereChangeNothing
  <1>4. CASE action = "deny"
        BY <1>1, <1>2, <1>4, DenialsAllowNothing
  <1>5. CASE action = "allow" /\ paths \cap Within[i.file] # {}
        <2>1. PICK d \in paths : d \in Within[i.file]
              BY <1>5
        <2>2. Within[d] \subseteq Within[i.file]
              BY <2>1, PathAssumption DEF PathItem
        <2> QED BY <1>5, <2>1, <2>2
  <1> QED BY <1>3, <1>4, <1>5

LEMMA QuietStepsKeepConsent ==
  ASSUME ConsentInv, UNCHANGED <<access, template, loaded, consent>>,
         todo' = {} \/ UNCHANGED <<todo, items, decisions>>
  PROVE  Consented(access)' /\ Consented(template)' /\ ConsentIsShown'
PROOF
  <1>1. Consented(access)' /\ Consented(template)'
        BY DEF ConsentInv, Consented
  <1>2. ConsentIsShown'
        BY DEF ConsentInv, ConsentIsShown
  <1> QED BY <1>1, <1>2

(* Who is shown directories and allows them consents to them.               *)
LEMMA ShowingIsConsent ==
  ASSUME ConsentInv, UNCHANGED <<access, template, loaded>>,
         todo' \subseteq DOMAIN items', \A k \in DOMAIN items' : items'[k] \in PathItem \cup {Structural},
         consent' = consent \cup Shown({items'[k] : k \in todo'})
  PROVE  Consented(access)' /\ Consented(template)' /\ ConsentIsShown'
PROOF
  <1>1. Consented(access)' /\ Consented(template)'
        BY DEF ConsentInv, Consented
  <1>2. ASSUME NEW k \in todo', items'[k] # Structural, NEW d \in GrantPaths(access, items'[k])
        PROVE  Within[d] \cap consent' # {}
        <2>1. d \in consent'
              BY <1>2 DEF Shown
        <2>2. d \in Dir
              BY <1>2, GrantPathsAreDirs DEF ConsentInv, RoundInv, Typed, TypeOK
        <2> QED BY <2>1, <2>2, PathAssumption
  <1>3. ConsentIsShown'
        BY <1>2 DEF ConsentIsShown
  <1> QED BY <1>1, <1>3

LEMMA ApplyGrantKeepsConsent ==
  ASSUME ConsentInv, ApplyGrant
  PROVE  Consented(access)' /\ Consented(template)' /\ ConsentIsShown'
PROOF
  <1> USE DEF ConsentInv
  <1>1. UNCHANGED <<items, decisions, loaded, consent>>
        BY ApplyGrantEffects DEF askVars
  <1>2. PICK k \in todo :
          /\ todo' = todo \ {k}
          /\ \/ items[k] = Structural /\ UNCHANGED <<access, template>>
             \/ /\ items[k] \in PathItem /\ items[k] # Structural
                /\ access' = GrantInMemory(access, GrantPaths(access, items[k]), items[k].write, decisions[k].action)
                /\ \/ UNCHANGED template
                   \/ template' = GrantInMemory(template, GrantPaths(access, items[k]), items[k].write,
                                                decisions[k].action)
        <2>1. PICK k \in todo :
                /\ todo' = todo \ {k}
                /\ \/ items[k] = Structural /\ UNCHANGED <<access, template, job, narrowed>>
                   \/ /\ items[k] \in PathItem /\ items[k] # Structural
                      /\ access' = GrantInMemory(access, GrantPaths(access, items[k]), items[k].write,
                                                 decisions[k].action)
                      /\ \/ UNCHANGED <<template, job>>
                         \/ template' = GrantInMemory(template, GrantPaths(access, items[k]), items[k].write,
                                                      decisions[k].action)
              BY ApplyGrantEffects
        <2> QED BY <2>1
  <1>3. access \in Access /\ todo \subseteq DOMAIN decisions /\ DOMAIN decisions \subseteq DOMAIN items
        BY DEF RoundInv, Typed, TypeOK, Questions
  <1>4. \A j \in todo : decisions[j].action \in {"allow", "deny"} /\ items[j] \in PathItem \cup {Structural}
        BY <1>3 DEF RoundInv, Questions, Decision
  <1>5. CASE UNCHANGED <<access, template>>
        <2>1. Consented(access)' /\ Consented(template)'
              BY <1>1, <1>5 DEF Consented
        <2>2. ConsentIsShown'
              BY <1>1, <1>2, <1>5 DEF ConsentIsShown
        <2> QED BY <2>1, <2>2
  <1>6. CASE /\ items[k] \in PathItem /\ items[k] # Structural
             /\ access' = GrantInMemory(access, GrantPaths(access, items[k]), items[k].write, decisions[k].action)
             /\ \/ UNCHANGED template
                \/ template' = GrantInMemory(template, GrantPaths(access, items[k]), items[k].write,
                                             decisions[k].action)
        <2>1. /\ GrantPaths(access, items[k]) \in SUBSET Dir /\ items[k].write \in BOOLEAN
              /\ decisions[k].action \in {"allow", "deny"}
              /\ decisions[k].action = "allow"
                   => \A d \in GrantPaths(access, items[k]) : Within[d] \cap consent # {}
              BY <1>3, <1>4, <1>6, GrantPathsAreDirs DEF PathItem, ConsentIsShown
        <2>2. /\ Consented(GrantInMemory(access, GrantPaths(access, items[k]), items[k].write, decisions[k].action))
              /\ Consented(GrantInMemory(template, GrantPaths(access, items[k]), items[k].write,
                                         decisions[k].action))
              BY <2>1, GrantsKeepConsent
        <2>3. Consented(access') /\ Consented(template')
              BY <1>6, <2>2
        <2>4. Consented(access)' /\ Consented(template)'
              BY <1>1, <2>3 DEF Consented
        <2>5. ASSUME NEW j \in todo', decisions[j].action = "allow", items[j] # Structural,
                     NEW d \in GrantPaths(access', items[j])
              PROVE  Within[d] \cap consent # {}
              <3>1. j \in todo /\ items[j] \in PathItem
                    BY <1>2, <1>4, <2>5
              <3>2. \A e \in GrantPaths(access, items[j]) : Within[e] \cap consent # {}
                    BY <2>5, <3>1 DEF ConsentIsShown
              <3>3. GrantPaths(access', items[j]) \subseteq GrantPaths(access, items[j])
                    \/ GrantPaths(access', items[j]) = {Home[items[j].file]}
                    BY <1>3, <1>6, <2>1, <3>1, GrantPathsShrink
              <3>4. CASE d = Home[items[j].file]
                    <4>1. PICK e \in GrantPaths(access, items[j]) : e \in Within[items[j].file]
                          BY <1>3, <3>1, GrantPathsCover
                    <4>2. items[j].file \in File
                          BY <3>1 DEF PathItem
                    <4>3. Within[e] \subseteq Within[items[j].file] /\ Within[items[j].file] = Within[d]
                          BY <3>4, <4>1, <4>2, PathAssumption
                    <4> QED BY <3>2, <4>1, <4>3
              <3> QED BY <2>5, <3>2, <3>3, <3>4
        <2>6. ConsentIsShown'
              BY <1>1, <2>5 DEF ConsentIsShown
        <2> QED BY <2>4, <2>6
  <1> QED BY <1>2, <1>5, <1>6

(* A denial leaves only itself to be recorded: its call named one file.     *)
LEMMA AnswerAskKeepsConsent ==
  ASSUME ConsentInv, NEW d \in Decision, AnswerAsk(d)
  PROVE  Consented(access)' /\ Consented(template)' /\ ConsentIsShown'
PROOF
  <1> USE DEF ConsentInv
  <1>1. /\ phase = "ask" /\ todo = {} /\ UNCHANGED <<access, template, items, loaded>>
        /\ DOMAIN items \subseteq DOMAIN Call.items /\ DOMAIN decisions \subseteq DOMAIN items
        /\ \A k \in DOMAIN items : items[k] \in PathItem \cup {Structural}
        BY DEF AnswerAsk, tableVars, RoundInv, Questions, Typed, TypeOK
  <1>2. PICK a \in DOMAIN items \ DOMAIN decisions :
           /\ DOMAIN decisions' = DOMAIN decisions \cup {a} /\ decisions'[a] = d
           /\ \/ UNCHANGED <<todo, consent>>
              \/ todo' = Kept' /\ consent' = consent \cup Shown({items[k] : k \in todo'})
              \/ d.action = "deny" /\ Call.tool = "file" /\ todo' = Kept' /\ UNCHANGED consent
        <2>1. PICK a \in DOMAIN items \ DOMAIN decisions :
                 /\ DOMAIN decisions' = DOMAIN decisions \cup {a} /\ decisions'[a] = d
                 /\ \/ UNCHANGED <<phase, roundVars, ran, todo, consent>>
                    \/ todo' = Kept' /\ consent' = consent \cup Shown({items[k] : k \in todo'})
                    \/ d.action = "deny" /\ Call.tool = "file" /\ todo' = Kept' /\ UNCHANGED <<roundVars, ran, consent>>
                    \/ Answer({}) /\ UNCHANGED <<todo, consent>>
              BY AnswerAskEffects
        <2> QED BY <2>1
  <1>3. CASE UNCHANGED <<todo, consent>>
        BY <1>1, <1>3, QuietStepsKeepConsent
  <1>4. CASE todo' = Kept' /\ consent' = consent \cup Shown({items[k] : k \in todo'})
        <2>1. todo' \subseteq DOMAIN items'
              BY <1>1, <1>2, <1>4 DEF Kept
        <2>2. consent' = consent \cup Shown({items'[k] : k \in todo'})
              BY <1>1, <1>4
        <2> QED BY <1>1, <2>1, <2>2, ShowingIsConsent
  <1>5. CASE d.action = "deny" /\ Call.tool = "file" /\ todo' = Kept' /\ UNCHANGED consent
        <2>1. DOMAIN items \subseteq {1}
              BY <1>1, <1>5, CallIsTyped
        <2>2. DOMAIN decisions' = {a}
              BY <1>1, <1>2, <2>1
        <2>3. \A k \in todo' : decisions'[k].action = "deny"
              BY <1>2, <1>5, <2>2 DEF Kept
        <2>4. ConsentIsShown'
              BY <2>3 DEF ConsentIsShown
        <2>5. Consented(access)' /\ Consented(template)'
              BY <1>1, <1>5 DEF Consented
        <2> QED BY <2>4, <2>5
  <1> QED BY <1>2, <1>3, <1>4, <1>5

LEMMA ConsentInvIsInductive == ConsentInv /\ [Next]_vars => ConsentInv'
PROOF
  <1> SUFFICES ASSUME ConsentInv, [Next]_vars PROVE Consented(access)' /\ Consented(template)' /\ ConsentIsShown'
      BY RoundInvIsInductive DEF ConsentInv
  <1> USE DEF ConsentInv
  <1>1. phase # "grants" => todo = {}
        BY DEF RoundInv, Questions
  <1>2. CASE StartTurn \/ FinishTurn \/ AbortBeforeCall \/ ReachLimit \/ \E yes \in BOOLEAN : AnswerLimit(yes)
        <2>1. UNCHANGED <<access, template, loaded, consent, todo, items, decisions>>
              BY <1>2 DEF StartTurn, FinishTurn, AbortBeforeCall, ReachLimit, AnswerLimit, tableVars, consentVars,
                 grantVars, askVars
        <2> QED BY <2>1, QuietStepsKeepConsent
  <1>3. CASE RewriteFile \/ CleanProjectFile \/ Cancel \/ OtherReads \/ OtherWrites
        <2>1. UNCHANGED <<access, template, loaded, consent, todo, items, decisions>>
              BY <1>3 DEF RewriteFile, CleanProjectFile, Cancel, OtherReads, OtherWrites, tableVars, consentVars,
                 grantVars, askVars
        <2> QED BY <2>1, QuietStepsKeepConsent
  <1>4. CASE \/ Retry \/ AnswerQuestions \/ \E yes \in BOOLEAN : AnswerEscalation(yes)
             \/ \E v \in {"ask", "auto", "deny"} : SetFramework(v)
        <2>1. UNCHANGED <<access, template, loaded, consent, todo, items, decisions>>
              BY <1>4 DEF Retry, AnswerQuestions, AnswerEscalation, SetFramework, tableVars, consentVars, grantVars,
                 askVars
        <2> QED BY <2>1, QuietStepsKeepConsent
  <1>5. CASE \E n \in 1..MaxCalls : \E calls \in [1..n -> Calls] : BeginRound(calls)
        <2>1. UNCHANGED <<access, template, loaded, consent>> /\ todo' = {}
              BY <1>1, <1>5 DEF BeginRound, tableVars, consentVars, grantVars
        <2> QED BY <2>1, QuietStepsKeepConsent
  <1>6. CASE RunUnasked \/ AskUser
        <2>1. StartCall /\ UNCHANGED <<access, template, todo, consent>>
              BY <1>6 DEF RunUnasked, AskUser
        <2>2. loaded' = loaded /\ todo' = {}
              BY <2>1, StartCallKeepsLimit DEF StartCall
        <2> QED BY <2>1, <2>2, QuietStepsKeepConsent
  <1>7. CASE AutoApprove
        <2>1. /\ StartCall /\ UNCHANGED <<access, template>> /\ items' = AskedItems /\ todo' = Asked
              /\ consent' = consent \cup Shown({Call.items[k] : k \in Asked})
              BY <1>7 DEF AutoApprove
        <2>2. loaded' = loaded /\ phase \notin {"idle", "model"}
              BY <2>1, StartCallKeepsLimit DEF StartCall
        <2>3. /\ DOMAIN items' = Asked /\ \A k \in Asked : items'[k] = Call.items[k]
              /\ \A k \in DOMAIN items' : items'[k] \in PathItem \cup {Structural}
              BY <2>1, <2>2, AskedIsTyped
        <2>4. {items'[k] : k \in todo'} = {Call.items[k] : k \in Asked}
              BY <2>1, <2>3
        <2> QED BY <2>1, <2>2, <2>3, <2>4, ShowingIsConsent
  <1>8. CASE \E d \in Decision : AnswerAsk(d)
        BY <1>8, AnswerAskKeepsConsent
  <1>9. CASE ApplyGrant
        BY <1>9, ApplyGrantKeepsConsent
  <1>10. CASE NewSession
        <2>1. access' = template /\ UNCHANGED <<template, loaded, consent>> /\ todo' = {}
              BY <1>10 DEF NewSession, FreshTurnState, consentVars
        <2> QED BY <2>1 DEF Consented, ConsentIsShown
  <1>11. CASE Restart
        <2>1. access' = template' /\ loaded'.access = template' /\ todo' = {}
              BY <1>11 DEF Restart, FreshTurnState, RoundInv, Typed
        <2> QED BY <2>1 DEF Consented, ConsentIsShown
  <1>12. CASE UNCHANGED vars
        <2>1. UNCHANGED <<access, template, loaded, consent, todo, items, decisions>>
              BY <1>12 DEF vars, tableVars, consentVars, grantVars, askVars
        <2> QED BY <2>1, QuietStepsKeepConsent
  <1> QED BY <1>2, <1>3, <1>4, <1>5, <1>6, <1>7, <1>8, <1>9, <1>10, <1>11, <1>12 DEF Next, Work, User

(* permissions.py and grant.py: for any rules and any answers, whatever the *)
(* session allows beyond what its process loaded lies in a directory that   *)
(* was shown to somebody who allowed it.                                    *)
THEOREM GrantsComeFromConsent == Spec => []GrantsHaveConsent
PROOF
  <1>1. Init => ConsentInv
        <2> SUFFICES ASSUME Init PROVE ConsentInv
            OBVIOUS
        <2>1. access = template /\ loaded.access = template /\ todo = {}
              BY DEF Init
        <2> QED BY <2>1, RoundInvHolds DEF ConsentInv, Consented, ConsentIsShown
  <1>2. ConsentInv => GrantsHaveConsent
        <2> SUFFICES ASSUME ConsentInv, NEW f \in File, NEW w \in BOOLEAN,
                            VerdictOf(access, [file |-> f, write |-> w]) = "allow",
                            VerdictOf(loaded.access, [file |-> f, write |-> w]) # "allow"
                     PROVE  Within[f] \cap consent # {}
            BY DEF GrantsHaveConsent
        <2>1. [file |-> f, write |-> w] \in PathItem /\ [file |-> f, write |-> w].file = f
              BY DEF PathItem
        <2> QED BY <2>1 DEF ConsentInv, Consented
  <1> QED BY <1>1, <1>2, ConsentInvIsInductive, PTL DEF Spec

-----------------------------------------------------------------------------
(* What was allowed runs                                                    *)

(* Unless somebody denied: what was not asked about is allowed, what was is *)
(* not denied, and an answer becomes a grant, or was one for this call.     *)
AnswersSuffice ==
  phase \in {"ask", "grants"} /\ ~Refused =>
    \A k \in DOMAIN Call.items :
      /\ k \notin DOMAIN items => ItemVerdict(Call.items[k], {}) = "allow"
      /\ k \in DOMAIN items =>
           /\ ItemVerdict(items[k], {}) # "deny"
           /\ phase = "grants" => /\ k \in DOMAIN decisions
                                  /\ \/ k \in todo \/ decisions[k].scope = "once" \/ items[k] = Structural
                                     \/ ItemVerdict(items[k], {}) = "allow"

AnswersInv == RoundInv /\ AnswersSuffice

LEMMA ItemVerdictIsVerdict ==
  ASSUME NEW i
  PROVE  ItemVerdict(i, {}) \in {"deny", "ask", "allow"}
PROOF
  <1>1. VerdictOf(access, i) \in {"deny", "ask", "allow"}
        BY VerdictsAreThree DEF VerdictOf, EvaluateRead, EvaluateWrite, OrElse, StricterVerdict
  <1> QED BY <1>1 DEF ItemVerdict

(* The override of the retry only adds to what is allowed.                  *)
LEMMA OverridesSuffice ==
  ASSUME NEW i, NEW override,
         \/ ItemVerdict(i, {}) = "allow"
         \/ ItemVerdict(i, {}) # "deny" /\ i \in override
  PROVE  ItemVerdict(i, override) = "allow"
PROOF
  <1>1. CASE i = Structural
        BY <1>1 DEF ItemVerdict
  <1>2. CASE i # Structural
        <2>1. ~(i.file \in Privileged /\ ~approved)
              BY <1>2 DEF ItemVerdict
        <2>2. VerdictOf(access, i) = "allow" \/ i \in override \ {Structural}
              BY <1>2, <2>1 DEF ItemVerdict
        <2> QED BY <1>2, <2>1, <2>2 DEF ItemVerdict
  <1> QED BY <1>1, <1>2

LEMMA QuietStepsKeepAnswers ==
  ASSUME AnswersInv, UNCHANGED <<access, approved, phase, roundVars, items, decisions, todo>>
  PROVE  AnswersSuffice'
PROOF
  <1>1. Call' = Call /\ (Refused' <=> Refused)
        BY DEF Call, roundVars, Refused
  <1>2. \A i : ItemVerdict(i, {})' = ItemVerdict(i, {})
        BY DEF ItemVerdict
  <1> QED BY <1>1, <1>2 DEF AnswersInv, AnswersSuffice

LEMMA NobodyAsksIsEnough ==
  ASSUME phase' \notin {"ask", "grants"}
  PROVE  AnswersSuffice'
PROOF BY DEF AnswersSuffice

LEMMA AskingStarts ==
  ASSUME RoundInv, ~Denied, Asked # {}, phase \notin {"idle", "model"}, UNCHANGED <<access, approved, roundVars>>,
         items' = AskedItems, phase' = "grants" => DOMAIN decisions' = Asked /\ todo' = Asked
  PROVE  AnswersSuffice'
PROOF
  <1>1. Call' = Call
        BY DEF Call, roundVars
  <1>2. \A i : ItemVerdict(i, {})' = ItemVerdict(i, {})
        BY DEF ItemVerdict
  <1>3. /\ DOMAIN items' = Asked /\ \A k \in Asked : items'[k] = Call.items[k]
        BY AskedIsTyped
  <1>4. \A k \in DOMAIN Call.items : ItemVerdict(Call.items[k], {}) \in {"ask", "allow"}
        BY ItemVerdictIsVerdict DEF Denied, ToSet
  <1>5. \A k \in DOMAIN Call.items \ Asked : ItemVerdict(Call.items[k], {}) = "allow"
        BY <1>4 DEF Asked
  <1> QED BY <1>1, <1>2, <1>3, <1>4, <1>5 DEF AnswersSuffice

LEMMA AnswerAskKeepsAnswers ==
  ASSUME AnswersInv, NEW d \in Decision, AnswerAsk(d)
  PROVE  AnswersSuffice'
PROOF
  <1> USE DEF AnswersInv
  <1>1. phase = "ask" /\ UNCHANGED <<access, approved, items>>
        BY DEF AnswerAsk, tableVars, modeVars
  <1>2. PICK a \in DOMAIN items \ DOMAIN decisions :
           /\ DOMAIN decisions' = DOMAIN decisions \cup {a} /\ decisions'[a] = d
           /\ \A k \in DOMAIN decisions : decisions'[k] = decisions[k]
           /\ \/ UNCHANGED <<phase, roundVars>>
              \/ DOMAIN decisions' = DOMAIN items /\ phase' = "grants" /\ todo' = Kept' /\ UNCHANGED roundVars
              \/ d.action = "deny"
        BY AnswerAskEffects
  <1>3. SUFFICES ASSUME ~Refused' PROVE AnswersSuffice'
        BY DEF AnswersSuffice
  <1>4. ~Refused /\ d.action # "deny"
        BY <1>2, <1>3 DEF Refused
  <1>5. Call' = Call
        BY <1>2, <1>4 DEF Call, roundVars
  <1>6. \A i : ItemVerdict(i, {})' = ItemVerdict(i, {})
        BY <1>1 DEF ItemVerdict
  <1>7. \A k \in DOMAIN Call.items :
          /\ k \notin DOMAIN items => ItemVerdict(Call.items[k], {}) = "allow"
          /\ k \in DOMAIN items => ItemVerdict(items[k], {}) # "deny"
        BY <1>1, <1>4 DEF AnswersInv, AnswersSuffice
  <1>8. ASSUME phase' = "grants"
        PROVE  \A k \in DOMAIN items :
                 k \in DOMAIN decisions' /\ (k \in todo' \/ decisions'[k].scope = "once" \/ items[k] = Structural)
        BY <1>1, <1>2, <1>4, <1>8 DEF Kept, Lasting
  <1> QED BY <1>1, <1>5, <1>6, <1>7, <1>8 DEF AnswersSuffice

LEMMA ApplyGrantKeepsAnswers ==
  ASSUME AnswersInv, ApplyGrant
  PROVE  AnswersSuffice'
PROOF
  <1> USE DEF AnswersInv
  <1>1. phase = "grants" /\ UNCHANGED <<approved, phase, roundVars, items, decisions>>
        BY ApplyGrantEffects DEF modeVars, askVars
  <1>2. Call' = Call /\ (Refused' <=> Refused)
        BY <1>1 DEF Call, roundVars, Refused
  <1>3. SUFFICES ASSUME ~Refused PROVE AnswersSuffice'
        BY <1>2 DEF AnswersSuffice
  <1>4. PICK k \in todo :
          /\ todo' = todo \ {k}
          /\ \/ items[k] = Structural /\ UNCHANGED access
             \/ /\ items[k] \in PathItem /\ items[k] # Structural
                /\ access' = GrantInMemory(access, GrantPaths(access, items[k]), items[k].write, decisions[k].action)
        <2>1. PICK k \in todo :
                /\ todo' = todo \ {k}
                /\ \/ items[k] = Structural /\ UNCHANGED <<access, template, job, narrowed>>
                   \/ /\ items[k] \in PathItem /\ items[k] # Structural
                      /\ access' = GrantInMemory(access, GrantPaths(access, items[k]), items[k].write,
                                                 decisions[k].action)
              BY ApplyGrantEffects
        <2> QED BY <2>1
  <1>5. /\ access \in Access /\ k \in DOMAIN decisions /\ k \in DOMAIN items /\ decisions[k].action = "allow"
        /\ \A j \in DOMAIN items : items[j] \in PathItem \cup {Structural}
        <2>1. access \in Access /\ k \in DOMAIN decisions /\ k \in DOMAIN items /\ decisions[k] \in Decision
              BY DEF RoundInv, Typed, TypeOK, Questions
        <2>2. decisions[k].action # "deny"
              BY <1>3, <2>1 DEF Refused
        <2> QED BY <2>1, <2>2 DEF Decision, RoundInv, Questions
  <1>6. ASSUME NEW i \in PathItem \cup {Structural}
        PROVE  /\ ItemVerdict(i, {}) = "allow" => ItemVerdict(i, {})' = "allow"
               /\ ItemVerdict(i, {}) # "deny" => ItemVerdict(i, {})' # "deny"
        <2>1. CASE access' = access \/ i = Structural
              BY <1>1, <2>1 DEF ItemVerdict
        <2>2. CASE access' # access /\ i # Structural
              <3>1. items[k].write \in BOOLEAN
                    BY <1>4, <2>2 DEF PathItem
              <3>2. /\ VerdictOf(access, i) = "allow" => VerdictOf(access', i) = "allow"
                    /\ VerdictOf(access, i) # "deny" => VerdictOf(access', i) # "deny"
                    BY <1>4, <1>5, <2>2, <3>1, AllowingTakesNothingAway
              <3> QED BY <1>1, <2>2, <3>2 DEF ItemVerdict
        <2> QED BY <2>1, <2>2
  <1>7. /\ DOMAIN items \subseteq DOMAIN Call.items
        /\ \A j \in DOMAIN Call.items : Call.items[j] \in PathItem \cup {Structural}
        BY <1>1, CallIsTyped DEF RoundInv, Questions
  <1>8. items[k] = Structural \/ ItemVerdict(items[k], {})' = "allow"
        <2>1. SUFFICES ASSUME items[k] \in PathItem, items[k] # Structural,
                              access' = GrantInMemory(access, GrantPaths(access, items[k]), items[k].write, "allow")
                       PROVE  ItemVerdict(items[k], {})' = "allow"
              BY <1>4, <1>5
        <2>2. ItemVerdict(items[k], {}) # "deny"
              BY <1>1, <1>3, <1>5, <1>7 DEF AnswersSuffice
        <2>3. ~(items[k].file \in Privileged /\ ~approved) /\ VerdictOf(access, items[k]) # "deny"
              BY <2>1, <2>2 DEF ItemVerdict
        <2>4. VerdictOf(access', items[k]) = "allow"
              BY <1>5, <2>1, <2>3, GrantAllowsItsItem
        <2> QED BY <1>1, <2>1, <2>3, <2>4 DEF ItemVerdict
  <1>9. ASSUME NEW j \in DOMAIN Call.items
        PROVE  /\ j \notin DOMAIN items => ItemVerdict(Call.items[j], {})' = "allow"
               /\ j \in DOMAIN items =>
                    /\ ItemVerdict(items[j], {})' # "deny"
                    /\ j \in DOMAIN decisions
                    /\ \/ j \in todo' \/ decisions[j].scope = "once" \/ items[j] = Structural
                       \/ ItemVerdict(items[j], {})' = "allow"
        <2>1. j \notin DOMAIN items => ItemVerdict(Call.items[j], {})' = "allow"
              BY <1>1, <1>2, <1>3, <1>6, <1>7 DEF AnswersSuffice
        <2>2. j \in DOMAIN items => ItemVerdict(items[j], {})' # "deny" /\ j \in DOMAIN decisions
              BY <1>1, <1>3, <1>5, <1>6 DEF AnswersSuffice
        <2>3. CASE j = k
              BY <1>8, <2>1, <2>2, <2>3
        <2>4. CASE j # k
              <3>1. j \in DOMAIN items =>
                      \/ j \in todo' \/ decisions[j].scope = "once" \/ items[j] = Structural
                      \/ ItemVerdict(items[j], {}) = "allow"
                    BY <1>1, <1>3, <1>4, <2>4 DEF AnswersSuffice
              <3> QED BY <1>1, <1>2, <1>5, <1>6, <2>1, <2>2, <3>1
        <2> QED BY <2>3, <2>4
  <1> QED BY <1>1, <1>2, <1>9 DEF AnswersSuffice

LEMMA AnswersInvIsInductive == AnswersInv /\ [Next]_vars => AnswersInv'
PROOF
  <1> SUFFICES ASSUME AnswersInv, [Next]_vars PROVE AnswersSuffice'
      BY RoundInvIsInductive DEF AnswersInv
  <1> USE DEF AnswersInv
  <1>1. CASE StartTurn \/ FinishTurn \/ AbortBeforeCall \/ ReachLimit \/ \E yes \in BOOLEAN : AnswerLimit(yes)
        <2>1. phase' \notin {"ask", "grants"}
              BY <1>1 DEF StartTurn, FinishTurn, AbortBeforeCall, ReachLimit, AnswerLimit, Stop
        <2> QED BY <2>1, NobodyAsksIsEnough
  <1>2. CASE \E n \in 1..MaxCalls : \E calls \in [1..n -> Calls] : BeginRound(calls)
        <2>1. phase' \notin {"ask", "grants"}
              BY <1>2 DEF BeginRound
        <2> QED BY <2>1, NobodyAsksIsEnough
  <1>3. CASE Retry \/ RunUnasked \/ AnswerQuestions \/ \E yes \in BOOLEAN : AnswerEscalation(yes)
        <2>1. phase' \notin {"ask", "grants"}
              BY <1>3 DEF Retry, RunUnasked, AnswerQuestions, AnswerEscalation, Answer
        <2> QED BY <2>1, NobodyAsksIsEnough
  <1>4. CASE NewSession \/ Restart
        <2>1. phase' \notin {"ask", "grants"}
              BY <1>4 DEF NewSession, Restart, FreshTurnState
        <2> QED BY <2>1, NobodyAsksIsEnough
  <1>5. CASE RewriteFile \/ CleanProjectFile \/ Cancel \/ OtherReads \/ OtherWrites
        <2>1. UNCHANGED <<access, approved, phase, roundVars, items, decisions, todo>>
              BY <1>5 DEF RewriteFile, CleanProjectFile, Cancel, OtherReads, OtherWrites, tableVars, modeVars,
                 grantVars, askVars
        <2> QED BY <2>1, QuietStepsKeepAnswers
  <1>6. CASE UNCHANGED vars \/ \E v \in {"ask", "auto", "deny"} : SetFramework(v)
        <2>1. UNCHANGED <<access, approved, phase, roundVars, items, decisions, todo>>
              BY <1>6 DEF vars, SetFramework, tableVars, modeVars, grantVars, askVars
        <2> QED BY <2>1, QuietStepsKeepAnswers
  <1>7. CASE AutoApprove
        <2>1. /\ StartCall /\ ~Denied /\ Asked # {} /\ UNCHANGED <<access, roundVars>> /\ items' = AskedItems
              /\ decisions' = [k \in Asked |-> AllowSession] /\ todo' = Asked
              BY <1>7 DEF AutoApprove
        <2>2. phase \notin {"idle", "model"} /\ approved' = approved
              BY <2>1, StartCallKeepsLimit DEF StartCall, modeVars
        <2> QED BY <2>1, <2>2, AskingStarts
  <1>8. CASE AskUser
        <2>1. StartCall /\ UNCHANGED <<access, roundVars>>
              BY <1>8 DEF AskUser
        <2>2. phase \notin {"idle", "model"} /\ approved' = approved
              BY <2>1, StartCallKeepsLimit DEF StartCall, modeVars
        <2>3. \/ phase' \in {"escalate", "questions"}
              \/ phase' = "ask" /\ ~Denied /\ Asked # {} /\ items' = AskedItems
              BY <1>8 DEF AskUser
        <2> QED BY <2>1, <2>2, <2>3, AskingStarts, NobodyAsksIsEnough
  <1>9. CASE ApplyGrant \/ \E d \in Decision : AnswerAsk(d)
        BY <1>9, ApplyGrantKeepsAnswers, AnswerAskKeepsAnswers
  <1> QED BY <1>1, <1>2, <1>3, <1>4, <1>5, <1>6, <1>7, <1>8, <1>9 DEF Next, Work, User

LEMMA AllowedRetriesRun ==
  ASSUME AnswersInv, Retry, ~Refused,
         \A k \in DOMAIN items : items[k] = Structural => k \in DOMAIN decisions /\ decisions[k].scope = "once"
  PROVE  ran' # {}
PROOF
  <1>1. /\ phase = "grants" /\ todo = {} /\ ran' = IF ~Refused /\ Permitted(Override) THEN ToSet(Call.items) ELSE {}
        BY DEF Retry, GrantsDone, Answer
  <1>2. /\ DOMAIN items \subseteq DOMAIN Call.items /\ DOMAIN items # {}
        /\ \A k \in DOMAIN items : items[k] = Call.items[k]
        BY <1>1 DEF AnswersInv, RoundInv, Questions
  <1>3. ASSUME NEW k \in DOMAIN Call.items
        PROVE  ItemVerdict(Call.items[k], Override) = "allow"
        <2>1. CASE k \notin DOMAIN items
              BY <1>1, <2>1, OverridesSuffice DEF AnswersInv, AnswersSuffice
        <2>2. CASE k \in DOMAIN items
              <3>1. /\ ItemVerdict(items[k], {}) # "deny"
                    /\ k \in DOMAIN decisions /\ (decisions[k].scope = "once" \/ ItemVerdict(items[k], {}) = "allow")
                    BY <1>1, <2>2 DEF AnswersInv, AnswersSuffice
              <3>2. decisions[k].scope = "once" => items[k] \in Override
                    BY <3>1 DEF Override
              <3> QED BY <1>2, <2>2, <3>1, <3>2, OverridesSuffice
        <2> QED BY <2>1, <2>2
  <1>4. Permitted(Override)
        BY <1>3 DEF Permitted, ToSet
  <1>5. ToSet(Call.items) # {}
        BY <1>2 DEF ToSet
  <1> QED BY <1>1, <1>4, <1>5

(* permissions.py and grant.py: for any rules and any answers, a call whose *)
(* every item was allowed runs on its retry, an unclassified part being     *)
(* allowed "once": the grants reach every rule that asked, and none of them *)
(* brings a question back.                                                  *)
THEOREM WhatIsAllowedRuns == Spec => AllowedCallsRun
PROOF
  <1>1. Init => AnswersInv
        BY RoundInvHolds DEF AnswersInv, AnswersSuffice, Init
  <1>2. AnswersInv /\ [Next]_vars =>
          [Retry /\ ~Refused /\ (\A k \in DOMAIN items : items[k] = Structural =>
                                    k \in DOMAIN decisions /\ decisions[k].scope = "once")
             => ran' # {}]_vars
        BY AllowedRetriesRun
  <1> QED BY <1>1, <1>2, AnswersInvIsInductive, PTL DEF Spec, AllowedCallsRun

-----------------------------------------------------------------------------
(* What survives a restart                                                  *)

LooserRules(r, s) == r.deny \subseteq s.deny /\ s.ask \subseteq r.ask /\ r.allow \subseteq s.allow

Looser(a, b) == LooserRules(a.read, b.read) /\ LooserRules(a.write, b.write)

(* The ask rules of one table that another has lost are consented to or     *)
(* denied there.                                                            *)
KnownRules(r, s) == r.ask \subseteq s.ask \cup s.deny \cup consent

Known(a, b) == KnownRules(a.read, b.read) /\ KnownRules(a.write, b.write)

(* The template has fewer grants and denials than the session.              *)
TemplateIsBehind ==
  /\ Known(template, access)
  /\ template.read.deny \subseteq access.read.deny /\ template.write.deny \subseteq access.write.deny

DisksAreKnown == \A file \in {"user", "project"} : Known(disk[file], template)

NoAsk(a, i) ==
  /\ a.read.ask \cap Within[i.file] = {}
  /\ i.write => a.write.ask \cap Within[i.file] = {}

AsksWithin(a, i, paths) ==
  /\ a.read.ask \cap Within[i.file] \subseteq paths
  /\ i.write => a.write.ask \cap Within[i.file] \subseteq paths

(* A file's rules answer for a grant.                                       *)
Settles(a, g) ==
  IF g.action = "deny"
    THEN a.read.deny \cap Within[g.item.file] # {}
    ELSE /\ NoAsk(a, g.item) /\ a.read.allow \cap Within[g.item.file] # {}
         /\ g.item.write => a.write.allow \cap Within[g.item.file] # {}

(* The rewriting in progress reaches every rule that asks about its item.   *)
JobReaches ==
  job # NoJob =>
    LET g == job.grant IN
    /\ job.paths \cap Within[g.item.file] # {}
    /\ g.action = "allow" => \A file \in {"user", "project"} : AsksWithin(disk[file], g.item, job.paths)
    /\ g.scope \in {"workspace", "homedir"}
    /\ job.step = "grant" => job.file = IF g.scope = "workspace" THEN "project" ELSE "user"
    /\ job.step = "clean" => /\ job.file = "project" /\ g.scope = "homedir" /\ Settles(disk["user"], g)
                             /\ disk["project"].read.ask \subseteq job.read.read.ask
                             /\ disk["project"].write.ask \subseteq job.read.write.ask

PromisesAreOnDisk ==
  \A g \in promised :
    IF g.scope = "workspace"
      THEN Settles(disk["project"], g)
      ELSE Settles(disk["user"], g) /\ (g.action = "allow" => NoAsk(disk["project"], g.item))

(* A grant to be applied was shown every rule it removes; after a denial    *)
(* only that is left.                                                       *)
TodoIsShown ==
  /\ phase = "ask" => ~Refused
  /\ Refused => \A k \in todo : decisions[k].action = "deny"
  /\ \A k \in todo :
       decisions[k].action = "allow" /\ items[k] # Structural =>
         /\ access.read.ask \cap Within[items[k].file] \subseteq consent
         /\ items[k].write => access.write.ask \cap Within[items[k].file] \subseteq consent

DiskInv ==
  /\ AnswersInv /\ TodoIsShown /\ TemplateIsBehind
  /\ Trusted /\ ~overlapped => DisksAreKnown
  /\ Trusted /\ ~overlapped /\ ~narrowed => JobReaches /\ PromisesAreOnDisk

LEMMA DecideLoosens ==
  ASSUME NEW r, NEW paths, NEW action
  PROVE  LooserRules(r, Decide(r, paths, action))
PROOF BY DEF LooserRules, Decide

LEMMA GrantOnDiskLoosens ==
  ASSUME NEW a, NEW paths, NEW write, NEW action
  PROVE  Looser(a, GrantOnDisk(a, paths, write, action))
PROOF
  <1>1. LooserRules(a.write, a.write)
        BY DEF LooserRules
  <1> QED BY <1>1, DecideLoosens DEF Looser, GrantOnDisk

LEMMA CleanAskLoosens ==
  ASSUME NEW a \in Access, NEW paths
  PROVE  Looser(a, CleanAsk(a, paths))
PROOF BY DEF Looser, LooserRules, CleanAsk, Access, Rules

LEMMA LooserKeepsAnswers ==
  ASSUME NEW a, NEW b, Looser(a, b), NEW g, NEW paths
  PROVE  /\ Settles(a, g) => Settles(b, g)
         /\ NoAsk(a, g.item) => NoAsk(b, g.item)
         /\ AsksWithin(a, g.item, paths) => AsksWithin(b, g.item, paths)
PROOF BY DEF Looser, LooserRules, Settles, NoAsk, AsksWithin

(* compute_grant_paths and _apply_grant_to_file: a grant for paths that     *)
(* hold every rule that asks settles the item.                              *)
LEMMA GrantOnDiskSettles ==
  ASSUME NEW a, NEW g \in Grant, NEW paths, paths \cap Within[g.item.file] # {},
         g.action = "allow" => AsksWithin(a, g.item, paths)
  PROVE  Settles(GrantOnDisk(a, paths, g.item.write, g.action), g)
PROOF
  <1>1. g.action \in {"allow", "deny"} /\ g.item.write \in BOOLEAN
        BY DEF Grant, PathItem
  <1>2. CASE g.action = "deny"
        BY <1>2 DEF Settles, GrantOnDisk, Decide
  <1>3. CASE g.action = "allow"
        <2> DEFINE b == GrantOnDisk(a, paths, g.item.write, g.action)
        <2>1. /\ b.read.ask = a.read.ask \ paths /\ b.read.allow = a.read.allow \cup paths
              /\ g.item.write => b.write.ask = a.write.ask \ paths /\ b.write.allow = a.write.allow \cup paths
              BY <1>3 DEF GrantOnDisk, Decide
        <2> HIDE DEF b
        <2>2. NoAsk(b, g.item)
              BY <1>3, <2>1 DEF NoAsk, AsksWithin
        <2>3. Settles(b, g)
              BY <1>3, <2>1, <2>2 DEF Settles
        <2> QED BY <2>3 DEF b
  <1> QED BY <1>1, <1>2, <1>3

LEMMA CleanAskStopsAsking ==
  ASSUME NEW a \in Access, NEW i, NEW paths, AsksWithin(a, i, paths)
  PROVE  NoAsk(CleanAsk(a, paths), i)
PROOF BY DEF NoAsk, AsksWithin, CleanAsk, Access, Rules

(* What the files settle is not asked about once they are loaded.           *)
LEMMA LoadedDenials ==
  ASSUME Trusted, NEW files, NEW g \in Grant, NEW file \in {"user", "project"},
         files[file].read.deny \cap Within[g.item.file] # {}
  PROVE  VerdictOf(Load(files), g.item) = "deny"
PROOF
  <1>1. Load(files).read.deny \cap Within[g.item.file] # {}
        BY DEF Load, Concat, ConcatRules
  <1>2. Evaluate(Load(files).read, g.item.file) = "deny"
        BY <1>1 DEF Evaluate, Matching
  <1> QED BY <1>2 DEF VerdictOf, EvaluateRead, EvaluateWrite, OrElse, StricterVerdict

LEMMA LoadedGrants ==
  ASSUME Trusted, NEW files, NEW g \in Grant, g.action = "allow", NEW file \in {"user", "project"},
         Settles(files[file], g), NoAsk(files["user"], g.item), NoAsk(files["project"], g.item)
  PROVE  VerdictOf(Load(files), g.item) # "ask"
PROOF
  <1> DEFINE all == Load(files)
  <1>1. /\ all.read.ask \cap Within[g.item.file] = {} /\ all.read.allow \cap Within[g.item.file] # {}
        /\ g.item.write => /\ all.write.ask \cap Within[g.item.file] = {}
                           /\ all.write.allow \cap Within[g.item.file] # {}
        BY DEF Load, Concat, ConcatRules, NoAsk, Settles
  <1> HIDE DEF all
  <1>2. Evaluate(all.read, g.item.file) \in {"deny", "allow"}
        BY <1>1 DEF Evaluate, Matching
  <1>3. g.item.write => Evaluate(all.write, g.item.file) \in {"deny", "allow"}
        BY <1>1 DEF Evaluate, Matching
  <1>4. VerdictOf(all, g.item) # "ask"
        BY <1>2, <1>3 DEF VerdictOf, EvaluateRead, EvaluateWrite, OrElse, StricterVerdict
  <1> QED BY <1>4 DEF all

LEMMA DiskInvSuffices == DiskInv => GrantsSurviveRestart
PROOF
  <1> SUFFICES ASSUME DiskInv, Trusted, ~overlapped, ~narrowed, NEW g \in promised
               PROVE  \/ VerdictOf(Load(disk), g.item) # "ask"
                      \/ g.scope = "workspace" /\ g.action = "allow" /\ UserAsks(g.item)
      BY DEF GrantsSurviveRestart
  <1>1. /\ g \in Grant /\ g.action \in {"allow", "deny"}
        /\ IF g.scope = "workspace"
             THEN Settles(disk["project"], g)
             ELSE Settles(disk["user"], g) /\ (g.action = "allow" => NoAsk(disk["project"], g.item))
        BY DEF DiskInv, PromisesAreOnDisk, AnswersInv, RoundInv, Typed, TypeOK, Grant
  <1>2. CASE g.action = "deny"
        BY <1>1, <1>2, LoadedDenials DEF Settles
  <1>3. CASE g.action = "allow" /\ g.scope = "workspace"
        <2>1. UserAsks(g.item) \/ NoAsk(disk["user"], g.item)
              BY DEF UserAsks, NoAsk, Matching
        <2>2. NoAsk(disk["project"], g.item)
              BY <1>1, <1>3 DEF Settles
        <2> QED BY <1>1, <1>3, <2>1, <2>2, LoadedGrants
  <1>4. CASE g.action = "allow" /\ g.scope # "workspace"
        <2>1. NoAsk(disk["user"], g.item)
              BY <1>1, <1>4 DEF Settles
        <2> QED BY <1>1, <1>4, <2>1, LoadedGrants
  <1> QED BY <1>1, <1>2, <1>3, <1>4

LEMMA QuietStepsKeepDisks ==
  ASSUME DiskInv, UNCHANGED <<access, template, disk, job, promised, overlapped, narrowed>>, consent \subseteq consent',
         TodoIsShown'
  PROVE  /\ TodoIsShown' /\ TemplateIsBehind'
         /\ (Trusted /\ ~overlapped => DisksAreKnown)'
         /\ (Trusted /\ ~overlapped /\ ~narrowed => JobReaches /\ PromisesAreOnDisk)'
PROOF
  <1>1. TemplateIsBehind'
        BY DEF DiskInv, TemplateIsBehind, Known, KnownRules
  <1>2. ASSUME Trusted, ~overlapped' PROVE DisksAreKnown'
        BY <1>2 DEF DiskInv, DisksAreKnown, Known, KnownRules
  <1>3. ASSUME Trusted, ~overlapped', ~narrowed' PROVE JobReaches' /\ PromisesAreOnDisk'
        BY <1>3 DEF DiskInv, JobReaches, PromisesAreOnDisk, Settles, NoAsk, AsksWithin
  <1> QED BY <1>1, <1>2, <1>3

LEMMA QuietStepsKeepTodo ==
  ASSUME DiskInv, UNCHANGED <<access, consent>>, todo' = {} \/ UNCHANGED <<todo, items, decisions>>,
         phase' = "ask" => DOMAIN decisions' = {} \/ UNCHANGED <<phase, decisions>>
  PROVE  TodoIsShown'
PROOF BY DEF DiskInv, TodoIsShown, Refused

LEMMA ShownTodo ==
  ASSUME RoundInv, UNCHANGED access, todo' \subseteq DOMAIN items',
         \A k \in DOMAIN items' : items'[k] \in PathItem \cup {Structural},
         consent' = consent \cup Shown({items'[k] : k \in todo'}), ~Refused'
  PROVE  TodoIsShown'
PROOF
  <1>1. access \in Access
        BY DEF RoundInv, Typed, TypeOK
  <1>2. ASSUME NEW k \in todo', items'[k] # Structural
        PROVE  /\ access.read.ask \cap Within[items'[k].file] \subseteq consent'
               /\ items'[k].write => access.write.ask \cap Within[items'[k].file] \subseteq consent'
        <2>1. GrantPaths(access, items'[k]) \subseteq consent'
              BY <1>2 DEF Shown
        <2> QED BY <1>1, <1>2, <2>1, GrantPathsCover
  <1> QED BY <1>2 DEF TodoIsShown

LEMMA AnswerAskKeepsTodo ==
  ASSUME DiskInv, NEW d \in Decision, AnswerAsk(d)
  PROVE  TodoIsShown' /\ consent \subseteq consent'
PROOF
  <1> USE DEF DiskInv, AnswersInv
  <1>1. /\ phase = "ask" /\ todo = {} /\ UNCHANGED <<access, items>>
        /\ DOMAIN items \subseteq DOMAIN Call.items /\ DOMAIN decisions \subseteq DOMAIN items
        /\ \A k \in DOMAIN items : items[k] \in PathItem \cup {Structural}
        BY DEF AnswerAsk, tableVars, RoundInv, Questions, Typed, TypeOK
  <1>2. PICK a \in DOMAIN items \ DOMAIN decisions :
           /\ DOMAIN decisions' = DOMAIN decisions \cup {a} /\ decisions'[a] = d
           /\ \A k \in DOMAIN decisions : decisions'[k] = decisions[k]
           /\ \/ d.action = "allow" /\ UNCHANGED <<todo, consent>>
              \/ phase' \in {"model", "calls"} /\ UNCHANGED <<todo, consent>>
              \/ /\ d.action = "allow" /\ todo' = Kept' /\ phase' = "grants"
                 /\ consent' = consent \cup Shown({items[k] : k \in todo'})
              \/ /\ d.action = "deny" /\ Call.tool = "file" /\ todo' = Kept' /\ phase' = "grants"
                 /\ UNCHANGED consent
        BY AnswerAskEffects DEF Answer
  <1>3. CASE UNCHANGED <<todo, consent>> /\ (d.action = "allow" \/ phase' # "ask")
        <2>1. d.action = "allow" => ~Refused'
              BY <1>1, <1>2 DEF TodoIsShown, Refused
        <2> QED BY <1>1, <1>3, <2>1 DEF TodoIsShown
  <1>4. CASE /\ d.action = "deny" /\ Call.tool = "file" /\ todo' = Kept' /\ phase' = "grants"
             /\ UNCHANGED consent
        <2>1. DOMAIN items \subseteq {1}
              BY <1>1, <1>4, CallIsTyped
        <2>2. DOMAIN decisions' = {a}
              BY <1>1, <1>2, <2>1
        <2>3. \A k \in todo' : decisions'[k].action = "deny"
              BY <1>2, <1>4, <2>2 DEF Kept
        <2> QED BY <1>4, <2>3 DEF TodoIsShown
  <1>5. CASE /\ d.action = "allow" /\ todo' = Kept'
             /\ consent' = consent \cup Shown({items[k] : k \in todo'})
        <2>1. todo' \subseteq DOMAIN items'
              BY <1>1, <1>2, <1>5 DEF Kept
        <2>2. consent' = consent \cup Shown({items'[k] : k \in todo'})
              BY <1>1, <1>5
        <2>3. ~Refused'
              BY <1>1, <1>2, <1>5 DEF TodoIsShown, Refused
        <2> QED BY <1>1, <1>5, <2>1, <2>2, <2>3, ShownTodo
  <1> QED BY <1>2, <1>3, <1>4, <1>5

LEMMA GrantKeepsKnown ==
  ASSUME NEW src, NEW table, NEW paths, NEW write \in BOOLEAN, NEW action \in {"allow", "deny"}, Known(src, table),
         action = "allow" => /\ table.read.ask \cap paths \subseteq consent
                             /\ write => table.write.ask \cap paths \subseteq consent
  PROVE  Known(src, GrantInMemory(table, paths, write, action))
PROOF
  <1> DEFINE new == GrantInMemory(table, paths, write, action)
  <1>1. KnownRules(src.read, table.read) /\ KnownRules(src.write, table.write)
        BY DEF Known
  <1>2. KnownRules(src.read, new.read)
        <2>1. CASE action = "allow"
              BY <1>1, <2>1 DEF KnownRules, GrantInMemory, Decide
        <2>2. CASE action = "deny"
              BY <1>1, <2>2 DEF KnownRules, GrantInMemory, Decide
        <2> QED BY <2>1, <2>2
  <1>3. KnownRules(src.write, new.write)
        <2>1. CASE action = "allow"
              BY <1>1, <2>1 DEF KnownRules, GrantInMemory, Decide
        <2>2. CASE action = "deny"
              BY <1>1, <2>2 DEF KnownRules, GrantInMemory, Decide
        <2> QED BY <2>1, <2>2
  <1> QED BY <1>2, <1>3 DEF Known

LEMMA GrantMovesRules ==
  ASSUME NEW table, NEW paths, NEW write, NEW action, NEW new, new = GrantInMemory(table, paths, write, action)
  PROVE  /\ new.read.ask \subseteq table.read.ask /\ new.write.ask \subseteq table.write.ask
         /\ new.read.deny = table.read.deny \cup (IF action = "deny" /\ ~write THEN paths ELSE {})
         /\ new.write.deny = table.write.deny \cup (IF action = "deny" /\ write THEN paths ELSE {})
PROOF BY DEF GrantInMemory, Decide

(* The grant to be applied next is for an item the session does not deny,   *)
(* and every rule that asks about the item anywhere is among its paths or   *)
(* was consented to.                                                        *)
LEMMA NextGrantReaches ==
  ASSUME DiskInv, phase = "grants", NEW k \in todo, items[k] # Structural, decisions[k].action = "allow"
  PROVE  LET i == items[k]
             paths == GrantPaths(access, i)
         IN  /\ access.read.deny \cap Within[i.file] = {}
             /\ access.read.ask \cap Within[i.file] \subseteq consent
             /\ i.write => /\ access.write.deny \cap Within[i.file] = {}
                           /\ access.write.ask \cap Within[i.file] \subseteq consent
             /\ template.read.ask \cap Within[i.file] \subseteq consent
             /\ i.write => template.write.ask \cap Within[i.file] \subseteq consent
             /\ Trusted /\ ~overlapped => \A file \in {"user", "project"} : AsksWithin(disk[file], i, consent)
PROOF
  <1> USE DEF DiskInv, AnswersInv
  <1> DEFINE i == items[k]
             W == Within[i.file]
  <1>1. /\ k \in DOMAIN items /\ k \in DOMAIN Call.items /\ i \in PathItem /\ ~Refused
        BY DEF RoundInv, Questions, Typed, TypeOK, TodoIsShown
  <1>2. ItemVerdict(i, {}) # "deny"
        BY <1>1 DEF AnswersSuffice
  <1>3. VerdictOf(access, i) # "deny"
        BY <1>2 DEF ItemVerdict
  <1>4. i.write \in BOOLEAN
        BY <1>1 DEF PathItem
  <1>5. access.read.deny \cap W = {}
        <2>1. Evaluate(access.read, i.file) # "deny"
              BY <1>3, <1>4 DEF VerdictOf, EvaluateRead, EvaluateWrite, OrElse, StricterVerdict
        <2> QED BY <2>1 DEF Evaluate, Matching
  <1>6. i.write => access.write.deny \cap W = {}
        <2>1. i.write => Evaluate(access.write, i.file) # "deny"
              BY <1>3, <1>4 DEF VerdictOf, EvaluateRead, EvaluateWrite, OrElse, StricterVerdict
        <2> QED BY <2>1 DEF Evaluate, Matching
  <1>7. access.read.ask \cap W \subseteq consent /\ (i.write => access.write.ask \cap W \subseteq consent)
        BY DEF TodoIsShown
  <1> HIDE DEF i, W
  <1>8. template.read.ask \cap W \subseteq consent
        BY <1>5, <1>7 DEF TemplateIsBehind, Known, KnownRules
  <1>9. i.write => template.write.ask \cap W \subseteq consent
        BY <1>6, <1>7 DEF TemplateIsBehind, Known, KnownRules
  <1>10. ASSUME Trusted, ~overlapped, NEW file \in {"user", "project"}
         PROVE  disk[file].read.ask \cap W \subseteq consent /\ (i.write => disk[file].write.ask \cap W \subseteq consent)
         <2>1. Known(disk[file], template)
               BY <1>10 DEF DisksAreKnown
         <2>2. template.read.deny \cap W = {} /\ (i.write => template.write.deny \cap W = {})
               BY <1>5, <1>6 DEF TemplateIsBehind
         <2> QED BY <1>8, <1>9, <2>1, <2>2 DEF Known, KnownRules
  <1> QED BY <1>5, <1>6, <1>7, <1>8, <1>9, <1>10 DEF i, W, AsksWithin

DiskParts ==
  /\ TodoIsShown /\ TemplateIsBehind
  /\ Trusted /\ ~overlapped => DisksAreKnown
  /\ Trusted /\ ~overlapped /\ ~narrowed => JobReaches /\ PromisesAreOnDisk

LEMMA ApplyGrantKeepsDisks ==
  ASSUME DiskInv, ApplyGrant
  PROVE  DiskParts'
PROOF
  <1> USE DEF DiskInv, AnswersInv
  <1>1. /\ phase = "grants" /\ job = NoJob
        /\ UNCHANGED <<disk, phase, items, decisions, overlapped, consent, promised>>
        BY ApplyGrantEffects DEF askVars, otherVars
  <1>2. PICK k \in todo :
          /\ todo' = todo \ {k}
          /\ \/ items[k] = Structural /\ UNCHANGED <<access, template, job, narrowed>>
             \/ /\ items[k] \in PathItem /\ items[k] # Structural
                /\ access' = GrantInMemory(access, GrantPaths(access, items[k]), items[k].write, decisions[k].action)
                /\ narrowed' = (narrowed \/ ~(consent \cap Within[items[k].file] \subseteq GrantPaths(access, items[k])))
                /\ \/ UNCHANGED <<template, job>>
                   \/ /\ decisions[k].scope \in {"workspace", "homedir"}
                      /\ template' = GrantInMemory(template, GrantPaths(access, items[k]), items[k].write,
                                                   decisions[k].action)
                      /\ \E file \in {"user", "project"} :
                           /\ (file = "project" <=> decisions[k].scope = "workspace")
                           /\ job' = [step |-> "grant", file |-> file, read |-> disk[file],
                                      grant |-> GrantOf(k), paths |-> GrantPaths(access, items[k])]
        <2>1. PICK k \in todo :
                /\ todo' = todo \ {k}
                /\ \/ items[k] = Structural /\ UNCHANGED <<access, template, job, narrowed>>
                   \/ /\ items[k] \in PathItem /\ items[k] # Structural
                      /\ access' = GrantInMemory(access, GrantPaths(access, items[k]), items[k].write,
                                                 decisions[k].action)
                      /\ narrowed' = (narrowed \/ ~(consent \cap Within[items[k].file]
                                                      \subseteq GrantPaths(access, items[k])))
                      /\ \/ decisions[k].scope = "session" /\ UNCHANGED <<template, job>>
                         \/ /\ decisions[k].scope \in {"workspace", "homedir"}
                            /\ template' = GrantInMemory(template, GrantPaths(access, items[k]), items[k].write,
                                                         decisions[k].action)
                            /\ \E file \in {"user", "project"} :
                                 /\ (file = "project" <=> decisions[k].scope = "workspace")
                                 /\ job' = [step |-> "grant", file |-> file, read |-> disk[file],
                                            grant |-> GrantOf(k), paths |-> GrantPaths(access, items[k])]
              BY ApplyGrantEffects
        <2> QED BY <2>1
  <1>3. /\ access \in Access /\ decisions[k].action \in {"allow", "deny"} /\ (Refused' <=> Refused)
        BY <1>1 DEF RoundInv, Typed, TypeOK, Questions, Decision, Refused
  <1>4. CASE UNCHANGED <<access, template, job, narrowed>>
        <2>1. TodoIsShown'
              BY <1>1, <1>2, <1>3, <1>4 DEF TodoIsShown
        <2> QED BY <1>1, <1>4, <2>1, QuietStepsKeepDisks DEF DiskParts
  <1>5. CASE /\ items[k] \in PathItem /\ items[k] # Structural
             /\ access' = GrantInMemory(access, GrantPaths(access, items[k]), items[k].write, decisions[k].action)
        <2> DEFINE i == items[k]
                   act == decisions[k].action
                   paths == GrantPaths(access, i)
        <2>1. /\ i.write \in BOOLEAN /\ paths # {} /\ paths \subseteq Within[i.file]
              /\ access.read.ask \cap Within[i.file] \subseteq paths
              /\ i.write => access.write.ask \cap Within[i.file] \subseteq paths
              BY <1>3, <1>5, GrantPathsCover DEF PathItem
        <2>2. act = "allow" =>
                /\ access.read.ask \cap Within[i.file] \subseteq consent
                /\ i.write => access.write.ask \cap Within[i.file] \subseteq consent
                /\ template.read.ask \cap Within[i.file] \subseteq consent
                /\ i.write => template.write.ask \cap Within[i.file] \subseteq consent
                /\ Trusted /\ ~overlapped => \A file \in {"user", "project"} : AsksWithin(disk[file], i, consent)
              BY <1>1, <1>5, NextGrantReaches
        <2>3. /\ act \in {"allow", "deny"} /\ access' = GrantInMemory(access, paths, i.write, act)
              /\ \/ template' = template
                 \/ template' = GrantInMemory(template, paths, i.write, act)
              BY <1>2, <1>3, <1>5
        <2>4. \/ job' = job
              \/ /\ decisions[k].scope \in {"workspace", "homedir"}
                 /\ \E file \in {"user", "project"} :
                      /\ (file = "project" <=> decisions[k].scope = "workspace")
                      /\ job' = [step |-> "grant", file |-> file, read |-> disk[file],
                                 grant |-> GrantOf(k), paths |-> paths]
              BY <1>2, <1>5
        <2>5. /\ GrantOf(k).item = i /\ GrantOf(k).action = act /\ GrantOf(k).scope = decisions[k].scope
              BY DEF GrantOf
        <2>6. ~narrowed' => ~narrowed /\ consent \cap Within[i.file] \subseteq paths
              BY <1>2, <1>5
        <2> HIDE DEF i, act, paths
        <2>7. /\ access'.read.ask \subseteq access.read.ask /\ access'.write.ask \subseteq access.write.ask
              /\ access'.read.deny = access.read.deny \cup (IF act = "deny" /\ ~i.write THEN paths ELSE {})
              /\ access'.write.deny = access.write.deny \cup (IF act = "deny" /\ i.write THEN paths ELSE {})
              BY <2>3, GrantMovesRules
        <2>8. /\ template'.read.ask \subseteq template.read.ask /\ template'.write.ask \subseteq template.write.ask
              /\ template'.read.deny \subseteq access'.read.deny /\ template'.write.deny \subseteq access'.write.deny
              <3>1. template.read.deny \subseteq access.read.deny /\ template.write.deny \subseteq access.write.deny
                    BY DEF TemplateIsBehind
              <3>2. CASE template' = template
                    BY <2>7, <3>1, <3>2
              <3>3. CASE template' = GrantInMemory(template, paths, i.write, act)
                    <4>1. /\ template'.read.ask \subseteq template.read.ask /\ template'.write.ask \subseteq template.write.ask
                          /\ template'.read.deny = template.read.deny \cup (IF act = "deny" /\ ~i.write THEN paths ELSE {})
                          /\ template'.write.deny = template.write.deny \cup (IF act = "deny" /\ i.write THEN paths ELSE {})
                          BY <3>3, GrantMovesRules
                    <4> QED BY <2>7, <3>1, <4>1
              <3> QED BY <2>3, <3>2, <3>3
        <2>9. TemplateIsBehind'
              <3>1. Known(template, access')
                    BY <2>1, <2>2, <2>3, GrantKeepsKnown DEF TemplateIsBehind
              <3>2. Known(template', access')
                    BY <2>8, <3>1 DEF Known, KnownRules
              <3>3. Known(template, access)'
                    BY <1>1, <3>2 DEF Known, KnownRules
              <3> QED BY <2>8, <3>3 DEF TemplateIsBehind
        <2>10. ASSUME Trusted, ~overlapped'
               PROVE  DisksAreKnown'
               <3>1. DisksAreKnown
                     BY <1>1, <2>10
               <3>2. ASSUME NEW file \in {"user", "project"} PROVE Known(disk[file], template')
                     BY <2>1, <2>2, <2>3, <3>1, GrantKeepsKnown DEF DisksAreKnown
               <3> QED BY <1>1, <3>2 DEF DisksAreKnown, Known, KnownRules
        <2>11. TodoIsShown'
               BY <1>1, <1>2, <1>3, <2>7 DEF TodoIsShown
        <2>12. ASSUME Trusted, ~overlapped', ~narrowed'
               PROVE  JobReaches' /\ PromisesAreOnDisk'
               <3>1. ~overlapped /\ ~narrowed /\ consent \cap Within[i.file] \subseteq paths
                     BY <1>1, <2>6, <2>12
               <3>2. PromisesAreOnDisk'
                     BY <1>1, <2>12, <3>1 DEF PromisesAreOnDisk
               <3>3. act = "allow" => \A file \in {"user", "project"} : AsksWithin(disk[file], i, paths)
                     BY <2>2, <2>12, <3>1 DEF AsksWithin
               <3>4. CASE job' = job
                     BY <1>1, <3>2, <3>4 DEF JobReaches
               <3>5. CASE job' # job
                     <4>1. PICK file \in {"user", "project"} :
                             /\ (file = "project" <=> decisions[k].scope = "workspace")
                             /\ job' = [step |-> "grant", file |-> file, read |-> disk[file],
                                        grant |-> GrantOf(k), paths |-> paths]
                           BY <2>4, <3>5
                     <4>2. /\ job'.step = "grant" /\ job'.file = file /\ job'.grant = GrantOf(k) /\ job'.paths = paths
                           BY <4>1
                     <4>3. paths \cap Within[i.file] # {}
                           BY <2>1
                     <4>4. JobReaches'
                           <5>1. decisions[k].scope \in {"workspace", "homedir"}
                                 BY <2>4, <3>5
                           <5> QED BY <1>1, <2>5, <3>3, <4>1, <4>2, <4>3, <5>1 DEF JobReaches
                     <4> QED BY <3>2, <4>4
               <3> QED BY <3>4, <3>5
        <2> QED BY <2>9, <2>10, <2>11, <2>12 DEF DiskParts
  <1> QED BY <1>1, <1>2, <1>4, <1>5

LEMMA SettledStaySettled ==
  ASSUME PromisesAreOnDisk, \A file \in {"user", "project"} : Looser(disk[file], disk'[file]), UNCHANGED promised
  PROVE  PromisesAreOnDisk'
PROOF
  <1>1. ASSUME NEW g
        PROVE  /\ Settles(disk["user"], g) => Settles(disk'["user"], g)
               /\ Settles(disk["project"], g) => Settles(disk'["project"], g)
               /\ NoAsk(disk["project"], g.item) => NoAsk(disk'["project"], g.item)
        BY LooserKeepsAnswers
  <1> QED BY <1>1 DEF PromisesAreOnDisk

LEMMA LoosenedDisksAreKnown ==
  ASSUME DisksAreKnown, \A file \in {"user", "project"} : Looser(disk[file], disk'[file]), UNCHANGED <<template, consent>>
  PROVE  DisksAreKnown'
PROOF BY DEF DisksAreKnown, Known, KnownRules, Looser, LooserRules

(* One of the two files is replaced by what was read of it with less to ask *)
(* about, unless it changed in between.                                     *)
LEMMA ReplacingLoosens ==
  ASSUME disk \in [{"user", "project"} -> Access], NEW file \in {"user", "project"}, NEW new,
         disk' = [disk EXCEPT ![file] = new], Looser(disk[file], new)
  PROVE  \A f \in {"user", "project"} : Looser(disk[f], disk'[f])
PROOF BY DEF Looser, LooserRules

LEMMA MemoryStaysAsItIs ==
  ASSUME DiskInv, UNCHANGED <<access, template, consent, phase, todo, items, decisions>>
  PROVE  TodoIsShown' /\ TemplateIsBehind'
PROOF BY QuietStepsKeepTodo DEF DiskInv, TemplateIsBehind, Known, KnownRules

LEMMA RewriteFileKeepsDisks ==
  ASSUME DiskInv, RewriteFile
  PROVE  DiskParts'
PROOF
  <1> USE DEF DiskInv, AnswersInv
  <1>1. UNCHANGED <<access, template, consent, phase, todo, items, decisions, narrowed>>
        BY DEF RewriteFile, askVars
  <1>2. TodoIsShown' /\ TemplateIsBehind'
        BY <1>1, MemoryStaysAsItIs
  <1>3. /\ job \in FileJob /\ job # NoJob /\ job.step = "grant" /\ disk \in [{"user", "project"} -> Access]
        BY DEF RewriteFile, RoundInv, Typed, TypeOK
  <1>4. job.file \in {"user", "project"} /\ job.grant \in Grant
        BY <1>3 DEF FileJob
  <1> DEFINE g == job.grant
             new == GrantOnDisk(disk[job.file], job.paths, g.item.write, g.action)
  <1>5. ASSUME ~overlapped'
        PROVE  ~overlapped /\ disk' = [disk EXCEPT ![job.file] = new]
        BY <1>5 DEF RewriteFile
  <1>6. Looser(disk[job.file], new)
        BY GrantOnDiskLoosens
  <1> HIDE DEF new
  <1>7. ASSUME ~overlapped'
        PROVE  \A f \in {"user", "project"} : Looser(disk[f], disk'[f])
        BY <1>3, <1>4, <1>5, <1>6, <1>7, ReplacingLoosens
  <1>8. ASSUME Trusted, ~overlapped' PROVE DisksAreKnown'
        BY <1>1, <1>5, <1>7, <1>8, LoosenedDisksAreKnown
  <1>9. ASSUME Trusted, ~overlapped', ~narrowed' PROVE JobReaches' /\ PromisesAreOnDisk'
        <2>1. JobReaches /\ PromisesAreOnDisk
              BY <1>1, <1>5, <1>9
        <2>2. /\ job.paths \cap Within[g.item.file] # {} /\ g.scope \in {"workspace", "homedir"}
              /\ g.action = "allow" => \A f \in {"user", "project"} : AsksWithin(disk[f], g.item, job.paths)
              /\ job.file = IF g.scope = "workspace" THEN "project" ELSE "user"
              BY <1>3, <2>1 DEF JobReaches
        <2>3. Settles(new, g)
              BY <1>4, <2>2, GrantOnDiskSettles DEF new
        <2>4. disk'[job.file] = new /\ \A f \in {"user", "project"} \ {job.file} : disk'[f] = disk[f]
              BY <1>3, <1>4, <1>5, <1>9
        <2>5. g.action = "allow" => \A f \in {"user", "project"} : AsksWithin(disk'[f], g.item, job.paths)
              BY <1>7, <1>9, <2>2, LooserKeepsAnswers
        <2>6. \A p \in promised :
                IF p.scope = "workspace"
                  THEN Settles(disk'["project"], p)
                  ELSE Settles(disk'["user"], p) /\ (p.action = "allow" => NoAsk(disk'["project"], p.item))
              <3>1. ASSUME NEW p
                    PROVE  /\ Settles(disk["user"], p) => Settles(disk'["user"], p)
                           /\ Settles(disk["project"], p) => Settles(disk'["project"], p)
                           /\ NoAsk(disk["project"], p.item) => NoAsk(disk'["project"], p.item)
                    BY <1>7, <1>9, LooserKeepsAnswers
              <3> QED BY <2>1, <3>1 DEF PromisesAreOnDisk
        <2>7. CASE g.scope = "homedir"
              <3>1. job' = [job EXCEPT !.step = "clean", !.file = "project", !.read = disk["project"]] /\ promised' = promised
                    BY <2>7 DEF RewriteFile
              <3>2. /\ job'.step = "clean" /\ job'.file = "project" /\ job'.read = disk["project"]
                    /\ job'.grant = g /\ job'.paths = job.paths
                    BY <1>3, <3>1 DEF FileJob
              <3>3. disk'["user"] = new /\ disk'["project"] = disk["project"]
                    BY <2>2, <2>4, <2>7
              <3>4. JobReaches'
                    BY <2>2, <2>3, <2>5, <2>7, <3>2, <3>3 DEF JobReaches
              <3>5. PromisesAreOnDisk'
                    BY <2>6, <3>1 DEF PromisesAreOnDisk
              <3> QED BY <3>4, <3>5
        <2>8. CASE g.scope = "workspace"
              <3>1. job' = NoJob /\ promised' = promised \cup {g}
                    BY <2>8 DEF RewriteFile
              <3>2. Settles(disk'["project"], g)
                    BY <2>2, <2>3, <2>4, <2>8
              <3>3. PromisesAreOnDisk'
                    BY <2>6, <2>8, <3>1, <3>2 DEF PromisesAreOnDisk
              <3> QED BY <3>1, <3>3 DEF JobReaches
        <2> QED BY <2>2, <2>7, <2>8
  <1> QED BY <1>2, <1>8, <1>9 DEF DiskParts

LEMMA CleanProjectFileKeepsDisks ==
  ASSUME DiskInv, CleanProjectFile
  PROVE  DiskParts'
PROOF
  <1> USE DEF DiskInv, AnswersInv
  <1>1. UNCHANGED <<access, template, consent, phase, todo, items, decisions, narrowed>>
        BY DEF CleanProjectFile, askVars
  <1>2. TodoIsShown' /\ TemplateIsBehind'
        BY <1>1, MemoryStaysAsItIs
  <1>3. /\ job \in FileJob /\ job # NoJob /\ job.step = "clean" /\ disk \in [{"user", "project"} -> Access]
        /\ job' = NoJob /\ promised' = promised \cup {job.grant}
        BY DEF CleanProjectFile, RoundInv, Typed, TypeOK
  <1>4. job.grant \in Grant /\ disk["project"] \in Access
        BY <1>3 DEF FileJob
  <1> DEFINE g == job.grant
             new == CleanAsk(disk["project"], job.paths)
  <1>5. ASSUME ~overlapped'
        PROVE  /\ ~overlapped
               /\ \/ disk' = disk /\ CleanAsk(job.read, job.paths) = job.read
                  \/ disk' = [disk EXCEPT !["project"] = new]
        BY <1>5 DEF CleanProjectFile
  <1>6. Looser(disk["project"], new)
        BY <1>4, CleanAskLoosens
  <1> HIDE DEF new
  <1>7. ASSUME ~overlapped'
        PROVE  \A f \in {"user", "project"} : Looser(disk[f], disk'[f])
        <2>1. CASE disk' = disk
              BY <2>1 DEF Looser, LooserRules
        <2>2. CASE disk' = [disk EXCEPT !["project"] = new]
              BY <1>3, <1>6, <2>2, ReplacingLoosens
        <2> QED BY <1>5, <1>7, <2>1, <2>2
  <1>8. ASSUME Trusted, ~overlapped' PROVE DisksAreKnown'
        BY <1>1, <1>5, <1>7, <1>8, LoosenedDisksAreKnown
  <1>9. ASSUME Trusted, ~overlapped', ~narrowed' PROVE JobReaches' /\ PromisesAreOnDisk'
        <2>1. JobReaches /\ PromisesAreOnDisk
              BY <1>1, <1>5, <1>9
        <2>2. /\ g.scope = "homedir" /\ Settles(disk["user"], g)
              /\ g.action = "allow" => AsksWithin(disk["project"], g.item, job.paths)
              /\ disk["project"].read.ask \subseteq job.read.read.ask
              /\ disk["project"].write.ask \subseteq job.read.write.ask
              BY <1>3, <2>1 DEF JobReaches
        <2>3. g.action = "allow" => NoAsk(disk'["project"], g.item)
              <3>1. CASE disk' = disk /\ CleanAsk(job.read, job.paths) = job.read
                    <4>1. job.read \in Access
                          BY <1>3 DEF FileJob
                    <4>2. job.read.read.ask = job.read.read.ask \ job.paths /\ job.read.write.ask = job.read.write.ask \ job.paths
                          <5>1. /\ CleanAsk(job.read, job.paths).read.ask = job.read.read.ask \ job.paths
                                /\ CleanAsk(job.read, job.paths).write.ask = job.read.write.ask \ job.paths
                                BY <4>1 DEF CleanAsk, Access, Rules
                          <5> QED BY <3>1, <5>1
                    <4>3. disk["project"].read.ask \cap job.paths = {} /\ disk["project"].write.ask \cap job.paths = {}
                          BY <2>2, <4>2
                    <4> QED BY <2>2, <3>1, <4>3 DEF NoAsk, AsksWithin
              <3>2. CASE disk' = [disk EXCEPT !["project"] = new]
                    <4>1. disk'["project"] = new
                          BY <1>3, <3>2
                    <4> QED BY <1>4, <2>2, <4>1, CleanAskStopsAsking DEF new
              <3> QED BY <1>5, <1>9, <3>1, <3>2
        <2>4. ASSUME NEW p
              PROVE  /\ Settles(disk["user"], p) => Settles(disk'["user"], p)
                     /\ Settles(disk["project"], p) => Settles(disk'["project"], p)
                     /\ NoAsk(disk["project"], p.item) => NoAsk(disk'["project"], p.item)
              BY <1>7, <1>9, LooserKeepsAnswers
        <2>5. PromisesAreOnDisk'
              BY <1>3, <2>1, <2>2, <2>3, <2>4 DEF PromisesAreOnDisk
        <2> QED BY <1>3, <2>5 DEF JobReaches
  <1> QED BY <1>2, <1>8, <1>9 DEF DiskParts

LEMMA OtherWritesKeepsDisks ==
  ASSUME DiskInv, OtherWrites
  PROVE  DiskParts'
PROOF
  <1> USE DEF DiskInv, AnswersInv
  <1>1. UNCHANGED <<access, template, consent, phase, todo, items, decisions, narrowed, job, promised>>
        BY DEF OtherWrites, askVars, grantVars, consentVars
  <1>2. TodoIsShown' /\ TemplateIsBehind'
        BY <1>1, MemoryStaysAsItIs
  <1>3. disk \in [{"user", "project"} -> Access]
        BY DEF RoundInv, Typed, TypeOK
  <1> DEFINE new == GrantOnDisk(disk["project"], OtherGrant.paths, OtherGrant.write, OtherGrant.action)
  <1>4. ASSUME ~overlapped'
        PROVE  ~overlapped /\ disk' = [disk EXCEPT !["project"] = new]
        BY <1>4 DEF OtherWrites
  <1>5. Looser(disk["project"], new)
        BY GrantOnDiskLoosens
  <1> HIDE DEF new
  <1>6. ASSUME ~overlapped'
        PROVE  \A f \in {"user", "project"} : Looser(disk[f], disk'[f])
        BY <1>3, <1>4, <1>5, <1>6, ReplacingLoosens
  <1>7. ASSUME Trusted, ~overlapped' PROVE DisksAreKnown'
        BY <1>1, <1>4, <1>6, <1>7, LoosenedDisksAreKnown
  <1>8. ASSUME Trusted, ~overlapped', ~narrowed' PROVE JobReaches' /\ PromisesAreOnDisk'
        <2>1. JobReaches /\ PromisesAreOnDisk
              BY <1>1, <1>4, <1>8
        <2>2. PromisesAreOnDisk'
              BY <1>1, <1>6, <1>8, <2>1, SettledStaySettled
        <2>3. ASSUME NEW g, NEW paths
              PROVE  /\ Settles(disk["user"], g) => Settles(disk'["user"], g)
                     /\ AsksWithin(disk["user"], g.item, paths) => AsksWithin(disk'["user"], g.item, paths)
                     /\ AsksWithin(disk["project"], g.item, paths) => AsksWithin(disk'["project"], g.item, paths)
              BY <1>6, <1>8, LooserKeepsAnswers
        <2>4. /\ disk'["project"].read.ask \subseteq disk["project"].read.ask
              /\ disk'["project"].write.ask \subseteq disk["project"].write.ask
              BY <1>6, <1>8 DEF Looser, LooserRules
        <2>5. JobReaches'
              BY <1>1, <2>1, <2>3, <2>4 DEF JobReaches
        <2> QED BY <2>2, <2>5
  <1> QED BY <1>2, <1>7, <1>8 DEF DiskParts

(* A new session starts from the template, and a new process from the       *)
(* files: what a session knew beyond them is gone, and so is consent.       *)
LEMMA NewSessionKeepsDisks ==
  ASSUME DiskInv, NewSession
  PROVE  DiskParts'
PROOF
  <1> USE DEF DiskInv
  <1>1. /\ access' = template /\ todo' = {} /\ job' = NoJob /\ phase' = "idle"
        /\ UNCHANGED <<template, disk, overlapped, consent, promised, narrowed>>
        BY DEF NewSession, FreshTurnState, otherVars, consentVars
  <1>2. TodoIsShown' /\ TemplateIsBehind'
        BY <1>1 DEF TodoIsShown, TemplateIsBehind, Known, KnownRules
  <1>3. ASSUME Trusted, ~overlapped' PROVE DisksAreKnown'
        BY <1>1, <1>3 DEF DisksAreKnown, Known, KnownRules
  <1>4. ASSUME Trusted, ~overlapped', ~narrowed' PROVE JobReaches' /\ PromisesAreOnDisk'
        BY <1>1, <1>4 DEF JobReaches, PromisesAreOnDisk, Settles, NoAsk
  <1> QED BY <1>2, <1>3, <1>4 DEF DiskParts

LEMMA LoadedDisksAreKnown ==
  ASSUME Trusted, template = Load(disk)
  PROVE  DisksAreKnown
PROOF
  <1>1. template = Concat(disk["user"], disk["project"])
        BY DEF Load
  <1> QED BY <1>1 DEF DisksAreKnown, Known, KnownRules, Concat, ConcatRules

LEMMA RestartKeepsDisks ==
  ASSUME DiskInv, Restart
  PROVE  DiskParts'
PROOF
  <1> USE DEF DiskInv
  <1>1. /\ template' = Load(disk) /\ access' = template' /\ todo' = {} /\ job' = NoJob /\ phase' = "idle"
        /\ UNCHANGED <<disk, overlapped, promised, narrowed>>
        BY DEF Restart, FreshTurnState, otherVars
  <1>2. TodoIsShown' /\ TemplateIsBehind'
        BY <1>1 DEF TodoIsShown, TemplateIsBehind, Known, KnownRules
  <1>3. ASSUME Trusted, ~overlapped' PROVE DisksAreKnown'
        <2>1. template' = Concat(disk'["user"], disk'["project"])
              BY <1>1, <1>3 DEF Load
        <2> QED BY <2>1 DEF DisksAreKnown, Known, KnownRules, Concat, ConcatRules
  <1>4. ASSUME Trusted, ~overlapped', ~narrowed' PROVE JobReaches' /\ PromisesAreOnDisk'
        BY <1>1, <1>4 DEF JobReaches, PromisesAreOnDisk, Settles, NoAsk
  <1> QED BY <1>2, <1>3, <1>4 DEF DiskParts

LEMMA DiskInvIsInductive == DiskInv /\ [Next]_vars => DiskInv'
PROOF
  <1> SUFFICES ASSUME DiskInv, [Next]_vars PROVE DiskParts'
      BY AnswersInvIsInductive DEF DiskInv, DiskParts
  <1>1. /\ RoundInv /\ (phase # "grants" => todo = {} /\ job = NoJob)
        BY DEF DiskInv, AnswersInv, RoundInv, Questions
  <1>2. ASSUME UNCHANGED <<access, template, disk, job, promised, overlapped, narrowed, consent>>,
               todo' = {} \/ UNCHANGED <<todo, items, decisions>>,
               phase' = "ask" => DOMAIN decisions' = {} \/ UNCHANGED <<phase, decisions>>
        PROVE  DiskParts'
        <2>1. TodoIsShown'
              BY <1>2, QuietStepsKeepTodo
        <2> QED BY <1>2, <2>1, QuietStepsKeepDisks DEF DiskParts
  <1>3. CASE StartTurn \/ FinishTurn \/ AbortBeforeCall \/ ReachLimit \/ \E yes \in BOOLEAN : AnswerLimit(yes)
        <2>1. /\ UNCHANGED <<access, template, disk, job, promised, overlapped, narrowed, consent, todo, items, decisions>>
              /\ phase' # "ask"
              BY <1>3 DEF StartTurn, FinishTurn, AbortBeforeCall, ReachLimit, AnswerLimit, Stop, tableVars, consentVars,
                 grantVars, askVars, otherVars
        <2> QED BY <1>2, <2>1
  <1>4. CASE Cancel \/ OtherReads \/ UNCHANGED vars \/ \E v \in {"ask", "auto", "deny"} : SetFramework(v)
        <2>1. UNCHANGED <<access, template, disk, job, promised, overlapped, narrowed, consent, todo, items, decisions,
                          phase>>
              BY <1>4 DEF Cancel, OtherReads, SetFramework, vars, tableVars, consentVars, grantVars, askVars, otherVars
        <2> QED BY <1>2, <2>1
  <1>5. CASE Retry \/ AnswerQuestions \/ \E yes \in BOOLEAN : AnswerEscalation(yes)
        <2>1. /\ UNCHANGED <<access, template, disk, job, promised, overlapped, narrowed, consent, todo, items, decisions>>
              /\ phase' # "ask"
              BY <1>5 DEF Retry, AnswerQuestions, AnswerEscalation, Answer, tableVars, consentVars, grantVars, askVars,
                 otherVars
        <2> QED BY <1>2, <2>1
  <1>6. CASE \E n \in 1..MaxCalls : \E calls \in [1..n -> Calls] : BeginRound(calls)
        <2>1. /\ UNCHANGED <<access, template, disk, job, promised, overlapped, narrowed, consent>>
              /\ todo' = {} /\ phase' # "ask"
              BY <1>1, <1>6 DEF BeginRound, tableVars, consentVars, grantVars, otherVars
        <2> QED BY <1>2, <2>1
  <1>7. CASE RunUnasked \/ AskUser
        <2>1. /\ StartCall /\ UNCHANGED <<access, template, todo, consent>>
              /\ phase' = "ask" => decisions' = <<>>
              BY <1>7 DEF RunUnasked, AskUser, Answer
        <2>2. UNCHANGED <<disk, job, promised, overlapped, narrowed>> /\ todo' = {}
              BY <1>1, <2>1, StartCallKeepsLimit DEF StartCall, otherVars
        <2> QED BY <1>2, <2>1, <2>2, NothingIsAsked
  <1>8. CASE AutoApprove
        <2>1. /\ StartCall /\ UNCHANGED <<access, template>> /\ items' = AskedItems /\ todo' = Asked
              /\ decisions' = [k \in Asked |-> AllowSession] /\ phase' = "grants"
              /\ consent' = consent \cup Shown({Call.items[k] : k \in Asked})
              BY <1>8 DEF AutoApprove
        <2>2. UNCHANGED <<disk, job, promised, overlapped, narrowed>> /\ phase \notin {"idle", "model"}
              BY <1>1, <2>1, StartCallKeepsLimit DEF StartCall, otherVars
        <2>3. /\ DOMAIN items' = Asked /\ \A k \in Asked : items'[k] = Call.items[k]
              /\ \A k \in DOMAIN items' : items'[k] \in PathItem \cup {Structural}
              BY <1>1, <2>1, <2>2, AskedIsTyped
        <2>4. {items'[k] : k \in todo'} = {Call.items[k] : k \in Asked}
              BY <2>1, <2>3
        <2>5. ~Refused'
              BY <2>1 DEF Refused, AllowSession
        <2>6. TodoIsShown'
              BY <1>1, <2>1, <2>3, <2>4, <2>5, ShownTodo
        <2> QED BY <2>1, <2>2, <2>6, QuietStepsKeepDisks DEF DiskParts
  <1>9. CASE \E d \in Decision : AnswerAsk(d)
        <2>1. TodoIsShown' /\ consent \subseteq consent'
              BY <1>9, AnswerAskKeepsTodo
        <2>2. UNCHANGED <<access, template, disk, job, promised, overlapped, narrowed>>
              BY <1>9 DEF AnswerAsk, tableVars, otherVars
        <2> QED BY <2>1, <2>2, QuietStepsKeepDisks DEF DiskParts
  <1>10. CASE ApplyGrant \/ RewriteFile \/ CleanProjectFile \/ OtherWrites
        BY <1>10, ApplyGrantKeepsDisks, RewriteFileKeepsDisks, CleanProjectFileKeepsDisks, OtherWritesKeepsDisks
  <1>11. CASE NewSession \/ Restart
        BY <1>11, NewSessionKeepsDisks, RestartKeepsDisks
  <1> QED BY <1>3, <1>4, <1>5, <1>6, <1>7, <1>8, <1>9, <1>10, <1>11 DEF Next, Work, User

(* grant.py: for any configuration files and any grants, of this session    *)
(* and of another, the next process does not ask again about a file whose   *)
(* grant is on disk, but for the exceptions GrantsSurviveRestart names.     *)
THEOREM GrantsOutliveTheProcess == Spec => []GrantsSurviveRestart
PROOF
  <1>1. Init => DiskInv
        <2> SUFFICES ASSUME Init PROVE DiskInv
            OBVIOUS
        <2>1. AnswersInv
              BY RoundInvHolds DEF AnswersInv, AnswersSuffice, Init
        <2>2. /\ access = template /\ template = Load(disk) /\ todo = {} /\ job = NoJob /\ phase = "idle"
              /\ promised = {}
              BY DEF Init
        <2>3. TodoIsShown /\ TemplateIsBehind
              BY <2>2 DEF TodoIsShown, TemplateIsBehind, Known, KnownRules
        <2>4. Trusted => DisksAreKnown
              BY <2>2, LoadedDisksAreKnown
        <2>5. JobReaches /\ PromisesAreOnDisk
              BY <2>2 DEF JobReaches, PromisesAreOnDisk
        <2> QED BY <2>1, <2>3, <2>4, <2>5 DEF DiskInv
  <1> QED BY <1>1, DiskInvIsInductive, DiskInvSuffices, PTL DEF Spec
=============================================================================
