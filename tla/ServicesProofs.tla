---------------------------- MODULE ServicesProofs ----------------------------
(***************************************************************************)
(* What holds of a root session's event sources and of its shells, for any  *)
(* sources and entries and any number of calls, resets and grants: their    *)
(* types; that no change is stranded by its timers; that the shell answers  *)
(* for its own command; and that a close which ran alone is complete.       *)
(***************************************************************************)
EXTENDS SessionServices, SequenceTheorems, FiniteSetTheorems, TLAPS

-----------------------------------------------------------------------------
(* The inductive invariant: the timers                                      *)

(* A walker tears a source down only after its closing event is set.        *)
TeardownsClose ==
  \A w \in Walker : teardown[w].step # "none" =>
    teardown[w].source \in Source /\ closing[teardown[w].source]

TimersInv == TimersTypeOK /\ NoChangeStranded /\ TeardownsClose

(* The timer of an entry will run again, or is about to.                    *)
Live(e) == chain[e] \in {"armed", "expired", "dispatching", "checked"}

(* Whether some teardown of the source has emptied its dict.                *)
Emptied(src) == \E w \in Walker : teardown[w].source = src /\ teardown[w].step = "returned"

(* The sources whose teardown is still to begin or under way, as long as no *)
(* two walkers meet.                                                        *)
Standing(src) ==
  \/ phase = "open" /\ src \in ToSet(entries)
  \/ /\ phase = "closing"
     /\ ~disturbed
     /\ src \in ToSet(walk["close"].todo) \/ teardown["close"].source = src

LiveIsListed ==
  \A e \in Entry : Live(e) /\ Standing(SchedulerOf[e]) /\ ~Emptied(SchedulerOf[e]) => e \in timers

-----------------------------------------------------------------------------
(* The inductive invariant: the walkers                                     *)

(* A walker that is in a teardown is in a call.                             *)
WalkInv ==
  /\ walk["close"].step # "none" <=> phase = "closing"
  /\ walk["reset"].step # "none" => resetter # None
  /\ \A w \in Walker : walk[w].step = "call" <=> teardown[w].step # "none"
  /\ \A w \in Walker : teardown[w].step = "none" => teardown[w].source = None
  /\ walk["reset"].step = "call" =>
       walk["reset"].todo # <<>> /\ Head(walk["reset"].todo) = teardown["reset"].source

(* No key has two entries.                                                  *)
EntriesAreUnique ==
  /\ IsInjective(entries)
  /\ IsInjective(walk["close"].todo)
  /\ teardown["close"].source \notin ToSet(walk["close"].todo)
  /\ ToSet(entries) \subseteq started \cup {"Bash"}
  /\ wakes > 0 => WakeUp \notin started

(* A source that was started is closed or has its entry.                    *)
StartedAreEntered ==
  /\ phase = "open" => \A src \in started : closing[src] \/ src \in ToSet(entries)
  /\ phase = "closing" /\ ~disturbed =>
       \A src \in started : closing[src] \/ src \in ToSet(walk["close"].todo)
  /\ phase = "closed" /\ ~disturbed => \A src \in started : closing[src]

(* A close that nothing has disturbed is alone, and finds what it counted.  *)
CloseIsAlone ==
  /\ phase \in {"closing", "closed"} /\ ~disturbed => call.step = "idle"
  /\ phase = "closing" /\ ~disturbed =>
       /\ walk["reset"].step = "none"
       /\ walk["close"].size = Len(entries)
       /\ teardown["close"].step # "raised"
       /\ teardown["close"].step = "cancel" /\ teardown["close"].source \in Scheduler =>
            Cardinality(Listed(teardown["close"].source)) = teardown["close"].size

CloseInv ==
  WalkInv /\ EntriesAreUnique /\ StartedAreEntered /\ CloseIsAlone /\ LiveIsListed
    /\ CloseFailsOnlyDisturbed

-----------------------------------------------------------------------------
(* The inductive invariant: the shells                                      *)

Up(s) == process[s] = "up"
Waiting == {"jobs", "export", "bootstrap", "command", "pwd"}

(* A call makes one shell at most, and has one but at its start.            *)
CallsAreCounted ==
  /\ made <= calls
  /\ call.step \in {"jobs", "export", "spawn"} => made < calls
  /\ call.step \notin {"idle", "spawn"} => call.shell # 0
  /\ run.step # "none" <=> call.step \in Waiting

(* What a shell is before it is made, and while it runs.                    *)
ShellsAreOrderly ==
  \A s \in Shell :
    /\ s > made => process[s] = "none" /\ ~alive[s] /\ script[s] = "none"
                     /\ queue[s] = [x \in Stream |-> <<>>]
    /\ Up(s) => alive[s]
    /\ script[s] # "none" => Up(s)
    /\ Up(s) /\ ~(call.shell = s /\ run.step = "loop") =>
         script[s] = "none" /\ queue[s] = [x \in Stream |-> <<>>]

(* Whether the script has printed its sentinel on a stream.                 *)
Printed(s, x) == IF x = "stdout" THEN script[s] # "running" ELSE script[s] = "none"

(* While the tool waits for a shell that runs, a sentinel is in the queue   *)
(* between being printed and being taken.                                   *)
LoopsAreInStep ==
  run.step = "loop" =>
    /\ run.eof => ~Up(call.shell)
    /\ "stdout" \notin run.open /\ ~run.eof => run.exit = "ok"
    /\ Up(call.shell) => \A x \in Stream :
         /\ queue[call.shell][x] =
              IF Printed(call.shell, x) /\ x \in run.open THEN <<"ok">> ELSE <<>>
         /\ ~Printed(call.shell, x) => x \in run.open

ShellInv == ShellTypeOK /\ CallsAreCounted /\ ShellsAreOrderly /\ LoopsAreInStep /\ AliveMeansAnswered

-----------------------------------------------------------------------------
(* The inductive invariant: the shells a session knows of                   *)

Entered == "Bash" \in ToSet(entries)

(* While the session is open and no reset walks over its entries, a shell   *)
(* that runs is the one a call has in hand, or the one that is stored and   *)
(* registered.                                                              *)
RunningIsKnown ==
  phase = "open" /\ ~crossed /\ walk["reset"].step = "none" =>
    /\ call.step # "idle" => call.state = state
    /\ \A s \in Shell : Up(s) =>
         /\ call.step \in {"idle", "jobs", "export", "refuse", "command", "pwd"} =>
              s = stored /\ s = registered /\ Entered /\ (call.step # "idle" => s = call.shell)
         /\ call.step = "register" => s = stored /\ s = call.shell
         /\ call.step = "spawn" => s = call.old
         /\ call.step = "bootstrap" => s \in {call.old, call.shell}

(* A walker comes to the shell that runs.                                   *)
ResetReaches ==
  phase = "open" /\ ~crossed /\ walk["reset"].step # "none" =>
    /\ call.step = "idle"
    /\ \A s \in Shell : Up(s) =>
         s = walk["reset"].kill /\ "Bash" \in ToSet(walk["reset"].todo)

CloseReaches ==
  /\ phase = "closing" /\ ~disturbed /\ ~crossed =>
       \A s \in Shell : Up(s) => s = registered /\ "Bash" \in ToSet(walk["close"].todo)
  /\ phase = "closed" /\ ~disturbed /\ ~crossed => \A s \in Shell : ~Up(s)

KnownInv == RunningIsKnown /\ ResetReaches /\ CloseReaches

ServicesInv == ServicesTypeOK /\ TimersInv /\ CloseInv /\ ShellInv /\ KnownInv

-----------------------------------------------------------------------------
(* Lists                                                                    *)

LEMMA Members ==
  ASSUME NEW S, NEW list \in Seq(S)
  PROVE  /\ DOMAIN list = 1..Len(list) /\ Len(list) \in Nat
         /\ ToSet(list) \subseteq S
         /\ \A x : x \in ToSet(list) <=> \E i \in 1..Len(list) : list[i] = x
<1>1. DOMAIN list = 1..Len(list) /\ Len(list) \in Nat /\ \A i \in 1..Len(list) : list[i] \in S
  OBVIOUS
<1> QED BY <1>1 DEF ToSet

LEMMA EmptyList == ToSet(<<>>) = {} /\ IsInjective(<<>>)
<1>1. DOMAIN <<>> = {}
  OBVIOUS
<1> QED BY <1>1 DEF ToSet, IsInjective

(* One more at the end.                                                     *)
LEMMA Appended ==
  ASSUME NEW S, NEW list \in Seq(S), NEW x \in S
  PROVE  /\ Append(list, x) \in Seq(S)
         /\ ToSet(Append(list, x)) = ToSet(list) \cup {x}
         /\ IsInjective(list) /\ x \notin ToSet(list) => IsInjective(Append(list, x))
<1> DEFINE more == Append(list, x)
<1>1. /\ more \in Seq(S) /\ Len(more) = Len(list) + 1 /\ more[Len(list) + 1] = x
      /\ \A i \in 1..Len(list) : more[i] = list[i]
  OBVIOUS
<1>2. Len(list) \in Nat /\ DOMAIN list = 1..Len(list) /\ DOMAIN more = 1..Len(list) + 1
  BY <1>1
<1> HIDE DEF more
<1>3. ToSet(more) = ToSet(list) \cup {x}
  BY <1>1, <1>2 DEF ToSet
<1>4. ASSUME IsInjective(list), x \notin ToSet(list) PROVE IsInjective(more)
  BY <1>1, <1>2, <1>4 DEF ToSet, IsInjective
<1> QED BY <1>1, <1>3, <1>4 DEF more

(* The first taken off.                                                     *)
LEMMA Headless ==
  ASSUME NEW S, NEW list \in Seq(S), list # <<>>
  PROVE  /\ Head(list) \in S /\ Tail(list) \in Seq(S)
         /\ ToSet(list) = ToSet(Tail(list)) \cup {Head(list)}
         /\ IsInjective(list) => IsInjective(Tail(list)) /\ Head(list) \notin ToSet(Tail(list))
<1> DEFINE rest == Tail(list)
<1>1. /\ Len(list) \in Nat /\ Len(list) >= 1 /\ Head(list) = list[1] /\ Head(list) \in S
      /\ rest \in Seq(S) /\ Len(rest) = Len(list) - 1
      /\ \A i \in 1..Len(list) - 1 : rest[i] = list[i + 1]
  OBVIOUS
<1>2. DOMAIN list = 1..Len(list) /\ DOMAIN rest = 1..Len(list) - 1
  BY <1>1
<1> HIDE DEF rest
<1>3. \A i \in 1..Len(list) : i = 1 \/ (i - 1 \in 1..Len(list) - 1 /\ rest[i - 1] = list[i])
  BY <1>1
<1>4. ToSet(list) = ToSet(rest) \cup {Head(list)}
  <2>1. ToSet(rest) \subseteq ToSet(list)
    <3>1. \A i \in 1..Len(list) - 1 : i + 1 \in 1..Len(list)
      BY <1>1
    <3> QED BY <1>1, <1>2, <3>1 DEF ToSet
  <2>2. ToSet(list) \subseteq ToSet(rest) \cup {list[1]}
    BY <1>2, <1>3 DEF ToSet
  <2>3. list[1] \in ToSet(list)
    BY <1>1, <1>2 DEF ToSet
  <2> QED BY <1>1, <2>1, <2>2, <2>3
<1>5. ASSUME IsInjective(list) PROVE IsInjective(rest) /\ Head(list) \notin ToSet(rest)
  <2>1. \A i \in 1..Len(list) - 1 : i + 1 \in 1..Len(list) /\ i + 1 # 1
    BY <1>1
  <2>2. \A i, j \in 1..Len(list) : list[i] = list[j] => i = j
    BY <1>2, <1>5 DEF IsInjective
  <2>3. \A i, j \in 1..Len(list) - 1 : rest[i] = rest[j] => i = j
    BY <1>1, <2>1, <2>2
  <2>4. \A i \in 1..Len(list) - 1 : rest[i] # list[1]
    BY <1>1, <2>1, <2>2
  <2> QED BY <1>1, <1>2, <2>3, <2>4 DEF IsInjective, ToSet
<1> QED BY <1>1, <1>4, <1>5 DEF rest

(* The one at place i taken out.                                            *)
LEMMA Removed ==
  ASSUME NEW S, NEW list \in Seq(S), NEW i \in 1..Len(list)
  PROVE  /\ RemoveAt(list, i) \in Seq(S)
         /\ Len(RemoveAt(list, i)) = Len(list) - 1
         /\ \A k \in 1..Len(list) - 1 : RemoveAt(list, i)[k] = IF k < i THEN list[k] ELSE list[k + 1]
<1> DEFINE a == SubSeq(list, 1, i - 1)
           b == SubSeq(list, i + 1, Len(list))
<1>0. Len(list) \in Nat /\ i \in Nat /\ i >= 1 /\ i <= Len(list)
  OBVIOUS
<1>1. a \in Seq(S) /\ Len(a) = i - 1 /\ \A k \in 1..i - 1 : a[k] = list[k]
  <2>1. CASE i = 1
    <3>1. a = <<>>
      BY <1>0, <2>1, SubSeqEmpty
    <3> QED BY <2>1, <3>1
  <2>2. CASE i > 1
    <3>1. i - 1 \in 1..Len(list) + 1 /\ i - 1 \in 0..Len(list) /\ 1 \in 1..Len(list) + 1
      BY <1>0, <2>2
    <3>2. \A k \in 1..(i - 1) - 1 + 1 : k \in 1..i - 1 /\ 1 + k - 1 = k
      BY <1>0
    <3>3. (i - 1) - 1 + 1 = i - 1
      BY <1>0
    <3> QED BY <1>0, <2>2, <3>1, <3>2, <3>3, SubSeqProperties
  <2> QED BY <1>0, <2>1, <2>2
<1>2. b \in Seq(S) /\ Len(b) = Len(list) - i /\ \A k \in 1..Len(list) - i : b[k] = list[i + k]
  <2>1. CASE i = Len(list)
    <3>1. b = <<>>
      BY <1>0, <2>1, SubSeqEmpty
    <3> QED BY <1>0, <2>1, <3>1
  <2>2. CASE i < Len(list)
    <3>2. Len(list) - (i + 1) + 1 = Len(list) - i
      BY <1>0
    <3>3. \A k \in 1..Len(list) - i : (i + 1) + k - 1 = i + k
      BY <1>0
    <3>4. \A k \in i + 1..Len(list) : list[k] \in S
      BY <1>0
    <3>5. /\ b \in Seq(S) /\ Len(b) = Len(list) - (i + 1) + 1
          /\ \A k \in 1..Len(list) - (i + 1) + 1 : b[k] = list[(i + 1) + k - 1]
      BY <1>0, <2>2, <3>4, SubSeqProperties
    <3> QED BY <3>2, <3>3, <3>5
  <2> QED BY <1>0, <2>1, <2>2
<1> HIDE DEF a, b
<1>3. RemoveAt(list, i) = a \o b
  BY DEF RemoveAt, a, b
<1>4. a \o b \in Seq(S) /\ Len(a \o b) = Len(list) - 1
  <2>1. a \in Seq(S) /\ b \in Seq(S)
    BY <1>1, <1>2
  <2>2. a \o b \in Seq(S) /\ Len(a \o b) = Len(a) + Len(b)
    BY <2>1
  <2> QED BY <1>0, <1>1, <1>2, <2>2
<1>5. ASSUME NEW k \in 1..Len(list) - 1
      PROVE  (a \o b)[k] = IF k < i THEN list[k] ELSE list[k + 1]
  <2>1. CASE k < i
    BY <1>0, <1>1, <1>2, <2>1
  <2>2. CASE ~(k < i)
    <3>1. k - Len(a) \in 1..Len(b) /\ i + (k - Len(a)) = k + 1
      BY <1>0, <1>1, <1>2, <2>2
    <3>2. (a \o b)[k] = b[k - Len(a)]
      BY <1>0, <1>1, <1>2, <2>2
    <3> QED BY <1>2, <2>2, <3>1, <3>2
  <2> QED BY <2>1, <2>2
<1> QED BY <1>3, <1>4, <1>5

LEMMA RemovedMember ==
  ASSUME NEW S, NEW list \in Seq(S), NEW i \in 1..Len(list)
  PROVE  /\ RemoveAt(list, i) \in Seq(S)
         /\ ToSet(list) = ToSet(RemoveAt(list, i)) \cup {list[i]}
         /\ IsInjective(list) => /\ IsInjective(RemoveAt(list, i))
                                 /\ list[i] \notin ToSet(RemoveAt(list, i))
<1> DEFINE left == RemoveAt(list, i)
<1>1. /\ left \in Seq(S) /\ Len(left) = Len(list) - 1
      /\ \A k \in 1..Len(list) - 1 : left[k] = IF k < i THEN list[k] ELSE list[k + 1]
  BY Removed
<1>2. /\ Len(list) \in Nat /\ DOMAIN list = 1..Len(list) /\ DOMAIN left = 1..Len(list) - 1
      /\ i \in Nat /\ 1 <= i /\ i <= Len(list)
  BY <1>1
<1> HIDE DEF left
<1>3. ASSUME NEW k \in 1..Len(list), k # i PROVE list[k] \in ToSet(left)
  <2>1. CASE k < i
    <3>1. k \in 1..Len(list) - 1 /\ left[k] = list[k]
      BY <1>1, <1>2, <2>1
    <3> QED BY <1>2, <3>1 DEF ToSet
  <2>2. CASE k > i
    <3>1. k - 1 \in 1..Len(list) - 1 /\ left[k - 1] = list[k]
      BY <1>1, <1>2, <2>2
    <3> QED BY <1>2, <3>1 DEF ToSet
  <2> QED BY <1>2, <1>3, <2>1, <2>2
<1>4. ASSUME NEW k \in 1..Len(list) - 1
      PROVE  \E n \in 1..Len(list) : n # i /\ n = (IF k < i THEN k ELSE k + 1) /\ left[k] = list[n]
  <2> DEFINE n == IF k < i THEN k ELSE k + 1
  <2>1. n \in 1..Len(list) /\ n # i
    BY <1>2
  <2>2. left[k] = list[n]
    BY <1>1
  <2> QED BY <2>1, <2>2
<1>5. ToSet(list) = ToSet(left) \cup {list[i]}
  <2>1. ToSet(left) \subseteq ToSet(list)
    BY <1>2, <1>4 DEF ToSet
  <2>2. ToSet(list) \subseteq ToSet(left) \cup {list[i]}
    BY <1>2, <1>3 DEF ToSet
  <2>3. list[i] \in ToSet(list)
    BY <1>2 DEF ToSet
  <2> QED BY <2>1, <2>2, <2>3
<1>6. ASSUME IsInjective(list) PROVE IsInjective(left) /\ list[i] \notin ToSet(left)
  <2>1. \A j, k \in 1..Len(list) : list[j] = list[k] => j = k
    BY <1>2, <1>6 DEF IsInjective
  <2>2. ASSUME NEW j \in 1..Len(list) - 1, NEW k \in 1..Len(list) - 1, left[j] = left[k] PROVE j = k
    <3>1. (IF j < i THEN j ELSE j + 1) = (IF k < i THEN k ELSE k + 1)
      BY <1>4, <2>1, <2>2
    <3> QED BY <1>2, <3>1
  <2>3. \A k \in 1..Len(list) - 1 : left[k] # list[i]
    BY <1>4, <2>1
  <2> QED BY <1>2, <2>2, <2>3 DEF IsInjective, ToSet
<1> QED BY <1>1, <1>5, <1>6 DEF left

(* A finite set, listed.                                                    *)
LEMMA Listing ==
  ASSUME NEW S, IsFiniteSet(S)
  PROVE  /\ SetToSeq(S) \in Seq(S)
         /\ ToSet(SetToSeq(S)) = S
         /\ IsInjective(SetToSeq(S))
<1> DEFINE n == Cardinality(S)
           f == SetToSeq(S)
<1>1. n \in Nat /\ ExistsBijection(1..n, S)
  BY FS_CardinalityType
<1>2. \E g \in [1..n -> S] : IsInjective(g)
  BY <1>1 DEF ExistsBijection, Bijection, Injection
<1>3. f \in [1..n -> S] /\ IsInjective(f)
  BY <1>2 DEF SetToSeq
<1> HIDE DEF f, n
<1>4. ToSet(f) \subseteq S /\ DOMAIN f = 1..n
  BY <1>3 DEF ToSet
<1>5. f \in [1..n -> ToSet(f)]
  BY <1>3, <1>4 DEF ToSet
<1>6. f \in Bijection(1..n, ToSet(f))
  BY <1>3, <1>4, <1>5 DEF ToSet, Bijection, Injection, Surjection
<1>7. ExistsBijection(1..n, ToSet(f))
  BY <1>6 DEF ExistsBijection
<1>8. IsFiniteSet(1..n) /\ Cardinality(1..n) = n
  BY <1>1, FS_Interval
<1>9. Cardinality(ToSet(f)) = n
  BY <1>7, <1>8, FS_Bijection
<1>10. ToSet(f) = S
  BY <1>4, <1>9, FS_Subset DEF n
<1>11. f \in Seq(S)
  BY <1>1, <1>3
<1> QED BY <1>3, <1>10, <1>11 DEF f

-----------------------------------------------------------------------------
(* The timers                                                               *)

LEMMA Constants ==
  /\ Walker = {"close", "reset"} /\ "close" \in Walker /\ "reset" \in Walker
  /\ WakeUp \in Scheduler /\ Watcher \notin Scheduler /\ Watcher \in Source /\ Scheduler \subseteq Source
  /\ None \notin Change /\ None \notin Source /\ "Bash" \notin Source /\ None # "Bash"
  /\ SchedulerOf \in [Entry -> Scheduler] /\ OneShot \subseteq Entry
  /\ IsFiniteSet(Entry) /\ IsFiniteSet(Source)
  /\ MaxFires \in Nat /\ MaxCalls \in Nat /\ MaxGrants \in Nat /\ MaxResets \in Nat
<1>1. IsFiniteSet(Scheduler \cup {Watcher})
  BY TimersAssumption, FS_AddElement
<1> QED BY <1>1, TimersAssumption, ShellAssumption, ServicesAssumption DEF Source

LEMMA ListedSize ==
  ASSUME timers \subseteq Entry, NEW sch
  PROVE  /\ Listed(sch) \subseteq Entry
         /\ IsFiniteSet(Listed(sch))
         /\ Cardinality(Listed(sch)) \in 0..Cardinality(Entry)
<1>1. Listed(sch) \subseteq Entry
  BY DEF Listed, EntriesOf
<1>2. IsFiniteSet(Listed(sch)) /\ Cardinality(Listed(sch)) <= Cardinality(Entry)
  BY <1>1, Constants, FS_Subset
<1>3. Cardinality(Listed(sch)) \in Nat /\ Cardinality(Entry) \in Nat
  BY <1>2, Constants, FS_CardinalityType
<1> QED BY <1>1, <1>2, <1>3

LEMMA NoTeardownTyped ==
  NoTeardown \in [source : Source \cup {None}, todo : SUBSET Entry,
                  step : {"none", "cancel", "stop", "returned", "raised"},
                  size : 0..Cardinality(Entry)]
<1>1. Cardinality(Entry) \in Nat
  BY Constants, FS_CardinalityType
<1> QED BY <1>1 DEF NoTeardown

LEMMA TimersFrame ==
  ASSUME TimersInv, UNCHANGED timerVars
  PROVE  TimersInv'
BY DEF TimersInv, TimersTypeOK, NoChangeStranded, TeardownsClose, timerVars, watcherVars, schedulerVars

LEMMA RecordKeepsTimers ==
  ASSUME TimersInv, NEW c \in Change, Record(c)
  PROVE  TimersInv'
<1>1. TimersTypeOK /\ TimersTypeOK'
  BY DEF TimersInv, TimersTypeOK, Record, Rearmed, Cancelled, schedulerVars
<1>2. debounce'[c] = "armed"
  BY <1>1 DEF TimersTypeOK, Record, Rearmed, Cancelled
<1>3. NoChangeStranded'
  BY <1>2 DEF NoChangeStranded
<1>4. TeardownsClose'
  BY DEF TimersInv, TeardownsClose, Record
<1> QED BY <1>1, <1>3, <1>4 DEF TimersInv

LEMMA TimerStepKeepsTimers ==
  ASSUME TimersInv, TimerStep
  PROVE  TimersInv'
<1>0. /\ TimersTypeOK /\ NoChangeStranded /\ TeardownsClose
  BY DEF TimersInv
<1>1. ASSUME NEW c \in Change, Expire(c) PROVE TimersInv'
  <2>1. TimersTypeOK'
    BY <1>0, <1>1 DEF TimersTypeOK, Expire, schedulerVars
  <2>2. NoChangeStranded'
    BY <1>0, <1>1 DEF TimersTypeOK, Expire, NoChangeStranded
  <2>3. TeardownsClose'
    BY <1>0, <1>1 DEF TeardownsClose, Expire
  <2> QED BY <2>1, <2>2, <2>3 DEF TimersInv
<1>2. ASSUME NEW c \in Change, Flush(c) PROVE TimersInv'
  <2>1. TimersTypeOK'
    BY <1>0, <1>2 DEF TimersTypeOK, Flush, schedulerVars
  <2>2. NoChangeStranded'
    BY <1>2 DEF Flush, NoChangeStranded
  <2>3. TeardownsClose'
    BY <1>0, <1>2 DEF TeardownsClose, Flush
  <2> QED BY <2>1, <2>2, <2>3 DEF TimersInv
<1>3. ASSUME NEW e \in Entry, Due(e) \/ Fire(e) \/ Rearm(e) PROVE TimersInv'
  <2>1. TimersTypeOK'
    BY <1>0, <1>3, Constants DEF TimersTypeOK, Due, Fire, Rearm, watcherVars
  <2>2. NoChangeStranded' /\ TeardownsClose'
    BY <1>0, <1>3 DEF NoChangeStranded, TeardownsClose, Due, Fire, Rearm, watcherVars
  <2> QED BY <2>1, <2>2 DEF TimersInv
<1> QED BY <1>1, <1>2, <1>3 DEF TimerStep

LEMMA DispatchedKeepsTimers ==
  ASSUME TimersInv, NEW th \in Dispatching, IF th \in Change THEN Flushed(th) ELSE Fired(th)
  PROVE  TimersInv'
<1>0. /\ TimersTypeOK /\ NoChangeStranded /\ TeardownsClose
  BY DEF TimersInv
<1>1. CASE th \in Change
  <2>1. TimersTypeOK'
    BY <1>0, <1>1 DEF TimersTypeOK, Flushed, schedulerVars
  <2>2. NoChangeStranded'
    BY <1>0, <1>1 DEF TimersTypeOK, Flushed, NoChangeStranded
  <2>3. TeardownsClose'
    BY <1>0, <1>1 DEF TeardownsClose, Flushed
  <2> QED BY <2>1, <2>2, <2>3 DEF TimersInv
<1>2. CASE th \notin Change
  <2>0. th \in Entry /\ Fired(th)
    BY <1>2 DEF Dispatching
  <2>1. TimersTypeOK'
    BY <1>0, <2>0 DEF TimersTypeOK, Fired, watcherVars
  <2>2. NoChangeStranded' /\ TeardownsClose'
    BY <1>0, <2>0 DEF NoChangeStranded, TeardownsClose, Fired, watcherVars
  <2> QED BY <2>1, <2>2 DEF TimersInv
<1> QED BY <1>1, <1>2

LEMMA StartedKeepsTimers ==
  ASSUME TimersInv, Started(WakeUp)
  PROVE  TimersInv'
<1>1. TimersTypeOK'
  BY DEF TimersInv, TimersTypeOK, Started, watcherVars, EntriesOf
<1>2. NoChangeStranded' /\ TeardownsClose'
  BY DEF TimersInv, NoChangeStranded, TeardownsClose, Started, watcherVars
<1> QED BY <1>1, <1>2 DEF TimersInv

LEMMA BeginTeardownKeepsTimers ==
  ASSUME TimersInv, NEW w \in Walker, NEW src \in Source, BeginTeardown(w, src)
  PROVE  TimersInv'
<1>0. /\ TimersTypeOK /\ NoChangeStranded /\ TeardownsClose
  BY DEF TimersInv
<1>1. \E down \in [source : Source \cup {None}, todo : SUBSET Entry,
                   step : {"none", "cancel", "stop", "returned", "raised"},
                   size : 0..Cardinality(Entry)] :
         down.source = src /\ teardown' = [teardown EXCEPT ![w] = down]
  <2>1. CASE src = Watcher
    <3>1. teardown' = [teardown EXCEPT ![w] = [NoTeardown EXCEPT !.source = src, !.step = "cancel"]]
      BY <2>1 DEF BeginTeardown
    <3> QED BY <3>1, NoTeardownTyped DEF NoTeardown
  <2>2. CASE src # Watcher
    <3>1. teardown' = [teardown EXCEPT ![w] =
                         [source |-> src, step |-> "cancel", todo |-> Listed(src),
                          size |-> Cardinality(Listed(src))]]
      BY <2>2 DEF BeginTeardown
    <3>2. Listed(src) \subseteq Entry /\ Cardinality(Listed(src)) \in 0..Cardinality(Entry)
      BY <1>0, ListedSize DEF TimersTypeOK
    <3> QED BY <3>1, <3>2
  <2> QED BY <2>1, <2>2
<1>2. TimersTypeOK'
  BY <1>0, <1>1 DEF TimersTypeOK, BeginTeardown, watcherVars, schedulerVars
<1>3. NoChangeStranded'
  BY <1>0, Constants DEF TimersTypeOK, NoChangeStranded, BeginTeardown, watcherVars
<1>4. TeardownsClose'
  BY <1>0, <1>1 DEF TimersTypeOK, TeardownsClose, BeginTeardown
<1> QED BY <1>2, <1>3, <1>4 DEF TimersInv

LEMMA TeardownStepKeepsTimers ==
  ASSUME TimersInv, NEW w \in Walker, TeardownStep(w)
  PROVE  TimersInv'
<1>0. /\ TimersTypeOK /\ NoChangeStranded /\ TeardownsClose
  BY DEF TimersInv
<1>1. CASE CancelCurrent(w)
  <2>1. TimersTypeOK'
    BY <1>0, <1>1 DEF TimersTypeOK, CancelCurrent, Cancelled, schedulerVars
  <2>2. closing'[Watcher]
    BY <1>0, <1>1 DEF TeardownsClose, CancelCurrent
  <2>3. TeardownsClose'
    BY <1>0, <1>1 DEF TimersTypeOK, TeardownsClose, CancelCurrent
  <2> QED BY <2>1, <2>2, <2>3 DEF TimersInv, NoChangeStranded
<1>2. CASE StopObserver(w)
  <2>1. TimersTypeOK'
    BY <1>0, <1>2 DEF TimersTypeOK, StopObserver, schedulerVars
  <2>2. NoChangeStranded'
    BY <1>0, <1>2 DEF StopObserver, NoChangeStranded
  <2>3. TeardownsClose'
    BY <1>0, <1>2 DEF TimersTypeOK, TeardownsClose, StopObserver
  <2> QED BY <2>1, <2>2, <2>3 DEF TimersInv
<1>3. CASE CancelNext(w)
  <2>0. teardown[w].step = "cancel" /\ UNCHANGED <<watcherVars, closing>>
    BY <1>3 DEF CancelNext
  <2>1. /\ timers' \subseteq Entry /\ fires' = fires
        /\ chain' \in [Entry -> {"none", "armed", "cancelled", "expired", "dispatching", "checked",
                                 "ended"}]
    BY <1>0, <1>3 DEF TimersTypeOK, CancelNext, schedulerVars
  <2>2. \E down \in [source : Source \cup {None}, todo : SUBSET Entry,
                     step : {"none", "cancel", "stop", "returned", "raised"},
                     size : 0..Cardinality(Entry)] :
          down.source = teardown[w].source /\ teardown' = [teardown EXCEPT ![w] = down]
    BY <1>0, <1>3 DEF TimersTypeOK, CancelNext
  <2>3. TimersTypeOK'
    BY <1>0, <2>0, <2>1, <2>2 DEF TimersTypeOK, watcherVars
  <2>4. NoChangeStranded'
    BY <1>0, <2>0 DEF NoChangeStranded, watcherVars
  <2>5. TeardownsClose'
    BY <1>0, <2>0, <2>2 DEF TimersTypeOK, TeardownsClose
  <2> QED BY <2>3, <2>4, <2>5 DEF TimersInv
<1> QED BY <1>1, <1>2, <1>3 DEF TeardownStep

LEMMA EndTeardownKeepsTimers ==
  ASSUME TimersInv, NEW w \in Walker, teardown' = [teardown EXCEPT ![w] = NoTeardown],
         UNCHANGED <<watcherVars, schedulerVars, closing>>
  PROVE  TimersInv'
<1>0. /\ TimersTypeOK /\ NoChangeStranded /\ TeardownsClose
  BY DEF TimersInv
<1>1. TimersTypeOK'
  BY <1>0, NoTeardownTyped DEF TimersTypeOK, watcherVars, schedulerVars
<1>2. NoChangeStranded'
  BY <1>0 DEF NoChangeStranded, watcherVars
<1>3. TeardownsClose'
  BY <1>0 DEF TimersTypeOK, TeardownsClose, NoTeardown
<1> QED BY <1>1, <1>2, <1>3 DEF TimersInv

-----------------------------------------------------------------------------
(* The shells                                                               *)

Queues == [Stream -> Seq({"ok", "eof"})]
Quiet == [x \in Stream |-> <<>>]

LEMMA ShellFrame ==
  ASSUME ShellInv, UNCHANGED <<processVars, countVars, alive, call, run>>, stored' \in 0..MaxCalls,
         state' \in Nat
  PROVE  ShellInv'
<1>1. ShellTypeOK'
  BY DEF ShellInv, ShellTypeOK, processVars, countVars
<1>2. CallsAreCounted' /\ ShellsAreOrderly' /\ AliveMeansAnswered'
  BY DEF ShellInv, CallsAreCounted, ShellsAreOrderly, AliveMeansAnswered, processVars, countVars, Up
<1>3. LoopsAreInStep'
  BY DEF ShellInv, LoopsAreInStep, processVars, countVars, Up, Printed
<1> QED BY <1>1, <1>2, <1>3 DEF ShellInv

LEMMA EofTyped ==
  ASSUME ShellTypeOK, NEW s \in Shell
  PROVE  WithEof(s) \in Queues
<1>1. \A x \in Stream : queue[s][x] \in Seq({"ok", "eof"})
  BY DEF ShellTypeOK
<1>2. \A x \in Stream : Append(queue[s][x], "eof") \in Seq({"ok", "eof"})
  BY <1>1
<1> QED BY <1>2 DEF WithEof, Queues

(* A kill leaves the other shells alone and its own dead.                   *)
LEMMA Killed ==
  ASSUME ShellTypeOK, ShellsAreOrderly, NEW s \in 0..MaxCalls, Kill(s)
  PROVE  /\ process' \in [Shell -> {"none", "up", "gone"}]
         /\ jobs' \in [Shell -> BOOLEAN]
         /\ script' \in [Shell -> {"none", "running", "half"}]
         /\ queue' \in [Shell -> Queues]
         /\ alive' \in [Shell -> BOOLEAN]
         /\ \A r \in Shell : process'[r] = "up" =>
              /\ r # s /\ Up(r)
              /\ script'[r] = script[r] /\ queue'[r] = queue[r] /\ alive'[r] = alive[r]
         /\ \A r \in Shell : alive'[r] => alive[r] /\ r # s
         /\ \A r \in Shell : script'[r] # "none" => process'[r] = "up"
         /\ \A r \in Shell : r > made => process'[r] = process[r] /\ script'[r] = script[r]
                                           /\ queue'[r] = queue[r] /\ alive'[r] = alive[r]
<1>0. /\ process \in [Shell -> {"none", "up", "gone"}] /\ jobs \in [Shell -> BOOLEAN]
      /\ script \in [Shell -> {"none", "running", "half"}] /\ queue \in [Shell -> Queues]
      /\ alive \in [Shell -> BOOLEAN]
  BY DEF ShellTypeOK, Queues
<1>1. /\ \A r \in Shell : r > made => ~alive[r]
      /\ \A r \in Shell : Up(r) => alive[r]
      /\ \A r \in Shell : script[r] # "none" => Up(r)
  BY DEF ShellsAreOrderly
<1>2. CASE s # 0 /\ alive[s]
  <2>1. s \in Shell
    BY <1>2, Constants DEF Shell
  <2>2. WithEof(s) \in Queues
    BY <2>1, EofTyped
  <2> DEFINE q == IF Ended(s) THEN queue[s] ELSE WithEof(s)
  <2>3. /\ process' = [process EXCEPT ![s] = "gone"] /\ jobs' = [jobs EXCEPT ![s] = FALSE]
        /\ script' = [script EXCEPT ![s] = "none"] /\ alive' = [alive EXCEPT ![s] = FALSE]
        /\ queue' = [queue EXCEPT ![s] = q]
    BY <1>2 DEF Kill
  <2>4. q \in Queues
    BY <1>0, <2>1, <2>2
  <2> HIDE DEF q
  <2> QED BY <1>0, <1>1, <1>2, <2>1, <2>3, <2>4 DEF Up
<1>3. CASE ~(s # 0 /\ alive[s])
  <2>1. UNCHANGED <<processVars, alive>>
    BY <1>3 DEF Kill
  <2>2. \A r \in Shell : alive[r] => r # s
    BY <1>3, Constants DEF Shell
  <2> QED BY <1>0, <1>1, <2>1, <2>2 DEF Up, processVars
<1> QED BY <1>2, <1>3

(* A kill by a walker, under whatever call.                                 *)
LEMMA KillKeepsShells ==
  ASSUME ShellInv, NEW s \in 0..MaxCalls, Kill(s), UNCHANGED <<countVars, call, run>>,
         stored' \in 0..MaxCalls, state' \in Nat
  PROVE  ShellInv'
<1>0. ShellTypeOK /\ ShellsAreOrderly /\ CallsAreCounted /\ LoopsAreInStep /\ AliveMeansAnswered
  BY DEF ShellInv
<1>1. ShellTypeOK'
  BY <1>0, Killed DEF ShellTypeOK, countVars, Queues
<1>2. CallsAreCounted'
  BY <1>0 DEF CallsAreCounted, countVars
<1>3. ShellsAreOrderly'
  BY <1>0, Killed DEF ShellsAreOrderly, countVars, Up
<1>4. call.shell \in Shell \/ run.step = "none"
  BY <1>0, Constants DEF CallsAreCounted, ShellTypeOK, Shell, Waiting
<1>5. LoopsAreInStep'
  BY <1>0, <1>4, Killed DEF LoopsAreInStep, Up, Printed
<1>6. AliveMeansAnswered'
  BY <1>0, <1>4, Killed DEF AliveMeansAnswered
<1> QED BY <1>1, <1>2, <1>3, <1>5, <1>6 DEF ShellInv

(* The shell the tool waits for is the only one with a script or output.    *)
LEMMA Working ==
  ASSUME ShellInv, NEW s \in Shell, script[s] # "none"
  PROVE  Up(s) /\ call.shell = s /\ run.step = "loop" /\ ~run.eof
BY DEF ShellInv, ShellsAreOrderly, LoopsAreInStep

LEMMA PrintKeepsShells ==
  ASSUME ShellInv, NEW s \in Shell, NEW x \in Stream, ~Printed(s, x), script[s] # "none",
         NEW next \in {"half", "none"}, x = "stdout" => script[s] = "running" /\ next = "half",
         x = "stderr" => script[s] = "half" /\ next = "none",
         script' = [script EXCEPT ![s] = next],
         queue' = [queue EXCEPT ![s][x] = Append(@, "ok")],
         jobs' \in [Shell -> BOOLEAN],
         UNCHANGED <<process, countVars, alive, stored, state, call, run>>
  PROVE  ShellInv'
<1>0. ShellTypeOK /\ ShellsAreOrderly /\ CallsAreCounted /\ LoopsAreInStep /\ AliveMeansAnswered
  BY DEF ShellInv
<1>1. Up(s) /\ call.shell = s /\ run.step = "loop" /\ ~run.eof
  BY Working
<1>2. queue \in [Shell -> Queues] /\ script \in [Shell -> {"none", "running", "half"}]
  BY <1>0 DEF ShellTypeOK, Queues
<1>3. /\ x \in run.open
      /\ queue[s][x] = <<>>
      /\ \A y \in Stream : queue[s][y] = IF Printed(s, y) /\ y \in run.open THEN <<"ok">> ELSE <<>>
      /\ \A y \in Stream : ~Printed(s, y) => y \in run.open
  BY <1>0, <1>1 DEF LoopsAreInStep
<1>4. Append(queue[s][x], "ok") = <<"ok">>
  BY <1>3
<1>5. /\ queue' \in [Shell -> Queues]
      /\ queue'[s][x] = <<"ok">> /\ \A y \in Stream \ {x} : queue'[s][y] = queue[s][y]
      /\ \A r \in Shell \ {s} : queue'[r] = queue[r]
  BY <1>2, <1>4 DEF Queues
<1>6. script' \in [Shell -> {"none", "running", "half"}] /\ script'[s] = next
      /\ \A r \in Shell \ {s} : script'[r] = script[r]
  BY <1>2
<1>7. ShellTypeOK'
  BY <1>0, <1>5, <1>6 DEF ShellTypeOK, countVars, Queues
<1>8. CallsAreCounted' /\ AliveMeansAnswered'
  BY <1>0 DEF CallsAreCounted, AliveMeansAnswered, countVars
<1>9. ShellsAreOrderly'
  <2> SUFFICES ASSUME NEW r \in Shell
               PROVE  /\ r > made => process[r] = "none" /\ ~alive[r] /\ script'[r] = "none"
                                       /\ queue'[r] = [y \in Stream |-> <<>>]
                      /\ Up(r) => alive[r]
                      /\ script'[r] # "none" => Up(r)
                      /\ Up(r) /\ ~(call.shell = r /\ run.step = "loop") =>
                           script'[r] = "none" /\ queue'[r] = [y \in Stream |-> <<>>]
    BY DEF ShellsAreOrderly, countVars, Up
  <2>1. CASE r = s
    BY <1>0, <1>1, <2>1 DEF ShellsAreOrderly, Up
  <2>2. CASE r # s
    BY <1>0, <1>5, <1>6, <2>2 DEF ShellsAreOrderly
  <2> QED BY <2>1, <2>2
<1>10. LoopsAreInStep'
  <2>1. \A y \in Stream : Printed(s, y)' <=> y = x \/ Printed(s, y)
    BY <1>6 DEF Printed, Stream
  <2>2. \A y \in Stream : queue'[s][y] = IF Printed(s, y)' /\ y \in run.open THEN <<"ok">> ELSE <<>>
    BY <1>3, <1>5, <2>1
  <2> QED BY <1>0, <1>1, <1>3, <2>1, <2>2 DEF LoopsAreInStep, Up
<1> QED BY <1>7, <1>8, <1>9, <1>10 DEF ShellInv

LEMMA ProcessStepKeepsShells ==
  ASSUME ShellInv, NEW s \in Shell, ProcessStep(s)
  PROVE  ShellInv'
<1>0. ShellTypeOK /\ ShellsAreOrderly /\ CallsAreCounted /\ LoopsAreInStep /\ AliveMeansAnswered
  BY DEF ShellInv
<1>u. UNCHANGED <<countVars, alive, stored, state, call, run>>
  BY DEF ProcessStep
<1>t. /\ process \in [Shell -> {"none", "up", "gone"}] /\ jobs \in [Shell -> BOOLEAN]
      /\ script \in [Shell -> {"none", "running", "half"}] /\ queue \in [Shell -> Queues]
  BY <1>0 DEF ShellTypeOK, Queues
<1>1. CASE FinishStdout(s)
  <2>1. ~Printed(s, "stdout") /\ "stdout" \in Stream
    BY <1>1 DEF FinishStdout, Printed, Stream
  <2>2. jobs' \in [Shell -> BOOLEAN]
    BY <1>1, <1>t DEF FinishStdout
  <2>3. /\ script[s] = "running" /\ script' = [script EXCEPT ![s] = "half"] /\ process' = process
        /\ queue' = [queue EXCEPT ![s]["stdout"] = Append(@, "ok")]
    BY <1>1 DEF FinishStdout
  <2> QED BY <1>u, <2>1, <2>2, <2>3, PrintKeepsShells
<1>2. CASE FinishStderr(s)
  <2>1. ~Printed(s, "stderr") /\ "stderr" \in Stream
    BY <1>2 DEF FinishStderr, Printed, Stream
  <2>2. jobs' \in [Shell -> BOOLEAN]
    BY <1>2, <1>t DEF FinishStderr
  <2>3. /\ script[s] = "half" /\ script' = [script EXCEPT ![s] = "none"] /\ process' = process
        /\ queue' = [queue EXCEPT ![s]["stderr"] = Append(@, "ok")]
    BY <1>2 DEF FinishStderr
  <2> QED BY <1>u, <2>1, <2>2, <2>3, PrintKeepsShells
<1>3. ASSUME Exit(s) \/ JobEnds(s) PROVE ShellInv'
  <2>1. PICK q \in Queues :
          /\ queue' = [queue EXCEPT ![s] = q]
          /\ q # queue[s] => process'[s] = "gone"
    <3>1. WithEof(s) \in Queues /\ queue[s] \in Queues /\ queue = [queue EXCEPT ![s] = queue[s]]
      BY <1>0, <1>t, EofTyped
    <3>2. CASE Exit(s)
      BY <1>t, <3>1, <3>2 DEF Exit
    <3>3. CASE JobEnds(s)
      BY <1>t, <3>1, <3>3 DEF JobEnds
    <3> QED BY <1>3, <3>2, <3>3
  <2>2. /\ process' \in [Shell -> {"none", "up", "gone"}] /\ jobs' \in [Shell -> BOOLEAN]
        /\ script' \in [Shell -> {"none", "running", "half"}]
        /\ \A r \in Shell : r # s => process'[r] = process[r] /\ script'[r] = script[r]
        /\ \/ process'[s] = process[s] /\ script'[s] = script[s]
           \/ Up(s) /\ process'[s] = "gone" /\ script'[s] = "none"
    <3>1. CASE Exit(s)
      <4>1. /\ process' = [process EXCEPT ![s] = "gone"] /\ script' = [script EXCEPT ![s] = "none"]
            /\ jobs' = jobs /\ process[s] = "up"
        BY <3>1 DEF Exit
      <4> QED BY <1>t, <4>1 DEF Up
    <3>2. CASE JobEnds(s)
      <4>1. process' = process /\ script' = script /\ jobs' = [jobs EXCEPT ![s] = FALSE]
        BY <3>2 DEF JobEnds
      <4> QED BY <1>t, <4>1
    <3> QED BY <1>3, <3>1, <3>2
  <2>3. /\ queue' \in [Shell -> Queues]
        /\ \A r \in Shell : queue'[r] = queue[r] \/ (r = s /\ process'[s] = "gone")
    BY <1>t, <2>1
  <2>4. ShellTypeOK'
    BY <1>0, <1>u, <2>2, <2>3 DEF ShellTypeOK, countVars, Queues
  <2>5. CallsAreCounted' /\ AliveMeansAnswered'
    BY <1>0, <1>u DEF CallsAreCounted, AliveMeansAnswered, countVars
  <2>6. \A r \in Shell : process'[r] = "up" =>
          Up(r) /\ script'[r] = script[r] /\ queue'[r] = queue[r]
    BY <2>2, <2>3 DEF Up
  <2>7. \A r \in Shell : r > made => process'[r] = process[r] /\ script'[r] = script[r]
                                       /\ queue'[r] = queue[r]
    <3> SUFFICES ASSUME NEW r \in Shell, r > made
                 PROVE  process'[r] = process[r] /\ script'[r] = script[r] /\ queue'[r] = queue[r]
      OBVIOUS
    <3>1. process[r] = "none" /\ ~Up(r)
      BY <1>0 DEF ShellsAreOrderly, Up
    <3>2. process'[r] = process[r] /\ script'[r] = script[r]
      BY <2>2, <3>1
    <3> QED BY <2>3, <3>1, <3>2
  <2>8. ShellsAreOrderly'
    BY <1>0, <1>u, <2>2, <2>6, <2>7 DEF ShellsAreOrderly, countVars, Up
  <2>9. call.shell \in Shell \/ run.step = "none"
    BY <1>0, Constants DEF CallsAreCounted, ShellTypeOK, Shell, Waiting
  <2>10. LoopsAreInStep'
    BY <1>0, <1>u, <2>6, <2>9 DEF LoopsAreInStep, Up, Printed
  <2> QED BY <2>4, <2>5, <2>8, <2>10 DEF ShellInv
<1> QED BY <1>1, <1>2, <1>3 DEF ProcessStep

-----------------------------------------------------------------------------
(* The waits for a shell                                                    *)

Runs == [step : {"none", "loop", "over"}, open : SUBSET Stream, exit : {"none", "ok"},
         eof : BOOLEAN, reason : {"none", "timeout", "cancel"}]

LEMMA RunRecords ==
  /\ NoRun \in Runs /\ NoRun.step = "none"
  /\ Looping \in Runs /\ Looping.step = "loop" /\ Looping.open = Stream /\ ~Looping.eof
  /\ Looping.exit = "none"
  /\ Over \in Runs /\ Over.step = "over"
BY DEF Runs, NoRun, Looping, Over

(* A script starts in a shell that has none and whose output is read.       *)
LEMMA StartedRun ==
  ASSUME ShellInv, NEW s \in Shell, run.step # "loop",
         call' \in [step : {"jobs", "export", "command", "pwd"}, shell : {s}, old : 0..MaxCalls,
                    state : Nat],
         call'.step \in {"jobs", "export"} => made < calls',
         made' = made, made <= calls', calls' \in 0..MaxCalls, UNCHANGED <<snapshot, grants>>,
         stored' \in 0..MaxCalls, UNCHANGED <<process, jobs, queue, state>>,
         IF alive[s] /\ process[s] = "up"
           THEN run' = Looping /\ script' = [script EXCEPT ![s] = "running"] /\ UNCHANGED alive
           ELSE run' = Over /\ alive' = [alive EXCEPT ![s] = FALSE] /\ UNCHANGED script
  PROVE  ShellInv'
<1>0. ShellTypeOK /\ ShellsAreOrderly /\ CallsAreCounted /\ LoopsAreInStep /\ AliveMeansAnswered
  BY DEF ShellInv
<1>t. /\ process \in [Shell -> {"none", "up", "gone"}] /\ alive \in [Shell -> BOOLEAN]
      /\ script \in [Shell -> {"none", "running", "half"}] /\ queue \in [Shell -> Queues]
      /\ call'.shell = s /\ call'.step \in {"jobs", "export", "command", "pwd"} /\ s # 0
  BY <1>0, Constants DEF ShellTypeOK, Queues, Shell
<1>r. /\ Looping \in Runs /\ Looping.step = "loop" /\ Looping.open = Stream /\ ~Looping.eof
      /\ Looping.exit = "none" /\ Over \in Runs /\ Over.step = "over"
  BY RunRecords
<1>c. call' \in [step : {"idle", "jobs", "export", "spawn", "bootstrap", "register", "refuse",
                       "command", "pwd"},
                shell : 0..MaxCalls, old : 0..MaxCalls, state : Nat]
  BY Constants DEF Shell
<1>o. /\ \A r \in Shell : r > made => process[r] = "none" /\ ~alive[r] /\ script[r] = "none"
                                        /\ queue[r] = [x \in Stream |-> <<>>]
      /\ \A r \in Shell : Up(r) => alive[r] /\ script[r] = "none" /\ queue[r] = [x \in Stream |-> <<>>]
      /\ \A r \in Shell : script[r] # "none" => Up(r)
  BY <1>0 DEF ShellsAreOrderly
<1>1. CASE Up(s)
  <2>1. alive[s] /\ alive' = alive /\ script' = [script EXCEPT ![s] = "running"] /\ run' = Looping
    BY <1>1, <1>o DEF Up
  <2>2. ShellTypeOK'
    <3>1. run' \in Runs /\ alive' \in [Shell -> BOOLEAN]
          /\ script' \in [Shell -> {"none", "running", "half"}]
      BY <1>r, <1>t, <2>1
    <3> QED BY <1>0, <1>c, <3>1 DEF ShellTypeOK, Runs
  <2>3. CallsAreCounted'
    BY <1>0, <1>r, <1>t, <2>1 DEF CallsAreCounted, Waiting
  <2>4. ShellsAreOrderly'
    BY <1>1, <1>o, <1>r, <1>t, <2>1 DEF ShellsAreOrderly, Up
  <2>5. LoopsAreInStep'
    BY <1>1, <1>o, <1>r, <1>t, <2>1 DEF LoopsAreInStep, Up, Printed, Stream
  <2>6. AliveMeansAnswered'
    BY <1>r, <2>1 DEF AliveMeansAnswered
  <2> QED BY <2>2, <2>3, <2>4, <2>5, <2>6 DEF ShellInv
<1>2. CASE ~Up(s)
  <2>1. alive' = [alive EXCEPT ![s] = FALSE] /\ script' = script /\ run' = Over
    BY <1>2 DEF Up
  <2>2. ShellTypeOK'
    <3>1. run' \in Runs /\ alive' \in [Shell -> BOOLEAN]
          /\ script' \in [Shell -> {"none", "running", "half"}]
      BY <1>r, <1>t, <2>1
    <3> QED BY <1>0, <1>c, <3>1 DEF ShellTypeOK, Runs
  <2>3. CallsAreCounted'
    BY <1>0, <1>r, <1>t, <2>1 DEF CallsAreCounted, Waiting
  <2>4. ShellsAreOrderly'
    BY <1>2, <1>o, <1>r, <1>t, <2>1 DEF ShellsAreOrderly, Up
  <2>5. LoopsAreInStep'
    BY <1>r, <2>1 DEF LoopsAreInStep
  <2>6. AliveMeansAnswered'
    BY <1>t, <2>1 DEF AliveMeansAnswered
  <2> QED BY <2>2, <2>3, <2>4, <2>5, <2>6 DEF ShellInv
<1> QED BY <1>1, <1>2

LEMMA TakeKeepsShells ==
  ASSUME ShellInv, NEW x \in Stream, Take(x)
  PROVE  ShellInv'
<1>0. ShellTypeOK /\ ShellsAreOrderly /\ CallsAreCounted /\ LoopsAreInStep /\ AliveMeansAnswered
  BY DEF ShellInv
<1> DEFINE s == call.shell
           item == Head(queue[s][x])
<1>1. s \in Shell /\ run.step = "loop" /\ run.open # {}
  BY <1>0, Constants DEF Take, CallsAreCounted, ShellTypeOK, Shell, Waiting
<1>2. /\ queue' = [queue EXCEPT ![s][x] = Tail(@)]
      /\ run' = [run EXCEPT !.open = @ \ {x}, !.exit = StatusOf(x, item), !.eof = @ \/ item = "eof"]
      /\ queue[s][x] # <<>>
      /\ UNCHANGED <<process, jobs, script, countVars, alive, stored, state, call>>
  BY DEF Take
<1>3. /\ queue \in [Shell -> Queues] /\ queue[s][x] \in Seq({"ok", "eof"})
      /\ run \in [step : {"none", "loop", "over"}, open : SUBSET Stream, exit : {"none", "ok"},
                  eof : BOOLEAN, reason : {"none", "timeout", "cancel"}]
  BY <1>0, <1>1 DEF ShellTypeOK, Queues
<1>4. item \in {"ok", "eof"} /\ Tail(queue[s][x]) \in Seq({"ok", "eof"})
  BY <1>2, <1>3
<1> HIDE DEF item
<1>5. /\ queue' \in [Shell -> Queues] /\ queue'[s][x] = Tail(queue[s][x])
      /\ \A y \in Stream \ {x} : queue'[s][y] = queue[s][y]
      /\ \A r \in Shell \ {s} : queue'[r] = queue[r]
  BY <1>1, <1>2, <1>3, <1>4 DEF Queues
<1>6. /\ StatusOf(x, item) \in {"none", "ok"}
      /\ x = "stdout" /\ item # "eof" => StatusOf(x, item) = "ok"
      /\ x # "stdout" => StatusOf(x, item) = run.exit
  BY <1>3, <1>4 DEF StatusOf
<1>7. /\ run'.step = "loop" /\ run'.open = run.open \ {x} /\ run'.exit = StatusOf(x, item)
      /\ run'.eof = (run.eof \/ item = "eof") /\ run'.reason = run.reason
      /\ run' \in [step : {"none", "loop", "over"}, open : SUBSET Stream, exit : {"none", "ok"},
                  eof : BOOLEAN, reason : {"none", "timeout", "cancel"}]
  BY <1>1, <1>2, <1>3, <1>4, <1>6
<1>8. ShellTypeOK'
  BY <1>0, <1>2, <1>5, <1>7 DEF ShellTypeOK, countVars, Queues
<1>9. CallsAreCounted' /\ AliveMeansAnswered'
  BY <1>0, <1>1, <1>2, <1>7 DEF CallsAreCounted, AliveMeansAnswered, countVars
<1>10. ASSUME Up(s)
       PROVE  item = "ok" /\ Tail(queue[s][x]) = <<>> /\ x \in run.open /\ Printed(s, x)
  <2>1. queue[s][x] = IF Printed(s, x) /\ x \in run.open THEN <<"ok">> ELSE <<>>
    BY <1>0, <1>1, <1>10 DEF LoopsAreInStep
  <2>2. Printed(s, x) /\ x \in run.open /\ queue[s][x] = <<"ok">>
    BY <1>2, <2>1
  <2>3. Head(<<"ok">>) = "ok" /\ Tail(<<"ok">>) = <<>>
    OBVIOUS
  <2> QED BY <2>2, <2>3 DEF item
<1>11. ShellsAreOrderly'
  <2> SUFFICES ASSUME NEW r \in Shell
               PROVE  /\ r > made => process[r] = "none" /\ ~alive[r] /\ script[r] = "none"
                                       /\ queue'[r] = [y \in Stream |-> <<>>]
                      /\ Up(r) => alive[r]
                      /\ script[r] # "none" => Up(r)
                      /\ Up(r) /\ ~(call.shell = r /\ run'.step = "loop") =>
                           script[r] = "none" /\ queue'[r] = [y \in Stream |-> <<>>]
    BY <1>2 DEF ShellsAreOrderly, countVars, Up
  <2>1. CASE r = s
    <3>1. r > made => queue[s][x] = <<>>
      BY <1>0, <2>1 DEF ShellsAreOrderly
    <3> QED BY <1>0, <1>1, <1>2, <1>7, <2>1, <3>1 DEF ShellsAreOrderly
  <2>2. CASE r # s
    BY <1>0, <1>1, <1>5, <1>7, <2>2 DEF ShellsAreOrderly
  <2> QED BY <2>1, <2>2
<1>12. LoopsAreInStep'
  <2>1. run'.eof => ~Up(s)
    BY <1>0, <1>1, <1>7, <1>10 DEF LoopsAreInStep
  <2>2. "stdout" \notin run'.open /\ ~run'.eof => run'.exit = "ok"
    BY <1>0, <1>1, <1>6, <1>7 DEF LoopsAreInStep
  <2>3. ASSUME Up(s), NEW y \in Stream
        PROVE  /\ queue'[s][y] = IF Printed(s, y) /\ y \in run'.open THEN <<"ok">> ELSE <<>>
               /\ ~Printed(s, y) => y \in run'.open
    <3>1. /\ queue[s][y] = IF Printed(s, y) /\ y \in run.open THEN <<"ok">> ELSE <<>>
          /\ ~Printed(s, y) => y \in run.open
      BY <1>0, <1>1, <2>3 DEF LoopsAreInStep
    <3> QED BY <1>5, <1>7, <1>10, <2>3, <3>1
  <2> QED BY <1>2, <1>7, <2>1, <2>2, <2>3 DEF LoopsAreInStep, Up, Printed
<1> QED BY <1>8, <1>9, <1>11, <1>12 DEF ShellInv

LEMMA RunStepKeepsShells ==
  ASSUME ShellInv, RunStep
  PROVE  ShellInv'
<1>0. ShellTypeOK /\ ShellsAreOrderly /\ CallsAreCounted /\ LoopsAreInStep /\ AliveMeansAnswered
  BY DEF ShellInv
<1>s. call.shell \in Shell \/ run.step = "none"
  BY <1>0, Constants DEF CallsAreCounted, ShellTypeOK, Shell, Waiting
<1>1. ASSUME NEW reason \in {"timeout", "cancel"}, Interrupt(reason) PROVE ShellInv'
  <2>1. /\ run' = [run EXCEPT !.reason = reason] /\ run.step = "loop"
        /\ UNCHANGED <<processVars, countVars, alive, stored, state, call>>
    BY <1>1 DEF Interrupt
  <2>2. /\ run'.step = "loop" /\ run'.open = run.open /\ run'.exit = run.exit /\ run'.eof = run.eof
        /\ ShellTypeOK'
    BY <1>0, <2>1 DEF ShellTypeOK, processVars, countVars
  <2>3. CallsAreCounted' /\ AliveMeansAnswered'
    BY <1>0, <2>1, <2>2 DEF CallsAreCounted, AliveMeansAnswered, countVars
  <2>4. ShellsAreOrderly'
    BY <1>0, <2>1, <2>2 DEF ShellsAreOrderly, processVars, countVars, Up
  <2>5. LoopsAreInStep'
    BY <1>0, <2>1, <2>2 DEF LoopsAreInStep, processVars, countVars, Up, Printed
  <2> QED BY <2>2, <2>3, <2>4, <2>5 DEF ShellInv
<1>2. CASE Escalate
  <2>1. /\ Kill(call.shell) /\ run' = [run EXCEPT !.step = "over"] /\ run.step = "loop"
        /\ UNCHANGED <<countVars, stored, state, call>>
    BY <1>2 DEF Escalate, AfterGrace
  <2>2. call.shell \in Shell /\ call.shell \in 0..MaxCalls
    BY <1>0, <1>s, <2>1 DEF ShellTypeOK
  <2>3. run'.step = "over"
    BY <1>0, <2>1 DEF ShellTypeOK
  <2>4. ShellTypeOK'
    BY <1>0, <2>1, <2>2, Killed DEF ShellTypeOK, countVars, Queues
  <2>5. CallsAreCounted'
    BY <1>0, <2>1, <2>3 DEF CallsAreCounted, countVars
  <2>6. AliveMeansAnswered'
    BY <1>0, <2>1, <2>2, Killed DEF AliveMeansAnswered
  <2>7. ShellsAreOrderly'
    BY <1>0, <2>1, <2>2, Killed DEF ShellsAreOrderly, countVars, Up
  <2>8. LoopsAreInStep'
    BY <2>3 DEF LoopsAreInStep
  <2> QED BY <2>4, <2>5, <2>6, <2>7, <2>8 DEF ShellInv
<1>3. CASE EndRun
  <2>1. /\ run' = [run EXCEPT !.step = "over"] /\ run.step = "loop" /\ run.open = {}
        /\ alive' = IF run.eof THEN [alive EXCEPT ![call.shell] = FALSE] ELSE alive
        /\ UNCHANGED <<processVars, countVars, stored, state, call>>
    BY <1>3 DEF EndRun
  <2>2. run'.step = "over" /\ run'.exit = run.exit /\ call.shell \in Shell
    BY <1>0, <1>s, <2>1 DEF ShellTypeOK
  <2>3. ShellTypeOK'
    BY <1>0, <2>1, <2>2 DEF ShellTypeOK, processVars, countVars
  <2>4. CallsAreCounted'
    BY <1>0, <2>1, <2>2 DEF CallsAreCounted, countVars
  <2>5. AliveMeansAnswered'
    BY <1>0, <2>1, <2>2 DEF AliveMeansAnswered, LoopsAreInStep, ShellTypeOK
  <2>6. \A r \in Shell : Up(r) => alive'[r]
    BY <1>0, <2>1, <2>2 DEF LoopsAreInStep, ShellTypeOK, ShellsAreOrderly
  <2>7. Up(call.shell) => script[call.shell] = "none" /\ queue[call.shell] = [x \in Stream |-> <<>>]
    <3> SUFFICES ASSUME Up(call.shell)
                 PROVE  script[call.shell] = "none" /\ queue[call.shell] = [x \in Stream |-> <<>>]
      OBVIOUS
    <3>1. \A x \in Stream : Printed(call.shell, x) /\ queue[call.shell][x] = <<>>
      BY <1>0, <2>1 DEF LoopsAreInStep
    <3>2. "stderr" \in Stream /\ queue[call.shell] \in Queues
      BY <1>0, <2>2 DEF Stream, ShellTypeOK, Queues
    <3>3. script[call.shell] = "none"
      BY <3>1, <3>2 DEF Printed
    <3> QED BY <3>1, <3>2, <3>3 DEF Queues
  <2>8. \A r \in Shell : ~alive[r] => ~alive'[r]
    BY <1>0, <2>1, <2>2 DEF ShellTypeOK
  <2>9. ShellsAreOrderly'
    BY <1>0, <2>1, <2>2, <2>6, <2>7, <2>8 DEF ShellsAreOrderly, processVars, countVars, Up
  <2>10. LoopsAreInStep'
    BY <2>2 DEF LoopsAreInStep
  <2> QED BY <2>3, <2>4, <2>5, <2>9, <2>10 DEF ShellInv
<1> QED BY <1>1, <1>2, <1>3, TakeKeepsShells DEF RunStep

-----------------------------------------------------------------------------
(* The calls                                                                *)

CallSteps == {"idle", "jobs", "export", "spawn", "bootstrap", "register", "refuse", "command", "pwd"}
Calls == [step : CallSteps, shell : 0..MaxCalls, old : 0..MaxCalls, state : Nat]

LEMMA CallRecords ==
  /\ NoCall \in Calls /\ NoCall.step = "idle" /\ NoCall.shell = 0 /\ NoCall.old = 0
  /\ \A c \in Calls, step \in CallSteps :
       /\ [c EXCEPT !.step = step] \in Calls
       /\ [c EXCEPT !.step = step].step = step /\ [c EXCEPT !.step = step].shell = c.shell
       /\ [c EXCEPT !.step = step].old = c.old /\ [c EXCEPT !.step = step].state = c.state
BY Constants DEF Calls, CallSteps, NoCall

(* What a call may rely on when it goes on after a wait.                    *)
LEMMA CallFacts ==
  ASSUME ShellInv
  PROVE  /\ call \in Calls /\ run \in Runs /\ stored \in 0..MaxCalls /\ state \in Nat
         /\ made \in 0..MaxCalls /\ calls \in 0..MaxCalls /\ grants \in 0..MaxGrants
         /\ snapshot \in [Shell -> 0..MaxGrants] /\ made <= calls
         /\ call.step \notin {"idle", "spawn"} => call.shell \in Shell
         /\ call.step \in {"jobs", "export", "spawn"} => made < calls
         /\ run.step # "none" <=> call.step \in Waiting
BY Constants DEF ShellInv, ShellTypeOK, CallsAreCounted, Calls, CallSteps, Runs, Shell

LEMMA NobodyKilled == ASSUME UNCHANGED <<processVars, alive>> PROVE Kill(0)
BY DEF Kill

(* A call goes on without waiting, with or without a kill on the way.       *)
LEMMA MovedOn ==
  ASSUME ShellInv, run.step # "loop", NEW s \in 0..MaxCalls, Kill(s),
         run' \in Runs, run'.step = "none",
         call' \in Calls, call'.step \notin Waiting,
         call'.step \in {"register", "refuse"} => call'.shell # 0,
         call'.step = "spawn" => made < calls',
         made' = made, made <= calls', calls' \in 0..MaxCalls,
         snapshot' = snapshot, grants' \in 0..MaxGrants, stored' \in 0..MaxCalls, state' = state
  PROVE  ShellInv'
<1>0. ShellTypeOK /\ ShellsAreOrderly /\ CallsAreCounted
  BY DEF ShellInv
<1>1. ShellTypeOK'
  BY <1>0, Killed DEF ShellTypeOK, Queues, Runs, Calls, CallSteps
<1>2. CallsAreCounted'
  BY DEF CallsAreCounted, Waiting, Calls, CallSteps
<1>3. ShellsAreOrderly'
  BY <1>0, Killed DEF ShellsAreOrderly, Up
<1>4. LoopsAreInStep' /\ AliveMeansAnswered'
  BY DEF LoopsAreInStep, AliveMeansAnswered
<1> QED BY <1>1, <1>2, <1>3, <1>4 DEF ShellInv

LEMMA BeginCallKeepsShells ==
  ASSUME ShellInv, NEW lifetime, BeginCall(lifetime)
  PROVE  ShellInv'
<1> DEFINE s == IF stored # 0 /\ alive[stored] THEN stored ELSE 0
<1>0. /\ call.step = "idle" /\ calls < MaxCalls /\ calls' = calls + 1
      /\ UNCHANGED <<snapshot, made, grants, stored, state>>
      /\ \/ /\ Kill(s)
            /\ call' = [NoCall EXCEPT !.step = "spawn", !.state = state]
            /\ UNCHANGED run
         \/ /\ s # 0
            /\ call' = [NoCall EXCEPT !.step = "register", !.shell = s, !.state = state]
            /\ UNCHANGED <<processVars, alive, run>>
         \/ /\ s # 0
            /\ StartRun([NoCall EXCEPT !.step = "jobs", !.shell = s, !.state = state])
  BY DEF BeginCall
<1>f. /\ stored \in 0..MaxCalls /\ state \in Nat /\ made \in 0..MaxCalls /\ calls \in 0..MaxCalls
      /\ made <= calls /\ run \in Runs /\ snapshot \in [Shell -> 0..MaxGrants] /\ grants \in 0..MaxGrants
      /\ run.step = "none"
  BY <1>0, CallFacts DEF Waiting
<1>g. s \in 0..MaxCalls
  BY <1>f, Constants
<1> HIDE DEF s
<1>i. calls + 1 \in 0..MaxCalls /\ made < calls + 1 /\ made <= calls + 1
  BY <1>0, <1>f, Constants
<1>1. CASE Kill(s) /\ call' = [NoCall EXCEPT !.step = "spawn", !.state = state] /\ UNCHANGED run
  <2>1. call' \in Calls /\ call'.step = "spawn"
    BY <1>1, <1>f, CallRecords DEF Calls, CallSteps
  <2> QED BY <1>0, <1>1, <1>f, <1>g, <1>i, <2>1, MovedOn DEF Waiting
<1>2. CASE /\ s # 0 /\ UNCHANGED <<processVars, alive, run>>
           /\ call' = [NoCall EXCEPT !.step = "register", !.shell = s, !.state = state]
  <2>1. call' \in Calls /\ call'.step = "register" /\ call'.shell # 0
    BY <1>2, <1>f, <1>g, CallRecords DEF Calls, CallSteps
  <2>2. Kill(0) /\ 0 \in 0..MaxCalls
    BY <1>2, NobodyKilled, Constants
  <2> QED BY <1>0, <1>2, <1>f, <1>i, <2>1, <2>2, MovedOn DEF Waiting
<1>3. CASE /\ s # 0
           /\ StartRun([NoCall EXCEPT !.step = "jobs", !.shell = s, !.state = state])
  <2>1. s \in Shell
    BY <1>3, <1>g, Constants DEF Shell
  <2>2. PICK c : c = [NoCall EXCEPT !.step = "jobs", !.shell = s, !.state = state]
    OBVIOUS
  <2>3. c.shell = s /\ c.step = "jobs" /\ c \in Calls
    BY <2>2, <1>f, <1>g, CallRecords DEF Calls, CallSteps
  <2>4. c \in [step : {"jobs", "export", "command", "pwd"}, shell : {s}, old : 0..MaxCalls,
               state : Nat]
    BY <2>3 DEF Calls
  <2>5. StartRun(c)
    BY <1>3, <2>2
  <2>6. call' = c /\ UNCHANGED <<process, jobs, queue>>
    BY <2>5 DEF StartRun
  <2>7. IF alive[s] /\ process[s] = "up"
          THEN run' = Looping /\ script' = [script EXCEPT ![s] = "running"] /\ UNCHANGED alive
          ELSE run' = Over /\ alive' = [alive EXCEPT ![s] = FALSE] /\ UNCHANGED script
    BY <2>3, <2>5 DEF StartRun
  <2> QED BY <1>0, <1>f, <1>i, <2>1, <2>3, <2>4, <2>6, <2>7, StartedRun
<1> QED BY <1>0, <1>1, <1>2, <1>3

(* A further script of the call in its own shell.                           *)
LEMMA NextRun ==
  ASSUME ShellInv, call.step \notin {"idle", "spawn"}, run.step # "loop",
         NEW step \in {"export", "command", "pwd"}, step = "export" => call.step = "jobs",
         StartRun([call EXCEPT !.step = step]), UNCHANGED <<countVars, stored, state>>
  PROVE  ShellInv'
<1>0. /\ call \in Calls /\ call.shell \in Shell /\ stored \in 0..MaxCalls /\ made \in 0..MaxCalls
      /\ calls \in 0..MaxCalls /\ made <= calls
      /\ step = "export" => made < calls
  BY CallFacts
<1>1. PICK c : c = [call EXCEPT !.step = step]
  OBVIOUS
<1>2. c \in Calls /\ c.step = step /\ c.shell = call.shell
  BY <1>0, <1>1 DEF Calls, CallSteps
<1>3. StartRun(c)
  BY <1>1
<1>4. /\ call' = c
      /\ IF alive[call.shell] /\ process[call.shell] = "up"
           THEN /\ run' = Looping
                /\ script' = [script EXCEPT ![call.shell] = "running"]
                /\ UNCHANGED alive
           ELSE run' = Over /\ alive' = [alive EXCEPT ![call.shell] = FALSE] /\ UNCHANGED script
      /\ UNCHANGED <<process, jobs, queue>>
  BY <1>2, <1>3 DEF StartRun
<1>5. c \in [step : {"jobs", "export", "command", "pwd"}, shell : {call.shell}, old : 0..MaxCalls,
             state : Nat]
  BY <1>2 DEF Calls
<1>6. call' \in [step : {"jobs", "export", "command", "pwd"}, shell : {call.shell}, old : 0..MaxCalls,
                 state : Nat]
  BY <1>4, <1>5
<1>7. call'.step \in {"jobs", "export"} => made < calls'
  BY <1>0, <1>2, <1>4 DEF countVars
<1>8. /\ made' = made /\ made <= calls' /\ calls' \in 0..MaxCalls /\ UNCHANGED <<snapshot, grants>>
      /\ stored' \in 0..MaxCalls /\ UNCHANGED <<process, jobs, queue, state>>
  BY <1>0, <1>4 DEF countVars
<1> QED BY <1>0, <1>4, <1>6, <1>7, <1>8, StartedRun

LEMMA ReturnKeepsShells ==
  ASSUME ShellInv, run.step = "over", Return, UNCHANGED <<countVars, state>>
  PROVE  ShellInv'
<1>1. /\ call' = NoCall /\ run' = NoRun /\ UNCHANGED <<processVars, alive>>
      /\ stored' = IF ~alive[call.shell] /\ call.state = state THEN 0 ELSE stored
  BY DEF Return
<1>2. stored' \in 0..MaxCalls /\ Kill(0) /\ 0 \in 0..MaxCalls
  BY <1>1, CallFacts, NobodyKilled, Constants
<1>3. NoCall.step \notin Waiting /\ NoCall.step \notin {"register", "refuse", "spawn"}
  BY CallRecords DEF Waiting
<1>4. call' \in Calls /\ run' \in Runs /\ run'.step = "none"
  BY <1>1, CallRecords, RunRecords
<1>5. /\ made' = made /\ made <= calls' /\ calls' \in 0..MaxCalls /\ snapshot' = snapshot
      /\ grants' \in 0..MaxGrants
  BY CallFacts DEF countVars
<1> QED BY <1>1, <1>2, <1>3, <1>4, <1>5, MovedOn

LEMMA SpawnKeepsShells ==
  ASSUME ShellInv, Spawn
  PROVE  ShellInv'
<1>0. ShellTypeOK /\ ShellsAreOrderly /\ CallsAreCounted
  BY DEF ShellInv
<1>1. PICK s : s = made + 1
  OBVIOUS
<1>2. s \in Shell /\ s > made /\ s <= calls /\ made \in Nat /\ calls \in Nat /\ s \in 0..MaxCalls
  BY <1>0, <1>1, CallFacts, Constants DEF Spawn, Shell
<1>3. /\ made' = s /\ snapshot' = [snapshot EXCEPT ![s] = grants]
      /\ process' = [process EXCEPT ![s] = "up"] /\ alive' = [alive EXCEPT ![s] = TRUE]
      /\ script' = [script EXCEPT ![s] = "running"] /\ run' = Looping
      /\ call' = [call EXCEPT !.step = "bootstrap", !.shell = s] /\ call.step = "spawn"
      /\ UNCHANGED <<jobs, queue, grants, calls, stored, state>>
  BY <1>1 DEF Spawn
<1>4. call' \in Calls /\ call'.step = "bootstrap" /\ call'.shell = s /\ call \in Calls
  BY <1>2, <1>3, CallFacts DEF Calls, CallSteps
<1>5. /\ process \in [Shell -> {"none", "up", "gone"}] /\ alive \in [Shell -> BOOLEAN]
      /\ script \in [Shell -> {"none", "running", "half"}] /\ queue \in [Shell -> Queues]
      /\ snapshot \in [Shell -> 0..MaxGrants] /\ grants \in 0..MaxGrants
  BY <1>0 DEF ShellTypeOK, Queues
<1>6. ShellTypeOK'
  <2>1. /\ process' \in [Shell -> {"none", "up", "gone"}] /\ alive' \in [Shell -> BOOLEAN]
        /\ script' \in [Shell -> {"none", "running", "half"}]
        /\ snapshot' \in [Shell -> 0..MaxGrants] /\ run' \in Runs
    BY <1>2, <1>3, <1>5, RunRecords
  <2> QED BY <1>0, <1>2, <1>3, <1>4, <2>1 DEF ShellTypeOK, Calls, CallSteps, Runs
<1>7. run'.step = "loop" /\ run'.open = Stream /\ ~run'.eof
  BY <1>3, RunRecords
<1>8. CallsAreCounted'
  BY <1>2, <1>3, <1>4, <1>7 DEF CallsAreCounted, Waiting
<1>9. /\ queue[s] = [x \in Stream |-> <<>>] /\ run.step = "none"
      /\ \A r \in Shell : Up(r) => script[r] = "none" /\ queue[r] = [x \in Stream |-> <<>>]
  BY <1>0, <1>2, <1>3, CallFacts DEF ShellsAreOrderly, Waiting
<1>10. ShellsAreOrderly'
  <2> SUFFICES ASSUME NEW r \in Shell
               PROVE  /\ r > s => process'[r] = "none" /\ ~alive'[r] /\ script'[r] = "none"
                                       /\ queue[r] = [y \in Stream |-> <<>>]
                      /\ process'[r] = "up" => alive'[r]
                      /\ script'[r] # "none" => process'[r] = "up"
                      /\ process'[r] = "up" /\ r # s =>
                           script'[r] = "none" /\ queue[r] = [y \in Stream |-> <<>>]
    BY <1>3, <1>4, <1>7 DEF ShellsAreOrderly, Up
  <2>1. CASE r = s
    BY <1>2, <1>3, <1>5, <2>1
  <2>2. CASE r # s
    <3>1. r > s => r > made
      BY <1>2 DEF Shell
    <3> QED BY <1>0, <1>3, <1>5, <1>9, <2>2, <3>1 DEF ShellsAreOrderly, Up
  <2> QED BY <2>1, <2>2
<1>11. LoopsAreInStep'
  <2>1. script'[s] = "running" /\ queue'[s] = [x \in Stream |-> <<>>]
    BY <1>2, <1>3, <1>5, <1>9
  <2>2. \A x \in Stream : ~Printed(s, x)' /\ queue'[s][x] = <<>>
    BY <2>1 DEF Printed
  <2> QED BY <1>4, <1>7, <2>2 DEF LoopsAreInStep, Stream, Printed
<1>12. AliveMeansAnswered'
  BY <1>7 DEF AliveMeansAnswered
<1> QED BY <1>6, <1>8, <1>10, <1>11, <1>12 DEF ShellInv

LEMMA CallStepKeepsShells ==
  ASSUME ShellInv, CallStep
  PROVE  ShellInv'
<1>f. /\ call \in Calls /\ run \in Runs /\ stored \in 0..MaxCalls /\ state \in Nat
      /\ made \in 0..MaxCalls /\ calls \in 0..MaxCalls /\ grants \in 0..MaxGrants /\ made <= calls
      /\ call.step \notin {"idle", "spawn"} => call.shell \in Shell
      /\ call.step \in {"jobs", "export", "spawn"} => made < calls
  BY CallFacts
<1>n. NoRun \in Runs /\ NoRun.step = "none"
  BY RunRecords
<1>1. CASE AfterJobs
  <2>1. /\ call.step = "jobs" /\ run.step = "over" /\ UNCHANGED <<countVars, stored, state>>
        /\ \/ /\ call' = [call EXCEPT !.step = "refuse"] /\ run' = NoRun
              /\ UNCHANGED <<processVars, alive>>
           \/ StartRun([call EXCEPT !.step = "export"])
    BY <1>1 DEF AfterJobs
  <2>2. CASE /\ call' = [call EXCEPT !.step = "refuse"] /\ run' = NoRun
             /\ UNCHANGED <<processVars, alive>>
    <3>1. call' \in Calls /\ call'.step = "refuse" /\ call'.shell = call.shell /\ call.shell # 0
      BY <1>f, <2>1, <2>2, Constants DEF Calls, CallSteps, Shell
    <3>2. Kill(0) /\ 0 \in 0..MaxCalls
      BY <2>2, NobodyKilled, Constants
    <3> QED BY <1>f, <1>n, <2>1, <2>2, <3>1, <3>2, MovedOn DEF Waiting, countVars
  <2>3. CASE StartRun([call EXCEPT !.step = "export"])
    BY <2>1, <2>3, NextRun
  <2> QED BY <2>1, <2>2, <2>3
<1>2. CASE AfterExport
  <2>1. /\ call.step = "export" /\ run.step = "over" /\ run' = NoRun
        /\ call' = [call EXCEPT !.step = "spawn", !.old = call.shell]
        /\ UNCHANGED <<processVars, countVars, alive, stored, state>>
    BY <1>2 DEF AfterExport
  <2>2. call' \in Calls /\ call'.step = "spawn"
    BY <1>f, <2>1 DEF Calls, CallSteps
  <2>3. Kill(0) /\ 0 \in 0..MaxCalls
    BY <2>1, NobodyKilled, Constants
  <2> QED BY <1>f, <1>n, <2>1, <2>2, <2>3, MovedOn DEF Waiting, countVars
<1>3. CASE AfterBootstrap
  <2>1. /\ call.step = "bootstrap" /\ run.step = "over" /\ run' = NoRun /\ Kill(call.old)
        /\ stored' = IF call.state = state THEN call.shell ELSE stored
        /\ call' = [call EXCEPT !.step = "register", !.old = 0]
        /\ UNCHANGED <<countVars, state>>
    BY <1>3 DEF AfterBootstrap, RetireOld
  <2>0. call.shell \in Shell /\ call.shell # 0
    BY <1>f, <2>1, Constants DEF Shell
  <2>2. call' \in Calls /\ call'.step = "register" /\ call'.shell # 0 /\ call.old \in 0..MaxCalls
    <3>1. PICK c : c = call /\ c \in Calls
      BY <1>f
    <3>2. 0 \in 0..MaxCalls
      BY Constants
    <3>3. [c EXCEPT !.step = "register", !.old = 0] \in Calls
      BY <3>1, <3>2 DEF Calls, CallSteps
    <3>4. call.old \in 0..MaxCalls
      BY <1>f DEF Calls
    <3>5. call'.step = "register" /\ call'.shell = call.shell
      BY <1>f, <2>1 DEF Calls
    <3> QED BY <2>0, <2>1, <3>1, <3>3, <3>4, <3>5
  <2>3. stored' \in 0..MaxCalls
    BY <1>f, <2>1, Constants DEF Shell
  <2> QED BY <1>f, <1>n, <2>1, <2>2, <2>3, MovedOn DEF Waiting, countVars
<1>4. CASE AfterCommand
  <2>1. /\ call.step = "command" /\ run.step = "over" /\ UNCHANGED <<countVars, state>>
        /\ \/ StartRun([call EXCEPT !.step = "pwd"]) /\ UNCHANGED stored
           \/ Return
    BY <1>4 DEF AfterCommand
  <2> QED BY <2>1, NextRun, ReturnKeepsShells
<1>5. CASE AfterPwd
  BY <1>5, ReturnKeepsShells DEF AfterPwd
<1> QED BY <1>1, <1>2, <1>3, <1>4, <1>5, SpawnKeepsShells DEF CallStep

LEMMA RunCommandKeepsShells ==
  ASSUME ShellInv, RunCommand
  PROVE  ShellInv'
<1>0. UNCHANGED <<countVars, stored, state>> /\ call.step \in {"register", "refuse"}
  BY DEF RunCommand
<1>f. /\ call \in Calls /\ run \in Runs /\ stored \in 0..MaxCalls /\ state \in Nat /\ run.step = "none"
      /\ made \in 0..MaxCalls /\ calls \in 0..MaxCalls /\ grants \in 0..MaxGrants /\ made <= calls
  BY <1>0, CallFacts DEF Waiting
<1>1. CASE StartRun([call EXCEPT !.step = "command"])
  BY <1>0, <1>1, <1>f, NextRun
<1>2. CASE call' = NoCall /\ UNCHANGED <<processVars, alive, run>>
  <2>1. Kill(0) /\ 0 \in 0..MaxCalls
    BY <1>2, NobodyKilled, Constants
  <2> QED BY <1>0, <1>2, <1>f, <2>1, CallRecords, MovedOn DEF Waiting, countVars
<1> QED BY <1>1, <1>2 DEF RunCommand

LEMMA WidenKeepsShells ==
  ASSUME ShellInv, Widen
  PROVE  ShellInv'
<1>1. /\ grants' = grants + 1 /\ grants < MaxGrants
      /\ UNCHANGED <<processVars, snapshot, made, calls, alive, stored, state, call, run>>
  BY DEF Widen
<1>2. ShellTypeOK'
  BY <1>1, Constants DEF ShellInv, ShellTypeOK, processVars
<1>3. CallsAreCounted' /\ ShellsAreOrderly' /\ AliveMeansAnswered'
  BY <1>1 DEF ShellInv, CallsAreCounted, ShellsAreOrderly, AliveMeansAnswered, processVars, Up
<1>4. LoopsAreInStep'
  BY <1>1 DEF ShellInv, LoopsAreInStep, processVars, Up, Printed
<1> QED BY <1>2, <1>3, <1>4 DEF ShellInv

-----------------------------------------------------------------------------
(* The walkers                                                              *)

Keys == Source \cup {"Bash"}
Walks == [step : {"none", "walk", "call"}, todo : Seq(Keys), size : Nat, kill : 0..MaxCalls]

Rest == ServicesTypeOK /\ CloseInv /\ KnownInv

LEMMA WalkRecords ==
  NoWalk \in Walks /\ NoWalk.step = "none" /\ NoWalk.todo = <<>>
BY Constants DEF Walks, NoWalk

LEMMA Typing ==
  ASSUME ServicesTypeOK
  PROVE  /\ wakes \in 0..1 /\ started \subseteq Source /\ entries \in Seq(Keys)
         /\ registered \in 0..MaxCalls /\ phase \in {"open", "closing", "closed", "failed"}
         /\ walk \in [Walker -> Walks] /\ walk["close"] \in Walks /\ walk["reset"] \in Walks
         /\ resetter \in Change \cup Entry \cup {None} /\ resets \in 0..MaxResets
         /\ disturbed \in BOOLEAN /\ crossed \in BOOLEAN
BY Constants DEF ServicesTypeOK, Walks, Keys

LEMMA TypedAgain ==
  ASSUME wakes' \in 0..1, started' \subseteq Source, entries' \in Seq(Keys),
         registered' \in 0..MaxCalls, phase' \in {"open", "closing", "closed", "failed"},
         walk' \in [Walker -> Walks],
         resetter' \in Change \cup Entry \cup {None}, resets' \in 0..MaxResets,
         disturbed' \in BOOLEAN, crossed' \in BOOLEAN
  PROVE  ServicesTypeOK'
BY DEF ServicesTypeOK, Walks, Keys

(* A step of the turn, the shells or the client that leaves the timers and  *)
(* the walkers alone.                                                       *)
LEMMA CloseFrame ==
  ASSUME CloseInv, UNCHANGED <<timerVars, started, entries, wakes, phase, walk, disturbed>>,
         walk["reset"].step # "none" /\ resetter # None => resetter' # None,
         call.step = "idle" => call'.step = "idle" \/ phase = "open"
  PROVE  CloseInv'
<1>1. WalkInv' /\ EntriesAreUnique' /\ StartedAreEntered'
  BY DEF CloseInv, WalkInv, EntriesAreUnique, StartedAreEntered, timerVars
<1>2. LiveIsListed' /\ CloseFailsOnlyDisturbed'
  BY DEF CloseInv, LiveIsListed, CloseFailsOnlyDisturbed, timerVars, schedulerVars, Live, Standing, Emptied
<1>3. CloseIsAlone'
  BY DEF CloseInv, CloseIsAlone, timerVars, schedulerVars, Listed
<1> QED BY <1>1, <1>2, <1>3 DEF CloseInv

(* No shell starts, and the call stays where it is.                         *)
LEMMA KnownFrame ==
  ASSUME KnownInv, \A s \in Shell : process'[s] = "up" => Up(s),
         call'.step = call.step, call'.shell = call.shell, call'.old = call.old,
         call'.state = call.state, UNCHANGED <<stored, state, registered, phase, walk>>,
         Entered => Entered', disturbed => disturbed', crossed => crossed'
  PROVE  KnownInv'
<1>1. RunningIsKnown'
  BY DEF KnownInv, RunningIsKnown, Up, Entered
<1>2. ResetReaches' /\ CloseReaches'
  BY DEF KnownInv, ResetReaches, CloseReaches, Up
<1> QED BY <1>1, <1>2 DEF KnownInv

LEMMA OutsideKeepsRest ==
  ASSUME Rest, ShellInv, Outside
  PROVE  Rest'
<1>0. ServicesTypeOK /\ CloseInv /\ KnownInv
  BY DEF Rest
<1>1. /\ UNCHANGED <<timerVars, wakes, started, entries, registered, phase, walk, resetter, resets,
                     disturbed, crossed>>
      /\ UNCHANGED <<call, stored, state>>
  BY DEF Outside, servicesVars, ProcessStep, Widen
<1>2. \A s \in Shell : process'[s] = "up" => Up(s)
  BY DEF Outside, ProcessStep, Widen, FinishStdout, FinishStderr, Exit, JobEnds, processVars, Up,
         ShellInv, ShellTypeOK
<1>3. KnownInv'
  BY <1>0, <1>1, <1>2, KnownFrame DEF Entered
<1>4. CloseInv'
  BY <1>0, <1>1, CloseFrame
<1>5. ServicesTypeOK'
  BY <1>0, <1>1 DEF ServicesTypeOK
<1> QED BY <1>3, <1>4, <1>5 DEF Rest

LEMMA RunStepKeepsRest ==
  ASSUME Rest, ShellInv, RunStep, UNCHANGED <<timerVars, servicesVars>>
  PROVE  Rest'
<1>0. ServicesTypeOK /\ CloseInv /\ KnownInv
  BY DEF Rest
<1>1. /\ UNCHANGED <<timerVars, wakes, started, entries, registered, phase, walk, resetter, resets,
                     disturbed, crossed>>
      /\ UNCHANGED <<call, stored, state>>
  BY DEF servicesVars, RunStep, Take, Interrupt, Escalate, EndRun
<1>2. call.shell \in 0..MaxCalls
  BY CallFacts DEF Calls
<1>3. Kill(call.shell) \/ process' = process
  BY DEF RunStep, Take, Interrupt, Escalate, EndRun, AfterGrace, processVars
<1>4. \A s \in Shell : process'[s] = "up" => Up(s)
  BY <1>2, <1>3, Killed DEF ShellInv, Up
<1>5. KnownInv'
  BY <1>0, <1>1, <1>4, KnownFrame DEF Entered
<1>6. CloseInv'
  BY <1>0, <1>1, CloseFrame
<1>7. ServicesTypeOK'
  BY <1>0, <1>1 DEF ServicesTypeOK
<1> QED BY <1>5, <1>6, <1>7 DEF Rest

(* A call is under way, so that nobody closes or resets the session, or it  *)
(* is known that they met.                                                  *)
LEMMA CallFrame ==
  ASSUME Rest, call.step # "idle", UNCHANGED <<phase, disturbed, walk, crossed>>
  PROVE  ResetReaches' /\ CloseReaches'
BY DEF Rest, CloseInv, KnownInv, CloseIsAlone, ResetReaches, CloseReaches

LEMMA ReturnKeepsKnown ==
  ASSUME Rest, ShellInv, call.step \in {"command", "pwd"}, Return,
         UNCHANGED <<state, entries, registered, phase, walk, disturbed, crossed>>
  PROVE  RunningIsKnown'
<1>1. /\ call' = NoCall /\ UNCHANGED <<processVars, alive>>
      /\ stored' = IF ~alive[call.shell] /\ call.state = state THEN 0 ELSE stored
  BY DEF Return
<1>2. call'.step = "idle"
  BY <1>1, CallRecords
<1>3. \A s \in Shell : Up(s) => alive[s]
  BY DEF ShellInv, ShellsAreOrderly
<1> QED BY <1>1, <1>2, <1>3 DEF Rest, KnownInv, RunningIsKnown, processVars, Up, Entered

LEMMA StartedCall ==
  ASSUME ShellInv, NEW step \in {"export", "command", "pwd"}, StartRun([call EXCEPT !.step = step])
  PROVE  /\ call'.step = step /\ call'.shell = call.shell /\ call'.old = call.old
         /\ call'.state = call.state /\ process' = process
<1>1. call \in Calls
  BY CallFacts
<1>2. call' = [call EXCEPT !.step = step] /\ process' = process
  BY DEF StartRun
<1> QED BY <1>1, <1>2 DEF Calls

LEMMA CallStepKeepsRest ==
  ASSUME Rest, ShellInv, CallStep, UNCHANGED <<timerVars, servicesVars>>
  PROVE  Rest'
<1>0. ServicesTypeOK /\ CloseInv /\ KnownInv /\ RunningIsKnown
  BY DEF Rest, KnownInv
<1>1. /\ UNCHANGED <<timerVars, wakes, started, entries, registered, phase, walk, resetter, resets,
                     disturbed, crossed>>
      /\ state' = state /\ call.step # "idle"
  BY DEF servicesVars, CallStep, AfterJobs, AfterExport, Spawn, AfterBootstrap, AfterCommand, AfterPwd
<1>2. ResetReaches' /\ CloseReaches'
  BY <1>1, CallFrame
<1>3. call \in Calls /\ \A s \in Shell : Up(s) => alive[s]
  BY CallFacts DEF ShellInv, ShellsAreOrderly
<1>4. RunningIsKnown'
  <2>1. CASE AfterJobs
    <3>1. /\ call.step = "jobs" /\ stored' = stored
          /\ \/ call' = [call EXCEPT !.step = "refuse"] /\ UNCHANGED <<processVars, alive>>
             \/ StartRun([call EXCEPT !.step = "export"])
      BY <2>1 DEF AfterJobs
    <3>2. /\ call'.step \in {"refuse", "export"} /\ call'.shell = call.shell
          /\ call'.state = call.state /\ process' = process
      BY <1>3, <3>1, StartedCall DEF Calls, processVars
    <3> QED BY <1>0, <1>1, <3>1, <3>2 DEF RunningIsKnown, Up, Entered
  <2>2. CASE AfterExport
    <3>1. /\ call.step = "export" /\ stored' = stored /\ process' = process
          /\ call' = [call EXCEPT !.step = "spawn", !.old = call.shell]
      BY <2>2 DEF AfterExport, processVars
    <3>2. call'.step = "spawn" /\ call'.old = call.shell /\ call'.state = call.state
      BY <1>3, <3>1 DEF Calls
    <3> QED BY <1>0, <1>1, <3>1, <3>2 DEF RunningIsKnown, Up, Entered
  <2>3. CASE Spawn
    <3>1. PICK s : s = made + 1
      OBVIOUS
    <3>2. /\ call.step = "spawn" /\ stored' = stored /\ process' = [process EXCEPT ![s] = "up"]
          /\ call' = [call EXCEPT !.step = "bootstrap", !.shell = s]
      BY <2>3, <3>1 DEF Spawn
    <3>3. /\ call'.step = "bootstrap" /\ call'.old = call.old /\ call'.shell = s
          /\ call'.state = call.state
      BY <1>3, <3>2 DEF Calls
    <3>4. \A r \in Shell : process'[r] = "up" => r = s \/ Up(r)
      BY <3>2 DEF ShellInv, ShellTypeOK, Up
    <3> QED BY <1>0, <1>1, <3>2, <3>3, <3>4 DEF RunningIsKnown, Up, Entered
  <2>4. CASE AfterBootstrap
    <3>1. /\ call.step = "bootstrap" /\ Kill(call.old)
          /\ stored' = IF call.state = state THEN call.shell ELSE stored
          /\ call' = [call EXCEPT !.step = "register", !.old = 0]
      BY <2>4 DEF AfterBootstrap, RetireOld
    <3>2. call'.step = "register" /\ call'.shell = call.shell /\ call'.state = call.state
      BY <1>3, <3>1 DEF Calls
    <3>3. \A r \in Shell : process'[r] = "up" => Up(r) /\ r # call.old
      BY <1>3, <3>1, Killed DEF ShellInv, Calls
    <3> QED BY <1>0, <1>1, <3>1, <3>2, <3>3 DEF RunningIsKnown, Up, Entered
  <2>5. CASE AfterCommand
    <3>1. /\ call.step = "command"
          /\ \/ StartRun([call EXCEPT !.step = "pwd"]) /\ UNCHANGED stored
             \/ Return
      BY <2>5 DEF AfterCommand
    <3>2. CASE StartRun([call EXCEPT !.step = "pwd"]) /\ UNCHANGED stored
      <4>1. /\ call'.step = "pwd" /\ call'.shell = call.shell /\ call'.state = call.state
            /\ process' = process
        BY <3>2, StartedCall
      <4> QED BY <1>0, <1>1, <3>1, <3>2, <4>1 DEF RunningIsKnown, Up, Entered
    <3> QED BY <1>1, <3>1, <3>2, ReturnKeepsKnown
  <2>6. CASE AfterPwd
    BY <1>1, <2>6, ReturnKeepsKnown DEF AfterPwd
  <2> QED BY <2>1, <2>2, <2>3, <2>4, <2>5, <2>6 DEF CallStep
<1>5. CloseInv'
  BY <1>0, <1>1, CloseFrame
<1>6. ServicesTypeOK'
  BY <1>0, <1>1 DEF ServicesTypeOK
<1> QED BY <1>2, <1>4, <1>5, <1>6 DEF Rest, KnownInv

(* The timers run on: what ends leaves its dict or was not in it, what is   *)
(* due again is in it.                                                      *)
LEMMA TimersMove ==
  ASSUME Rest, UNCHANGED <<shellVars, wakes, started, entries, registered, phase, walk, resetter,
                           resets, crossed, closing, teardown>>,
         disturbed => disturbed', disturbed' \in BOOLEAN,
         \A e \in Entry :
           chain'[e] \in {"armed", "expired", "dispatching", "checked"} =>
             e \in timers' \/ (Live(e) /\ e \notin timers),
         phase = "closing" /\ ~disturbed' /\ teardown["close"].step = "cancel"
           /\ teardown["close"].source \in Scheduler =>
             Listed(teardown["close"].source)' = Listed(teardown["close"].source)
  PROVE  Rest'
<1>0. ServicesTypeOK /\ CloseInv /\ KnownInv
  BY DEF Rest
<1>1. WalkInv' /\ EntriesAreUnique' /\ StartedAreEntered'
  BY <1>0 DEF CloseInv, WalkInv, EntriesAreUnique, StartedAreEntered
<1>2. CloseIsAlone'
  BY <1>0 DEF CloseInv, CloseIsAlone, shellVars
<1>3. LiveIsListed'
  BY <1>0 DEF CloseInv, LiveIsListed, Live, Standing, Emptied
<1>4. CloseFailsOnlyDisturbed'
  BY <1>0 DEF CloseInv, CloseFailsOnlyDisturbed
<1>5. KnownInv'
  BY <1>0, KnownFrame DEF shellVars, processVars, Up, Entered
<1>6. ServicesTypeOK'
  BY <1>0 DEF ServicesTypeOK
<1> QED BY <1>1, <1>2, <1>3, <1>4, <1>5, <1>6 DEF Rest, CloseInv

LEMMA ObserveKeepsRest ==
  ASSUME Rest, NEW c \in Change, Observe(c)
  PROVE  Rest'
<1>1. /\ UNCHANGED <<shellVars, servicesVars, chain, timers, closing, teardown>>
  BY DEF Observe, Record, schedulerVars
<1>2. disturbed' \in BOOLEAN
  BY <1>1 DEF Rest, ServicesTypeOK, servicesVars
<1>3. \A e \in Entry :
        chain'[e] \in {"armed", "expired", "dispatching", "checked"} =>
          e \in timers' \/ (Live(e) /\ e \notin timers)
  BY <1>1 DEF Live
<1>4. \A src : Listed(src)' = Listed(src)
  BY <1>1 DEF Listed
<1> QED BY <1>1, <1>2, <1>3, <1>4, TimersMove DEF servicesVars

(* A close that nothing has disturbed meets no teardown by a reset.         *)
LEMMA CloseTearsDownAlone ==
  ASSUME Rest, phase = "closing", ~disturbed
  PROVE  teardown["reset"].step = "none" /\ teardown["reset"].source = None
BY Constants DEF Rest, CloseInv, CloseIsAlone, WalkInv

LEMMA TimerThreadKeepsRest ==
  ASSUME Rest, TimersInv, TimerThread
  PROVE  Rest'
<1>0. /\ UNCHANGED <<shellVars, servicesVars>> /\ TimerStep
      /\ disturbed' \in BOOLEAN
  BY DEF TimerThread, Rest, ServicesTypeOK, servicesVars
<1>1. CASE UNCHANGED <<chain, timers, closing, teardown>>
  <2>1. \A e \in Entry :
          chain'[e] \in {"armed", "expired", "dispatching", "checked"} =>
            e \in timers' \/ (Live(e) /\ e \notin timers)
    BY <1>1 DEF Live
  <2>2. \A src : Listed(src)' = Listed(src)
    BY <1>1 DEF Listed
  <2> QED BY <1>0, <1>1, <2>1, <2>2, TimersMove DEF servicesVars
<1>2. ASSUME NEW e \in Entry, Due(e) \/ Fire(e) PROVE Rest'
  <2>1. /\ UNCHANGED <<timers, closing, teardown>> /\ Live(e)
        /\ \E step : chain' = [chain EXCEPT ![e] = step]
    BY <1>2 DEF Due, Fire, Live
  <2>2. \A d \in Entry :
          chain'[d] \in {"armed", "expired", "dispatching", "checked"} =>
            d \in timers' \/ (Live(d) /\ d \notin timers)
    BY <2>1 DEF Live, TimersInv, TimersTypeOK
  <2>3. \A src : Listed(src)' = Listed(src)
    BY <2>1 DEF Listed
  <2> QED BY <1>0, <2>1, <2>2, <2>3, TimersMove DEF servicesVars
<1>3. ASSUME NEW e \in Entry, Rearm(e) PROVE Rest'
  <2>1. /\ UNCHANGED <<closing, teardown>> /\ Live(e)
        /\ chain' = [chain EXCEPT ![e] = "armed"] /\ timers' = timers \cup {e}
    BY <1>3 DEF Rearm, Live
  <2>2. \A d \in Entry :
          chain'[d] \in {"armed", "expired", "dispatching", "checked"} =>
            d \in timers' \/ (Live(d) /\ d \notin timers)
    BY <2>1 DEF Live, TimersInv, TimersTypeOK
  <2>3. ASSUME phase = "closing", ~disturbed', teardown["close"].step = "cancel",
               teardown["close"].source \in Scheduler
        PROVE  Listed(teardown["close"].source)' = Listed(teardown["close"].source)
    <3>1. ~disturbed
      BY <1>0, <2>3 DEF servicesVars
    <3>2. PICK src : src = teardown["close"].source
      OBVIOUS
    <3>3. Standing(src) /\ ~Emptied(src)
      BY <2>3, <3>1, <3>2, CloseTearsDownAlone, Constants DEF Standing, Emptied
    <3>4. SchedulerOf[e] = src => e \in timers
      BY <2>1, <3>3 DEF Rest, CloseInv, LiveIsListed
    <3>5. Listed(src)' = Listed(src)
      BY <2>1, <3>4 DEF Listed, EntriesOf
    <3> QED BY <2>1, <3>2, <3>5
  <2> QED BY <1>0, <2>1, <2>2, <2>3, TimersMove DEF servicesVars
<1>4. ASSUME NEW c \in Change, Expire(c) \/ Flush(c) PROVE UNCHANGED <<chain, timers, closing, teardown>>
  BY <1>4 DEF Expire, Flush, schedulerVars
<1> QED BY <1>0, <1>1, <1>2, <1>3, <1>4 DEF TimerStep

LEMMA DispatchedKeepsRest ==
  ASSUME Rest, TimersInv, NEW th \in Dispatching, Dispatched(th)
  PROVE  Rest'
<1>0. /\ UNCHANGED <<shellVars, wakes, started, entries, registered, phase, walk, resetter, resets,
                     crossed>>
      /\ disturbed' = (disturbed \/ (phase = "closing" /\ OneShot \cap timers # OneShot \cap timers'))
      /\ disturbed \in BOOLEAN
  BY DEF Dispatched, Rest, ServicesTypeOK
<1>1. CASE th \in Change
  <2>1. UNCHANGED <<chain, timers, closing, teardown>>
    BY <1>1 DEF Dispatched, Flushed, schedulerVars
  <2>2. \A e \in Entry :
          chain'[e] \in {"armed", "expired", "dispatching", "checked"} =>
            e \in timers' \/ (Live(e) /\ e \notin timers)
    BY <2>1 DEF Live
  <2>3. \A src : Listed(src)' = Listed(src)
    BY <2>1 DEF Listed
  <2> QED BY <1>0, <2>1, <2>2, <2>3, TimersMove
<1>2. CASE th \notin Change
  <2>0. th \in Entry /\ Fired(th)
    BY <1>2 DEF Dispatched, Dispatching
  <2>1. /\ UNCHANGED <<closing, teardown>> /\ Live(th)
        /\ \/ /\ th \in OneShot /\ timers' = timers \ {th} /\ chain' = [chain EXCEPT ![th] = "ended"]
           \/ timers' = timers /\ \E step : chain' = [chain EXCEPT ![th] = step]
    BY <2>0 DEF Fired, Dropped, Live
  <2>2. \A d \in Entry :
          chain'[d] \in {"armed", "expired", "dispatching", "checked"} =>
            d \in timers' \/ (Live(d) /\ d \notin timers)
    BY <2>0, <2>1 DEF Live, TimersInv, TimersTypeOK
  <2>3. ASSUME phase = "closing", ~disturbed' PROVE \A src : Listed(src)' = Listed(src)
    <3>1. timers' = timers
      BY <1>0, <2>1, <2>3
    <3> QED BY <3>1 DEF Listed
  <2> QED BY <1>0, <2>1, <2>2, <2>3, TimersMove
<1> QED BY <1>1, <1>2

LEMMA CheckResetKeepsRest ==
  ASSUME Rest, NEW th \in Dispatching, CheckReset(th)
  PROVE  Rest'
<1>0. ServicesTypeOK /\ CloseInv /\ KnownInv
  BY DEF Rest
<1>1. /\ UNCHANGED <<timerVars, shellVars, wakes, started, entries, registered, phase, walk,
                     disturbed, crossed>>
      /\ resetter = None /\ resetter' \in Change \cup Entry /\ resets' \in 0..MaxResets
  BY <1>0, Constants DEF CheckReset, Dispatching, ServicesTypeOK
<1>2. walk["reset"].step = "none"
  BY <1>0, <1>1 DEF CloseInv, WalkInv
<1>3. CloseInv'
  BY <1>0, <1>1, <1>2, CloseFrame DEF shellVars
<1>4. KnownInv'
  BY <1>0, <1>1, KnownFrame DEF shellVars, processVars, Up, Entered
<1>5. ServicesTypeOK'
  BY <1>0, <1>1 DEF ServicesTypeOK
<1> QED BY <1>3, <1>4, <1>5 DEF Rest

LEMMA SetWakeUpKeepsRest ==
  ASSUME Rest, TimersInv, SetWakeUp
  PROVE  Rest'
<1>0. ServicesTypeOK /\ CloseInv /\ KnownInv
  BY DEF Rest
<1>1. /\ phase = "open" /\ wakes > 0 /\ wakes' = wakes - 1
      /\ started' = started \cup {WakeUp} /\ entries' = Append(entries, WakeUp)
      /\ UNCHANGED <<shellVars, registered, phase, walk, resetter, resets, disturbed, crossed>>
      /\ UNCHANGED <<closing, teardown>>
      /\ chain' = [e \in Entry |-> IF SchedulerOf[e] = WakeUp THEN "armed" ELSE chain[e]]
      /\ timers' = timers \cup EntriesOf(WakeUp)
  BY DEF SetWakeUp, Started
<1>2. /\ entries \in Seq(Keys) /\ started \subseteq Source /\ WakeUp \in Keys /\ WakeUp \in Source
      /\ WakeUp # "Bash" /\ wakes \in 0..1 /\ wakes' = 0
  BY <1>0, <1>1, Typing, Constants DEF Keys
<1>3. WakeUp \notin ToSet(entries)
  BY <1>0, <1>1, <1>2 DEF CloseInv, EntriesAreUnique
<1>4. /\ entries' \in Seq(Keys) /\ ToSet(entries') = ToSet(entries) \cup {WakeUp}
      /\ IsInjective(entries')
  BY <1>0, <1>1, <1>2, <1>3, Appended DEF CloseInv, EntriesAreUnique
<1>5. WalkInv'
  BY <1>0, <1>1 DEF CloseInv, WalkInv
<1>6. EntriesAreUnique'
  BY <1>0, <1>1, <1>2, <1>4 DEF CloseInv, EntriesAreUnique
<1>7. StartedAreEntered' /\ CloseIsAlone' /\ CloseFailsOnlyDisturbed'
  BY <1>0, <1>1, <1>4 DEF CloseInv, StartedAreEntered, CloseIsAlone, CloseFailsOnlyDisturbed
<1>8. LiveIsListed'
  BY <1>0, <1>1, <1>4 DEF CloseInv, LiveIsListed, Live, Standing, Emptied, EntriesOf
<1>9. KnownInv'
  BY <1>0, <1>1, <1>4, KnownFrame DEF shellVars, processVars, Up, Entered
<1>10. ServicesTypeOK'
  <2>1. walk' \in [Walker -> Walks]
    BY <1>0, <1>1, Typing
  <2> QED BY <1>0, <1>1, <1>2, <1>4, <2>1, Typing, TypedAgain
<1> QED BY <1>5, <1>6, <1>7, <1>8, <1>9, <1>10 DEF Rest, CloseInv

(* The thread of the turn and the walkers' teardowns.                       *)
LEMMA RegisterKeepsRest ==
  ASSUME Rest, ShellInv, Register
  PROVE  Rest'
<1>0. ServicesTypeOK /\ CloseInv /\ KnownInv /\ RunningIsKnown
  BY DEF Rest, KnownInv
<1>1. /\ call.step \in {"register", "refuse"} /\ call \in Calls /\ call.shell \in 0..MaxCalls
      /\ UNCHANGED <<timerVars, wakes, started, phase, walk, resetter, resets, disturbed, crossed,
                     stored, state>>
      /\ registered' = call.shell
      /\ entries' = IF "Bash" \in ToSet(entries) THEN entries ELSE Append(entries, "Bash")
  BY CallFacts DEF Register, RunCommand, LastRegistered, Calls
<1>2. /\ entries \in Seq(Keys) /\ "Bash" \in Keys /\ "Bash" \notin Source /\ started \subseteq Source
  BY <1>0, Typing, Constants DEF Keys
<1>3. /\ entries' \in Seq(Keys) /\ ToSet(entries') = ToSet(entries) \cup {"Bash"}
      /\ IsInjective(entries')
  BY <1>0, <1>1, <1>2, Appended DEF CloseInv, EntriesAreUnique
<1>4. phase \in {"closing", "closed"} => disturbed
  BY <1>0, <1>1 DEF CloseInv, CloseIsAlone
<1>5. WalkInv' /\ EntriesAreUnique'
  BY <1>0, <1>1, <1>3 DEF CloseInv, WalkInv, EntriesAreUnique, timerVars
<1>6. StartedAreEntered' /\ CloseIsAlone' /\ CloseFailsOnlyDisturbed'
  BY <1>0, <1>1, <1>3, <1>4 DEF CloseInv, StartedAreEntered, CloseIsAlone, CloseFailsOnlyDisturbed,
     timerVars
<1>7. LiveIsListed'
  <2>1. \A e \in Entry : SchedulerOf[e] # "Bash"
    BY Constants
  <2> QED BY <1>0, <1>1, <1>3, <1>4, <2>1
          DEF CloseInv, LiveIsListed, Live, Standing, Emptied, timerVars, schedulerVars
<1>8. ResetReaches' /\ CloseReaches'
  BY <1>1, CallFrame
<1>9. RunningIsKnown'
  <2>1. CASE call.step = "register"
    <3>1. /\ call'.step = "command" /\ call'.shell = call.shell /\ call'.state = call.state
          /\ process' = process
      BY <2>1, StartedCall DEF Register, RunCommand
    <3> QED BY <1>0, <1>1, <1>3, <2>1, <3>1 DEF RunningIsKnown, Up, Entered
  <2>2. CASE call.step = "refuse"
    <3>1. call' = NoCall /\ call'.step = "idle" /\ process' = process
      BY <2>2, CallRecords DEF Register, RunCommand, processVars
    <3> QED BY <1>0, <1>1, <1>3, <2>2, <3>1 DEF RunningIsKnown, Up, Entered
  <2> QED BY <1>1, <2>1, <2>2
<1>10. ServicesTypeOK'
  <2>1. walk' \in [Walker -> Walks]
    BY <1>0, <1>1, Typing
  <2> QED BY <1>0, <1>1, <1>3, <2>1, Typing, TypedAgain
<1> QED BY <1>5, <1>6, <1>7, <1>8, <1>9, <1>10 DEF Rest, CloseInv, KnownInv

LEMMA BashKeepsRest ==
  ASSUME Rest, ShellInv, NEW lifetime, Bash(lifetime)
  PROVE  Rest'
<1>0. ServicesTypeOK /\ CloseInv /\ KnownInv /\ RunningIsKnown
  BY DEF Rest, KnownInv
<1>1. /\ phase = "open" /\ call.step = "idle" /\ BeginCall(lifetime)
      /\ UNCHANGED <<timerVars, wakes, started, entries, registered, phase, walk, resetter, resets,
                     disturbed, stored, state>>
      /\ crossed' = (crossed \/ walk["reset"].step # "none") /\ crossed' \in BOOLEAN
  BY <1>0 DEF Bash, BeginCall, ServicesTypeOK
<1>2. CloseInv'
  BY <1>0, <1>1, CloseFrame
<1>3. ServicesTypeOK'
  BY <1>0, <1>1 DEF ServicesTypeOK
<1>4. ResetReaches' /\ CloseReaches'
  BY <1>1 DEF ResetReaches, CloseReaches
<1>5. ASSUME ~crossed, walk["reset"].step = "none"
      PROVE  /\ call'.step # "idle" => call'.state = state
             /\ call'.step \in {"jobs", "register", "spawn"}
             /\ \A s \in Shell : process'[s] = "up" =>
                  /\ s = stored /\ s = registered /\ Entered
                  /\ s = call'.shell /\ call'.step # "spawn"
  <2>1. PICK now : now = IF stored # 0 /\ alive[stored] THEN stored ELSE 0
    OBVIOUS
  <2>2. \A s \in Shell : Up(s) => s = stored /\ s = registered /\ Entered /\ s = now
    <3>1. \A s \in Shell : s # 0 /\ (Up(s) => alive[s])
      BY Constants DEF Shell, ShellInv, ShellsAreOrderly
    <3> QED BY <1>0, <1>1, <1>5, <2>1, <3>1 DEF RunningIsKnown
  <2>3. NoCall \in Calls /\ now \in 0..MaxCalls /\ state \in Nat /\ stored \in 0..MaxCalls
    BY <2>1, CallRecords, CallFacts, Constants
  <2>4. CASE Kill(now) /\ call' = [NoCall EXCEPT !.step = "spawn", !.state = state]
    <3>1. call'.step = "spawn" /\ call'.state = state
      BY <2>3, <2>4 DEF Calls
    <3>2. \A s \in Shell : process'[s] = "up" => s # now /\ Up(s)
      BY <2>3, <2>4, Killed DEF ShellInv
    <3> QED BY <2>2, <3>1, <3>2
  <2>5. CASE /\ call' = [NoCall EXCEPT !.step = "register", !.shell = now, !.state = state]
             /\ UNCHANGED processVars
    <3>1. call'.step = "register" /\ call'.shell = now /\ call'.state = state
      BY <2>3, <2>5 DEF Calls
    <3> QED BY <2>2, <2>5, <3>1 DEF Up, processVars
  <2>6. CASE StartRun([NoCall EXCEPT !.step = "jobs", !.shell = now, !.state = state])
    <3>1. call' = [NoCall EXCEPT !.step = "jobs", !.shell = now, !.state = state] /\ process' = process
      BY <2>6 DEF StartRun
    <3>2. call'.step = "jobs" /\ call'.shell = now /\ call'.state = state
      BY <2>3, <3>1 DEF Calls
    <3> QED BY <2>2, <3>1, <3>2 DEF Up
  <2> QED BY <1>1, <2>1, <2>4, <2>5, <2>6 DEF BeginCall
<1>6. RunningIsKnown'
  BY <1>1, <1>5 DEF RunningIsKnown, Up, Entered
<1> QED BY <1>2, <1>3, <1>4, <1>6 DEF Rest, KnownInv

LEMMA SourceTeardownKeepsRest ==
  ASSUME Rest, TimersInv, NEW w \in Walker, SourceTeardown(w)
  PROVE  Rest'
<1>0. ServicesTypeOK /\ CloseInv /\ KnownInv /\ TimersTypeOK
  BY DEF Rest, TimersInv
<1>1. /\ UNCHANGED <<shellVars, wakes, started, entries, registered, phase, walk, resetter, resets,
                     disturbed, crossed, closing>>
      /\ TeardownStep(w)
  BY DEF SourceTeardown, servicesVars, TeardownStep, CancelCurrent, StopObserver, CancelNext
<1> DEFINE Downs == [source : Source \cup {None}, todo : SUBSET Entry,
                     step : {"none", "cancel", "stop", "returned", "raised"},
                     size : 0..Cardinality(Entry)]
<1>2. /\ teardown \in [Walker -> Downs] /\ chain \in [Entry -> {"none", "armed", "cancelled",
           "expired", "dispatching", "checked", "ended"}]
      /\ timers \subseteq Entry
  BY <1>0 DEF TimersTypeOK
<1>3. PICK src : src = teardown[w].source
  OBVIOUS
<1> DEFINE stepped(step) == [teardown[w] EXCEPT !.step = step]
<1>4. \A step \in {"stop", "returned", "raised"} :
        stepped(step) \in Downs /\ stepped(step).source = src /\ stepped(step).step = step
  BY <1>2, <1>3
<1> HIDE DEF stepped
<1>5. PICK down \in Downs :
        /\ teardown' = [teardown EXCEPT ![w] = down] /\ down.source = src
        /\ teardown[w].step \in {"cancel", "stop"}
        /\ \/ /\ src = Watcher /\ down.step \in {"stop", "returned"} /\ UNCHANGED <<chain, timers>>
           \/ /\ src \in Scheduler /\ teardown[w].step = "cancel" /\ down.step = "raised"
              /\ Cardinality(Listed(src)) # teardown[w].size /\ UNCHANGED <<chain, timers>>
           \/ /\ src \in Scheduler /\ teardown[w].step = "cancel" /\ down.step = "returned"
              /\ chain' = chain /\ timers' = timers \ EntriesOf(src)
           \/ /\ src \in Scheduler /\ teardown[w].step = "cancel" /\ down.step = "cancel"
              /\ down.size = teardown[w].size /\ timers' = timers
              /\ \E e \in Entry :
                   chain' = [chain EXCEPT ![e] = IF @ = "armed" THEN "cancelled" ELSE @]
  <2>1. CASE CancelCurrent(w)
    <3>1. /\ teardown' = [teardown EXCEPT ![w] = stepped("stop")] /\ src = Watcher
          /\ teardown[w].step = "cancel" /\ UNCHANGED <<chain, timers>>
      BY <1>2, <1>3, <2>1 DEF CancelCurrent, schedulerVars, stepped
    <3> QED BY <1>4, <3>1
  <2>2. CASE StopObserver(w)
    <3>1. /\ teardown' = [teardown EXCEPT ![w] = stepped("returned")]
          /\ src = Watcher /\ teardown[w].step = "stop" /\ UNCHANGED <<chain, timers>>
      BY <1>2, <1>3, <2>2 DEF StopObserver, schedulerVars, stepped
    <3> QED BY <1>4, <3>1
  <2>3. CASE CancelNext(w)
    <3>1. src \in Scheduler /\ teardown[w].step = "cancel"
      BY <1>3, <2>3 DEF CancelNext
    <3>2. CASE Cardinality(Listed(src)) # teardown[w].size
      <4>1. /\ teardown' = [teardown EXCEPT ![w] = stepped("raised")]
            /\ UNCHANGED <<chain, timers>>
        BY <1>2, <1>3, <2>3, <3>2 DEF CancelNext, schedulerVars, stepped
      <4> QED BY <1>4, <3>1, <3>2, <4>1
    <3>3. CASE Cardinality(Listed(src)) = teardown[w].size /\ teardown[w].todo = {}
      <4>1. /\ teardown' = [teardown EXCEPT ![w] = stepped("returned")]
            /\ chain' = chain /\ timers' = timers \ EntriesOf(src)
        BY <1>2, <1>3, <2>3, <3>3 DEF CancelNext, stepped
      <4> QED BY <1>4, <3>1, <4>1
    <3>4. CASE Cardinality(Listed(src)) = teardown[w].size /\ teardown[w].todo # {}
      <4>1. PICK e \in teardown[w].todo :
              /\ chain' = [chain EXCEPT ![e] = IF @ = "armed" THEN "cancelled" ELSE @]
              /\ teardown' = [teardown EXCEPT ![w].todo = @ \ {e}]
              /\ timers' = timers
        BY <1>3, <2>3, <3>4 DEF CancelNext
      <4>2. /\ e \in Entry
            /\ teardown' = [teardown EXCEPT ![w] = [teardown[w] EXCEPT !.todo = @ \ {e}]]
            /\ [teardown[w] EXCEPT !.todo = @ \ {e}] \in Downs
        BY <1>2, <4>1
      <4>3. /\ [teardown[w] EXCEPT !.todo = @ \ {e}].source = src
            /\ [teardown[w] EXCEPT !.todo = @ \ {e}].step = teardown[w].step
            /\ [teardown[w] EXCEPT !.todo = @ \ {e}].size = teardown[w].size
        BY <1>2, <1>3
      <4> QED BY <3>1, <4>1, <4>2, <4>3
    <3> QED BY <3>2, <3>3, <3>4
  <2> QED BY <1>1, <2>1, <2>2, <2>3 DEF TeardownStep
<1> HIDE DEF Downs
<1>6. /\ \A v \in Walker : teardown'[v] = IF v = w THEN down ELSE teardown[v]
      /\ \A v \in Walker : teardown'[v].source = teardown[v].source
      /\ \A v \in Walker : teardown'[v].step = "none" <=> teardown[v].step = "none"
      /\ \A v \in Walker : teardown[v].step = "returned" => teardown'[v].step = "returned"
  BY <1>2, <1>3, <1>5
<1>7. WalkInv' /\ EntriesAreUnique' /\ StartedAreEntered' /\ CloseFailsOnlyDisturbed'
  BY <1>0, <1>1, <1>6, Constants
     DEF CloseInv, WalkInv, EntriesAreUnique, StartedAreEntered, CloseFailsOnlyDisturbed
<1>8. LiveIsListed'
  <2>1. ASSUME NEW e \in Entry, Live(e)', Standing(SchedulerOf[e])', ~Emptied(SchedulerOf[e])'
        PROVE  e \in timers'
    <3>1. Live(e)
      BY <1>2, <1>5, <2>1 DEF Live
    <3>2. Standing(SchedulerOf[e])
      BY <1>1, <1>6, <2>1, Constants DEF Standing
    <3>3. ~Emptied(SchedulerOf[e])
      BY <1>6, <2>1 DEF Emptied
    <3>4. e \in timers
      BY <1>0, <3>1, <3>2, <3>3 DEF CloseInv, LiveIsListed
    <3>5. ASSUME timers' = timers \ EntriesOf(src), down.step = "returned" PROVE SchedulerOf[e] # src
      BY <1>5, <1>6, <2>1, <3>5 DEF Emptied
    <3> QED BY <1>5, <3>4, <3>5 DEF EntriesOf
  <2> QED BY <2>1 DEF LiveIsListed
<1>9. CloseIsAlone'
  <2>1. ASSUME phase = "closing", ~disturbed
        PROVE  /\ teardown'["close"].step # "raised"
               /\ teardown'["close"].step = "cancel" /\ teardown'["close"].source \in Scheduler =>
                    /\ timers' = timers
                    /\ Cardinality(Listed(teardown["close"].source)) = teardown'["close"].size
    <3>1. w = "close"
      BY <1>5, <2>1, CloseTearsDownAlone, Constants
    <3>2. /\ teardown["close"].step = "cancel" /\ teardown["close"].source \in Scheduler =>
               Cardinality(Listed(teardown["close"].source)) = teardown["close"].size
      BY <1>0, <2>1 DEF CloseInv, CloseIsAlone
    <3>3. Watcher \notin Scheduler
      BY Constants
    <3> QED BY <1>3, <1>5, <1>6, <3>1, <3>2, <3>3
  <2>2. timers' = timers => \A sch : Listed(sch)' = Listed(sch)
    BY DEF Listed
  <2>3. teardown'["close"].source = teardown["close"].source
    BY <1>6, Constants
  <2> QED BY <1>0, <1>1, <2>1, <2>2, <2>3 DEF CloseInv, CloseIsAlone, shellVars
<1>10. KnownInv'
  BY <1>0, <1>1, KnownFrame DEF shellVars, processVars, Up, Entered
<1>11. ServicesTypeOK'
  BY <1>0, <1>1 DEF ServicesTypeOK
<1> QED BY <1>7, <1>8, <1>9, <1>10, <1>11 DEF Rest, CloseInv

(* A walker enters the teardown of a source.                                *)
LEMMA TeardownBegun ==
  ASSUME TimersTypeOK, NEW w \in Walker, NEW src \in Source, BeginTeardown(w, src)
  PROVE  /\ \A s \in Source : closing[s] => closing'[s]
         /\ closing'[src] /\ UNCHANGED <<chain, timers>>
         /\ teardown'[w].source = src /\ teardown'[w].step = "cancel"
         /\ src \in Scheduler => teardown'[w].size = Cardinality(Listed(src))
         /\ \A v \in Walker \ {w} : teardown'[v] = teardown[v]
<1>1. CASE src = Watcher
  <2>1. teardown' = [teardown EXCEPT ![w] = [NoTeardown EXCEPT !.source = src, !.step = "cancel"]]
    BY <1>1 DEF BeginTeardown
  <2> QED BY <1>1, <2>1, Constants DEF TimersTypeOK, BeginTeardown, NoTeardown, schedulerVars
<1>2. CASE src # Watcher
  <2>1. teardown' = [teardown EXCEPT ![w] =
                       [source |-> src, step |-> "cancel", todo |-> Listed(src),
                        size |-> Cardinality(Listed(src))]]
    BY <1>2 DEF BeginTeardown
  <2> QED BY <1>2, <2>1 DEF TimersTypeOK, BeginTeardown, schedulerVars
<1> QED BY <1>1, <1>2

LEMMA TeardownEnded ==
  ASSUME TimersTypeOK, NEW w \in Walker, teardown' = [teardown EXCEPT ![w] = NoTeardown]
  PROVE  /\ teardown'[w].source = None /\ teardown'[w].step = "none"
         /\ \A v \in Walker \ {w} : teardown'[v] = teardown[v]
BY DEF TimersTypeOK, NoTeardown

LEMMA BeginCloseKeepsRest ==
  ASSUME Rest, BeginClose
  PROVE  Rest'
<1>0. ServicesTypeOK /\ CloseInv /\ KnownInv
  BY DEF Rest
<1>1. /\ phase = "open" /\ phase' = "closing"
      /\ disturbed' = (call.step # "idle" \/ resetter # None)
      /\ UNCHANGED <<timerVars, shellVars, wakes, started, entries, registered, resetter, resets,
                     crossed>>
      /\ walk' = [walk EXCEPT !["close"] =
                     [NoWalk EXCEPT !.step = "walk", !.todo = entries, !.size = Len(entries)]]
  BY DEF BeginClose
<1>2. entries \in Seq(Keys) /\ Len(entries) \in Nat /\ walk \in [Walker -> Walks]
  BY <1>0, Typing
<1>3. PICK new \in Walks : /\ new.step = "walk" /\ new.todo = entries /\ new.size = Len(entries)
                           /\ walk' = [walk EXCEPT !["close"] = new]
  BY <1>1, <1>2, WalkRecords DEF Walks
<1>4. /\ walk' \in [Walker -> Walks] /\ walk'["close"] = new /\ walk'["reset"] = walk["reset"]
  BY <1>2, <1>3, Constants
<1>5. teardown["close"].step = "none" /\ teardown["close"].source = None
  BY <1>0, <1>1, Constants DEF CloseInv, WalkInv
<1>6. None \notin Keys /\ None \notin Source /\ ToSet(entries) \subseteq Keys
  BY <1>2, Constants, Members DEF Keys
<1>7. WalkInv'
  BY <1>0, <1>1, <1>3, <1>4, <1>5, Constants DEF CloseInv, WalkInv, timerVars
<1>8. EntriesAreUnique'
  BY <1>0, <1>1, <1>3, <1>4, <1>5, <1>6 DEF CloseInv, EntriesAreUnique, timerVars
<1>9. StartedAreEntered' /\ CloseFailsOnlyDisturbed'
  BY <1>0, <1>1, <1>3, <1>4 DEF CloseInv, StartedAreEntered, CloseFailsOnlyDisturbed, timerVars
<1>10. ~disturbed' => walk["reset"].step = "none" /\ call.step = "idle"
  BY <1>0, <1>1 DEF CloseInv, WalkInv
<1>11. CloseIsAlone'
  BY <1>1, <1>3, <1>4, <1>5, <1>10 DEF CloseIsAlone, timerVars, shellVars
<1>12. LiveIsListed'
  <2>1. \A e \in Entry : Standing(SchedulerOf[e])' => Standing(SchedulerOf[e])
    BY <1>1, <1>3, <1>4, <1>5, <1>6, Constants DEF Standing, timerVars
  <2> QED BY <1>0, <1>1, <2>1 DEF CloseInv, LiveIsListed, Live, Emptied, timerVars, schedulerVars
<1>13. KnownInv'
  BY <1>0, <1>1, <1>3, <1>4, <1>10
     DEF KnownInv, RunningIsKnown, ResetReaches, CloseReaches, Up, Entered, shellVars, processVars
<1>14. ServicesTypeOK'
  BY <1>0, <1>1, <1>4, Typing, TypedAgain
<1> QED BY <1>7, <1>8, <1>9, <1>11, <1>12, <1>13, <1>14 DEF Rest, CloseInv

(* The close comes to an end: it has walked through its list, or the list   *)
(* or a teardown under it has changed.                                      *)
LEMMA CloseEndsKeepsRest ==
  ASSUME Rest, phase = "closing", phase' \in {"closed", "failed"},
         phase' = "failed" => disturbed /\ entries' = entries,
         phase' = "closed" => walk["close"].todo = <<>> /\ entries' = <<>>,
         walk' = [walk EXCEPT !["close"] = NoWalk],
         teardown'["close"].step = "none", teardown'["close"].source = None,
         teardown'["reset"] = teardown["reset"],
         UNCHANGED <<watcherVars, schedulerVars, closing, shellVars, wakes, started, registered,
                     resetter, resets, disturbed, crossed>>
  PROVE  Rest'
<1>0. ServicesTypeOK /\ CloseInv /\ KnownInv
  BY DEF Rest
<1>1. /\ walk' \in [Walker -> Walks] /\ walk'["close"] = NoWalk /\ walk'["reset"] = walk["reset"]
  BY <1>0, Typing, WalkRecords, Constants
<1>2. entries' \in Seq(Keys) /\ ToSet(entries') \subseteq ToSet(entries) /\ IsInjective(entries')
  <2>1. entries' = entries \/ entries' = <<>>
    OBVIOUS
  <2>2. entries \in Seq(Keys) /\ <<>> \in Seq(Keys) /\ IsInjective(entries)
    BY <1>0, Typing DEF CloseInv, EntriesAreUnique
  <2> QED BY <2>1, <2>2, EmptyList
<1>3. WalkInv'
  BY <1>0, <1>1, WalkRecords, Constants DEF CloseInv, WalkInv
<1>4. EntriesAreUnique'
  BY <1>0, <1>1, <1>2, WalkRecords, EmptyList DEF CloseInv, EntriesAreUnique
<1>5. StartedAreEntered' /\ CloseFailsOnlyDisturbed'
  BY <1>0, EmptyList DEF CloseInv, StartedAreEntered, CloseFailsOnlyDisturbed
<1>6. CloseIsAlone'
  BY <1>0 DEF CloseInv, CloseIsAlone, shellVars
<1>7. LiveIsListed'
  BY DEF LiveIsListed, Standing
<1>8. KnownInv'
  BY <1>0, EmptyList
     DEF KnownInv, RunningIsKnown, ResetReaches, CloseReaches, Up, shellVars, processVars
<1>9. ServicesTypeOK'
  BY <1>0, <1>1, <1>2, Typing, TypedAgain
<1> QED BY <1>3, <1>4, <1>5, <1>6, <1>7, <1>8, <1>9 DEF Rest, CloseInv

(* The close calls the teardown of the next entry.                          *)
LEMMA CloseTearsDownKeepsRest ==
  ASSUME Rest, TimersInv, ShellInv, walk["close"].step = "walk", walk["close"].todo # <<>>,
         TearDown("close"),
         walk' = [walk EXCEPT !["close"].step =
                                 IF Head(walk["close"].todo) = "Bash" THEN "walk" ELSE "call",
                              !["close"].todo = Tail(@)],
         UNCHANGED <<phase, entries, wakes, started, registered, resetter, resets, disturbed, crossed>>
  PROVE  Rest'
<1>0. ServicesTypeOK /\ CloseInv /\ KnownInv /\ TimersTypeOK
  BY DEF Rest, TimersInv
<1>1. PICK x, list, rest : x = Head(walk["close"].todo) /\ list = walk["close"].todo /\ rest = Tail(list)
  OBVIOUS
<1>2. walk \in [Walker -> Walks] /\ walk["close"] \in Walks /\ list \in Seq(Keys)
  BY <1>0, <1>1, Typing DEF Walks
<1>3. /\ x \in Keys /\ rest \in Seq(Keys) /\ ToSet(list) = ToSet(rest) \cup {x}
      /\ IsInjective(list) => IsInjective(rest) /\ x \notin ToSet(rest)
  BY <1>1, <1>2, Headless
<1>4. IsInjective(list) /\ phase = "closing" /\ teardown["close"].step = "none"
  BY <1>0, <1>1, Constants DEF CloseInv, EntriesAreUnique, WalkInv
<1>5. /\ walk' \in [Walker -> Walks] /\ walk'["reset"] = walk["reset"]
      /\ walk'["close"].step = IF x = "Bash" THEN "walk" ELSE "call"
      /\ walk'["close"].todo = rest /\ walk'["close"].size = walk["close"].size
  BY <1>1, <1>2, <1>3, Constants DEF Walks
<1>6. ServicesTypeOK'
  BY <1>0, <1>5, Typing, TypedAgain
<1>7. CloseFailsOnlyDisturbed' /\ RunningIsKnown' /\ ResetReaches'
  BY <1>4 DEF CloseFailsOnlyDisturbed, RunningIsKnown, ResetReaches
<1>8. CASE x = "Bash"
  <2>1. /\ Kill(registered) /\ UNCHANGED <<timerVars, countVars, stored, state, call, run>>
    BY <1>1, <1>8 DEF TearDown, Registered
  <2>2. "Bash" \notin Source /\ \A e \in Entry : SchedulerOf[e] # "Bash"
    BY Constants
  <2>3. started \subseteq Source /\ registered \in 0..MaxCalls
    BY <1>0, Typing
  <2>4. WalkInv'
    BY <1>0, <1>4, <1>5, <1>8, <2>1, Constants DEF CloseInv, WalkInv, timerVars
  <2>5. EntriesAreUnique'
    BY <1>0, <1>1, <1>3, <1>4, <1>5, <2>1 DEF CloseInv, EntriesAreUnique, timerVars
  <2>6. StartedAreEntered'
    BY <1>0, <1>1, <1>3, <1>4, <1>5, <1>8, <2>1, <2>2, <2>3 DEF CloseInv, StartedAreEntered, timerVars
  <2>7. CloseIsAlone'
    BY <1>0, <1>4, <1>5, <2>1 DEF CloseInv, CloseIsAlone, timerVars, schedulerVars, Listed
  <2>8. LiveIsListed'
    BY <1>0, <1>1, <1>3, <1>4, <1>5, <2>1
       DEF CloseInv, LiveIsListed, Live, Standing, Emptied, timerVars, schedulerVars
  <2>9. CloseReaches'
    <3>1. \A s \in Shell : process'[s] = "up" => Up(s) /\ s # registered
      BY <2>1, <2>3, Killed DEF ShellInv
    <3> QED BY <1>0, <1>4, <3>1 DEF KnownInv, CloseReaches, Up
  <2> QED BY <1>6, <1>7, <2>4, <2>5, <2>6, <2>7, <2>8, <2>9 DEF Rest, CloseInv, KnownInv
<1>9. CASE x # "Bash"
  <2>1. x \in Source /\ BeginTeardown("close", x) /\ UNCHANGED shellVars
    BY <1>1, <1>3, <1>9 DEF TearDown, Keys
  <2>2. /\ \A s \in Source : closing[s] => closing'[s]
        /\ closing'[x] /\ UNCHANGED <<chain, timers>>
        /\ teardown'["close"].source = x /\ teardown'["close"].step = "cancel"
        /\ x \in Scheduler => teardown'["close"].size = Cardinality(Listed(x))
        /\ teardown'["reset"] = teardown["reset"]
    BY <1>0, <2>1, TeardownBegun, Constants
  <2>3. started \subseteq Source
    BY <1>0, Typing
  <2>4. WalkInv'
    BY <1>0, <1>4, <1>5, <1>9, <2>2, Constants DEF CloseInv, WalkInv
  <2>5. EntriesAreUnique'
    BY <1>0, <1>1, <1>3, <1>4, <1>5, <2>2 DEF CloseInv, EntriesAreUnique
  <2>6. StartedAreEntered'
    BY <1>0, <1>1, <1>3, <1>4, <1>5, <2>2, <2>3 DEF CloseInv, StartedAreEntered
  <2>7. CloseIsAlone'
    <3>1. \A sch : Listed(sch)' = Listed(sch)
      BY <2>2 DEF Listed
    <3> QED BY <1>0, <1>4, <1>5, <2>1, <2>2, <3>1 DEF CloseInv, CloseIsAlone, shellVars
  <2>8. LiveIsListed'
    <3>1. \A src : Standing(src)' => Standing(src)
      BY <1>1, <1>3, <1>4, <1>5, <2>2 DEF Standing
    <3>2. \A src : Emptied(src) => Emptied(src)'
      BY <1>4, <2>2, Constants DEF Emptied
    <3> QED BY <1>0, <2>2, <3>1, <3>2 DEF CloseInv, LiveIsListed, Live
  <2>9. CloseReaches'
    BY <1>0, <1>1, <1>3, <1>4, <1>5, <1>9, <2>1 DEF KnownInv, CloseReaches, Up, shellVars, processVars
  <2> QED BY <1>6, <1>7, <2>4, <2>5, <2>6, <2>7, <2>8, <2>9 DEF Rest, CloseInv, KnownInv
<1> QED BY <1>8, <1>9

LEMMA CloseNextKeepsRest ==
  ASSUME Rest, TimersInv, ShellInv, CloseNext
  PROVE  Rest'
<1>1. /\ walk["close"].step = "walk"
      /\ UNCHANGED <<wakes, started, registered, resetter, resets, disturbed, crossed>>
  BY DEF CloseNext
<1>2. phase = "closing" /\ teardown["close"].step = "none" /\ teardown["close"].source = None
  BY <1>1, Constants DEF Rest, CloseInv, WalkInv
<1>3. CASE Len(entries) # walk["close"].size
  <2>1. disturbed
    BY <1>2, <1>3 DEF Rest, CloseInv, CloseIsAlone
  <2> QED BY <1>1, <1>2, <1>3, <2>1, CloseEndsKeepsRest DEF CloseNext, timerVars
<1>4. CASE Len(entries) = walk["close"].size /\ walk["close"].todo = <<>>
  BY <1>1, <1>2, <1>4, CloseEndsKeepsRest DEF CloseNext, timerVars
<1>5. CASE Len(entries) = walk["close"].size /\ walk["close"].todo # <<>>
  BY <1>1, <1>5, CloseTearsDownKeepsRest DEF CloseNext
<1> QED BY <1>3, <1>4, <1>5

LEMMA CloseReturnedKeepsRest ==
  ASSUME Rest, TimersInv, CloseReturned
  PROVE  Rest'
<1>0. ServicesTypeOK /\ CloseInv /\ KnownInv /\ TimersTypeOK
  BY DEF Rest, TimersInv
<1>1. PICK raised \in BOOLEAN : raised <=> teardown["close"].step = "raised"
  OBVIOUS
<1>2. /\ walk["close"].step = "call" /\ teardown["close"].step \in {"returned", "raised"}
      /\ teardown' = [teardown EXCEPT !["close"] = NoTeardown]
      /\ walk' = [walk EXCEPT !["close"] = IF raised THEN NoWalk ELSE [@ EXCEPT !.step = "walk"]]
      /\ phase' = IF raised THEN "failed" ELSE phase
      /\ UNCHANGED <<watcherVars, schedulerVars, closing, shellVars, wakes, started, entries,
                     registered, resetter, resets, disturbed, crossed>>
  BY <1>1 DEF CloseReturned
<1>3. /\ teardown'["close"].source = None /\ teardown'["close"].step = "none"
      /\ teardown'["reset"] = teardown["reset"]
  BY <1>0, <1>2, TeardownEnded, Constants
<1>4. phase = "closing"
  BY <1>0, <1>2 DEF CloseInv, WalkInv
<1>5. CASE raised
  <2>1. disturbed
    BY <1>0, <1>1, <1>4, <1>5 DEF CloseInv, CloseIsAlone
  <2> QED BY <1>2, <1>3, <1>4, <1>5, <2>1, CloseEndsKeepsRest
<1>6. CASE ~raised
  <2>1. walk \in [Walker -> Walks] /\ walk["close"] \in Walks
    BY <1>0, Typing
  <2>2. /\ walk' \in [Walker -> Walks] /\ walk'["reset"] = walk["reset"]
        /\ walk'["close"].step = "walk" /\ walk'["close"].todo = walk["close"].todo
        /\ walk'["close"].size = walk["close"].size /\ phase' = phase
    BY <1>2, <1>6, <2>1, Constants DEF Walks
  <2>3. ToSet(walk["close"].todo) \subseteq Keys /\ None \notin Keys /\ None \notin Source
    BY <2>1, Members, Constants DEF Walks, Keys
  <2>4. WalkInv'
    BY <1>0, <1>2, <1>3, <1>4, <2>2, Constants DEF CloseInv, WalkInv
  <2>5. EntriesAreUnique'
    BY <1>0, <1>2, <1>3, <2>2, <2>3 DEF CloseInv, EntriesAreUnique
  <2>6. StartedAreEntered' /\ CloseFailsOnlyDisturbed'
    BY <1>0, <1>2, <2>2 DEF CloseInv, StartedAreEntered, CloseFailsOnlyDisturbed
  <2>7. CloseIsAlone'
    BY <1>0, <1>2, <1>3, <2>2 DEF CloseInv, CloseIsAlone, shellVars
  <2>8. LiveIsListed'
    <3>1. \A src \in Source : Standing(src)' => Standing(src) /\ teardown["close"].source # src
      BY <1>0, <1>2, <1>3, <1>4, <2>2, <2>3 DEF Standing, CloseInv, EntriesAreUnique
    <3>2. \A src \in Source : Emptied(src) /\ teardown["close"].source # src => Emptied(src)'
      BY <1>3, Constants DEF Emptied
    <3>3. \A e \in Entry : SchedulerOf[e] \in Source
      BY Constants
    <3> QED BY <1>0, <1>2, <3>1, <3>2, <3>3 DEF CloseInv, LiveIsListed, Live, schedulerVars
  <2>9. KnownInv'
    BY <1>0, <1>2, <2>2
       DEF KnownInv, RunningIsKnown, ResetReaches, CloseReaches, Up, Entered, shellVars, processVars
  <2>10. ServicesTypeOK'
    BY <1>0, <1>2, <2>2, Typing, TypedAgain
  <2> QED BY <2>4, <2>5, <2>6, <2>7, <2>8, <2>9, <2>10 DEF Rest, CloseInv
<1> QED BY <1>5, <1>6

(* A reset moves on: the close, if there is one, is disturbed.              *)
LEMMA ResetKeepsClose ==
  ASSUME ServicesTypeOK, CloseInv,
         UNCHANGED <<call, chain, timers, wakes, started, phase>>,
         disturbed' = (disturbed \/ phase = "closing"),
         entries' \in Seq(Keys), IsInjective(entries'), ToSet(entries') \subseteq ToSet(entries),
         \A src \in started : src \in ToSet(entries) => src \in ToSet(entries') \/ closing'[src],
         \A src \in Source : closing[src] => closing'[src],
         walk'["close"] = walk["close"], teardown'["close"] = teardown["close"],
         walk'["reset"].step # "none" => resetter' # None,
         walk'["reset"].step = "call" <=> teardown'["reset"].step # "none",
         teardown'["reset"].step = "none" => teardown'["reset"].source = None,
         walk'["reset"].step = "call" =>
           walk'["reset"].todo # <<>> /\ Head(walk'["reset"].todo) = teardown'["reset"].source,
         \A src \in ToSet(entries') :
           teardown["reset"].source = src /\ teardown["reset"].step = "returned" =>
             teardown'["reset"].source = src /\ teardown'["reset"].step = "returned"
  PROVE  CloseInv'
<1>1. WalkInv'
  BY Constants DEF CloseInv, WalkInv
<1>2. EntriesAreUnique'
  BY DEF CloseInv, EntriesAreUnique
<1>3. StartedAreEntered'
  BY Typing DEF CloseInv, StartedAreEntered
<1>4. CloseIsAlone' /\ CloseFailsOnlyDisturbed'
  BY DEF CloseInv, CloseIsAlone, CloseFailsOnlyDisturbed
<1>5. LiveIsListed'
  <2>1. \A src : Standing(src)' => Standing(src) /\ src \in ToSet(entries')
    BY DEF Standing
  <2>2. \A src \in ToSet(entries') : Emptied(src) => Emptied(src)'
    BY Constants DEF Emptied
  <2> QED BY <2>1, <2>2 DEF CloseInv, LiveIsListed, Live
<1> QED BY <1>1, <1>2, <1>3, <1>4, <1>5 DEF CloseInv

LEMMA ResetKeepsCloseReaches ==
  ASSUME KnownInv, phase' = phase, disturbed' = (disturbed \/ phase = "closing"),
         crossed => crossed', \A s \in Shell : process'[s] = "up" => Up(s)
  PROVE  CloseReaches'
BY DEF KnownInv, CloseReaches, Up

LEMMA WipeKeepsRest ==
  ASSUME Rest, Wipe
  PROVE  Rest'
<1>0. ServicesTypeOK /\ CloseInv /\ KnownInv
  BY DEF Rest
<1>1. /\ resetter # None /\ walk["reset"].step = "none"
      /\ walk' = [walk EXCEPT !["reset"] =
                     [NoWalk EXCEPT !.step = "walk", !.todo = entries, !.kill = registered]]
      /\ crossed' = (crossed \/ call.step # "idle")
      /\ disturbed' = (disturbed \/ phase = "closing")
      /\ UNCHANGED <<timerVars, processVars, call, wakes, started, entries, registered, phase,
                     resetter, resets>>
  BY DEF Wipe
<1>2. /\ entries \in Seq(Keys) /\ registered \in 0..MaxCalls /\ walk \in [Walker -> Walks]
      /\ disturbed \in BOOLEAN /\ crossed \in BOOLEAN
  BY <1>0, Typing
<1>3. PICK new \in Walks : /\ new.step = "walk" /\ new.todo = entries /\ new.kill = registered
                           /\ walk' = [walk EXCEPT !["reset"] = new]
  BY <1>1, <1>2, WalkRecords DEF Walks
<1>4. /\ walk' \in [Walker -> Walks] /\ walk'["reset"] = new /\ walk'["close"] = walk["close"]
  BY <1>2, <1>3, Constants
<1>5. teardown["reset"].step = "none" /\ teardown["reset"].source = None
  BY <1>0, <1>1, Constants DEF CloseInv, WalkInv
<1>6. CloseInv'
  BY <1>0, <1>1, <1>2, <1>3, <1>4, <1>5, ResetKeepsClose
     DEF timerVars, schedulerVars, CloseInv, EntriesAreUnique
<1>7. RunningIsKnown' /\ ResetReaches'
  BY <1>0, <1>1, <1>3, <1>4 DEF KnownInv, RunningIsKnown, ResetReaches, Up, Entered, processVars
<1>8. CloseReaches'
  BY <1>0, <1>1, ResetKeepsCloseReaches DEF processVars, Up
<1>9. disturbed' \in BOOLEAN /\ crossed' \in BOOLEAN
  BY <1>1, <1>2
<1>10. ServicesTypeOK'
  BY <1>0, <1>1, <1>4, <1>9, Typing, TypedAgain
<1> QED BY <1>6, <1>7, <1>8, <1>10 DEF Rest, KnownInv

(* A reset skips no entry: the shell's key is not one of those it passes    *)
(* over, and the keys of the sources are pairs.                             *)
LEMMA NothingIsSkipped == \A x \in Keys : Key(x) \notin Infrastructure
<1>1. Key("Bash") = <<"Bash">>
  BY Constants DEF Key
<1>2. ASSUME NEW x \in Keys, x # "Bash" PROVE \E kind : Key(x) = <<kind, x>>
  <2>1. Key(x) = <<"FileSystemWatcher", x>> \/ Key(x) = <<"TimerScheduler", x>>
    BY <1>2 DEF Key
  <2> QED BY <2>1
<1>3. <<"Bash">> \notin Infrastructure
  <2>1. \A a, b : <<a>> = <<b>> => a = b
    OBVIOUS
  <2>2. "Bash" # "FileSystemWatcher" /\ "Bash" # "TimerScheduler" /\ "Bash" # "WorkspaceIndexer"
    OBVIOUS
  <2> QED BY <2>1, <2>2 DEF Infrastructure
<1>4. \A kind, x : <<kind, x>> \notin Infrastructure
  <2>1. \A a, b, c : <<a, b>> # <<c>>
    <3>1. ASSUME NEW a, NEW b, NEW c, <<a, b>> = <<c>> PROVE FALSE
      <4>1. Len(<<a, b>>) = 2 /\ Len(<<c>>) = 1
        OBVIOUS
      <4> QED BY <3>1, <4>1
    <3> QED BY <3>1
  <2> QED BY <2>1 DEF Infrastructure
<1> QED BY <1>1, <1>2, <1>3, <1>4

(* The reset is over, with what it still had to do left undone.             *)
LEMMA ResetOverKeepsRest ==
  ASSUME Rest, walk["reset"].step # "none", ServicesTypeOK, TimersTypeOK,
         walk' = [walk EXCEPT !["reset"] = NoWalk], resetter' = None,
         teardown'["reset"].step = "none", teardown'["reset"].source = None,
         teardown'["close"] = teardown["close"],
         teardown["reset"].step = "returned" => teardown["reset"].source \notin ToSet(entries),
         crossed' = (crossed \/ "Bash" \in ToSet(walk["reset"].todo)),
         disturbed' = (disturbed \/ phase = "closing"),
         \A s \in Shell : process'[s] = "up" => Up(s),
         UNCHANGED <<call, stored, state, chain, timers, closing, wakes, started, entries, registered,
                     phase, resets>>
  PROVE  Rest'
<1>0. ServicesTypeOK /\ CloseInv /\ KnownInv
  BY DEF Rest
<1>1. /\ walk' \in [Walker -> Walks] /\ walk'["reset"] = NoWalk /\ walk'["close"] = walk["close"]
  BY <1>0, Typing, WalkRecords, Constants
<1>2. entries \in Seq(Keys) /\ IsInjective(entries) /\ disturbed \in BOOLEAN /\ crossed \in BOOLEAN
  BY <1>0, Typing DEF CloseInv, EntriesAreUnique
<1>3. CloseInv'
  BY <1>0, <1>1, <1>2, WalkRecords, ResetKeepsClose
<1>4. RunningIsKnown' /\ ResetReaches'
  BY <1>0, <1>1, WalkRecords DEF KnownInv, RunningIsKnown, ResetReaches, Up
<1>5. CloseReaches'
  BY <1>0, ResetKeepsCloseReaches
<1>6. disturbed' \in BOOLEAN /\ crossed' \in BOOLEAN
  BY <1>2
<1>7. ServicesTypeOK'
  BY <1>0, <1>1, <1>6, Typing, TypedAgain
<1> QED BY <1>3, <1>4, <1>5, <1>7 DEF Rest, KnownInv

(* The reset deletes the entry it has torn down, which is the next one of   *)
(* its list.                                                                *)
LEMMA DeletedKeepsRest ==
  ASSUME Rest, walk["reset"].step # "none", walk["reset"].todo # <<>>, ServicesTypeOK, TimersTypeOK,
         NEW x \in Keys, x = Head(walk["reset"].todo),
         x = "Bash" => \A s \in Shell : process'[s] = "up" => s # walk["reset"].kill,
         x # "Bash" => closing[x],
         NEW i \in 1..Len(entries), entries[i] = x, entries' = RemoveAt(entries, i),
         walk' = [walk EXCEPT !["reset"].todo = Tail(@), !["reset"].step = "walk"],
         teardown'["reset"].step = "none", teardown'["reset"].source = None,
         teardown'["close"] = teardown["close"],
         teardown["reset"].step = "returned" => teardown["reset"].source = x,
         disturbed' = (disturbed \/ phase = "closing"),
         \A s \in Shell : process'[s] = "up" => Up(s),
         UNCHANGED <<call, stored, state, chain, timers, closing, wakes, started, registered, phase,
                     resetter, resets, crossed>>
  PROVE  Rest'
<1>0. ServicesTypeOK /\ CloseInv /\ KnownInv
  BY DEF Rest
<1>1. /\ entries \in Seq(Keys) /\ IsInjective(entries) /\ disturbed \in BOOLEAN
      /\ walk \in [Walker -> Walks] /\ walk["reset"] \in Walks /\ walk["reset"].todo \in Seq(Keys)
  BY <1>0, Typing DEF CloseInv, EntriesAreUnique, Walks
<1>2. /\ Tail(walk["reset"].todo) \in Seq(Keys)
      /\ ToSet(walk["reset"].todo) = ToSet(Tail(walk["reset"].todo)) \cup {x}
  BY <1>1, Headless
<1>3. /\ walk' \in [Walker -> Walks] /\ walk'["close"] = walk["close"]
      /\ walk'["reset"].step = "walk" /\ walk'["reset"].todo = Tail(walk["reset"].todo)
      /\ walk'["reset"].kill = walk["reset"].kill
  BY <1>1, <1>2, Constants DEF Walks
<1>4. /\ entries' \in Seq(Keys) /\ IsInjective(entries') /\ x \notin ToSet(entries')
      /\ ToSet(entries) = ToSet(entries') \cup {x}
  BY <1>1, RemovedMember
<1>5. started \subseteq Source /\ "Bash" \notin Source /\ resetter # None
  BY <1>0, Typing, Constants DEF CloseInv, WalkInv
<1>6. \A src \in started : src \in ToSet(entries) => src \in ToSet(entries') \/ closing'[src]
  BY <1>4, <1>5
<1>7. CloseInv'
  BY <1>0, <1>1, <1>3, <1>4, <1>5, <1>6, ResetKeepsClose
<1>8. RunningIsKnown' /\ ResetReaches'
  BY <1>0, <1>2, <1>3 DEF KnownInv, RunningIsKnown, ResetReaches, Up
<1>9. CloseReaches'
  BY <1>0, ResetKeepsCloseReaches
<1>10. disturbed' \in BOOLEAN
  BY <1>1
<1>11. ServicesTypeOK'
  BY <1>0, <1>3, <1>4, <1>10, Typing, TypedAgain
<1> QED BY <1>7, <1>8, <1>9, <1>11 DEF Rest, KnownInv

LEMMA ResetNextKeepsRest ==
  ASSUME Rest, TimersInv, ShellInv, ResetNext
  PROVE  Rest'
<1>0. ServicesTypeOK /\ CloseInv /\ KnownInv /\ TimersTypeOK
  BY DEF Rest, TimersInv
<1>1. /\ walk["reset"].step = "walk"
      /\ disturbed' = (disturbed \/ phase = "closing")
      /\ UNCHANGED <<wakes, started, registered, phase, resets>>
  BY DEF ResetNext
<1>2. teardown["reset"].step = "none" /\ teardown["reset"].source = None /\ resetter # None
  BY <1>0, <1>1, Constants DEF CloseInv, WalkInv
<1>3. CASE walk["reset"].todo = <<>>
  <2>1. /\ walk' = [walk EXCEPT !["reset"] = NoWalk] /\ resetter' = None
        /\ UNCHANGED <<timerVars, shellVars, entries, crossed>>
    BY <1>3 DEF ResetNext, ResetEnds
  <2>2. crossed' = (crossed \/ "Bash" \in ToSet(walk["reset"].todo))
    BY <1>0, <1>3, <2>1, EmptyList, Typing
  <2>3. \A s \in Shell : process'[s] = "up" => Up(s)
    BY <2>1 DEF shellVars, processVars, Up
  <2> QED BY <1>0, <1>1, <1>2, <2>1, <2>2, <2>3, ResetOverKeepsRest
          DEF timerVars, schedulerVars, shellVars
<1>4. ASSUME walk["reset"].todo # <<>>, NEW x, x = Head(walk["reset"].todo)
      PROVE  Rest'
  <2>1. walk \in [Walker -> Walks] /\ walk["reset"] \in Walks /\ walk["reset"].todo \in Seq(Keys)
    BY <1>0, Typing DEF Walks
  <2>2. x \in Keys /\ Key(x) \notin Infrastructure
    BY <1>4, <2>1, Headless, NothingIsSkipped
  <2>3. /\ TearDown("reset")
        /\ IF x = "Bash"
             THEN Delete("Bash")
             ELSE /\ walk' = [walk EXCEPT !["reset"].step = "call"]
                  /\ UNCHANGED <<entries, resetter, crossed>>
    BY <1>1, <1>4, <2>2 DEF ResetNext, ResetTearsDown
  <2>4. CASE x = "Bash"
    <3>1. /\ Kill(walk["reset"].kill) /\ UNCHANGED <<timerVars, countVars, stored, state, call, run>>
      BY <1>4, <2>3, <2>4 DEF TearDown, Registered
    <3>2. walk["reset"].kill \in 0..MaxCalls
      BY <2>1 DEF Walks
    <3>3. \A s \in Shell : process'[s] = "up" => Up(s) /\ s # walk["reset"].kill
      BY <3>1, <3>2, Killed DEF ShellInv
    <3>4. ASSUME NEW i \in 1..Len(entries), entries[i] = "Bash", entries' = RemoveAt(entries, i),
                 walk' = [walk EXCEPT !["reset"].todo = Tail(@), !["reset"].step = "walk"],
                 UNCHANGED <<resetter, crossed>>
          PROVE  Rest'
      BY <1>0, <1>1, <1>2, <1>4, <2>2, <2>4, <3>1, <3>3, <3>4, DeletedKeepsRest
         DEF timerVars, schedulerVars
    <3>5. CASE GiveUp
      <4>1. /\ walk' = [walk EXCEPT !["reset"] = NoWalk] /\ resetter' = None
            /\ crossed' = (crossed \/ "Bash" \in ToSet(walk["reset"].todo)) /\ entries' = entries
        BY <3>5 DEF GiveUp
      <4> QED BY <1>0, <1>1, <1>2, <3>1, <3>3, <4>1, ResetOverKeepsRest DEF timerVars, schedulerVars
    <3> QED BY <2>3, <2>4, <3>4, <3>5 DEF Delete
  <2>5. CASE x # "Bash"
    <3>1. x \in Source /\ BeginTeardown("reset", x) /\ UNCHANGED shellVars
      BY <1>4, <2>2, <2>3, <2>5 DEF TearDown, Keys
    <3>2. /\ \A s \in Source : closing[s] => closing'[s]
          /\ UNCHANGED <<chain, timers>>
          /\ teardown'["reset"].source = x /\ teardown'["reset"].step = "cancel"
          /\ teardown'["close"] = teardown["close"]
      BY <1>0, <3>1, TeardownBegun, Constants
    <3>3. /\ walk' \in [Walker -> Walks] /\ walk'["close"] = walk["close"]
          /\ walk'["reset"].step = "call" /\ walk'["reset"].todo = walk["reset"].todo
          /\ walk'["reset"].kill = walk["reset"].kill
          /\ UNCHANGED <<entries, resetter, crossed>>
      BY <2>1, <2>3, <2>5, Constants DEF Walks
    <3>4. entries \in Seq(Keys) /\ IsInjective(entries) /\ disturbed \in BOOLEAN
      BY <1>0, Typing DEF CloseInv, EntriesAreUnique
    <3>5. CloseInv'
      BY <1>0, <1>1, <1>2, <1>4, <3>1, <3>2, <3>3, <3>4, ResetKeepsClose DEF shellVars
    <3>6. RunningIsKnown' /\ ResetReaches'
      BY <1>0, <1>1, <3>1, <3>3
         DEF KnownInv, RunningIsKnown, ResetReaches, Up, shellVars, processVars
    <3>7. CloseReaches'
      BY <1>0, <1>1, <3>1, <3>3, ResetKeepsCloseReaches DEF shellVars, processVars, Up
    <3>8. ServicesTypeOK'
      <4>1. disturbed' \in BOOLEAN
        BY <1>1, <3>4
      <4> QED BY <1>0, <1>1, <3>3, <4>1, Typing, TypedAgain
    <3> QED BY <3>5, <3>6, <3>7, <3>8 DEF Rest, KnownInv
  <2> QED BY <2>4, <2>5
<1> QED BY <1>3, <1>4

LEMMA ResetReturnedKeepsRest ==
  ASSUME Rest, TimersInv, ResetReturned
  PROVE  Rest'
<1>0. ServicesTypeOK /\ CloseInv /\ KnownInv /\ TimersTypeOK /\ TeardownsClose
  BY DEF Rest, TimersInv
<1>1. PICK x : x = teardown["reset"].source
  OBVIOUS
<1>2. /\ walk["reset"].step = "call"
      /\ teardown' = [teardown EXCEPT !["reset"] = NoTeardown]
      /\ \/ teardown["reset"].step = "returned" /\ Delete(x)
         \/ teardown["reset"].step = "raised" /\ GiveUp
      /\ disturbed' = (disturbed \/ phase = "closing")
      /\ UNCHANGED <<watcherVars, schedulerVars, closing, shellVars, wakes, started, registered,
                     phase, resets>>
  BY <1>1 DEF ResetReturned
<1>3. /\ teardown'["reset"].source = None /\ teardown'["reset"].step = "none"
      /\ teardown'["close"] = teardown["close"]
  BY <1>0, <1>2, TeardownEnded, Constants
<1>4. /\ x \in Source /\ closing[x] /\ x # "Bash"
      /\ walk["reset"].todo # <<>> /\ x = Head(walk["reset"].todo)
  BY <1>0, <1>1, <1>2, Constants DEF CloseInv, WalkInv, TeardownsClose
<1>5. \A s \in Shell : process'[s] = "up" => Up(s)
  BY <1>2 DEF shellVars, processVars, Up
<1>6. x \in Keys
  BY <1>4 DEF Keys
<1>7. CASE GiveUp /\ (teardown["reset"].step = "returned" => x \notin ToSet(entries))
  <2>1. /\ walk' = [walk EXCEPT !["reset"] = NoWalk] /\ resetter' = None
        /\ crossed' = (crossed \/ "Bash" \in ToSet(walk["reset"].todo)) /\ entries' = entries
    BY <1>7 DEF GiveUp
  <2> QED BY <1>0, <1>1, <1>2, <1>3, <1>5, <1>7, <2>1, ResetOverKeepsRest DEF schedulerVars, shellVars
<1>8. ASSUME NEW i \in 1..Len(entries), entries[i] = x, entries' = RemoveAt(entries, i),
             walk' = [walk EXCEPT !["reset"].todo = Tail(@), !["reset"].step = "walk"],
             UNCHANGED <<resetter, crossed>>
      PROVE  Rest'
  BY <1>0, <1>1, <1>2, <1>3, <1>4, <1>5, <1>6, <1>8, DeletedKeepsRest DEF schedulerVars, shellVars
<1> QED BY <1>2, <1>7, <1>8 DEF Delete

-----------------------------------------------------------------------------
(* The whole                                                                *)

LEMMA TeardownKeepsParts ==
  ASSUME TimersInv, ShellInv, ServicesTypeOK, NEW w \in Walker, walk[w].todo # <<>>, TearDown(w)
  PROVE  TimersInv' /\ ShellInv'
<1>1. PICK x : x = Head(walk[w].todo)
  OBVIOUS
<1>2. walk[w] \in Walks /\ walk[w].todo \in Seq(Keys) /\ registered \in 0..MaxCalls
  BY Typing DEF Walks
<1>3. x \in Keys /\ Registered(w) \in 0..MaxCalls
  BY <1>1, <1>2, Headless DEF Registered, Walks
<1>4. stored \in 0..MaxCalls /\ state \in Nat
  BY CallFacts
<1>5. CASE x = "Bash"
  <2>1. /\ Kill(Registered(w)) /\ UNCHANGED <<timerVars, countVars, stored, state, call, run>>
    BY <1>1, <1>5 DEF TearDown
  <2>2. ShellInv'
    BY <1>3, <1>4, <2>1, KillKeepsShells
  <2> QED BY <2>1, <2>2, TimersFrame
<1>6. CASE x # "Bash"
  <2>1. x \in Source /\ BeginTeardown(w, x) /\ UNCHANGED shellVars
    BY <1>1, <1>3, <1>6 DEF TearDown, Keys
  <2>2. ShellInv'
    BY <1>4, <2>1, ShellFrame DEF shellVars
  <2> QED BY <2>1, <2>2, BeginTeardownKeepsTimers
<1> QED BY <1>5, <1>6

LEMMA NextKeepsParts ==
  ASSUME TimersInv, ShellInv, ServicesTypeOK, CloseInv, Next
  PROVE  TimersInv' /\ ShellInv'
<1>0. stored \in 0..MaxCalls /\ state \in Nat
  BY CallFacts
<1>1. UNCHANGED timerVars => TimersInv'
  BY TimersFrame
<1>2. UNCHANGED shellVars => ShellInv'
  BY <1>0, ShellFrame DEF shellVars
<1>3. ASSUME NEW c \in Change, Observe(c) PROVE TimersInv' /\ ShellInv'
  BY <1>2, <1>3, RecordKeepsTimers DEF Observe
<1>4. CASE TimerThread
  BY <1>2, <1>4, TimerStepKeepsTimers DEF TimerThread
<1>5. ASSUME NEW th \in Dispatching, Dispatched(th) PROVE TimersInv' /\ ShellInv'
  BY <1>2, <1>5, DispatchedKeepsTimers DEF Dispatched
<1>6. ASSUME NEW th \in Dispatching, CheckReset(th) PROVE TimersInv' /\ ShellInv'
  BY <1>1, <1>2, <1>6 DEF CheckReset
<1>7. CASE Outside
  BY <1>1, <1>7, ProcessStepKeepsShells, WidenKeepsShells DEF Outside
<1>8. CASE TurnThread
  <2>1. UNCHANGED timerVars /\ (RunStep \/ CallStep \/ RunCommand)
    BY <1>8 DEF TurnThread, Register
  <2> QED BY <1>1, <2>1, RunStepKeepsShells, CallStepKeepsShells, RunCommandKeepsShells
<1>9. ASSUME NEW lifetime, Bash(lifetime) PROVE TimersInv' /\ ShellInv'
  BY <1>1, <1>9, BeginCallKeepsShells DEF Bash
<1>10. CASE SetWakeUp
  BY <1>2, <1>10, StartedKeepsTimers DEF SetWakeUp
<1>11. CASE BeginClose
  BY <1>1, <1>2, <1>11 DEF BeginClose
<1>12. CASE CloseNext
  BY <1>1, <1>2, <1>12, TeardownKeepsParts, Constants DEF CloseNext
<1>13. CASE CloseReturned
  BY <1>2, <1>13, EndTeardownKeepsTimers, Constants DEF CloseReturned
<1>14. ASSUME NEW w \in Walker, SourceTeardown(w) PROVE TimersInv' /\ ShellInv'
  BY <1>2, <1>14, TeardownStepKeepsTimers DEF SourceTeardown
<1>15. CASE Wipe
  <2>1. /\ UNCHANGED <<timerVars, processVars, countVars, alive, call, run>>
        /\ stored' \in 0..MaxCalls /\ state' \in Nat
    BY <1>0, <1>15, Constants DEF Wipe
  <2> QED BY <1>1, <2>1, ShellFrame
<1>16. CASE ResetNext
  <2>1. CASE walk["reset"].todo = <<>> \/ Key(Head(walk["reset"].todo)) \in Infrastructure
    BY <1>1, <1>2, <1>16, <2>1 DEF ResetNext, ResetEnds, ResetTearsDown
  <2>2. CASE walk["reset"].todo # <<>> /\ Key(Head(walk["reset"].todo)) \notin Infrastructure
    BY <1>16, <2>2, TeardownKeepsParts, Constants DEF ResetNext, ResetTearsDown
  <2> QED BY <2>1, <2>2
<1>17. CASE ResetReturned
  BY <1>2, <1>17, EndTeardownKeepsTimers, Constants DEF ResetReturned
<1> QED BY <1>3, <1>4, <1>5, <1>6, <1>7, <1>8, <1>9, <1>10, <1>11, <1>12, <1>13, <1>14, <1>15, <1>16,
           <1>17, Constants DEF Next, HostThread, ResetThread

LEMMA NextKeepsRest ==
  ASSUME Rest, TimersInv, ShellInv, Next
  PROVE  Rest'
<1>1. CASE \E c \in Change : Observe(c)
  BY <1>1, ObserveKeepsRest
<1>2. CASE \E th \in Dispatching : Dispatched(th) \/ CheckReset(th)
  BY <1>2, DispatchedKeepsRest, CheckResetKeepsRest
<1>3. CASE TurnThread
  BY <1>3, RunStepKeepsRest, CallStepKeepsRest, RegisterKeepsRest DEF TurnThread
<1>4. CASE \E lifetime \in {"session", "new"} : Bash(lifetime)
  BY <1>4, BashKeepsRest
<1>5. CASE HostThread
  BY <1>5, CloseNextKeepsRest, CloseReturnedKeepsRest, SourceTeardownKeepsRest, Constants DEF HostThread
<1>6. CASE ResetThread
  BY <1>6, WipeKeepsRest, ResetNextKeepsRest, ResetReturnedKeepsRest, SourceTeardownKeepsRest,
     Constants DEF ResetThread
<1> QED BY <1>1, <1>2, <1>3, <1>4, <1>5, <1>6, TimerThreadKeepsRest, OutsideKeepsRest, SetWakeUpKeepsRest,
           BeginCloseKeepsRest DEF Next

LEMMA StutterKeepsInv ==
  ASSUME ServicesInv, UNCHANGED vars
  PROVE  ServicesInv'
<1>1. UNCHANGED <<timerVars, shellVars, servicesVars>>
  BY DEF vars, servicesVars
<1>2. TimersInv'
  BY <1>1, TimersFrame DEF ServicesInv
<1>3. ShellInv'
  BY <1>1, CallFacts, ShellFrame DEF ServicesInv, shellVars
<1>4. CloseInv'
  BY <1>1, CloseFrame DEF ServicesInv, shellVars, servicesVars
<1>5. KnownInv'
  BY <1>1, KnownFrame DEF ServicesInv, shellVars, processVars, servicesVars, Up, Entered
<1>6. ServicesTypeOK'
  BY <1>1 DEF ServicesInv, ServicesTypeOK, servicesVars
<1> QED BY <1>2, <1>3, <1>4, <1>5, <1>6 DEF ServicesInv

(* The first state: the sources are listed in some order, no shell is made. *)
LEMMA InitEstablishesInv ==
  ASSUME Init
  PROVE  ServicesInv
<1>1. PICK setup \in Setups : /\ started = setup.sources /\ calls = MaxCalls - setup.calls
                              /\ wakes = setup.wakes
  BY DEF Init
<1>2. /\ started \subseteq Source \ {WakeUp} /\ calls \in 0..MaxCalls /\ wakes \in 0..1
  <2>1. setup.sources \subseteq Source \ {WakeUp} /\ setup.calls \in 0..MaxCalls /\ setup.wakes \in 0..1
    BY ServicesAssumption
  <2> QED BY <1>1, <2>1, Constants
<1>3. /\ TimersInit(started) /\ ShellInit /\ entries = SetToSeq(started) /\ registered = 0
      /\ phase = "open" /\ walk = [w \in Walker |-> NoWalk] /\ resetter = None /\ resets = 0
      /\ disturbed = FALSE /\ crossed = FALSE
  BY DEF Init
<1>4. entries \in Seq(started) /\ ToSet(entries) = started /\ IsInjective(entries)
  <2>1. IsFiniteSet(started)
    BY <1>2, Constants, FS_Subset
  <2> QED BY <1>3, <2>1, Listing
<1>5. entries \in Seq(Keys)
  BY <1>2, <1>4 DEF Keys
<1>6. walk["close"] = NoWalk /\ walk["reset"] = NoWalk /\ walk \in [Walker -> Walks]
  BY <1>3, WalkRecords, Constants
<1>7. /\ \A w \in Walker : teardown[w] = NoTeardown /\ walk[w] = NoWalk
      /\ NoTeardown.step = "none" /\ NoTeardown.source = None
  BY <1>3 DEF TimersInit, NoTeardown
<1>8. ServicesTypeOK
  <2>1. disturbed \in BOOLEAN /\ crossed \in BOOLEAN
    BY <1>3
  <2>2. /\ registered \in 0..MaxCalls /\ resets \in 0..MaxResets
        /\ phase \in {"open", "closing", "closed", "failed"}
        /\ resetter \in Change \cup Entry \cup {None} /\ started \subseteq Source
    BY <1>2, <1>3, Constants
  <2> QED BY <1>2, <1>5, <1>6, <2>1, <2>2 DEF ServicesTypeOK, Walks, Keys
<1>9. TimersInv
  <2>1. TimersTypeOK
    BY <1>3, Constants, NoTeardownTyped DEF TimersInit, TimersTypeOK
  <2>2. NoChangeStranded /\ TeardownsClose
    BY <1>3, <1>7 DEF TimersInit, NoChangeStranded, TeardownsClose
  <2> QED BY <2>1, <2>2 DEF TimersInv
<1>10. CloseInv
  <2>1. WalkInv
    BY <1>3, <1>6, <1>7, WalkRecords, Constants DEF WalkInv
  <2>2. EntriesAreUnique
    BY <1>2, <1>4, <1>6, WalkRecords, EmptyList DEF EntriesAreUnique
  <2>3. StartedAreEntered /\ CloseIsAlone /\ CloseFailsOnlyDisturbed
    BY <1>3, <1>4 DEF StartedAreEntered, CloseIsAlone, CloseFailsOnlyDisturbed
  <2>4. LiveIsListed
    BY <1>3 DEF TimersInit, LiveIsListed, Live
  <2> QED BY <2>1, <2>2, <2>3, <2>4 DEF CloseInv
<1>11. ShellInv
  <2>1. \A s \in Shell : process[s] = "none" /\ ~alive[s] /\ script[s] = "none"
                           /\ queue[s] = [x \in Stream |-> <<>>]
    BY <1>3 DEF ShellInit
  <2>2. /\ made = 0 /\ call = NoCall /\ run = NoRun /\ call \in Calls /\ run \in Runs
        /\ call.step = "idle" /\ run.step = "none"
    BY <1>3, CallRecords, RunRecords DEF ShellInit
  <2>3. ShellTypeOK
    <3>1. [x \in Stream |-> <<>>] \in [Stream -> Seq({"ok", "eof"})]
      OBVIOUS
    <3> QED BY <1>2, <1>3, <2>2, <3>1, Constants DEF ShellInit, ShellTypeOK, Calls, Runs, CallSteps
  <2>4. CallsAreCounted
    BY <1>2, <2>2 DEF CallsAreCounted, Waiting
  <2>5. ShellsAreOrderly /\ LoopsAreInStep /\ AliveMeansAnswered
    BY <2>1, <2>2 DEF ShellsAreOrderly, Up, LoopsAreInStep, AliveMeansAnswered
  <2> QED BY <2>3, <2>4, <2>5 DEF ShellInv
<1>12. KnownInv
  <2>1. \A s \in Shell : ~Up(s)
    BY <1>3 DEF ShellInit, Up
  <2>2. call.step = "idle"
    BY <1>3, CallRecords DEF ShellInit
  <2> QED BY <2>1, <2>2, <1>3, <1>6, WalkRecords DEF KnownInv, RunningIsKnown, ResetReaches, CloseReaches
<1> QED BY <1>8, <1>9, <1>10, <1>11, <1>12 DEF ServicesInv

LEMMA ServicesAreInvariant == Spec => []ServicesInv
<1>1. Init => ServicesInv
  BY InitEstablishesInv
<1>2. ServicesInv /\ [Next]_vars => ServicesInv'
  <2>1. ASSUME ServicesInv, Next PROVE ServicesInv'
    <3>1. Rest /\ TimersInv /\ ShellInv
      BY <2>1 DEF ServicesInv, Rest
    <3>2. Rest'
      BY <2>1, <3>1, NextKeepsRest
    <3>3. TimersInv' /\ ShellInv'
      BY <2>1, <3>1, NextKeepsParts DEF Rest
    <3> QED BY <3>2, <3>3 DEF ServicesInv, Rest
  <2> QED BY <2>1, StutterKeepsInv
<1> QED BY <1>1, <1>2, PTL DEF Spec

(* No change is stranded, whatever the order of a burst's changes, of its   *)
(* timers and of the flushes (FileSystemWatcher, hooks/fs_events.py): as   *)
(* long as the watcher is open there is a timer that will take what is      *)
(* pending, whichever timer cancelled whichever.                            *)
THEOREM SourcesStaySound == Spec => []SourcesAreSound
<1>1. ServicesInv => SourcesAreSound
  BY DEF ServicesInv, TimersInv, ShellInv, SourcesAreSound, TypeOK
<1> QED BY <1>1, ServicesAreInvariant, PTL

(* Between calls of the Bash tool (tools/bash.py) the one shell that may    *)
(* run is the one a later call would use and close() would kill; no command *)
(* starts in a shell with the output of another in it; and a shell that is  *)
(* taken for alive has answered for its command.                            *)
THEOREM ShellsStaySound == Spec => []ShellsAreSound
<1>1. ServicesInv => ShellsAreSound
  <2>1. ASSUME ServicesInv PROVE OutputIsOwn /\ AliveMeansAnswered
    BY <2>1 DEF ServicesInv, ShellInv, ShellsAreOrderly, OutputIsOwn, Up
  <2>2. ASSUME ServicesInv PROVE StoredIsRegistered
    BY <2>2 DEF ServicesInv, KnownInv, RunningIsKnown, StoredIsRegistered, Up, Entered
  <2> QED BY <2>1, <2>2 DEF ShellsAreSound
<1> QED BY <1>1, ServicesAreInvariant, PTL

(* Session.close (session/mixins/core.py) raises midway only if a turn, a   *)
(* reset or a one-shot timer was at work on the session with it; a close    *)
(* that ran alone has closed every source the session ever started and      *)
(* leaves no shell running, unless a reset and a call had met before.       *)
THEOREM ClosesAreComplete == Spec => []CloseIsComplete
<1>1. ServicesInv => CloseIsComplete
  <2>1. ASSUME ServicesInv PROVE CloseFailsOnlyDisturbed
    BY <2>1 DEF ServicesInv, CloseInv
  <2>2. ASSUME ServicesInv PROVE NothingOutlivesClose
    BY <2>2 DEF ServicesInv, CloseInv, StartedAreEntered, KnownInv, CloseReaches, NothingOutlivesClose, Up
  <2> QED BY <2>1, <2>2 DEF CloseIsComplete
<1> QED BY <1>1, ServicesAreInvariant, PTL

=============================================================================
