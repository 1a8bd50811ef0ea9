------------------------ MODULE SubagentTrackerProofs ------------------------
(***************************************************************************)
(* What SubagentTracker guarantees for any set of children and any number   *)
(* of turn chains: its types; that a root session that is not closed        *)
(* receives every output at most once; that no parent receives an output it *)
(* is not owed; that a handle marked delivered was handed over or is still  *)
(* in the hands of a relay; that no completion is lost between the queue,   *)
(* the relays and the waits; and that a root session that is not closed     *)
(* gets exactly what CompletionDelivery promises.                           *)
(***************************************************************************)
EXTENDS SubagentTracker, TLAPS

(* A worker that exists belongs to a dispatched chain, and one that holds   *)
(* an entry to queue or a claim holds a handle.                             *)
WorkersAreDispatched ==
  \A h \in Handle :
    /\ pc[h] # "none" => h[2] <= gen[h[1]]
    /\ pc[h] \in {"put"} \cup ClaimPC => held[h] \in Handle

Typed == TypeOK /\ WorkersAreDispatched

LEMMA HandleParts ==
  ASSUME NEW h \in Handle
  PROVE  h[1] \in Child /\ h[2] \in Nat /\ h[2] >= 1 /\ h[2] <= MaxTurns /\ h = <<h[1], h[2]>>
BY TrackerAssumption DEF Handle

(* Counting one more for one handle.                                        *)
LEMMA CountedOnce ==
  ASSUME NEW S, NEW f \in [S -> Nat], NEW x \in S
  PROVE  [f EXCEPT ![x] = @ + 1] \in [S -> Nat]
OBVIOUS

(* The current handle of a child that has one.                              *)
LEMMA CurrentIsHandle ==
  ASSUME TypeOK, NEW c \in Child, gen[c] > 0
  PROVE  Current(c) \in Handle
BY TrackerAssumption DEF TypeOK, Current, Handle

LEMMA TypedInit == Init => Typed
BY TrackerAssumption, HandleParts DEF Init, Typed, TypeOK, WorkersAreDispatched, WorkerPC, ClaimPC

(* Dispatching turns keeps the types.                                       *)
LEMMA TypedDispatch ==
  ASSUME Typed, NEW c \in Child, NEW byParent \in BOOLEAN, Dispatch(c, byParent)
  PROVE  Typed'
<1> DEFINE n == <<c, gen[c] + 1>>
<1>1. n \in Handle
  BY TrackerAssumption DEF Typed, TypeOK, Dispatch, Handle
<1>2. TypeOK'
  BY <1>1, TrackerAssumption
  DEF Typed, TypeOK, Dispatch, WorkerPC, parentVars, closerVars, historyVars
<1>3. WorkersAreDispatched'
  <2> SUFFICES ASSUME NEW h \in Handle
               PROVE  /\ pc'[h] # "none" => h[2] <= gen'[h[1]]
                      /\ pc'[h] \in {"put"} \cup ClaimPC => held'[h] \in Handle
    BY DEF WorkersAreDispatched
  <2>1. h[1] \in Child /\ h[2] \in Nat
    BY HandleParts
  <2>2. CASE h = n
    BY <2>1, <2>2, <1>1 DEF Typed, TypeOK, Dispatch, ClaimPC
  <2>3. CASE h # n
    BY <2>1, <2>3, <1>1 DEF Typed, TypeOK, WorkersAreDispatched, Dispatch
  <2> QED BY <2>2, <2>3
<1> QED BY <1>2, <1>3 DEF Typed

(* A worker that runs is dispatched, so its child has a current handle.     *)
LEMMA WorkerHasCurrent ==
  ASSUME Typed, NEW h \in Handle, pc[h] # "none"
  PROVE  Current(h[1]) \in Handle
<1>1. h[1] \in Child /\ h[2] \in Nat /\ h[2] >= 1
  BY HandleParts
<1>2. gen[h[1]] \in Nat /\ h[2] <= gen[h[1]]
  BY <1>1, TrackerAssumption DEF Typed, TypeOK, WorkersAreDispatched
<1>3. gen[h[1]] > 0
  BY <1>1, <1>2
<1> QED BY <1>1, <1>3, CurrentIsHandle DEF Typed

(* A step of worker h that changes only its own program counter and held    *)
(* entry, to a handle if it needs one, keeps the workers dispatched.        *)
LEMMA WorkerStep ==
  ASSUME Typed, NEW h \in Handle, pc[h] # "none", gen' = gen,
         NEW q \in WorkerPC, pc' = [pc EXCEPT ![h] = q],
         NEW k \in Handle \cup {NoHandle}, held' = [held EXCEPT ![h] = k],
         q \in {"put"} \cup ClaimPC => k \in Handle
  PROVE  /\ WorkersAreDispatched'
         /\ pc' \in [Handle -> WorkerPC]
         /\ held' \in [Handle -> Handle \cup {NoHandle}]
<1>1. \A w \in Handle : /\ pc'[w] = IF w = h THEN q ELSE pc[w]
                        /\ held'[w] = IF w = h THEN k ELSE held[w]
  BY DEF Typed, TypeOK
<1> QED BY <1>1 DEF Typed, TypeOK, WorkersAreDispatched

(* Every action of a worker keeps the types.                                *)
LEMMA TypedWorker ==
  ASSUME Typed, NEW h \in Handle, Worker(h)
  PROVE  Typed'
<1>h. held[h] \in Handle \cup {NoHandle} /\ held = [held EXCEPT ![h] = held[h]]
  BY DEF Typed, TypeOK
<1>p. pc[h] \in {"put"} \cup ClaimPC => held[h] \in Handle
  BY DEF Typed, WorkersAreDispatched
<1> USE DEF WorkerPC, ClaimPC
<1>1. ASSUME NEW result \in {"completed", "stopped"}, MarkFinished(h, result)
      PROVE  Typed'
  <2> DEFINE k == Current(h[1])
  <2>1. pc[h] = "running"
    BY <1>1 DEF MarkFinished
  <2>2. k \in Handle
    BY <2>1, WorkerHasCurrent
  <2>3. CASE QueuedForParent(k)
    <3>1. gen' = gen /\ pc' = [pc EXCEPT ![h] = "put"] /\ held' = [held EXCEPT ![h] = k]
      BY <1>1, <2>3 DEF MarkFinished
    <3>2. /\ WorkersAreDispatched'
          /\ pc' \in [Handle -> WorkerPC]
          /\ held' \in [Handle -> Handle \cup {NoHandle}]
      BY <2>1, <2>2, <3>1, WorkerStep
    <3> QED BY <1>1, <2>2, <2>3, <3>2
            DEF MarkFinished, Typed, TypeOK, parentVars, closerVars, historyVars
  <2>4. CASE ~QueuedForParent(k)
    <3>1. gen' = gen /\ pc' = [pc EXCEPT ![h] = "relay"] /\ held' = held
      BY <1>1, <2>4 DEF MarkFinished
    <3>2. /\ WorkersAreDispatched'
          /\ pc' \in [Handle -> WorkerPC]
          /\ held' \in [Handle -> Handle \cup {NoHandle}]
      BY <2>1, <1>h, <3>1, WorkerStep
    <3> QED BY <1>1, <2>2, <2>4, <3>2
            DEF MarkFinished, Typed, TypeOK, parentVars, closerVars, historyVars
  <2> QED BY <2>3, <2>4
<1>2. CASE PutCompletion(h)
  <2>1. /\ WorkersAreDispatched'
        /\ pc' \in [Handle -> WorkerPC]
        /\ held' \in [Handle -> Handle \cup {NoHandle}]
    BY <1>2, WorkerStep DEF PutCompletion
  <2> QED BY <1>2, <1>p, <2>1
          DEF PutCompletion, Typed, TypeOK, parentVars, closerVars, historyVars
<1>3. CASE TryClaimForRelay(h)
  <2> DEFINE k == Current(h[1])
  <2>1. pc[h] = "relay"
    BY <1>3 DEF TryClaimForRelay
  <2>2. k \in Handle
    BY <2>1, WorkerHasCurrent
  <2>3. /\ WorkersAreDispatched'
        /\ pc' \in [Handle -> WorkerPC]
        /\ held' \in [Handle -> Handle \cup {NoHandle}]
    <3>1. CASE Claimable(k)
      <4>1. gen' = gen /\ pc' = [pc EXCEPT ![h] = "claimed"] /\ held' = [held EXCEPT ![h] = k]
        BY <1>3, <3>1 DEF TryClaimForRelay
      <4> QED BY <2>1, <2>2, <4>1, WorkerStep
    <3>2. CASE ~Claimable(k)
      <4>1. gen' = gen /\ pc' = [pc EXCEPT ![h] = "done"] /\ held' = held
        BY <1>3, <3>2 DEF TryClaimForRelay
      <4> QED BY <2>1, <1>h, <4>1, WorkerStep
    <3> QED BY <3>1, <3>2
  <2>4. delivered' \in [Handle -> BOOLEAN]
    BY <1>3, <2>2 DEF TryClaimForRelay, Typed, TypeOK
  <2> QED BY <1>3, <2>3, <2>4
          DEF TryClaimForRelay, Typed, TypeOK, parentVars, closerVars, historyVars
<1>4. CASE CheckParentTurn(h)
  <2> DEFINE q == IF phase = "turn" THEN "release" ELSE "deliver"
  <2>1. /\ pc[h] = "claimed"
        /\ gen' = gen
        /\ pc' = [pc EXCEPT ![h] = q]
        /\ held' = held
    BY <1>4 DEF CheckParentTurn, trackerVars
  <2>2. /\ WorkersAreDispatched'
        /\ pc' \in [Handle -> WorkerPC]
        /\ held' \in [Handle -> Handle \cup {NoHandle}]
    BY <2>1, <1>h, <1>p, WorkerStep
  <2> QED BY <1>4, <2>2
          DEF CheckParentTurn, Typed, TypeOK, trackerVars, parentVars, closerVars, historyVars
<1>5. CASE ReleaseRelayClaim(h)
  <2>1. /\ WorkersAreDispatched'
        /\ pc' \in [Handle -> WorkerPC]
        /\ held' \in [Handle -> Handle \cup {NoHandle}]
    BY <1>5, WorkerStep DEF ReleaseRelayClaim
  <2> QED BY <1>5, <1>p, <2>1
          DEF ReleaseRelayClaim, Typed, TypeOK, parentVars, closerVars
<1>6. CASE DeliverToRoot(h)
  <2>1. CASE ParentKind = "host" \/ phase = "turn"
    <3>1. /\ WorkersAreDispatched'
          /\ pc' \in [Handle -> WorkerPC]
          /\ held' \in [Handle -> Handle \cup {NoHandle}]
      BY <1>6, <2>1, WorkerStep DEF DeliverToRoot, trackerVars
    <3>2. received' \in [Handle -> Nat]
      <4>1. held[h] \in Handle
        BY <1>6, <1>p DEF DeliverToRoot
      <4>2. received' = [received EXCEPT ![held[h]] = @ + 1]
        BY <1>6, <2>1 DEF DeliverToRoot
      <4> QED BY <4>1, <4>2, CountedOnce DEF Typed, TypeOK
    <3>3. UNCHANGED <<trackerVars, guard, parentVars, closerVars, released>>
      BY <1>6 DEF DeliverToRoot
    <3> QED BY <3>1, <3>2, <3>3 DEF Typed, TypeOK, trackerVars, parentVars, closerVars
  <2>2. CASE ~(ParentKind = "host" \/ phase = "turn")
    <3>1. gen' = gen /\ pc[h] = "deliver" /\ pc' = [pc EXCEPT ![h] = "release"] /\ held' = held
      BY <1>6, <2>2 DEF DeliverToRoot, trackerVars
    <3>2. /\ WorkersAreDispatched'
          /\ pc' \in [Handle -> WorkerPC]
          /\ held' \in [Handle -> Handle \cup {NoHandle}]
      BY <3>1, <1>h, <1>p, WorkerStep
    <3> QED BY <1>6, <2>2, <3>2
            DEF DeliverToRoot, Typed, TypeOK, trackerVars, parentVars, closerVars
  <2> QED BY <2>1, <2>2
<1>7. CASE EnqueueForParent(h)
  <2>1. PICK q \in {"wake", "release"} : pc' = [pc EXCEPT ![h] = q]
    BY <1>7 DEF EnqueueForParent
  <2>2. pc[h] = "deliver" /\ gen' = gen /\ held' = held
    BY <1>7 DEF EnqueueForParent, trackerVars
  <2>3. /\ WorkersAreDispatched'
        /\ pc' \in [Handle -> WorkerPC]
        /\ held' \in [Handle -> Handle \cup {NoHandle}]
    BY <2>1, <2>2, <1>h, <1>p, WorkerStep
  <2>4. mailbox' \in [Handle -> Nat]
    <3>1. held[h] \in Handle
      BY <2>2, <1>p
    <3>2. mailbox' = mailbox \/ mailbox' = [mailbox EXCEPT ![held[h]] = @ + 1]
      BY <1>7 DEF EnqueueForParent
    <3>3. mailbox \in [Handle -> Nat]
      BY DEF Typed, TypeOK
    <3>4. [mailbox EXCEPT ![held[h]] = @ + 1] \in [Handle -> Nat]
      BY <3>1, <3>3, CountedOnce
    <3> QED BY <3>2, <3>3, <3>4
  <2> QED BY <1>7, <2>3, <2>4
          DEF EnqueueForParent, Typed, TypeOK, trackerVars, closerVars, historyVars
<1>8. CASE WakeParent(h)
  <2>1. pc[h] = "wake" /\ pc' = [pc EXCEPT ![h] = "confirm"] /\ gen' = gen /\ held' = held
    BY <1>8 DEF WakeParent, trackerVars
  <2>2. /\ WorkersAreDispatched'
        /\ pc' \in [Handle -> WorkerPC]
        /\ held' \in [Handle -> Handle \cup {NoHandle}]
    BY <2>1, <1>h, <1>p, WorkerStep
  <2>3. mailbox' \in [Handle -> Nat] /\ received' \in [Handle -> Nat]
    BY <1>8 DEF WakeParent, DrainMailbox, Typed, TypeOK
  <2> QED BY <1>8, <2>2, <2>3 DEF WakeParent, Typed, TypeOK, trackerVars, closerVars
<1>9. CASE ConfirmRelay(h)
  <2>1. PICK q \in {"done", "release"}, k \in {NoHandle, held[h]} :
          /\ pc' = [pc EXCEPT ![h] = q]
          /\ held' = [held EXCEPT ![h] = k]
          /\ q = "release" => k = held[h]
    BY <1>9, <1>h DEF ConfirmRelay
  <2>2. pc[h] = "confirm" /\ gen' = gen
    BY <1>9 DEF ConfirmRelay, trackerVars
  <2>3. /\ WorkersAreDispatched'
        /\ pc' \in [Handle -> WorkerPC]
        /\ held' \in [Handle -> Handle \cup {NoHandle}]
    BY <2>1, <2>2, <1>h, <1>p, WorkerStep
  <2> QED BY <1>9, <2>3
          DEF ConfirmRelay, Typed, TypeOK, trackerVars, parentVars, closerVars, historyVars
<1> QED BY <1>1, <1>2, <1>3, <1>4, <1>5, <1>6, <1>7, <1>8, <1>9 DEF Worker

(* So does every action of the parent's thread ...                          *)
LEMMA TypedParent == ASSUME Typed, Parent PROVE Typed'
<1> USE DEF Typed, TypeOK, WorkersAreDispatched, WorkerPC, ClaimPC, trackerVars, threadVars,
            parentVars, closerVars, historyVars
<1>1. CASE StartParentTurn  BY <1>1 DEF StartParentTurn
<1>2. CASE EndParentTurn    BY <1>2 DEF EndParentTurn
<1>3. CASE DrainAtTurnEnd   BY <1>3 DEF DrainAtTurnEnd, DrainMailbox
<1>4. CASE WakeParentLater  BY <1>4 DEF WakeParentLater, DrainMailbox
<1>5. CASE GetMessages      BY <1>5 DEF GetMessages, DrainMailbox
<1>6. CASE BeginWait        BY <1>6 DEF BeginWait
<1>7. CASE InterruptWait    BY <1>7 DEF InterruptWait
<1>8. CASE PopEntry         BY <1>8 DEF PopEntry
<1>9. CASE CheckEntry
  <2>1. CASE Skipped(popped)   BY <1>9, <2>1 DEF CheckEntry
  <2>2. CASE ~Skipped(popped)
    <3>1. popped \in Handle
      BY <1>9 DEF CheckEntry
    <3>2. /\ received' = [received EXCEPT ![popped] = @ + 1]
          /\ delivered' = [delivered EXCEPT ![popped] = TRUE]
      BY <1>9, <2>2 DEF CheckEntry
    <3>3. received' \in [Handle -> Nat]
      BY <3>1, <3>2, CountedOnce
    <3>4. delivered' \in [Handle -> BOOLEAN]
      BY <3>1, <3>2
    <3> QED BY <1>9, <2>2, <3>3, <3>4 DEF CheckEntry
  <2> QED BY <2>1, <2>2
<1>10. CASE EndWait         BY <1>10 DEF EndWait
<1> QED BY <1>1, <1>2, <1>3, <1>4, <1>5, <1>6, <1>7, <1>8, <1>9, <1>10 DEF Parent

(* ... and of the thread that closes the session.                           *)
LEMMA TypedClose == ASSUME Typed, Close PROVE Typed'
<1> USE DEF Typed, TypeOK, WorkersAreDispatched, WorkerPC, ClaimPC, trackerVars, threadVars,
            parentVars, closerVars, historyVars
<1>1. CASE CloseBegin
  BY <1>1, CurrentIsHandle DEF CloseBegin
<1>2. ASSUME NEW c \in Child, CloseInspect(c) PROVE Typed'
  BY <1>2 DEF CloseInspect
<1>3. ASSUME NEW c \in Child, CloseAppendNote(c) PROVE Typed'
  <2>1. received' \in [Handle -> Nat]
    <3>1. CASE closing[c] \in Handle      BY <1>3, <3>1 DEF CloseAppendNote
    <3>2. CASE closing[c] \notin Handle   BY <1>3, <3>2 DEF CloseAppendNote
    <3> QED BY <3>1, <3>2
  <2> QED BY <1>3, <2>1 DEF CloseAppendNote
<1>4. ASSUME NEW c \in Child, CloseMarkDelivered(c) PROVE Typed'
  BY <1>4 DEF CloseMarkDelivered
<1> QED BY <1>1, <1>2, <1>3, <1>4 DEF Close

LEMMA TypedNext == ASSUME Typed, [Next]_vars PROVE Typed'
<1>1. ASSUME NEW c \in Child, Create(c) PROVE Typed'
  BY <1>1, TypedDispatch DEF Create
<1>2. ASSUME NEW c \in Child, NEW byParent \in BOOLEAN, Resume(c, byParent) PROVE Typed'
  BY <1>2, TypedDispatch DEF Resume
<1>3. ASSUME NEW c \in Child, MarkParentInterested(c) PROVE Typed'
  BY <1>3 DEF MarkParentInterested, Typed, TypeOK, WorkersAreDispatched, WorkerPC, threadVars,
              parentVars, closerVars, historyVars
<1>4. CASE UNCHANGED vars
  BY <1>4 DEF vars, Typed, TypeOK, WorkersAreDispatched, trackerVars, threadVars, parentVars,
              closerVars, historyVars
<1> QED BY <1>1, <1>2, <1>3, <1>4, TypedWorker, TypedParent, TypedClose DEF Next

(* Every variable of the tracker and its threads keeps its range.           *)
THEOREM TypeCorrect == Spec => []TypeOK
<1>1. Typed => TypeOK
  BY DEF Typed
<1> QED BY <1>1, TypedInit, TypedNext, PTL DEF Spec

-----------------------------------------------------------------------------
(* At most once                                                             *)

(* A worker between try_claim_for_relay and the end of the relay has its    *)
(* handle marked delivered, has not handed it over, and is alone with it.   *)
ClaimsAreExclusive ==
  /\ \A w \in Handle : pc[w] \in ClaimPC => delivered[held[w]] /\ received[held[w]] = 0
  /\ \A v, w \in Handle :
       pc[v] \in ClaimPC /\ pc[w] \in ClaimPC /\ held[v] = held[w] => v = w

ReceivedIsDelivered == \A h \in Handle : received[h] > 0 => delivered[h]

(* Only a subagent parent's messages go through the tree's queue.           *)
NothingInMailbox ==
  /\ \A h \in Handle : mailbox[h] = 0
  /\ \A w \in Handle : pc[w] \notin {"wake", "confirm"}

NotClosed == \A c \in Child : closer[c] = "open"

DeliveryInv ==
  Typed /\ AtMostOnce /\ ReceivedIsDelivered /\ ClaimsAreExclusive /\ NothingInMailbox /\ NotClosed

LEMMA DeliveryInit == Init => DeliveryInv
BY TypedInit DEF Init, DeliveryInv, AtMostOnce, ReceivedIsDelivered, ClaimsAreExclusive,
   NothingInMailbox, NotClosed, ClaimPC

(* With nothing in the tree's queue, draining it hands nothing over.        *)
LEMMA EmptyDrain ==
  ASSUME Typed, NothingInMailbox, DrainMailbox
  PROVE  received' = received /\ mailbox' = mailbox
<1>1. \A h \in Handle : received[h] \in Nat /\ mailbox[h] = 0
  BY DEF Typed, TypeOK, NothingInMailbox
<1> QED BY <1>1 DEF DrainMailbox, Typed, TypeOK

(* The steps of worker h.                                                   *)
LEMMA DeliveryWorker ==
  ASSUME DeliveryInv, ParentKind # "subagent", NEW h \in Handle, Worker(h), Typed'
  PROVE  DeliveryInv'
<1> USE DEF DeliveryInv, AtMostOnce, ReceivedIsDelivered, ClaimsAreExclusive, NothingInMailbox,
            NotClosed, ClaimPC
<1>t. /\ received \in [Handle -> Nat]
      /\ delivered \in [Handle -> BOOLEAN]
      /\ DOMAIN pc = Handle /\ DOMAIN held = Handle
      /\ pc[h] \in ClaimPC => held[h] \in Handle
  BY DEF Typed, TypeOK, WorkersAreDispatched
<1>1. ASSUME NEW result \in {"completed", "stopped"}, MarkFinished(h, result)
      PROVE  DeliveryInv'
  <2>1. \A w \in Handle : /\ w # h => pc'[w] = pc[w] /\ held'[w] = held[w]
                          /\ pc'[h] \in {"put", "relay"}
    BY <1>1, <1>t DEF MarkFinished
  <2> QED BY <1>1, <2>1 DEF MarkFinished, parentVars, closerVars, historyVars
<1>2. CASE PutCompletion(h)
  <2>1. \A w \in Handle : /\ w # h => pc'[w] = pc[w] /\ held'[w] = held[w]
                          /\ pc'[h] = "relay"
    BY <1>2, <1>t DEF PutCompletion
  <2> QED BY <1>2, <2>1 DEF PutCompletion, parentVars, closerVars, historyVars
<1>3. CASE TryClaimForRelay(h)
  <2> DEFINE k == Current(h[1])
  <2>1. k \in Handle
    BY <1>3, WorkerHasCurrent DEF TryClaimForRelay
  <2>2. CASE Claimable(k)
    <3>1. \A w \in Handle : w # h => pc'[w] = pc[w] /\ held'[w] = held[w]
      BY <1>3, <2>2, <1>t DEF TryClaimForRelay
    <3>2. pc'[h] = "claimed" /\ held'[h] = k
      BY <1>3, <2>2, <1>t DEF TryClaimForRelay
    <3>3. \A g \in Handle : delivered'[g] = IF g = k THEN TRUE ELSE delivered[g]
      BY <1>3, <2>1, <2>2, <1>t DEF TryClaimForRelay
    <3>4. ~delivered[k] /\ received[k] = 0
      BY <2>1, <2>2, <1>t DEF Claimable
    <3>5. \A w \in Handle : pc[w] \in ClaimPC => held[w] # k
      BY <3>4
    <3>6. UNCHANGED <<mailbox, received, closer>>
      BY <1>3 DEF TryClaimForRelay, parentVars, closerVars, historyVars
    <3>7. \A w \in Handle : pc[w] \in ClaimPC => held[w] \in Handle
      BY DEF Typed, WorkersAreDispatched
    <3>8. AtMostOnce' /\ ReceivedIsDelivered' /\ NotClosed'
      BY <3>3, <3>6
    <3>9. NothingInMailbox'
      BY <3>1, <3>2, <3>6
    <3>10. ASSUME NEW w \in Handle, pc'[w] \in ClaimPC
           PROVE  delivered'[held'[w]] /\ received'[held'[w]] = 0
      <4>1. CASE w = h
        BY <2>1, <3>2, <3>3, <3>4, <3>6, <4>1
      <4>2. CASE w # h
        BY <3>1, <3>3, <3>6, <3>7, <3>10, <4>2
      <4> QED BY <4>1, <4>2
    <3>11. ASSUME NEW v \in Handle, NEW w \in Handle,
                  pc'[v] \in ClaimPC, pc'[w] \in ClaimPC, held'[v] = held'[w]
           PROVE  v = w
      <4>1. CASE v = h \/ w = h
        BY <3>1, <3>2, <3>5, <3>11, <4>1
      <4>2. CASE v # h /\ w # h
        BY <3>1, <3>11, <4>2
      <4> QED BY <4>1, <4>2
    <3> QED BY <3>8, <3>9, <3>10, <3>11
  <2>3. CASE ~Claimable(k)
    <3>1. \A w \in Handle : /\ w # h => pc'[w] = pc[w]
                            /\ pc'[h] = "done"
      BY <1>3, <2>3, <1>t DEF TryClaimForRelay
    <3> QED BY <1>3, <2>3, <3>1 DEF TryClaimForRelay, parentVars, closerVars, historyVars
  <2> QED BY <2>2, <2>3
<1>4. CASE CheckParentTurn(h)
  <2>1. pc[h] = "claimed" /\ pc'[h] \in {"release", "deliver"}
    BY <1>4, <1>t DEF CheckParentTurn
  <2>2. \A w \in Handle : w # h => pc'[w] = pc[w]
    BY <1>4, <1>t DEF CheckParentTurn
  <2> QED BY <1>4, <2>1, <2>2
          DEF CheckParentTurn, trackerVars, parentVars, closerVars, historyVars
<1>5. CASE ReleaseRelayClaim(h)
  <2>1. pc[h] = "release" /\ pc'[h] = "done"
    BY <1>5, <1>t DEF ReleaseRelayClaim
  <2>2. \A w \in Handle : w # h => pc'[w] = pc[w] /\ held'[w] = held[w]
    BY <1>5, <1>t DEF ReleaseRelayClaim
  <2>3. \A g \in Handle : g # held[h] => delivered'[g] = delivered[g]
    BY <1>5, <1>t, <2>1 DEF ReleaseRelayClaim
  <2>4. received[held[h]] = 0 /\ held[h] \in Handle
    BY <2>1, <1>t
  <2>5. UNCHANGED <<mailbox, received, closer>>
    BY <1>5 DEF ReleaseRelayClaim, parentVars, closerVars
  <2>6. \A w \in Handle : w # h /\ pc[w] \in ClaimPC => held[w] # held[h]
    BY <2>1
  <2>7. \A w \in Handle : pc[w] \in ClaimPC => held[w] \in Handle
    BY DEF Typed, WorkersAreDispatched
  <2>8. AtMostOnce' /\ NothingInMailbox' /\ NotClosed'
    BY <2>1, <2>2, <2>5
  <2>9. ReceivedIsDelivered'
    BY <2>3, <2>4, <2>5
  <2>10. ASSUME NEW w \in Handle, pc'[w] \in ClaimPC
         PROVE  delivered'[held'[w]] /\ received'[held'[w]] = 0
    <3>1. w # h /\ pc[w] \in ClaimPC /\ held'[w] = held[w]
      BY <2>1, <2>2, <2>10
    <3>2. held[w] \in Handle /\ held[w] # held[h]
      BY <2>6, <2>7, <3>1
    <3> QED BY <2>3, <2>5, <3>1, <3>2
  <2>11. ASSUME NEW v \in Handle, NEW w \in Handle,
                pc'[v] \in ClaimPC, pc'[w] \in ClaimPC, held'[v] = held'[w]
         PROVE  v = w
    <3>1. v # h /\ w # h
      BY <2>1, <2>11
    <3> QED BY <2>2, <2>11, <3>1
  <2> QED BY <2>8, <2>9, <2>10, <2>11
<1>6. CASE DeliverToRoot(h)
  <2>1. pc[h] = "deliver" /\ pc'[h] \in {"done", "release"} /\ UNCHANGED <<delivered, mailbox, closer>>
    BY <1>6, <1>t DEF DeliverToRoot, trackerVars, parentVars, closerVars
  <2>2. \A w \in Handle : w # h => pc'[w] = pc[w] /\ held'[w] = held[w]
    BY <1>6, <1>t DEF DeliverToRoot
  <2>3. /\ held[h] \in Handle /\ delivered[held[h]] /\ received[held[h]] = 0
        /\ \A w \in Handle : w # h /\ pc[w] \in ClaimPC => held[w] # held[h]
    BY <2>1, <1>t
  <2>4. \A w \in Handle : pc[w] \in ClaimPC => held[w] \in Handle
    BY DEF Typed, WorkersAreDispatched
  <2>5. CASE ParentKind = "host" \/ phase = "turn"
    <3>1. /\ pc'[h] = "done"
          /\ \A g \in Handle : received'[g] = IF g = held[h] THEN received[g] + 1 ELSE received[g]
      BY <1>6, <2>5, <1>t, <2>3 DEF DeliverToRoot
    <3> QED BY <2>1, <2>2, <2>3, <2>4, <3>1
  <2>6. CASE ~(ParentKind = "host" \/ phase = "turn")
    <3>1. UNCHANGED <<received, held>>
      BY <1>6, <2>6 DEF DeliverToRoot
    <3> QED BY <2>1, <2>2, <2>3, <3>1
  <2> QED BY <2>5, <2>6
<1>7. ~EnqueueForParent(h) /\ ~WakeParent(h) /\ ~ConfirmRelay(h)
  BY DEF EnqueueForParent, WakeParent, ConfirmRelay
<1> QED BY <1>1, <1>2, <1>3, <1>4, <1>5, <1>6, <1>7 DEF Worker

(* The steps of the parent's own thread.                                    *)
LEMMA DeliveryParent ==
  ASSUME DeliveryInv, Parent, Typed'
  PROVE  DeliveryInv'
<1> USE DEF DeliveryInv, AtMostOnce, ReceivedIsDelivered, ClaimsAreExclusive, NothingInMailbox,
            NotClosed
<1>1. CASE CheckEntry
  <2>1. CASE Skipped(popped)
    BY <1>1, <2>1 DEF CheckEntry, threadVars, closerVars
  <2>2. CASE ~Skipped(popped)
    <3>1. popped \in Handle /\ ~delivered[popped] /\ received[popped] = 0
      BY <1>1, <2>2 DEF CheckEntry, Skipped, Typed, TypeOK
    <3>a. /\ received' = [received EXCEPT ![popped] = @ + 1]
          /\ delivered' = [delivered EXCEPT ![popped] = TRUE]
      BY <1>1, <2>2 DEF CheckEntry
    <3>b. DOMAIN received = Handle /\ DOMAIN delivered = Handle
      BY DEF Typed, TypeOK
    <3>2. /\ received'[popped] = 1 /\ delivered'[popped]
          /\ \A h \in Handle : h # popped => received'[h] = received[h] /\ delivered'[h] = delivered[h]
      BY <3>1, <3>a, <3>b
    <3>3. \A w \in Handle : pc[w] \in ClaimPC => held[w] \in Handle /\ held[w] # popped
      BY <3>1 DEF Typed, WorkersAreDispatched
    <3>4. UNCHANGED <<pc, held, mailbox, closer>>
      BY <1>1 DEF CheckEntry, threadVars, closerVars
    <3>5. AtMostOnce' /\ ReceivedIsDelivered' /\ NothingInMailbox' /\ NotClosed'
      BY <3>1, <3>2, <3>4
    <3>6. ClaimsAreExclusive'
      BY <3>2, <3>3, <3>4
    <3> QED BY <3>5, <3>6
  <2> QED BY <2>1, <2>2
<1>2. CASE ~CheckEntry
  <2>1. received' = received /\ mailbox' = mailbox
    BY <1>2, EmptyDrain
    DEF Parent, StartParentTurn, EndParentTurn, DrainAtTurnEnd, WakeParentLater, GetMessages,
        BeginWait, InterruptWait, PopEntry, EndWait, historyVars
  <2>2. UNCHANGED <<delivered, pc, held, closer>>
    BY <1>2
    DEF Parent, StartParentTurn, EndParentTurn, DrainAtTurnEnd, WakeParentLater, GetMessages,
        BeginWait, InterruptWait, PopEntry, EndWait, trackerVars, threadVars, closerVars
  <2> QED BY <2>1, <2>2
<1> QED BY <1>1, <1>2

LEMMA DeliveryNext ==
  ASSUME DeliveryInv, [Next]_vars, ParentKind # "subagent", Closing = FALSE
  PROVE  DeliveryInv'
<1> USE DEF DeliveryInv, AtMostOnce, ReceivedIsDelivered, ClaimsAreExclusive, NothingInMailbox,
            NotClosed, ClaimPC
<1>0. Typed'
  BY TypedNext
<1>1. ASSUME NEW c \in Child, NEW byParent \in BOOLEAN, Dispatch(c, byParent)
      PROVE  DeliveryInv'
  <2>1. \A w \in Handle : pc'[w] \in {pc[w], "running"}
    BY <1>1 DEF Dispatch, Typed, TypeOK
  <2> QED BY <1>0, <1>1, <2>1 DEF Dispatch, parentVars, closerVars, historyVars
<1>2. ASSUME NEW c \in Child, MarkParentInterested(c) PROVE DeliveryInv'
  BY <1>0, <1>2 DEF MarkParentInterested, threadVars, parentVars, closerVars, historyVars
<1>3. ~Close
  BY DEF Close, CloseBegin, CloseInspect, CloseAppendNote, CloseMarkDelivered
<1>4. CASE UNCHANGED vars
  BY <1>0, <1>4 DEF vars, trackerVars, threadVars, parentVars, closerVars, historyVars
<1>5. ASSUME NEW c \in Child, Create(c) PROVE DeliveryInv'
  BY <1>1, <1>5 DEF Create
<1>6. ASSUME NEW c \in Child, NEW byParent \in BOOLEAN, Resume(c, byParent) PROVE DeliveryInv'
  BY <1>1, <1>6 DEF Resume
<1> QED BY <1>0, <1>2, <1>3, <1>4, <1>5, <1>6, DeliveryWorker, DeliveryParent DEF Next

(* A root session that is not closed receives every output at most once,    *)
(* whichever of the relay and WaitForSubagent gets to it (subagents.md,     *)
(* "can never also deliver the same completion").  For a subagent parent    *)
(* this fails, as its relay gives the claim back while the message is still *)
(* queued, and for a closing session, whose thread reads the flag unlocked. *)
THEOREM RootReceivesAtMostOnce ==
  ASSUME ParentKind # "subagent", Closing = FALSE
  PROVE  Spec => []AtMostOnce
<1>1. DeliveryInv /\ [Next]_vars => DeliveryInv'
  BY DeliveryNext
<1>2. DeliveryInv => AtMostOnce
  BY DEF DeliveryInv
<1> QED BY <1>1, <1>2, DeliveryInit, PTL DEF Spec

-----------------------------------------------------------------------------
(* Only owed outputs                                                        *)

(* Whatever is on its way to the creator, in the completion queue, in a     *)
(* thread's hands, in its mailbox or in a closing note, is owed to it.      *)
QueueIsOwed   == \A i \in 1..Len(queue) : interested[queue[i]]
PoppedIsOwed  == popped # NoHandle => interested[popped]
HeldIsOwed    == \A w \in Handle : pc[w] \in {"put"} \cup ClaimPC => interested[held[w]]
MailIsOwed    == \A h \in Handle : mailbox[h] > 0 => interested[h]
ClosingIsOwed ==
  \A c \in Child :
    /\ closer[c] \in {"join", "note", "mark"} => closing[c] \in Handle
    /\ closer[c] \in {"note", "mark"} => interested[closing[c]]

OnlyDispatchedIsOwed == \A h \in Handle : interested[h] => Dispatched(h)

OwedInv ==
  /\ Typed /\ OnlyOwedOutputs /\ OnlyDispatchedIsOwed
  /\ QueueIsOwed /\ PoppedIsOwed /\ HeldIsOwed /\ MailIsOwed /\ ClosingIsOwed

LEMMA OwedInit == Init => OwedInv
<1> SUFFICES ASSUME Init PROVE OwedInv
  OBVIOUS
<1>1. Len(queue) = 0 /\ Typed
  BY TypedInit DEF Init
<1> QED BY <1>1 DEF Init, OwedInv, OnlyOwedOutputs, OnlyDispatchedIsOwed, QueueIsOwed, PoppedIsOwed,
                    HeldIsOwed, MailIsOwed, ClosingIsOwed, ClaimPC

(* A step that only makes more handles owed, each of them dispatched.       *)
LEMMA OwedGrows ==
  ASSUME OwedInv, Typed', \A h \in Handle : interested[h] => interested'[h], OnlyDispatchedIsOwed',
         UNCHANGED <<queue, popped, mailbox, received, closer, closing, held>>,
         \A w \in Handle : pc'[w] \in {pc[w], "running"}
  PROVE  OwedInv'
<1> USE DEF OwedInv
<1>1. \A i \in 1..Len(queue) : queue[i] \in Handle
  BY DEF Typed, TypeOK
<1>2. QueueIsOwed' /\ PoppedIsOwed' /\ MailIsOwed' /\ ClosingIsOwed' /\ OnlyOwedOutputs'
  BY <1>1 DEF QueueIsOwed, PoppedIsOwed, MailIsOwed, ClosingIsOwed, OnlyOwedOutputs, Typed, TypeOK
<1>3. HeldIsOwed'
  BY DEF HeldIsOwed, Typed, WorkersAreDispatched, ClaimPC
<1> QED BY <1>2, <1>3

(* Dispatching another chain.                                               *)
LEMMA OwedDispatch ==
  ASSUME OwedInv, Typed', NEW c \in Child, NEW byParent \in BOOLEAN, Dispatch(c, byParent)
  PROVE  OwedInv'
<1> DEFINE n == <<c, gen[c] + 1>>
<1>1. n \in Handle /\ gen[c] \in Nat
  BY TrackerAssumption DEF OwedInv, Typed, TypeOK, Dispatch, Handle
<1>2. /\ \A d \in Child : d # c => gen'[d] = gen[d]
      /\ gen'[c] = gen[c] + 1
  BY DEF OwedInv, Typed, TypeOK, Dispatch
<1>3. /\ \A h \in Handle : h # n => interested'[h] = interested[h]
      /\ ~interested[n]
      /\ \A w \in Handle : pc'[w] \in {pc[w], "running"}
  BY <1>1 DEF OwedInv, OnlyDispatchedIsOwed, Dispatched, Typed, TypeOK, Dispatch
<1>4. OnlyDispatchedIsOwed'
  <2> SUFFICES ASSUME NEW h \in Handle, interested'[h]
               PROVE  h[2] <= gen'[h[1]]
    BY DEF OnlyDispatchedIsOwed, Dispatched
  <2>1. h[1] \in Child /\ h[2] \in Nat
    BY HandleParts
  <2>2. gen[h[1]] \in Nat
    BY <2>1, TrackerAssumption DEF OwedInv, Typed, TypeOK
  <2>3. CASE h = n
    BY <1>1, <1>2, <2>3
  <2>4. CASE h # n
    BY <1>1, <1>2, <1>3, <2>1, <2>2, <2>4 DEF OwedInv, OnlyDispatchedIsOwed, Dispatched
  <2> QED BY <2>3, <2>4
<1> QED BY <1>3, <1>4, OwedGrows DEF Dispatch, parentVars, closerVars, historyVars

(* The queue after an append, and after its head is taken.                  *)
LEMMA AppendedEntries ==
  ASSUME NEW S, NEW q \in Seq(S), NEW e \in S
  PROVE  \A i \in 1..Len(Append(q, e)) : Append(q, e)[i] = e \/ \E j \in 1..Len(q) : Append(q, e)[i] = q[j]
OBVIOUS

LEMMA RemainingEntries ==
  ASSUME NEW S, NEW q \in Seq(S), q # <<>>
  PROVE  \A i \in 1..Len(Tail(q)) : \E j \in 1..Len(q) : Tail(q)[i] = q[j]
<1>1. \A i \in 1..Len(Tail(q)) : i + 1 \in 1..Len(q) /\ Tail(q)[i] = q[i + 1]
  OBVIOUS
<1> QED BY <1>1

LEMMA OwedWorker ==
  ASSUME OwedInv, Typed', NEW h \in Handle, Worker(h)
  PROVE  OwedInv'
<1> USE DEF OwedInv, ClaimPC
<1>t. /\ DOMAIN pc = Handle /\ DOMAIN held = Handle /\ DOMAIN mailbox = Handle
      /\ received \in [Handle -> Nat] /\ mailbox \in [Handle -> Nat]
      /\ pc[h] \in {"put"} \cup ClaimPC => held[h] \in Handle
  BY DEF Typed, TypeOK, WorkersAreDispatched
<1>1. /\ interested' = interested /\ gen' = gen
      /\ UNCHANGED <<popped, closer, closing>>
  BY DEF Worker, MarkFinished, PutCompletion, TryClaimForRelay, CheckParentTurn, ReleaseRelayClaim,
         DeliverToRoot, EnqueueForParent, WakeParent, ConfirmRelay, trackerVars, parentVars, closerVars
<1>2. OnlyDispatchedIsOwed' /\ PoppedIsOwed' /\ ClosingIsOwed'
  BY <1>1 DEF OnlyDispatchedIsOwed, Dispatched, PoppedIsOwed, ClosingIsOwed
<1>3. QueueIsOwed'
  <2>1. CASE PutCompletion(h)
    <3>1. queue \in Seq(Handle) /\ held[h] \in Handle /\ interested[held[h]]
      BY <1>t, <2>1 DEF PutCompletion, HeldIsOwed, Typed, TypeOK
    <3>2. queue' = Append(queue, held[h])
      BY <2>1 DEF PutCompletion
    <3> QED BY <1>1, <3>1, <3>2, AppendedEntries DEF QueueIsOwed
  <2>2. CASE ~PutCompletion(h)
    <3>1. queue' = queue
      BY <2>2 DEF Worker, MarkFinished, TryClaimForRelay, CheckParentTurn, ReleaseRelayClaim,
                  DeliverToRoot, EnqueueForParent, WakeParent, ConfirmRelay, trackerVars
    <3> QED BY <1>1, <3>1 DEF QueueIsOwed
  <2> QED BY <2>1, <2>2
<1>4. HeldIsOwed'
  <2>1. \A w \in Handle : w # h => pc'[w] = pc[w] /\ held'[w] = held[w]
    BY <1>t DEF Worker, MarkFinished, PutCompletion, TryClaimForRelay, CheckParentTurn,
                ReleaseRelayClaim, DeliverToRoot, EnqueueForParent, WakeParent, ConfirmRelay
  <2>2. pc'[h] \in {"put"} \cup ClaimPC => interested[held'[h]]
    <3>1. ASSUME NEW result \in {"completed", "stopped"}, MarkFinished(h, result)
          PROVE  pc'[h] \in {"put"} \cup ClaimPC => interested[held'[h]]
      BY <1>t, <3>1 DEF MarkFinished, QueuedForParent
    <3>2. CASE TryClaimForRelay(h)
      BY <1>t, <3>2 DEF TryClaimForRelay, Claimable
    <3>3. CASE PutCompletion(h) \/ ReleaseRelayClaim(h)
      BY <1>t, <3>3 DEF PutCompletion, ReleaseRelayClaim
    <3>4. CASE CheckParentTurn(h) \/ EnqueueForParent(h) \/ WakeParent(h)
      <4>1. pc[h] \in ClaimPC /\ held' = held
        BY <3>4 DEF CheckParentTurn, EnqueueForParent, WakeParent
      <4> QED BY <4>1 DEF HeldIsOwed
    <3>5. CASE DeliverToRoot(h) \/ ConfirmRelay(h)
      <4>1. pc[h] \in ClaimPC /\ (pc'[h] = "done" \/ held' = held)
        BY <1>t, <3>5 DEF DeliverToRoot, ConfirmRelay
      <4> QED BY <4>1 DEF HeldIsOwed
    <3> QED BY <3>1, <3>2, <3>3, <3>4, <3>5 DEF Worker
  <2> QED BY <1>1, <2>1, <2>2 DEF HeldIsOwed
<1>5. ASSUME NEW g \in Handle, g # held[h] \/ pc[h] \notin ClaimPC
      PROVE  (mailbox'[g] > 0 \/ received'[g] > 0) => mailbox[g] > 0 \/ received[g] > 0
  <2>1. CASE WakeParent(h)
    BY <1>t, <2>1 DEF WakeParent, DrainMailbox
  <2>2. CASE DeliverToRoot(h)
    BY <1>t, <1>5, <2>2 DEF DeliverToRoot, parentVars
  <2>3. CASE EnqueueForParent(h)
    BY <1>t, <1>5, <2>3 DEF EnqueueForParent, historyVars
  <2>4. CASE ~WakeParent(h) /\ ~DeliverToRoot(h) /\ ~EnqueueForParent(h)
    <3>1. UNCHANGED <<mailbox, received>>
      BY <2>4 DEF Worker, MarkFinished, PutCompletion, TryClaimForRelay, CheckParentTurn,
                  ReleaseRelayClaim, ConfirmRelay, parentVars, historyVars
    <3> QED BY <3>1
  <2> QED BY <2>1, <2>2, <2>3, <2>4
<1>6. MailIsOwed' /\ OnlyOwedOutputs'
  BY <1>1, <1>5 DEF MailIsOwed, OnlyOwedOutputs, HeldIsOwed
<1> QED BY <1>2, <1>3, <1>4, <1>6

LEMMA OwedParent ==
  ASSUME OwedInv, Typed', Parent
  PROVE  OwedInv'
<1> USE DEF OwedInv
<1>1. UNCHANGED <<interested, gen, pc, held, closer, closing>>
  BY DEF Parent, StartParentTurn, EndParentTurn, DrainAtTurnEnd, WakeParentLater, GetMessages,
         BeginWait, InterruptWait, PopEntry, CheckEntry, EndWait, trackerVars, threadVars, closerVars
<1>2. OnlyDispatchedIsOwed' /\ HeldIsOwed' /\ ClosingIsOwed'
  BY <1>1 DEF OnlyDispatchedIsOwed, Dispatched, HeldIsOwed, ClosingIsOwed
<1>3. CASE PopEntry
  <2>1. queue \in Seq(Handle) /\ queue # <<>>
    BY <1>3 DEF PopEntry, Typed, TypeOK
  <2>2. popped' = queue[1] /\ 1 \in 1..Len(queue) /\ queue' = Tail(queue)
    BY <1>3, <2>1 DEF PopEntry
  <2>3. QueueIsOwed' /\ PoppedIsOwed'
    BY <1>1, <2>1, <2>2, RemainingEntries DEF QueueIsOwed, PoppedIsOwed
  <2>4. MailIsOwed' /\ OnlyOwedOutputs'
    BY <1>1, <1>3 DEF PopEntry, MailIsOwed, OnlyOwedOutputs, historyVars
  <2> QED BY <1>2, <2>3, <2>4
<1>4. CASE CheckEntry
  <2>1. popped \in Handle /\ received \in [Handle -> Nat]
    BY <1>4 DEF CheckEntry, Typed, TypeOK
  <2>2. \A h \in Handle : h # popped => received'[h] = received[h]
    BY <1>4, <2>1 DEF CheckEntry
  <2>3. OnlyOwedOutputs'
    BY <1>1, <1>4, <2>2 DEF OnlyOwedOutputs, PoppedIsOwed, CheckEntry
  <2> QED BY <1>1, <1>2, <1>4, <2>3 DEF CheckEntry, QueueIsOwed, PoppedIsOwed, MailIsOwed
<1>5. CASE ~PopEntry /\ ~CheckEntry
  <2>1. queue' = queue /\ popped' = popped
    BY <1>5 DEF Parent, StartParentTurn, EndParentTurn, DrainAtTurnEnd, WakeParentLater, GetMessages,
                BeginWait, InterruptWait, EndWait, trackerVars
  <2>2. UNCHANGED <<mailbox, received>> \/ DrainMailbox
    BY <1>5 DEF Parent, StartParentTurn, EndParentTurn, DrainAtTurnEnd, WakeParentLater, GetMessages,
                BeginWait, InterruptWait, EndWait, historyVars
  <2>3. MailIsOwed' /\ OnlyOwedOutputs'
    BY <1>1, <2>2 DEF MailIsOwed, OnlyOwedOutputs, DrainMailbox, Typed, TypeOK
  <2> QED BY <1>1, <1>2, <2>1, <2>3 DEF QueueIsOwed, PoppedIsOwed
<1> QED BY <1>3, <1>4, <1>5

LEMMA OwedClose ==
  ASSUME OwedInv, Typed', Close
  PROVE  OwedInv'
<1> USE DEF OwedInv
<1>1. UNCHANGED <<interested, gen, queue, pc, held, popped, mailbox>>
  BY DEF Close, CloseBegin, CloseInspect, CloseAppendNote, CloseMarkDelivered, trackerVars, threadVars,
         parentVars
<1>2. /\ OnlyDispatchedIsOwed' /\ HeldIsOwed' /\ QueueIsOwed' /\ PoppedIsOwed' /\ MailIsOwed'
  BY <1>1 DEF OnlyDispatchedIsOwed, Dispatched, HeldIsOwed, QueueIsOwed, PoppedIsOwed, MailIsOwed
<1>3. CASE CloseBegin
  <2>1. \A d \in Child : /\ closer'[d] \in {"join", "closed"}
                         /\ closer'[d] = "join" => closing'[d] \in Handle
    BY <1>3, CurrentIsHandle DEF CloseBegin, Typed
  <2> QED BY <1>1, <1>2, <1>3, <2>1 DEF CloseBegin, ClosingIsOwed, OnlyOwedOutputs, historyVars
<1>4. ASSUME NEW c \in Child, CloseInspect(c) PROVE OwedInv'
  <2>1. /\ UNCHANGED <<closing, received>>
        /\ \A d \in Child : closer'[d] # closer[d] =>
             /\ closer[d] = "join"
             /\ \/ closer'[d] = "note" /\ interested[closing[d]]
                \/ closer'[d] = "closed"
    BY <1>4 DEF CloseInspect, Typed, TypeOK, historyVars
  <2> QED BY <1>1, <1>2, <2>1 DEF ClosingIsOwed, OnlyOwedOutputs
<1>5. ASSUME NEW c \in Child, CloseAppendNote(c) PROVE OwedInv'
  <2>1. closing[c] \in Handle /\ interested[closing[c]]
    BY <1>5 DEF CloseAppendNote, ClosingIsOwed
  <2>2. \A h \in Handle : h # closing[c] => received'[h] = received[h]
    BY <1>5, <2>1 DEF CloseAppendNote, Typed, TypeOK
  <2>3. \A d \in Child : closer'[d] = closer[d] \/ d = c
    BY <1>5 DEF CloseAppendNote, Typed, TypeOK
  <2>4. closing' = closing
    BY <1>5 DEF CloseAppendNote
  <2> QED BY <1>1, <1>2, <2>1, <2>2, <2>3, <2>4 DEF ClosingIsOwed, OnlyOwedOutputs
<1>6. ASSUME NEW c \in Child, CloseMarkDelivered(c) PROVE OwedInv'
  <2>1. UNCHANGED <<closing, received>> /\ \A d \in Child : closer'[d] \in {closer[d], "closed"}
    BY <1>6 DEF CloseMarkDelivered, Typed, TypeOK, historyVars
  <2> QED BY <1>1, <1>2, <2>1 DEF ClosingIsOwed, OnlyOwedOutputs
<1> QED BY <1>3, <1>4, <1>5, <1>6 DEF Close

LEMMA OwedNext == ASSUME OwedInv, [Next]_vars PROVE OwedInv'
<1>0. Typed'
  BY TypedNext DEF OwedInv
<1>1. ASSUME NEW c \in Child, Create(c) PROVE OwedInv'
  BY <1>0, <1>1, OwedDispatch DEF Create
<1>2. ASSUME NEW c \in Child, NEW byParent \in BOOLEAN, Resume(c, byParent) PROVE OwedInv'
  BY <1>0, <1>2, OwedDispatch DEF Resume
<1>3. ASSUME NEW c \in Child, MarkParentInterested(c) PROVE OwedInv'
  <2>1. Current(c) \in Handle /\ Dispatched(Current(c))
    BY <1>3, CurrentIsHandle DEF MarkParentInterested, OwedInv, Typed, TypeOK, Dispatched, Current
  <2>2. /\ \A h \in Handle : h # Current(c) => interested'[h] = interested[h]
        /\ interested'[Current(c)]
    BY <1>3, <2>1 DEF MarkParentInterested, OwedInv, Typed, TypeOK
  <2>3. OnlyDispatchedIsOwed'
    BY <1>3, <2>1, <2>2 DEF MarkParentInterested, OwedInv, OnlyDispatchedIsOwed, Dispatched
  <2> QED BY <1>0, <1>3, <2>2, <2>3, OwedGrows
          DEF MarkParentInterested, threadVars, parentVars, closerVars, historyVars
<1>4. CASE UNCHANGED vars
  <2>1. UNCHANGED <<gen, interested, queue, popped, mailbox, received, closer, closing, held, pc>>
    BY <1>4 DEF vars, trackerVars, threadVars, parentVars, closerVars, historyVars
  <2> QED BY <1>0, <2>1, OwedGrows DEF OwedInv, OnlyDispatchedIsOwed, Dispatched
<1> QED BY <1>0, <1>1, <1>2, <1>3, <1>4, OwedWorker, OwedParent, OwedClose DEF Next

(* The creator is handed only the outputs of turns it takes part in: a turn *)
(* a human or an event started alone stays out of its context (mark_finished*)
(* and try_claim_for_relay look at parent_interested).                      *)
THEOREM OnlyOwedIsHandedOver == Spec => []OnlyOwedOutputs
<1>1. OwedInv => OnlyOwedOutputs
  BY DEF OwedInv
<1> QED BY <1>1, OwedInit, OwedNext, PTL DEF Spec

-----------------------------------------------------------------------------
(* Delivered flags are accounted for                                        *)

(* A relay past the enqueue has its output in the mailbox, or already read. *)
RelayedIsMailed ==
  \A w \in Handle : pc[w] \in {"wake", "confirm"} => mailbox[held[w]] > 0 \/ received[held[w]] > 0

(* The closing thread marks delivered only what it has appended.            *)
MarkedIsAppended ==
  \A c \in Child :
    /\ closer[c] \in {"join", "note", "mark"} => closing[c] \in Handle
    /\ closer[c] = "mark" => received[closing[c]] > 0

AccountInv == Typed /\ DeliveredIsAccountedFor /\ RelayedIsMailed /\ MarkedIsAppended

LEMMA AccountInit == Init => AccountInv
BY TypedInit DEF Init, AccountInv, DeliveredIsAccountedFor, RelayedIsMailed, MarkedIsAppended

(* Draining the mailbox hands over what is in it and takes nothing back.    *)
LEMMA DrainHandsOver ==
  ASSUME Typed, DrainMailbox, NEW h \in Handle
  PROVE  /\ received[h] > 0 \/ mailbox[h] > 0 => received'[h] > 0
BY DEF Typed, TypeOK, DrainMailbox

(* No step takes back an output that was handed over.                       *)
LEMMA ReceivedStays ==
  ASSUME Typed, [Next]_vars, NEW h \in Handle, received[h] > 0
  PROVE  received'[h] > 0
<1>t. received \in [Handle -> Nat]
  BY DEF Typed, TypeOK
<1>u. CASE received' = received
  BY <1>u
<1>d. CASE DrainMailbox
  BY <1>d, DrainHandsOver
<1>1. ASSUME NEW w \in Handle, Worker(w) PROVE received'[h] > 0
  <2>1. CASE DeliverToRoot(w)
    BY <1>t, <2>1 DEF DeliverToRoot
  <2>2. CASE ~DeliverToRoot(w)
    BY <1>u, <1>d, <1>1, <2>2
    DEF Worker, MarkFinished, PutCompletion, TryClaimForRelay, CheckParentTurn, ReleaseRelayClaim,
        EnqueueForParent, WakeParent, ConfirmRelay, historyVars
  <2> QED BY <2>1, <2>2
<1>2. CASE Parent
  <2>1. CASE CheckEntry
    BY <1>t, <2>1 DEF CheckEntry
  <2>2. CASE ~CheckEntry
    BY <1>u, <1>d, <1>2, <2>2
    DEF Parent, StartParentTurn, EndParentTurn, DrainAtTurnEnd, WakeParentLater, GetMessages,
        BeginWait, InterruptWait, PopEntry, EndWait, historyVars
  <2> QED BY <2>1, <2>2
<1>3. CASE Close
  <2>1. ASSUME NEW c \in Child, CloseAppendNote(c) PROVE received'[h] > 0
    BY <1>t, <2>1 DEF CloseAppendNote
  <2>2. ASSUME NEW c \in Child, CloseInspect(c) \/ CloseMarkDelivered(c) PROVE received' = received
    BY <2>2 DEF CloseInspect, CloseMarkDelivered, historyVars
  <2> QED BY <1>3, <1>u, <2>1, <2>2 DEF Close, CloseBegin, historyVars
<1>4. ASSUME NEW c \in Child, \/ Create(c) \/ MarkParentInterested(c)
                              \/ \E byParent \in BOOLEAN : Resume(c, byParent)
      PROVE  received' = received
  BY <1>4 DEF Create, Resume, Dispatch, MarkParentInterested, historyVars
<1> QED BY <1>u, <1>1, <1>2, <1>3, <1>4 DEF Next, vars, historyVars

(* Only a relay gives delivered back and only a relay leaves its claim:     *)
(* in any step of the other threads, claims stay, and a flag is set only    *)
(* with something handed over.                                              *)
LEMMA AccountOthers ==
  ASSUME AccountInv, Typed', \A h \in Handle : received[h] > 0 => received'[h] > 0,
         UNCHANGED held, \A w \in Handle : pc'[w] = pc[w] \/ (pc[w] \notin ClaimPC /\ pc'[w] \notin ClaimPC),
         \A h \in Handle : delivered'[h] => delivered[h] \/ received'[h] > 0,
         UNCHANGED mailbox \/ DrainMailbox
  PROVE  DeliveredIsAccountedFor' /\ RelayedIsMailed'
<1>1. DeliveredIsAccountedFor'
  BY DEF AccountInv, DeliveredIsAccountedFor
<1>2. \A w \in Handle : pc[w] \in {"wake", "confirm"} => held[w] \in Handle
  BY DEF AccountInv, Typed, WorkersAreDispatched, ClaimPC
<1>3. RelayedIsMailed'
  BY <1>2, DrainHandsOver DEF AccountInv, RelayedIsMailed, ClaimPC
<1> QED BY <1>1, <1>3

LEMMA AccountWorker ==
  ASSUME AccountInv, Typed', \A g \in Handle : received[g] > 0 => received'[g] > 0,
         NEW h \in Handle, Worker(h)
  PROVE  DeliveredIsAccountedFor' /\ RelayedIsMailed'
<1> USE DEF ClaimPC
<1>t. /\ DOMAIN pc = Handle /\ DOMAIN held = Handle /\ DOMAIN delivered = Handle
      /\ received \in [Handle -> Nat] /\ mailbox \in [Handle -> Nat]
      /\ \A w \in Handle : pc[w] \in ClaimPC => held[w] \in Handle
  BY DEF AccountInv, Typed, TypeOK, WorkersAreDispatched
<1>o. \A w \in Handle : w # h => pc'[w] = pc[w] /\ held'[w] = held[w]
  BY <1>t DEF Worker, MarkFinished, PutCompletion, TryClaimForRelay, CheckParentTurn,
              ReleaseRelayClaim, DeliverToRoot, EnqueueForParent, WakeParent, ConfirmRelay
(* The claim of h, when the step keeps it or settles it.                    *)
<1>a. ASSUME \A g \in Handle : delivered'[g] => \/ delivered[g]
                                                \/ pc'[h] \in ClaimPC /\ held'[h] = g,
             pc[h] \in ClaimPC =>
               \/ pc'[h] \in ClaimPC /\ held'[h] = held[h]
               \/ ~delivered'[held[h]]
               \/ received'[held[h]] > 0
      PROVE  DeliveredIsAccountedFor'
  <2> SUFFICES ASSUME NEW g \in Handle, delivered'[g], ~(received'[g] > 0)
               PROVE  \E w \in Handle : pc'[w] \in ClaimPC /\ held'[w] = g
    BY DEF DeliveredIsAccountedFor
  <2>1. CASE pc'[h] \in ClaimPC /\ held'[h] = g
    BY <2>1
  <2>2. CASE ~(pc'[h] \in ClaimPC /\ held'[h] = g)
    <3>1. delivered[g] /\ ~(received[g] > 0)
      BY <1>a, <2>2
    <3>2. PICK w \in Handle : pc[w] \in ClaimPC /\ held[w] = g
      BY <3>1 DEF AccountInv, DeliveredIsAccountedFor
    <3>3. w # h
      BY <1>a, <2>2, <3>2
    <3> QED BY <1>o, <3>2, <3>3
  <2> QED BY <2>1, <2>2
<1>b. ASSUME UNCHANGED mailbox \/ DrainMailbox \/ EnqueueForParent(h),
             pc'[h] \in {"wake", "confirm"} =>
               /\ held'[h] = held[h]
               /\ pc[h] \in ClaimPC
               /\ mailbox'[held[h]] > 0 \/ received'[held[h]] > 0
      PROVE  RelayedIsMailed'
  <2> SUFFICES ASSUME NEW w \in Handle, pc'[w] \in {"wake", "confirm"}
               PROVE  mailbox'[held'[w]] > 0 \/ received'[held'[w]] > 0
    BY DEF RelayedIsMailed
  <2>1. CASE w = h
    BY <1>b, <2>1
  <2>2. CASE w # h
    <3>1. /\ pc[w] \in {"wake", "confirm"} /\ held'[w] = held[w] /\ held[w] \in Handle
          /\ mailbox[held[w]] > 0 \/ received[held[w]] > 0
      BY <1>o, <1>t, <2>2 DEF AccountInv, RelayedIsMailed
    <3>2. CASE UNCHANGED mailbox
      BY <3>1, <3>2
    <3>3. CASE DrainMailbox
      BY <3>1, <3>3, DrainHandsOver DEF AccountInv
    <3>4. CASE EnqueueForParent(h)
      <4>1. mailbox'[held[w]] >= mailbox[held[w]]
        BY <1>t, <3>1, <3>4 DEF EnqueueForParent
      <4>2. mailbox'[held[w]] \in Nat /\ mailbox[held[w]] \in Nat
        BY <1>t, <3>1 DEF Typed, TypeOK
      <4> QED BY <3>1, <4>1, <4>2
    <3> QED BY <1>b, <3>2, <3>3, <3>4
  <2> QED BY <2>1, <2>2
<1>1. ASSUME NEW result \in {"completed", "stopped"}, MarkFinished(h, result)
      PROVE  DeliveredIsAccountedFor' /\ RelayedIsMailed'
  <2>1. pc[h] = "running" /\ pc'[h] \in {"put", "relay"} /\ UNCHANGED <<delivered, mailbox>>
    BY <1>t, <1>1 DEF MarkFinished, parentVars
  <2> QED BY <1>a, <1>b, <2>1
<1>2. CASE PutCompletion(h)
  <2>1. pc[h] = "put" /\ pc'[h] = "relay" /\ UNCHANGED <<delivered, mailbox>>
    BY <1>t, <1>2 DEF PutCompletion, parentVars
  <2> QED BY <1>a, <1>b, <2>1
<1>3. CASE TryClaimForRelay(h)
  <2>1. /\ pc[h] = "relay" /\ pc'[h] \in {"claimed", "done"} /\ UNCHANGED mailbox
        /\ \A g \in Handle : delivered'[g] => delivered[g] \/ (pc'[h] = "claimed" /\ held'[h] = g)
    BY <1>t, <1>3 DEF TryClaimForRelay, parentVars
  <2> QED BY <1>a, <1>b, <2>1
<1>4. CASE CheckParentTurn(h)
  <2>1. /\ pc[h] = "claimed" /\ pc'[h] \in {"release", "deliver"}
        /\ UNCHANGED <<held, delivered, mailbox>>
    BY <1>t, <1>4 DEF CheckParentTurn, parentVars, trackerVars
  <2> QED BY <1>a, <1>b, <2>1
<1>5. CASE ReleaseRelayClaim(h)
  <2>1. /\ pc[h] = "release" /\ pc'[h] = "done" /\ UNCHANGED mailbox
        /\ ~delivered'[held[h]]
        /\ \A g \in Handle : delivered'[g] => delivered[g]
    BY <1>t, <1>5 DEF ReleaseRelayClaim, parentVars
  <2> QED BY <1>a, <1>b, <2>1
<1>6. CASE DeliverToRoot(h)
  <2>1. pc[h] = "deliver" /\ pc'[h] \in {"done", "release"} /\ UNCHANGED <<delivered, mailbox>>
    BY <1>t, <1>6 DEF DeliverToRoot, parentVars, trackerVars
  <2>2. (pc'[h] = "release" /\ held' = held) \/ received'[held[h]] > 0
    BY <1>t, <1>6, <2>1 DEF DeliverToRoot
  <2> QED BY <1>a, <1>b, <2>1, <2>2
<1>7. CASE EnqueueForParent(h)
  <2>1. /\ pc[h] = "deliver" /\ UNCHANGED <<delivered, held>>
        /\ pc'[h] \in {"wake", "release"}
    BY <1>t, <1>7 DEF EnqueueForParent, trackerVars
  <2>2. pc'[h] = "wake" => mailbox'[held[h]] > 0
    BY <1>t, <1>7, <2>1 DEF EnqueueForParent
  <2> QED BY <1>a, <1>b, <1>7, <2>1, <2>2
<1>8. CASE WakeParent(h)
  <2>1. /\ pc[h] = "wake" /\ pc'[h] = "confirm" /\ UNCHANGED <<delivered, held>>
        /\ UNCHANGED <<mailbox, received>> \/ DrainMailbox
    BY <1>t, <1>8 DEF WakeParent, trackerVars
  <2>2. held[h] \in Handle /\ (mailbox[held[h]] > 0 \/ received[held[h]] > 0)
    BY <1>t, <2>1 DEF AccountInv, RelayedIsMailed
  <2>3. mailbox'[held[h]] > 0 \/ received'[held[h]] > 0
    BY <2>1, <2>2, DrainHandsOver DEF AccountInv
  <2> QED BY <1>a, <1>b, <2>1, <2>3
<1>9. CASE ConfirmRelay(h)
  <2>1. /\ pc[h] = "confirm" /\ pc'[h] \in {"done", "release"} /\ UNCHANGED <<delivered, mailbox, received>>
        /\ \/ pc'[h] = "release" /\ held' = held
           \/ MailboxEmpty
    BY <1>t, <1>9 DEF ConfirmRelay, trackerVars, parentVars, historyVars
  <2>2. held[h] \in Handle /\ (mailbox[held[h]] > 0 \/ received[held[h]] > 0)
    BY <1>t, <2>1 DEF AccountInv, RelayedIsMailed
  <2>3. \/ pc'[h] = "release" /\ held' = held
        \/ received'[held[h]] > 0
    BY <2>1, <2>2 DEF MailboxEmpty
  <2> QED BY <1>a, <1>b, <2>1, <2>3
<1> QED BY <1>1, <1>2, <1>3, <1>4, <1>5, <1>6, <1>7, <1>8, <1>9 DEF Worker

LEMMA AccountNext == ASSUME AccountInv, [Next]_vars PROVE AccountInv'
<1>0. Typed'
  BY TypedNext DEF AccountInv
<1>r. \A h \in Handle : received[h] > 0 => received'[h] > 0
  BY ReceivedStays DEF AccountInv
<1>t. /\ received \in [Handle -> Nat]
      /\ DOMAIN pc = Handle /\ DOMAIN delivered = Handle /\ DOMAIN closer = Child
  BY DEF AccountInv, Typed, TypeOK
<1>1. ASSUME NEW h \in Handle, Worker(h) PROVE AccountInv'
  <2>1. UNCHANGED closerVars
    BY <1>1 DEF Worker, MarkFinished, PutCompletion, TryClaimForRelay, CheckParentTurn,
                ReleaseRelayClaim, DeliverToRoot, EnqueueForParent, WakeParent, ConfirmRelay
  <2>2. MarkedIsAppended'
    BY <1>r, <2>1 DEF AccountInv, MarkedIsAppended, closerVars
  <2> QED BY <1>0, <1>r, <1>1, <2>2, AccountWorker DEF AccountInv
<1>2. CASE Parent
  <2>1. UNCHANGED <<closerVars, threadVars>> /\ (UNCHANGED mailbox \/ DrainMailbox)
    BY <1>2 DEF Parent, StartParentTurn, EndParentTurn, DrainAtTurnEnd, WakeParentLater, GetMessages,
                BeginWait, InterruptWait, PopEntry, CheckEntry, EndWait
  <2>2. MarkedIsAppended'
    BY <1>r, <2>1 DEF AccountInv, MarkedIsAppended, closerVars
  <2>3. \A h \in Handle : delivered'[h] => delivered[h] \/ received'[h] > 0
    <3>1. CASE CheckEntry
      <4>1. popped \in Handle
        BY <3>1 DEF CheckEntry, AccountInv, Typed, TypeOK
      <4>2. CASE Skipped(popped)
        <5>1. delivered' = delivered
          BY <3>1, <4>2 DEF CheckEntry
        <5> QED BY <5>1
      <4>3. CASE ~Skipped(popped)
        <5>1. /\ delivered' = [delivered EXCEPT ![popped] = TRUE]
              /\ received' = [received EXCEPT ![popped] = @ + 1]
          BY <3>1, <4>3 DEF CheckEntry
        <5> QED BY <1>t, <4>1, <5>1
      <4> QED BY <4>2, <4>3
    <3>2. CASE ~CheckEntry
      BY <1>2, <3>2 DEF Parent, StartParentTurn, EndParentTurn, DrainAtTurnEnd, WakeParentLater,
                        GetMessages, BeginWait, InterruptWait, PopEntry, EndWait, trackerVars
    <3> QED BY <3>1, <3>2
  <2> QED BY <1>0, <1>r, <2>1, <2>2, <2>3, AccountOthers DEF AccountInv, threadVars
<1>3. CASE Close
  <2>1. UNCHANGED <<threadVars, parentVars>>
    BY <1>3 DEF Close, CloseBegin, CloseInspect, CloseAppendNote, CloseMarkDelivered
  <2>2. MarkedIsAppended' /\ \A h \in Handle : delivered'[h] => delivered[h] \/ received'[h] > 0
    <3>1. CASE CloseBegin
      <4>1. \A d \in Child : /\ closer'[d] \in {"join", "closed"}
                             /\ closer'[d] = "join" => closing'[d] \in Handle
        BY <3>1, CurrentIsHandle DEF CloseBegin, AccountInv, Typed
      <4> QED BY <3>1, <4>1 DEF CloseBegin, MarkedIsAppended, trackerVars
    <3>2. ASSUME NEW c \in Child, CloseInspect(c)
          PROVE  MarkedIsAppended' /\ UNCHANGED delivered
      <4>1. \A d \in Child : closer'[d] # closer[d] =>
              closer[d] = "join" /\ (closer'[d] = "note" \/ closer'[d] = "closed")
        BY <3>2 DEF CloseInspect, AccountInv, Typed, TypeOK
      <4> QED BY <1>r, <3>2, <4>1 DEF CloseInspect, AccountInv, MarkedIsAppended, trackerVars
    <3>3. ASSUME NEW c \in Child, CloseAppendNote(c)
          PROVE  MarkedIsAppended' /\ UNCHANGED delivered
      <4>1. /\ \A d \in Child : d # c => closer'[d] = closer[d]
            /\ closer'[c] = "mark" /\ closing' = closing /\ closing[c] \in Handle
        BY <1>t, <3>3 DEF CloseAppendNote, AccountInv, MarkedIsAppended
      <4>2. received'[closing[c]] > 0
        BY <1>t, <3>3, <4>1 DEF CloseAppendNote
      <4> QED BY <1>r, <3>3, <4>1, <4>2 DEF CloseAppendNote, AccountInv, MarkedIsAppended, trackerVars
    <3>4. ASSUME NEW c \in Child, CloseMarkDelivered(c)
          PROVE  /\ MarkedIsAppended'
                 /\ \A h \in Handle : delivered'[h] => delivered[h] \/ received'[h] > 0
      <4>1. /\ \A d \in Child : closer'[d] \in {closer[d], "closed"}
            /\ UNCHANGED <<closing, received>> /\ received[closing[c]] > 0
        BY <1>t, <3>4 DEF CloseMarkDelivered, AccountInv, MarkedIsAppended, historyVars
      <4>2. MarkedIsAppended'
        BY <4>1 DEF AccountInv, MarkedIsAppended
      <4>3. \A h \in Handle : h # closing[c] => delivered'[h] = delivered[h]
        BY <1>t, <3>4 DEF CloseMarkDelivered
      <4> QED BY <4>1, <4>2, <4>3
    <3> QED BY <1>3, <3>1, <3>2, <3>3, <3>4 DEF Close, CloseBegin, trackerVars
  <2> QED BY <1>0, <1>r, <2>1, <2>2, AccountOthers DEF AccountInv, threadVars, parentVars
<1>4. ASSUME NEW c \in Child, \/ Create(c) \/ MarkParentInterested(c)
                              \/ \E byParent \in BOOLEAN : Resume(c, byParent)
      PROVE  AccountInv'
  <2>1. /\ UNCHANGED <<closerVars, held, delivered, mailbox>>
        /\ \A w \in Handle : \/ pc'[w] = pc[w]
                             \/ pc'[w] = "running" /\ \E b \in BOOLEAN : Dispatch(c, b) /\ w = <<c, gen[c] + 1>>
    BY <1>4, <1>t DEF Create, Resume, Dispatch, MarkParentInterested, parentVars, threadVars
  <2>2. \A w \in Handle : w = <<c, gen[c] + 1>> => pc[w] = "none"
    <3> SUFFICES ASSUME NEW w \in Handle, w = <<c, gen[c] + 1>> PROVE pc[w] = "none"
      OBVIOUS
    <3>1. gen[c] \in Nat /\ w[1] = c /\ w[2] = gen[c] + 1
      BY TrackerAssumption DEF AccountInv, Typed, TypeOK
    <3>2. ~(w[2] <= gen[w[1]])
      BY <3>1
    <3> QED BY <3>2 DEF AccountInv, Typed, WorkersAreDispatched
  <2>3. \A w \in Handle : pc'[w] = pc[w] \/ (pc[w] \notin ClaimPC /\ pc'[w] \notin ClaimPC)
    BY <2>1, <2>2 DEF ClaimPC
  <2>4. MarkedIsAppended'
    BY <1>r, <2>1 DEF AccountInv, MarkedIsAppended, closerVars
  <2> QED BY <1>0, <1>r, <2>1, <2>3, <2>4, AccountOthers DEF AccountInv
<1>5. CASE UNCHANGED vars
  BY <1>0, <1>5 DEF AccountInv, vars, trackerVars, threadVars, parentVars, closerVars, historyVars,
                    DeliveredIsAccountedFor, RelayedIsMailed, MarkedIsAppended
<1> QED BY <1>1, <1>2, <1>3, <1>4, <1>5 DEF Next

(* The delivered flag is never left set for nothing, for every kind of      *)
(* parent and with the session closing at any moment: every path out of     *)
(* _relay_completion_to_parent settles the claim it took.                   *)
THEOREM DeliveredFlagsAreAccountedFor == Spec => []DeliveredIsAccountedFor
<1>1. AccountInv => DeliveredIsAccountedFor
  BY DEF AccountInv
<1> QED BY <1>1, AccountInit, AccountNext, PTL DEF Spec
-----------------------------------------------------------------------------
(* What becomes of every completion                                         *)

(* A chain has a worker once it is dispatched, its outcome once that worker *)
(* has marked it finished, and every chain but the newest of a child has    *)
(* its outcome: mark_finished, which writes the outcome to the child's      *)
(* current handle, writes it to its own.                                    *)
ChainsAreSerial ==
  \A h \in Handle :
    /\ pc[h] # "none" <=> Dispatched(h)
    /\ Finished(h) <=> pc[h] \notin {"none", "running"}
    /\ Dispatched(h) => h[2] = gen[h[1]] \/ Finished(h)

(* What the queue holds, or the wait has taken off it, has finished, was    *)
(* put there by its own worker and is in one of the two places; a worker    *)
(* that is about to put an entry puts its own.                              *)
EntriesAreOwn ==
  /\ \A i, j \in 1..Len(queue) : queue[i] = queue[j] => i = j
  /\ \A h \in Handle : InQueue(h) \/ popped = h =>
       Finished(h) /\ interested[h] /\ pc[h] # "put"
  /\ popped # NoHandle => ~InQueue(popped)
  /\ \A w \in Handle : pc[w] = "put" => held[w] = w /\ interested[w]

(* A relay claims what has finished.                                        *)
ClaimsHaveFinished == \A w \in Handle : pc[w] \in ClaimPC => Finished(held[w])

CompletionInv ==
  Typed /\ ChainsAreSerial /\ EntriesAreOwn /\ UnreleasedCompletionIsKept /\ ClaimsHaveFinished

LEMMA CompletionInit == Init => CompletionInv
<1> SUFFICES ASSUME Init PROVE CompletionInv
  OBVIOUS
<1>1. Len(queue) = 0 /\ Typed
  BY TypedInit DEF Init
<1>2. \A h \in Handle : ~Dispatched(h)
  BY HandleParts DEF Init, Dispatched
<1>3. ChainsAreSerial
  BY <1>2 DEF Init, ChainsAreSerial, Finished
<1> QED BY <1>1, <1>3, TrackerAssumption
        DEF Init, CompletionInv, EntriesAreOwn, UnreleasedCompletionIsKept, ClaimsHaveFinished, ClaimPC,
            InQueue, Finished, Handle

(* A worker that still runs is that of its child's current handle.          *)
LEMMA RunnerIsCurrent ==
  ASSUME CompletionInv, NEW h \in Handle, pc[h] = "running"
  PROVE  h = Current(h[1]) /\ ~Finished(h)
BY HandleParts DEF CompletionInv, ChainsAreSerial, Current

-----------------------------------------------------------------------------
(* What follows from how little a step changes                              *)

(* Workers that have marked their chains finished stay past that point.     *)
LEMMA ChainsStay ==
  ASSUME CompletionInv, UNCHANGED <<gen, outcome>>,
         \A w \in Handle : pc'[w] = pc[w] \/ {pc[w], pc'[w]} \cap {"none", "running"} = {}
  PROVE  ChainsAreSerial'
<1> SUFFICES ASSUME NEW h \in Handle
             PROVE  /\ pc'[h] # "none" <=> Dispatched(h)'
                    /\ Finished(h)' <=> pc'[h] \notin {"none", "running"}
                    /\ Dispatched(h)' => h[2] = gen'[h[1]] \/ Finished(h)'
  BY DEF ChainsAreSerial
<1>1. (Dispatched(h)' <=> Dispatched(h)) /\ (Finished(h)' <=> Finished(h))
  BY DEF Dispatched, Finished
<1> QED BY <1>1 DEF CompletionInv, ChainsAreSerial

(* Nobody touches the queue or the popped entry, or puts one there; flags   *)
(* of finished handles are set, or cleared by a relay that lets go.         *)
LEMMA EntriesStay ==
  ASSUME CompletionInv, UNCHANGED <<outcome, queue, popped>>, released \subseteq released',
         \A h \in Handle :
           /\ Finished(h) => interested'[h] = interested[h]
           /\ delivered[h] => delivered'[h] \/ h \in released'
           /\ pc'[h] = "put" <=> pc[h] = "put"
           /\ pc[h] = "put" => held'[h] = held[h]
  PROVE  EntriesAreOwn' /\ UnreleasedCompletionIsKept'
<1>1. \A h \in Handle : (Finished(h)' <=> Finished(h)) /\ (InQueue(h)' <=> InQueue(h))
  BY DEF Finished, InQueue
<1>2. \A w \in Handle : pc[w] = "put" => Finished(w)
  BY DEF CompletionInv, ChainsAreSerial
<1>3. InQueue(popped)' <=> InQueue(popped)
  BY DEF InQueue
<1>4. EntriesAreOwn'
  BY <1>1, <1>2, <1>3 DEF CompletionInv, EntriesAreOwn
<1>5. UnreleasedCompletionIsKept'
  BY <1>1, <1>2 DEF CompletionInv, UnreleasedCompletionIsKept
<1> QED BY <1>4, <1>5

LEMMA ClaimsStay ==
  ASSUME CompletionInv, \A h \in Handle : Finished(h) => Finished(h)',
         \A w \in Handle : pc'[w] \in ClaimPC => pc[w] \in ClaimPC /\ held'[w] = held[w]
  PROVE  ClaimsHaveFinished'
<1>1. \A w \in Handle : pc[w] \in ClaimPC => held[w] \in Handle
  BY DEF CompletionInv, Typed, WorkersAreDispatched
<1> SUFFICES ASSUME NEW w \in Handle, pc'[w] \in ClaimPC
             PROVE  Finished(held[w])'
  BY DEF ClaimsHaveFinished, Finished
<1> QED BY <1>1 DEF CompletionInv, ClaimsHaveFinished, Finished

-----------------------------------------------------------------------------
(* The actions                                                              *)

(* A dispatch checks that the child's current chain has ended.              *)
LEMMA CompletionDispatch ==
  ASSUME CompletionInv, NEW c \in Child, NEW byParent \in BOOLEAN, Dispatch(c, byParent),
         gen[c] = 0 \/ Finished(Current(c))
  PROVE  CompletionInv'
<1> DEFINE n == <<c, gen[c] + 1>>
<1> USE DEF CompletionInv
<1>1. n \in Handle /\ gen[c] \in Nat
  BY TrackerAssumption DEF Typed, TypeOK, Dispatch, Handle
<1>2. /\ UNCHANGED <<outcome, delivered, queue, held, popped, released>>
      /\ gen'[c] = gen[c] + 1 /\ \A d \in Child : d # c => gen'[d] = gen[d]
      /\ pc'[n] = "running" /\ interested' = [interested EXCEPT ![n] = byParent]
      /\ \A h \in Handle : h # n => pc'[h] = pc[h] /\ interested'[h] = interested[h]
  BY <1>1 DEF Dispatch, Typed, TypeOK, parentVars, historyVars
<1>3. Typed'
  BY TypedDispatch
<1>4. ~Dispatched(n) /\ pc[n] = "none" /\ ~Finished(n)
  BY <1>1 DEF Dispatched, ChainsAreSerial
<1>5. ChainsAreSerial'
  <2> SUFFICES ASSUME NEW h \in Handle
               PROVE  /\ pc'[h] # "none" <=> h[2] <= gen'[h[1]]
                      /\ Finished(h) <=> pc'[h] \notin {"none", "running"}
                      /\ h[2] <= gen'[h[1]] => h[2] = gen'[h[1]] \/ Finished(h)
    BY <1>2 DEF ChainsAreSerial, Finished, Dispatched
  <2>1. h[1] \in Child /\ h[2] \in Nat /\ h[2] >= 1 /\ h = <<h[1], h[2]>> /\ gen[h[1]] \in Nat
    BY HandleParts, TrackerAssumption DEF Typed, TypeOK
  <2>2. /\ pc[h] # "none" <=> h[2] <= gen[h[1]]
        /\ Finished(h) <=> pc[h] \notin {"none", "running"}
        /\ h[2] <= gen[h[1]] => h[2] = gen[h[1]] \/ Finished(h)
    BY DEF ChainsAreSerial, Dispatched
  <2>3. CASE h = n
    BY <1>1, <1>2, <1>4, <2>3
  <2>4. CASE h # n /\ h[1] = c
    <3>1. h[2] # gen[c] + 1
      BY <2>1, <2>4
    <3>2. h[2] = gen[c] => Finished(h)
      BY <2>1, <2>4 DEF Current
    <3> QED BY <1>2, <2>1, <2>2, <2>4, <3>1, <3>2
  <2>5. CASE h[1] # c
    BY <1>2, <2>1, <2>2, <2>5
  <2> QED BY <2>3, <2>4, <2>5
<1>6. EntriesAreOwn' /\ UnreleasedCompletionIsKept'
  BY <1>1, <1>2, <1>4, EntriesStay
<1>7. ClaimsHaveFinished'
  <2>1. \A w \in Handle : pc'[w] \in ClaimPC => pc[w] \in ClaimPC /\ held'[w] = held[w]
    BY <1>2 DEF ClaimPC
  <2> QED BY <1>2, <2>1, ClaimsStay DEF Finished
<1> QED BY <1>3, <1>5, <1>6, <1>7

LEMMA CompletionInterest ==
  ASSUME CompletionInv, NEW c \in Child, MarkParentInterested(c)
  PROVE  CompletionInv'
<1> USE DEF CompletionInv
<1>1. /\ UNCHANGED <<gen, outcome, delivered, queue, pc, held, popped, released>>
      /\ interested' = [interested EXCEPT ![Current(c)] = TRUE]
      /\ Current(c) \in Handle /\ pc[Current(c)] = "running"
  BY CurrentIsHandle DEF MarkParentInterested, Typed, threadVars, parentVars, historyVars
<1>2. ~Finished(Current(c)) /\ \A h \in Handle : h # Current(c) => interested'[h] = interested[h]
  BY <1>1 DEF ChainsAreSerial, Typed, TypeOK
<1>3. Typed'
  BY TypedNext DEF Next
<1>4. ChainsAreSerial'
  BY <1>1, ChainsStay
<1>5. EntriesAreOwn' /\ UnreleasedCompletionIsKept'
  BY <1>1, <1>2, EntriesStay
<1>6. ClaimsHaveFinished'
  BY <1>1, ClaimsStay DEF Finished
<1> QED BY <1>3, <1>4, <1>5, <1>6

(* mark_finished settles the outcome of its own chain, before the entry is  *)
(* queued or the relay starts.                                              *)
LEMMA CompletionFinish ==
  ASSUME CompletionInv, NEW h \in Handle, NEW result \in {"completed", "stopped"},
         MarkFinished(h, result)
  PROVE  CompletionInv'
<1> USE DEF CompletionInv
<1>1. h = Current(h[1]) /\ ~Finished(h) /\ pc[h] = "running"
  BY RunnerIsCurrent DEF MarkFinished
<1>2. /\ UNCHANGED <<gen, delivered, interested, queue, popped, released>>
      /\ outcome' = [outcome EXCEPT ![h] = result]
      /\ \/ interested[h] /\ pc' = [pc EXCEPT ![h] = "put"] /\ held' = [held EXCEPT ![h] = h]
         \/ ~interested[h] /\ pc' = [pc EXCEPT ![h] = "relay"] /\ held' = held
  BY <1>1 DEF MarkFinished, QueuedForParent, parentVars, historyVars
<1>3. /\ pc'[h] \in {"put", "relay"} /\ (pc'[h] = "put" => interested[h] /\ held'[h] = h)
      /\ pc'[h] = "relay" => ~interested[h]
      /\ Finished(h)'
      /\ \A w \in Handle : w # h => /\ pc'[w] = pc[w] /\ held'[w] = held[w]
                                    /\ Finished(w)' <=> Finished(w)
  BY <1>2 DEF Typed, TypeOK, Finished
<1>4. Typed'
  BY TypedNext DEF Next, Worker
<1>5. ChainsAreSerial'
  <2>1. \A w \in Handle : Dispatched(w)' <=> Dispatched(w)
    BY <1>2 DEF Dispatched
  <2> QED BY <1>1, <1>2, <1>3, <2>1 DEF ChainsAreSerial
<1>6. \A w \in Handle : InQueue(w)' <=> InQueue(w)
  BY <1>2 DEF InQueue
<1>7. EntriesAreOwn'
  BY <1>1, <1>2, <1>3, <1>6 DEF EntriesAreOwn, InQueue
<1>8. UnreleasedCompletionIsKept'
  BY <1>2, <1>3, <1>6 DEF UnreleasedCompletionIsKept
<1>9. ClaimsHaveFinished'
  BY <1>2, <1>3, ClaimsStay DEF ClaimPC
<1> QED BY <1>4, <1>5, <1>7, <1>8, <1>9

(* The entries of a queue after an append, and after its head is taken.     *)
LEMMA AppendKeepsDistinct ==
  ASSUME NEW S, NEW q \in Seq(S), NEW e \in S, \A i \in 1..Len(q) : q[i] # e,
         \A i, j \in 1..Len(q) : q[i] = q[j] => i = j
  PROVE  /\ \A i, j \in 1..Len(Append(q, e)) : Append(q, e)[i] = Append(q, e)[j] => i = j
         /\ \A x : (\E i \in 1..Len(Append(q, e)) : Append(q, e)[i] = x)
                     <=> x = e \/ \E i \in 1..Len(q) : q[i] = x
<1>1. /\ Len(Append(q, e)) = Len(q) + 1 /\ Len(q) \in Nat
      /\ \A i \in 1..Len(q) : Append(q, e)[i] = q[i]
      /\ Append(q, e)[Len(q) + 1] = e
  OBVIOUS
<1> QED BY <1>1

LEMMA TailKeepsDistinct ==
  ASSUME NEW S, NEW q \in Seq(S), q # <<>>, \A i, j \in 1..Len(q) : q[i] = q[j] => i = j
  PROVE  /\ \A i, j \in 1..Len(Tail(q)) : Tail(q)[i] = Tail(q)[j] => i = j
         /\ \A x : (\E i \in 1..Len(Tail(q)) : Tail(q)[i] = x)
                     <=> x # Head(q) /\ \E i \in 1..Len(q) : q[i] = x
         /\ \E i \in 1..Len(q) : q[i] = Head(q)
<1>1. /\ Len(Tail(q)) = Len(q) - 1 /\ Len(q) \in Nat /\ Len(q) >= 1
      /\ \A i \in 1..Len(Tail(q)) : Tail(q)[i] = q[i + 1]
      /\ Head(q) = q[1]
  OBVIOUS
<1>2. \A i \in 1..Len(Tail(q)) : i + 1 \in 1..Len(q)
  BY <1>1
<1>3. \A x : (\E i \in 1..Len(Tail(q)) : Tail(q)[i] = x)
               <=> x # Head(q) /\ \E i \in 1..Len(q) : q[i] = x
  <2> SUFFICES ASSUME NEW x
               PROVE  (\E i \in 1..Len(Tail(q)) : Tail(q)[i] = x)
                        <=> x # q[1] /\ \E i \in 1..Len(q) : q[i] = x
    BY <1>1
  <2>1. ASSUME NEW i \in 1..Len(Tail(q)), Tail(q)[i] = x
        PROVE  x # q[1] /\ \E j \in 1..Len(q) : q[j] = x
    BY <1>1, <1>2, <2>1
  <2>2. ASSUME NEW i \in 1..Len(q), q[i] = x, x # q[1]
        PROVE  \E j \in 1..Len(Tail(q)) : Tail(q)[j] = x
    <3>1. i # 1 /\ i - 1 \in 1..Len(Tail(q)) /\ Tail(q)[i - 1] = q[i]
      BY <1>1, <2>2
    <3> QED BY <2>2, <3>1
  <2> QED BY <2>1, <2>2
<1> QED BY <1>1, <1>2, <1>3

(* The entry in a worker's hands goes to the end of the queue ...           *)
LEMMA CompletionPut ==
  ASSUME CompletionInv, NEW h \in Handle, PutCompletion(h)
  PROVE  CompletionInv'
<1> USE DEF CompletionInv
<1>1. /\ UNCHANGED <<gen, outcome, delivered, interested, popped, released>>
      /\ pc[h] = "put" /\ held[h] = h /\ interested[h] /\ queue' = Append(queue, h)
      /\ pc' = [pc EXCEPT ![h] = "relay"] /\ held' = [held EXCEPT ![h] = NoHandle]
  BY DEF PutCompletion, EntriesAreOwn, parentVars, historyVars
<1>2. Finished(h) /\ ~InQueue(h) /\ popped # h
  BY <1>1 DEF ChainsAreSerial, EntriesAreOwn
<1>3. /\ pc'[h] = "relay"
      /\ \A w \in Handle : w # h => pc'[w] = pc[w] /\ held'[w] = held[w]
      /\ \A w \in Handle : Finished(w)' <=> Finished(w)
  BY <1>1 DEF Typed, TypeOK, Finished
<1>4. Typed'
  BY TypedNext DEF Next, Worker
<1>5. ChainsAreSerial'
  BY <1>1, ChainsStay
<1>6. /\ \A i, j \in 1..Len(queue') : queue'[i] = queue'[j] => i = j
      /\ \A x : InQueue(x)' <=> x = h \/ InQueue(x)
  <2>1. queue \in Seq(Handle) /\ \A i \in 1..Len(queue) : queue[i] # h
    BY <1>2 DEF Typed, TypeOK, InQueue
  <2>2. \A i, j \in 1..Len(queue) : queue[i] = queue[j] => i = j
    BY DEF EntriesAreOwn
  <2> QED BY <1>1, <2>1, <2>2, AppendKeepsDistinct DEF InQueue
<1>7. popped' # NoHandle => ~InQueue(popped)'
  <2>1. popped # NoHandle => ~(\E i \in 1..Len(queue') : queue'[i] = popped)
    BY <1>2, <1>6 DEF EntriesAreOwn, InQueue
  <2> QED BY <1>1, <2>1 DEF InQueue
<1>8. EntriesAreOwn'
  BY <1>1, <1>2, <1>3, <1>6, <1>7 DEF EntriesAreOwn
<1>9. UnreleasedCompletionIsKept'
  BY <1>1, <1>3, <1>6 DEF UnreleasedCompletionIsKept
<1>10. ClaimsHaveFinished'
  BY <1>1, <1>3, ClaimsStay DEF ClaimPC
<1> QED BY <1>4, <1>5, <1>8, <1>9, <1>10

(* ... and a wait takes the one at its head.                                *)
LEMMA CompletionPop ==
  ASSUME CompletionInv, PopEntry
  PROVE  CompletionInv'
<1> USE DEF CompletionInv
<1>1. /\ UNCHANGED <<gen, outcome, delivered, interested, pc, held, released>>
      /\ popped = NoHandle /\ queue # <<>> /\ popped' = Head(queue) /\ queue' = Tail(queue)
  BY DEF PopEntry, threadVars, historyVars
<1>2. \A w \in Handle : Finished(w)' <=> Finished(w)
  BY <1>1 DEF Finished
<1>3. Typed'
  BY TypedNext DEF Next, Parent
<1>4. ChainsAreSerial'
  BY <1>1, ChainsStay
<1>5. /\ \A i, j \in 1..Len(queue') : queue'[i] = queue'[j] => i = j
      /\ \A x : InQueue(x)' <=> x # popped' /\ InQueue(x)
      /\ InQueue(popped')
  <2>1. queue \in Seq(Handle)
    BY DEF Typed, TypeOK
  <2>2. \A i, j \in 1..Len(queue) : queue[i] = queue[j] => i = j
    BY DEF EntriesAreOwn
  <2> QED BY <1>1, <2>1, <2>2, TailKeepsDistinct DEF InQueue
<1>6. popped' # NoHandle => ~InQueue(popped)'
  BY <1>5 DEF InQueue
<1>7. EntriesAreOwn'
  BY <1>1, <1>2, <1>5, <1>6 DEF EntriesAreOwn
<1>8. UnreleasedCompletionIsKept'
  BY <1>1, <1>2, <1>5, TrackerAssumption DEF UnreleasedCompletionIsKept, Handle
<1>9. ClaimsHaveFinished'
  BY <1>1, <1>2, ClaimsStay
<1> QED BY <1>3, <1>4, <1>7, <1>8, <1>9

LEMMA CompletionCheck ==
  ASSUME CompletionInv, CheckEntry
  PROVE  CompletionInv'
<1> USE DEF CompletionInv
<1>1. /\ UNCHANGED <<gen, outcome, interested, queue, pc, held, released>>
      /\ popped \in Handle /\ popped' = NoHandle
      /\ delivered' = delivered \/ delivered' = [delivered EXCEPT ![popped] = TRUE]
      /\ delivered'[popped]
  BY DEF CheckEntry, Skipped, Typed, TypeOK, threadVars
<1>2. \A w \in Handle : /\ Finished(w)' <=> Finished(w)
                        /\ InQueue(w)' <=> InQueue(w)
                        /\ w # popped => delivered'[w] = delivered[w]
  BY <1>1 DEF Finished, InQueue, Typed, TypeOK
<1>3. Typed'
  BY TypedNext DEF Next, Parent
<1>4. ChainsAreSerial'
  BY <1>1, ChainsStay
<1>5. EntriesAreOwn'
  BY <1>1, <1>2, TrackerAssumption DEF EntriesAreOwn, Handle
<1>6. UnreleasedCompletionIsKept'
  BY <1>1, <1>2 DEF UnreleasedCompletionIsKept
<1>7. ClaimsHaveFinished'
  BY <1>1, <1>2, ClaimsStay
<1> QED BY <1>3, <1>4, <1>5, <1>6, <1>7

(* The relay of a finished chain only takes or lets go of a claim.          *)
LEMMA CompletionRelay ==
  ASSUME CompletionInv, NEW h \in Handle, Worker(h), ~PutCompletion(h),
         \A result \in {"completed", "stopped"} : ~MarkFinished(h, result)
  PROVE  CompletionInv'
<1> USE DEF CompletionInv
<1>1. Typed'
  BY TypedNext DEF Next
<1>2. /\ UNCHANGED <<gen, outcome, interested, queue, popped>> /\ released \subseteq released'
      /\ pc[h] \in {"relay"} \cup ClaimPC
      /\ \E q \in {"done"} \cup ClaimPC : pc' = [pc EXCEPT ![h] = q]
      /\ \A w \in Handle : w # h => held'[w] = held[w]
  BY DEF Worker, TryClaimForRelay, CheckParentTurn, ReleaseRelayClaim, DeliverToRoot, EnqueueForParent,
         WakeParent, ConfirmRelay, trackerVars, parentVars, historyVars, ClaimPC, Typed, TypeOK
<1>3. /\ pc'[h] \in {"done"} \cup ClaimPC
      /\ \A w \in Handle : w # h => pc'[w] = pc[w]
      /\ \A w \in Handle : Finished(w)' <=> Finished(w)
  BY <1>2 DEF Typed, TypeOK, Finished
<1>4. \A w \in Handle : delivered[w] => delivered'[w] \/ w \in released'
  <2>1. CASE ReleaseRelayClaim(h)
    BY <2>1 DEF ReleaseRelayClaim, Typed, TypeOK
  <2>2. CASE ~ReleaseRelayClaim(h)
    BY <2>2 DEF Worker, TryClaimForRelay, CheckParentTurn, DeliverToRoot, EnqueueForParent,
                WakeParent, ConfirmRelay, trackerVars, Typed, TypeOK
  <2> QED BY <2>1, <2>2
<1>5. ChainsAreSerial'
  BY <1>2, <1>3, ChainsStay DEF ClaimPC
<1>6. EntriesAreOwn' /\ UnreleasedCompletionIsKept'
  BY <1>2, <1>3, <1>4, EntriesStay DEF ClaimPC
<1>7. pc'[h] \in ClaimPC => Finished(held'[h])
  <2>1. CASE TryClaimForRelay(h)
    BY <2>1 DEF TryClaimForRelay, Claimable, Typed, TypeOK, ClaimPC
  <2>2. CASE ~TryClaimForRelay(h)
    <3>1. pc[h] \in ClaimPC /\ (pc'[h] = "done" \/ held' = held)
      BY <2>2 DEF Worker, CheckParentTurn, ReleaseRelayClaim, DeliverToRoot, EnqueueForParent,
                  WakeParent, ConfirmRelay, ClaimPC, Typed, TypeOK
    <3> QED BY <3>1 DEF ClaimsHaveFinished, ClaimPC
  <2> QED BY <2>1, <2>2
<1>8. ClaimsHaveFinished'
  BY <1>2, <1>3, <1>7 DEF ClaimsHaveFinished, Finished
<1> QED BY <1>1, <1>5, <1>6, <1>8

(* Every other step leaves the queue alone and clears no flag.              *)
LEMMA CompletionRest ==
  ASSUME CompletionInv, Typed', UNCHANGED <<gen, outcome, interested, queue, popped, pc, held, released>>,
         \A h \in Handle : delivered[h] => delivered'[h]
  PROVE  CompletionInv'
<1>1. ChainsAreSerial'
  BY ChainsStay
<1>2. EntriesAreOwn' /\ UnreleasedCompletionIsKept'
  BY EntriesStay
<1>3. ClaimsHaveFinished'
  BY ClaimsStay DEF Finished
<1> QED BY <1>1, <1>2, <1>3 DEF CompletionInv

LEMMA CompletionNext == ASSUME CompletionInv, [Next]_vars PROVE CompletionInv'
<1>0. Typed'
  BY TypedNext DEF CompletionInv
<1>1. ASSUME NEW c \in Child, Create(c) PROVE CompletionInv'
  BY <1>1, CompletionDispatch DEF Create
<1>2. ASSUME NEW c \in Child, NEW byParent \in BOOLEAN, Resume(c, byParent) PROVE CompletionInv'
  BY <1>2, CompletionDispatch DEF Resume, Resumable
<1>3. ASSUME NEW c \in Child, MarkParentInterested(c) PROVE CompletionInv'
  BY <1>3, CompletionInterest
<1>4. ASSUME NEW h \in Handle, Worker(h) PROVE CompletionInv'
  BY <1>4, CompletionFinish, CompletionPut, CompletionRelay
<1>5. CASE Parent
  <2>1. CASE ~PopEntry /\ ~CheckEntry
    BY <1>0, <1>5, <2>1, CompletionRest
    DEF Parent, StartParentTurn, EndParentTurn, DrainAtTurnEnd, WakeParentLater, GetMessages,
        BeginWait, InterruptWait, EndWait, trackerVars, threadVars, historyVars
  <2> QED BY <2>1, CompletionPop, CompletionCheck
<1>6. CASE Close
  <2>1. UNCHANGED <<gen, outcome, interested, queue, popped, pc, held, released>>
    BY <1>6 DEF Close, CloseBegin, CloseInspect, CloseAppendNote, CloseMarkDelivered, trackerVars,
                threadVars, parentVars, historyVars
  <2>2. \A h \in Handle : delivered[h] => delivered'[h]
    BY <1>6 DEF Close, CloseBegin, CloseInspect, CloseAppendNote, CloseMarkDelivered, trackerVars,
                CompletionInv, Typed, TypeOK
  <2> QED BY <1>0, <2>1, <2>2, CompletionRest
<1>7. CASE UNCHANGED vars
  BY <1>0, <1>7, CompletionRest DEF vars, trackerVars, threadVars, parentVars, historyVars
<1> QED BY <1>1, <1>2, <1>3, <1>4, <1>5, <1>6, <1>7 DEF Next

(* Between the workers that queue completions, the relays that claim them   *)
(* and the waits that pop them, none is queued twice and none is lost but   *)
(* where a relay gave one back (mark_finished, pop_next_completed,          *)
(* release_relay_claim), for every kind of parent and while it closes.      *)
THEOREM CompletionsAreNeverLost == Spec => []CompletionsAreKept
<1>1. ASSUME CompletionInv PROVE CompletionsAreKept
  <2>1. \A i \in 1..Len(queue) : queue[i] \in Handle /\ InQueue(queue[i])
    BY <1>1 DEF CompletionInv, Typed, TypeOK, InQueue
  <2> QED BY <1>1, <2>1 DEF CompletionInv, EntriesAreOwn, CompletionsAreKept, QueueIsSound
<1> QED BY <1>1, CompletionInit, CompletionNext, PTL DEF Spec

-----------------------------------------------------------------------------
(* The promise                                                              *)

(* The state of each chain as CompletionDelivery sees it.                   *)
ChainState ==
  [h \in Handle |-> IF ~Dispatched(h) THEN "absent"
                    ELSE IF Finished(h) THEN outcome[h] ELSE "running"]

RootInv == DeliveryInv /\ OwedInv /\ CompletionInv

LEMMA RootNext ==
  ASSUME RootInv, [Next]_vars, ParentKind # "subagent", Closing = FALSE
  PROVE  RootInv'
BY DeliveryNext, OwedNext, CompletionNext DEF RootInv

LEMMA PromiseInit == Init => Promise!Init
<1> SUFFICES ASSUME Init PROVE Promise!Init
  OBVIOUS
<1>1. \A h \in Handle : ~Dispatched(h)
  BY HandleParts DEF Init, Dispatched
<1> QED BY <1>1 DEF Init, Promise!Init, Promise!Handle, Handle

(* A finished handle is dispatched and has an outcome.                      *)
LEMMA FinishedIsEnded ==
  ASSUME RootInv, NEW h \in Handle, Finished(h)
  PROVE  ChainState[h] \in {"completed", "stopped"}
BY DEF RootInv, CompletionInv, ChainsAreSerial, Typed, TypeOK, ChainState, Finished

LEMMA PromiseStart ==
  ASSUME RootInv, NEW c \in Child, NEW byParent \in BOOLEAN, Dispatch(c, byParent),
         gen[c] = 0 \/ Finished(Current(c))
  PROVE  Promise!Next
<1> DEFINE n == <<c, gen[c] + 1>>
<1> USE DEF RootInv
<1>1. n \in Handle /\ gen[c] \in Nat
  BY TrackerAssumption DEF CompletionInv, Typed, TypeOK, Dispatch, Handle
<1>2. /\ UNCHANGED <<outcome, received>> /\ interested' = [interested EXCEPT ![n] = byParent]
      /\ gen'[c] = gen[c] + 1 /\ \A d \in Child : d # c => gen'[d] = gen[d]
  BY <1>1 DEF Dispatch, CompletionInv, Typed, TypeOK, historyVars
<1>3. ~Dispatched(n) /\ ~Finished(n) /\ ChainState[n] = "absent"
  BY <1>1 DEF CompletionInv, Dispatched, ChainsAreSerial, ChainState
<1>4. n[2] > 1 => ChainState[<<n[1], n[2] - 1>>] \in {"completed", "stopped"}
  <2>1. n[2] > 1 => <<n[1], n[2] - 1>> = Current(c) /\ gen[c] # 0
    BY <1>1 DEF Current
  <2> QED BY <1>1, <2>1, CurrentIsHandle, FinishedIsEnded DEF CompletionInv, Typed
<1>5. ChainState' = [ChainState EXCEPT ![n] = "running"]
  <2>1. \A h \in Handle : /\ Finished(h)' <=> Finished(h)
                          /\ h # n => (Dispatched(h)' <=> Dispatched(h))
    <3> SUFFICES ASSUME NEW h \in Handle, h # n
                 PROVE  h[2] <= gen'[h[1]] <=> h[2] <= gen[h[1]]
      BY <1>2 DEF Finished, Dispatched
    <3>1. h[1] \in Child /\ h[2] \in Nat /\ h = <<h[1], h[2]>> /\ gen[h[1]] \in Nat
      BY HandleParts, TrackerAssumption DEF CompletionInv, Typed, TypeOK
    <3>2. h[1] = c => h[2] # gen[c] + 1
      BY <3>1
    <3> QED BY <1>1, <1>2, <3>1, <3>2
  <2>2. \A h \in Handle : h = n => Dispatched(h)'
    BY <1>1, <1>2 DEF Dispatched
  <2> QED BY <1>1, <1>2, <1>3, <2>1, <2>2 DEF ChainState
<1>6. Promise!Start(n, byParent)
  BY <1>2, <1>3, <1>4, <1>5 DEF Promise!Start, Promise!Outcome, ChainState
<1> QED BY <1>1, <1>6 DEF Promise!Next, Promise!Handle, Handle

LEMMA PromiseOwe ==
  ASSUME RootInv, NEW c \in Child, MarkParentInterested(c)
  PROVE  Promise!Next
<1> DEFINE k == Current(c)
<1> USE DEF RootInv
<1>1. k \in Handle /\ pc[k] = "running"
  BY CurrentIsHandle DEF MarkParentInterested, CompletionInv, Typed
<1>2. ChainState[k] = "running"
  BY <1>1 DEF CompletionInv, ChainsAreSerial, ChainState
<1>3. UNCHANGED <<gen, outcome, received>> /\ interested' = [interested EXCEPT ![k] = TRUE]
  BY DEF MarkParentInterested, historyVars
<1>4. ChainState' = ChainState
  BY <1>3 DEF ChainState, Dispatched, Finished
<1>5. Promise!Owe(k)
  BY <1>2, <1>3, <1>4 DEF Promise!Owe, ChainState
<1> QED BY <1>1, <1>5 DEF Promise!Next, Promise!Handle, Handle

LEMMA PromiseFinish ==
  ASSUME RootInv, NEW h \in Handle, NEW result \in {"completed", "stopped"}, MarkFinished(h, result)
  PROVE  Promise!Next
<1> USE DEF RootInv
<1>1. h = Current(h[1]) /\ pc[h] = "running" /\ ~Finished(h)
  BY RunnerIsCurrent DEF MarkFinished
<1>2. UNCHANGED <<gen, interested, received>> /\ outcome' = [outcome EXCEPT ![h] = result]
  BY <1>1 DEF MarkFinished, historyVars
<1>3. ChainState[h] = "running" /\ Dispatched(h)
  BY <1>1 DEF CompletionInv, ChainsAreSerial, ChainState
<1>4. ChainState' = [ChainState EXCEPT ![h] = result]
  <2>1. \A w \in Handle : Dispatched(w)' <=> Dispatched(w)
    BY <1>2 DEF Dispatched
  <2> QED BY <1>2, <1>3, <2>1 DEF ChainState, Finished, CompletionInv, Typed, TypeOK
<1>5. Promise!Finish(h, result)
  BY <1>2, <1>3, <1>4 DEF Promise!Finish, ChainState
<1> QED BY <1>5 DEF Promise!Next, Promise!Handle, Promise!Outcome, Handle

(* An output that is handed over is that of a finished, owed chain whose    *)
(* output has not been.                                                     *)
LEMMA PromiseReceive ==
  ASSUME RootInv, NEW k \in Handle, Finished(k), interested[k], received[k] = 0,
         UNCHANGED <<gen, outcome, interested>>, received' = [received EXCEPT ![k] = @ + 1]
  PROVE  Promise!Next
<1>1. ChainState' = ChainState
  BY DEF ChainState, Dispatched, Finished
<1>2. received' = [received EXCEPT ![k] = 1]
  OBVIOUS
<1>3. Promise!Receive(k)
  BY <1>1, <1>2, FinishedIsEnded DEF Promise!Receive, Promise!Outcome, ChainState
<1> QED BY <1>3 DEF Promise!Next, Promise!Handle, Handle

LEMMA PromiseStutter ==
  ASSUME UNCHANGED <<gen, outcome, interested, received>>
  PROVE  UNCHANGED Promise!vars
BY DEF Promise!vars, Dispatched, Finished

(* Every step of the tracker is one of the promise, or changes nothing it   *)
(* speaks of.                                                               *)
LEMMA PromiseNext ==
  ASSUME RootInv, [Next]_vars, ParentKind # "subagent", Closing = FALSE
  PROVE  [Promise!Next]_(Promise!vars)
<1> USE DEF RootInv
<1>1. ASSUME NEW c \in Child, Create(c) PROVE Promise!Next
  BY <1>1, PromiseStart DEF Create
<1>2. ASSUME NEW c \in Child, NEW byParent \in BOOLEAN, Resume(c, byParent) PROVE Promise!Next
  BY <1>2, PromiseStart DEF Resume, Resumable
<1>3. ASSUME NEW c \in Child, MarkParentInterested(c) PROVE Promise!Next
  BY <1>3, PromiseOwe
<1>4. ASSUME NEW h \in Handle, Worker(h) PROVE Promise!Next \/ UNCHANGED Promise!vars
  <2>1. ASSUME NEW result \in {"completed", "stopped"}, MarkFinished(h, result) PROVE Promise!Next
    BY <2>1, PromiseFinish
  <2>2. CASE DeliverToRoot(h)
    <3>1. pc[h] = "deliver" /\ UNCHANGED <<gen, outcome, interested>>
      BY <2>2 DEF DeliverToRoot, trackerVars
    <3>2. /\ held[h] \in Handle /\ Finished(held[h]) /\ interested[held[h]]
          /\ received[held[h]] = 0
      BY <3>1 DEF CompletionInv, ClaimsHaveFinished, OwedInv, HeldIsOwed, DeliveryInv,
                  ClaimsAreExclusive, Typed, WorkersAreDispatched, ClaimPC
    <3>3. received' = received \/ received' = [received EXCEPT ![held[h]] = @ + 1]
      BY <2>2 DEF DeliverToRoot
    <3> QED BY <3>1, <3>2, <3>3, PromiseReceive, PromiseStutter
  <2>3. CASE WakeParent(h)
    BY <2>3 DEF WakeParent, DeliveryInv, NothingInMailbox
  <2>4. ASSUME ~DeliverToRoot(h), ~WakeParent(h),
               \A result \in {"completed", "stopped"} : ~MarkFinished(h, result)
        PROVE  UNCHANGED Promise!vars
    <3>1. UNCHANGED <<gen, outcome, interested, received>>
      BY <1>4, <2>4 DEF Worker, PutCompletion, TryClaimForRelay, CheckParentTurn, ReleaseRelayClaim,
                        EnqueueForParent, ConfirmRelay, trackerVars, historyVars
    <3> QED BY <3>1, PromiseStutter
  <2> QED BY <2>1, <2>2, <2>3, <2>4
<1>5. CASE Parent
  <2>1. UNCHANGED <<gen, outcome, interested>>
    BY <1>5 DEF Parent, StartParentTurn, EndParentTurn, DrainAtTurnEnd, WakeParentLater, GetMessages,
                BeginWait, InterruptWait, PopEntry, CheckEntry, EndWait, trackerVars
  <2>2. CASE CheckEntry
    <3>1. /\ popped \in Handle /\ Finished(popped) /\ interested[popped]
          /\ ~delivered[popped] => received[popped] = 0
      BY <2>2 DEF CheckEntry, CompletionInv, EntriesAreOwn, DeliveryInv, ReceivedIsDelivered, Typed,
                  TypeOK
    <3>2. \/ received' = received
          \/ ~delivered[popped] /\ received' = [received EXCEPT ![popped] = @ + 1]
      BY <2>2 DEF CheckEntry, Skipped
    <3> QED BY <2>1, <3>1, <3>2, PromiseReceive, PromiseStutter
  <2>3. CASE ~CheckEntry
    <3>1. received' = received \/ DrainMailbox
      BY <1>5, <2>3 DEF Parent, StartParentTurn, EndParentTurn, DrainAtTurnEnd, WakeParentLater,
                        GetMessages, BeginWait, InterruptWait, PopEntry, EndWait, historyVars
    <3>2. received' = received
      BY <3>1, EmptyDrain DEF DeliveryInv
    <3> QED BY <2>1, <3>2, PromiseStutter
  <2> QED BY <2>2, <2>3
<1>6. ~Close
  BY DEF Close, CloseBegin, CloseInspect, CloseAppendNote, CloseMarkDelivered, DeliveryInv, NotClosed
<1>7. CASE UNCHANGED vars
  BY <1>7, PromiseStutter DEF vars, trackerVars, historyVars
<1> QED BY <1>1, <1>2, <1>3, <1>4, <1>5, <1>6, <1>7 DEF Next

(* The tracker keeps the promise made to the session that creates           *)
(* subagents: the chains of a child run one after another, each is settled  *)
(* once, and an owed output is handed over at most once and only after its  *)
(* chain has ended, whatever mark_finished, the relays and WaitForSubagent  *)
(* do in between.  It is the promise to a root that is not closed: a        *)
(* subagent parent, or one that closes, may be told twice.                  *)
THEOREM TrackerKeepsItsPromise ==
  ASSUME ParentKind # "subagent", Closing = FALSE
  PROVE  Spec => ImplementsPromise
<1>1. Init => RootInv
  BY DeliveryInit, OwedInit, CompletionInit DEF RootInv
<1>2. RootInv /\ [Next]_vars => RootInv'
  BY RootNext
<1>3. RootInv /\ [Next]_vars => [Promise!Next]_(Promise!vars)
  BY PromiseNext
<1> QED BY <1>1, <1>2, <1>3, PromiseInit, PTL DEF Spec, ImplementsPromise, Promise!Spec
=============================================================================
