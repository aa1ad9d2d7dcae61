------------------------- MODULE OfflineSyncContract -------------------------
(***************************************************************************)
(* Two further proofs about OfflineSync: the order of replay, and that the *)
(* subsystem implements the abstract specification ActionDelivery.         *)
(***************************************************************************)
EXTENDS OfflineSyncProofs

(***************************************************************************)
(* Order of replay.  A step outside a crash leaves the queue alone, grows  *)
(* it at its end, counts a retry or removes the head.                      *)
(***************************************************************************)
LEMMA SameQueueInOrder ==
  ASSUME EngineType, UNCHANGED queue
  PROVE  InOrder
<1>1. /\ Len(queue') >= Len(queue) - 0
      /\ \A i \in 1 .. Len(queue) - 0 : queue'[i].id = queue[i + 0].id
  BY DEF EngineType
<1>. QED  BY <1>1 DEF InOrder

LEMMA GrownInOrder ==
  ASSUME EngineType, Placement, NEW a \in Action, a \notin Ids(queue), Enqueue(a)
  PROVE  InOrder
<1> DEFINE q == Append(queue, [id |-> a, retries |-> 0])
<1>1. queue' = q
  BY PersistEffect DEF Enqueue
<1>2. WellFormed(queue)
  BY DEF WellFormed, EngineType, Placement
<1>3. Len(q) = Len(queue) + 1 /\ \A i \in DOMAIN queue : q[i] = queue[i]
  BY <1>2, AppendEntry
<1> HIDE DEF q
<1>4. /\ Len(queue') >= Len(queue) - 0
      /\ \A i \in 1 .. Len(queue) - 0 : queue'[i].id = queue[i + 0].id
  BY <1>1, <1>2, <1>3 DEF WellFormed
<1>. QED  BY <1>4 DEF InOrder

LEMMA ShortenedInOrder ==
  ASSUME EngineType, Placement, queue # <<>>, Persist(RemoveAt(queue, 1))
  PROVE  InOrder
<1> DEFINE q == RemoveAt(queue, 1)
<1>1. queue' = q
  BY PersistEffect
<1>2. WellFormed(queue)
  BY DEF WellFormed, EngineType, Placement
<1>3. /\ WellFormed(q) /\ Ids(q) = Ids(queue) \ {Head(queue).id}
      /\ Len(q) = Len(queue) - 1
      /\ \A i \in DOMAIN q : q[i] = queue[i + 1]
  BY <1>2, RemoveHead
<1> HIDE DEF q
<1>4. queue[1].id = Head(queue).id
  BY <1>2 DEF WellFormed
<1>5. queue[1].id \notin Ids(queue')
  <2>1. Ids(queue') = Ids(queue) \ {Head(queue).id}
    BY <1>1, <1>3, Zenon
  <2>. QED  BY <1>4, <2>1
<1>6. /\ Len(queue') >= Len(queue) - 1
      /\ \A i \in 1 .. Len(queue) - 1 : queue'[i].id = queue[i + 1].id
  BY <1>1, <1>2, <1>3 DEF WellFormed
<1>. QED  BY <1>5, <1>6 DEF InOrder

LEMMA RetriedInOrder ==
  ASSUME EngineType, Placement, queue # <<>>, MarkFailed(Head(queue).id)
  PROVE  InOrder
<1>1. WellFormed(queue) /\ 1 \in DOMAIN queue
  BY MarkFailedCases
<1>2. CASE Persist(RemoveAt(queue, 1))
  BY <1>2, ShortenedInOrder
<1>3. CASE /\ queue[1].retries + 1 < MaxRetries
           /\ Persist([queue EXCEPT ![1].retries = @ + 1])
  <2> DEFINE q == [queue EXCEPT ![1].retries = @ + 1]
  <2>1. queue' = q
    BY <1>3, PersistEffect
  <2>2. Len(q) = Len(queue) /\ \A j \in DOMAIN queue : q[j].id = queue[j].id
    BY <1>1, <1>3, CountRetry
  <2> HIDE DEF q
  <2>3. /\ Len(queue') >= Len(queue) - 0
        /\ \A i \in 1 .. Len(queue) - 0 : queue'[i].id = queue[i + 0].id
    BY <1>1, <2>1, <2>2 DEF WellFormed
  <2>. QED  BY <2>3 DEF InOrder
<1>. QED  BY <1>2, <1>3, MarkFailedCases

LEMMA StepInOrder ==
  ASSUME CoreInv, Next, UNCHANGED crashes
  PROVE  InOrder
<1>0. EngineType /\ Placement
  BY DEF CoreInv
<1>1. ASSUME NEW a \in Action, ExecuteOrQueue(a) PROVE InOrder
  <2>1. a \notin Ids(queue)
    BY <1>0, <1>1 DEF ExecuteOrQueue, Placement
  <2>. QED  BY <1>0, <1>1, <2>1, GrownInOrder, SameQueueInOrder DEF ExecuteOrQueue, storeVars
<1>2. ASSUME NEW a \in Action, DirectThrows(a) PROVE InOrder
  <2>1. a \notin Ids(queue)
    BY <1>0, <1>2 DEF DirectThrows, Placement
  <2>. QED  BY <1>0, <1>2, <2>1, GrownInOrder DEF DirectThrows
<1>3. ASSUME NEW d \in DOMAIN drains, ReplayResolves(d) PROVE InOrder
  <2>1. d \in Executing
    BY <1>3 DEF ReplayResolves
  <2>2. /\ queue # <<>> /\ drains[d].current = Head(queue).id
        /\ Without(Head(queue).id) = RemoveAt(queue, 1)
    BY <2>1, ReplayedAction
  <2>3. Persist(RemoveAt(queue, 1))
    BY <1>3, <2>2, Zenon DEF ReplayResolves, MarkComplete
  <2>. QED  BY <1>0, <2>2, <2>3, ShortenedInOrder
<1>4. ASSUME NEW d \in DOMAIN drains, ReplayThrows(d) PROVE InOrder
  <2>1. d \in Executing
    BY <1>4 DEF ReplayThrows
  <2>2. queue # <<>> /\ drains[d].current = Head(queue).id
    BY <2>1, ReplayedAction
  <2>3. MarkFailed(Head(queue).id)
    BY <1>4, <2>2 DEF ReplayThrows
  <2>. QED  BY <1>0, <2>2, <2>3, RetriedInOrder
<1>5. ASSUME ~Restart, UNCHANGED queue PROVE InOrder
  BY <1>0, <1>5, SameQueueInOrder
<1>6. ~Restart
  <2>1. crashes \in Nat
    BY <1>0, FaultAssumption DEF EngineType
  <2>. QED  BY <2>1 DEF Restart
<1>. QED  BY <1>1, <1>2, <1>3, <1>4, <1>5, <1>6
          DEF Next, Engine, Initialize, Check, SetForcedOffline, DirectResolves, DelayOver, storeVars

-----------------------------------------------------------------------------
(***************************************************************************)
(* Refinement.  The file never holds an action that the process has        *)
(* forgotten: so what a crash loses stays lost.                            *)
(***************************************************************************)
FileTrace == Ids(file) \subseteq Ids(queue) \cup completed \cup abandoned

(* The actions the process holds.                                          *)
Held == direct \cup Ids(queue)

ContractInv == CoreInv /\ FileTrace

(* Fate by cases, now and after a step.                                    *)
LEMMA FateOf ==
  ASSUME Placement, NEW a \in Action
  PROVE  /\ a \in completed => Fate[a] = "done"
         /\ a \in abandoned \ completed => Fate[a] = "abandoned"
         /\ a \in Held \ (completed \cup abandoned) => Fate[a] = "open"
         /\ a \notin submitted => Fate[a] = "new"
         /\ a \in submitted \ (Held \cup completed \cup abandoned) => Fate[a] = "lost"
<1>1. Held \cup completed \cup abandoned \subseteq submitted
  BY DEF Placement, Held
<1>2. Fate[a] = CASE a \in completed                    -> "done"
                  [] a \in abandoned \ completed        -> "abandoned"
                  [] a \in Held \ (completed \cup abandoned) -> "open"
                  [] a \notin submitted                 -> "new"
                  [] OTHER                              -> "lost"
  BY DEF Fate, Held
<1>. QED  BY <1>1, <1>2

LEMMA FateOfNext ==
  ASSUME Placement', NEW a \in Action
  PROVE  /\ a \in completed' => Fate'[a] = "done"
         /\ a \in abandoned' \ completed' => Fate'[a] = "abandoned"
         /\ a \in Held' \ (completed' \cup abandoned') => Fate'[a] = "open"
         /\ a \notin submitted' => Fate'[a] = "new"
         /\ a \in submitted' \ (Held' \cup completed' \cup abandoned') => Fate'[a] = "lost"
<1>1. Held' \cup completed' \cup abandoned' \subseteq submitted'
  BY DEF Placement, Held
<1>2. Fate'[a] = CASE a \in completed'                    -> "done"
                   [] a \in abandoned' \ completed'       -> "abandoned"
                   [] a \in Held' \ (completed' \cup abandoned') -> "open"
                   [] a \notin submitted'                -> "new"
                   [] OTHER                              -> "lost"
  BY DEF Fate, Held
<1>. QED  BY <1>1, <1>2

(* An action whose place in the four sets has not changed keeps its fate.  *)
LEMMA SameFate ==
  ASSUME NEW a \in Action,
         a \in completed' <=> a \in completed,
         a \in abandoned' <=> a \in abandoned,
         a \in Held' <=> a \in Held,
         a \in submitted' <=> a \in submitted
  PROVE  Fate'[a] = Fate[a]
BY DEF Fate, Held

LEMMA FateFunction ==
  /\ Fate = [a \in Action |-> Fate[a]]
  /\ Fate' = [a \in Action |-> Fate'[a]]
BY DEF Fate

(* All but one action keep their fates.                                    *)
LEMMA OneFate ==
  ASSUME NEW a \in Action, NEW f, Fate'[a] = f,
         \A b \in Action \ {a} : Fate'[b] = Fate[b]
  PROVE  Fate' = [Fate EXCEPT ![a] = f]
BY FateFunction

LEMMA NoFate ==
  ASSUME \A b \in Action : Fate'[b] = Fate[b]
  PROVE  UNCHANGED Fate
BY FateFunction

(* What the steps of the engine are in terms of the promise.               *)
LEMMA Submission ==
  ASSUME Placement, Placement', NEW a \in Action, a \notin submitted,
         submitted' = submitted \cup {a}, Held' = Held \cup {a},
         UNCHANGED <<completed, abandoned, crashes>>
  PROVE  Contract!Submit(a)
<1>1. a \notin Held \cup completed \cup abandoned
  BY DEF Placement, Held
<1>2. Fate[a] = "new" /\ Fate'[a] = "open"
  BY <1>1, FateOf, FateOfNext
<1>3. \A b \in Action \ {a} : Fate'[b] = Fate[b]
  BY SameFate
<1>. QED  BY <1>2, <1>3, OneFate DEF Contract!Submit

LEMMA Delivery ==
  ASSUME Placement, Placement', NEW a \in Action, a \in Held,
         completed' = completed \cup {a},
         Held \ {a} \subseteq Held', Held' \subseteq Held,
         UNCHANGED <<submitted, abandoned, crashes>>
  PROVE  Contract!Deliver(a) \/ UNCHANGED <<Fate, crashes>>
<1>1. \A b \in Action \ {a} : Fate'[b] = Fate[b]
  BY SameFate
<1>2. Fate'[a] = "done"
  BY FateOfNext
<1>3. CASE a \in completed
  <2>1. Fate[a] = "done"
    BY <1>3, FateOf
  <2>. QED  BY <1>1, <1>2, <2>1, NoFate
<1>4. CASE a \notin completed
  <2>1. Fate[a] \in {"open", "abandoned"}
    BY <1>4, FateOf
  <2>. QED  BY <1>1, <1>2, <2>1, OneFate DEF Contract!Deliver
<1>. QED  BY <1>3, <1>4

LEMMA GivingUp ==
  ASSUME Placement, Placement', NEW a \in Action, a \in Held,
         abandoned' = abandoned \cup {a}, Held' = Held \ {a},
         UNCHANGED <<submitted, completed, crashes>>
  PROVE  Contract!Abandon(a) \/ UNCHANGED <<Fate, crashes>>
<1>1. \A b \in Action \ {a} : Fate'[b] = Fate[b]
  BY SameFate
<1>2. CASE a \in completed \cup abandoned
  <2>1. Fate'[a] = Fate[a]
    BY <1>2, FateOf, FateOfNext
  <2>. QED  BY <1>1, <2>1, NoFate
<1>3. CASE a \notin completed \cup abandoned
  <2>1. Fate[a] = "open" /\ Fate'[a] = "abandoned"
    BY <1>3, FateOf, FateOfNext
  <2>. QED  BY <1>1, <2>1, OneFate DEF Contract!Abandon
<1>. QED  BY <1>2, <1>3

(* What the next process does not hold any more was open and is lost; what *)
(* it holds was open, done or given up before.                             *)
LEMMA Loss ==
  ASSUME Placement, Placement', crashes' = crashes + 1,
         Held' \subseteq Held \cup completed \cup abandoned,
         UNCHANGED <<submitted, completed, abandoned>>
  PROVE  Contract!Crash
<1> DEFINE lost == {a \in Action : Fate[a] = "open" /\ a \notin Held'}
<1>1. ASSUME NEW a \in Action
      PROVE  Fate'[a] = IF a \in lost THEN "lost" ELSE Fate[a]
  <2>1. Held \cup completed \cup abandoned \subseteq submitted
    BY DEF Placement, Held
  <2>2. CASE a \in completed \cup abandoned \/ a \notin submitted
    <3>1. Fate'[a] = Fate[a] /\ Fate[a] # "open"
      BY <2>2, FateOf, FateOfNext
    <3>. QED  BY <3>1
  <2>3. CASE a \in Held \ (completed \cup abandoned)
    <3>1. Fate[a] = "open"
      BY <2>3, FateOf
    <3>2. a \in Held' => Fate'[a] = "open"
      BY <2>3, FateOfNext
    <3>3. a \notin Held' => Fate'[a] = "lost"
      BY <2>1, <2>3, FateOfNext
    <3>. QED  BY <3>1, <3>2, <3>3
  <2>4. CASE a \in submitted \ (Held \cup completed \cup abandoned)
    <3>1. Fate[a] = "lost" /\ Fate'[a] = "lost"
      BY <2>4, FateOf, FateOfNext
    <3>. QED  BY <3>1
  <2>. QED  BY <2>2, <2>3, <2>4
<1>2. lost \in SUBSET {a \in Action : Fate[a] = "open"}
  OBVIOUS
<1>3. Fate' = [a \in Action |-> IF a \in lost THEN "lost" ELSE Fate[a]]
  BY <1>1, FateFunction
<1>. QED  BY <1>2, <1>3 DEF Contract!Crash

-----------------------------------------------------------------------------
(* The steps of the engine, each with what it makes of the file's trace.   *)
ContractStep == [Contract!Next]_<<Fate, crashes>> /\ FileTrace'

LEMMA EnqueueTrace ==
  ASSUME EngineType, Placement, FileTrace, NEW a \in Action, a \notin Ids(queue), Enqueue(a),
         completed' = completed, abandoned' = abandoned
  PROVE  FileTrace' /\ Ids(queue') = Ids(queue) \cup {a}
<1> DEFINE q == Append(queue, [id |-> a, retries |-> 0])
<1>1. queue' = q /\ file' \in {q, file, <<>>}
  BY PersistEffect DEF Enqueue
<1>2. WellFormed(queue)
  BY DEF WellFormed, EngineType, Placement
<1>3. Ids(q) = Ids(queue) \cup {a}
  BY <1>2, AppendEntry
<1> HIDE DEF q
<1>4. Ids(queue') = Ids(queue) \cup {a}
  BY <1>1, <1>3, Zenon
<1>5. Ids(<<>>) = {}
  BY DEF Ids
<1>6. Ids(file') \subseteq Ids(queue) \cup {a} \cup Ids(file)
  BY <1>1, <1>3, <1>5, Zenon
<1>. QED  BY <1>4, <1>6 DEF FileTrace

LEMMA ShortenTrace ==
  ASSUME EngineType, Placement, queue # <<>>, Persist(RemoveAt(queue, 1))
  PROVE  /\ Ids(queue') = Ids(queue) \ {Head(queue).id}
         /\ Ids(file') \subseteq Ids(queue) \cup Ids(file)
BY RemovalEffect

LEMMA SubmitContract ==
  ASSUME ContractInv, CoreInv', NEW a \in Action, ExecuteOrQueue(a)
  PROVE  ContractStep
<1>1. EngineType /\ Placement /\ Placement' /\ FileTrace
  BY DEF ContractInv, CoreInv
<1>2. /\ a \notin submitted /\ submitted' = submitted \cup {a}
      /\ UNCHANGED <<completed, abandoned, crashes>>
  BY DEF ExecuteOrQueue
<1>3. FileTrace' /\ Held' = Held \cup {a}
  <2>1. CASE direct' = direct \cup {a} /\ UNCHANGED <<queue, file>>
    BY <1>1, <1>2, <2>1 DEF FileTrace, Held, Ids
  <2>2. CASE Enqueue(a) /\ UNCHANGED direct
    <3>1. a \notin Ids(queue)
      BY <1>1, <1>2 DEF Placement
    <3>2. FileTrace' /\ Ids(queue') = Ids(queue) \cup {a}
      BY <1>1, <1>2, <2>2, <3>1, EnqueueTrace
    <3>. QED  BY <2>2, <3>2 DEF Held
  <2>. QED  BY <2>1, <2>2 DEF ExecuteOrQueue, storeVars
<1>4. Contract!Submit(a)
  BY <1>1, <1>2, <1>3, Submission
<1>. QED  BY <1>3, <1>4 DEF ContractStep, Contract!Next

LEMMA DirectResolvesContract ==
  ASSUME ContractInv, CoreInv', NEW a \in Action, DirectResolves(a)
  PROVE  ContractStep
<1>1. Placement /\ Placement' /\ FileTrace
  BY DEF ContractInv, CoreInv
<1>2. /\ a \in direct /\ direct' = direct \ {a} /\ completed' = completed \cup {a}
      /\ UNCHANGED <<queue, file, submitted, abandoned, crashes>>
  BY DEF DirectResolves, Resolves, storeVars
<1>3. Ids(queue') = Ids(queue) /\ Ids(file') = Ids(file)
  BY <1>2 DEF Ids
<1>4. a \in Held /\ Held \ {a} \subseteq Held' /\ Held' \subseteq Held
  BY <1>2, <1>3 DEF Held
<1>5. Contract!Deliver(a) \/ UNCHANGED <<Fate, crashes>>
  BY <1>1, <1>2, <1>4, Delivery
<1>6. FileTrace'
  BY <1>1, <1>2, <1>3 DEF FileTrace
<1>. QED  BY <1>5, <1>6 DEF ContractStep, Contract!Next

LEMMA QuietContract ==
  ASSUME UNCHANGED <<Held, submitted, completed, abandoned, crashes>>, FileTrace'
  PROVE  ContractStep
<1>1. \A b \in Action : Fate'[b] = Fate[b]
  BY SameFate
<1>. QED  BY <1>1, NoFate DEF ContractStep

LEMMA DirectThrowsContract ==
  ASSUME ContractInv, CoreInv', NEW a \in Action, DirectThrows(a)
  PROVE  ContractStep
<1>1. EngineType /\ Placement /\ Placement' /\ FileTrace
  BY DEF ContractInv, CoreInv
<1>2. /\ a \in direct /\ direct' = direct \ {a} /\ Enqueue(a)
      /\ UNCHANGED <<completed, submitted, abandoned, crashes>>
  BY DEF DirectThrows, Throws
<1>3. a \notin Ids(queue)
  BY <1>1, <1>2 DEF Placement
<1>4. FileTrace' /\ Ids(queue') = Ids(queue) \cup {a}
  BY <1>1, <1>2, <1>3, EnqueueTrace
<1>5. Held' = Held
  BY <1>2, <1>4 DEF Held
<1>. QED  BY <1>2, <1>4, <1>5, QuietContract

LEMMA ReplayResolvesContract ==
  ASSUME ContractInv, CoreInv', NEW d \in DOMAIN drains, ReplayResolves(d)
  PROVE  ContractStep
<1> DEFINE h == Head(queue).id
<1>1. EngineType /\ Placement /\ Placement' /\ FileTrace
  BY DEF ContractInv, CoreInv
<1>2. d \in Executing
  BY DEF ReplayResolves
<1>3. /\ queue # <<>> /\ drains[d].current = h /\ h \in Action /\ h \in Ids(queue)
      /\ Without(h) = RemoveAt(queue, 1)
  BY <1>2, ReplayedAction DEF ContractInv
<1>4. /\ Resolves(h) /\ Persist(RemoveAt(queue, 1))
      /\ UNCHANGED <<direct, submitted, abandoned, crashes>>
  BY <1>3, Zenon DEF ReplayResolves, MarkComplete
<1>5. completed' = completed \cup {h}
  BY <1>4 DEF Resolves
<1>6. Ids(queue') = Ids(queue) \ {h} /\ Ids(file') \subseteq Ids(queue) \cup Ids(file)
  BY <1>1, <1>3, <1>4, ShortenTrace
<1> HIDE DEF h
<1>7. h \in Held /\ Held \ {h} \subseteq Held' /\ Held' \subseteq Held
  BY <1>3, <1>4, <1>6 DEF Held
<1>8. Contract!Deliver(h) \/ UNCHANGED <<Fate, crashes>>
  BY <1>1, <1>3, <1>4, <1>5, <1>7, Delivery
<1>9. FileTrace'
  BY <1>1, <1>4, <1>5, <1>6 DEF FileTrace
<1>. QED  BY <1>3, <1>8, <1>9 DEF ContractStep, Contract!Next

LEMMA ReplayThrowsContract ==
  ASSUME ContractInv, CoreInv', NEW d \in DOMAIN drains, ReplayThrows(d)
  PROVE  ContractStep
<1> DEFINE h == Head(queue).id
<1>1. EngineType /\ Placement /\ Placement' /\ FileTrace
  BY DEF ContractInv, CoreInv
<1>2. d \in Executing
  BY DEF ReplayThrows
<1>3. queue # <<>> /\ drains[d].current = h /\ h \in Action /\ h \in Ids(queue)
  BY <1>2, ReplayedAction DEF ContractInv
<1>4. MarkFailed(h) /\ UNCHANGED <<completed, direct, submitted, crashes>>
  BY <1>3 DEF ReplayThrows, Throws
<1>5. CASE Persist(RemoveAt(queue, 1)) /\ abandoned' = abandoned \cup {h}
  <2>1. Ids(queue') = Ids(queue) \ {h} /\ Ids(file') \subseteq Ids(queue) \cup Ids(file)
    BY <1>1, <1>3, <1>5, ShortenTrace
  <2> HIDE DEF h
  <2>2. h \in Held /\ Held' = Held \ {h}
    BY <1>1, <1>3, <1>4, <2>1 DEF Held, Placement
  <2>3. Contract!Abandon(h) \/ UNCHANGED <<Fate, crashes>>
    BY <1>1, <1>3, <1>4, <1>5, <2>2, GivingUp
  <2>4. FileTrace'
    BY <1>1, <1>4, <1>5, <2>1 DEF FileTrace
  <2>. QED  BY <1>3, <2>3, <2>4 DEF ContractStep, Contract!Next
<1>6. CASE /\ queue[1].retries + 1 < MaxRetries
           /\ Persist([queue EXCEPT ![1].retries = @ + 1]) /\ UNCHANGED abandoned
  <2> DEFINE q == [queue EXCEPT ![1].retries = @ + 1]
  <2>1. queue' = q /\ file' \in {q, file, <<>>}
    BY <1>1, <1>6, PersistEffect
  <2>2. WellFormed(queue) /\ 1 \in DOMAIN queue
    BY <1>1, <1>3, <1>4, MarkFailedCases
  <2>3. Ids(q) = Ids(queue)
    BY <1>6, <2>2, CountRetry
  <2> HIDE DEF q
  <2>4. Ids(queue') = Ids(queue)
    BY <2>1, <2>3, Zenon
  <2>5. Ids(<<>>) = {}
    BY DEF Ids
  <2>6. Ids(file') \subseteq Ids(queue) \cup Ids(file)
    BY <2>1, <2>3, <2>5, Zenon
  <2>7. FileTrace'
    BY <1>1, <1>4, <1>6, <2>4, <2>6 DEF FileTrace
  <2>8. Held' = Held
    BY <1>4, <2>4 DEF Held
  <2>. QED  BY <1>4, <1>6, <2>7, <2>8, QuietContract
<1>7. \/ Persist(RemoveAt(queue, 1)) /\ abandoned' = abandoned \cup {h}
      \/ /\ queue[1].retries + 1 < MaxRetries
         /\ Persist([queue EXCEPT ![1].retries = @ + 1]) /\ UNCHANGED abandoned
  BY <1>1, <1>3, <1>4, MarkFailedCases
<1>. QED  BY <1>5, <1>6, <1>7

LEMMA RestartContract ==
  ASSUME ContractInv, CoreInv', Restart
  PROVE  ContractStep
<1>1. Placement /\ Placement' /\ FileTrace
  BY DEF ContractInv, CoreInv
<1>2. /\ crashes' = crashes + 1 /\ queue' \in {file, <<>>} /\ file' = queue' /\ direct' = {}
      /\ UNCHANGED <<submitted, completed, abandoned>>
  BY DEF Restart
<1>3. Ids(<<>>) = {}
  BY DEF Ids
<1>4. Ids(queue') \subseteq Ids(file)
  BY <1>2, <1>3, Zenon
<1>5. Ids(file') = Ids(queue')
  BY <1>2, Zenon
<1>6. Held' \subseteq Held \cup completed \cup abandoned
  BY <1>1, <1>2, <1>4 DEF Held, FileTrace
<1>7. Contract!Crash
  BY <1>1, <1>2, <1>6, Loss
<1>8. FileTrace'
  BY <1>5 DEF FileTrace
<1>. QED  BY <1>7, <1>8 DEF ContractStep, Contract!Next

LEMMA NextContract == ContractInv /\ [Next]_vars => ContractInv' /\ ContractStep
<1>. SUFFICES ASSUME ContractInv, [Next]_vars PROVE CoreInv' /\ ContractStep
  BY DEF ContractInv, ContractStep
<1>1. CoreInv'
  BY NextCoreInv DEF ContractInv
<1>2. ASSUME UNCHANGED <<queue, file, direct, submitted, completed, abandoned, crashes>>
      PROVE  ContractStep
  <2>1. Held' = Held /\ FileTrace'
    BY <1>2 DEF Held, Ids, FileTrace, ContractInv
  <2>. QED  BY <1>2, <2>1, QuietContract
<1>3. CASE \/ Initialize
           \/ \E reachable \in BOOLEAN : Check(reachable)
           \/ \E enabled \in BOOLEAN : SetForcedOffline(enabled)
           \/ \E d \in DOMAIN drains : DelayOver(d)
           \/ UNCHANGED vars
  <2> DEFINE same == UNCHANGED <<queue, file, direct, submitted, completed, abandoned, crashes>>
  <2>1. Initialize => same
    BY DEF Initialize, storeVars, historyVars
  <2>2. ASSUME NEW reachable \in BOOLEAN, Check(reachable) PROVE same
    BY <2>2 DEF Check, storeVars
  <2>3. ASSUME NEW enabled \in BOOLEAN, SetForcedOffline(enabled) PROVE same
    BY <2>3 DEF SetForcedOffline, storeVars
  <2>4. ASSUME NEW d \in DOMAIN drains, DelayOver(d) PROVE same
    BY <2>4 DEF DelayOver, storeVars, historyVars
  <2>5. UNCHANGED vars => same
    BY DEF vars, storeVars, historyVars
  <2>6. same
    <3> HIDE DEF same
    <3>. QED  BY <1>3, <2>1, <2>2, <2>3, <2>4, <2>5, Zenon
  <2>. QED  BY <1>1, <1>2, <2>6
<1>. QED  BY <1>1, <1>3, SubmitContract, DirectResolvesContract, DirectThrowsContract,
             ReplayResolvesContract, ReplayThrowsContract, RestartContract DEF Next, Engine

-----------------------------------------------------------------------------
(* Order of replay: outside a crash the queue is only left at its head and *)
(* for good, and what is queued keeps its order, retries included.         *)
THEOREM ReplayOrder == Spec => ReplayInOrder
<1>1. IInv /\ [Next]_vars => [crashes' = crashes => InOrder]_vars
  BY StepInOrder, InvParts
<1>. QED  BY <1>1, Invariance, PTL DEF Spec, ReplayInOrder

(* The file holds nothing that the process has forgotten.                  *)
THEOREM TraceInvariance == Spec => []ContractInv
<1>1. Init => ContractInv
  <2>1. Init => FileTrace
    BY DEF Init, FileTrace, Ids
  <2>. QED  BY <2>1, InitCoreInv DEF ContractInv
<1>. QED  BY <1>1, NextContract, PTL DEF Spec

(* The offline subsystem implements ActionDelivery: outside a crash no     *)
(* action that was handed over disappears, and none that is done, or lost, *)
(* comes back.                                                             *)
THEOREM Refinement == Spec => KeepsContract
<1>1. Init => Contract!Init
  <2>. SUFFICES ASSUME Init PROVE Contract!Init
    OBVIOUS
  <2>1. Placement
    BY InitCoreInv DEF CoreInv
  <2>2. \A a \in Action : Fate[a] = "new"
    BY <2>1, FateOf DEF Init
  <2>3. Fate = [a \in Action |-> "new"] /\ crashes = 0
    BY <2>2, FateFunction DEF Init
  <2>. QED  BY <2>3 DEF Contract!Init
<1>2. ContractInv /\ [Next]_vars => [Contract!Next]_<<Fate, crashes>>
  BY NextContract DEF ContractStep
<1>. QED  BY <1>1, <1>2, TraceInvariance, PTL DEF Spec, KeepsContract, Contract!Spec

=============================================================================
