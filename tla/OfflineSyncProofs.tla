-------------------------- MODULE OfflineSyncProofs --------------------------
(***************************************************************************)
(* Proofs about OfflineSync, for any set of actions, any maxRetries and    *)
(* any number of crashes.  Liveness stays with TLC.                        *)
(***************************************************************************)
EXTENDS OfflineSync, TLAPS

(***************************************************************************)
(* Lemmas on queues: what enqueue(), a removal at the head and a counted   *)
(* retry do to the entries and to the set of their ids.                    *)
(***************************************************************************)
WellFormed(q) == q \in Seq(Entry) /\ UniqueIds(q)

(* RemoveAt at the head is the rest of the queue.                          *)
LEMMA RemovalAtHead ==
  ASSUME NEW q \in Seq(Entry), q # <<>>
  PROVE  /\ RemoveAt(q, 1) \in Seq(Entry)
         /\ Len(RemoveAt(q, 1)) = Len(q) - 1
         /\ \A i \in 1 .. Len(q) - 1 : RemoveAt(q, 1)[i] = q[i + 1]
<1>1. RemoveAt(q, 1) = Tail(q)
  BY DEF RemoveAt
<1>2. /\ Tail(q) \in Seq(Entry) /\ Len(Tail(q)) = Len(q) - 1
      /\ \A i \in 1 .. Len(q) - 1 : Tail(q)[i] = q[i + 1]
  OBVIOUS
<1>. QED  BY <1>1, <1>2

(* Appending an entry for an action that is not queued.                    *)
LEMMA AppendEntry ==
  ASSUME NEW q, WellFormed(q), NEW a \in Action, a \notin Ids(q)
  PROVE  LET r == Append(q, [id |-> a, retries |-> 0])
         IN  /\ WellFormed(r)
             /\ Ids(r) = Ids(q) \cup {a}
             /\ Len(r) = Len(q) + 1
             /\ \A i \in DOMAIN q : r[i] = q[i]
             /\ r[Len(q) + 1] = [id |-> a, retries |-> 0]
<1> DEFINE e == [id |-> a, retries |-> 0]
           r == Append(q, e)
<1>1. e \in Entry
  BY MaxRetriesAssumption DEF Entry
<1>2. /\ r \in Seq(Entry) /\ Len(r) = Len(q) + 1
      /\ DOMAIN q = 1 .. Len(q) /\ DOMAIN r = 1 .. Len(q) + 1
      /\ \A i \in DOMAIN q : r[i] = q[i]
      /\ r[Len(q) + 1] = e
  BY <1>1 DEF WellFormed
<1>3. Ids(r) = Ids(q) \cup {a}
  BY <1>2 DEF Ids, WellFormed
<1>4. UniqueIds(r)
  BY <1>2 DEF Ids, WellFormed, UniqueIds
<1>. QED  BY <1>2, <1>3, <1>4 DEF WellFormed

(* Removing the head removes its id and shifts the rest.                   *)
LEMMA RemoveHead ==
  ASSUME NEW q, WellFormed(q), q # <<>>
  PROVE  LET r == RemoveAt(q, 1)
         IN  /\ WellFormed(r)
             /\ Ids(r) = Ids(q) \ {Head(q).id}
             /\ Len(r) = Len(q) - 1
             /\ \A i \in DOMAIN r : r[i] = q[i + 1]
<1> DEFINE r == RemoveAt(q, 1)
<1>1. /\ r \in Seq(Entry) /\ Len(r) = Len(q) - 1
      /\ DOMAIN q = 1 .. Len(q) /\ DOMAIN r = 1 .. Len(q) - 1
      /\ \A i \in DOMAIN r : r[i] = q[i + 1]
      /\ Len(q) \in Nat \ {0} /\ Head(q) = q[1]
  BY RemovalAtHead DEF WellFormed
<1>2. UniqueIds(r)
  <2>. SUFFICES ASSUME NEW i \in DOMAIN r, NEW j \in DOMAIN r, r[i].id = r[j].id
                PROVE  i = j
    BY DEF UniqueIds
  <2>1. i + 1 \in DOMAIN q /\ j + 1 \in DOMAIN q /\ q[i + 1].id = q[j + 1].id
    BY <1>1
  <2>. QED  BY <1>1, <2>1 DEF UniqueIds, WellFormed
<1>3. ASSUME NEW x PROVE x \in Ids(r) <=> x \in Ids(q) /\ x # q[1].id
  <2>1. ASSUME x \in Ids(r) PROVE x \in Ids(q) /\ x # q[1].id
    <3>1. PICK i \in DOMAIN r : r[i].id = x
      BY <2>1 DEF Ids
    <3>2. i + 1 \in DOMAIN q /\ q[i + 1].id = x /\ 1 \in DOMAIN q /\ i + 1 # 1
      BY <1>1, <3>1
    <3>. QED  BY <3>2 DEF Ids, UniqueIds, WellFormed
  <2>2. ASSUME x \in Ids(q), x # q[1].id PROVE x \in Ids(r)
    <3>1. PICK i \in 1 .. Len(q) : q[i].id = x
      BY <1>1, <2>2 DEF Ids
    <3>2. i - 1 \in DOMAIN r /\ r[i - 1] = q[i]
      BY <1>1, <2>2, <3>1
    <3>. QED  BY <3>1, <3>2 DEF Ids
  <2>. QED  BY <2>1, <2>2
<1>. QED  BY <1>1, <1>2, <1>3 DEF WellFormed

(* Counting a failed replay changes no id.                                 *)
LEMMA CountRetry ==
  ASSUME NEW q, WellFormed(q), NEW i \in DOMAIN q, q[i].retries + 1 < MaxRetries
  PROVE  LET r == [q EXCEPT ![i].retries = @ + 1]
         IN  /\ WellFormed(r)
             /\ Ids(r) = Ids(q)
             /\ Len(r) = Len(q)
             /\ \A j \in DOMAIN q : r[j].id = q[j].id
             /\ r[i].retries = q[i].retries + 1
             /\ \A j \in DOMAIN q \ {i} : r[j] = q[j]
<1> DEFINE r == [q EXCEPT ![i].retries = @ + 1]
<1>1. q \in Seq(Entry) /\ DOMAIN q = 1 .. Len(q) /\ q[i] \in Entry
  BY DEF WellFormed
<1>2. [q[i] EXCEPT !.retries = @ + 1] \in Entry
  BY <1>1, MaxRetriesAssumption DEF Entry
<1>3. r \in Seq(Entry) /\ Len(r) = Len(q) /\ DOMAIN r = DOMAIN q
  BY <1>1, <1>2
<1>4. /\ r[i] = [q[i] EXCEPT !.retries = @ + 1]
      /\ \A j \in DOMAIN q \ {i} : r[j] = q[j]
  BY <1>1
<1>5. r[i].id = q[i].id /\ r[i].retries = q[i].retries + 1
  BY <1>1, <1>4 DEF Entry
<1>6. \A j \in DOMAIN q : r[j].id = q[j].id
  BY <1>4, <1>5
<1>7. UniqueIds(r) /\ Ids(r) = Ids(q)
  BY <1>3, <1>6 DEF UniqueIds, WellFormed, Ids
<1>. QED  BY <1>3, <1>4, <1>5, <1>6, <1>7 DEF WellFormed

LEMMA IdsOfEntries ==
  ASSUME NEW q \in Seq(Entry)
  PROVE  Ids(q) \subseteq Action /\ (q # <<>> => Head(q).id \in Ids(q))
<1>1. \A i \in DOMAIN q : q[i] \in Entry
  OBVIOUS
<1>2. q # <<>> => 1 \in DOMAIN q /\ Head(q) = q[1]
  OBVIOUS
<1>. QED  BY <1>1, <1>2 DEF Ids, Entry

(* Removing the action at the head by its id is removing the head.         *)
LEMMA WithoutHead ==
  ASSUME WellFormed(queue), queue # <<>>
  PROVE  Without(Head(queue).id) = RemoveAt(queue, 1)
<1>1. 1 \in DOMAIN queue /\ Head(queue) = queue[1]
  BY DEF WellFormed
<1>2. \A i \in DOMAIN queue : queue[i].id = Head(queue).id => i = 1
  BY <1>1 DEF WellFormed, UniqueIds
<1>3. (CHOOSE i \in DOMAIN queue : queue[i].id = Head(queue).id) = 1
  BY <1>1, <1>2
<1>4. Head(queue).id \in Ids(queue)
  BY <1>1 DEF Ids
<1>. QED  BY <1>3, <1>4 DEF Without

(***************************************************************************)
(* Lemmas on the pieces the actions are made of.                           *)
(***************************************************************************)

(* A write of the queue may fail, which diskFault records.                 *)
LEMMA PersistEffect ==
  ASSUME EngineType, NEW q, Persist(q)
  PROVE  /\ queue' = q
         /\ file' \in {q, file, <<>>}
         /\ diskFault' \in BOOLEAN
         /\ ~diskFault' => ~diskFault /\ file' = q
BY DEF Persist, EngineType

LEMMA WrittenFile ==
  ASSUME WellFormed(file), NEW q, WellFormed(q), file' \in {q, file, <<>>}
  PROVE  WellFormed(file') /\ Ids(file') \subseteq Ids(q) \cup Ids(file)
<1>1. WellFormed(<<>>) /\ Ids(<<>>) = {}
  BY DEF WellFormed, UniqueIds, Ids
<1>. QED  BY <1>1, Zenon

(* There is at most one active drain(), and it is the one at index 1.      *)
LEMMA TheDrain ==
  ASSUME EngineType, SingleDrain
  PROVE  /\ draining => Len(drains) = 1 /\ DOMAIN drains = {1}
         /\ ~draining => drains = <<>> /\ DOMAIN drains = {}
<1>1. drains \in Seq(Call) /\ draining \in BOOLEAN
  BY DEF EngineType
<1>2. Len(drains) = IF draining THEN 1 ELSE 0
  BY DEF SingleDrain
<1>. QED  BY <1>1, <1>2

(* A drain() that goes on is replaying the head; one that ends leaves none.*)
LEMMA OneReplay ==
  ASSUME drains' = <<Replaying(Head(queue').id)>>, draining' = TRUE,
         queue' \in Seq(Entry), queue' # <<>>
  PROVE  drains' \in Seq(Call) /\ SingleDrain'
<1>1. PICK c \in Call : c = Replaying(Head(queue').id)
  BY IdsOfEntries DEF Replaying, Call
<1>2. drains' = <<c>>
  BY <1>1, Zenon
<1>3. drains' \in Seq(Call) /\ Len(drains') = 1 /\ DOMAIN drains' = {1} /\ drains'[1] = c
  BY <1>1, <1>2
<1>4. c.current = Head(queue').id
  BY <1>1 DEF Replaying
<1>. QED  BY <1>3, <1>4 DEF SingleDrain, Executing

LEMMA NoReplay ==
  ASSUME drains' = <<>>, draining' = FALSE
  PROVE  drains' \in Seq(Call) /\ SingleDrain'
<1>1. drains' \in Seq(Call) /\ Len(drains') = 0 /\ DOMAIN drains' = {}
  OBVIOUS
<1>. QED  BY <1>1 DEF SingleDrain, Executing

(* A step that keeps the head of the queue leaves the active replay alone. *)
LEMMA SameReplay ==
  ASSUME SingleDrain, UNCHANGED drains, UNCHANGED draining,
         queue # <<>> => queue' # <<>> /\ Head(queue').id = Head(queue).id
  PROVE  SingleDrain'
<1>1. Executing' = Executing
  BY DEF Executing
<1>2. Len(drains') = IF draining' THEN 1 ELSE 0
  BY Zenon DEF SingleDrain
<1>3. \A d \in Executing' : queue' # <<>> /\ drains'[d].current = Head(queue').id
  BY <1>1 DEF SingleDrain
<1>. QED  BY <1>2, <1>3 DEF SingleDrain

(* Longer queues that begin with the same entries have the same head.      *)
LEMMA SameHead ==
  ASSUME NEW q \in Seq(Entry), NEW r \in Seq(Entry), q # <<>>,
         Len(r) >= Len(q), r[1].id = q[1].id
  PROVE  r # <<>> /\ Head(r).id = Head(q).id
<1>1. Len(q) \in Nat \ {0} /\ Head(q) = q[1]
  OBVIOUS
<1>2. r # <<>> /\ Head(r) = r[1]
  BY <1>1
<1>. QED  BY <1>1, <1>2

(* What the loop test leaves behind.                                       *)
LEMMA LoopTestEffect ==
  ASSUME EngineType, SingleDrain, queue' \in Seq(Entry), UNCHANGED connVars,
         NEW d \in DOMAIN drains, LoopTest(d)
  PROVE  /\ drains' \in Seq(Call) /\ draining' \in BOOLEAN
         /\ SingleDrain'
         /\ IsOnline' /\ ~draining' => queue' = <<>>
<1>1. draining = TRUE /\ DOMAIN drains = {1}
  BY TheDrain DEF EngineType
<1>2. d = 1 /\ Len(drains) = 1 /\ drains \in Seq(Call)
  BY <1>1, TheDrain DEF EngineType
<1>3. IsOnline' = IsOnline
  BY DEF IsOnline, connVars
<1>4. CASE queue' # <<>> /\ IsOnline
  <2>1. drains' = [drains EXCEPT ![d] = Replaying(Head(queue').id)] /\ draining' = draining
    BY <1>4 DEF LoopTest
  <2>2. drains' = <<Replaying(Head(queue').id)>>
    BY <1>2, <2>1
  <2>3. draining' = TRUE
    BY <1>1, <2>1
  <2>. QED  BY <1>4, <2>2, <2>3, OneReplay, Zenon
<1>5. CASE ~(queue' # <<>> /\ IsOnline)
  <2>1. drains' = RemoveAt(drains, d) /\ draining' = FALSE
    BY <1>5 DEF LoopTest
  <2>2. drains' = <<>>
    BY <1>2, <2>1 DEF RemoveAt
  <2>. QED  BY <1>3, <1>5, <2>1, <2>2, NoReplay, Zenon
<1>. QED  BY <1>4, <1>5

(* A change of status to online leaves a running drain or an empty queue.  *)
LEMMA NotifyEffect ==
  ASSUME EngineType, SingleDrain, UNCHANGED queue,
         NEW was \in BOOLEAN, NEW now \in BOOLEAN, Notify(was, now)
  PROVE  /\ drains' \in Seq(Call) /\ draining' \in BOOLEAN
         /\ SingleDrain' /\ parked' \subseteq Action
         /\ ~was /\ now => draining' \/ queue' = <<>>
         /\ was \/ ~now => UNCHANGED <<drains, draining, parked>>
<1>1. CASE UNCHANGED <<drains, draining>>
  <2>1. SingleDrain'
    BY <1>1 DEF SingleDrain, Executing
  <2>2. parked' \subseteq Action
    BY DEF Notify, EngineType
  <2>3. was \/ ~now => UNCHANGED parked
    BY DEF Notify
  <2>4. ~was /\ now => draining \/ queue = <<>>
    <3>1. ASSUME ~was, now, ~draining, queue # <<>> PROVE FALSE
      <4>1. drains' = Append(drains, Replaying(Head(queue).id))
        BY <3>1 DEF Notify, StatusHandler, Drain
      <4>2. drains \in Seq(Call)
        BY DEF EngineType
      <4>3. Len(drains') = Len(drains) + 1
        BY <4>1, <4>2
      <4>. QED  BY <1>1, <4>2, <4>3
    <3>. QED  BY <3>1
  <2>. QED  BY <1>1, <2>1, <2>2, <2>3, <2>4, Zenon DEF EngineType
<1>2. CASE /\ ~was /\ now /\ queue # <<>> /\ ~draining
           /\ draining' = TRUE
           /\ drains' = Append(drains, Replaying(Head(queue).id))
           /\ parked' = {}
  <2>1. drains = <<>>
    BY <1>2, TheDrain
  <2>2. drains' = <<Replaying(Head(queue').id)>>
    BY <1>2, <2>1
  <2>3. queue' \in Seq(Entry) /\ queue' # <<>>
    BY <1>2 DEF EngineType
  <2>4. drains' \in Seq(Call) /\ SingleDrain'
    BY <1>2, <2>2, <2>3, OneReplay, Zenon
  <2>. QED  BY <1>2, <2>4
<1>. QED  BY <1>1, <1>2 DEF Notify, StatusHandler, Drain, drainVars

(* enqueue() of an action that is nowhere yet.                             *)
LEMMA EnqueueEffect ==
  ASSUME EngineType, Placement, Mirror, SingleDrain, RetryBudget,
         NEW a \in Action, a \notin Ids(queue), a \notin completed, a \notin abandoned,
         replays[a] = 0, Enqueue(a),
         UNCHANGED <<draining, drains, abandoned, replays>>, completed' = completed
  PROVE  /\ queue' \in Seq(Entry) /\ file' \in Seq(Entry) /\ diskFault' \in BOOLEAN
         /\ ~diskFault' => ~diskFault
         /\ UniqueIds(queue') /\ UniqueIds(file')
         /\ Ids(queue') = Ids(queue) \cup {a}
         /\ Ids(file') \subseteq Ids(queue) \cup Ids(file) \cup {a}
         /\ SingleDrain' /\ Mirror' /\ RetryBudget'
<1> DEFINE q == Append(queue, [id |-> a, retries |-> 0])
<1>1. /\ queue' = q /\ file' \in {q, file, <<>>} /\ diskFault' \in BOOLEAN
      /\ (~diskFault' => ~diskFault /\ file' = q)
  BY PersistEffect DEF Enqueue
<1>2. WellFormed(queue) /\ WellFormed(file)
  BY DEF WellFormed, EngineType, Placement
<1>3. /\ WellFormed(q) /\ Ids(q) = Ids(queue) \cup {a} /\ Len(q) = Len(queue) + 1
      /\ \A i \in DOMAIN queue : q[i] = queue[i]
      /\ q[Len(queue) + 1] = [id |-> a, retries |-> 0]
  BY <1>2, AppendEntry
<1> HIDE DEF q
<1>4. WellFormed(file') /\ Ids(file') \subseteq Ids(queue) \cup Ids(file) \cup {a}
  BY <1>1, <1>2, <1>3, WrittenFile
<1>5. SingleDrain'
  <2>1. queue # <<>> => q # <<>> /\ Head(q).id = Head(queue).id
    <3>1. ASSUME queue # <<>> PROVE q[1].id = queue[1].id
      BY <1>2, <1>3, <3>1 DEF WellFormed
    <3>2. queue \in Seq(Entry) /\ q \in Seq(Entry) /\ Len(q) >= Len(queue)
      BY <1>2, <1>3 DEF WellFormed
    <3>. QED  BY <3>1, <3>2, SameHead
  <2>. QED  BY <1>1, <2>1, SameReplay, Zenon
<1>6. Mirror'
  <2>. SUFFICES ASSUME ~diskFault'
                PROVE  file' = queue' /\ (completed' \cup abandoned') \cap Ids(queue') = {}
    BY DEF Mirror, Ids
  <2>1. file' = queue' /\ (completed \cup abandoned) \cap Ids(queue) = {}
    BY <1>1 DEF Mirror
  <2>2. Ids(queue') = Ids(queue) \cup {a} /\ UNCHANGED completed /\ UNCHANGED abandoned
    BY <1>1, <1>3, Zenon
  <2>. QED  BY <2>1, <2>2
<1>7. RetryBudget'
  <2>. SUFFICES ASSUME ~diskFault' PROVE RetryBudget'
    BY DEF RetryBudget
  <2>1. DOMAIN queue = 1 .. Len(queue) /\ DOMAIN q = 1 .. Len(queue) + 1
    BY <1>2, <1>3 DEF WellFormed
  <2>2. \A i \in DOMAIN q : replays[q[i].id] = q[i].retries
    BY <1>1, <1>3, <2>1 DEF RetryBudget
  <2>. QED  BY <1>1, <2>2 DEF RetryBudget
<1>8. queue' \in Seq(Entry) /\ UniqueIds(queue') /\ Ids(queue') = Ids(queue) \cup {a}
  BY <1>1, <1>3, Zenon DEF WellFormed
<1>. QED  BY <1>1, <1>4, <1>5, <1>6, <1>7, <1>8 DEF WellFormed

(* Writing the queue without its head.                                     *)
LEMMA RemovalEffect ==
  ASSUME EngineType, Placement, queue # <<>>, Persist(RemoveAt(queue, 1))
  PROVE  /\ queue' \in Seq(Entry) /\ file' \in Seq(Entry) /\ diskFault' \in BOOLEAN
         /\ ~diskFault' => ~diskFault /\ file' = queue'
         /\ UniqueIds(queue') /\ UniqueIds(file')
         /\ Ids(queue') = Ids(queue) \ {Head(queue).id}
         /\ Ids(file') \subseteq Ids(queue) \cup Ids(file)
         /\ \A i \in DOMAIN queue' : \E j \in DOMAIN queue : queue'[i] = queue[j]
<1> DEFINE q == RemoveAt(queue, 1)
<1>1. /\ queue' = q /\ file' \in {q, file, <<>>} /\ diskFault' \in BOOLEAN
      /\ (~diskFault' => ~diskFault /\ file' = q)
  BY PersistEffect
<1>2. WellFormed(queue) /\ WellFormed(file)
  BY DEF WellFormed, EngineType, Placement
<1>3. /\ WellFormed(q) /\ Ids(q) = Ids(queue) \ {Head(queue).id}
      /\ Len(q) = Len(queue) - 1
      /\ \A i \in DOMAIN q : q[i] = queue[i + 1]
  BY <1>2, RemoveHead
<1> HIDE DEF q
<1>4. WellFormed(file') /\ Ids(file') \subseteq Ids(queue) \cup Ids(file)
  BY <1>1, <1>2, <1>3, WrittenFile
<1>5. \A i \in DOMAIN q : i + 1 \in DOMAIN queue
  BY <1>2, <1>3 DEF WellFormed
<1>6. \A i \in DOMAIN q : \E j \in DOMAIN queue : q[i] = queue[j]
  BY <1>3, <1>5
<1>7. /\ queue' \in Seq(Entry) /\ UniqueIds(queue')
      /\ Ids(queue') = Ids(queue) \ {Head(queue).id}
      /\ \A i \in DOMAIN queue' : \E j \in DOMAIN queue : queue'[i] = queue[j]
  BY <1>1, <1>3, <1>6, Zenon DEF WellFormed
<1>. QED  BY <1>1, <1>4, <1>7 DEF WellFormed

(* What an attempt that resolves, and one that throws, do to the effects.  *)
LEMMA ResolvesEffect ==
  ASSUME EngineType, EffectCount, NEW a \in Action, Resolves(a),
         ~diskFault' => ~diskFault /\ a \notin completed
  PROVE  /\ effects' \in [Action -> Nat] /\ completed' = completed \cup {a}
         /\ UNCHANGED ambiguous /\ EffectCount'
<1>1. effects \in [Action -> Nat]
  BY DEF EngineType
<1>2. effects' = effects \/ effects' = [effects EXCEPT ![a] = @ + 1]
  BY DEF Resolves, Attempt
<1>3. completed' = completed \cup {a} /\ ambiguous' = ambiguous
  BY DEF Resolves
<1>4. EffectCount'
  <2>. SUFFICES ASSUME ~diskFault', NEW b \in Action \ ambiguous
                PROVE  effects'[b] <= IF b \in completed' THEN 1 ELSE 0
    BY <1>3 DEF EffectCount
  <2>1. effects[b] <= (IF b \in completed THEN 1 ELSE 0) /\ a \notin completed
    BY DEF EffectCount
  <2>. QED  BY <1>1, <1>2, <1>3, <2>1
<1>. QED  BY <1>1, <1>2, <1>3, <1>4

LEMMA ThrowsEffect ==
  ASSUME EngineType, EffectCount, NEW a \in Action, Throws(a), ~diskFault' => ~diskFault
  PROVE  /\ effects' \in [Action -> Nat] /\ completed' = completed
         /\ ambiguous' \subseteq Action /\ EffectCount'
<1>1. effects \in [Action -> Nat] /\ ambiguous \subseteq Action
  BY DEF EngineType
<1>2. \/ effects' = effects /\ ambiguous' = ambiguous
      \/ effects' = [effects EXCEPT ![a] = @ + 1] /\ ambiguous' = ambiguous \cup {a}
  BY DEF Throws, Attempt
<1>3. completed' = completed
  BY DEF Throws
<1>4. EffectCount'
  <2>. SUFFICES ASSUME ~diskFault', NEW b \in Action \ ambiguous'
                PROVE  effects'[b] <= IF b \in completed THEN 1 ELSE 0
    BY <1>3 DEF EffectCount
  <2>1. b \in Action \ ambiguous
    BY <1>2
  <2>2. effects[b] <= IF b \in completed THEN 1 ELSE 0
    BY <2>1 DEF EffectCount
  <2>3. effects'[b] = effects[b]
    BY <1>1, <1>2, <2>1
  <2>. QED  BY <2>2, <2>3
<1>. QED  BY <1>1, <1>2, <1>3, <1>4

-----------------------------------------------------------------------------
(***************************************************************************)
(* The inductive invariant: one lemma per kind of step for what it says of *)
(* the engine, and one for what it says of start-up.                       *)
(***************************************************************************)
CoreInv ==
  /\ EngineType /\ Placement /\ SingleDrain /\ NoLostWakeup
  /\ Mirror /\ EffectCount /\ RetryBudget /\ ReplayCount

LEMMA InvParts == IInv <=> CoreInv /\ StartType /\ Startup /\ RetriesAreServed
BY DEF IInv, CoreInv, TypeOK

LEMMA InitCoreInv == Init => CoreInv
<1> SUFFICES ASSUME Init PROVE CoreInv
  OBVIOUS
<1>1. queue = <<>> /\ file = <<>> /\ drains = <<>>
  BY DEF Init
<1>2. Ids(queue) = {} /\ Ids(file) = {} /\ Executing = {}
  BY <1>1 DEF Ids, Executing
<1>3. queue \in Seq(Entry) /\ file \in Seq(Entry) /\ drains \in Seq(Call)
  BY <1>1
<1>4. EngineType
  <2>1. effects \in [Action -> Nat] /\ replays \in [Action -> Nat] /\ crashes \in 0 .. MaxCrashes
    BY FaultAssumption DEF Init
  <2>2. /\ online \in BOOLEAN /\ forcedOffline \in BOOLEAN
        /\ diskFault \in BOOLEAN /\ draining \in BOOLEAN
    BY DEF Init
  <2>3. /\ direct \subseteq Action /\ submitted \subseteq Action
        /\ completed \subseteq Action /\ abandoned \subseteq Action
        /\ ambiguous \subseteq Action /\ parked \subseteq Action
    BY DEF Init
  <2>. QED  BY <1>3, <2>1, <2>2, <2>3 DEF EngineType
<1>5. Placement
  BY <1>1, <1>2 DEF Init, Placement, UniqueIds
<1>6. SingleDrain
  BY <1>1, <1>2 DEF Init, SingleDrain
<1>7. NoLostWakeup
  BY <1>2 DEF NoLostWakeup
<1>8. Mirror
  BY <1>1, <1>2 DEF Mirror
<1>9. EffectCount /\ RetryBudget /\ ReplayCount
  BY <1>1 DEF Init, EffectCount, RetryBudget, ReplayCount
<1>. QED  BY <1>4, <1>5, <1>6, <1>7, <1>8, <1>9 DEF CoreInv

(* check() and the operator's toggle.                                      *)
LEMMA StatusStep ==
  ASSUME CoreInv, online' \in BOOLEAN, forcedOffline' \in BOOLEAN,
         Notify(IsOnline, IsOnline'),
         UNCHANGED <<storeVars, direct, submitted, completed, abandoned,
                     effects, ambiguous, replays, crashes>>
  PROVE  CoreInv'
<1>1. EngineType /\ SingleDrain /\ UNCHANGED queue /\ UNCHANGED storeVars
  BY DEF CoreInv, storeVars
<1>2. IsOnline \in BOOLEAN /\ IsOnline' \in BOOLEAN
  BY DEF IsOnline
<1>3. /\ drains' \in Seq(Call) /\ draining' \in BOOLEAN
      /\ SingleDrain' /\ parked' \subseteq Action
      /\ ~IsOnline /\ IsOnline' => draining' \/ queue' = <<>>
      /\ IsOnline \/ ~IsOnline' => UNCHANGED <<drains, draining, parked>>
  BY <1>1, <1>2, NotifyEffect
<1>4. EngineType'
  BY <1>1, <1>3 DEF EngineType, storeVars
<1>5. NoLostWakeup'
  <2>1. ASSUME queue' = <<>> PROVE NoLostWakeup'
    BY <2>1 DEF NoLostWakeup, Ids
  <2>2. ASSUME IsOnline, UNCHANGED <<queue, draining, parked>> PROVE NoLostWakeup'
    BY <2>2 DEF CoreInv, NoLostWakeup, Ids
  <2>. QED  BY <1>1, <1>2, <1>3, <2>1, <2>2, Zenon DEF NoLostWakeup
<1>6. Placement' /\ Mirror'
  BY <1>1 DEF CoreInv, Placement, Mirror, Ids, UniqueIds, storeVars
<1>7. EffectCount' /\ RetryBudget' /\ ReplayCount'
  BY <1>1 DEF CoreInv, EffectCount, RetryBudget, ReplayCount, storeVars
<1>. QED  BY <1>3, <1>4, <1>5, <1>6, <1>7 DEF CoreInv

(* executeOrQueue, up to its first await.                                  *)
LEMMA ExecuteOrQueueStep ==
  ASSUME CoreInv, NEW a \in Action, ExecuteOrQueue(a)
  PROVE  CoreInv'
<1>1. /\ EngineType /\ Placement /\ SingleDrain /\ NoLostWakeup
      /\ Mirror /\ EffectCount /\ RetryBudget /\ ReplayCount
  BY DEF CoreInv
<1>2. /\ a \notin submitted /\ submitted' = submitted \cup {a}
      /\ UNCHANGED <<connVars, drainVars, completed, abandoned, effects, ambiguous,
                     replays, crashes>>
      /\ UNCHANGED <<online, forcedOffline, draining, drains>>
  BY DEF ExecuteOrQueue, connVars, drainVars
<1>3. a \notin Ids(queue) /\ a \notin Ids(file) /\ a \notin direct
      /\ a \notin completed /\ a \notin abandoned
  BY <1>1, <1>2 DEF Placement
<1>4. CASE direct' = direct \cup {a} /\ UNCHANGED <<queue, file, diskFault, parked>>
  <2>1. EngineType'
    BY <1>1, <1>2, <1>4 DEF EngineType
  <2>2. Placement'
    BY <1>1, <1>2, <1>3, <1>4 DEF Placement, Ids, UniqueIds
  <2>3. SingleDrain' /\ NoLostWakeup'
    BY <1>1, <1>2, <1>4 DEF SingleDrain, NoLostWakeup, Executing, IsOnline, Ids
  <2>4. Mirror' /\ EffectCount' /\ RetryBudget' /\ ReplayCount'
    BY <1>1, <1>2, <1>4 DEF Mirror, EffectCount, RetryBudget, ReplayCount, Ids
  <2>. QED  BY <2>1, <2>2, <2>3, <2>4 DEF CoreInv
<1>5. CASE Enqueue(a) /\ Parks(a) /\ UNCHANGED direct
  <2>1. replays[a] = 0
    BY <1>1, <1>2 DEF ReplayCount
  <2>2. /\ queue' \in Seq(Entry) /\ file' \in Seq(Entry) /\ diskFault' \in BOOLEAN
        /\ ~diskFault' => ~diskFault
        /\ UniqueIds(queue') /\ UniqueIds(file')
        /\ Ids(queue') = Ids(queue) \cup {a}
        /\ Ids(file') \subseteq Ids(queue) \cup Ids(file) \cup {a}
        /\ SingleDrain' /\ Mirror' /\ RetryBudget'
    BY <1>1, <1>2, <1>3, <1>5, <2>1, EnqueueEffect
  <2>3. EngineType'
    BY <1>1, <1>2, <1>5, <2>2 DEF EngineType, Parks
  <2>4. Placement'
    BY <1>1, <1>2, <1>3, <1>5, <2>2 DEF Placement
  <2>5. NoLostWakeup'
    <3>1. IsOnline' = IsOnline
      BY <1>2 DEF IsOnline
    <3>2. ASSUME IsOnline, ~draining PROVE Ids(queue') \subseteq parked'
      BY <1>1, <1>5, <2>2, <3>2 DEF NoLostWakeup, Parks
    <3>. QED  BY <1>2, <3>1, <3>2, Zenon DEF NoLostWakeup, Ids
  <2>6. EffectCount' /\ ReplayCount'
    BY <1>1, <1>2, <1>5, <2>2 DEF EffectCount, ReplayCount
  <2>. QED  BY <2>2, <2>3, <2>4, <2>5, <2>6 DEF CoreInv
<1>. QED  BY <1>4, <1>5, Zenon DEF ExecuteOrQueue, storeVars

(* An immediate execution resolves, or throws and is queued.               *)
LEMMA DirectResolvesStep ==
  ASSUME CoreInv, NEW a \in Action, DirectResolves(a)
  PROVE  CoreInv'
<1>1. /\ EngineType /\ Placement /\ SingleDrain /\ NoLostWakeup
      /\ Mirror /\ EffectCount /\ RetryBudget /\ ReplayCount
  BY DEF CoreInv
<1>2. /\ a \in direct /\ direct' = direct \ {a} /\ Resolves(a)
      /\ UNCHANGED <<online, forcedOffline, queue, file, diskFault, draining, drains,
                     submitted, abandoned, replays, parked, crashes>>
  BY DEF DirectResolves, connVars, drainVars, storeVars
<1>3. a \notin completed /\ a \notin Ids(queue) /\ a \in submitted
  BY <1>1, <1>2 DEF Placement
<1>4. /\ effects' \in [Action -> Nat] /\ completed' = completed \cup {a}
      /\ UNCHANGED ambiguous /\ EffectCount'
  BY <1>1, <1>2, <1>3, ResolvesEffect
<1>5. EngineType'
  BY <1>1, <1>2, <1>4 DEF EngineType
<1>6. Placement'
  BY <1>1, <1>2, <1>3, <1>4 DEF Placement, Ids, UniqueIds
<1>7. SingleDrain' /\ NoLostWakeup'
  BY <1>1, <1>2 DEF SingleDrain, NoLostWakeup, Executing, IsOnline, Ids
<1>8. Mirror' /\ RetryBudget' /\ ReplayCount'
  BY <1>1, <1>2, <1>3, <1>4 DEF Mirror, RetryBudget, ReplayCount, Ids
<1>. QED  BY <1>4, <1>5, <1>6, <1>7, <1>8 DEF CoreInv

LEMMA DirectThrowsStep ==
  ASSUME CoreInv, NEW a \in Action, DirectThrows(a)
  PROVE  CoreInv'
<1>1. /\ EngineType /\ Placement /\ SingleDrain /\ NoLostWakeup
      /\ Mirror /\ EffectCount /\ RetryBudget /\ ReplayCount
  BY DEF CoreInv
<1>2. /\ a \in direct /\ direct' = direct \ {a} /\ Throws(a) /\ Enqueue(a)
      /\ Parks(a)
      /\ UNCHANGED <<online, forcedOffline, draining, drains,
                     submitted, abandoned, replays, crashes>>
  BY DEF DirectThrows, connVars, drainVars
<1>3. /\ a \notin completed /\ a \notin abandoned /\ a \notin Ids(queue)
      /\ a \in submitted /\ replays[a] = 0 /\ completed' = completed
  BY <1>1, <1>2 DEF Placement, ReplayCount, Throws
<1>4. /\ queue' \in Seq(Entry) /\ file' \in Seq(Entry) /\ diskFault' \in BOOLEAN
      /\ ~diskFault' => ~diskFault
      /\ UniqueIds(queue') /\ UniqueIds(file')
      /\ Ids(queue') = Ids(queue) \cup {a}
      /\ Ids(file') \subseteq Ids(queue) \cup Ids(file) \cup {a}
      /\ SingleDrain' /\ Mirror' /\ RetryBudget'
  BY <1>1, <1>2, <1>3, EnqueueEffect
<1>5. /\ effects' \in [Action -> Nat] /\ ambiguous' \subseteq Action /\ EffectCount'
  BY <1>1, <1>2, <1>4, ThrowsEffect
<1>6. EngineType'
  BY <1>1, <1>2, <1>3, <1>4, <1>5 DEF EngineType, Parks
<1>7. Placement'
  BY <1>1, <1>2, <1>3, <1>4 DEF Placement
<1>8. NoLostWakeup'
  <2>1. IsOnline' = IsOnline
    BY <1>2 DEF IsOnline
  <2>2. ASSUME IsOnline, ~draining PROVE Ids(queue') \subseteq parked'
    BY <1>1, <1>2, <1>4, <2>2 DEF NoLostWakeup, Parks
  <2>. QED  BY <1>2, <2>1, <2>2, Zenon DEF NoLostWakeup, Ids
<1>9. ReplayCount'
  BY <1>1, <1>2 DEF ReplayCount
<1>. QED  BY <1>4, <1>5, <1>6, <1>7, <1>8, <1>9 DEF CoreInv

(* The call of drain() that is executing is replaying the oldest action.   *)
LEMMA ReplayedAction ==
  ASSUME CoreInv, NEW d \in Executing
  PROVE  /\ d \in DOMAIN drains /\ queue # <<>>
         /\ drains[d].current = Head(queue).id
         /\ Head(queue).id \in Action /\ Head(queue).id \in Ids(queue)
         /\ Without(Head(queue).id) = RemoveAt(queue, 1)
<1>1. SingleDrain /\ queue \in Seq(Entry) /\ UniqueIds(queue)
  BY DEF CoreInv, EngineType, Placement
<1>2. d \in DOMAIN drains /\ queue # <<>> /\ drains[d].current = Head(queue).id
  BY <1>1 DEF SingleDrain, Executing
<1>3. Head(queue).id \in Ids(queue) /\ Ids(queue) \subseteq Action
  BY <1>1, <1>2, IdsOfEntries
<1>4. Without(Head(queue).id) = RemoveAt(queue, 1)
  BY <1>1, <1>2, WithoutHead DEF WellFormed
<1>. QED  BY <1>2, <1>3, <1>4

(* A replay resolves: markComplete() and the loop test.                    *)
LEMMA ReplayResolvesStep ==
  ASSUME CoreInv, NEW d \in DOMAIN drains, ReplayResolves(d)
  PROVE  CoreInv'
<1> DEFINE h == Head(queue).id
<1>1. /\ EngineType /\ Placement /\ SingleDrain /\ NoLostWakeup
      /\ Mirror /\ EffectCount /\ RetryBudget /\ ReplayCount
  BY DEF CoreInv
<1>2. d \in Executing
  BY DEF ReplayResolves
<1>3. /\ queue # <<>> /\ drains[d].current = h /\ h \in Action /\ h \in Ids(queue)
      /\ Without(h) = RemoveAt(queue, 1)
  BY <1>2, ReplayedAction
<1> HIDE DEF h
<1>4. Resolves(h) /\ Persist(Without(h)) /\ LoopTest(d)
  BY <1>3 DEF ReplayResolves, MarkComplete
<1>5. UNCHANGED <<online, forcedOffline, direct, submitted, abandoned, replays, parked, crashes>>
  BY DEF ReplayResolves, connVars
<1>6. /\ queue' \in Seq(Entry) /\ file' \in Seq(Entry) /\ diskFault' \in BOOLEAN
      /\ ~diskFault' => ~diskFault /\ file' = queue'
      /\ UniqueIds(queue') /\ UniqueIds(file')
      /\ Ids(queue') = Ids(queue) \ {h}
      /\ Ids(file') \subseteq Ids(queue) \cup Ids(file)
      /\ \A i \in DOMAIN queue' : \E j \in DOMAIN queue : queue'[i] = queue[j]
  <2>1. Persist(RemoveAt(queue, 1))
    BY <1>3, <1>4, Zenon
  <2>. QED  BY <1>1, <1>3, <2>1, RemovalEffect DEF h
<1>7. ~diskFault' => h \notin completed
  BY <1>1, <1>3, <1>6 DEF Mirror
<1>8. /\ effects' \in [Action -> Nat] /\ completed' = completed \cup {h}
      /\ UNCHANGED ambiguous /\ EffectCount'
  BY <1>1, <1>3, <1>4, <1>6, <1>7, ResolvesEffect
<1>9. /\ drains' \in Seq(Call) /\ draining' \in BOOLEAN /\ SingleDrain'
      /\ IsOnline' /\ ~draining' => queue' = <<>>
  BY <1>1, <1>4, <1>5, <1>6, LoopTestEffect DEF connVars
<1>10. EngineType'
  <2>1. completed' \subseteq Action
    BY <1>1, <1>3, <1>8 DEF EngineType
  <2>. QED  BY <1>1, <1>5, <1>6, <1>8, <1>9, <2>1 DEF EngineType
<1>11. Placement'
  BY <1>1, <1>3, <1>5, <1>6, <1>8 DEF Placement
<1>12. NoLostWakeup'
  BY <1>9 DEF NoLostWakeup, Ids
<1>13. Mirror'
  <2>. SUFFICES ASSUME ~diskFault'
                PROVE  file' = queue' /\ (completed' \cup abandoned') \cap Ids(queue') = {}
    BY DEF Mirror, Ids
  <2>1. (completed \cup abandoned) \cap Ids(queue) = {}
    BY <1>1, <1>6 DEF Mirror
  <2>. QED  BY <1>5, <1>6, <1>8, <2>1
<1>14. RetryBudget'
  <2>. SUFFICES ASSUME ~diskFault' PROVE RetryBudget'
    BY DEF RetryBudget
  <2>1. /\ \A i \in DOMAIN queue : replays[queue[i].id] = queue[i].retries
        /\ \A a \in abandoned : replays[a] = MaxRetries
    BY <1>1, <1>6 DEF RetryBudget
  <2>2. \A i \in DOMAIN queue' : replays[queue'[i].id] = queue'[i].retries
    BY <1>6, <2>1
  <2>. QED  BY <1>5, <2>1, <2>2 DEF RetryBudget
<1>15. ReplayCount'
  BY <1>1, <1>5 DEF ReplayCount
<1>. QED  BY <1>8, <1>9, <1>10, <1>11, <1>12, <1>13, <1>14, <1>15 DEF CoreInv

(* A replay throws: markFailed() counts the retry or gives the action up.  *)
LEMMA MarkFailedCases ==
  ASSUME EngineType, Placement, queue # <<>>, MarkFailed(Head(queue).id)
  PROVE  LET h == Head(queue).id
         IN  /\ WellFormed(queue) /\ WellFormed(file) /\ h = queue[1].id /\ 1 \in DOMAIN queue
             /\ h \in Action /\ h \in Ids(queue) /\ Without(h) = RemoveAt(queue, 1)
             /\ queue[1].retries \in 0 .. MaxRetries - 1
             /\ replays' = [replays EXCEPT ![h] = @ + 1]
             /\ \/ /\ queue[1].retries + 1 >= MaxRetries
                   /\ Persist(RemoveAt(queue, 1)) /\ abandoned' = abandoned \cup {h}
                \/ /\ queue[1].retries + 1 < MaxRetries
                   /\ Persist([queue EXCEPT ![1].retries = @ + 1]) /\ UNCHANGED abandoned
<1> DEFINE h == Head(queue).id
<1>1. /\ WellFormed(queue) /\ WellFormed(file) /\ h = queue[1].id /\ 1 \in DOMAIN queue
      /\ h \in Action /\ h \in Ids(queue) /\ Without(h) = RemoveAt(queue, 1)
      /\ queue[1].retries \in 0 .. MaxRetries - 1
  <2>1. WellFormed(queue) /\ WellFormed(file)
    BY DEF WellFormed, EngineType, Placement
  <2>2. 1 \in DOMAIN queue /\ Head(queue) = queue[1] /\ queue[1] \in Entry
    BY <2>1 DEF WellFormed
  <2>3. h \in Ids(queue) /\ h \in Action
    BY <2>1, IdsOfEntries DEF WellFormed
  <2>4. queue[1].retries \in 0 .. MaxRetries - 1
    BY <2>2 DEF Entry
  <2>. QED  BY <2>1, <2>2, <2>3, <2>4, WithoutHead
<1>2. /\ replays' = [replays EXCEPT ![h] = @ + 1]
      /\ \/ /\ queue[1].retries + 1 >= MaxRetries
            /\ Persist(RemoveAt(queue, 1)) /\ abandoned' = abandoned \cup {h}
         \/ /\ queue[1].retries + 1 < MaxRetries
            /\ Persist([queue EXCEPT ![1].retries = @ + 1]) /\ UNCHANGED abandoned
  <2>1. PICK i \in DOMAIN queue :
          /\ queue[i].id = h
          /\ replays' = [replays EXCEPT ![h] = @ + 1]
          /\ IF queue[i].retries + 1 >= MaxRetries
             THEN Persist(Without(h)) /\ abandoned' = abandoned \cup {h}
             ELSE Persist([queue EXCEPT ![i].retries = @ + 1]) /\ UNCHANGED abandoned
    BY <1>1 DEF MarkFailed
  <2>2. i = 1
    BY <1>1, <2>1 DEF WellFormed, UniqueIds
  <2>3. queue[1].retries + 1 >= MaxRetries \/ queue[1].retries + 1 < MaxRetries
    BY <1>1, MaxRetriesAssumption
  <2>4. CASE queue[1].retries + 1 >= MaxRetries
    BY <1>1, <2>1, <2>2, <2>4
  <2>5. CASE queue[1].retries + 1 < MaxRetries
    <3>1. ~(queue[1].retries + 1 >= MaxRetries)
      BY <1>1, <2>5, MaxRetriesAssumption
    <3>. QED  BY <2>1, <2>2, <2>5, <3>1, Zenon
  <2>. QED  BY <2>3, <2>4, <2>5
<1>. QED  BY <1>1, <1>2

(* What that leaves of the queue, the file and the counts.                 *)
LEMMA MarkFailedEffect ==
  ASSUME EngineType, Placement, Mirror, RetryBudget, queue # <<>>,
         MarkFailed(Head(queue).id), UNCHANGED completed
  PROVE  /\ queue' \in Seq(Entry) /\ file' \in Seq(Entry) /\ diskFault' \in BOOLEAN
         /\ ~diskFault' => ~diskFault
         /\ UniqueIds(queue') /\ UniqueIds(file')
         /\ Ids(queue') \subseteq Ids(queue)
         /\ Ids(file') \subseteq Ids(queue) \cup Ids(file)
         /\ abandoned' \subseteq abandoned \cup {Head(queue).id}
         /\ replays' = [replays EXCEPT ![Head(queue).id] = @ + 1]
         /\ Mirror' /\ RetryBudget'
<1> DEFINE h == Head(queue).id
<1>1. /\ WellFormed(queue) /\ WellFormed(file) /\ h = queue[1].id /\ 1 \in DOMAIN queue
      /\ h \in Action /\ h \in Ids(queue) /\ Without(h) = RemoveAt(queue, 1)
      /\ queue[1].retries \in 0 .. MaxRetries - 1
  BY MarkFailedCases
<1>2. replays \in [Action -> Nat]
  BY DEF EngineType
<1>3. /\ replays' = [replays EXCEPT ![h] = @ + 1]
      /\ \/ /\ queue[1].retries + 1 >= MaxRetries
            /\ Persist(RemoveAt(queue, 1)) /\ abandoned' = abandoned \cup {h}
         \/ /\ queue[1].retries + 1 < MaxRetries
            /\ Persist([queue EXCEPT ![1].retries = @ + 1]) /\ UNCHANGED abandoned
  BY MarkFailedCases
<1>4. ASSUME ~diskFault
      PROVE  /\ \A i \in DOMAIN queue : replays[queue[i].id] = queue[i].retries
             /\ \A a \in abandoned : replays[a] = MaxRetries /\ a # h
             /\ (completed \cup abandoned) \cap Ids(queue) = {}
  BY <1>1, <1>4 DEF RetryBudget, Mirror
<1>5. CASE /\ queue[1].retries + 1 >= MaxRetries
           /\ Persist(RemoveAt(queue, 1)) /\ abandoned' = abandoned \cup {h}
  <2>1. /\ queue' \in Seq(Entry) /\ file' \in Seq(Entry) /\ diskFault' \in BOOLEAN
        /\ ~diskFault' => ~diskFault /\ file' = queue'
        /\ UniqueIds(queue') /\ UniqueIds(file')
        /\ Ids(queue') = Ids(queue) \ {h}
        /\ Ids(file') \subseteq Ids(queue) \cup Ids(file)
        /\ \A i \in DOMAIN queue' : \E j \in DOMAIN queue : queue'[i] = queue[j]
    BY <1>5, RemovalEffect
  <2> HIDE DEF h
  <2>2. Mirror'
    <3>. SUFFICES ASSUME ~diskFault'
                  PROVE  file' = queue' /\ (completed' \cup abandoned') \cap Ids(queue') = {}
      BY DEF Mirror, Ids
    <3>. QED  BY <1>4, <1>5, <2>1
  <2>3. RetryBudget'
    <3>. SUFFICES ASSUME ~diskFault' PROVE RetryBudget'
      BY DEF RetryBudget
    <3>1. \A i \in DOMAIN queue' : queue'[i].id # h
      BY <2>1 DEF Ids
    <3>2. \A i \in DOMAIN queue' : replays[queue'[i].id] = queue'[i].retries
      BY <1>4, <2>1
    <3>3. \A i \in DOMAIN queue' : queue'[i].id \in Action
      <4>1. Ids(queue') \subseteq Action
        BY <2>1, IdsOfEntries, Zenon
      <4>. QED  BY <4>1 DEF Ids
    <3>4. \A i \in DOMAIN queue' : replays'[queue'[i].id] = queue'[i].retries
      BY <1>2, <1>3, <3>1, <3>2, <3>3
    <3>5. replays[h] + 1 = MaxRetries
      BY <1>1, <1>4, <1>5, <2>1, MaxRetriesAssumption
    <3>6. \A a \in abandoned' : replays'[a] = MaxRetries
      BY <1>1, <1>2, <1>3, <1>4, <1>5, <2>1, <3>5 DEF EngineType
    <3>. QED  BY <3>4, <3>6 DEF RetryBudget
  <2>. QED  BY <1>3, <1>5, <2>1, <2>2, <2>3 DEF h
<1>6. CASE /\ queue[1].retries + 1 < MaxRetries
           /\ Persist([queue EXCEPT ![1].retries = @ + 1]) /\ UNCHANGED abandoned
  <2> DEFINE q == [queue EXCEPT ![1].retries = @ + 1]
  <2>1. /\ queue' = q /\ file' \in {q, file, <<>>} /\ diskFault' \in BOOLEAN
        /\ (~diskFault' => ~diskFault /\ file' = q)
    BY <1>6, PersistEffect
  <2>2. /\ WellFormed(q) /\ Ids(q) = Ids(queue) /\ Len(q) = Len(queue)
        /\ \A j \in DOMAIN queue : q[j].id = queue[j].id
        /\ q[1].retries = queue[1].retries + 1
        /\ \A j \in DOMAIN queue \ {1} : q[j] = queue[j]
    BY <1>1, <1>6, CountRetry
  <2>3. DOMAIN q = DOMAIN queue
    OBVIOUS
  <2> HIDE DEF q, h
  <2>4. WellFormed(file') /\ Ids(file') \subseteq Ids(queue) \cup Ids(file)
    BY <1>1, <2>1, <2>2, WrittenFile
  <2>5. Mirror'
    <3>. SUFFICES ASSUME ~diskFault'
                  PROVE  file' = queue' /\ (completed' \cup abandoned') \cap Ids(queue') = {}
      BY DEF Mirror, Ids
    <3>1. Ids(queue') = Ids(queue)
      BY <2>1, <2>2, Zenon
    <3>2. abandoned' = abandoned
      BY <1>6
    <3>. QED  BY <1>4, <2>1, <3>1, <3>2
  <2>6. RetryBudget'
    <3>. SUFFICES ASSUME ~diskFault' PROVE RetryBudget'
      BY DEF RetryBudget
    <3>1. \A j \in DOMAIN queue : queue[j].id \in Action
      <4>1. Ids(queue) \subseteq Action
        BY <1>1, IdsOfEntries DEF WellFormed
      <4>. QED  BY <4>1 DEF Ids
    <3>2. \A j \in DOMAIN queue \ {1} : queue[j].id # h
      BY <1>1 DEF WellFormed, UniqueIds
    <3>3. \A j \in DOMAIN q \ {1} : replays'[q[j].id] = q[j].retries
      BY <1>2, <1>3, <1>4, <2>1, <2>2, <2>3, <3>1, <3>2
    <3>4. replays'[q[1].id] = q[1].retries
      BY <1>1, <1>2, <1>3, <1>4, <2>1, <2>2
    <3>5. \A a \in abandoned' : replays'[a] = MaxRetries
      BY <1>2, <1>3, <1>4, <1>6, <2>1 DEF EngineType
    <3>. QED  BY <2>1, <3>3, <3>4, <3>5 DEF RetryBudget
  <2>7. queue' \in Seq(Entry) /\ UniqueIds(queue') /\ Ids(queue') \subseteq Ids(queue)
    BY <2>1, <2>2, Zenon DEF WellFormed
  <2>8. replays' = [replays EXCEPT ![Head(queue).id] = @ + 1]
    BY <1>3 DEF h
  <2>. QED  BY <1>6, <2>1, <2>4, <2>5, <2>6, <2>7, <2>8 DEF WellFormed
<1>. QED  BY <1>3, <1>5, <1>6

LEMMA ReplayThrowsStep ==
  ASSUME CoreInv, NEW d \in DOMAIN drains, ReplayThrows(d)
  PROVE  CoreInv'
<1> DEFINE h == Head(queue).id
<1>1. /\ EngineType /\ Placement /\ SingleDrain /\ NoLostWakeup
      /\ Mirror /\ EffectCount /\ RetryBudget /\ ReplayCount
  BY DEF CoreInv
<1>2. /\ queue # <<>> /\ drains[d].current = h /\ h \in Action /\ h \in Ids(queue)
  BY ReplayedAction DEF ReplayThrows
<1>3. Throws(h) /\ MarkFailed(h)
  BY <1>2 DEF ReplayThrows
<1>4. /\ UNCHANGED <<online, forcedOffline, draining, direct, submitted, parked, crashes>>
      /\ drains' = [drains EXCEPT ![d].phase = "waiting"]
  BY DEF ReplayThrows, connVars
<1>5. UNCHANGED completed
  BY <1>3 DEF Throws
<1>6. /\ queue' \in Seq(Entry) /\ file' \in Seq(Entry) /\ diskFault' \in BOOLEAN
      /\ ~diskFault' => ~diskFault
      /\ UniqueIds(queue') /\ UniqueIds(file')
      /\ Ids(queue') \subseteq Ids(queue)
      /\ Ids(file') \subseteq Ids(queue) \cup Ids(file)
      /\ abandoned' \subseteq abandoned \cup {h}
      /\ replays' = [replays EXCEPT ![h] = @ + 1]
      /\ Mirror' /\ RetryBudget'
  BY <1>1, <1>2, <1>3, <1>5, MarkFailedEffect
<1> HIDE DEF h
<1>7. /\ effects' \in [Action -> Nat] /\ ambiguous' \subseteq Action /\ EffectCount'
  BY <1>1, <1>2, <1>3, <1>6, ThrowsEffect
<1>8. draining = TRUE /\ d = 1 /\ DOMAIN drains = {1} /\ Len(drains) = 1 /\ drains \in Seq(Call)
  BY <1>1, TheDrain DEF EngineType
<1>9. drains' \in Seq(Call) /\ SingleDrain'
  <2>1. [drains[1] EXCEPT !.phase = "waiting"] \in Call /\ drains[1] \in Call
    <3>1. drains[1] \in Call
      <4>1. drains \in Seq(Call) /\ Len(drains) = 1
        BY <1>8
      <4>2. drains[1] = Head(drains) /\ drains # <<>>
        BY <4>1
      <4>. QED  BY <4>1, <4>2
    <3>. QED  BY <3>1 DEF Call
  <2>2. drains' = <<[drains[1] EXCEPT !.phase = "waiting"]>>
    BY <1>4, <1>8
  <2>3. drains' \in Seq(Call) /\ Len(drains') = 1 /\ DOMAIN drains' = {1}
    BY <2>1, <2>2
  <2>4. drains'[1].phase = "waiting"
    BY <2>1, <2>2 DEF Call
  <2>5. Executing' = {}
    BY <2>3, <2>4 DEF Executing
  <2>6. draining' = TRUE
    BY <1>4, <1>8
  <2>. QED  BY <2>3, <2>5, <2>6 DEF SingleDrain
<1>10. EngineType'
  <2>1. abandoned' \subseteq Action /\ replays' \in [Action -> Nat]
    BY <1>1, <1>2, <1>6 DEF EngineType
  <2>. QED  BY <1>1, <1>4, <1>5, <1>6, <1>7, <1>9, <2>1 DEF EngineType
<1>11. Placement'
  BY <1>1, <1>2, <1>4, <1>5, <1>6 DEF Placement
<1>12. NoLostWakeup'
  BY <1>4, <1>8 DEF NoLostWakeup
<1>13. ReplayCount'
  <2>. SUFFICES ASSUME NEW a \in Action, a \in direct \/ a \notin submitted
                PROVE  replays'[a] = 0
    BY <1>4 DEF ReplayCount
  <2>1. a # h
    BY <1>1, <1>2 DEF Placement
  <2>. QED  BY <1>1, <1>6, <2>1 DEF ReplayCount, EngineType
<1>. QED  BY <1>6, <1>7, <1>9, <1>10, <1>11, <1>12, <1>13 DEF CoreInv

(* The delay after a failed replay is over.                                *)
LEMMA DelayOverStep ==
  ASSUME CoreInv, NEW d \in DOMAIN drains, DelayOver(d)
  PROVE  CoreInv'
<1>1. /\ EngineType /\ Placement /\ SingleDrain /\ NoLostWakeup
      /\ Mirror /\ EffectCount /\ RetryBudget /\ ReplayCount
  BY DEF CoreInv
<1>2. /\ LoopTest(d)
      /\ UNCHANGED <<online, forcedOffline, queue, file, diskFault, direct, submitted,
                     completed, abandoned, effects, ambiguous, replays, parked, crashes>>
  BY DEF DelayOver, connVars, storeVars, historyVars
<1>3. queue' \in Seq(Entry) /\ UNCHANGED connVars
  BY <1>1, <1>2 DEF EngineType, connVars
<1>4. /\ drains' \in Seq(Call) /\ draining' \in BOOLEAN /\ SingleDrain'
      /\ IsOnline' /\ ~draining' => queue' = <<>>
  BY <1>1, <1>2, <1>3, LoopTestEffect
<1>5. EngineType'
  BY <1>1, <1>2, <1>4 DEF EngineType
<1>6. NoLostWakeup'
  BY <1>4 DEF NoLostWakeup, Ids
<1>7. Placement' /\ Mirror'
  BY <1>1, <1>2 DEF Placement, Mirror, Ids, UniqueIds
<1>8. EffectCount' /\ RetryBudget' /\ ReplayCount'
  BY <1>1, <1>2 DEF EffectCount, RetryBudget, ReplayCount
<1>. QED  BY <1>4, <1>5, <1>6, <1>7, <1>8 DEF CoreInv

(* A crash and the start of the next process.                              *)
LEMMA RestartStep ==
  ASSUME CoreInv, Restart
  PROVE  CoreInv'
<1>1. /\ EngineType /\ Placement /\ SingleDrain /\ NoLostWakeup
      /\ Mirror /\ EffectCount /\ RetryBudget /\ ReplayCount
  BY DEF CoreInv
<1>2. /\ crashes < MaxCrashes /\ crashes' = crashes + 1
      /\ queue' \in {file, <<>>} /\ file' = queue'
      /\ diskFault' \in BOOLEAN /\ (~diskFault' => ~diskFault /\ queue' = file)
      /\ online' \in BOOLEAN /\ forcedOffline' \in BOOLEAN
      /\ draining' = FALSE /\ drains' = <<>> /\ direct' = {}
      /\ parked' = Ids(queue')
      /\ UNCHANGED <<submitted, completed, abandoned, replays>>
  BY <1>1 DEF Restart, EngineType
<1>3. PICK landed \in SUBSET InFlight :
       /\ effects' = [a \in Action |-> IF a \in landed THEN effects[a] + 1 ELSE effects[a]]
       /\ ambiguous' = ambiguous \cup landed
  BY DEF Restart
<1>4. drains' \in Seq(Call) /\ SingleDrain'
  BY <1>2, NoReplay
<1>5. WellFormed(queue') /\ Ids(queue') \subseteq Ids(file) /\ Ids(queue') \subseteq Action
  <2>1. WellFormed(file) /\ WellFormed(<<>>) /\ Ids(<<>>) = {} /\ Ids(file) \subseteq Action
    BY <1>1, IdsOfEntries DEF WellFormed, EngineType, Placement, UniqueIds, Ids
  <2>. QED  BY <1>2, <2>1, Zenon
<1>6. landed \subseteq Action
  <2>1. \A d \in DOMAIN drains : drains[d] \in Call
    BY <1>1 DEF EngineType
  <2>2. \A d \in DOMAIN drains : drains[d].current \in Action
    BY <2>1 DEF Call
  <2>. QED  BY <1>1, <2>2 DEF InFlight, Executing, EngineType
<1>7. EngineType'
  <2>1. effects' \in [Action -> Nat] /\ ambiguous' \subseteq Action
    BY <1>1, <1>3, <1>6 DEF EngineType
  <2>2. crashes' \in 0 .. MaxCrashes
    BY <1>1, <1>2, FaultAssumption DEF EngineType
  <2>3. queue' \in Seq(Entry) /\ file' \in Seq(Entry) /\ parked' \subseteq Action
    BY <1>2, <1>5 DEF WellFormed
  <2>4. draining' \in BOOLEAN
    BY <1>2
  <2>5. direct' \subseteq Action /\ diskFault' \in BOOLEAN
    BY <1>2
  <2>6. online' \in BOOLEAN /\ forcedOffline' \in BOOLEAN /\ drains' \in Seq(Call)
    BY <1>2, <1>4
  <2>7. /\ submitted' \subseteq Action /\ completed' \subseteq Action
        /\ abandoned' \subseteq Action /\ replays' \in [Action -> Nat]
    BY <1>1, <1>2 DEF EngineType
  <2>. QED  BY <2>1, <2>2, <2>3, <2>4, <2>5, <2>6, <2>7 DEF EngineType
<1>8. Placement'
  <2>1. UniqueIds(queue') /\ UniqueIds(file') /\ Ids(file') = Ids(queue')
    BY <1>2, <1>5, Zenon DEF WellFormed
  <2>. QED  BY <1>1, <1>2, <1>5, <2>1 DEF Placement
<1>9. NoLostWakeup'
  BY <1>2 DEF NoLostWakeup, Ids
<1>10. Mirror'
  <2>. SUFFICES ASSUME ~diskFault'
                PROVE  file' = queue' /\ (completed' \cup abandoned') \cap Ids(queue') = {}
    BY DEF Mirror, Ids
  <2>1. ~diskFault /\ queue' = queue /\ (completed \cup abandoned) \cap Ids(queue) = {}
    BY <1>1, <1>2 DEF Mirror
  <2>2. Ids(queue') = Ids(queue)
    BY <2>1, Zenon
  <2>. QED  BY <1>2, <2>1, <2>2
<1>11. EffectCount'
  <2>. SUFFICES ASSUME ~diskFault', NEW a \in Action \ ambiguous'
                PROVE  effects'[a] <= IF a \in completed' THEN 1 ELSE 0
    BY DEF EffectCount
  <2>1. a \notin landed /\ a \in Action \ ambiguous
    BY <1>3
  <2>2. effects[a] <= IF a \in completed THEN 1 ELSE 0
    BY <1>1, <1>2, <2>1 DEF EffectCount
  <2>3. effects'[a] = effects[a]
    BY <1>3, <2>1
  <2>. QED  BY <1>2, <2>2, <2>3
<1>12. RetryBudget'
  <2>. SUFFICES ASSUME ~diskFault' PROVE RetryBudget'
    BY DEF RetryBudget
  <2>1. queue' = queue /\ ~diskFault
    BY <1>1, <1>2 DEF Mirror
  <2>. QED  BY <1>1, <1>2, <2>1 DEF RetryBudget
<1>13. ReplayCount'
  BY <1>1, <1>2 DEF ReplayCount
<1>. QED  BY <1>4, <1>7, <1>8, <1>9, <1>10, <1>11, <1>12, <1>13 DEF CoreInv

(* Start-up ends, or nothing happens: the engine is left alone.            *)
LEMMA QuietStep ==
  ASSUME CoreInv, Initialize \/ UNCHANGED vars
  PROVE  CoreInv'
<1>1. UNCHANGED <<online, forcedOffline, queue, file, diskFault, draining, drains, direct, submitted,
                  completed, abandoned, effects, ambiguous, replays, parked, crashes>>
  BY DEF Initialize, vars, connVars, storeVars, drainVars, historyVars
<1>. QED  BY <1>1 DEF CoreInv, EngineType, Placement, SingleDrain, NoLostWakeup, Mirror, EffectCount,
            RetryBudget, ReplayCount, Ids, UniqueIds, Executing, IsOnline

LEMMA NextCoreInv == CoreInv /\ [Next]_vars => CoreInv'
<1>. SUFFICES ASSUME CoreInv, [Next]_vars PROVE CoreInv'
  OBVIOUS
<1>1. ASSUME NEW reachable \in BOOLEAN, Check(reachable) PROVE CoreInv'
  <2>1. IsOnline' = (reachable /\ ~forcedOffline) /\ forcedOffline' \in BOOLEAN
    BY <1>1 DEF Check, IsOnline, CoreInv, EngineType
  <2>2. Notify(IsOnline, IsOnline')
    BY <1>1, <2>1, Zenon DEF Check
  <2>. QED  BY <1>1, <2>1, <2>2, StatusStep DEF Check
<1>2. ASSUME NEW enabled \in BOOLEAN, SetForcedOffline(enabled) PROVE CoreInv'
  <2>1. IsOnline' = (online /\ ~enabled) /\ online' \in BOOLEAN
    BY <1>2 DEF SetForcedOffline, IsOnline, CoreInv, EngineType
  <2>2. Notify(IsOnline, IsOnline')
    BY <1>2, <2>1, Zenon DEF SetForcedOffline
  <2>. QED  BY <1>2, <2>1, <2>2, StatusStep DEF SetForcedOffline
<1>. QED  BY <1>1, <1>2, ExecuteOrQueueStep, DirectResolvesStep, DirectThrowsStep,
             ReplayResolvesStep, ReplayThrowsStep, DelayOverStep, RestartStep,
             QuietStep DEF Next, Engine

(* Start-up: only the toggle can start a drain before the gateway is ready. *)
StartInv == StartType /\ Startup /\ RetriesAreServed

LEMMA StartStep ==
  ASSUME CoreInv, StartInv, [Next]_vars
  PROVE  StartInv'
<1>0. /\ ready \in BOOLEAN /\ toggled \in BOOLEAN /\ unserved \subseteq Action
      /\ (~ready => direct = {} /\ (draining => toggled))
      /\ (unserved # {} => toggled)
      /\ EngineType /\ SingleDrain
  BY DEF StartInv, StartType, Startup, RetriesAreServed, CoreInv
<1>1. CASE Initialize
  BY <1>0, <1>1 DEF Initialize, StartInv, StartType, Startup, RetriesAreServed
<1>2. ASSUME NEW reachable \in BOOLEAN, Check(reachable) PROVE StartInv'
  BY <1>0, <1>2 DEF Check, startVars, StartInv, StartType, Startup, RetriesAreServed
<1>3. ASSUME NEW enabled \in BOOLEAN, SetForcedOffline(enabled) PROVE StartInv'
  BY <1>0, <1>3 DEF SetForcedOffline, StartInv, StartType, Startup, RetriesAreServed
<1>4. ASSUME NEW a \in Action, ExecuteOrQueue(a) PROVE StartInv'
  <2>1. UNCHANGED <<ready, toggled, unserved, draining>> /\ (~ready => direct' = direct)
    BY <1>0, <1>4 DEF ExecuteOrQueue, startVars, drainVars
  <2>. QED  BY <1>0, <2>1 DEF StartInv, StartType, Startup, RetriesAreServed
<1>5. ASSUME NEW a \in Action, DirectResolves(a) \/ DirectThrows(a) PROVE StartInv'
  <2>1. UNCHANGED <<ready, toggled, unserved, draining>> /\ direct' \subseteq direct
    BY <1>5 DEF DirectResolves, DirectThrows, startVars, drainVars
  <2>. QED  BY <1>0, <2>1 DEF StartInv, StartType, Startup, RetriesAreServed
<1>6. ASSUME NEW d \in DOMAIN drains, Engine(d) PROVE StartInv'
  <2>1. draining = TRUE /\ drains[d] \in Call
    BY <1>0, TheDrain DEF EngineType
  <2>2. ~ready => toggled
    BY <1>0, <2>1
  <2>3. UNCHANGED <<ready, toggled, direct>>
    BY <1>6 DEF Engine, ReplayResolves, ReplayThrows, DelayOver, startVars
  <2>4. unserved' = unserved \/ (~ready /\ unserved' = unserved \cup {drains[d].current})
    BY <1>6 DEF Engine, ReplayResolves, ReplayThrows, DelayOver, startVars
  <2>5. unserved' \subseteq Action
    BY <1>0, <2>1, <2>4 DEF Call
  <2>. QED  BY <1>0, <2>2, <2>3, <2>4, <2>5 DEF StartInv, StartType, Startup, RetriesAreServed
<1>7. CASE Restart
  BY <1>7 DEF Restart, StartInv, StartType, Startup, RetriesAreServed
<1>8. CASE UNCHANGED vars
  <2>1. UNCHANGED <<ready, toggled, unserved, direct, draining>>
    BY <1>8 DEF vars, startVars, drainVars
  <2>. QED  BY <1>0, <2>1 DEF StartInv, StartType, Startup, RetriesAreServed
<1>. QED  BY <1>1, <1>2, <1>3, <1>4, <1>5, <1>6, <1>7, <1>8 DEF Next

LEMMA InitIInv == Init => IInv
<1>1. Init => StartInv
  BY DEF Init, StartInv, StartType, Startup, RetriesAreServed
<1>. QED  BY <1>1, InitCoreInv, InvParts DEF StartInv

LEMMA NextIInv == IInv /\ [Next]_vars => IInv'
<1>1. IInv <=> CoreInv /\ StartInv
  BY InvParts DEF StartInv
<1>2. IInv' <=> CoreInv' /\ StartInv'
  BY <1>1 DEF IInv, CoreInv, StartInv, TypeOK
<1>. QED  BY <1>1, <1>2, NextCoreInv, StartStep

-----------------------------------------------------------------------------
(***************************************************************************)
(* The theorems.                                                           *)
(***************************************************************************)

(* IInv is an invariant of every behaviour of the offline subsystem.       *)
THEOREM Invariance == Spec => []IInv
BY InitIInv, NextIInv, PTL DEF Spec

(* Every variable keeps its type: in particular no queued action has       *)
(* exhausted its retries, and no action is handed to two callers.          *)
THEOREM TypeCorrect == Spec => []TypeOK
<1>1. IInv => TypeOK
  BY DEF IInv
<1>. QED  BY <1>1, Invariance, PTL

(* Reconnection is never missed: what is queued while the gateway is       *)
(* online and idle was put there since the last reconnection.              *)
THEOREM LostWakeupFree == Spec => []NoLostWakeup
<1>1. IInv => NoLostWakeup
  BY DEF IInv
<1>. QED  BY <1>1, Invariance, PTL

(* The `draining` flag is a lock: it is set exactly while one drain() is   *)
(* active, whatever toggles, checks, failures and crashes interleave.      *)
THEOREM MutualExclusion == Spec => []SingleDrain
<1>1. IInv => SingleDrain
  BY DEF IInv
<1>. QED  BY <1>1, Invariance, PTL

(* Only an attempt whose outcome was ambiguous is ever repeated after it   *)
(* took effect, as long as the queue file could be written.                *)
THEOREM EffectOnce == Spec => []NoDuplicateEffect
<1>1. IInv => NoDuplicateEffect
  <2>. SUFFICES ASSUME IInv, ~diskFault, NEW a \in Action, a \notin ambiguous
                PROVE  ~(effects[a] > 1)
    BY DEF NoDuplicateEffect
  <2>1. effects[a] \in Nat
    BY DEF IInv, TypeOK, EngineType
  <2>2. effects[a] <= IF a \in completed THEN 1 ELSE 0
    BY DEF IInv, EffectCount
  <2>. QED  BY <2>1, <2>2
<1>. QED  BY <1>1, Invariance, PTL

(* The retry budget is exact, across restarts.                             *)
THEOREM BudgetExact == Spec => []RetryBudget
<1>1. IInv => RetryBudget
  BY DEF IInv
<1>. QED  BY <1>1, Invariance, PTL

(* No retry is wasted at start-up unless the toggle was used that early.   *)
THEOREM StartupIsServed == Spec => []RetriesAreServed
<1>1. IInv => RetriesAreServed
  BY DEF IInv
<1>. QED  BY <1>1, Invariance, PTL

(* A restart loads the queue the dead process held.                        *)
THEOREM RestartDurable == Spec => RestartKeepsQueue
<1>1. IInv /\ [Next]_vars => [crashes' # crashes /\ ~diskFault' => queue' = queue]_vars
  <2>. SUFFICES ASSUME IInv, Next, crashes' # crashes, ~diskFault'
                PROVE  queue' = queue
    BY DEF vars
  <2>1. crashes \in 0 .. MaxCrashes
    BY DEF IInv, TypeOK, EngineType
  <2>2. Restart
    BY DEF Next, Engine, Initialize, Check, SetForcedOffline, ExecuteOrQueue, DirectResolves,
           DirectThrows, ReplayResolves, ReplayThrows, DelayOver
  <2>3. ~diskFault /\ queue' = file
    BY <2>2 DEF Restart
  <2>. QED  BY <2>3 DEF IInv, Mirror
<1>. QED  BY <1>1, Invariance, PTL DEF Spec, RestartKeepsQueue

=============================================================================
