----------------------------- MODULE OfflineSync -----------------------------
(***************************************************************************)
(* The offline subsystem of the gateway (src/offline): ConnectivityDetector, *)
(* OfflineQueue and SyncEngine, one object of each in one Node.js process.  *)
(*                                                                         *)
(* JavaScript runs a callback up to its next `await` without interruption, *)
(* so one action below is one such stretch of code.  In particular the     *)
(* status handler that SyncEngine registers is entered in the same stretch *)
(* that changes the connectivity flag, and the end of a replay, the loop   *)
(* test of drain() and the start of the next replay are one stretch.       *)
(***************************************************************************)
EXTENDS Naturals, Sequences, SequencesExt

CONSTANTS
  Action,      (* the actions callers hand to executeOrQueue, once each      *)
  Silent,      (* those whose executor may resolve without having any effect *)
  MaxRetries,  (* maxRetries of an action (5 in the code)                    *)
  MaxCrashes,  (* bound on the crashes of a behaviour                        *)
  DiskFaults   (* whether a write of the queue file may fail                 *)

ASSUME MaxRetriesAssumption == MaxRetries \in Nat \ {0}
ASSUME SilentAssumption == Silent \subseteq Action
ASSUME FaultAssumption == MaxCrashes \in Nat /\ DiskFaults \in BOOLEAN

VARIABLES
  ready,          (* the pipeline has registered its executors              *)
  online,         (* ConnectivityDetector.online                             *)
  forcedOffline,  (* ConnectivityDetector.forcedOffline                      *)
  queue,          (* OfflineQueue.queue                                      *)
  file,           (* what a new process would load from queuePath            *)
  draining,       (* SyncEngine.draining                                     *)
  drains,         (* the calls of drain() past its guard and not returned    *)
  direct          (* actions executeOrQueue is executing right now           *)

VARIABLES         (* history: what has happened to the actions               *)
  submitted,      (* handed to executeOrQueue                                *)
  completed,      (* their executor resolved                                 *)
  abandoned,      (* removed by markFailed                                   *)
  effects,        (* how many times the outside effect took place            *)
  ambiguous,      (* took effect in an attempt that threw or was cut short   *)
  replays,        (* how many replays of the action failed                   *)
  parked,         (* joined the queue of an idle engine while online, since  *)
                  (* the last reconnection                                   *)
  toggled,        (* the operator's toggle was used before the gateway was ready *)
  unserved,       (* replayed by this process before they had an executor    *)
  crashes,        (* crashes so far                                          *)
  diskFault       (* some write of the queue file failed                     *)

connVars    == <<online, forcedOffline>>
storeVars   == <<queue, file, diskFault>>
drainVars   == <<draining, drains>>
startVars   == <<ready, toggled, unserved>>
historyVars == <<submitted, completed, abandoned, effects, ambiguous, replays, parked>>
vars == <<startVars, connVars, storeVars, drainVars, direct, historyVars, crashes>>

-----------------------------------------------------------------------------
Entry == [id : Action, retries : 0 .. MaxRetries - 1]
Call  == [phase : {"executing", "waiting"}, current : Action]

Ids(q)   == {q[i].id : i \in DOMAIN q}
IsOnline == online /\ ~forcedOffline

Executing == {d \in DOMAIN drains : drains[d].phase = "executing"}
InFlight  == IF ready THEN direct \cup {drains[d].current : d \in Executing} ELSE {}

(***************************************************************************)
(* OfflineQueue.  Every operation ends by writing the whole queue to the   *)
(* file; persist() swallows the error of a write, which may leave the old  *)
(* file or a truncated one.  load() turns a truncated file into [].        *)
(***************************************************************************)
Persist(q) ==
  /\ queue' = q
  /\ \/ file' = q /\ UNCHANGED diskFault
     \/ DiskFaults /\ file' \in {file, <<>>} /\ diskFault' = TRUE

(* Mutant: enqueue() forgets to write the file.                            *)
EnqueueInMemory(a) ==
  queue' = Append(queue, [id |-> a, retries |-> 0]) /\ UNCHANGED <<file, diskFault>>

Enqueue(a) == Persist(Append(queue, [id |-> a, retries |-> 0]))

(* filter() on the id, which at most one entry has.                        *)
Without(id) ==
  IF id \in Ids(queue)
  THEN RemoveAt(queue, CHOOSE i \in DOMAIN queue : queue[i].id = id)
  ELSE queue

(* Mutant: markComplete() forgets to write the file.                       *)
MarkCompleteInMemory(id) == queue' = Without(id) /\ UNCHANGED <<file, diskFault>>

MarkComplete(id) == Persist(Without(id))

(* Mutant: markFailed() compares with > instead of >=.                     *)
MarkFailedOffByOne(id) ==
  \E i \in DOMAIN queue :
    /\ queue[i].id = id
    /\ replays' = [replays EXCEPT ![id] = @ + 1]
    /\ IF queue[i].retries + 1 > MaxRetries
       THEN Persist(Without(id)) /\ abandoned' = abandoned \cup {id}
       ELSE Persist([queue EXCEPT ![i].retries = @ + 1]) /\ UNCHANGED abandoned

(* Mutant: markFailed() writes the file only when it removes the action.   *)
MarkFailedInMemory(id) ==
  \E i \in DOMAIN queue :
    /\ queue[i].id = id
    /\ replays' = [replays EXCEPT ![id] = @ + 1]
    /\ IF queue[i].retries + 1 >= MaxRetries
       THEN Persist(Without(id)) /\ abandoned' = abandoned \cup {id}
       ELSE /\ queue' = [queue EXCEPT ![i].retries = @ + 1]
            /\ UNCHANGED <<file, diskFault, abandoned>>

(* Mutant: a failed action goes to the back of the queue.                  *)
MarkFailedToBack(id) ==
  \E i \in DOMAIN queue :
    /\ queue[i].id = id
    /\ replays' = [replays EXCEPT ![id] = @ + 1]
    /\ IF queue[i].retries + 1 >= MaxRetries
       THEN Persist(Without(id)) /\ abandoned' = abandoned \cup {id}
       ELSE /\ Persist(Append(Without(id), [queue[i] EXCEPT !.retries = @ + 1]))
            /\ UNCHANGED abandoned

MarkFailed(id) ==
  \/ /\ id \notin Ids(queue)
     /\ UNCHANGED <<storeVars, abandoned, replays>>
  \/ \E i \in DOMAIN queue :
       /\ queue[i].id = id
       /\ replays' = [replays EXCEPT ![id] = @ + 1]
       /\ IF queue[i].retries + 1 >= MaxRetries
          THEN Persist(Without(id)) /\ abandoned' = abandoned \cup {id}
          ELSE /\ Persist([queue EXCEPT ![i].retries = @ + 1])
               /\ UNCHANGED abandoned

-----------------------------------------------------------------------------
(***************************************************************************)
(* SyncEngine.drain(), from its call to its first await.                   *)
(***************************************************************************)
Replaying(id) == [phase |-> "executing", current |-> id]

(* Mutant: drain() without its `if (this.draining) return`.                *)
UnguardedDrain ==
  draining' = TRUE /\ drains' = Append(drains, Replaying(Head(queue).id))

Drain ==
  IF draining
  THEN UNCHANGED drainVars
  ELSE draining' = TRUE /\ drains' = Append(drains, Replaying(Head(queue).id))

(* The handler SyncEngine registers with the detector.                     *)
StatusHandler(isOnline) ==
  IF isOnline /\ queue # <<>> THEN Drain ELSE UNCHANGED drainVars

(* The detector calls its handlers when the effective status has changed.  *)
Notify(wasOnline, nowOnline) ==
  IF wasOnline # nowOnline
  THEN /\ StatusHandler(nowOnline)
       /\ parked' = IF nowOnline THEN {} ELSE parked
  ELSE UNCHANGED <<drainVars, parked>>

(* Mutant: drain() goes offline without resetting `draining`.              *)
LoopTestKeepsFlag(d) ==
  IF queue' # <<>> /\ IsOnline
  THEN drains' = [drains EXCEPT ![d] = Replaying(Head(queue').id)] /\ UNCHANGED draining
  ELSE drains' = RemoveAt(drains, d) /\ draining' = (queue' # <<>>)

(* The loop test of drain() and what follows it up to the next await.      *)
LoopTest(d) ==
  IF queue' # <<>> /\ IsOnline
  THEN drains' = [drains EXCEPT ![d] = Replaying(Head(queue').id)] /\ UNCHANGED draining
  ELSE drains' = RemoveAt(drains, d) /\ draining' = FALSE

(***************************************************************************)
(* The outside world's half of an attempt: `landed` says whether the       *)
(* executor's effect took place.  Without executor it throws at once.      *)
(***************************************************************************)
Attempt(a, landed) ==
  effects' = IF landed THEN [effects EXCEPT ![a] = @ + 1] ELSE effects

Resolves(a) == /\ ready
               /\ \E landed \in BOOLEAN :
                    /\ landed \/ a \in Silent
                    /\ Attempt(a, landed)
               /\ completed' = completed \cup {a}
               /\ UNCHANGED ambiguous

Throws(a) == /\ \E landed \in BOOLEAN :
                  /\ landed => ready
                  /\ Attempt(a, landed)
                  /\ ambiguous' = IF landed THEN ambiguous \cup {a} ELSE ambiguous
             /\ UNCHANGED completed

-----------------------------------------------------------------------------
Init ==
  /\ ready = FALSE /\ toggled = FALSE /\ unserved = {}
  /\ online = TRUE /\ forcedOffline = FALSE
  /\ queue = <<>> /\ file = <<>> /\ diskFault = FALSE
  /\ draining = FALSE /\ drains = <<>> /\ direct = {}
  /\ submitted = {} /\ completed = {} /\ abandoned = {}
  /\ effects = [a \in Action |-> 0] /\ replays = [a \in Action |-> 0]
  /\ ambiguous = {} /\ parked = {} /\ crashes = 0

(* The pipeline is initialized, and monitoring starts.  An attempt that has *)
(* found no executor is over by then: nothing comes between the two.       *)
Initialize ==
  /\ ~ready /\ Executing = {} /\ ready' = TRUE
  /\ UNCHANGED <<toggled, unserved, connVars, storeVars, drainVars, direct, historyVars, crashes>>

(* Mutant: check() reads `wasOnline` before its fetches, so any status may *)
(* have held then.                                                         *)
StaleCheck(reachable) ==
  /\ ready /\ online' = reachable
  /\ \E was \in BOOLEAN : Notify(was /\ ~forcedOffline, reachable /\ ~forcedOffline)
  /\ UNCHANGED <<startVars, forcedOffline, storeVars, direct, submitted, completed, abandoned,
                 effects, ambiguous, replays, crashes>>

(* Mutant: monitoring starts before the pipeline is initialized.           *)
EarlyCheck(reachable) ==
  /\ online' = reachable
  /\ Notify(IsOnline, reachable /\ ~forcedOffline)
  /\ UNCHANGED <<startVars, forcedOffline, storeVars, direct, submitted, completed, abandoned,
                 effects, ambiguous, replays, crashes>>

(* ConnectivityDetector.check(), after its last fetch has settled.         *)
Check(reachable) ==
  /\ ready /\ online' = reachable
  /\ Notify(IsOnline, reachable /\ ~forcedOffline)
  /\ UNCHANGED <<startVars, forcedOffline, storeVars, direct, submitted, completed, abandoned,
                 effects, ambiguous, replays, crashes>>

(* Mutant: the operator's toggle does not call the handlers.               *)
SetForcedOfflineSilently(enabled) ==
  /\ forcedOffline' = enabled
  /\ UNCHANGED <<startVars, online, storeVars, drainVars, direct, historyVars, crashes>>

SetForcedOffline(enabled) ==
  /\ forcedOffline' = enabled
  /\ Notify(IsOnline, online /\ ~enabled)
  /\ toggled' = (toggled \/ ~ready)
  /\ UNCHANGED <<ready, unserved, online, storeVars, direct, submitted, completed, abandoned,
                 effects, ambiguous, replays, crashes>>

Parks(a) == parked' = IF IsOnline /\ ~draining THEN parked \cup {a} ELSE parked

(* executeOrQueue, up to its first await, or, without executor, to its end. *)
ExecuteOrQueue(a) ==
  /\ a \notin submitted
  /\ submitted' = submitted \cup {a}
  /\ IF IsOnline /\ ready
     THEN direct' = direct \cup {a} /\ UNCHANGED <<storeVars, parked>>
     ELSE Enqueue(a) /\ Parks(a) /\ UNCHANGED direct
  /\ UNCHANGED <<startVars, connVars, drainVars, completed, abandoned, effects, ambiguous,
                 replays, crashes>>

DirectResolves(a) ==
  /\ a \in direct
  /\ direct' = direct \ {a}
  /\ Resolves(a)
  /\ UNCHANGED <<startVars, connVars, storeVars, drainVars, submitted, abandoned, replays,
                 parked, crashes>>

(* Mutant: a failed immediate execution is not queued.                     *)
DirectThrowsUnqueued(a) ==
  /\ a \in direct
  /\ direct' = direct \ {a}
  /\ Throws(a)
  /\ UNCHANGED <<startVars, connVars, storeVars, drainVars, submitted, abandoned, replays,
                 parked, crashes>>

DirectThrows(a) ==
  /\ a \in direct
  /\ direct' = direct \ {a}
  /\ Throws(a)
  /\ Enqueue(a)
  /\ Parks(a)
  /\ UNCHANGED <<startVars, connVars, drainVars, submitted, abandoned, replays, crashes>>

ReplayResolves(d) ==
  /\ d \in Executing
  /\ Resolves(drains[d].current)
  /\ MarkComplete(drains[d].current)
  /\ LoopTest(d)
  /\ UNCHANGED <<startVars, connVars, direct, submitted, abandoned, replays, parked, crashes>>

ReplayThrows(d) ==
  /\ d \in Executing
  /\ Throws(drains[d].current)
  /\ MarkFailed(drains[d].current)
  /\ drains' = [drains EXCEPT ![d].phase = "waiting"]
  /\ unserved' = IF ready THEN unserved ELSE unserved \cup {drains[d].current}
  /\ UNCHANGED <<ready, toggled, connVars, draining, direct, submitted, parked, crashes>>

(* The two seconds after a failed replay are over.                         *)
DelayOver(d) ==
  /\ d \in DOMAIN drains \ Executing
  /\ UNCHANGED storeVars
  /\ LoopTest(d)
  /\ UNCHANGED <<startVars, connVars, direct, historyVars, crashes>>

(***************************************************************************)
(* The process dies and is started again: the constructors run, the queue  *)
(* is loaded from the file.  What was in flight may or may not have taken  *)
(* effect.  A crash inside writeFileSync leaves a truncated file.          *)
(***************************************************************************)
Restart ==
  /\ crashes < MaxCrashes
  /\ crashes' = crashes + 1
  /\ \/ queue' = file /\ UNCHANGED diskFault
     \/ DiskFaults /\ queue' = <<>> /\ diskFault' = TRUE
  /\ file' = queue'
  /\ \E landed \in SUBSET InFlight :
       /\ effects' = [a \in Action |-> IF a \in landed THEN effects[a] + 1 ELSE effects[a]]
       /\ ambiguous' = ambiguous \cup landed
  /\ ready' = FALSE /\ toggled' = FALSE /\ unserved' = {}
  /\ online' = TRUE /\ forcedOffline' = FALSE
  /\ draining' = FALSE /\ drains' = <<>> /\ direct' = {}
  /\ parked' = Ids(queue')
  /\ UNCHANGED <<submitted, completed, abandoned, replays>>

Engine(d) == ReplayResolves(d) \/ ReplayThrows(d) \/ DelayOver(d)

Next ==
  \/ Initialize
  \/ \E reachable \in BOOLEAN : Check(reachable)
  \/ \E enabled \in BOOLEAN : SetForcedOffline(enabled)
  \/ \E a \in Action : ExecuteOrQueue(a) \/ DirectResolves(a) \/ DirectThrows(a)
  \/ \E d \in DOMAIN drains : Engine(d)
  \/ Restart

Spec == Init /\ [][Next]_vars

(***************************************************************************)
(* Start-up awaits the import of a library; executors are network calls    *)
(* that settle, and timers fire.  Nothing is assumed of connectivity, of   *)
(* the operator, of callers or of crashes.                                 *)
(***************************************************************************)
Fairness ==
  /\ WF_vars(Initialize)
  /\ WF_vars(\E d \in DOMAIN drains : Engine(d))
  /\ \A a \in Action : WF_vars(DirectResolves(a) \/ DirectThrows(a))

FairSpec == Spec /\ Fairness

-----------------------------------------------------------------------------
StartType == ready \in BOOLEAN /\ toggled \in BOOLEAN /\ unserved \subseteq Action

EngineType ==
  /\ online \in BOOLEAN /\ forcedOffline \in BOOLEAN
  /\ queue \in Seq(Entry) /\ file \in Seq(Entry) /\ diskFault \in BOOLEAN
  /\ draining \in BOOLEAN /\ drains \in Seq(Call)
  /\ direct \subseteq Action /\ submitted \subseteq Action
  /\ completed \subseteq Action /\ abandoned \subseteq Action
  /\ ambiguous \subseteq Action /\ parked \subseteq Action
  /\ effects \in [Action -> Nat] /\ replays \in [Action -> Nat]
  /\ crashes \in 0 .. MaxCrashes

(* Types; no queued action has used up its retries.                        *)
TypeOK == StartType /\ EngineType

(* No lost wake-up: whenever the gateway is online and no drain is running,*)
(* every action still queued got there after the last reconnection, by a   *)
(* failed immediate execution or from the file of an earlier process.      *)
(* Nothing that was queued while offline is ever left behind, whatever the *)
(* order of overlapping checks, operator toggles, failures and retries.    *)
NoLostWakeup == IsOnline /\ ~draining => Ids(queue) \subseteq parked

(* The flag `draining` is set exactly while one call of drain() is active, *)
(* and that call is replaying the oldest queued action.                    *)
SingleDrain ==
  /\ Len(drains) = IF draining THEN 1 ELSE 0
  /\ \A d \in Executing : queue # <<>> /\ drains[d].current = Head(queue).id

(* As long as the queue file could be written, an action takes effect      *)
(* twice only if an attempt threw, or was cut by a crash, after its effect *)
(* had taken place.                                                        *)
NoDuplicateEffect ==
  ~diskFault => \A a \in Action : effects[a] > 1 => a \in ambiguous

(* Failed replays are counted across restarts: as long as the file could   *)
(* be written no action is replayed in vain more than maxRetries times,    *)
(* and one is given up only after exactly that many.                       *)
RetryBudget ==
  ~diskFault => /\ \A i \in DOMAIN queue : replays[queue[i].id] = queue[i].retries
                /\ \A a \in abandoned : replays[a] = MaxRetries

(* Start-up: a process replays an action for which it has no executor, and *)
(* wastes one of its retries, only after the operator's toggle was used    *)
(* before the gateway was ready.  The queue that was loaded, checks of the *)
(* connection and callers that are too early waste none.                   *)
RetriesAreServed == unserved # {} => toggled

(* Order of replay: the queue is only left at its head and for good, and   *)
(* the actions in it keep their order, retries included.                   *)
InOrder ==
  \E n \in {0, 1} :
     /\ Len(queue') >= Len(queue) - n
     /\ \A i \in 1 .. Len(queue) - n : queue'[i].id = queue[i + n].id
     /\ n = 1 => queue[1].id \notin Ids(queue')
ReplayInOrder == [][crashes' = crashes => InOrder]_vars

(* Durability: a crash loses nothing that was queued, and no retry count,  *)
(* as long as the file could be written.                                   *)
RestartKeepsQueue == [][crashes' # crashes /\ ~diskFault' => queue' = queue]_vars

(* Every drain() returns, so `draining` cannot stay set and block the next.*)
DrainTerminates == draining ~> ~draining

Reconnects == ~IsOnline /\ IsOnline'

(* If connectivity is lost and regained again and again, every queued      *)
(* action leaves the queue.                                                *)
ReconnectionServes ==
  []<><<Reconnects>>_vars => \A a \in Action : (a \in Ids(queue)) ~> (a \notin Ids(queue))

(* The abstract state: an action is open while the process holds it.       *)
Fate == [a \in Action |->
  CASE a \in completed                    -> "done"
    [] a \in abandoned \ completed        -> "abandoned"
    [] a \in (direct \cup Ids(queue)) \ (completed \cup abandoned) -> "open"
    [] a \notin submitted                 -> "new"
    [] OTHER                              -> "lost"]

Contract == INSTANCE ActionDelivery WITH fate <- Fate

(* The subsystem keeps the promise of ActionDelivery: outside a crash no   *)
(* action that was handed over disappears, whatever fails and interleaves. *)
KeepsContract == Contract!Spec

(* README.md:35: "When internet returns, queued [...] actions drain        *)
(* automatically."                                                         *)
DrainsAutomatically == <>[]IsOnline => <>[](queue = <<>>)

-----------------------------------------------------------------------------
(***************************************************************************)
(* The inductive invariant of the proofs in OfflineSyncProofs.             *)
(***************************************************************************)
UniqueIds(q) == \A i, j \in DOMAIN q : q[i].id = q[j].id => i = j

(* Where an action can be: an action is executed directly only before it   *)
(* has ever been in the queue or in the file.                              *)
Placement ==
  /\ UniqueIds(queue) /\ UniqueIds(file)
  /\ direct \cup Ids(queue) \cup Ids(file) \cup completed \cup abandoned \subseteq submitted
  /\ direct \cap (Ids(queue) \cup Ids(file) \cup completed \cup abandoned) = {}

(* While no write has failed, the file mirrors the queue and an action     *)
(* that is done or given up is in neither.                                 *)
Mirror ==
  ~diskFault => file = queue /\ (completed \cup abandoned) \cap Ids(queue) = {}

(* Outside ambiguous attempts, an action that took effect is complete.     *)
EffectCount ==
  ~diskFault => \A a \in Action \ ambiguous :
                   effects[a] <= IF a \in completed THEN 1 ELSE 0

(* Only an action that has been queued has failed replays.                 *)
ReplayCount == \A a \in Action : a \in direct \/ a \notin submitted => replays[a] = 0

(* Before the gateway is ready nothing is executed, and only the toggle    *)
(* has started a drain.                                                    *)
Startup == ~ready => direct = {} /\ (draining => toggled)

IInv ==
  /\ Startup /\ RetriesAreServed
  /\ TypeOK /\ Placement /\ SingleDrain /\ NoLostWakeup
  /\ Mirror /\ EffectCount /\ RetryBudget /\ ReplayCount

=============================================================================
