------------------------------- MODULE Gossip -------------------------------
(***************************************************************************)
(* Gossip between agents, and the two flows that live on it: a goal that   *)
(* the gateway broadcasts and the coder turns into a pull request, and a   *)
(* pull request whose announcement has the gateway review it.              *)
(*                                                                         *)
(* A message takes the native way, over the gossip queues of the brokers,  *)
(* or, once a gossip request of the client has failed, the other one: it   *)
(* is sent to the peers that are online and lands in their inbound queues, *)
(* which the polling loop of the client empties as well.                   *)
(*                                                                         *)
(* A task is an asynchronous function that has not ended: a round of       *)
(* GossipSub's timer with the batch it has polled, which awaits the        *)
(* handler of one message after the other, or a call from the dashboard.   *)
(***************************************************************************)
EXTENDS Naturals, FiniteSets, SequencesExt

CONSTANTS
  Agent, Gateway, Coder,
  Goal,       (* goals, each given once                                      *)
  MaxPRs,     (* bound on the pull requests the coder opens                  *)
  Nobody,     (* what is not a goal: a round has no work of its own          *)
  HasRepo,    (* whether the coder's repository is configured                *)
  QueueMax,   (* GOSSIP_QUEUE_MAX                                            *)
  SeenMax,    (* GossipSub.maxSeen                                           *)
  MaxTime,    (* bound on the clock                                          *)
  MaxFaults   (* bound on lost requests, answers and messages                *)

ASSUME AgentAssumption == Gateway \in Agent /\ Coder \in Agent /\ Gateway # Coder
ASSUME GoalAssumption  == Nobody \notin Goal /\ HasRepo \in BOOLEAN
ASSUME BoundAssumption ==
  MaxPRs \in Nat /\ QueueMax \in Nat \ {0} /\ SeenMax \in Nat \ {0} /\ MaxTime \in Nat /\ MaxFaults \in Nat

VARIABLES
  now,       (* the clock, in milliseconds                                   *)
  faults,
  queues,    (* the gossip queues of each broker                             *)
  prints,    (* its seenGossip                                               *)
  inbox,     (* gossip messages in its inbound queue, by topic               *)
  wire,      (* what brokers are sending to each other                       *)
  native,    (* AXLClient.nativeGossipAvailable is not false                 *)
  seen,      (* GossipSub.seenMessageQueue                                   *)
  tasks,
  goals,     (* goals not yet given                                          *)
  opened,    (* the goal of each pull request                                *)
  activePRs, (* GatewayAgent.activePRs                                       *)
  status,    (* CoderAgent.currentStatus                                     *)
  asked      (* how often another agent's call for a goal has reached the    *)
             (* coder                                                        *)

brokerVars == <<queues, prints, inbox, wire>>
clientVars == <<native, seen>>
agentVars  == <<goals, opened, activePRs, status, asked>>
vars == <<now, faults, brokerVars, clientVars, tasks, agentVars>>

-----------------------------------------------------------------------------
Topic   == {"goals", "pr-opened"}
PR      == 1 .. MaxPRs
Message == [from : Agent, topic : Topic, at : 0 .. MaxTime, body : Goal \cup PR]
Attempts == 4   (* a request of the client and its three retries           *)
Fingerprint(m) == <<m.from, m.topic, m.at>>

(* What an agent listens to.                                               *)
Subscription == {<<Coder, "goals">>, <<Gateway, "pr-opened">>}
Listens(a, t) == <<a, t>> \in Subscription

(* The message a task publishes.                                           *)
TopicOf(t) == IF t.what = "inject" THEN "goals" ELSE "pr-opened"
Post(t) == [from |-> t.agent, topic |-> TopicOf(t), at |-> now, body |-> t.body]

(* A task that is at the next message of its batch, one that handles a     *)
(* message, and one that nothing awaits.                                   *)
Round(a, batch) == [agent |-> a, what |-> "round", stage |-> "next", body |-> Nobody, id |-> <<>>, batch |-> batch]
Handling(a, what, stage, m, batch) ==
  [agent |-> a, what |-> what, stage |-> stage, body |-> m.body, id |-> <<Fingerprint(m)>>, batch |-> batch]
Alone(a, what, stage, body) ==
  [agent |-> a, what |-> what, stage |-> stage, body |-> body, id |-> <<>>, batch |-> <<>>]

(* The n-th copy of a call for a goal.                                     *)
Called(g, n) == [Alone(Coder, "goal", "lookup", g) EXCEPT !.id = <<g, n>>]

Faulty == faults < MaxFaults /\ faults' = faults + 1

Becomes(t, new) == tasks' = (tasks \ {t}) \cup new
At(t, stage) == Becomes(t, {[t EXCEPT !.stage = stage]})

(* The loop over the batch ends with it.                                   *)
Rest(a, batch) == IF batch = <<>> THEN {} ELSE {Round(a, batch)}
Ends(t) == Becomes(t, Rest(t.agent, t.batch))

-----------------------------------------------------------------------------
Init ==
  /\ now = 0 /\ faults = 0
  /\ queues = [a \in Agent |-> [t \in Topic |-> <<>>]]
  /\ prints = [a \in Agent |-> {}] /\ inbox = queues /\ wire = {}
  /\ native = [a \in Agent |-> TRUE] /\ seen = [a \in Agent |-> <<>>] /\ tasks = {}
  /\ goals = Goal /\ opened = <<>> /\ activePRs = {} /\ status = "idle"
  /\ asked = [g \in Goal |-> 0]

Tick ==
  /\ now < MaxTime /\ now' = now + 1
  /\ UNCHANGED <<faults, brokerVars, clientVars, tasks, agentVars>>

-----------------------------------------------------------------------------
(* Mutant: the limit is tested before the message is pushed.               *)
OverflowsLate(q) == Len(q) > QueueMax + 1

Overflows(q) == Len(q) > QueueMax

(* enqueueGossip: a message whose fingerprint is known is dropped, a full  *)
(* queue loses its oldest message.                                         *)
Enqueue(a, m) ==
  LET q == Append(queues[a][m.topic], m)
      fresh == Fingerprint(m) \notin prints[a]
  IN /\ prints' = [prints EXCEPT ![a] = @ \cup {Fingerprint(m)}]
     /\ queues' = IF fresh THEN [queues EXCEPT ![a][m.topic] = IF Overflows(q) THEN Tail(q) ELSE q] ELSE queues

Listeners(t) == {p \in Agent \ {t.agent} : Listens(p, TopicOf(t))}
Sendings(t, way, to) == {[msg |-> Post(t), to |-> p, way |-> way] : p \in to}

(* gossipPublish: the broker takes the message for its own agent, too, and *)
(* fans it out.  The queues that no one polls are left out.                *)
Publish(t) ==
  /\ t.stage = "publish" /\ native[t.agent]
  /\ IF Listens(t.agent, TopicOf(t)) THEN Enqueue(t.agent, Post(t)) ELSE UNCHANGED <<queues, prints>>
  /\ wire' = wire \cup Sendings(t, "native", Listeners(t))
  /\ At(t, "native")
  /\ UNCHANGED <<now, faults, inbox, clientVars, agentVars>>

(* A request that fails makes the client give up the native way, for this  *)
(* message and for the next ones, whether or not the broker has taken it.  *)
PublishFails(t) ==
  /\ t.stage = "native" \/ (t.stage = "publish" /\ native[t.agent])
  /\ Faulty /\ native' = [native EXCEPT ![t.agent] = FALSE] /\ At(t, "broadcast")
  /\ UNCHANGED <<now, brokerVars, seen, agentVars>>

(* The broadcast over /send goes to the peers that the broker takes to be  *)
(* online: any of them, or none if the topology cannot be had.             *)
Broadcast(t) ==
  /\ t.stage = "broadcast" \/ (t.stage = "publish" /\ ~native[t.agent])
  /\ At(t, "sent")
  /\ \E up \in SUBSET Listeners(t) : wire' = wire \cup Sendings(t, "sent", up)
  /\ UNCHANGED <<now, faults, queues, prints, inbox, clientVars, agentVars>>

(* What a broker sends arrives; a client that misses the answer of its own *)
(* broker sends again.                                                     *)
Arrives(w) ==
  /\ \/ wire' = wire \ {w} /\ UNCHANGED faults
     \/ w.way = "sent" /\ Faulty /\ UNCHANGED wire
  /\ IF w.way = "native"
     THEN Enqueue(w.to, w.msg) /\ UNCHANGED inbox
     ELSE LET m == [w.msg EXCEPT !.at = now]
          IN inbox' = [inbox EXCEPT ![w.to][m.topic] = Append(@, m)] /\ UNCHANGED <<queues, prints>>
  /\ UNCHANGED <<now, clientVars, tasks, agentVars>>

Misses(w) ==
  /\ Faulty /\ wire' = wire \ {w}
  /\ UNCHANGED <<now, queues, prints, inbox, clientVars, tasks, agentVars>>

(* Publishing ends when every send has, and tells the client that the      *)
(* native way works, even if another request has just failed.  The gateway *)
(* then runs the review.                                                   *)
Published(t) ==
  /\ t.stage \in {"native", "sent"}
  /\ ~\E w \in wire : w.way = t.stage /\ w.msg.from = t.agent /\ w.msg.topic = TopicOf(t) /\ w.msg.body = t.body
  /\ native' = IF t.stage = "native" THEN [native EXCEPT ![t.agent] = TRUE] ELSE native
  /\ IF t.what = "review" THEN At(t, "run") ELSE Ends(t)
  /\ status' = IF t.what = "goal" THEN "idle" ELSE status
  /\ UNCHANGED <<now, faults, brokerVars, seen, goals, opened, activePRs, asked>>

-----------------------------------------------------------------------------
(* A round awaits the end of a task.                                       *)
Awaited(t) == t.what = "round" \/ Len(t.id) = 1

(* Mutant: a round is not started before the last one has ended.           *)
MayPollOnce(a) == ~\E r \in tasks : r.agent = a /\ Awaited(r)

(* Rounds overlap: the timer does not wait for the handlers.               *)
MayPoll(a) == TRUE

(* gossipReceive over the native way.                                      *)
Poll(a, t) ==
  /\ MayPoll(a) /\ native[a] /\ queues[a][t] # <<>>
  /\ queues' = [queues EXCEPT ![a][t] = <<>>]
  /\ tasks' = tasks \cup {Round(a, queues[a][t])}
  /\ UNCHANGED <<now, faults, prints, inbox, wire, clientVars, agentVars>>

(* The request fails, perhaps after the broker has emptied the queue.      *)
PollFails(a, t) ==
  /\ native[a] /\ Faulty
  /\ native' = [native EXCEPT ![a] = FALSE]
  /\ \/ UNCHANGED queues
     \/ queues[a][t] # <<>> /\ queues' = [queues EXCEPT ![a][t] = <<>>]
  /\ UNCHANGED <<now, prints, inbox, wire, seen, tasks, agentVars>>

(* An empty poll that was under way when another request failed succeeds.  *)
StillWorks(a) ==
  /\ ~native[a] /\ native' = [native EXCEPT ![a] = TRUE]
  /\ UNCHANGED <<now, faults, brokerVars, seen, tasks, agentVars>>

(* Mutant: the other way is tried as well when the native way has worked.  *)
MayRecvAsWell(a) == TRUE

MayRecv(a) == ~native[a]

EmptyInbox(a) == [inbox EXCEPT ![a] = [t \in Topic |-> <<>>]]
HasMail(a) == \E t \in Topic : inbox[a][t] # <<>>

(* gossipReceive over /recv keeps the messages of one topic, and forgets   *)
(* those of the others.                                                    *)
Recv(a, t) ==
  /\ MayPoll(a) /\ MayRecv(a) /\ HasMail(a)
  /\ inbox' = EmptyInbox(a)
  /\ tasks' = tasks \cup Rest(a, inbox[a][t])
  /\ UNCHANGED <<now, faults, queues, prints, wire, clientVars, agentVars>>

(* The polling loop takes the same messages for its own, and ignores them. *)
LoopTakes(a) ==
  /\ HasMail(a) /\ inbox' = EmptyInbox(a)
  /\ UNCHANGED <<now, faults, queues, prints, wire, clientVars, tasks, agentVars>>

-----------------------------------------------------------------------------
Known(a, m) == Fingerprint(m) \in Range(seen[a])

(* A message is not handled if it is known, or mistaken for a known one.   *)
Skip(t) ==
  /\ t.what = "round" /\ Known(t.agent, Head(t.batch))
  /\ Becomes(t, Rest(t.agent, Tail(t.batch)))
  /\ UNCHANGED <<now, faults, brokerVars, clientVars, agentVars>>

(* The handler is called with a message that is not known.                 *)
Handles(t, m) ==
  LET q == Append(seen[t.agent], Fingerprint(m))
  IN /\ t.what = "round" /\ m = Head(t.batch) /\ ~Known(t.agent, m)
     /\ seen' = [seen EXCEPT ![t.agent] = IF Len(q) > SeenMax THEN Tail(q) ELSE q]

(* The coder starts on a goal at once, whatever it is doing, and forgets   *)
(* the goal if it has no repository.                                       *)
HandleGoal(t) ==
  LET m == Head(t.batch) rest == Tail(t.batch)
  IN /\ Handles(t, m) /\ t.agent = Coder
     /\ IF HasRepo
        THEN Becomes(t, {Handling(Coder, "goal", "lookup", m, rest)}) /\ status' = "generating"
        ELSE Becomes(t, Rest(Coder, rest)) /\ UNCHANGED status
     /\ UNCHANGED <<now, faults, brokerVars, native, goals, opened, activePRs, asked>>

(* The gateway reviews, unless it is reviewing that pull request.          *)
HandlePR(t) ==
  LET m == Head(t.batch) rest == Tail(t.batch)
  IN /\ Handles(t, m) /\ t.agent = Gateway
     /\ IF m.body \in activePRs
        THEN Becomes(t, Rest(Gateway, rest)) /\ UNCHANGED activePRs
        ELSE /\ Becomes(t, {Handling(Gateway, "review", "fetch", m, rest)})
             /\ activePRs' = activePRs \cup {m.body}
     /\ UNCHANGED <<now, faults, brokerVars, native, goals, opened, status, asked>>

-----------------------------------------------------------------------------
(* The dashboard's goal, which the gateway broadcasts.                     *)
Inject(g) ==
  /\ g \in goals /\ goals' = goals \ {g}
  /\ tasks' = tasks \cup {Alone(Gateway, "inject", "publish", g)}
  /\ UNCHANGED <<now, faults, brokerVars, clientVars, opened, activePRs, status, asked>>

(* Another agent calls the coder for code, or for a revision.              *)
Asked(g) ==
  /\ asked' = [asked EXCEPT ![g] = @ + 1]
  /\ IF HasRepo
     THEN tasks' = tasks \cup {Called(g, asked'[g])} /\ status' = "generating"
     ELSE UNCHANGED <<tasks, status>>

Ask(g) ==
  /\ g \in goals /\ goals' = goals \ {g} /\ Asked(g)
  /\ UNCHANGED <<now, faults, brokerVars, clientVars, opened, activePRs>>

(* A caller that misses the answer of its own broker sends the call again, *)
(* and the coder, which does not look at request ids, starts again.        *)
AskAgain(g) ==
  /\ asked[g] \in 1 .. Attempts - 1 /\ Faulty /\ Asked(g)
  /\ UNCHANGED <<now, brokerVars, clientVars, goals, opened, activePRs>>

(* callLLM shows the coder reviewing, and then idle.                       *)
LookUp(t) ==
  /\ t.what = "goal" /\ t.stage = "lookup"
  /\ At(t, "think") /\ status' = "reviewing"
  /\ UNCHANGED <<now, faults, brokerVars, clientVars, goals, opened, activePRs, asked>>

Think(t) ==
  /\ t.what = "goal" /\ t.stage = "think"
  /\ At(t, "write") /\ status' = "idle"
  /\ UNCHANGED <<now, faults, brokerVars, clientVars, goals, opened, activePRs, asked>>

(* The branch, its files and the pull request.                             *)
Write(t) ==
  /\ t.what = "goal" /\ t.stage = "write"
  /\ Len(opened) < MaxPRs /\ opened' = Append(opened, t.body)
  /\ Becomes(t, {[t EXCEPT !.stage = "publish", !.body = Len(opened')]})
  /\ UNCHANGED <<now, faults, brokerVars, clientVars, goals, activePRs, status, asked>>

(* Mutant: only what parses and is published ends idle: no finally.        *)
StatusKept(t) == IF t.stage = "think" THEN "idle" ELSE status

StatusAfterFailure(t) == "idle"

(* GitHub or the language model throws, or the answer is not JSON.         *)
GoalFails(t) ==
  /\ t.what = "goal" /\ t.stage \in {"lookup", "think", "write"}
  /\ Ends(t) /\ status' = StatusAfterFailure(t)
  /\ UNCHANGED <<now, faults, brokerVars, clientVars, goals, opened, activePRs, asked>>

(* The review is announced to all, the gateway itself among them.          *)
Fetch(t) ==
  /\ t.what = "review" /\ t.stage = "fetch" /\ At(t, "publish")
  /\ UNCHANGED <<now, faults, brokerVars, clientVars, agentVars>>

ReviewEnds(t) ==
  /\ t.what = "review" /\ t.stage \in {"fetch", "run"}
  /\ Ends(t) /\ activePRs' = activePRs \ {t.body}
  /\ UNCHANGED <<now, faults, brokerVars, clientVars, goals, opened, status, asked>>

-----------------------------------------------------------------------------
Publishes(t) == Publish(t) \/ PublishFails(t) \/ Broadcast(t) \/ Published(t)
Polls(a, t) == Poll(a, t) \/ PollFails(a, t) \/ Recv(a, t)
Works(t) ==
  \/ Skip(t) \/ HandleGoal(t) \/ HandlePR(t)
  \/ LookUp(t) \/ Think(t) \/ Write(t) \/ GoalFails(t)
  \/ Fetch(t) \/ ReviewEnds(t)

Next ==
  \/ Tick
  \/ \E s \in Subscription : Polls(s[1], s[2])
  \/ \E a \in Agent : StillWorks(a) \/ LoopTakes(a)
  \/ \E w \in wire : Arrives(w) \/ Misses(w)
  \/ \E t \in tasks : Publishes(t) \/ Works(t)
  \/ \E g \in Goal : Inject(g) \/ Ask(g) \/ AskAgain(g)

Spec == Init /\ [][Next]_vars

(* The timer of GossipSub goes off.  No handler is assumed to end.         *)
FairSpec == Spec /\ \A s \in Subscription : WF_vars(Poll(s[1], s[2]))

-----------------------------------------------------------------------------
Stage == {"next", "lookup", "think", "write", "fetch", "run", "publish", "native", "broadcast", "sent"}

(* The state has its type, and no queue exceeds its limit.                 *)
TypeOK ==
  /\ now \in 0 .. MaxTime /\ faults \in 0 .. MaxFaults
  /\ \A a \in Agent : \A t \in Topic :
       queues[a][t] \in Seq(Message) /\ Len(queues[a][t]) <= QueueMax /\ inbox[a][t] \in Seq(Message)
  /\ \A a \in Agent : /\ Len(seen[a]) <= SeenMax
                      /\ prints[a] \cup Range(seen[a]) \subseteq Agent \X Topic \X (0 .. MaxTime)
  /\ \A w \in wire : w.msg \in Message /\ w.to \in Agent /\ w.way \in {"native", "sent"}
  /\ native \in [Agent -> BOOLEAN]
  /\ \A t \in tasks : /\ t.agent \in Agent /\ t.stage \in Stage
                      /\ t.batch \in Seq(Message) /\ (t.what = "round" => t.batch # <<>>)
  /\ asked \in [Goal -> 0 .. Attempts] /\ goals \subseteq Goal /\ opened \in Seq(Goal) /\ activePRs \subseteq PR
  /\ status \in {"idle", "generating", "reviewing"}

(* A goal is one pull request, unless things go wrong.  A lost answer of a *)
(* call opens another one at once; a goal that was broadcast needs two     *)
(* faults, each of which may leave a copy of it on the other way, with     *)
(* another timestamp.                                                      *)
OneGoalOnePR ==
  \A g \in Goal :
    LET made == {p \in DOMAIN opened : opened[p] = g}
    IN \/ Cardinality(made) <= 1 \/ Cardinality(made) <= faults
       \/ asked[g] > 0 /\ Cardinality(made) <= faults + 1

(* A coder that says it is busy is, however many goals it works on.        *)
BusyIsTrue ==
  /\ status = "generating" => \E t \in tasks : t.what = "goal" /\ t.stage = "lookup"
  /\ status = "reviewing" => \E t \in tasks : t.what = "goal" /\ t.stage = "think"

(* No handler keeps a message waiting at the broker, not even one that     *)
(* never ends.                                                             *)
QueuedIsTaken ==
  \A s \in Subscription : []<>(queues[s[1]][s[2]] = <<>> \/ ~native[s[1]])

=============================================================================
