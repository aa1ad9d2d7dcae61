---------------------------- MODULE GossipProofs ----------------------------
(***************************************************************************)
(* Proofs about Gossip, for any agents, goals, limits and faults.          *)
(***************************************************************************)
EXTENDS Gossip, TLAPS

(***************************************************************************)
(* The invariant.  A topic says what its messages are about, and a task    *)
(* only has messages that its agent listens to.                            *)
(***************************************************************************)
Subject(topic)  == IF topic = "goals" THEN Goal ELSE PR
Letter(topic)   == [from : Agent, topic : {topic}, at : 0 .. MaxTime, body : Subject(topic)]
HeardBy(a)      == {m \in Message : Listens(a, m.topic) /\ m.body \in Subject(m.topic)}
Prints          == Agent \X Topic \X (0 .. MaxTime)
Sending(topic)  == [msg : Letter(topic), to : Agent, way : {"native", "sent"}]
Task == [agent : Agent, what : {"round", "inject", "goal", "review"}, stage : Stage,
         body : Goal \cup PR \cup {Nobody}, id : Seq(Prints) \cup (Goal \X Nat), batch : Seq(Message)]

BeforePR   == {"lookup", "think", "write"}
Publishing == {"publish", "native", "broadcast", "sent"}

(* What a task works on, by what it is and where it is.                    *)
TaskOK(t) ==
  /\ t \in Task /\ t.batch \in Seq(HeardBy(t.agent))
  /\ t.what = "round"  => t.stage = "next" /\ t.batch # <<>>
  /\ t.what = "inject" => t.stage \in Publishing /\ t.body \in Goal
  /\ t.what = "goal"   => \/ t.stage \in BeforePR /\ t.body \in Goal
                          \/ t.stage \in Publishing /\ t.body \in PR
  /\ t.what = "review" => t.stage \in Publishing \cup {"fetch", "run"} /\ t.body \in PR

ClockType == now \in 0 .. MaxTime /\ faults \in 0 .. MaxFaults

QueueType ==
  /\ queues \in [Agent -> [Topic -> Seq(Message)]]
  /\ \A a \in Agent, t \in Topic : queues[a][t] \in Seq(Letter(t)) /\ Len(queues[a][t]) <= QueueMax

InboxType ==
  /\ inbox \in [Agent -> [Topic -> Seq(Message)]]
  /\ \A a \in Agent, t \in Topic : inbox[a][t] \in Seq(Letter(t))

PrintType == prints \in [Agent -> SUBSET Prints]

WireType == \A w \in wire : \E t \in Topic : w \in Sending(t)

ClientType ==
  /\ native \in [Agent -> BOOLEAN]
  /\ seen \in [Agent -> Seq(Prints)] /\ \A a \in Agent : Len(seen[a]) <= SeenMax

TaskType == \A t \in tasks : TaskOK(t)

AgentType ==
  /\ goals \subseteq Goal /\ opened \in Seq(Goal) /\ activePRs \subseteq PR
  /\ status \in {"idle", "generating", "reviewing"} /\ asked \in [Goal -> 0 .. Attempts]
  /\ \A g \in goals : asked[g] = 0

TypeInv ==
  /\ ClockType /\ QueueType /\ InboxType /\ PrintType /\ WireType
  /\ ClientType /\ TaskType /\ AgentType

-----------------------------------------------------------------------------
(***************************************************************************)
(* Lemmas on messages and on the sequences that hold them.                 *)
(***************************************************************************)
LEMMA LargerSeq ==
  ASSUME NEW S, NEW T, S \subseteq T, NEW q \in Seq(S)
  PROVE  q \in Seq(T)
OBVIOUS

LEMMA LetterIsMessage ==
  ASSUME NEW t \in Topic
  PROVE  Letter(t) \subseteq Message
BY DEF Letter, Message, Subject

LEMMA LetterIsHeard ==
  ASSUME NEW a \in Agent, NEW t \in Topic, Listens(a, t)
  PROVE  Letter(t) \subseteq HeardBy(a)
<1>1. \A m \in Letter(t) : m.topic = t /\ m.body \in Subject(t)
  BY DEF Letter
<1>. QED  BY <1>1, LetterIsMessage DEF HeardBy

LEMMA HeardIsLetter ==
  ASSUME NEW a \in Agent, NEW m \in HeardBy(a)
  PROVE  /\ m \in Message /\ m.topic \in Topic /\ Listens(a, m.topic) /\ m \in Letter(m.topic)
         /\ Fingerprint(m) \in Prints
<1>1. m \in Message /\ Listens(a, m.topic) /\ m.body \in Subject(m.topic)
  BY DEF HeardBy
<1>2. m.topic \in Topic /\ m \in Letter(m.topic) /\ Fingerprint(m) \in Prints
  BY <1>1 DEF Message, Letter, Fingerprint, Prints
<1>. QED  BY <1>1, <1>2

(* A queue that takes a message and, when it is full, loses its oldest.    *)
LEMMA BoundedQueue ==
  ASSUME NEW S, NEW q \in Seq(S), NEW e \in S, NEW max \in Nat \ {0}, Len(q) <= max
  PROVE  LET r == Append(q, e)
         IN  /\ r \in Seq(S) /\ Len(r) = Len(q) + 1 /\ Range(r) = Range(q) \cup {e}
             /\ Tail(r) \in Seq(S) /\ Len(Tail(r)) = Len(q)
             /\ Range(r) \subseteq {Head(r)} \cup Range(Tail(r))
             /\ Len(IF Len(r) > max THEN Tail(r) ELSE r) <= max
<1> DEFINE r == Append(q, e)
<1>1. /\ r \in Seq(S) /\ Len(r) = Len(q) + 1 /\ r[Len(q) + 1] = e
      /\ \A i \in 1 .. Len(q) : r[i] = q[i]
  OBVIOUS
<1>2. Tail(r) \in Seq(S) /\ Len(Tail(r)) = Len(q) /\ Head(r) = r[1]
  BY <1>1
<1>3. \A i \in 1 .. Len(q) : Tail(r)[i] = r[i + 1]
  BY <1>1
<1>4. Range(r) = Range(q) \cup {e}
  <2>1. DOMAIN r = 1 .. Len(q) + 1 /\ DOMAIN q = 1 .. Len(q) /\ Len(q) \in Nat
    BY <1>1
  <2>. HIDE DEF r
  <2>. QED  BY <1>1, <2>1 DEF Range
<1>5. Range(r) \subseteq {Head(r)} \cup Range(Tail(r))
  <2>1. DOMAIN r = 1 .. Len(q) + 1 /\ DOMAIN Tail(r) = 1 .. Len(q) /\ Len(q) \in Nat
    BY <1>1, <1>2
  <2>. HIDE DEF r
  <2>2. \A i \in 1 .. Len(q) + 1 : i = 1 \/ (i - 1 \in 1 .. Len(q) /\ Tail(r)[i - 1] = r[i])
    BY <1>3, <2>1
  <2>. QED  BY <1>2, <2>1, <2>2 DEF Range
<1>6. Len(IF Len(r) > max THEN Tail(r) ELSE r) <= max
  BY <1>1, <1>2
<1>. QED  BY <1>1, <1>2, <1>4, <1>5, <1>6

LEMMA HeadAndTail ==
  ASSUME NEW S, NEW q \in Seq(S), q # <<>>
  PROVE  /\ Head(q) \in S /\ Head(q) \in Range(q) /\ Tail(q) \in Seq(S)
         /\ Range(q) \subseteq {Head(q)} \cup Range(Tail(q))
<1>1. Head(q) = q[1] /\ Head(q) \in S /\ 1 \in DOMAIN q /\ Tail(q) \in Seq(S)
  OBVIOUS
<1>2. \A i \in DOMAIN q \ {1} : i - 1 \in DOMAIN Tail(q) /\ Tail(q)[i - 1] = q[i]
  OBVIOUS
<1>3. Range(q) \subseteq {Head(q)} \cup Range(Tail(q))
  BY <1>1, <1>2 DEF Range
<1>. QED  BY <1>1, <1>3 DEF Range

-----------------------------------------------------------------------------
(***************************************************************************)
(* Lemmas on tasks.                                                        *)
(***************************************************************************)
LEMMA RestOK ==
  ASSUME NEW a \in Agent, NEW batch \in Seq(HeardBy(a)), NEW t \in Rest(a, batch)
  PROVE  TaskOK(t) /\ t = Round(a, batch) /\ batch # <<>>
<1>1. t = Round(a, batch) /\ batch # <<>>
  BY DEF Rest
<1>2. batch \in Seq(Message)
  BY LargerSeq DEF HeardBy
<1>3. <<>> \in Seq(Prints)
  OBVIOUS
<1>. QED  BY <1>1, <1>2, <1>3 DEF Round, TaskOK, Task, Stage

LEMMA StageOK ==
  ASSUME NEW t, TaskOK(t), NEW s \in Stage, t.what # "round",
         t.what = "goal" => {s, t.stage} \subseteq BeforePR \/ {s, t.stage} \subseteq Publishing,
         t.what = "inject" => s \in Publishing,
         t.what = "review" => s \in Publishing \cup {"fetch", "run"}
  PROVE  TaskOK([t EXCEPT !.stage = s])
<1>1. t \in Task
  BY DEF TaskOK
<1>2. /\ [t EXCEPT !.stage = s] \in Task
      /\ [t EXCEPT !.stage = s].stage = s
      /\ [t EXCEPT !.stage = s].what = t.what
      /\ [t EXCEPT !.stage = s].body = t.body
      /\ [t EXCEPT !.stage = s].batch = t.batch
      /\ [t EXCEPT !.stage = s].agent = t.agent
  BY <1>1 DEF Task
<1>. QED  BY <1>2 DEF TaskOK, BeforePR, Publishing

LEMMA BecomesOK ==
  ASSUME TaskType, NEW t, NEW new, Becomes(t, new), \A n \in new : TaskOK(n)
  PROVE  TaskType'
BY DEF TaskType, Becomes, TaskOK

LEMMA AtOK ==
  ASSUME TaskType, NEW t \in tasks, NEW s \in Stage, At(t, s), t.what # "round",
         t.what = "goal" => {s, t.stage} \subseteq BeforePR \/ {s, t.stage} \subseteq Publishing,
         t.what = "inject" => s \in Publishing,
         t.what = "review" => s \in Publishing \cup {"fetch", "run"}
  PROVE  TaskType'
<1>1. TaskOK([t EXCEPT !.stage = s])
  BY StageOK DEF TaskType
<1>. QED  BY <1>1, BecomesOK DEF At

LEMMA EndsOK ==
  ASSUME TaskType, NEW t \in tasks, Ends(t)
  PROVE  TaskType'
<1>1. t.agent \in Agent /\ t.batch \in Seq(HeardBy(t.agent))
  BY DEF TaskType, TaskOK, Task
<1>. QED  BY <1>1, RestOK, BecomesOK DEF Ends

(* What is published is about what its topic says.                         *)
LEMMA PostOK ==
  ASSUME ClockType, TaskType, NEW t \in tasks, t.stage \in Publishing
  PROVE  /\ TopicOf(t) \in Topic /\ Post(t) \in Letter(TopicOf(t)) /\ Post(t).topic = TopicOf(t)
         /\ t.agent \in Agent /\ t.what \in {"inject", "goal", "review"}
<1>1. TaskOK(t) /\ t.agent \in Agent /\ t.what \in {"round", "inject", "goal", "review"}
  BY DEF TaskType, TaskOK, Task
<1>2. t.what \in {"inject", "goal", "review"}
  BY <1>1 DEF TaskOK, Publishing
<1>3. TopicOf(t) \in Topic /\ t.body \in Subject(TopicOf(t))
  BY <1>1, <1>2 DEF TaskOK, TopicOf, Topic, Subject, Publishing, BeforePR
<1>4. Post(t) \in Letter(TopicOf(t)) /\ Post(t).topic = TopicOf(t)
  BY <1>1, <1>3 DEF Post, Letter, ClockType
<1>. QED  BY <1>1, <1>2, <1>3, <1>4

-----------------------------------------------------------------------------
(***************************************************************************)
(* The types, component by component: in each lemma a step for every       *)
(* action that disturbs the component.                                     *)
(***************************************************************************)
LEMMA EnqueueType ==
  ASSUME QueueType, PrintType, NEW a \in Agent, NEW t \in Topic, NEW m \in Letter(t), Enqueue(a, m)
  PROVE  QueueType' /\ PrintType'
<1> DEFINE q == queues[a][t]
           r == Append(q, m)
           new == IF Overflows(r) THEN Tail(r) ELSE r
<1>1. m.topic = t /\ m \in Message /\ m.from \in Agent /\ m.at \in 0 .. MaxTime
  BY LetterIsMessage DEF Letter
<1>2. Fingerprint(m) \in Prints
  BY <1>1 DEF Fingerprint, Prints
<1>3. PrintType'
  BY <1>2 DEF Enqueue, PrintType
<1>4. q \in Seq(Letter(t)) /\ Len(q) <= QueueMax
  BY DEF QueueType
<1>5. new \in Seq(Letter(t)) /\ Len(new) <= QueueMax
  BY <1>4, BoundAssumption, BoundedQueue DEF Overflows
<1>6. queues' = queues \/ queues' = [queues EXCEPT ![a][t] = new]
  BY <1>1 DEF Enqueue
<1>7. new \in Seq(Message)
  BY <1>5, LetterIsMessage, LargerSeq
<1> HIDE DEF new
<1>8. CASE queues' = [queues EXCEPT ![a][t] = new]
  <2>1. queues' \in [Agent -> [Topic -> Seq(Message)]]
    BY <1>7, <1>8 DEF QueueType
  <2>2. \A b \in Agent, k \in Topic : queues'[b][k] = IF b = a /\ k = t THEN new ELSE queues[b][k]
    BY <1>8 DEF QueueType
  <2>. QED  BY <1>3, <1>5, <2>1, <2>2 DEF QueueType
<1>9. CASE queues' = queues
  BY <1>3, <1>9 DEF QueueType
<1>. QED  BY <1>6, <1>8, <1>9

(* Sending to the listeners of a topic.                                    *)
LEMMA SendingsOK ==
  ASSUME ClockType, TaskType, WireType, NEW t \in tasks, t.stage \in Publishing,
         NEW way \in {"native", "sent"}, NEW up \in SUBSET Listeners(t),
         wire' = wire \cup Sendings(t, way, up)
  PROVE  WireType'
<1>1. TopicOf(t) \in Topic /\ Post(t) \in Letter(TopicOf(t))
  BY PostOK
<1>2. \A w \in Sendings(t, way, up) : w \in Sending(TopicOf(t))
  BY <1>1 DEF Sendings, Sending, Listeners
<1>3. WireType => \A w \in wire' : \E k \in Topic : w \in Sending(k)
  BY <1>1, <1>2 DEF WireType
<1>. QED  BY <1>3 DEF WireType, Sending, Letter, Subject

(* What arrives over the other way carries the time of its arrival.        *)
LEMMA LateLetter ==
  ASSUME ClockType, NEW t \in Topic, NEW m \in Letter(t)
  PROVE  /\ [m EXCEPT !.at = now] \in Letter(t) /\ [m EXCEPT !.at = now].topic = t
         /\ [m EXCEPT !.at = now] \in Message
<1>1. [m EXCEPT !.at = now] \in Letter(t) /\ [m EXCEPT !.at = now].topic = t
  BY DEF Letter, ClockType
<1>. QED  BY <1>1, LetterIsMessage

LEMMA EmptyQueue ==
  ASSUME QueueType, NEW a \in Agent, NEW t \in Topic, queues' = [queues EXCEPT ![a][t] = <<>>]
  PROVE  /\ QueueType'
         /\ \A b \in Agent, k \in Topic : queues'[b][k] = IF b = a /\ k = t THEN <<>> ELSE queues[b][k]
<1>1. queues' \in [Agent -> [Topic -> Seq(Message)]]
  BY DEF QueueType
<1>2. \A b \in Agent, k \in Topic : queues'[b][k] = IF b = a /\ k = t THEN <<>> ELSE queues[b][k]
  BY DEF QueueType
<1>3. <<>> \in Seq(Letter(t)) /\ Len(<<>>) <= QueueMax
  BY BoundAssumption
<1>. QED  BY <1>1, <1>2, <1>3 DEF QueueType

LEMMA EmptyInboxOK ==
  ASSUME InboxType, NEW a \in Agent, inbox' = EmptyInbox(a)
  PROVE  /\ InboxType'
         /\ \A b \in Agent, k \in Topic : inbox'[b][k] = IF b = a THEN <<>> ELSE inbox[b][k]
<1>1. inbox' \in [Agent -> [Topic -> Seq(Message)]]
  BY DEF InboxType, EmptyInbox
<1>2. \A b \in Agent, k \in Topic : inbox'[b][k] = IF b = a THEN <<>> ELSE inbox[b][k]
  BY DEF InboxType, EmptyInbox
<1>3. \A k \in Topic : <<>> \in Seq(Letter(k))
  OBVIOUS
<1>. QED  BY <1>1, <1>2, <1>3 DEF InboxType

LEMMA BrokerStep ==
  ASSUME TypeInv, Next
  PROVE  QueueType' /\ InboxType' /\ PrintType' /\ WireType'
<1>0. ClockType /\ QueueType /\ InboxType /\ PrintType /\ WireType /\ TaskType
  BY DEF TypeInv
<1>1. ASSUME UNCHANGED brokerVars PROVE QueueType' /\ InboxType' /\ PrintType' /\ WireType'
  BY <1>0, <1>1 DEF brokerVars, QueueType, InboxType, PrintType, WireType
<1>2. ASSUME NEW t \in tasks, Publish(t) PROVE QueueType' /\ InboxType' /\ PrintType' /\ WireType'
  <2>1. t.stage \in Publishing /\ UNCHANGED inbox
    BY <1>2 DEF Publish, Publishing
  <2>2. /\ TopicOf(t) \in Topic /\ Post(t) \in Letter(TopicOf(t)) /\ t.agent \in Agent
    BY <1>0, <2>1, PostOK
  <2>3. Listeners(t) \in SUBSET Listeners(t)
    OBVIOUS
  <2>4. WireType'
    BY <1>0, <1>2, <2>1, <2>3, SendingsOK DEF Publish
  <2>5. CASE Enqueue(t.agent, Post(t))
    BY <1>0, <2>1, <2>2, <2>4, <2>5, EnqueueType DEF InboxType
  <2>6. CASE UNCHANGED <<queues, prints>>
    BY <1>0, <2>1, <2>4, <2>6 DEF InboxType, QueueType, PrintType
  <2>. QED  BY <1>2, <2>5, <2>6 DEF Publish
<1>3. ASSUME NEW t \in tasks, Broadcast(t) PROVE QueueType' /\ InboxType' /\ PrintType' /\ WireType'
  <2>1. t.stage \in Publishing /\ UNCHANGED <<queues, prints, inbox>>
    BY <1>3 DEF Broadcast, Publishing
  <2>2. WireType'
    BY <1>0, <1>3, <2>1, SendingsOK DEF Broadcast
  <2>. QED  BY <1>0, <2>1, <2>2 DEF InboxType, QueueType, PrintType
<1>4. ASSUME NEW w \in wire, Arrives(w) PROVE QueueType' /\ InboxType' /\ PrintType' /\ WireType'
  <2>1. WireType'
    BY <1>0, <1>4 DEF Arrives, WireType
  <2>2. PICK t \in Topic : w \in Sending(t)
    BY <1>0 DEF WireType
  <2>3. w.msg \in Letter(t) /\ w.to \in Agent
    BY <2>2 DEF Sending
  <2>4. CASE w.way = "native"
    <3>1. Enqueue(w.to, w.msg) /\ UNCHANGED inbox
      BY <1>4, <2>4 DEF Arrives
    <3>. QED  BY <1>0, <2>1, <2>3, <3>1, EnqueueType DEF InboxType
  <2>5. CASE w.way # "native"
    <3> DEFINE m == [w.msg EXCEPT !.at = now]
    <3>1. m \in Letter(t) /\ m.topic = t /\ m \in Message
      BY <1>0, <2>3, LateLetter
    <3>2. UNCHANGED <<queues, prints>> /\ inbox' = [inbox EXCEPT ![w.to][m.topic] = Append(@, m)]
      BY <1>4, <2>5 DEF Arrives
    <3> HIDE DEF m
    <3>3. inbox' = [inbox EXCEPT ![w.to][t] = Append(@, m)]
      BY <3>1, <3>2
    <3>4. Append(inbox[w.to][t], m) \in Seq(Letter(t)) /\ Append(inbox[w.to][t], m) \in Seq(Message)
      BY <1>0, <2>3, <3>1 DEF InboxType
    <3>5. inbox' \in [Agent -> [Topic -> Seq(Message)]]
      BY <1>0, <2>3, <3>3, <3>4 DEF InboxType
    <3>6. \A b \in Agent, k \in Topic :
            inbox'[b][k] = IF b = w.to /\ k = t THEN Append(inbox[w.to][t], m) ELSE inbox[b][k]
      BY <1>0, <2>3, <3>3 DEF InboxType
    <3>7. InboxType'
      BY <1>0, <3>4, <3>5, <3>6 DEF InboxType
    <3>. QED  BY <1>0, <2>1, <3>2, <3>7 DEF QueueType, PrintType
  <2>. QED  BY <2>4, <2>5
<1>5. ASSUME NEW w \in wire, Misses(w) PROVE QueueType' /\ InboxType' /\ PrintType' /\ WireType'
  BY <1>0, <1>5 DEF Misses, QueueType, InboxType, PrintType, WireType
<1>6. ASSUME NEW s \in Subscription, Poll(s[1], s[2]) \/ PollFails(s[1], s[2])
      PROVE  QueueType' /\ InboxType' /\ PrintType' /\ WireType'
  <2>1. s[1] \in Agent /\ s[2] \in Topic
    BY AgentAssumption DEF Subscription, Topic
  <2>2. UNCHANGED <<prints, inbox, wire>>
    BY <1>6 DEF Poll, PollFails
  <2>3. CASE queues' = [queues EXCEPT ![s[1]][s[2]] = <<>>]
    BY <1>0, <2>1, <2>2, <2>3, EmptyQueue DEF InboxType, PrintType, WireType
  <2>4. CASE UNCHANGED queues
    BY <1>0, <2>2, <2>4 DEF QueueType, InboxType, PrintType, WireType
  <2>. QED  BY <1>6, <2>3, <2>4 DEF Poll, PollFails
<1>7. ASSUME NEW a \in Agent, inbox' = EmptyInbox(a), UNCHANGED <<queues, prints, wire>>
      PROVE  QueueType' /\ InboxType' /\ PrintType' /\ WireType'
  BY <1>0, <1>7, EmptyInboxOK DEF QueueType, PrintType, WireType
<1>8. ASSUME NEW s \in Subscription, Recv(s[1], s[2])
      PROVE  QueueType' /\ InboxType' /\ PrintType' /\ WireType'
  BY <1>7, <1>8, AgentAssumption DEF Subscription, Recv
<1>9. ASSUME NEW a \in Agent, LoopTakes(a) PROVE QueueType' /\ InboxType' /\ PrintType' /\ WireType'
  BY <1>7, <1>9 DEF LoopTakes
<1>10. ASSUME NEW t \in tasks, PublishFails(t) \/ Published(t) \/ Works(t)
       PROVE  UNCHANGED brokerVars
  BY <1>10 DEF PublishFails, Published, Works, Skip, HandleGoal, HandlePR, LookUp, Think, Write,
               GoalFails, Fetch, ReviewEnds
<1>. QED  BY <1>1, <1>2, <1>3, <1>4, <1>5, <1>6, <1>8, <1>9, <1>10
          DEF Next, Tick, Polls, StillWorks, Publishes, Inject, Ask, AskAgain

(* The clients, the agents and the clock.                                  *)
LEMMA ClientStep ==
  ASSUME TypeInv, Next
  PROVE  ClientType' /\ ClockType'
<1>0. ClientType /\ ClockType /\ TaskType
  BY DEF TypeInv
<1>1. ClockType'
  <2> DEFINE still == UNCHANGED now /\ (UNCHANGED faults \/ Faulty)
  <2>1. ASSUME NEW t \in tasks, Publishes(t) PROVE still
    BY <2>1 DEF Publishes, Publish, PublishFails, Broadcast, Published
  <2>2. ASSUME NEW t \in tasks, Works(t) PROVE still
    BY <2>2 DEF Works, Skip, HandleGoal, HandlePR, LookUp, Think, Write, GoalFails, Fetch, ReviewEnds
  <2>3. ASSUME NEW s \in Subscription, Polls(s[1], s[2]) PROVE still
    BY <2>3 DEF Polls, Poll, PollFails, Recv
  <2>4. ASSUME NEW a \in Agent, StillWorks(a) \/ LoopTakes(a) PROVE still
    BY <2>4 DEF StillWorks, LoopTakes
  <2>5. ASSUME NEW w \in wire, Arrives(w) \/ Misses(w) PROVE still
    BY <2>5 DEF Arrives, Misses
  <2>6. ASSUME NEW g \in Goal, Inject(g) \/ Ask(g) \/ AskAgain(g) PROVE still
    BY <2>6 DEF Inject, Ask, AskAgain
  <2>7. still \/ Tick
    <3>. HIDE DEF still
    <3>. QED  BY <2>1, <2>2, <2>3, <2>4, <2>5, <2>6 DEF Next
  <2>8. now' \in 0 .. MaxTime /\ faults' \in 0 .. MaxFaults
    BY <1>0, <2>7, BoundAssumption DEF ClockType, Faulty, Tick
  <2>. QED  BY <2>8 DEF ClockType
<1>2. ASSUME UNCHANGED clientVars PROVE ClientType'
  BY <1>0, <1>2 DEF clientVars, ClientType
<1>3. ASSUME UNCHANGED seen,
             UNCHANGED native \/ \E a \in Agent, b \in BOOLEAN : native' = [native EXCEPT ![a] = b]
      PROVE  ClientType'
  BY <1>0, <1>3 DEF ClientType
<1>4. ASSUME NEW t \in tasks, PublishFails(t) \/ Published(t) PROVE ClientType'
  <2>1. t.agent \in Agent
    BY <1>0 DEF TaskType, TaskOK, Task
  <2>. QED  BY <1>3, <1>4, <2>1 DEF PublishFails, Published
<1>5. ASSUME NEW s \in Subscription, PollFails(s[1], s[2]) PROVE ClientType'
  <2>1. s[1] \in Agent
    BY AgentAssumption DEF Subscription
  <2>. QED  BY <1>3, <1>5, <2>1 DEF PollFails
<1>6. ASSUME NEW a \in Agent, StillWorks(a) PROVE ClientType'
  BY <1>3, <1>6 DEF StillWorks
<1>7. ASSUME NEW t \in tasks, NEW m, Handles(t, m), UNCHANGED native PROVE ClientType'
  <2> DEFINE q == seen[t.agent]
             r == Append(q, Fingerprint(m))
             new == IF Len(r) > SeenMax THEN Tail(r) ELSE r
  <2>1. t.agent \in Agent /\ t.batch \in Seq(HeardBy(t.agent)) /\ t.batch # <<>> /\ m = Head(t.batch)
    BY <1>0, <1>7 DEF TaskType, TaskOK, Task, Handles
  <2>2. m \in HeardBy(t.agent)
    BY <2>1
  <2>3. Fingerprint(m) \in Prints
    BY <2>1, <2>2, HeardIsLetter
  <2>4. q \in Seq(Prints) /\ Len(q) <= SeenMax
    BY <1>0, <2>1 DEF ClientType
  <2>5. new \in Seq(Prints) /\ Len(new) <= SeenMax
    BY <2>3, <2>4, BoundAssumption, BoundedQueue
  <2>6. seen' = [seen EXCEPT ![t.agent] = new]
    BY <1>7 DEF Handles
  <2>. HIDE DEF new
  <2>. QED  BY <1>0, <1>7, <2>1, <2>5, <2>6 DEF ClientType
<1>8. ASSUME NEW t \in tasks, HandleGoal(t) \/ HandlePR(t) PROVE ClientType'
  BY <1>7, <1>8 DEF HandleGoal, HandlePR
<1>9. ASSUME NEW t \in tasks, Publish(t) \/ Broadcast(t) PROVE UNCHANGED clientVars
  BY <1>9 DEF Publish, Broadcast
<1>10. ASSUME NEW t \in tasks, Works(t), ~HandleGoal(t), ~HandlePR(t) PROVE UNCHANGED clientVars
  BY <1>10 DEF Works, Skip, LookUp, Think, Write, GoalFails, Fetch, ReviewEnds
<1>. QED  BY <1>1, <1>2, <1>4, <1>5, <1>6, <1>8, <1>9, <1>10
          DEF Next, Tick, Polls, Poll, Recv, LoopTakes, Arrives, Misses, Publishes, Inject, Ask, AskAgain

(* What a task that is at a message does with it.                          *)
LEMMA AtMessage ==
  ASSUME TaskType, NEW t \in tasks, t.what = "round"
  PROVE  /\ t.agent \in Agent /\ t.batch \in Seq(HeardBy(t.agent)) /\ t.batch # <<>>
         /\ Head(t.batch) \in HeardBy(t.agent) /\ Head(t.batch) \in Message
         /\ Tail(t.batch) \in Seq(HeardBy(t.agent)) /\ Tail(t.batch) \in Seq(Message)
         /\ Range(t.batch) \subseteq {Head(t.batch)} \cup Range(Tail(t.batch))
<1>1. t.agent \in Agent /\ t.batch \in Seq(HeardBy(t.agent)) /\ t.batch # <<>>
  BY DEF TaskType, TaskOK, Task
<1>2. /\ Head(t.batch) \in HeardBy(t.agent) /\ Tail(t.batch) \in Seq(HeardBy(t.agent))
      /\ Range(t.batch) \subseteq {Head(t.batch)} \cup Range(Tail(t.batch))
  BY <1>1, HeadAndTail
<1>3. HeardBy(t.agent) \subseteq Message
  BY DEF HeardBy
<1>4. Tail(t.batch) \in Seq(Message)
  BY <1>2, <1>3, LargerSeq
<1>. QED  BY <1>1, <1>2, <1>3, <1>4

(* The coder's messages are goals and the gateway's are pull requests.     *)
LEMMA BodyHeard ==
  ASSUME NEW m \in HeardBy(Coder)
  PROVE  m.body \in Goal
BY AgentAssumption DEF HeardBy, Listens, Subscription, Subject

LEMMA PRHeard ==
  ASSUME NEW m \in HeardBy(Gateway)
  PROVE  m.body \in PR
BY AgentAssumption DEF HeardBy, Listens, Subscription, Subject

LEMMA HandlingOK ==
  ASSUME NEW a \in Agent, NEW m \in HeardBy(a), NEW rest \in Seq(HeardBy(a)),
         NEW what, NEW stage,
         \/ what = "goal" /\ stage = "lookup" /\ m.body \in Goal
         \/ what = "review" /\ stage = "fetch" /\ m.body \in PR
  PROVE  TaskOK(Handling(a, what, stage, m, rest))
<1>1. Fingerprint(m) \in Prints /\ rest \in Seq(Message)
  <2>1. HeardBy(a) \subseteq Message
    BY DEF HeardBy
  <2>. QED  BY <2>1, HeardIsLetter, LargerSeq
<1>2. <<Fingerprint(m)>> \in Seq(Prints)
  BY <1>1
<1>. QED  BY <1>1, <1>2 DEF Handling, TaskOK, Task, Stage, BeforePR

LEMMA AloneOK ==
  ASSUME NEW a \in Agent, NEW g \in Goal, NEW what, NEW stage,
         \/ what = "goal" /\ stage = "lookup"
         \/ what = "inject" /\ stage = "publish"
  PROVE  TaskOK(Alone(a, what, stage, g))
<1>1. <<>> \in Seq(Prints) /\ <<>> \in Seq(Message) /\ <<>> \in Seq(HeardBy(a))
  OBVIOUS
<1>. QED  BY <1>1 DEF Alone, TaskOK, Task, Stage, BeforePR, Publishing

LEMMA CalledOK ==
  ASSUME NEW g \in Goal, NEW n \in Nat
  PROVE  TaskOK(Called(g, n))
<1>1. Coder \in Agent /\ TaskOK(Alone(Coder, "goal", "lookup", g))
  BY AgentAssumption, AloneOK
<1>2. /\ Called(g, n) \in Task
      /\ Called(g, n).agent = Coder /\ Called(g, n).what = "goal" /\ Called(g, n).stage = "lookup"
      /\ Called(g, n).body = g /\ Called(g, n).batch = <<>>
  BY <1>1 DEF TaskOK, Task, Called, Alone
<1>3. <<>> \in Seq(HeardBy(Coder))
  OBVIOUS
<1>. QED  BY <1>2, <1>3 DEF TaskOK, BeforePR

(* A call adds a task, or nothing.                                         *)
LEMMA AsksOK ==
  ASSUME TypeInv, NEW g \in Goal, Ask(g) \/ AskAgain(g)
  PROVE  /\ asked' \in [Goal -> 0 .. Attempts] /\ asked' = [asked EXCEPT ![g] = @ + 1]
         /\ asked'[g] = asked[g] + 1 /\ asked[g] \in 0 .. Attempts - 1
         /\ TaskOK(Called(g, asked'[g]))
         /\ tasks' = tasks \/ tasks' = tasks \cup {Called(g, asked'[g])}
         /\ UNCHANGED status \/ (status' = "generating" /\ Called(g, asked'[g]) \in tasks')
<1>1. asked \in [Goal -> 0 .. Attempts] /\ asked' = [asked EXCEPT ![g] = @ + 1]
  BY DEF TypeInv, AgentType, Ask, AskAgain, Asked
<1>2. asked[g] \in 0 .. Attempts - 1
  BY DEF TypeInv, AgentType, Ask, AskAgain, Attempts
<1>3. asked' \in [Goal -> 0 .. Attempts] /\ asked'[g] = asked[g] + 1 /\ asked'[g] \in Nat
  BY <1>1, <1>2 DEF Attempts
<1>. QED  BY <1>1, <1>2, <1>3, CalledOK DEF Ask, AskAgain, Asked

LEMMA RoundsOK ==
  ASSUME TaskType, NEW new, tasks' = tasks \cup new, \A n \in new : TaskOK(n)
  PROVE  TaskType'
BY DEF TaskType, TaskOK

(* A message is handled, by starting a task or at once.                    *)
LEMMA HandleOK ==
  ASSUME TaskType, NEW t \in tasks, HandleGoal(t) \/ HandlePR(t)
  PROVE  TaskType' /\ (activePRs' = activePRs \/ \E p \in PR : activePRs' = activePRs \cup {p})
<1>0. t.what = "round"
  BY DEF HandleGoal, HandlePR, Handles
<1>1. /\ t.agent \in Agent /\ Head(t.batch) \in HeardBy(t.agent)
      /\ Tail(t.batch) \in Seq(HeardBy(t.agent))
  BY <1>0, AtMessage
<1>2. \A n \in Rest(t.agent, Tail(t.batch)) : TaskOK(n)
  BY <1>1, RestOK
<1>3. CASE HandleGoal(t)
  <2>1. t.agent = Coder
    BY <1>3 DEF HandleGoal
  <2>2. Head(t.batch).body \in Goal
    BY <1>1, <2>1, BodyHeard
  <2>3. TaskOK(Handling(Coder, "goal", "lookup", Head(t.batch), Tail(t.batch)))
    BY <1>1, <2>1, <2>2, HandlingOK
  <2>4. TaskType'
    BY <1>2, <1>3, <2>1, <2>3, BecomesOK DEF HandleGoal
  <2>. QED  BY <1>3, <2>4 DEF HandleGoal
<1>4. CASE HandlePR(t)
  <2>1. t.agent = Gateway
    BY <1>4 DEF HandlePR
  <2>2. Head(t.batch).body \in PR
    BY <1>1, <2>1, PRHeard
  <2>3. TaskOK(Handling(Gateway, "review", "fetch", Head(t.batch), Tail(t.batch)))
    BY <1>1, <2>1, <2>2, HandlingOK
  <2>4. TaskType'
    BY <1>2, <1>4, <2>1, <2>3, BecomesOK DEF HandlePR
  <2>. QED  BY <1>4, <2>2, <2>4 DEF HandlePR
<1>. QED  BY <1>3, <1>4

(* The coder opens a pull request.                                         *)
LEMMA WriteOK ==
  ASSUME TaskType, AgentType, NEW t \in tasks, Write(t)
  PROVE  TaskType' /\ AgentType'
<1>1. /\ t \in Task /\ TaskOK(t) /\ t.what = "goal" /\ t.stage = "write" /\ t.body \in Goal
  BY DEF TaskType, TaskOK, Write, Publishing
<1>2. opened \in Seq(Goal) /\ Len(opened) < MaxPRs /\ opened' = Append(opened, t.body)
  BY DEF AgentType, Write
<1>3. opened' \in Seq(Goal) /\ Len(opened') \in PR
  BY <1>1, <1>2, BoundAssumption DEF PR
<1> DEFINE n == [t EXCEPT !.stage = "publish", !.body = Len(opened')]
<1>4. /\ n \in Task /\ n.agent = t.agent /\ n.what = "goal" /\ n.stage = "publish"
      /\ n.body \in PR /\ n.batch = t.batch
  BY <1>1, <1>3 DEF Task, Stage
<1>5. TaskOK(n)
  BY <1>1, <1>4 DEF TaskOK, Publishing
<1>6. TaskType'
  BY <1>5, BecomesOK DEF Write
<1>7. AgentType'
  BY <1>3 DEF AgentType, Write
<1>. QED  BY <1>6, <1>7

LEMMA TaskStep ==
  ASSUME TypeInv, Next
  PROVE  TaskType'
<1>0. ClockType /\ QueueType /\ InboxType /\ TaskType /\ AgentType
  BY DEF TypeInv
<1>1. ASSUME UNCHANGED tasks PROVE TaskType'
  BY <1>0, <1>1 DEF TaskType, TaskOK
<1>2. ASSUME NEW t \in tasks, Publish(t) \/ PublishFails(t) \/ Broadcast(t) PROVE TaskType'
  <2>1. t.what # "round" /\ t.stage \in Publishing
    BY <1>0, <1>2 DEF Publish, PublishFails, Broadcast, TaskType, TaskOK, Publishing
  <2>2. \E s \in {"native", "broadcast", "sent"} : At(t, s)
    BY <1>2 DEF Publish, PublishFails, Broadcast
  <2>. QED  BY <1>0, <2>1, <2>2, AtOK DEF Stage, Publishing
<1>3. ASSUME NEW t \in tasks, Published(t) PROVE TaskType'
  <2>1. CASE Ends(t)
    BY <1>0, <2>1, EndsOK
  <2>2. CASE t.what = "review" /\ At(t, "run")
    BY <1>0, <2>2, AtOK DEF Stage
  <2>. QED  BY <1>3, <2>1, <2>2 DEF Published
<1>4. ASSUME NEW s \in Subscription, Poll(s[1], s[2]) \/ Recv(s[1], s[2]) PROVE TaskType'
  <2>1. s[1] \in Agent /\ s[2] \in Topic /\ Listens(s[1], s[2])
    BY AgentAssumption DEF Subscription, Topic, Listens
  <2>2. Letter(s[2]) \subseteq HeardBy(s[1])
    BY <2>1, LetterIsHeard
  <2>3. queues[s[1]][s[2]] \in Seq(HeardBy(s[1])) /\ inbox[s[1]][s[2]] \in Seq(HeardBy(s[1]))
    <3>1. queues[s[1]][s[2]] \in Seq(Letter(s[2])) /\ inbox[s[1]][s[2]] \in Seq(Letter(s[2]))
      BY <1>0, <2>1 DEF QueueType, InboxType
    <3>. QED  BY <2>2, <3>1, LargerSeq
  <2>4. CASE Poll(s[1], s[2])
    <3>1. Round(s[1], queues[s[1]][s[2]]) \in Rest(s[1], queues[s[1]][s[2]])
      BY <2>4 DEF Poll, Rest
    <3>2. TaskOK(Round(s[1], queues[s[1]][s[2]]))
      BY <2>1, <2>3, <3>1, RestOK
    <3> DEFINE new == {Round(s[1], queues[s[1]][s[2]])}
    <3>3. \A n \in new : TaskOK(n)
      BY <3>2
    <3>4. tasks' = tasks \cup new
      BY <2>4 DEF Poll
    <3>. HIDE DEF new
    <3>. QED  BY <1>0, <3>3, <3>4, RoundsOK
  <2>5. CASE Recv(s[1], s[2])
    <3>1. \A n \in Rest(s[1], inbox[s[1]][s[2]]) : TaskOK(n)
      BY <2>1, <2>3, RestOK
    <3>. QED  BY <1>0, <2>5, <3>1, RoundsOK DEF Recv
  <2>. QED  BY <1>4, <2>4, <2>5
<1>5. ASSUME NEW t \in tasks, Skip(t) PROVE TaskType'
  <2>1. t.agent \in Agent /\ Tail(t.batch) \in Seq(HeardBy(t.agent))
    BY <1>0, <1>5, AtMessage DEF Skip
  <2>2. \A n \in Rest(t.agent, Tail(t.batch)) : TaskOK(n)
    BY <2>1, RestOK
  <2>. QED  BY <1>0, <1>5, <2>2, BecomesOK DEF Skip
<1>6. ASSUME NEW t \in tasks, LookUp(t) \/ Think(t) PROVE TaskType'
  <2>1. t.stage \in BeforePR /\ t.what # "round" /\ t.what # "inject" /\ t.what # "review"
    BY <1>6 DEF LookUp, Think, BeforePR
  <2>2. PICK s \in {"think", "write"} : At(t, s)
    BY <1>6 DEF LookUp, Think
  <2>3. s \in Stage /\ s \in BeforePR
    BY DEF Stage, BeforePR
  <2>. QED  BY <1>0, <2>1, <2>2, <2>3, AtOK
<1>7. ASSUME NEW t \in tasks, GoalFails(t) \/ ReviewEnds(t) PROVE TaskType'
  BY <1>0, <1>7, EndsOK DEF GoalFails, ReviewEnds
<1>8. ASSUME NEW t \in tasks, Fetch(t) PROVE TaskType'
  <2>1. t.what = "review" /\ At(t, "publish")
    BY <1>8 DEF Fetch
  <2>. QED  BY <1>0, <2>1, AtOK DEF Stage, Publishing
<1>9. ASSUME NEW g \in Goal, Inject(g) \/ Ask(g) \/ AskAgain(g) PROVE TaskType'
  <2>1. TaskOK(Alone(Gateway, "inject", "publish", g))
    BY AgentAssumption, AloneOK
  <2>2. CASE Inject(g)
    <3> DEFINE new == {Alone(Gateway, "inject", "publish", g)}
    <3>1. tasks' = tasks \cup new /\ \A n \in new : TaskOK(n)
      BY <2>1, <2>2 DEF Inject
    <3>. HIDE DEF new
    <3>. QED  BY <1>0, <3>1, RoundsOK
  <2>3. CASE Ask(g) \/ AskAgain(g)
    <3>1. /\ TaskOK(Called(g, asked'[g]))
          /\ tasks' = tasks \/ tasks' = tasks \cup {Called(g, asked'[g])}
      BY <2>3, AsksOK
    <3>. QED  BY <1>0, <1>1, <3>1, RoundsOK
  <2>. QED  BY <1>9, <2>2, <2>3
<1>10. ASSUME NEW t \in tasks, Works(t) PROVE TaskType'
  BY <1>0, <1>5, <1>6, <1>7, <1>8, <1>10, HandleOK, WriteOK DEF Works
<1>11. ASSUME NEW s \in Subscription, Polls(s[1], s[2]) PROVE TaskType'
  BY <1>1, <1>4, <1>11 DEF Polls, PollFails
<1>. QED  BY <1>1, <1>2, <1>3, <1>9, <1>10, <1>11
          DEF Next, Tick, StillWorks, LoopTakes, Arrives, Misses, Publishes

LEMMA AgentStep ==
  ASSUME TypeInv, Next
  PROVE  AgentType'
<1>0. TaskType /\ AgentType
  BY DEF TypeInv
<1>1. ASSUME UNCHANGED agentVars PROVE AgentType'
  BY <1>0, <1>1 DEF agentVars, AgentType
<1>2. ASSUME UNCHANGED <<opened, activePRs, asked>>, goals' \subseteq goals,
             status' \in {status, "idle", "generating", "reviewing"}
      PROVE  AgentType'
  BY <1>0, <1>2 DEF AgentType
<1>3. ASSUME NEW t \in tasks, HandlePR(t) PROVE AgentType'
  BY <1>0, <1>3, HandleOK DEF HandlePR, AgentType
<1>4. ASSUME NEW t \in tasks, ReviewEnds(t) PROVE AgentType'
  BY <1>0, <1>4 DEF ReviewEnds, AgentType
<1>5. ASSUME NEW t \in tasks, HandleGoal(t) \/ LookUp(t) \/ Think(t) \/ GoalFails(t) PROVE AgentType'
  BY <1>2, <1>5 DEF HandleGoal, LookUp, Think, GoalFails, StatusAfterFailure
<1>6. ASSUME NEW t \in tasks, Published(t) PROVE AgentType'
  BY <1>2, <1>6 DEF Published
<1>7. ASSUME NEW t \in tasks, Works(t) PROVE AgentType'
  BY <1>0, <1>1, <1>3, <1>4, <1>5, <1>7, WriteOK DEF Works, Skip, Fetch
<1>8. ASSUME NEW g \in Goal, Inject(g) PROVE AgentType'
  BY <1>2, <1>8 DEF Inject
<1>9. ASSUME NEW g \in Goal, Ask(g) \/ AskAgain(g) PROVE AgentType'
  <2>1. /\ asked' \in [Goal -> 0 .. Attempts] /\ asked' = [asked EXCEPT ![g] = @ + 1]
        /\ status' \in {status, "generating"}
    BY <1>9, AsksOK
  <2>2. goals' \subseteq goals /\ g \notin goals' /\ UNCHANGED <<opened, activePRs>>
    BY <1>0, <1>9 DEF Ask, AskAgain, AgentType
  <2>3. \A h \in goals' : asked'[h] = 0
    BY <1>0, <2>1, <2>2 DEF AgentType
  <2>. QED  BY <1>0, <2>1, <2>2, <2>3 DEF AgentType
<1>. QED  BY <1>1, <1>6, <1>7, <1>8, <1>9
          DEF Next, Tick, Polls, Poll, PollFails, Recv, StillWorks, LoopTakes, Arrives, Misses,
              Publishes, Publish, PublishFails, Broadcast

LEMMA InitTypeInv == Init => TypeInv
<1>. SUFFICES ASSUME Init PROVE TypeInv
  OBVIOUS
<1>1. ClockType /\ AgentType /\ TaskType /\ WireType
  BY BoundAssumption DEF Init, ClockType, AgentType, TaskType, WireType, Attempts
<1>2. \A S : <<>> \in Seq(S)
  OBVIOUS
<1>3. Len(<<>>) = 0 /\ 0 <= QueueMax /\ 0 <= SeenMax
  BY BoundAssumption
<1>4. QueueType /\ InboxType
  BY <1>2, <1>3 DEF Init, QueueType, InboxType
<1>5. PrintType /\ ClientType
  BY <1>2, <1>3 DEF Init, PrintType, ClientType
<1>. QED  BY <1>1, <1>4, <1>5 DEF TypeInv

LEMMA NextTypeInv == TypeInv /\ [Next]_vars => TypeInv'
<1>1. ASSUME TypeInv, Next PROVE TypeInv'
  BY <1>1, BrokerStep, ClientStep, TaskStep, AgentStep DEF TypeInv
<1>2. ASSUME TypeInv, UNCHANGED vars PROVE TypeInv'
  <2>1. UNCHANGED <<now, faults, queues, prints, inbox, wire, native, seen, tasks, goals, opened, activePRs,
                    status, asked>>
    BY <1>2 DEF vars, brokerVars, clientVars, agentVars
  <2>. QED  BY <1>2, <2>1 DEF TypeInv, ClockType, QueueType, InboxType, PrintType, WireType, ClientType,
                            TaskType, AgentType
<1>. QED  BY <1>1, <1>2

-----------------------------------------------------------------------------
(***************************************************************************)
(* The status of the coder.                                                *)
(***************************************************************************)
BusyTask(t) == t.what = "goal" /\ t.stage \in {"lookup", "think"}

LEMMA SameStatus ==
  ASSUME BusyIsTrue, UNCHANGED status, \A t \in tasks : BusyTask(t) => t \in tasks'
  PROVE  BusyIsTrue'
BY DEF BusyIsTrue, BusyTask

LEMMA OtherTask ==
  ASSUME BusyIsTrue, UNCHANGED status, NEW t \in tasks, ~BusyTask(t), NEW new, Becomes(t, new)
  PROVE  BusyIsTrue'
<1>1. \A u \in tasks : BusyTask(u) => u \in tasks'
  BY DEF Becomes
<1>. QED  BY <1>1, SameStatus

LEMMA IdleStatus ==
  ASSUME status' = "idle"
  PROVE  BusyIsTrue'
BY DEF BusyIsTrue

LEMMA StatusStep ==
  ASSUME TypeInv, BusyIsTrue, Next
  PROVE  BusyIsTrue'
<1>0. TaskType
  BY DEF TypeInv
<1>1. ASSUME UNCHANGED status, tasks \subseteq tasks' PROVE BusyIsTrue'
  BY <1>1, SameStatus
<1>2. ASSUME NEW t \in tasks, Publish(t) \/ PublishFails(t) \/ Broadcast(t) PROVE BusyIsTrue'
  <2>1. ~BusyTask(t) /\ UNCHANGED status
    BY <1>2 DEF Publish, PublishFails, Broadcast, BusyTask, agentVars
  <2>2. \E new : Becomes(t, new)
    BY <1>2 DEF Publish, PublishFails, Broadcast, At
  <2>. QED  BY <2>1, <2>2, OtherTask
<1>3. ASSUME NEW t \in tasks, Published(t) PROVE BusyIsTrue'
  <2>1. ~BusyTask(t) /\ (status' = "idle" \/ UNCHANGED status)
    BY <1>3 DEF Published, BusyTask
  <2>2. \E new : Becomes(t, new)
    BY <1>3 DEF Published, At, Ends
  <2>. QED  BY <2>1, <2>2, OtherTask, IdleStatus
<1>4. ASSUME NEW t \in tasks, Skip(t) \/ HandlePR(t) \/ Fetch(t) \/ ReviewEnds(t) \/ Write(t)
      PROVE  BusyIsTrue'
  <2>1. ~BusyTask(t) /\ UNCHANGED status
    BY <1>4 DEF Skip, HandlePR, Handles, Fetch, ReviewEnds, Write, BusyTask, agentVars
  <2>2. \E new : Becomes(t, new)
    BY <1>4 DEF Skip, HandlePR, Fetch, ReviewEnds, Write, At, Ends
  <2>. QED  BY <2>1, <2>2, OtherTask
<1>5. ASSUME NEW t \in tasks, HandleGoal(t) PROVE BusyIsTrue'
  <2>1. CASE UNCHANGED status
    <3>1. ~BusyTask(t)
      BY <1>5 DEF HandleGoal, Handles, BusyTask
    <3>2. \E new : Becomes(t, new)
      BY <1>5 DEF HandleGoal
    <3>. QED  BY <2>1, <3>1, <3>2, OtherTask
  <2>2. CASE /\ Becomes(t, {Handling(Coder, "goal", "lookup", Head(t.batch), Tail(t.batch))})
             /\ status' = "generating"
    <3> DEFINE n == Handling(Coder, "goal", "lookup", Head(t.batch), Tail(t.batch))
    <3>1. n.what = "goal" /\ n.stage = "lookup"
      BY DEF Handling
    <3>2. n \in tasks' /\ status' = "generating"
      BY <2>2 DEF Becomes
    <3>. HIDE DEF n
    <3>. QED  BY <3>1, <3>2 DEF BusyIsTrue
  <2>. QED  BY <1>5, <2>1, <2>2 DEF HandleGoal
<1>6. ASSUME NEW t \in tasks, LookUp(t) PROVE BusyIsTrue'
  <2>1. t \in Task /\ t.what = "goal"
    BY <1>0, <1>6 DEF TaskType, TaskOK, LookUp
  <2>2. [t EXCEPT !.stage = "think"].what = "goal" /\ [t EXCEPT !.stage = "think"].stage = "think"
    BY <2>1 DEF Task
  <2>3. [t EXCEPT !.stage = "think"] \in tasks' /\ status' = "reviewing"
    BY <1>6 DEF LookUp, At, Becomes
  <2>. QED  BY <2>2, <2>3 DEF BusyIsTrue
<1>7. ASSUME NEW t \in tasks, Think(t) \/ GoalFails(t) PROVE BusyIsTrue'
  BY <1>7, IdleStatus DEF Think, GoalFails, StatusAfterFailure
<1>8. ASSUME NEW g \in Goal, Ask(g) \/ AskAgain(g) PROVE BusyIsTrue'
  <2> DEFINE n == Called(g, asked'[g])
  <2>1. /\ UNCHANGED status \/ (status' = "generating" /\ n \in tasks')
        /\ tasks \subseteq tasks'
    BY <1>8, AsksOK
  <2>2. n.what = "goal" /\ n.stage = "lookup"
    BY DEF Called, Alone
  <2>. HIDE DEF n
  <2>. QED  BY <1>1, <2>1, <2>2 DEF BusyIsTrue
<1>9. ASSUME NEW s \in Subscription, Polls(s[1], s[2]) PROVE BusyIsTrue'
  BY <1>1, <1>9 DEF Polls, Poll, PollFails, Recv, agentVars
<1>10. ASSUME NEW t \in tasks, Works(t) PROVE BusyIsTrue'
  BY <1>4, <1>5, <1>6, <1>7, <1>10 DEF Works
<1>11. ASSUME NEW t \in tasks, Publishes(t) PROVE BusyIsTrue'
  BY <1>2, <1>3, <1>11 DEF Publishes
<1>. QED  BY <1>1, <1>8, <1>9, <1>10, <1>11
          DEF Next, Tick, StillWorks, LoopTakes, Arrives, Misses, Inject, agentVars

-----------------------------------------------------------------------------
(***************************************************************************)
(* The theorems.                                                           *)
(***************************************************************************)

(* The inductive invariant: types, with what a message and a task are      *)
(* about, and the status of the coder.                                     *)
IInv == TypeInv /\ BusyIsTrue

THEOREM Invariance == Spec => []IInv
<1>1. Init => IInv
  <2>1. Init => BusyIsTrue
    BY DEF Init, BusyIsTrue
  <2>. QED  BY <2>1, InitTypeInv DEF IInv
<1>2. IInv /\ [Next]_vars => IInv'
  <2>1. ASSUME IInv, Next PROVE IInv'
    BY <2>1, NextTypeInv, StatusStep DEF IInv
  <2>2. ASSUME IInv, UNCHANGED vars PROVE IInv'
    <3>1. TypeInv' /\ UNCHANGED <<tasks, status>>
      BY <2>2, NextTypeInv DEF IInv, vars, agentVars
    <3>. QED  BY <2>2, <3>1 DEF IInv, BusyIsTrue
  <2>. QED  BY <2>1, <2>2
<1>. QED  BY <1>1, <1>2, PTL DEF Spec

(* Every variable keeps its type and no queue of the brokers, nor the      *)
(* memory of the listeners, exceeds its limit.                             *)
THEOREM TypeCorrect == Spec => []TypeOK
<1>1. IInv => TypeOK
  <2>. SUFFICES ASSUME TypeInv PROVE TypeOK
    BY DEF IInv
  <2>1. \A w \in wire : w.msg \in Message /\ w.to \in Agent /\ w.way \in {"native", "sent"}
    <3>1. \A t \in Topic : \A w \in Sending(t) :
            w.msg \in Message /\ w.to \in Agent /\ w.way \in {"native", "sent"}
      BY LetterIsMessage DEF Sending
    <3>. QED  BY <3>1 DEF TypeInv, WireType
  <2>2. \A t \in tasks : /\ t.agent \in Agent /\ t.stage \in Stage
                         /\ t.batch \in Seq(Message) /\ (t.what = "round" => t.batch # <<>>)
    BY DEF TypeInv, TaskType, TaskOK, Task
  <2>3. \A a \in Agent : \A t \in Topic :
          queues[a][t] \in Seq(Message) /\ Len(queues[a][t]) <= QueueMax /\ inbox[a][t] \in Seq(Message)
    BY DEF TypeInv, QueueType, InboxType
  <2>4. \A a \in Agent : /\ Len(seen[a]) <= SeenMax
                         /\ prints[a] \cup Range(seen[a]) \subseteq Agent \X Topic \X (0 .. MaxTime)
    <3>1. \A q \in Seq(Prints) : Range(q) \subseteq Prints
      BY DEF Range
    <3>. QED  BY <3>1 DEF TypeInv, PrintType, ClientType, Prints
  <2>. QED  BY <2>1, <2>2, <2>3, <2>4 DEF TypeInv, ClockType, ClientType, AgentType, TypeOK
<1>. QED  BY <1>1, Invariance, PTL

(* A coder that says it is busy has a goal that it is busy with.           *)
THEOREM BusyTruthful == Spec => []BusyIsTrue
<1>1. IInv => BusyIsTrue
  BY DEF IInv
<1>. QED  BY <1>1, Invariance, PTL

=============================================================================
