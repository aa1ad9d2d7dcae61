--------------------------- MODULE AgentMeshProofs ---------------------------
(***************************************************************************)
(* Proofs about AgentMesh, for any agents, any calls, any nesting of       *)
(* debates that DebateAssumption allows, and any number of faults.  That   *)
(* calls end is a matter of fairness and stays with TLC.                   *)
(***************************************************************************)
EXTENDS AgentMesh, TLAPS

(***************************************************************************)
(* What a step does to the promises of calls.                              *)
(***************************************************************************)
Promises == Settled \cup {"none", "pending"}
Sendings == {"none", "sending", "sent", "threw"}

CallType ==
  /\ promise \in [Call -> Promises] /\ sending \in [Call -> Sendings]
  /\ copies \in [Call -> 0 .. 2] /\ order \in Seq(Call)

RunType ==
  /\ inbox \subseteq Message /\ handler \in [Handler -> Stage]
  /\ debated \in [Handler -> Nat] /\ \A h \in Handler : debated[h] <= Len(DebatesOf(h))
  /\ native \in [Agent -> BOOLEAN] /\ alive \subseteq Agent /\ faults \in 0 .. MaxFaults

OrderIsInjective == \A i, j \in DOMAIN order : order[i] = order[j] => i = j

LEMMA TypeParts == TypeOK <=> CallType /\ RunType /\ OrderIsInjective
BY DEF TypeOK, CallType, RunType, OrderIsInjective, Promises, Sendings

LEMMA DebatesAreCalls ==
  ASSUME NEW h \in Handler
  PROVE  /\ h[1] \in Call /\ h[2] \in Copy /\ h = <<h[1], h[2]>>
         /\ DebatesOf(h) \in Seq(Call)
         /\ \A i \in 1 .. Len(DebatesOf(h)) : DebatesOf(h)[i] \in Call
<1>1. h[1] \in Call /\ h[2] \in Copy /\ h = <<h[1], h[2]>>
  BY DEF Handler
<1>2. DebatesOf(h) \in Seq(Call)
  BY <1>1, CallAssumption DEF DebatesOf
<1>. QED  BY <1>1, <1>2

(* A promise is made, settled, or left alone.                              *)
SettlesSome ==
  /\ promise' \in [Call -> Promises]
  /\ \A c \in Call : promise'[c] = promise[c] \/ (Pending(c) /\ promise'[c] \in Settled)
  /\ UNCHANGED <<sending, copies, order>>

LEMMA ReceiveSettles ==
  ASSUME CallType, RunType, NEW m \in inbox, Receive(m)
  PROVE  SettlesSome
<1>1. m \in Message
  BY DEF RunType
<1>2. m[1] \in {"call", "answer", "error"} /\ m[2] \in Handler
  BY <1>1 DEF Message
<1>3. m[2][1] \in Call
  BY <1>2, DebatesAreCalls
<1>4. CASE Settles(m)
  <2>1. promise' = [promise EXCEPT ![m[2][1]] = m[1]] /\ Pending(m[2][1])
    BY <1>4 DEF Receive, Route, Settles
  <2>2. m[1] \in Settled
    BY <1>2, <1>4 DEF Settles, Routed, Settled
  <2>. QED  BY <1>3, <2>1, <2>2 DEF SettlesSome, CallType, Promises, Receive
<1>5. CASE ~Settles(m)
  BY <1>5 DEF Receive, Route, SettlesSome, CallType
<1>. QED  BY <1>4, <1>5

LEMMA TimeoutSettles ==
  ASSUME CallType, NEW c \in Call, Timeout(c)
  PROVE  SettlesSome
BY DEF Timeout, SettlesSome, CallType, Promises, Settled

LEMMA StopSettles ==
  ASSUME CallType, NEW a \in Agent, Stop(a)
  PROVE  SettlesSome
BY DEF Stop, SettlesSome, CallType, Promises, Settled

(* The steps that leave all calls as they are.                             *)
LEMMA OtherSteps ==
  ASSUME NEW h, NEW a, Thinks(h) \/ DebateOver(h) \/ Answer(h) \/ Throw(h) \/ BatchLost(a)
                         \/ GossipFails(a) \/ GossipWorks(a) \/ GossipDrains(a) \/ ConvergecastDrains
  PROVE  UNCHANGED callVars
BY Zenon DEF Thinks, DebateOver, Answer, Throw, BatchLost, GossipFails, GossipWorks, GossipDrains, ConvergecastDrains

(* The steps of the whole, as far as calls are concerned.                  *)
LEMMA CallCases ==
  ASSUME CallType, RunType, [Next]_vars
  PROVE  \/ \E c \in Call : Begin(c)
         \/ \E h \in Handler : Debate(h)
         \/ \E c \in Call : Deliver(c)
         \/ \E c \in Call : Ends(c)
         \/ SettlesSome
<1>1. UNCHANGED callVars => SettlesSome
  BY DEF callVars, SettlesSome, CallType
<1>. QED
  BY <1>1, ReceiveSettles, TimeoutSettles, StopSettles, OtherSteps DEF Next, Runs, vars

(* The call that a handler registers.                                      *)
LEMMA DebateRegisters ==
  ASSUME RunType, NEW h \in Handler, Debate(h)
  PROVE  \E i \in DOMAIN DebatesOf(h) :
           DebatesOf(h)[i] \in Call /\ i = debated[h] + 1 /\ Register(DebatesOf(h)[i]) /\ UNCHANGED copies
<1>1. debated[h] + 1 \in 1 .. Len(DebatesOf(h)) /\ DOMAIN DebatesOf(h) = 1 .. Len(DebatesOf(h))
  BY DebatesAreCalls DEF Debate, RunType
<1>. QED  BY <1>1, DebatesAreCalls DEF Debate

LEMMA CallTyped ==
  ASSUME CallType, RunType, [Next]_vars
  PROVE  CallType'
<1>1. ASSUME NEW c \in Call, Register(c), UNCHANGED copies PROVE CallType'
  BY <1>1 DEF Register, CallType, Promises, Sendings
<1>2. ASSUME NEW c \in Call, Deliver(c) PROVE CallType'
  BY <1>2 DEF Deliver, CallType
<1>3. ASSUME NEW c \in Call, Ends(c) PROVE CallType'
  BY <1>3 DEF Ends, SendEnds, CallType, Sendings
<1>4. ASSUME SettlesSome PROVE CallType'
  BY <1>4 DEF SettlesSome, CallType
<1>. QED  BY <1>1, <1>2, <1>3, <1>4, CallCases, DebateRegisters DEF Begin

(* Every registered call is in the order of timers, once, and no other.    *)
Registered(c) == \E i \in DOMAIN order : order[i] = c

BookInv ==
  /\ OrderIsInjective
  /\ \A c \in Call : Registered(c) <=> promise[c] # "none"
  /\ \A c \in Call : promise[c] = "none" => sending[c] = "none" /\ copies[c] = 0

LEMMA BookStep ==
  ASSUME CallType, RunType, BookInv, [Next]_vars
  PROVE  BookInv'
<1>1. ASSUME NEW c \in Call, Register(c), UNCHANGED copies PROVE BookInv'
  <2>1. /\ promise[c] = "none" /\ promise' = [promise EXCEPT ![c] = "pending"]
        /\ sending' = [sending EXCEPT ![c] = "sending"]
        /\ order' = Append(order, c) /\ order \in Seq(Call)
    BY <1>1 DEF Register, CallType
  <2>2. /\ DOMAIN order' = 1 .. (Len(order) + 1) /\ DOMAIN order = 1 .. Len(order) /\ Len(order) \in Nat
        /\ \A i \in DOMAIN order : order'[i] = order[i]
        /\ order'[Len(order) + 1] = c
    BY <2>1
  <2>3. \A i \in DOMAIN order : order[i] # c
    BY <2>1 DEF BookInv, Registered
  <2>4. OrderIsInjective'
    BY <2>2, <2>3 DEF BookInv, OrderIsInjective
  <2>5. Registered(c)' /\ \A d \in Call : d # c => (Registered(d)' <=> Registered(d))
    BY <2>2 DEF Registered
  <2>6. \A d \in Call : Registered(d)' <=> promise'[d] # "none"
    BY <2>1, <2>5 DEF BookInv, CallType
  <2>7. \A d \in Call : promise'[d] = "none" => sending'[d] = "none" /\ copies'[d] = 0
    BY <1>1, <2>1 DEF BookInv, CallType
  <2>. QED  BY <2>4, <2>6, <2>7 DEF BookInv
<1>2. ASSUME NEW c \in Call, Deliver(c) PROVE BookInv'
  BY <1>2 DEF Deliver, BookInv, CallType, OrderIsInjective, Registered
<1>3. ASSUME NEW c \in Call, Ends(c) PROVE BookInv'
  BY <1>3 DEF Ends, SendEnds, BookInv, CallType, OrderIsInjective, Registered
<1>4. ASSUME SettlesSome PROVE BookInv'
  <2>1. UNCHANGED <<sending, copies, order>> /\ \A c \in Call : promise'[c] = "none" <=> promise[c] = "none"
    BY <1>4 DEF SettlesSome, Pending, Settled
  <2>. QED  BY <2>1 DEF BookInv, OrderIsInjective, Registered
<1>. QED  BY <1>1, <1>2, <1>3, <1>4, CallCases, DebateRegisters DEF Begin

(***************************************************************************)
(* What a step does to handlers and messages.                              *)
(***************************************************************************)
(* Messages may be lost at any time, and nothing else happens with them.   *)
LosesSome == inbox' \subseteq inbox /\ UNCHANGED <<callVars, handler, debated, alive>>

LEMMA LosingSteps ==
  ASSUME NEW a, BatchLost(a) \/ GossipFails(a) \/ GossipWorks(a) \/ GossipDrains(a) \/ ConvergecastDrains
  PROVE  LosesSome
<1>1. CASE BatchLost(a)
  BY <1>1 DEF BatchLost, LosesSome
<1>2. CASE GossipFails(a)
  BY <1>2 DEF GossipFails, LosesSome
<1>3. CASE GossipWorks(a)
  BY <1>3 DEF GossipWorks, LosesSome
<1>4. CASE GossipDrains(a)
  BY <1>4 DEF GossipDrains, LosesSome
<1>5. CASE ConvergecastDrains
  BY <1>5 DEF ConvergecastDrains, LosesSome
<1>. QED  BY <1>1, <1>2, <1>3, <1>4, <1>5

(* A run ends with or without a reply.                                     *)
Finishes(h) ==
  /\ handler' = [handler EXCEPT ![h] = "done"]
  /\ inbox \subseteq inbox' /\ inbox' \subseteq inbox \cup {<<"answer", h>>, <<"error", h>>}
  /\ UNCHANGED <<callVars, debated, native, alive>>

LEMMA FinishingSteps ==
  ASSUME NEW h \in Handler, Answer(h) \/ Throw(h)
  PROVE  Finishes(h)
<1>1. CASE Answer(h)
  BY <1>1 DEF Answer, Finishes
<1>2. CASE Throw(h)
  BY <1>2 DEF Throw, Finishes
<1>. QED  BY <1>1, <1>2

LEMMA FaultsTyped ==
  ASSUME RunType
  PROVE  /\ Faulty => faults' \in 0 .. MaxFaults
         /\ faults' = faults => faults' \in 0 .. MaxFaults
BY FaultAssumption DEF Faulty, RunType

LEMMA NextFaults ==
  ASSUME RunType, [Next]_vars
  PROVE  faults' \in 0 .. MaxFaults
<1>1. Faulty \/ UNCHANGED faults
  BY DEF Next, Begin, Deliver, Ends, SendEnds, Timeout, Receive, Runs, Thinks, Debate, DebateOver, Answer, Throw,
         BatchLost, GossipFails, GossipWorks, GossipDrains, Stop, ConvergecastDrains, vars
<1>. QED  BY <1>1, FaultsTyped

LEMMA NextFlags ==
  ASSUME RunType, [Next]_vars
  PROVE  native' \in [Agent -> BOOLEAN] /\ alive' \subseteq Agent
<1>1. native' \in [Agent -> BOOLEAN]
  <2>1. UNCHANGED native \/ \E a \in Agent, b \in BOOLEAN : native' = [native EXCEPT ![a] = b]
    BY Zenon DEF Next, Begin, Deliver, Ends, SendEnds, Timeout, Receive, Runs, Thinks, Debate, DebateOver, Answer, Throw,
         BatchLost, GossipFails, GossipWorks, GossipDrains, Stop, ConvergecastDrains, vars
  <2>. QED  BY <2>1 DEF RunType
<1>2. alive' \subseteq alive
  BY DEF Next, Begin, Deliver, Ends, SendEnds, Timeout, Receive, Runs, Thinks, Debate, DebateOver, Answer, Throw,
         BatchLost, GossipFails, GossipWorks, GossipDrains, Stop, ConvergecastDrains, vars
<1>. QED  BY <1>1, <1>2 DEF RunType

(* The steps of the whole, as far as runs and messages are concerned.      *)
LEMMA RunCases ==
  ASSUME [Next]_vars
  PROVE  \/ UNCHANGED <<inbox, handler, debated>>
         \/ \E c \in Call : Deliver(c)
         \/ \E m \in inbox : Receive(m)
         \/ \E h \in Handler : Thinks(h)
         \/ \E h \in Handler : Debate(h)
         \/ \E h \in Handler : DebateOver(h)
         \/ \E h \in Handler : Finishes(h) /\ (Answer(h) \/ Throw(h))
         \/ LosesSome
<1>1. ASSUME NEW c \in Call, Begin(c) \/ Ends(c) \/ Timeout(c) PROVE UNCHANGED <<inbox, handler, debated>>
  BY <1>1 DEF Begin, Ends, SendEnds, Timeout
<1>2. ASSUME NEW a \in Agent, Stop(a) PROVE UNCHANGED <<inbox, handler, debated>>
  BY <1>2 DEF Stop
<1>3. CASE UNCHANGED vars
  BY <1>3 DEF vars
<1>. QED  BY <1>1, <1>2, <1>3, LosingSteps, FinishingSteps DEF Next, Runs

LEMMA RunTyped ==
  ASSUME CallType, RunType, [Next]_vars
  PROVE  RunType'
<1> DEFINE RT == /\ inbox' \subseteq Message /\ handler' \in [Handler -> Stage]
                 /\ debated' \in [Handler -> Nat]
                 /\ \A h \in Handler : debated'[h] <= Len(DebatesOf(h))
<1>0. /\ inbox \subseteq Message /\ handler \in [Handler -> Stage] /\ debated \in [Handler -> Nat]
      /\ \A h \in Handler : debated[h] <= Len(DebatesOf(h))
  BY DEF RunType
<1>1. ASSUME UNCHANGED <<inbox, handler, debated>> PROVE RT
  BY <1>0, <1>1
<1>2. ASSUME NEW c \in Call, Deliver(c) PROVE RT
  <2>1. copies'[c] \in Copy
    BY <1>2 DEF Deliver, CallType, Copy
  <2>2. <<c, copies'[c]>> \in Handler
    BY <2>1 DEF Handler
  <2>3. <<"call", <<c, copies'[c]>>>> \in Message
    BY <2>2 DEF Message
  <2>. QED  BY <1>0, <1>2, <2>3 DEF Deliver
<1>3. ASSUME NEW m \in inbox, Receive(m) PROVE RT
  BY <1>0, <1>3 DEF Receive, Stage
<1>4. ASSUME NEW h \in Handler, Thinks(h) \/ DebateOver(h) PROVE RT
  BY <1>0, <1>4 DEF Thinks, DebateOver, Stage
<1>5. ASSUME NEW h \in Handler, Debate(h) PROVE RT
  <2>1. Len(DebatesOf(h)) \in Nat
    BY DebatesAreCalls
  <2>. QED  BY <1>0, <1>5, <2>1 DEF Debate, Stage
<1>6. ASSUME NEW h \in Handler, Finishes(h) PROVE RT
  <2>1. <<"answer", h>> \in Message /\ <<"error", h>> \in Message
    BY DEF Message
  <2>. QED  BY <1>0, <1>6, <2>1 DEF Finishes, Stage
<1>7. ASSUME LosesSome PROVE RT
  BY <1>0, <1>7 DEF LosesSome
<1>8. RT
  BY <1>1, <1>2, <1>3, <1>4, <1>5, <1>6, <1>7, RunCases
<1>. QED  BY <1>8, NextFaults, NextFlags DEF RunType, DebatesOf

(* A run of a handler belongs to a delivered copy of a registered call: it *)
(* has not begun while its message waits, and is done when it has replied. *)
DeliveredInv ==
  \A h \in Handler :
    /\ <<"call", h>> \in inbox => handler[h] = "none" /\ h[2] <= copies[h[1]]
    /\ handler[h] # "none" => h[2] <= copies[h[1]]
    /\ <<"answer", h>> \in inbox => handler[h] = "done"

LEMMA DeliveredStep ==
  ASSUME CallType, RunType, DeliveredInv, [Next]_vars
  PROVE  DeliveredInv'
<1> SUFFICES ASSUME NEW h \in Handler
             PROVE  /\ <<"call", h>> \in inbox' => handler'[h] = "none" /\ h[2] <= copies'[h[1]]
                    /\ handler'[h] # "none" => h[2] <= copies'[h[1]]
                    /\ <<"answer", h>> \in inbox' => handler'[h] = "done"
  BY DEF DeliveredInv
<1>0. /\ h[1] \in Call /\ h[2] \in Copy /\ h = <<h[1], h[2]>>
      /\ handler \in [Handler -> Stage] /\ copies \in [Call -> 0 .. 2]
      /\ (<<"call", h>> \in inbox => handler[h] = "none" /\ h[2] <= copies[h[1]])
      /\ (handler[h] # "none" => h[2] <= copies[h[1]])
      /\ (<<"answer", h>> \in inbox => handler[h] = "done")
  BY DebatesAreCalls DEF DeliveredInv, CallType, RunType
<1>1. ASSUME NEW c \in Call, Deliver(c)
      PROVE  /\ <<"call", h>> \in inbox' => handler'[h] = "none" /\ h[2] <= copies'[h[1]]
             /\ handler'[h] # "none" => h[2] <= copies'[h[1]]
             /\ <<"answer", h>> \in inbox' => handler'[h] = "done"
  <2>1. /\ handler' = handler /\ copies' = [copies EXCEPT ![c] = @ + 1]
        /\ inbox' = inbox \cup {<<"call", <<c, copies'[c]>>>>}
    BY <1>1 DEF Deliver
  <2>2. copies'[c] = copies[c] + 1 /\ copies[h[1]] <= copies'[h[1]] /\ copies'[h[1]] \in Nat /\ copies[h[1]] \in Nat
    BY <1>0, <2>1
  <2>3. <<"call", h>> \in inbox' => <<"call", h>> \in inbox \/ h = <<c, copies'[c]>>
    BY <2>1
  <2>4. h = <<c, copies'[c]>> => handler[h] = "none" /\ h[2] <= copies'[h[1]]
    BY <1>0, <2>2
  <2>. QED  BY <1>0, <2>1, <2>2, <2>3, <2>4 DEF Copy
<1>2. CASE UNCHANGED copies
  <2>1. ASSUME NEW m \in inbox, Receive(m)
        PROVE  /\ <<"call", h>> \in inbox' => handler'[h] = "none" /\ h[2] <= copies'[h[1]]
               /\ handler'[h] # "none" => h[2] <= copies'[h[1]]
               /\ <<"answer", h>> \in inbox' => handler'[h] = "done"
    <3>1. m \in Message
      BY DEF RunType
    <3>2. m = <<m[1], m[2]>> /\ m[2] \in Handler
      BY <3>1 DEF Message
    <3>3. inbox' = inbox \ {m}
      BY <2>1 DEF Receive
    <3>4. CASE m[1] = "call" /\ m[2] = h
      <4>1. m = <<"call", h>> /\ handler' = [handler EXCEPT ![h] = "thinking"]
        BY <2>1, <3>2, <3>4 DEF Receive
      <4>. QED  BY <1>0, <1>2, <3>3, <4>1
    <3>5. CASE ~(m[1] = "call" /\ m[2] = h)
      <4>1. handler'[h] = handler[h]
        BY <1>0, <2>1, <3>2, <3>5 DEF Receive
      <4>. QED  BY <1>0, <1>2, <3>3, <4>1
    <3>. QED  BY <3>4, <3>5
  <2>2. ASSUME NEW g \in Handler, handler[g] # "none", handler[g] # "done",
               inbox' = inbox, \E s \in Stage \ {"none"} : handler' = [handler EXCEPT ![g] = s]
        PROVE  /\ <<"call", h>> \in inbox' => handler'[h] = "none" /\ h[2] <= copies'[h[1]]
               /\ handler'[h] # "none" => h[2] <= copies'[h[1]]
               /\ <<"answer", h>> \in inbox' => handler'[h] = "done"
    BY <1>0, <1>2, <2>2
  <2>3. ASSUME NEW g \in Handler, handler[g] # "none", Finishes(g)
        PROVE  /\ <<"call", h>> \in inbox' => handler'[h] = "none" /\ h[2] <= copies'[h[1]]
               /\ handler'[h] # "none" => h[2] <= copies'[h[1]]
               /\ <<"answer", h>> \in inbox' => handler'[h] = "done"
    <3>1. /\ handler' = [handler EXCEPT ![g] = "done"]
          /\ inbox' \subseteq inbox \cup {<<"answer", g>>, <<"error", g>>}
      BY <2>3 DEF Finishes
    <3>2. /\ <<"call", h>> \in inbox' => <<"call", h>> \in inbox
          /\ <<"answer", h>> \in inbox' => <<"answer", h>> \in inbox \/ h = g
      BY <3>1
    <3>. QED  BY <1>0, <1>2, <2>3, <3>1, <3>2
  <2>4. ASSUME LosesSome \/ UNCHANGED <<inbox, handler, debated>>
        PROVE  /\ <<"call", h>> \in inbox' => handler'[h] = "none" /\ h[2] <= copies'[h[1]]
               /\ handler'[h] # "none" => h[2] <= copies'[h[1]]
               /\ <<"answer", h>> \in inbox' => handler'[h] = "done"
    BY <1>0, <1>2, <2>4 DEF LosesSome
  <2>5. ASSUME NEW g \in Handler, Thinks(g) \/ DebateOver(g) \/ Debate(g)
        PROVE  /\ handler[g] # "none" /\ handler[g] # "done" /\ inbox' = inbox
               /\ \E s \in Stage \ {"none"} : handler' = [handler EXCEPT ![g] = s]
    BY <2>5 DEF Thinks, DebateOver, Debate, Stage
  <2>6. ASSUME NEW g \in Handler, Answer(g) \/ Throw(g) PROVE handler[g] # "none"
    BY <2>6 DEF Answer, MayAnswer, Throw
  <2>7. ASSUME NEW c \in Call, Deliver(c) PROVE FALSE
    BY <1>2, <2>7 DEF Deliver, CallType
  <2>. QED  BY <2>1, <2>2, <2>3, <2>4, <2>5, <2>6, <2>7, RunCases
<1>3. UNCHANGED copies \/ \E c \in Call : Deliver(c)
  BY CallCases, DebateRegisters DEF Begin, Ends, SendEnds, SettlesSome
<1>. QED  BY <1>1, <1>2, <1>3

(***************************************************************************)
(* The order of timers.                                                    *)
(***************************************************************************)
(* A debate is registered after the scan that it is part of.               *)
Before(c, d) == \E i, j \in DOMAIN order : i < j /\ order[i] = c /\ order[j] = d

NestedInv == \A c, d \in Call : MadeBy(d, c) /\ promise[d] # "none" => Before(c, d)

(* A call is made by one handler only, and none of those of Root by any.   *)
LEMMA OneMaker ==
  ASSUME NEW h \in Handler, NEW i \in DOMAIN DebatesOf(h), NEW c \in Call, MadeBy(DebatesOf(h)[i], c)
  PROVE  c = h[1]
<1>1. PICK n \in Copy : \E j \in DOMAIN Debates[c][n] : Debates[c][n][j] = DebatesOf(h)[i]
  BY DEF MadeBy
<1>2. PICK j \in DOMAIN Debates[c][n] : Debates[c][n][j] = Debates[h[1]][h[2]][i]
  BY <1>1 DEF DebatesOf
<1>3. i \in DOMAIN Debates[h[1]][h[2]] /\ h[1] \in Call /\ h[2] \in Copy
  BY DebatesAreCalls DEF DebatesOf
<1>. QED  BY <1>2, <1>3, DebateAssumption

LEMMA RootsAreNotMade ==
  ASSUME NEW d \in Root, NEW c \in Call
  PROVE  ~MadeBy(d, c)
BY DebateAssumption, CallAssumption

LEMMA DebatesAreChallenges ==
  ASSUME NEW c \in Call, NEW d \in Call, MadeBy(d, c)
  PROVE  Service[d] = "exploit-challenge" /\ Service[d] \notin Scans
BY DebateAssumption DEF Scans

LEMMA NestedStep ==
  ASSUME CallType, RunType, BookInv, DeliveredInv, NestedInv, [Next]_vars
  PROVE  NestedInv'
<1> SUFFICES ASSUME NEW c \in Call, NEW d \in Call, MadeBy(d, c), promise'[d] # "none"
             PROVE  Before(c, d)'
  BY DEF NestedInv, MadeBy
<1>1. ASSUME NEW e \in Call, Register(e), e = d => Registered(c)
      PROVE  Before(c, d)'
  <2>1. /\ promise' = [promise EXCEPT ![e] = "pending"] /\ promise[e] = "none"
        /\ order' = Append(order, e) /\ order \in Seq(Call)
    BY <1>1 DEF Register, CallType
  <2>2. /\ DOMAIN order' = 1 .. (Len(order) + 1) /\ DOMAIN order = 1 .. Len(order) /\ Len(order) \in Nat
        /\ \A i \in DOMAIN order : order'[i] = order[i] /\ i < Len(order) + 1
        /\ order'[Len(order) + 1] = e
    BY <2>1
  <2>3. CASE e = d
    BY <1>1, <2>2, <2>3 DEF Registered, Before
  <2>4. CASE e # d
    <3>1. promise[d] # "none"
      BY <2>1, <2>4 DEF CallType
    <3>2. Before(c, d)
      BY <3>1 DEF NestedInv
    <3>. QED  BY <2>2, <3>2 DEF Before
  <2>. QED  BY <2>3, <2>4
<1>2. ASSUME NEW e \in Call, Begin(e) PROVE Before(c, d)'
  <2>1. e \in Root /\ Register(e)
    BY <1>2 DEF Begin
  <2>. QED  BY <1>1, <2>1, RootsAreNotMade
<1>3. ASSUME NEW h \in Handler, Debate(h) PROVE Before(c, d)'
  <2>1. PICK i \in DOMAIN DebatesOf(h) : DebatesOf(h)[i] \in Call /\ Register(DebatesOf(h)[i])
    BY <1>3, DebateRegisters
  <2>2. handler[h] # "none"
    BY <1>3 DEF Debate
  <2>3. copies[h[1]] # 0 /\ h[1] \in Call
    <3>1. h[2] \in 1 .. 2 /\ h[1] \in Call
      BY DebatesAreCalls DEF Copy
    <3>2. h[2] <= copies[h[1]]
      BY <2>2 DEF DeliveredInv
    <3>. QED  BY <3>1, <3>2
  <2>4. Registered(h[1])
    BY <2>3 DEF BookInv
  <2>5. DebatesOf(h)[i] = d => c = h[1]
    BY OneMaker
  <2>. QED  BY <1>1, <2>1, <2>4, <2>5
<1>4. ASSUME UNCHANGED order, promise[d] # "none" PROVE Before(c, d)'
  BY <1>4 DEF NestedInv, Before
<1>5. ASSUME NEW e \in Call, Deliver(e) \/ Ends(e) PROVE UNCHANGED <<order, promise>>
  BY <1>5 DEF Deliver, Ends, SendEnds
<1>6. ASSUME SettlesSome PROVE UNCHANGED order /\ promise[d] # "none"
  BY <1>6 DEF SettlesSome, Pending
<1>. QED  BY <1>2, <1>3, <1>4, <1>5, <1>6, CallCases

LEMMA OutlivesStep ==
  ASSUME CallType, RunType, BookInv, NestedInv, DebateOutlivesScan, [Next]_vars
  PROVE  DebateOutlivesScan'
<1> SUFFICES ASSUME NEW c \in Call, NEW d \in Call, MadeBy(d, c), promise'[d] = "timeout"
             PROVE  promise'[c] # "pending"
  BY DEF DebateOutlivesScan, MadeBy, Pending
<1>0. promise \in [Call -> Promises] /\ (promise[d] # "none" => promise[c] # "none")
  BY DEF CallType, NestedInv, Before, BookInv, Registered
<1>1. ASSUME NEW e \in Call, Register(e) PROVE promise'[c] # "pending"
  <2>1. promise' = [promise EXCEPT ![e] = "pending"] /\ promise[e] = "none"
    BY <1>1 DEF Register
  <2>2. promise[d] = "timeout"
    BY <1>0, <2>1
  <2>3. promise[c] # "pending" /\ promise[c] # "none"
    BY <1>0, <2>2 DEF DebateOutlivesScan, Pending
  <2>. QED  BY <1>0, <2>1, <2>3
<1>2. ASSUME UNCHANGED promise PROVE promise'[c] # "pending"
  BY <1>2 DEF DebateOutlivesScan, Pending
<1>3. ASSUME SettlesSome, promise[d] = "timeout" PROVE promise'[c] # "pending"
  <2>1. promise[c] # "pending"
    BY <1>3 DEF DebateOutlivesScan, Pending
  <2>. QED  BY <1>3, <2>1 DEF SettlesSome, Pending, Settled
<1>4. ASSUME NEW e \in Call, Timeout(e) PROVE promise'[c] # "pending"
  <2>1. /\ promise' = [promise EXCEPT ![e] = "timeout"] /\ TimerFirst(e)
    BY <1>4 DEF Timeout
  <2>2. CASE promise[d] = "timeout"
    BY <1>3, <1>4, <2>2, TimeoutSettles
  <2>3. CASE promise[d] # "timeout"
    <3>1. e = d /\ promise[d] = "pending"
      BY <1>0, <1>4, <2>1, <2>3 DEF Timeout, Pending
    <3>2. Before(c, d)
      BY <3>1 DEF NestedInv
    <3>3. promise[c] # "pending"
      BY <2>1, <3>1, <3>2 DEF TimerFirst, Before, Pending
    <3>. QED  BY <1>0, <2>1, <3>3
  <2>. QED  BY <2>2, <2>3
<1>5. ASSUME NEW m \in inbox, Receive(m) PROVE SettlesSome /\ promise[d] = "timeout"
  <2>1. m \in Message
    BY DEF RunType
  <2>2. m[1] \in {"call", "answer", "error"} /\ m[2] \in Handler
    BY <2>1 DEF Message
  <2>3. promise' = promise \/ (promise' = [promise EXCEPT ![m[2][1]] = m[1]])
    BY <1>5 DEF Receive, Route
  <2>. QED  BY <1>0, <1>5, <2>2, <2>3, ReceiveSettles
<1>6. ASSUME NEW a \in Agent, Stop(a) PROVE SettlesSome /\ promise[d] = "timeout"
  BY <1>0, <1>6, StopSettles DEF Stop
<1>7. ASSUME NEW e \in Call, Deliver(e) \/ Ends(e) PROVE UNCHANGED promise
  BY <1>7 DEF Deliver, Ends, SendEnds
<1>8. ASSUME NEW e \in Call, Begin(e) PROVE Register(e)
  BY <1>8 DEF Begin
<1>9. ASSUME NEW h \in Handler, Debate(h) PROVE \E e \in Call : Register(e)
  BY <1>9, DebateRegisters
<1>10. UNCHANGED callVars => UNCHANGED promise
  BY DEF callVars
<1>. QED
  BY <1>1, <1>2, <1>3, <1>4, <1>5, <1>6, <1>7, <1>8, <1>9, <1>10, OtherSteps DEF Next, Runs, vars

(***************************************************************************)
(* Answers.                                                                *)
(***************************************************************************)
(* How a promise comes to be answered.                                     *)
LEMMA AnsweredBy ==
  ASSUME CallType, RunType, DeliveredInv, [Next]_vars,
         NEW c \in Call, promise'[c] = "answer", promise[c] # "answer"
  PROVE  /\ Service[c] \in Scans /\ Pending(c)
         /\ \E h \in Handler : h[1] = c /\ handler[h] = "done"
         /\ UNCHANGED <<handler, debated, sending>>
         /\ \A d \in Call : promise'[d] = "timeout" => promise[d] = "timeout"
<1>0. promise \in [Call -> Promises]
  BY DEF CallType
<1>1. ASSUME NEW e \in Call, Register(e) PROVE FALSE
  BY <1>0, <1>1 DEF Register
<1>2. ASSUME NEW e \in Call, Timeout(e) PROVE FALSE
  BY <1>0, <1>2 DEF Timeout
<1>3. ASSUME NEW a \in Agent, Stop(a) PROVE FALSE
  BY <1>0, <1>3 DEF Stop
<1>4. ASSUME UNCHANGED promise PROVE FALSE
  BY <1>4
<1>5. ASSUME NEW m \in inbox, Receive(m)
      PROVE  /\ Service[c] \in Scans /\ Pending(c)
             /\ \E h \in Handler : h[1] = c /\ handler[h] = "done"
             /\ UNCHANGED <<handler, debated, sending>>
             /\ \A d \in Call : promise'[d] = "timeout" => promise[d] = "timeout"
  <2>1. m \in Message
    BY DEF RunType
  <2>2. m = <<m[1], m[2]>> /\ m[2] \in Handler
    BY <2>1 DEF Message
  <2>3. Settles(m) /\ promise' = [promise EXCEPT ![m[2][1]] = m[1]]
    BY <1>4, <1>5 DEF Receive, Route
  <2>4. m[2][1] = c /\ m[1] = "answer"
    BY <1>0, <2>3
  <2>5. Service[c] \in Scans /\ Pending(c)
    BY <2>3, <2>4 DEF Settles, Routed
  <2>6. handler[m[2]] = "done"
    BY <2>2, <2>4 DEF DeliveredInv
  <2>7. UNCHANGED <<handler, debated, sending>>
    BY <1>5, <2>4 DEF Receive
  <2>8. \A d \in Call : promise'[d] = "timeout" => promise[d] = "timeout"
    BY <1>0, <2>3, <2>4
  <2>. QED  BY <2>2, <2>4, <2>5, <2>6, <2>7, <2>8
<1>6. ASSUME NEW e \in Call, Deliver(e) \/ Ends(e) PROVE UNCHANGED promise
  BY <1>6 DEF Deliver, Ends, SendEnds
<1>7. ASSUME NEW e \in Call, Begin(e) PROVE Register(e)
  BY <1>7 DEF Begin
<1>8. ASSUME NEW h \in Handler, Debate(h) PROVE \E e \in Call : Register(e)
  BY <1>8, DebateRegisters
<1>9. UNCHANGED callVars => UNCHANGED promise
  BY DEF callVars
<1>. QED
  BY <1>1, <1>2, <1>3, <1>4, <1>5, <1>6, <1>7, <1>8, <1>9, OtherSteps DEF Next, Runs, vars

(* No exploit challenge is ever answered: its reply is not routed.         *)
NoChallengeIsAnswered == \A c \in Call : promise[c] = "answer" => Service[c] \in Scans

LEMMA UnansweredStep ==
  ASSUME CallType, RunType, DeliveredInv, NoChallengeIsAnswered, [Next]_vars
  PROVE  NoChallengeIsAnswered'
BY AnsweredBy DEF NoChallengeIsAnswered

(* What is over for its caller stays over.                                 *)
LEMMA OverStays ==
  ASSUME CallType, RunType, BookInv, [Next]_vars, NEW d \in Call, Over(d)
  PROVE  Over(d)'
<1>0. /\ promise \in [Call -> Promises] /\ sending \in [Call -> Sendings]
      /\ sending[d] \in {"threw", "sent"} /\ promise[d] # "none"
  BY DEF CallType, Over, BookInv
<1>1. ASSUME NEW e \in Call, Register(e) PROVE Over(d)'
  <2>1. e # d
    BY <1>0, <1>1 DEF Register
  <2>2. promise'[d] = promise[d] /\ sending'[d] = sending[d]
    BY <1>0, <1>1, <2>1 DEF Register
  <2>. QED  BY <2>2 DEF Over
<1>2. ASSUME NEW e \in Call, Deliver(e) PROVE Over(d)'
  BY <1>2 DEF Deliver, Over
<1>3. ASSUME NEW e \in Call, Ends(e) PROVE Over(d)'
  BY <1>0, <1>3 DEF Ends, SendEnds, Over
<1>4. ASSUME SettlesSome PROVE Over(d)'
  BY <1>0, <1>4 DEF SettlesSome, Over, Pending, Settled
<1>. QED  BY <1>1, <1>2, <1>3, <1>4, CallCases, DebateRegisters DEF Begin

(* A run has waited for all its debates but the one it waits for.          *)
Waited(h) ==
  /\ handler[h] \in {"none", "thinking"} => debated[h] = 0
  /\ \A i \in 1 .. debated[h] :
       (handler[h] = "waiting" /\ i = debated[h]) \/ Over(DebatesOf(h)[i])

WaitsInv == \A h \in Handler : Waited(h)

LEMMA WaitsStep ==
  ASSUME CallType, RunType, BookInv, DeliveredInv, WaitsInv, [Next]_vars
  PROVE  WaitsInv'
<1> SUFFICES ASSUME NEW h \in Handler PROVE Waited(h)'
  BY DEF WaitsInv
<1>0. /\ handler \in [Handler -> Stage] /\ debated \in [Handler -> Nat] /\ debated[h] \in Nat
      /\ debated[h] <= Len(DebatesOf(h)) /\ Len(DebatesOf(h)) \in Nat
      /\ Waited(h) /\ UNCHANGED DebatesOf(h)
  BY DebatesAreCalls DEF RunType, WaitsInv, DebatesOf
<1>1. \A i \in 1 .. debated[h] : DebatesOf(h)[i] \in Call
  BY <1>0, DebatesAreCalls
<1>2. \A i \in 1 .. debated[h] : Over(DebatesOf(h)[i]) => Over(DebatesOf(h)[i])'
  BY <1>1, OverStays DEF DebatesOf
<1>3. ASSUME handler'[h] = handler[h], debated'[h] = debated[h] PROVE Waited(h)'
  BY <1>0, <1>2, <1>3 DEF Waited, DebatesOf
<1>4. ASSUME NEW m \in inbox, Receive(m) PROVE Waited(h)'
  <2>1. m \in Message
    BY DEF RunType
  <2>2. m = <<m[1], m[2]>> /\ m[2] \in Handler
    BY <2>1 DEF Message
  <2>3. CASE m[1] = "call" /\ m[2] = h
    <3>1. handler[h] = "none" /\ debated' = debated
      BY <1>4, <2>2, <2>3 DEF DeliveredInv, Receive
    <3>2. debated'[h] = 0
      BY <1>0, <3>1 DEF Waited
    <3>. QED  BY <3>2 DEF Waited
  <2>4. CASE ~(m[1] = "call" /\ m[2] = h)
    BY <1>0, <1>3, <1>4, <2>2, <2>4 DEF Receive
  <2>. QED  BY <2>3, <2>4
<1>5. ASSUME NEW g \in Handler, Thinks(g) PROVE Waited(h)'
  <2>1. CASE g = h
    <3>1. debated'[h] = 0 /\ handler'[h] = "next"
      BY <1>0, <1>5, <2>1 DEF Thinks, Waited
    <3>. QED  BY <3>1 DEF Waited
  <2>2. CASE g # h
    BY <1>0, <1>3, <1>5, <2>2 DEF Thinks
  <2>. QED  BY <2>1, <2>2
<1>6. ASSUME NEW g \in Handler, Debate(g) PROVE Waited(h)'
  <2>1. CASE g = h
    <3>1. debated'[h] = debated[h] + 1 /\ handler'[h] = "waiting" /\ handler[h] = "next"
      BY <1>0, <1>6, <2>1 DEF Debate
    <3>2. \A i \in 1 .. debated[h] : Over(DebatesOf(h)[i])'
      BY <1>0, <1>2, <3>1 DEF Waited
    <3>3. \A i \in 1 .. debated'[h] : i = debated'[h] \/ i \in 1 .. debated[h]
      BY <1>0, <3>1
    <3>. QED  BY <3>1, <3>2, <3>3 DEF Waited, DebatesOf
  <2>2. CASE g # h
    BY <1>0, <1>3, <1>6, <2>2 DEF Debate
  <2>. QED  BY <2>1, <2>2
<1>7. ASSUME NEW g \in Handler, DebateOver(g) PROVE Waited(h)'
  <2>1. CASE g = h
    <3>1. debated' = debated /\ handler'[h] = "next" /\ handler[h] = "waiting" /\ Over(DebatesOf(h)[debated[h]])
      BY <1>0, <1>7, <2>1 DEF DebateOver, Current
    <3>2. \A i \in 1 .. debated[h] : Over(DebatesOf(h)[i])
      BY <1>0, <3>1 DEF Waited
    <3>. QED  BY <1>2, <3>1, <3>2 DEF Waited, DebatesOf
  <2>2. CASE g # h
    BY <1>0, <1>3, <1>7, <2>2 DEF DebateOver
  <2>. QED  BY <2>1, <2>2
<1>8. ASSUME NEW g \in Handler, Finishes(g), Answer(g) \/ Throw(g) PROVE Waited(h)'
  <2>1. CASE g = h
    <3>1. debated' = debated /\ handler'[h] = "done" /\ handler[h] \in {"next", "thinking"}
      BY <1>0, <1>8, <2>1 DEF Finishes, Answer, MayAnswer, Throw
    <3>2. \A i \in 1 .. debated[h] : Over(DebatesOf(h)[i])
      BY <1>0, <3>1 DEF Waited
    <3>. QED  BY <1>2, <3>1, <3>2 DEF Waited, DebatesOf
  <2>2. CASE g # h
    BY <1>0, <1>3, <1>8, <2>2 DEF Finishes
  <2>. QED  BY <2>1, <2>2
<1>9. ASSUME NEW e \in Call, Deliver(e) PROVE Waited(h)'
  BY <1>3, <1>9 DEF Deliver
<1>10. ASSUME LosesSome \/ UNCHANGED <<inbox, handler, debated>> PROVE Waited(h)'
  BY <1>3, <1>10 DEF LosesSome
<1>. QED  BY <1>4, <1>5, <1>6, <1>7, <1>8, <1>9, <1>10, RunCases

(* A debate that has not run its time while a scan waited for it.          *)
InTime(d) == promise[d] = "timeout" => sending[d] = "threw"

LEMMA InTimeStays ==
  ASSUME CallType, RunType, BookInv, [Next]_vars, NEW d \in Call, Over(d), InTime(d)
  PROVE  InTime(d)'
<1>0. /\ promise \in [Call -> Promises] /\ sending \in [Call -> Sendings]
      /\ sending[d] \in {"threw", "sent"} /\ promise[d] # "none"
  BY DEF CallType, Over, BookInv
<1>1. ASSUME NEW e \in Call, Register(e) PROVE InTime(d)'
  <2>1. promise'[d] = promise[d] /\ sending'[d] = sending[d]
    BY <1>0, <1>1 DEF Register
  <2>. QED  BY <2>1 DEF InTime
<1>2. ASSUME NEW e \in Call, Deliver(e) PROVE InTime(d)'
  BY <1>2 DEF Deliver, InTime
<1>3. ASSUME NEW e \in Call, Ends(e) PROVE InTime(d)'
  BY <1>0, <1>3 DEF Ends, SendEnds, InTime
<1>4. ASSUME SettlesSome PROVE InTime(d)'
  <2>1. CASE promise'[d] = promise[d]
    BY <1>4, <2>1 DEF SettlesSome, InTime
  <2>2. CASE Pending(d)
    <3>1. sending[d] = "threw"
      BY <2>2 DEF Over, Pending, Settled
    <3>. QED  BY <1>4, <3>1 DEF SettlesSome, InTime
  <2>. QED  BY <1>4, <2>1, <2>2 DEF SettlesSome
<1>. QED  BY <1>1, <1>2, <1>3, <1>4, CallCases, DebateRegisters DEF Begin

(* Every answer comes from a run that is done, and none of the debates of  *)
(* that run had timed out.                                                 *)
DoneInTime(h) == handler[h] = "done" /\ \A i \in 1 .. debated[h] : InTime(DebatesOf(h)[i])

AnswerInv == \A c \in Call : promise[c] = "answer" => \E h \in Handler : h[1] = c /\ DoneInTime(h)

LEMMA DoneStays ==
  ASSUME CallType, RunType, BookInv, DeliveredInv, WaitsInv, [Next]_vars, NEW h \in Handler, DoneInTime(h)
  PROVE  DoneInTime(h)'
<1>0. /\ handler \in [Handler -> Stage] /\ debated \in [Handler -> Nat] /\ handler[h] = "done"
      /\ debated[h] <= Len(DebatesOf(h)) /\ UNCHANGED DebatesOf(h)
  BY DEF RunType, DoneInTime, DebatesOf
<1> DEFINE Same == handler'[h] = "done" /\ debated'[h] = debated[h]
<1>1. ASSUME NEW m \in inbox, Receive(m) PROVE Same
  <2>1. m \in Message
    BY DEF RunType
  <2>2. m = <<m[1], m[2]>> /\ m[2] \in Handler
    BY <2>1 DEF Message
  <2>3. ~(m[1] = "call" /\ m[2] = h)
    BY <1>0, <2>2 DEF DeliveredInv
  <2>. QED  BY <1>0, <1>1, <2>2, <2>3 DEF Receive
<1>2. ASSUME NEW g \in Handler, Thinks(g) \/ Debate(g) \/ DebateOver(g) PROVE Same
  BY <1>0, <1>2 DEF Thinks, Debate, DebateOver
<1>3. ASSUME NEW g \in Handler, Finishes(g) PROVE Same
  BY <1>0, <1>3 DEF Finishes
<1>4. ASSUME NEW e \in Call, Deliver(e) PROVE Same
  BY <1>0, <1>4 DEF Deliver
<1>5. ASSUME LosesSome \/ UNCHANGED <<inbox, handler, debated>> PROVE Same
  BY <1>0, <1>5 DEF LosesSome
<1>6. Same
  BY <1>1, <1>2, <1>3, <1>4, <1>5, RunCases
<1>7. ASSUME NEW i \in 1 .. debated[h] PROVE InTime(DebatesOf(h)[i])'
  <2>1. DebatesOf(h)[i] \in Call
    BY <1>0, DebatesAreCalls
  <2>2. Over(DebatesOf(h)[i])
    BY <1>0 DEF WaitsInv, Waited
  <2>3. InTime(DebatesOf(h)[i])
    BY DEF DoneInTime
  <2>. QED  BY <2>1, <2>2, <2>3, InTimeStays DEF DebatesOf
<1>. QED  BY <1>0, <1>6, <1>7 DEF DoneInTime, DebatesOf

LEMMA AnswerStep ==
  ASSUME CallType, RunType, BookInv, DeliveredInv, DebateOutlivesScan, WaitsInv, AnswerInv, [Next]_vars
  PROVE  AnswerInv'
<1> SUFFICES ASSUME NEW c \in Call, promise'[c] = "answer"
             PROVE  \E h \in Handler : h[1] = c /\ DoneInTime(h)'
  BY DEF AnswerInv
<1>1. CASE promise[c] = "answer"
  BY <1>1, DoneStays DEF AnswerInv
<1>2. CASE promise[c] # "answer"
  <2>1. PICK h \in Handler : h[1] = c /\ handler[h] = "done"
    BY <1>2, AnsweredBy
  <2>2. /\ Pending(c) /\ UNCHANGED <<handler, debated, sending>>
        /\ \A d \in Call : promise'[d] = "timeout" => promise[d] = "timeout"
    BY <1>2, AnsweredBy
  <2>3. ASSUME NEW i \in 1 .. debated[h] PROVE InTime(DebatesOf(h)[i])'
    <3>1. i \in 1 .. Len(DebatesOf(h)) /\ DebatesOf(h)[i] \in Call
      BY DebatesAreCalls DEF RunType
    <3>2. MadeBy(DebatesOf(h)[i], c)
      BY <2>1, <3>1, DebatesAreCalls DEF MadeBy, DebatesOf
    <3>3. promise[DebatesOf(h)[i]] # "timeout"
      BY <2>2, <3>1, <3>2 DEF DebateOutlivesScan
    <3>4. promise'[DebatesOf(h)[i]] # "timeout"
      BY <2>2, <3>1, <3>3
    <3>. QED  BY <3>4 DEF InTime, DebatesOf
  <2>. QED  BY <2>1, <2>2, <2>3 DEF DoneInTime, DebatesOf
<1>. QED  BY <1>1, <1>2

(***************************************************************************)
(* The invariant of the mesh.  A promise is as old as its timer; a run, as *)
(* old as a delivered copy of its call; so a debate's timer is behind that *)
(* of its scan, and an answer comes from a run that has waited.            *)
(***************************************************************************)
IInv ==
  /\ CallType /\ RunType /\ BookInv /\ DeliveredInv
  /\ NestedInv /\ DebateOutlivesScan
  /\ NoChallengeIsAnswered /\ WaitsInv /\ AnswerInv

LEMMA InitInv == Init => IInv
<1> SUFFICES ASSUME Init PROVE IInv
  OBVIOUS
<1>1. CallType
  BY DEF Init, CallType, Promises, Sendings
<1>2. RunType
  <2>1. \A h \in Handler : Len(DebatesOf(h)) \in Nat
    BY DebatesAreCalls
  <2>. QED  BY <2>1, FaultAssumption DEF Init, RunType, Stage
<1>3. BookInv
  BY DEF Init, BookInv, OrderIsInjective, Registered
<1>4. DeliveredInv
  BY DEF Init, DeliveredInv
<1>5. NestedInv /\ DebateOutlivesScan /\ NoChallengeIsAnswered /\ AnswerInv
  BY DEF Init, NestedInv, DebateOutlivesScan, NoChallengeIsAnswered, AnswerInv
<1>6. WaitsInv
  BY DEF Init, WaitsInv, Waited
<1>. QED  BY <1>1, <1>2, <1>3, <1>4, <1>5, <1>6 DEF IInv

LEMMA StepInv == IInv /\ [Next]_vars => IInv'
BY CallTyped, RunTyped, BookStep, DeliveredStep, NestedStep, OutlivesStep, UnansweredStep, WaitsStep, AnswerStep
   DEF IInv

THEOREM Invariance == Spec => []IInv
BY InitInv, StepInv, PTL DEF Spec

(* Type correctness: no id is registered twice, no run makes more debates  *)
(* than it has exploits.                                                   *)
THEOREM TypeCorrect == Spec => []TypeOK
<1>1. IInv => TypeOK
  BY TypeParts DEF IInv, BookInv
<1>. QED  BY <1>1, Invariance, PTL

(* A debate that times out has outlived its scan.                          *)
THEOREM DebatesOutliveScans == Spec => []DebateOutlivesScan
<1>1. IInv => DebateOutlivesScan
  BY DEF IInv
<1>. QED  BY <1>1, Invariance, PTL

(* What is answered has waited for debates that failed early: one that     *)
(* runs its time costs the scan its answer.                                *)
THEOREM AnswersFollowDebates == Spec => []AnswerFollowsDebates
<1>1. ASSUME IInv PROVE AnswerFollowsDebates
  <2> SUFFICES ASSUME NEW c \in Call, promise[c] = "answer"
               PROVE  \E n \in Copy :
                        /\ handler[<<c, n>>] = "done"
                        /\ \A i \in 1 .. debated[<<c, n>>] : FailedEarly(Debates[c][n][i])
    BY DEF AnswerFollowsDebates
  <2>1. PICK h \in Handler : h[1] = c /\ DoneInTime(h)
    BY <1>1 DEF IInv, AnswerInv
  <2>2. h = <<c, h[2]>> /\ h[2] \in Copy /\ DebatesOf(h) = Debates[c][h[2]]
    BY <2>1, DebatesAreCalls DEF DebatesOf
  <2>3. ASSUME NEW i \in 1 .. debated[h] PROVE FailedEarly(DebatesOf(h)[i])
    <3>1. Over(DebatesOf(h)[i]) /\ InTime(DebatesOf(h)[i])
      BY <1>1, <2>1 DEF IInv, WaitsInv, Waited, DoneInTime
    <3>2. i \in 1 .. Len(DebatesOf(h)) /\ DebatesOf(h)[i] \in Call
      BY <1>1, DebatesAreCalls DEF IInv, RunType
    <3>3. MadeBy(DebatesOf(h)[i], c)
      BY <2>2, <3>2, DebatesAreCalls DEF MadeBy
    <3>4. promise[DebatesOf(h)[i]] # "answer"
      BY <1>1, <3>2, <3>3, DebatesAreChallenges DEF IInv, NoChallengeIsAnswered
    <3>. QED  BY <3>1, <3>4 DEF FailedEarly, InTime
  <2>4. handler[<<c, h[2]>>] = "done"
    BY <2>1, <2>2 DEF DoneInTime
  <2>. QED  BY <2>2, <2>3, <2>4
<1>. QED  BY <1>1, Invariance, PTL

=============================================================================
