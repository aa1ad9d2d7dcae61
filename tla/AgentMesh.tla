------------------------------ MODULE AgentMesh ------------------------------
(***************************************************************************)
(* Calls between agents: AXLClient.callMCP and callA2A, the broker that    *)
(* carries their messages, the polling loop and BaseAgent.handleRawMessage *)
(* at the other end.  The handlers are those of the review swarm.  The one *)
(* of an exploit scan calls the security agent in turn, once per exploit,  *)
(* before it answers.                                                      *)
(*                                                                         *)
(* A call registers its promise and a timer of 45 s, then awaits its send, *)
(* which takes 43.5 s at most.  A send is retried when its answer is lost, *)
(* so that a call may arrive twice; it succeeds when its broker answers,   *)
(* whether or not the broker could reach the other one.  Copy n of a call  *)
(* is what run n of its handler handles.                                   *)
(***************************************************************************)
EXTENDS Naturals, Sequences, FiniteSets

CONSTANTS
  Agent,
  Gateway,    (* the one that falls back in convergecast                     *)
  Call,       (* request ids                                                 *)
  Caller,     (* Caller[c] awaits call c                                     *)
  Callee,     (* Callee[c] handles it                                        *)
  Service,    (* Service[c] is what call c asks for                          *)
  Debates,    (* Debates[c][n]: the calls that run n of c's handler may make *)
  Root,       (* the calls that no handler makes                             *)
  MaxFaults   (* bound on lost answers of brokers, and on agents that stop   *)

Scans  == {"security-scan", "exploit-scan", "perf-analysis", "style-check"}
Copy   == 1 .. 2
Handler == Call \X Copy

(* Whether d is made by a handler of c.                                    *)
MadeBy(d, c) == \E n \in Copy : \E i \in DOMAIN Debates[c][n] : Debates[c][n][i] = d

ASSUME CallAssumption ==
  /\ Gateway \in Agent /\ Root \subseteq Call
  /\ Caller \in [Call -> Agent] /\ Callee \in [Call -> Agent]
  /\ Service \in [Call -> Scans \cup {"exploit-challenge"}]
  /\ Debates \in [Call -> [Copy -> Seq(Call)]]
ASSUME DebateAssumption ==
  /\ \A c, d \in Call : MadeBy(d, c) => d \notin Root /\ Service[d] = "exploit-challenge"
  /\ \A c, e \in Call, m, n \in Copy : \A i \in DOMAIN Debates[c][m], j \in DOMAIN Debates[e][n] :
       Debates[c][m][i] = Debates[e][n][j] => c = e /\ m = n /\ i = j
ASSUME FaultAssumption == MaxFaults \in Nat

VARIABLES
  promise,   (* the promise of each call; pendingCalls has the "pending" ones *)
  sending,   (* how its send stands                                          *)
  copies,    (* how often its message has been delivered                     *)
  order,     (* the calls in the order in which their timers were set        *)
  inbox,     (* messages in the brokers' inbound queues                      *)
  handler,   (* where each run of a handler is                               *)
  debated,   (* how many calls each run has made                             *)
  native,    (* AXLClient.nativeGossipAvailable is not false                 *)
  alive,     (* the agents that have not been stopped                        *)
  faults     (* faults so far                                                *)

callVars == <<promise, sending, copies, order>>
vars == <<callVars, inbox, handler, debated, native, alive, faults>>

-----------------------------------------------------------------------------
Settled == {"answer", "error", "timeout", "shutdown"}
Stage   == {"none", "thinking", "next", "waiting", "done"}
Message == {"call", "answer", "error"} \X Handler

Pending(c) == promise[c] = "pending"
To(m) == IF m[1] = "call" THEN Callee[m[2][1]] ELSE Caller[m[2][1]]

(* What the caller sees: an exception of the send comes before the promise. *)
Over(c) == sending[c] = "threw" \/ (sending[c] = "sent" /\ promise[c] \in Settled)

DebatesOf(h) == Debates[h[1]][h[2]]
Current(h)   == DebatesOf(h)[debated[h]]
Host(h)      == Callee[h[1]]

Faulty == faults < MaxFaults /\ faults' = faults + 1

-----------------------------------------------------------------------------
Init ==
  /\ promise = [c \in Call |-> "none"] /\ sending = [c \in Call |-> "none"]
  /\ copies = [c \in Call |-> 0] /\ order = <<>> /\ inbox = {}
  /\ handler = [h \in Handler |-> "none"] /\ debated = [h \in Handler |-> 0]
  /\ native = [a \in Agent |-> TRUE] /\ alive = Agent /\ faults = 0

(* Mutant: an id is used again, say by a caller that tries once more.      *)
RegisterAgain(c) ==
  /\ sending[c] # "sending"
  /\ promise' = [promise EXCEPT ![c] = "pending"]
  /\ sending' = [sending EXCEPT ![c] = "sending"]
  /\ order' = Append(order, c)

(* callMCP and callA2A: the entry and its timer come before the send.      *)
Register(c) ==
  /\ promise[c] = "none"
  /\ promise' = [promise EXCEPT ![c] = "pending"]
  /\ sending' = [sending EXCEPT ![c] = "sending"]
  /\ order' = Append(order, c)

(* The gateway fans a review out.                                          *)
Begin(c) ==
  /\ c \in Root /\ Caller[c] \in alive /\ Register(c)
  /\ UNCHANGED <<copies, inbox, handler, debated, native, alive, faults>>

(* The broker delivers the message of a call; a retry delivers it again.   *)
Deliver(c) ==
  /\ sending[c] = "sending" /\ copies[c] < 2
  /\ IF copies[c] = 0 THEN UNCHANGED faults ELSE Faulty
  /\ copies' = [copies EXCEPT ![c] = @ + 1]
  /\ inbox' = inbox \cup {<<"call", <<c, copies'[c]>>>>}
  /\ UNCHANGED <<promise, sending, order, handler, debated, native, alive>>

(* The client's own broker answers, or never does in four attempts.        *)
SendEnds(c, how) ==
  /\ sending[c] = "sending" /\ Caller[c] \in alive
  /\ sending' = [sending EXCEPT ![c] = how]
  /\ IF how = "threw" THEN Faulty ELSE UNCHANGED faults
  /\ UNCHANGED <<promise, copies, order, inbox, handler, debated, native, alive>>

-----------------------------------------------------------------------------
(***************************************************************************)
(* What the polling loop takes for the reply to a call.  The answer to an  *)
(* A2A call is sent as { type: 'a2a_response', ...result }, and the type   *)
(* of the result, 'exploit_defense', takes the place of the other one.     *)
(***************************************************************************)
Routed(m) == m[1] = "error" \/ (m[1] = "answer" /\ Service[m[2][1]] \in Scans)

Settles(m) == Routed(m) /\ Pending(m[2][1])

(* Mutant: an answer that is not routed still removes the entry.           *)
TakenOff(m) ==
  IF Settles(m) THEN [promise EXCEPT ![m[2][1]] = m[1]]
  ELSE [promise EXCEPT ![m[2][1]] = IF m[1] = "answer" /\ @ = "pending" THEN "none" ELSE @]

(* The promises after the loop has looked at a message.                    *)
Route(m) == IF Settles(m) THEN [promise EXCEPT ![m[2][1]] = m[1]] ELSE promise

(* One message of a polled batch; polls may overlap, so batches have no    *)
(* order.  Replies that are not routed reach a handler that ignores them.  *)
Receive(m) ==
  /\ m \in inbox /\ To(m) \in alive
  /\ inbox' = inbox \ {m}
  /\ handler' = IF m[1] = "call" THEN [handler EXCEPT ![m[2]] = "thinking"] ELSE handler
  /\ promise' = Route(m)
  /\ UNCHANGED <<sending, copies, order, debated, native, alive, faults>>

(* An answer of /recv is lost with the batch that was taken for it.        *)
BatchLost(a) ==
  /\ a \in alive /\ Faulty
  /\ \E batch \in SUBSET {m \in inbox : To(m) = a} : batch # {} /\ inbox' = inbox \ batch
  /\ UNCHANGED <<callVars, handler, debated, native, alive>>

(* A native gossip request fails, and is not tried again, unless another   *)
(* one that was under way succeeds after all.                              *)
GossipFails(a) ==
  /\ a \in alive /\ native[a] /\ Faulty
  /\ native' = [native EXCEPT ![a] = FALSE]
  /\ UNCHANGED <<callVars, inbox, handler, debated, alive>>

GossipWorks(a) ==
  /\ a \in alive /\ ~native[a] /\ native' = [native EXCEPT ![a] = TRUE]
  /\ UNCHANGED <<callVars, inbox, handler, debated, alive, faults>>

(* gossipReceive then takes every message, and keeps the gossip ones.      *)
GossipDrains(a) ==
  /\ a \in alive /\ ~native[a] /\ \E m \in inbox : To(m) = a
  /\ inbox' = {m \in inbox : To(m) # a}
  /\ UNCHANGED <<callVars, handler, debated, native, alive, faults>>

(* So does convergecast, when its native request fails.                    *)
ConvergecastDrains ==
  /\ Gateway \in alive /\ Faulty /\ \E m \in inbox : To(m) = Gateway
  /\ inbox' = {m \in inbox : To(m) # Gateway}
  /\ UNCHANGED <<callVars, handler, debated, native, alive>>

(* Mutant: the timers of the two kinds of calls differ.                    *)
TimerFirstAnyway(c) == TRUE

(* All timers are equally long, so they go off in the order they were set. *)
TimerFirst(c) ==
  \A i, j \in DOMAIN order : order[j] = c /\ i < j => ~Pending(order[i])

Timeout(c) ==
  /\ Pending(c) /\ sending[c] # "sending" /\ TimerFirst(c)
  /\ promise' = [promise EXCEPT ![c] = "timeout"]
  /\ UNCHANGED <<sending, copies, order, inbox, handler, debated, native, alive, faults>>

-----------------------------------------------------------------------------
(* The language model throws, after its retries.  A security scan goes on  *)
(* with its heuristics, whatever happens.                                  *)
MayThrow(h) == Service[h[1]] # "security-scan"

(* Mutant: the scan answers without waiting for the debate it has opened.  *)
MayAnswerEarly(h) == handler[h] \in {"next", "waiting"}

MayAnswer(h) == handler[h] = "next"

Thinks(h) ==
  /\ handler[h] = "thinking" /\ Host(h) \in alive
  /\ handler' = [handler EXCEPT ![h] = "next"]
  /\ UNCHANGED <<callVars, inbox, debated, native, alive, faults>>

(* The next exploit is debated; how many there are is up to the model.     *)
Debate(h) ==
  /\ handler[h] = "next" /\ Host(h) \in alive /\ debated[h] < Len(DebatesOf(h))
  /\ Register(DebatesOf(h)[debated[h] + 1])
  /\ debated' = [debated EXCEPT ![h] = @ + 1]
  /\ handler' = [handler EXCEPT ![h] = "waiting"]
  /\ UNCHANGED <<copies, inbox, native, alive, faults>>

(* An unanswered debate is caught, and the loop goes on.                   *)
DebateOver(h) ==
  /\ handler[h] = "waiting" /\ Host(h) \in alive /\ Over(Current(h))
  /\ handler' = [handler EXCEPT ![h] = "next"]
  /\ UNCHANGED <<callVars, inbox, debated, native, alive, faults>>

(* The reply is sent, and may get lost on the way; a send that throws is   *)
(* taken for a failure of the handler, and an error is sent after it.      *)
Answer(h) ==
  /\ MayAnswer(h) /\ Host(h) \in alive
  /\ handler' = [handler EXCEPT ![h] = "done"]
  /\ \/ inbox' = inbox \cup {<<"answer", h>>} /\ UNCHANGED faults
     \/ Faulty /\ inbox' = inbox
     \/ Faulty /\ \E sent \in SUBSET {"answer"} : inbox' = inbox \cup {<<t, h>> : t \in sent \cup {"error"}}
  /\ UNCHANGED <<callVars, debated, native, alive>>

Throw(h) ==
  /\ handler[h] = "thinking" /\ MayThrow(h) /\ Host(h) \in alive
  /\ handler' = [handler EXCEPT ![h] = "done"]
  /\ \/ inbox' = inbox \cup {<<"error", h>>} /\ UNCHANGED faults
     \/ Faulty /\ inbox' = inbox
  /\ UNCHANGED <<callVars, debated, native, alive>>

(* stop(): polling ends, and every pending call is rejected.               *)
Stop(a) ==
  /\ a \in alive /\ Faulty /\ alive' = alive \ {a}
  /\ promise' = [c \in Call |-> IF Caller[c] = a /\ Pending(c) THEN "shutdown" ELSE promise[c]]
  /\ UNCHANGED <<sending, copies, order, inbox, handler, debated, native>>

-----------------------------------------------------------------------------
Ends(c) == SendEnds(c, "sent") \/ SendEnds(c, "threw")
Runs(h) == Thinks(h) \/ Debate(h) \/ DebateOver(h) \/ Answer(h) \/ Throw(h)

Next ==
  \/ \E c \in Call : Begin(c) \/ Deliver(c) \/ Ends(c) \/ Timeout(c)
  \/ \E m \in inbox : Receive(m)
  \/ \E h \in Handler : Runs(h)
  \/ \E a \in Agent : BatchLost(a) \/ GossipFails(a) \/ GossipWorks(a) \/ GossipDrains(a) \/ Stop(a)
  \/ ConvergecastDrains

Spec == Init /\ [][Next]_vars

(* A send ends, a timer goes off.  Nothing is assumed of brokers, language *)
(* models or handlers.                                                     *)
FairSpec == Spec /\ \A c \in Call : WF_vars(Ends(c)) /\ WF_vars(Timeout(c))

-----------------------------------------------------------------------------
(* The state has its type, and no id is registered twice.                  *)
TypeOK ==
  /\ promise \in [Call -> Settled \cup {"none", "pending"}]
  /\ sending \in [Call -> {"none", "sending", "sent", "threw"}]
  /\ copies \in [Call -> 0 .. 2] /\ order \in Seq(Call)
  /\ \A i, j \in DOMAIN order : order[i] = order[j] => i = j
  /\ inbox \subseteq Message /\ handler \in [Handler -> Stage]
  /\ debated \in [Handler -> Nat] /\ \A h \in Handler : debated[h] <= Len(DebatesOf(h))
  /\ native \in [Agent -> BOOLEAN] /\ alive \subseteq Agent /\ faults \in 0 .. MaxFaults

(* A debate that times out has outlived the scan it is part of: by then    *)
(* the gateway has given the scan up, and its exploits are lost.           *)
DebateOutlivesScan ==
  \A c, d \in Call : MadeBy(d, c) /\ promise[d] = "timeout" => ~Pending(c)

(* A scan that is answered has waited for the debates of some run of its   *)
(* handler, and each of them had failed early: by an error, a shutdown or  *)
(* a send that threw.  One that runs its time costs the scan its answer.   *)
FailedEarly(d) == Over(d) /\ promise[d] # "answer" /\ (promise[d] = "timeout" => sending[d] = "threw")
AnswerFollowsDebates ==
  \A c \in Call : promise[c] = "answer" =>
    \E n \in Copy :
      /\ handler[<<c, n>>] = "done"
      /\ \A i \in 1 .. debated[<<c, n>>] : FailedEarly(Debates[c][n][i])

(* Every call ends for its caller, unless that one is stopped, and leaves  *)
(* no entry in pendingCalls, even if its send has thrown.                  *)
CallsEnd ==
  \A c \in Call : Pending(c) ~> (~Pending(c) /\ (Over(c) \/ Caller[c] \notin alive))

-----------------------------------------------------------------------------
(* client.ts:222, "wait for {type:'a2a_response', ...result, request_id}   *)
(* via polling": a challenge that has been handled and whose answer has    *)
(* been polled no longer waits, as long as nothing has gone wrong.         *)
DefencesArrive ==
  \A h \in Handler :
    faults = 0 /\ handler[h] = "done" /\ ~(\E t \in {"answer", "error"} : <<t, h>> \in inbox)
      => ~Pending(h[1])

=============================================================================
