------------------------- MODULE GossipCountProofs -------------------------
(***************************************************************************)
(* One goal, one pull request, unless things go wrong: a proof that counts *)
(* the copies of a goal, for any goals, limits and faults.                 *)
(*                                                                         *)
(* Each call for a goal is a copy, and each call but the first has cost a  *)
(* fault.  A broadcast copy travels the native way or the other one.       *)
(* Those on the native way all have one timestamp and become one pull      *)
(* request; so each copy on the other way costs a fault.  Nothing bounds   *)
(* the tasks or what is on its way: that the copies are finitely many is   *)
(* part of the invariant.                                                  *)
(***************************************************************************)
EXTENDS GossipProofs, FiniteSetTheorems

Way == {"native", "sent"}

Copies(g)    == {m \in Message : m.topic = "goals" /\ m.body = g}
Places(q, g) == {i \in DOMAIN q : q[i] \in Copies(g)}

(* A task that will publish the goal over the way it is on, or that makes  *)
(* a pull request of it.  Between the two, while the broker is sending,    *)
(* the copy is that of the broker.                                         *)
Holds(t, g, way) ==
  /\ t.body = g
  /\ IF way = "native"
     THEN (t.what = "inject" /\ t.stage = "publish") \/ (t.what = "goal" /\ t.stage \in BeforePR)
     ELSE t.what = "inject" /\ t.stage = "broadcast"

(* What a task has of a goal, the copies that wait in its batch included.  *)
(* Those have the positions from 1, the one it works on has position 0.    *)
Load(t, g, way) ==
  (IF Holds(t, g, way) THEN {0} ELSE {}) \cup (IF way = "native" THEN Places(t.batch, g) ELSE {})

Carried(T, g, way) == UNION {{t} \X Load(t, g, way) : t \in T}
OnWire(g, way)     == {w \in wire : w.way = way /\ w.msg \in Copies(g)}
Waiting(g, way)    == Places(IF way = "native" THEN queues[Coder]["goals"] ELSE inbox[Coder]["goals"], g)
Made(g)            == {p \in DOMAIN opened : opened[p] = g}

Travelling(g, way) ==
  Cardinality(Carried(tasks, g, way)) + Cardinality(OnWire(g, way)) + Cardinality(Waiting(g, way))
Live(g) == Cardinality(Made(g)) + Travelling(g, "native")
Side(g) == Travelling(g, "sent")

Finite(g) ==
  /\ IsFiniteSet(Made(g))
  /\ \A way \in Way : /\ IsFiniteSet(Carried(tasks, g, way)) /\ IsFiniteSet(OnWire(g, way))
                      /\ IsFiniteSet(Waiting(g, way))

(* The faults there are, or one.                                           *)
Excuse == IF faults = 0 THEN 1 ELSE faults

(* Each copy but the first has cost a fault.  Of a goal that is broadcast, *)
(* the copies on the native way become at most as many pull requests as    *)
(* OneGoalOnePR allows: each of the others has cost a fault, and while the *)
(* coder is on the other way itself one fault has cost no copy.            *)
CopyInv(g) ==
  /\ Finite(g)
  /\ Live(g) + Side(g) <= 1 + faults
  /\ asked[g] = 0 => Live(g) <= Excuse /\ (~native[Coder] => Live(g) + Side(g) <= Excuse)
  /\ g \in goals => Live(g) = 0 /\ Side(g) = 0

(* Only a fault makes a client give up the native way, and only the        *)
(* gateway publishes goals, each after it has been given.                  *)
GivenInv ==
  /\ (\E a \in Agent : ~native[a]) => faults # 0
  /\ \A t \in tasks : t.what = "inject" => t.agent = Gateway /\ t.body \notin goals

CountInv == TypeInv /\ GivenInv /\ \A g \in Goal : CopyInv(g)

-----------------------------------------------------------------------------
(***************************************************************************)
(* Lemmas on counting.                                                     *)
(***************************************************************************)
LEMMA CountAtMost ==
  ASSUME NEW S, IsFiniteSet(S), NEW T, T \subseteq S
  PROVE  /\ IsFiniteSet(T) /\ Cardinality(T) \in Nat /\ Cardinality(S) \in Nat
         /\ Cardinality(T) <= Cardinality(S)
<1>1. T \in SUBSET S
  OBVIOUS
<1>. QED  BY <1>1, FS_Subset, FS_CardinalityType

LEMMA CountWithout ==
  ASSUME NEW S, IsFiniteSet(S), NEW x \in S, NEW T, T \subseteq S \ {x}
  PROVE  /\ IsFiniteSet(T) /\ Cardinality(T) \in Nat /\ Cardinality(S) \in Nat
         /\ Cardinality(T) + 1 <= Cardinality(S)
<1>1. IsFiniteSet(S \ {x}) /\ Cardinality(S \ {x}) = Cardinality(S) - 1
  BY FS_RemoveElement
<1>2. Cardinality(S) \in Nat
  BY FS_CardinalityType
<1>. QED  BY <1>1, <1>2, CountAtMost

LEMMA CountOneMore ==
  ASSUME NEW S, IsFiniteSet(S), NEW x, NEW T, T \subseteq S \cup {x}
  PROVE  /\ IsFiniteSet(T) /\ Cardinality(T) \in Nat /\ Cardinality(S) \in Nat
         /\ Cardinality(T) <= Cardinality(S) + 1
<1>1. IsFiniteSet(S \cup {x}) /\ Cardinality(S \cup {x}) <= Cardinality(S) + 1
  <2>1. Cardinality(S) \in Nat
    BY FS_CardinalityType
  <2>. QED  BY <2>1, FS_AddElement
<1>2. Cardinality(S) \in Nat
  BY FS_CardinalityType
<1>. QED  BY <1>1, <1>2, CountAtMost

(* Positions that move up by one.                                          *)
LEMMA CountShifted ==
  ASSUME NEW S, NEW T, IsFiniteSet(T), S \subseteq Nat, \A k \in S : k + 1 \in T
  PROVE  IsFiniteSet(S) /\ Cardinality(S) <= Cardinality(T)
<1> DEFINE f == [k \in S |-> k + 1]
<1>1. f \in [S -> T]
  OBVIOUS
<1>2. ASSUME NEW j \in S, NEW k \in S, f[j] = f[k] PROVE j = k
  BY <1>2
<1>3. f \in Injection(S, T)
  BY <1>1, <1>2 DEF Injection, IsInjective
<1>. QED  BY <1>3, FS_Injection

LEMMA CountTagged ==
  ASSUME NEW S, IsFiniteSet(S), NEW x
  PROVE  IsFiniteSet({x} \X S) /\ Cardinality({x} \X S) = Cardinality(S)
<1> DEFINE f == [k \in S |-> <<x, k>>]
<1>1. f \in [S -> {x} \X S]
  OBVIOUS
<1>2. \A j, k \in S : f[j] = f[k] => j = k
  OBVIOUS
<1>3. \A e \in {x} \X S : \E k \in S : f[k] = e
  OBVIOUS
<1>4. f \in Bijection(S, {x} \X S)
  BY <1>1, <1>2, <1>3 DEF Bijection, Injection, IsInjective, Surjection
<1>5. ExistsBijection(S, {x} \X S)
  BY <1>4 DEF ExistsBijection
<1>. QED  BY <1>5, FS_Bijection

LEMMA CountDisjoint ==
  ASSUME NEW S, IsFiniteSet(S), NEW T, IsFiniteSet(T)
  PROVE  /\ IsFiniteSet(S \cup T) /\ Cardinality(S) \in Nat /\ Cardinality(T) \in Nat
         /\ Cardinality(S \cup T) <= Cardinality(S) + Cardinality(T)
         /\ S \cap T = {} => Cardinality(S \cup T) = Cardinality(S) + Cardinality(T)
<1>1. /\ IsFiniteSet(S \cup T)
      /\ Cardinality(S \cup T) = Cardinality(S) + Cardinality(T) - Cardinality(S \cap T)
  BY FS_Union
<1>2. Cardinality(S) \in Nat /\ Cardinality(T) \in Nat
  BY FS_CardinalityType
<1>3. Cardinality(S \cap T) \in Nat
  BY CountAtMost
<1>4. S \cap T = {} => Cardinality(S \cap T) = 0
  BY FS_EmptySet
<1>. QED  BY <1>1, <1>2, <1>3, <1>4

-----------------------------------------------------------------------------
(***************************************************************************)
(* Lemmas on the places of copies in a sequence and on the load of a task. *)
(***************************************************************************)
LEMMA PlacesCount ==
  ASSUME NEW S, NEW q \in Seq(S), NEW g
  PROVE  /\ IsFiniteSet(Places(q, g)) /\ Cardinality(Places(q, g)) \in Nat
         /\ Places(q, g) \subseteq Nat \ {0}
         /\ q = <<>> => Cardinality(Places(q, g)) = 0
<1>1. DOMAIN q = 1 .. Len(q) /\ Len(q) \in Nat
  OBVIOUS
<1>2. Places(q, g) \subseteq 1 .. Len(q)
  BY <1>1 DEF Places
<1>3. IsFiniteSet(1 .. Len(q))
  BY <1>1, FS_Interval
<1>4. q = <<>> => Places(q, g) = {}
  BY DEF Places
<1>. QED  BY <1>1, <1>2, <1>3, <1>4, CountAtMost, FS_EmptySet

LEMMA PlacesOf ==
  ASSUME NEW q, NEW g, \A i \in DOMAIN q : q[i] \notin Copies(g)
  PROVE  Places(q, g) = {} /\ Cardinality(Places(q, g)) = 0
<1>1. Places(q, g) = {}
  BY DEF Places
<1>. QED  BY <1>1, FS_EmptySet

LEMMA PlacesAppend ==
  ASSUME NEW S, NEW q \in Seq(S), NEW m \in S, NEW g
  PROVE  /\ Cardinality(Places(Append(q, m), g)) <= Cardinality(Places(q, g)) + 1
         /\ m \notin Copies(g) => Cardinality(Places(Append(q, m), g)) <= Cardinality(Places(q, g))
<1> DEFINE r == Append(q, m)
<1>1. /\ r \in Seq(S) /\ DOMAIN r = DOMAIN q \cup {Len(q) + 1}
      /\ \A i \in DOMAIN q : r[i] = q[i]
      /\ r[Len(q) + 1] = m
  OBVIOUS
<1> HIDE DEF r
<1>2. Places(r, g) \subseteq Places(q, g) \cup {Len(q) + 1}
  BY <1>1 DEF Places
<1>3. m \notin Copies(g) => Places(r, g) \subseteq Places(q, g)
  BY <1>1 DEF Places
<1>4. IsFiniteSet(Places(q, g))
  BY PlacesCount
<1>5. Cardinality(Places(r, g)) <= Cardinality(Places(q, g)) + 1
  BY <1>2, <1>4, CountOneMore
<1>6. m \notin Copies(g) => Cardinality(Places(r, g)) <= Cardinality(Places(q, g))
  BY <1>3, <1>4, CountAtMost
<1>. QED  BY <1>5, <1>6 DEF r

LEMMA PlacesTail ==
  ASSUME NEW S, NEW q \in Seq(S), q # <<>>, NEW g
  PROVE  /\ \A k \in Places(Tail(q), g) : k + 1 \in Places(q, g)
         /\ Head(q) \in Copies(g) <=> 1 \in Places(q, g)
         /\ Cardinality(Places(Tail(q), g)) <= Cardinality(Places(q, g))
<1>1. \A k \in DOMAIN Tail(q) : k + 1 \in DOMAIN q /\ Tail(q)[k] = q[k + 1]
  OBVIOUS
<1>2. Head(q) = q[1] /\ 1 \in DOMAIN q /\ Tail(q) \in Seq(S)
  OBVIOUS
<1>3. \A k \in Places(Tail(q), g) : k + 1 \in Places(q, g)
  BY <1>1 DEF Places
<1>4. Head(q) \in Copies(g) <=> 1 \in Places(q, g)
  BY <1>2 DEF Places
<1>5. IsFiniteSet(Places(q, g)) /\ Places(Tail(q), g) \subseteq Nat
  BY <1>2, PlacesCount
<1>. QED  BY <1>3, <1>4, <1>5, CountShifted

LEMMA LoadCount ==
  ASSUME NEW t, TaskOK(t), NEW g, NEW way
  PROVE  /\ IsFiniteSet(Load(t, g, way)) /\ Cardinality(Load(t, g, way)) \in Nat
         /\ Load(t, g, way) \subseteq Nat
<1>1. IsFiniteSet(Places(t.batch, g)) /\ Places(t.batch, g) \subseteq Nat
  BY PlacesCount DEF TaskOK
<1>2. Load(t, g, way) \subseteq Places(t.batch, g) \cup {0}
  BY DEF Load
<1>3. IsFiniteSet(Load(t, g, way)) /\ Cardinality(Load(t, g, way)) \in Nat
  BY <1>1, <1>2, CountOneMore
<1>4. Load(t, g, way) \subseteq Nat
  BY <1>1 DEF Load
<1>. QED  BY <1>3, <1>4

(* A task that goes on with the same batch: it has no more than it had if  *)
(* it works on nothing else, and one less if it is done with the goal.     *)
LEMMA LoadStays ==
  ASSUME NEW t, TaskOK(t), NEW n, n.batch = t.batch, NEW g, NEW way
  PROVE  /\ Cardinality(Load(n, g, way)) \in Nat
         /\ Cardinality(Load(n, g, way)) <= Cardinality(Load(t, g, way)) + 1
         /\ (Holds(n, g, way) => Holds(t, g, way)) =>
              Cardinality(Load(n, g, way)) <= Cardinality(Load(t, g, way))
         /\ ~Holds(n, g, way) /\ Holds(t, g, way) =>
              Cardinality(Load(n, g, way)) + 1 <= Cardinality(Load(t, g, way))
<1> DEFINE old == Load(t, g, way)
           new == Load(n, g, way)
<1>1. IsFiniteSet(old)
  BY LoadCount
<1>2. 0 \notin Places(t.batch, g)
  BY PlacesCount DEF TaskOK
<1>3. new \subseteq old \cup {0}
  BY DEF Load
<1>4. (Holds(n, g, way) => Holds(t, g, way)) => new \subseteq old
  BY DEF Load
<1>5. ~Holds(n, g, way) /\ Holds(t, g, way) => 0 \in old /\ new \subseteq old \ {0}
  BY <1>2 DEF Load
<1>. HIDE DEF old, new
<1>6. Cardinality(new) \in Nat /\ Cardinality(new) <= Cardinality(old) + 1
  BY <1>1, <1>3, CountOneMore
<1>7. new \subseteq old => Cardinality(new) <= Cardinality(old)
  BY <1>1, CountAtMost
<1>8. 0 \in old /\ new \subseteq old \ {0} => Cardinality(new) + 1 <= Cardinality(old)
  BY <1>1, CountWithout
<1>9. Cardinality(new) \in Nat /\ Cardinality(new) <= Cardinality(old) + 1
      /\ ((Holds(n, g, way) => Holds(t, g, way)) => Cardinality(new) <= Cardinality(old))
      /\ (~Holds(n, g, way) /\ Holds(t, g, way) => Cardinality(new) + 1 <= Cardinality(old))
  BY <1>4, <1>5, <1>6, <1>7, <1>8
<1>. QED  BY <1>9 DEF old, new

(* A task that takes the next message of its batch: what it works on then  *)
(* has waited at the head.                                                 *)
LEMMA LoadTaken ==
  ASSUME NEW t, TaskOK(t), t.batch # <<>>, NEW n, n.batch = Tail(t.batch), NEW g, NEW way,
         Holds(n, g, way) => way = "native" /\ Head(t.batch) \in Copies(g)
  PROVE  Cardinality(Load(n, g, way)) <= Cardinality(Load(t, g, way))
<1>1. IsFiniteSet(Load(t, g, way))
  BY LoadCount
<1>2. /\ \A k \in Places(n.batch, g) : k + 1 \in Places(t.batch, g)
      /\ Head(t.batch) \in Copies(g) <=> 1 \in Places(t.batch, g)
  BY PlacesTail DEF TaskOK
<1>3. Places(n.batch, g) \subseteq Nat
  <2>1. n.batch \in Seq(HeardBy(t.agent))
    BY HeadAndTail DEF TaskOK
  <2>. QED  BY <2>1, PlacesCount
<1>4. \A k \in Load(n, g, way) : k + 1 \in Load(t, g, way)
  BY <1>2 DEF Load
<1>5. Load(n, g, way) \subseteq Nat
  BY <1>3 DEF Load
<1>. QED  BY <1>1, <1>4, <1>5, CountShifted

-----------------------------------------------------------------------------
(***************************************************************************)
(* Lemmas on what all tasks have.                                          *)
(***************************************************************************)
LEMMA CarriedAnd ==
  ASSUME NEW T, NEW n, TaskOK(n), NEW g, NEW way, IsFiniteSet(Carried(T, g, way)),
         NEW U, U \subseteq T \cup {n}
  PROVE  /\ IsFiniteSet(Carried(U, g, way))
         /\ Cardinality(Carried(U, g, way)) \in Nat /\ Cardinality(Carried(T, g, way)) \in Nat
         /\ Cardinality(Load(n, g, way)) \in Nat
         /\ Cardinality(Carried(U, g, way)) <= Cardinality(Carried(T, g, way)) + Cardinality(Load(n, g, way))
<1> DEFINE own == {n} \X Load(n, g, way)
           all == Carried(T, g, way) \cup own
<1>1. /\ IsFiniteSet(Load(n, g, way)) /\ Cardinality(Load(n, g, way)) \in Nat
      /\ IsFiniteSet(own) /\ Cardinality(own) = Cardinality(Load(n, g, way))
  BY LoadCount, CountTagged
<1>2. Carried(U, g, way) \subseteq all
  BY DEF Carried
<1>. HIDE DEF own
<1>3. /\ IsFiniteSet(all) /\ Cardinality(Carried(T, g, way)) \in Nat
      /\ Cardinality(all) <= Cardinality(Carried(T, g, way)) + Cardinality(own)
  BY <1>1, CountDisjoint
<1>. HIDE DEF all
<1>4. /\ IsFiniteSet(Carried(U, g, way)) /\ Cardinality(Carried(U, g, way)) \in Nat
      /\ Cardinality(all) \in Nat /\ Cardinality(Carried(U, g, way)) <= Cardinality(all)
  BY <1>2, <1>3, CountAtMost
<1>. QED  BY <1>1, <1>3, <1>4

LEMMA CarriedWithout ==
  ASSUME NEW T, NEW t \in T, TaskOK(t), NEW g, NEW way, IsFiniteSet(Carried(T, g, way))
  PROVE  /\ IsFiniteSet(Carried(T \ {t}, g, way))
         /\ Cardinality(Carried(T \ {t}, g, way)) \in Nat /\ Cardinality(Carried(T, g, way)) \in Nat
         /\ Cardinality(Load(t, g, way)) \in Nat
         /\ Cardinality(Carried(T, g, way))
              = Cardinality(Carried(T \ {t}, g, way)) + Cardinality(Load(t, g, way))
<1> DEFINE own == {t} \X Load(t, g, way)
           rest == Carried(T \ {t}, g, way)
<1>1. /\ IsFiniteSet(Load(t, g, way)) /\ Cardinality(Load(t, g, way)) \in Nat
      /\ IsFiniteSet(own) /\ Cardinality(own) = Cardinality(Load(t, g, way))
  BY LoadCount, CountTagged
<1>2. Carried(T, g, way) = rest \cup own
  BY DEF Carried
<1>3. rest \cap own = {}
  BY DEF Carried
<1>. HIDE DEF own, rest
<1>4. IsFiniteSet(rest) /\ Cardinality(rest) \in Nat /\ Cardinality(Carried(T, g, way)) \in Nat
  <2>1. rest \subseteq Carried(T, g, way)
    BY <1>2
  <2>. QED  BY <2>1, CountAtMost
<1>5. Cardinality(Carried(T, g, way)) = Cardinality(rest) + Cardinality(own)
  BY <1>1, <1>2, <1>3, <1>4, CountDisjoint
<1>. QED  BY <1>1, <1>4, <1>5 DEF rest

(* A task goes on as another one, or ends.                                 *)
LEMMA CarriedOn ==
  ASSUME NEW T, NEW t \in T, TaskOK(t), NEW n, TaskOK(n), NEW U, U \subseteq (T \ {t}) \cup {n},
         NEW g, NEW way, IsFiniteSet(Carried(T, g, way))
  PROVE  /\ IsFiniteSet(Carried(U, g, way))
         /\ Cardinality(Carried(U, g, way)) \in Nat /\ Cardinality(Carried(T, g, way)) \in Nat
         /\ Cardinality(Load(t, g, way)) \in Nat /\ Cardinality(Load(n, g, way)) \in Nat
         /\ Cardinality(Carried(U, g, way)) + Cardinality(Load(t, g, way))
              <= Cardinality(Carried(T, g, way)) + Cardinality(Load(n, g, way))
<1> DEFINE rest == T \ {t}
<1>1. /\ IsFiniteSet(Carried(rest, g, way))
      /\ Cardinality(Carried(rest, g, way)) \in Nat /\ Cardinality(Carried(T, g, way)) \in Nat
      /\ Cardinality(Load(t, g, way)) \in Nat
      /\ Cardinality(Carried(T, g, way)) = Cardinality(Carried(rest, g, way)) + Cardinality(Load(t, g, way))
  BY CarriedWithout
<1>2. U \subseteq rest \cup {n}
  OBVIOUS
<1>. HIDE DEF rest
<1>3. /\ IsFiniteSet(Carried(U, g, way)) /\ Cardinality(Carried(U, g, way)) \in Nat
      /\ Cardinality(Load(n, g, way)) \in Nat
      /\ Cardinality(Carried(U, g, way)) <= Cardinality(Carried(rest, g, way)) + Cardinality(Load(n, g, way))
  BY <1>1, <1>2, CarriedAnd
<1>. QED  BY <1>1, <1>3

-----------------------------------------------------------------------------
(***************************************************************************)
(* How the steps of Gossip change the counts: each part by itself.         *)
(***************************************************************************)

(* The copies grow no more, neither those on the native way nor in all.    *)
Steady(g) == /\ Finite(g)' /\ Live(g)' <= Live(g)
             /\ Live(g)' + Side(g)' <= Live(g) + Side(g)

LEMMA CountNat ==
  \A S : IsFiniteSet(S) => Cardinality(S) \in Nat
BY FS_CardinalityType

LEMMA SumsNat ==
  ASSUME NEW g, Finite(g)
  PROVE  Live(g) \in Nat /\ Side(g) \in Nat
BY CountNat DEF Finite, Way, Live, Side, Travelling

LEMMA SameParts ==
  ASSUME NEW g, NEW way
  PROVE  /\ UNCHANGED opened => Made(g)' = Made(g)
         /\ UNCHANGED tasks => Carried(tasks, g, way)' = Carried(tasks, g, way)
         /\ UNCHANGED wire => OnWire(g, way)' = OnWire(g, way)
         /\ UNCHANGED queues => Waiting(g, "native")' = Waiting(g, "native")
         /\ UNCHANGED inbox => Waiting(g, "sent")' = Waiting(g, "sent")
BY DEF Made, OnWire, Waiting

(* A task goes on as another one, or ends.                                 *)
LEMMA TaskPart ==
  ASSUME TypeInv, NEW g, Finite(g), NEW t \in tasks, NEW n, TaskOK(n), NEW new, new \subseteq {n},
         Becomes(t, new), NEW way \in Way
  PROVE  /\ IsFiniteSet(Carried(tasks, g, way)') /\ Cardinality(Carried(tasks, g, way)') \in Nat
         /\ Cardinality(Load(t, g, way)) \in Nat /\ Cardinality(Load(n, g, way)) \in Nat
         /\ Cardinality(Carried(tasks, g, way)') + Cardinality(Load(t, g, way))
              <= Cardinality(Carried(tasks, g, way)) + Cardinality(Load(n, g, way))
<1>1. TaskOK(t) /\ IsFiniteSet(Carried(tasks, g, way))
  BY DEF TypeInv, TaskType, Finite
<1>2. tasks' \subseteq (tasks \ {t}) \cup {n}
  BY DEF Becomes
<1>3. Carried(tasks, g, way)' = Carried(tasks', g, way)
  BY DEF Carried
<1>. QED  BY <1>1, <1>2, <1>3, CarriedOn

LEMMA TaskAdded ==
  ASSUME NEW g, Finite(g), NEW n, TaskOK(n), tasks' \subseteq tasks \cup {n}, NEW way \in Way
  PROVE  /\ IsFiniteSet(Carried(tasks, g, way)') /\ Cardinality(Carried(tasks, g, way)') \in Nat
         /\ Cardinality(Load(n, g, way)) \in Nat
         /\ Cardinality(Carried(tasks, g, way)')
              <= Cardinality(Carried(tasks, g, way)) + Cardinality(Load(n, g, way))
<1>1. IsFiniteSet(Carried(tasks, g, way))
  BY DEF Finite
<1>2. Carried(tasks, g, way)' = Carried(tasks', g, way)
  BY DEF Carried
<1>. QED  BY <1>1, <1>2, CarriedAnd

(* When nothing but tasks changes.                                         *)
LEMMA OnlyTask ==
  ASSUME TypeInv, NEW g, Finite(g), NEW t \in tasks, NEW n, TaskOK(n), NEW new, new \subseteq {n},
         Becomes(t, new), UNCHANGED <<opened, wire, queues, inbox>>
  PROVE  /\ Finite(g)' /\ Live(g) \in Nat /\ Side(g) \in Nat /\ Live(g)' \in Nat /\ Side(g)' \in Nat
         /\ \A way \in Way : Cardinality(Load(t, g, way)) \in Nat /\ Cardinality(Load(n, g, way)) \in Nat
         /\ Live(g)' + Cardinality(Load(t, g, "native")) <= Live(g) + Cardinality(Load(n, g, "native"))
         /\ Side(g)' + Cardinality(Load(t, g, "sent")) <= Side(g) + Cardinality(Load(n, g, "sent"))
<1>1. /\ Made(g)' = Made(g)
      /\ \A way \in Way : OnWire(g, way)' = OnWire(g, way) /\ Waiting(g, way)' = Waiting(g, way)
  BY SameParts DEF Way
<1>2. \A way \in Way :
        /\ IsFiniteSet(Carried(tasks, g, way)') /\ Cardinality(Carried(tasks, g, way)') \in Nat
        /\ Cardinality(Load(t, g, way)) \in Nat /\ Cardinality(Load(n, g, way)) \in Nat
        /\ Cardinality(Carried(tasks, g, way)') + Cardinality(Load(t, g, way))
             <= Cardinality(Carried(tasks, g, way)) + Cardinality(Load(n, g, way))
  BY TaskPart
<1>3. Finite(g)'
  BY <1>1, <1>2 DEF Finite
<1>4. \A way \in Way : /\ Cardinality(Carried(tasks, g, way)) \in Nat
                       /\ Cardinality(OnWire(g, way)) \in Nat /\ Cardinality(Waiting(g, way)) \in Nat
  BY CountNat DEF Finite
<1>5. Cardinality(Made(g)) \in Nat
  BY CountNat DEF Finite
<1>. QED  BY <1>1, <1>2, <1>3, <1>4, <1>5 DEF Live, Side, Travelling, Way

LEMMA LessLoad ==
  ASSUME TypeInv, NEW g, Finite(g), NEW t \in tasks, NEW n, TaskOK(n), NEW new, new \subseteq {n},
         Becomes(t, new), UNCHANGED <<opened, wire, queues, inbox>>,
         \A way \in Way : Cardinality(Load(n, g, way)) <= Cardinality(Load(t, g, way))
  PROVE  Steady(g)
BY OnlyTask DEF Steady, Way

(* What is sent of a goal, and where to.                                   *)
LEMMA WirePart ==
  ASSUME TypeInv, GivenInv, NEW g, Finite(g), NEW t \in tasks, NEW way \in Way,
         NEW up \in SUBSET Listeners(t), wire' = wire \cup Sendings(t, way, up), NEW w \in Way
  PROVE  /\ IsFiniteSet(OnWire(g, w)') /\ Cardinality(OnWire(g, w)') \in Nat
         /\ Cardinality(OnWire(g, w)') <= Cardinality(OnWire(g, w)) + 1
         /\ w # way \/ t.what # "inject" \/ t.body # g => OnWire(g, w)' = OnWire(g, w)
<1> DEFINE s == [msg |-> Post(t), to |-> Coder, way |-> way]
<1>1. Post(t) \in Copies(g) => t.what = "inject" /\ t.body = g
  BY DEF Post, TopicOf, Copies
<1>2. t.what = "inject" => Sendings(t, way, up) \subseteq {s}
  <2>1. t.what = "inject" => TopicOf(t) = "goals"
    BY DEF TopicOf
  <2>2. t.what = "inject" => Listeners(t) \subseteq {Coder}
    BY <2>1 DEF Listeners, Listens, Subscription
  <2>. QED  BY <2>2 DEF Sendings
<1>3. \A x \in Sendings(t, way, up) : x.way = way /\ x.msg = Post(t)
  BY DEF Sendings
<1>4. OnWire(g, w)' = {x \in wire' : x.way = w /\ x.msg \in Copies(g)}
  BY DEF OnWire
<1>5. w # way \/ t.what # "inject" \/ t.body # g => OnWire(g, w)' = OnWire(g, w)
  BY <1>1, <1>3, <1>4 DEF OnWire
<1>6. t.what = "inject" => OnWire(g, w)' \subseteq OnWire(g, w) \cup {s}
  BY <1>2, <1>4 DEF OnWire
<1>7. IsFiniteSet(OnWire(g, w))
  BY DEF Finite
<1>8. OnWire(g, w)' \subseteq OnWire(g, w) \cup {s}
  BY <1>5, <1>6
<1>. QED  BY <1>5, <1>7, <1>8, CountOneMore

(* A message joins the queue of a broker.                                  *)
LEMMA EnqueuePart ==
  ASSUME TypeInv, NEW g, NEW a \in Agent, NEW k \in Topic, NEW m \in Letter(k), Enqueue(a, m)
  PROVE  /\ IsFiniteSet(Waiting(g, "native")') /\ Cardinality(Waiting(g, "native")') \in Nat
         /\ Cardinality(Waiting(g, "native")') <= Cardinality(Waiting(g, "native")) + 1
         /\ a # Coder \/ m \notin Copies(g) =>
              Cardinality(Waiting(g, "native")') <= Cardinality(Waiting(g, "native"))
<1> DEFINE q == queues[a][k]
           r == Append(q, m)
           new == IF Overflows(r) THEN Tail(r) ELSE r
           own == queues[Coder]["goals"]
<1>0. QueueType /\ PrintType /\ Coder \in Agent /\ "goals" \in Topic
  BY AgentAssumption DEF TypeInv, Topic
<1>1. m.topic = k
  BY DEF Letter
<1>2. queues' = queues \/ queues' = [queues EXCEPT ![a][k] = new]
  BY <1>1 DEF Enqueue
<1>3. QueueType'
  BY <1>0, EnqueueType
<1>4. Waiting(g, "native") = Places(own, g) /\ Waiting(g, "native")' = Places(own', g)
  BY DEF Waiting, Places
<1>5. own \in Seq(Letter("goals")) /\ own' \in Seq(Letter("goals"))
  BY <1>0, <1>3 DEF QueueType
<1>6. /\ IsFiniteSet(Places(own', g)) /\ Cardinality(Places(own', g)) \in Nat
      /\ Cardinality(Places(own, g)) \in Nat
  BY <1>5, PlacesCount
<1>7. CASE own' = own
  BY <1>4, <1>6, <1>7
<1>8. CASE own' # own
  <2>1. a = Coder /\ k = "goals" /\ own' = new /\ q = own
    <3>. HIDE DEF new
    <3>. QED  BY <1>0, <1>2, <1>8 DEF QueueType
  <2>2. r \in Seq(Letter("goals")) /\ r # <<>>
    BY <1>5, <2>1
  <2>3. /\ Cardinality(Places(r, g)) <= Cardinality(Places(own, g)) + 1
        /\ m \notin Copies(g) => Cardinality(Places(r, g)) <= Cardinality(Places(own, g))
    BY <1>5, <2>1, PlacesAppend
  <2>4. Cardinality(Places(Tail(r), g)) <= Cardinality(Places(r, g))
    <3>. HIDE DEF r
    <3>. QED  BY <2>2, PlacesTail
  <2>5. Cardinality(Places(r, g)) \in Nat
    <3>. HIDE DEF r
    <3>. QED  BY <2>2, PlacesCount
  <2>6. Cardinality(Places(new, g)) <= Cardinality(Places(r, g))
    BY <2>4, <2>5
  <2>. HIDE DEF new, r
  <2>. QED  BY <1>4, <1>6, <2>1, <2>3, <2>5, <2>6
<1>. QED  BY <1>7, <1>8

(* A message joins the inbound queue of a broker.                          *)
LEMMA MailPart ==
  ASSUME TypeInv, NEW g, NEW a \in Agent, NEW k \in Topic, NEW m \in Letter(k),
         inbox' = [inbox EXCEPT ![a][k] = Append(@, m)]
  PROVE  /\ IsFiniteSet(Waiting(g, "sent")') /\ Cardinality(Waiting(g, "sent")') \in Nat
         /\ Cardinality(Waiting(g, "sent")') <= Cardinality(Waiting(g, "sent")) + 1
         /\ m \notin Copies(g) => Cardinality(Waiting(g, "sent")') <= Cardinality(Waiting(g, "sent"))
<1> DEFINE own == inbox[Coder]["goals"]
           new == Append(own, m)
<1>0. InboxType /\ Coder \in Agent /\ "goals" \in Topic
  BY AgentAssumption DEF TypeInv, Topic
<1>1. Waiting(g, "sent") = Places(own, g) /\ Waiting(g, "sent")' = Places(own', g)
  BY DEF Waiting, Places
<1>2. own \in Seq(Letter("goals")) /\ own \in Seq(Message) /\ m \in Message
  BY <1>0, LetterIsMessage DEF InboxType
<1>3. own' = own \/ own' = new
  BY <1>0 DEF InboxType
<1>4. IsFiniteSet(Places(own, g)) /\ Cardinality(Places(own, g)) \in Nat
  BY <1>2, PlacesCount
<1>5. /\ Cardinality(Places(new, g)) <= Cardinality(Places(own, g)) + 1
      /\ m \notin Copies(g) => Cardinality(Places(new, g)) <= Cardinality(Places(own, g))
  BY <1>2, PlacesAppend
<1>6. new \in Seq(Message)
  BY <1>2
<1>. HIDE DEF new
<1>7. IsFiniteSet(Places(new, g)) /\ Cardinality(Places(new, g)) \in Nat
  BY <1>6, PlacesCount
<1>8. CASE own' = own
  BY <1>1, <1>4, <1>8
<1>9. CASE own' = new
  <2>1. Waiting(g, "sent")' = Places(new, g)
    BY <1>1, <1>9
  <2>. QED  BY <1>1, <1>4, <1>5, <1>7, <2>1
<1>. QED  BY <1>3, <1>8, <1>9

-----------------------------------------------------------------------------
(***************************************************************************)
(* Publishing.                                                             *)
(***************************************************************************)
LEMMA StageIs ==
  ASSUME NEW t, TaskOK(t), NEW s
  PROVE  LET n == [t EXCEPT !.stage = s]
         IN  /\ n.batch = t.batch /\ n.what = t.what /\ n.body = t.body /\ n.stage = s
BY DEF TaskOK, Task

LEMMA PublisherOK ==
  ASSUME TypeInv, NEW t \in tasks, t.stage \in Publishing, NEW s \in {"native", "broadcast", "sent"}
  PROVE  TaskOK(t) /\ TaskOK([t EXCEPT !.stage = s])
<1>1. TaskOK(t) /\ t.what # "round"
  BY DEF TypeInv, TaskType, TaskOK, Publishing
<1>2. s \in Stage /\ s \in Publishing
  BY DEF Stage, Publishing
<1>3. t.what = "goal" => {s, t.stage} \subseteq Publishing
  BY <1>2
<1>. QED  BY <1>1, <1>2, <1>3, StageOK

(* While the broker sends a copy, the copy is that of the broker.          *)
LEMMA PublishCount ==
  ASSUME TypeInv, GivenInv, NEW g, Finite(g), NEW t \in tasks, Publish(t)
  PROVE  Steady(g)
<1> DEFINE n == [t EXCEPT !.stage = "native"]
<1>1. t.stage = "publish" /\ t.stage \in Publishing
  BY DEF Publish, Publishing
<1>2. TaskOK(t) /\ TaskOK(n) /\ n.batch = t.batch /\ n.stage = "native"
  BY <1>1, PublisherOK, StageIs
<1>3. Becomes(t, {n}) /\ UNCHANGED <<opened, inbox>>
  BY DEF Publish, At, agentVars
<1>. HIDE DEF n
<1>4. \A way : ~Holds(n, g, way)
  BY <1>2 DEF Holds, BeforePR
<1>5. \A way \in Way :
        /\ IsFiniteSet(Carried(tasks, g, way)') /\ Cardinality(Carried(tasks, g, way)') \in Nat
        /\ Cardinality(Load(t, g, way)) \in Nat /\ Cardinality(Load(n, g, way)) \in Nat
        /\ Cardinality(Carried(tasks, g, way)') + Cardinality(Load(t, g, way))
             <= Cardinality(Carried(tasks, g, way)) + Cardinality(Load(n, g, way))
  BY <1>2, <1>3, TaskPart
<1>6. \A way \in Way :
        /\ Cardinality(Load(n, g, way)) <= Cardinality(Load(t, g, way))
        /\ Holds(t, g, way) => Cardinality(Load(n, g, way)) + 1 <= Cardinality(Load(t, g, way))
  BY <1>2, <1>4, LoadStays
<1>7. \A way \in Way :
        /\ IsFiniteSet(OnWire(g, way)') /\ Cardinality(OnWire(g, way)') \in Nat
        /\ Cardinality(OnWire(g, way)') <= Cardinality(OnWire(g, way)) + 1
        /\ way # "native" \/ t.what # "inject" \/ t.body # g => OnWire(g, way)' = OnWire(g, way)
  <2>1. "native" \in Way /\ Listeners(t) \in SUBSET Listeners(t)
    BY DEF Way
  <2>2. wire' = wire \cup Sendings(t, "native", Listeners(t))
    BY DEF Publish
  <2>. QED  BY <2>1, <2>2, WirePart
<1>8. /\ IsFiniteSet(Waiting(g, "native")') /\ Cardinality(Waiting(g, "native")') \in Nat
      /\ Cardinality(Waiting(g, "native")') <= Cardinality(Waiting(g, "native"))
  <2>1. CASE UNCHANGED queues
    BY <2>1, SameParts, CountNat DEF Finite, Way
  <2>2. CASE Enqueue(t.agent, Post(t)) /\ Listens(t.agent, TopicOf(t))
    <3>1. t.what # "inject"
      BY <2>2, AgentAssumption DEF GivenInv, Listens, Subscription, TopicOf
    <3>2. Post(t) \notin Copies(g)
      BY <3>1 DEF Post, TopicOf, Copies
    <3>3. TopicOf(t) \in Topic /\ Post(t) \in Letter(TopicOf(t)) /\ t.agent \in Agent
      BY <1>1, PostOK DEF TypeInv
    <3>. QED  BY <2>2, <3>2, <3>3, EnqueuePart
  <2>. QED  BY <2>1, <2>2 DEF Publish
<1>9. Made(g)' = Made(g) /\ Waiting(g, "sent")' = Waiting(g, "sent")
  BY <1>3, SameParts
<1>10. Finite(g)'
  BY <1>5, <1>7, <1>8, <1>9 DEF Finite, Way
<1>11. /\ Cardinality(Made(g)) \in Nat
       /\ \A way \in Way : /\ Cardinality(Carried(tasks, g, way)) \in Nat
                           /\ Cardinality(OnWire(g, way)) \in Nat /\ Cardinality(Waiting(g, way)) \in Nat
  BY CountNat DEF Finite
<1>12. t.what = "inject" /\ t.body = g => Holds(t, g, "native")
  BY <1>1 DEF Holds
<1>13. Live(g)' <= Live(g) /\ Side(g)' <= Side(g)
  BY <1>5, <1>6, <1>7, <1>8, <1>9, <1>11, <1>12 DEF Live, Side, Travelling, Way
<1>14. Live(g) \in Nat /\ Side(g) \in Nat /\ Live(g)' \in Nat /\ Side(g)' \in Nat
  BY <1>5, <1>7, <1>8, <1>9, <1>11 DEF Live, Side, Travelling, Way
<1>. QED  BY <1>10, <1>13, <1>14 DEF Steady

(* A request that fails may have been taken: that is one copy more, on the *)
(* other way.                                                              *)
LEMMA PublishFailsCount ==
  ASSUME TypeInv, NEW g, Finite(g), NEW t \in tasks, PublishFails(t)
  PROVE  /\ Finite(g)' /\ Live(g)' <= Live(g) /\ Live(g)' + Side(g)' <= Live(g) + Side(g) + 1
         /\ t.what # "inject" \/ t.body # g => Steady(g)
<1> DEFINE n == [t EXCEPT !.stage = "broadcast"]
<1>1. t.stage \in {"publish", "native"} /\ t.stage \in Publishing
  BY DEF PublishFails, Publishing
<1>2. TaskOK(t) /\ TaskOK(n) /\ n.batch = t.batch /\ n.stage = "broadcast" /\ n.what = t.what /\ n.body = t.body
  BY <1>1, PublisherOK, StageIs
<1>3. Becomes(t, {n}) /\ UNCHANGED <<opened, wire, queues, inbox>>
  BY DEF PublishFails, At, agentVars, brokerVars
<1>. HIDE DEF n
<1>4. ~Holds(n, g, "native") /\ (t.what # "inject" \/ t.body # g => ~Holds(n, g, "sent"))
  BY <1>2 DEF Holds, BeforePR
<1>5. /\ Finite(g)' /\ Live(g) \in Nat /\ Side(g) \in Nat /\ Live(g)' \in Nat /\ Side(g)' \in Nat
      /\ \A way \in Way : Cardinality(Load(t, g, way)) \in Nat /\ Cardinality(Load(n, g, way)) \in Nat
      /\ Live(g)' + Cardinality(Load(t, g, "native")) <= Live(g) + Cardinality(Load(n, g, "native"))
      /\ Side(g)' + Cardinality(Load(t, g, "sent")) <= Side(g) + Cardinality(Load(n, g, "sent"))
  BY <1>2, <1>3, OnlyTask
<1>6. /\ Cardinality(Load(n, g, "native")) <= Cardinality(Load(t, g, "native"))
      /\ Cardinality(Load(n, g, "sent")) <= Cardinality(Load(t, g, "sent")) + 1
      /\ ~Holds(n, g, "sent") => Cardinality(Load(n, g, "sent")) <= Cardinality(Load(t, g, "sent"))
  BY <1>2, <1>4, LoadStays
<1>7. "native" \in Way /\ "sent" \in Way
  BY DEF Way
<1>. QED  BY <1>4, <1>5, <1>6, <1>7 DEF Steady

LEMMA BroadcastCount ==
  ASSUME TypeInv, GivenInv, NEW g, Finite(g), NEW t \in tasks, Broadcast(t)
  PROVE  Steady(g)
<1> DEFINE n == [t EXCEPT !.stage = "sent"]
<1>1. t.stage \in {"publish", "broadcast"} /\ t.stage \in Publishing
  BY DEF Broadcast, Publishing
<1>2. TaskOK(t) /\ TaskOK(n) /\ n.batch = t.batch /\ n.stage = "sent"
  BY <1>1, PublisherOK, StageIs
<1>3. Becomes(t, {n}) /\ UNCHANGED <<opened, queues, inbox>>
  BY DEF Broadcast, At, agentVars
<1>. HIDE DEF n
<1>4. \A way : ~Holds(n, g, way)
  BY <1>2 DEF Holds, BeforePR
<1>5. \A way \in Way :
        /\ IsFiniteSet(Carried(tasks, g, way)') /\ Cardinality(Carried(tasks, g, way)') \in Nat
        /\ Cardinality(Load(t, g, way)) \in Nat /\ Cardinality(Load(n, g, way)) \in Nat
        /\ Cardinality(Carried(tasks, g, way)') + Cardinality(Load(t, g, way))
             <= Cardinality(Carried(tasks, g, way)) + Cardinality(Load(n, g, way))
  BY <1>2, <1>3, TaskPart
<1>6. \A way \in Way :
        /\ Cardinality(Load(n, g, way)) <= Cardinality(Load(t, g, way))
        /\ Holds(t, g, way) => Cardinality(Load(n, g, way)) + 1 <= Cardinality(Load(t, g, way))
  BY <1>2, <1>4, LoadStays
<1>7. \A way \in Way :
        /\ IsFiniteSet(OnWire(g, way)') /\ Cardinality(OnWire(g, way)') \in Nat
        /\ Cardinality(OnWire(g, way)') <= Cardinality(OnWire(g, way)) + 1
        /\ way # "sent" \/ t.what # "inject" \/ t.body # g => OnWire(g, way)' = OnWire(g, way)
  <2>1. "sent" \in Way
    BY DEF Way
  <2>2. PICK up \in SUBSET Listeners(t) : wire' = wire \cup Sendings(t, "sent", up)
    BY DEF Broadcast
  <2>. QED  BY <2>1, <2>2, WirePart
<1>8. Made(g)' = Made(g) /\ \A way \in Way : Waiting(g, way)' = Waiting(g, way)
  BY <1>3, SameParts DEF Way
<1>9. Finite(g)'
  BY <1>5, <1>7, <1>8 DEF Finite
<1>10. /\ Cardinality(Made(g)) \in Nat
       /\ \A way \in Way : /\ Cardinality(Carried(tasks, g, way)) \in Nat
                           /\ Cardinality(OnWire(g, way)) \in Nat /\ Cardinality(Waiting(g, way)) \in Nat
  BY CountNat DEF Finite
<1>11. t.what = "inject" /\ t.body = g => Holds(t, g, "native") \/ Holds(t, g, "sent")
  BY <1>1 DEF Holds
<1>12. /\ Live(g)' <= Live(g) /\ Live(g)' + Side(g)' <= Live(g) + Side(g)
  BY <1>5, <1>6, <1>7, <1>8, <1>10, <1>11 DEF Live, Side, Travelling, Way
<1>. QED  BY <1>9, <1>12 DEF Steady

-----------------------------------------------------------------------------
(***************************************************************************)
(* Arriving and polling.                                                   *)
(***************************************************************************)
LEMMA WireShrinks ==
  ASSUME NEW g, Finite(g), NEW way \in Way, wire' \subseteq wire
  PROVE  /\ IsFiniteSet(OnWire(g, way)') /\ Cardinality(OnWire(g, way)') \in Nat
         /\ Cardinality(OnWire(g, way)') <= Cardinality(OnWire(g, way))
         /\ \A w \in wire \ wire' : w \in OnWire(g, way) =>
              Cardinality(OnWire(g, way)') + 1 <= Cardinality(OnWire(g, way))
<1>1. IsFiniteSet(OnWire(g, way))
  BY DEF Finite
<1>2. OnWire(g, way)' \subseteq OnWire(g, way)
  BY DEF OnWire
<1>3. \A w \in wire \ wire' : OnWire(g, way)' \subseteq OnWire(g, way) \ {w}
  BY DEF OnWire
<1>. QED  BY <1>1, <1>2, <1>3, CountAtMost, CountWithout

(* A copy arrives; one that is sent again is one copy more.                *)
LEMMA ArrivesCount ==
  ASSUME TypeInv, NEW g, Finite(g), NEW w \in wire, Arrives(w)
  PROVE  \/ Steady(g) /\ UNCHANGED faults
         \/ Steady(g) /\ Faulty
         \/ /\ Faulty /\ Side(g) # 0
            /\ Finite(g)' /\ Live(g)' <= Live(g) /\ Live(g)' + Side(g)' <= Live(g) + Side(g) + 1
<1>1. PICK k \in Topic : w \in Sending(k)
  BY DEF TypeInv, WireType
<1>2. w.msg \in Letter(k) /\ w.to \in Agent /\ w.way \in Way
  BY <1>1 DEF Sending, Way
<1>3. /\ Made(g)' = Made(g)
      /\ \A way \in Way : Carried(tasks, g, way)' = Carried(tasks, g, way)
  BY SameParts DEF Arrives, agentVars
<1>4. wire' \subseteq wire
  BY DEF Arrives
<1>5. \A way \in Way :
        /\ IsFiniteSet(OnWire(g, way)') /\ Cardinality(OnWire(g, way)') \in Nat
        /\ Cardinality(OnWire(g, way)') <= Cardinality(OnWire(g, way))
        /\ w \notin wire' /\ w \in OnWire(g, way) =>
             Cardinality(OnWire(g, way)') + 1 <= Cardinality(OnWire(g, way))
  BY <1>4, WireShrinks
<1>6. /\ Cardinality(Made(g)) \in Nat
      /\ \A way \in Way : /\ Cardinality(Carried(tasks, g, way)) \in Nat
                          /\ Cardinality(OnWire(g, way)) \in Nat /\ Cardinality(Waiting(g, way)) \in Nat
  BY CountNat DEF Finite
<1>7. w.msg \in Copies(g) => w \in OnWire(g, w.way)
  BY DEF OnWire
<1>8. CASE w.way = "native"
  <2>1. Enqueue(w.to, w.msg) /\ UNCHANGED <<inbox, faults>> /\ w \notin wire'
    BY <1>8 DEF Arrives
  <2>2. /\ IsFiniteSet(Waiting(g, "native")') /\ Cardinality(Waiting(g, "native")') \in Nat
        /\ Cardinality(Waiting(g, "native")') <= Cardinality(Waiting(g, "native")) + 1
        /\ w.msg \notin Copies(g) =>
             Cardinality(Waiting(g, "native")') <= Cardinality(Waiting(g, "native"))
    BY <1>2, <2>1, EnqueuePart
  <2>3. Waiting(g, "sent")' = Waiting(g, "sent")
    BY <2>1, SameParts
  <2>4. Finite(g)'
    BY <1>3, <1>5, <2>2, <2>3 DEF Finite, Way
  <2>5. Live(g)' <= Live(g) /\ Live(g)' + Side(g)' <= Live(g) + Side(g)
    BY <1>3, <1>5, <1>6, <1>7, <1>8, <2>1, <2>2, <2>3 DEF Live, Side, Travelling, Way
  <2>. QED  BY <2>1, <2>4, <2>5 DEF Steady
<1>9. CASE w.way = "sent"
  <2> DEFINE m == [w.msg EXCEPT !.at = now]
  <2>1. m \in Letter(k) /\ m.topic = k /\ m \in Message
    BY <1>2, LateLetter DEF TypeInv
  <2>2. m \in Copies(g) => w.msg \in Copies(g)
    <3>1. w.msg \in Message /\ w.msg.topic = k /\ m.body = w.msg.body
      BY <1>2, LetterIsMessage DEF Letter
    <3>. QED  BY <2>1, <3>1 DEF Copies
  <2>3. inbox' = [inbox EXCEPT ![w.to][m.topic] = Append(@, m)] /\ UNCHANGED queues
    BY <1>9 DEF Arrives
  <2>. HIDE DEF m
  <2>4. /\ IsFiniteSet(Waiting(g, "sent")') /\ Cardinality(Waiting(g, "sent")') \in Nat
        /\ Cardinality(Waiting(g, "sent")') <= Cardinality(Waiting(g, "sent")) + 1
        /\ m \notin Copies(g) => Cardinality(Waiting(g, "sent")') <= Cardinality(Waiting(g, "sent"))
    <3>1. inbox' = [inbox EXCEPT ![w.to][k] = Append(@, m)]
      BY <2>1, <2>3
    <3>. QED  BY <1>2, <2>1, <3>1, MailPart
  <2>5. Waiting(g, "native")' = Waiting(g, "native")
    BY <2>3, SameParts
  <2>6. Finite(g)'
    BY <1>3, <1>5, <2>4, <2>5 DEF Finite, Way
  <2>7. Live(g)' <= Live(g) /\ Live(g)' + Side(g)' <= Live(g) + Side(g) + 1
    BY <1>3, <1>5, <1>6, <2>4, <2>5 DEF Live, Side, Travelling, Way
  <2>8. w.msg \notin Copies(g) \/ w \notin wire' => Steady(g)
    <3>1. w.msg \notin Copies(g) \/ w \notin wire' => Live(g)' + Side(g)' <= Live(g) + Side(g)
      BY <1>3, <1>5, <1>6, <1>7, <1>9, <2>2, <2>4, <2>5 DEF Live, Side, Travelling, Way
    <3>. QED  BY <2>6, <2>7, <3>1 DEF Steady
  <2>9. w.msg \in Copies(g) => Side(g) # 0
    <3>1. w.msg \in Copies(g) => Cardinality(OnWire(g, "sent")) # 0
      <4>1. IsFiniteSet(OnWire(g, "sent"))
        BY DEF Finite, Way
      <4>. QED  BY <1>7, <1>9, <4>1, FS_EmptySet
    <3>. QED  BY <1>6, <3>1 DEF Side, Travelling, Way
  <2>10. (w \notin wire' /\ UNCHANGED faults) \/ Faulty
    BY DEF Arrives
  <2>. QED  BY <2>6, <2>7, <2>8, <2>9, <2>10
<1>. QED  BY <1>2, <1>8, <1>9 DEF Way

LEMMA MissesCount ==
  ASSUME NEW g, Finite(g), NEW w \in wire, Misses(w)
  PROVE  Steady(g)
<1>1. /\ Made(g)' = Made(g)
      /\ \A way \in Way : /\ Carried(tasks, g, way)' = Carried(tasks, g, way)
                          /\ Waiting(g, way)' = Waiting(g, way)
  BY SameParts DEF Misses, agentVars, Way
<1>2. wire' \subseteq wire
  BY DEF Misses
<1>3. \A way \in Way :
        /\ IsFiniteSet(OnWire(g, way)') /\ Cardinality(OnWire(g, way)') \in Nat
        /\ Cardinality(OnWire(g, way)') <= Cardinality(OnWire(g, way))
  BY <1>2, WireShrinks
<1>4. /\ Cardinality(Made(g)) \in Nat
      /\ \A way \in Way : /\ Cardinality(Carried(tasks, g, way)) \in Nat
                          /\ Cardinality(OnWire(g, way)) \in Nat /\ Cardinality(Waiting(g, way)) \in Nat
  BY CountNat DEF Finite
<1>5. Finite(g)'
  BY <1>1, <1>3 DEF Finite
<1>. QED  BY <1>1, <1>3, <1>4, <1>5 DEF Steady, Live, Side, Travelling, Way

(* What is polled is what the poller listens to.                           *)
LEMMA PolledOK ==
  ASSUME TypeInv, NEW s \in Subscription
  PROVE  /\ s[1] \in Agent /\ s[2] \in Topic
         /\ queues[s[1]][s[2]] \in Seq(HeardBy(s[1])) /\ inbox[s[1]][s[2]] \in Seq(HeardBy(s[1]))
<1>1. s[1] \in Agent /\ s[2] \in Topic /\ Listens(s[1], s[2])
  BY AgentAssumption DEF Subscription, Topic, Listens
<1>2. Letter(s[2]) \subseteq HeardBy(s[1])
  BY <1>1, LetterIsHeard
<1>3. queues[s[1]][s[2]] \in Seq(Letter(s[2])) /\ inbox[s[1]][s[2]] \in Seq(Letter(s[2]))
  BY <1>1 DEF TypeInv, QueueType, InboxType
<1>. QED  BY <1>1, <1>2, <1>3, LargerSeq

(* A round has the copies of its batch, and only the coder's has any.      *)
LEMMA RoundLoad ==
  ASSUME NEW a \in Agent, NEW batch \in Seq(HeardBy(a)), batch # <<>>, NEW g
  PROVE  /\ TaskOK(Round(a, batch))
         /\ Cardinality(Load(Round(a, batch), g, "native")) = Cardinality(Places(batch, g))
         /\ Cardinality(Load(Round(a, batch), g, "sent")) = 0
         /\ a # Coder => Cardinality(Places(batch, g)) = 0
<1>1. Round(a, batch) \in Rest(a, batch)
  BY DEF Rest
<1>2. \A way : ~Holds(Round(a, batch), g, way) /\ Round(a, batch).batch = batch
  BY DEF Holds, Round
<1>3. Load(Round(a, batch), g, "native") = Places(batch, g) /\ Load(Round(a, batch), g, "sent") = {}
  BY <1>2 DEF Load
<1>4. ASSUME a # Coder, NEW m \in HeardBy(a) PROVE m \notin Copies(g)
  BY <1>4 DEF HeardBy, Listens, Subscription, Copies
<1>5. a # Coder => Cardinality(Places(batch, g)) = 0
  <2>1. \A i \in DOMAIN batch : batch[i] \in HeardBy(a)
    OBVIOUS
  <2>. QED  BY <1>4, <2>1, PlacesOf
<1>. QED  BY <1>1, <1>3, <1>5, RestOK, FS_EmptySet

(* The queue of an agent is emptied: of the copies of the coder, all go.   *)
LEMMA QueueEmptied ==
  ASSUME TypeInv, NEW g, NEW s \in Subscription, queues' = [queues EXCEPT ![s[1]][s[2]] = <<>>]
  PROVE  /\ IsFiniteSet(Waiting(g, "native")') /\ Cardinality(Waiting(g, "native")') \in Nat
         /\ Cardinality(Waiting(g, "native")') <= Cardinality(Waiting(g, "native"))
         /\ s[1] = Coder => /\ Cardinality(Waiting(g, "native")') = 0
                            /\ Waiting(g, "native") = Places(queues[s[1]][s[2]], g)
<1>1. s[1] \in Agent /\ s[2] \in Topic /\ Coder \in Agent /\ "goals" \in Topic
      /\ (s[1] = Coder => s[2] = "goals")
  BY AgentAssumption DEF Subscription, Topic
<1>2. \A b \in Agent, k \in Topic :
        queues'[b][k] = IF b = s[1] /\ k = s[2] THEN <<>> ELSE queues[b][k]
  BY <1>1, EmptyQueue DEF TypeInv
<1> DEFINE own == queues[Coder]["goals"]
<1>3. own' = own \/ own' = <<>>
  BY <1>1, <1>2
<1>4. s[1] = Coder => own' = <<>> /\ queues[s[1]][s[2]] = own
  BY <1>1, <1>2
<1>5. own \in Seq(Message)
  BY <1>1 DEF TypeInv, QueueType
<1>6. /\ IsFiniteSet(Places(own, g)) /\ Cardinality(Places(own, g)) \in Nat
      /\ IsFiniteSet(Places(<<>>, g)) /\ Cardinality(Places(<<>>, g)) = 0
  <2>1. <<>> \in Seq(Message)
    OBVIOUS
  <2>. QED  BY <1>5, <2>1, PlacesCount
<1>7. Waiting(g, "native") = Places(own, g) /\ Waiting(g, "native")' = Places(own', g)
  BY DEF Waiting, Places
<1>8. CASE own' = own
  <2>1. Waiting(g, "native")' = Waiting(g, "native")
    BY <1>7, <1>8
  <2>. QED  BY <1>4, <1>6, <1>7, <1>8, <2>1
<1>9. CASE own' = <<>>
  <2>1. Waiting(g, "native")' = Places(<<>>, g)
    BY <1>7, <1>9
  <2>. QED  BY <1>4, <1>6, <1>7, <2>1
<1>. QED  BY <1>3, <1>8, <1>9

LEMMA InboxEmptied ==
  ASSUME TypeInv, NEW g, NEW a \in Agent, inbox' = EmptyInbox(a)
  PROVE  /\ IsFiniteSet(Waiting(g, "sent")') /\ Cardinality(Waiting(g, "sent")') \in Nat
         /\ Cardinality(Waiting(g, "sent")') <= Cardinality(Waiting(g, "sent"))
         /\ a = Coder => Cardinality(Waiting(g, "sent")') = 0
<1>1. Coder \in Agent /\ "goals" \in Topic
  BY AgentAssumption DEF Topic
<1>2. \A b \in Agent, k \in Topic : inbox'[b][k] = IF b = a THEN <<>> ELSE inbox[b][k]
  BY EmptyInboxOK DEF TypeInv
<1> DEFINE own == inbox[Coder]["goals"]
<1>3. own' = own \/ own' = <<>>
  BY <1>1, <1>2
<1>4. a = Coder => own' = <<>>
  BY <1>1, <1>2
<1>5. own \in Seq(Message)
  BY <1>1 DEF TypeInv, InboxType
<1>6. /\ IsFiniteSet(Places(own, g)) /\ Cardinality(Places(own, g)) \in Nat
      /\ IsFiniteSet(Places(<<>>, g)) /\ Cardinality(Places(<<>>, g)) = 0
  <2>1. <<>> \in Seq(Message)
    OBVIOUS
  <2>. QED  BY <1>5, <2>1, PlacesCount
<1>7. Waiting(g, "sent") = Places(own, g) /\ Waiting(g, "sent")' = Places(own', g)
  BY DEF Waiting, Places
<1>8. CASE own' = own
  <2>1. Waiting(g, "sent")' = Waiting(g, "sent")
    BY <1>7, <1>8
  <2>. QED  BY <1>4, <1>6, <1>7, <1>8, <2>1
<1>9. CASE own' = <<>>
  <2>1. Waiting(g, "sent")' = Places(<<>>, g)
    BY <1>7, <1>9
  <2>. QED  BY <1>4, <1>6, <1>7, <2>1
<1>. QED  BY <1>3, <1>8, <1>9

LEMMA PollCount ==
  ASSUME TypeInv, NEW g, Finite(g), NEW s \in Subscription, Poll(s[1], s[2]) \/ PollFails(s[1], s[2])
  PROVE  Steady(g)
<1> DEFINE q == queues[s[1]][s[2]]
           n == Round(s[1], q)
<1>1. /\ Made(g)' = Made(g) /\ Waiting(g, "sent")' = Waiting(g, "sent")
      /\ \A way \in Way : OnWire(g, way)' = OnWire(g, way)
  BY SameParts DEF Poll, PollFails, agentVars
<1>2. s[1] \in Agent /\ s[2] \in Topic /\ q \in Seq(HeardBy(s[1]))
  BY PolledOK
<1>3. /\ Cardinality(Made(g)) \in Nat
      /\ \A way \in Way : /\ IsFiniteSet(Carried(tasks, g, way)) /\ Cardinality(Carried(tasks, g, way)) \in Nat
                          /\ Cardinality(OnWire(g, way)) \in Nat /\ Cardinality(Waiting(g, way)) \in Nat
  BY CountNat DEF Finite
<1>4. CASE Poll(s[1], s[2])
  <2>1. /\ q # <<>> /\ queues' = [queues EXCEPT ![s[1]][s[2]] = <<>>]
        /\ tasks' \subseteq tasks \cup {n}
    BY <1>4 DEF Poll
  <2>2. /\ IsFiniteSet(Waiting(g, "native")') /\ Cardinality(Waiting(g, "native")') \in Nat
        /\ Cardinality(Waiting(g, "native")') <= Cardinality(Waiting(g, "native"))
        /\ s[1] = Coder => /\ Cardinality(Waiting(g, "native")') = 0
                           /\ Waiting(g, "native") = Places(q, g)
    BY <2>1, QueueEmptied
  <2>3. /\ TaskOK(n)
        /\ Cardinality(Load(n, g, "native")) = Cardinality(Places(q, g))
        /\ Cardinality(Load(n, g, "sent")) = 0
        /\ s[1] # Coder => Cardinality(Places(q, g)) = 0
    BY <1>2, <2>1, RoundLoad
  <2>. HIDE DEF q, n
  <2>4. \A way \in Way :
          /\ IsFiniteSet(Carried(tasks, g, way)') /\ Cardinality(Carried(tasks, g, way)') \in Nat
          /\ Cardinality(Load(n, g, way)) \in Nat
          /\ Cardinality(Carried(tasks, g, way)')
               <= Cardinality(Carried(tasks, g, way)) + Cardinality(Load(n, g, way))
    BY <2>1, <2>3, TaskAdded
  <2>5. Finite(g)'
    BY <1>1, <2>2, <2>4 DEF Finite, Way
  <2>6. Cardinality(Load(n, g, "native")) + Cardinality(Waiting(g, "native")')
          <= Cardinality(Waiting(g, "native"))
    BY <1>3, <2>2, <2>3 DEF Way
  <2>7. Live(g)' <= Live(g) /\ Live(g)' + Side(g)' <= Live(g) + Side(g)
    BY <1>1, <1>3, <2>2, <2>3, <2>4, <2>6 DEF Live, Side, Travelling, Way
  <2>. QED  BY <2>5, <2>7 DEF Steady
<1>5. CASE PollFails(s[1], s[2])
  <2>1. \A way \in Way : Carried(tasks, g, way)' = Carried(tasks, g, way)
    BY <1>5, SameParts DEF PollFails
  <2>2. /\ IsFiniteSet(Waiting(g, "native")') /\ Cardinality(Waiting(g, "native")') \in Nat
        /\ Cardinality(Waiting(g, "native")') <= Cardinality(Waiting(g, "native"))
    <3>1. CASE queues' = [queues EXCEPT ![s[1]][s[2]] = <<>>]
      BY <3>1, QueueEmptied
    <3>2. CASE UNCHANGED queues
      BY <1>3, <3>2, SameParts DEF Finite, Way
    <3>. QED  BY <1>5, <3>1, <3>2 DEF PollFails
  <2>3. Finite(g)'
    BY <1>1, <2>1, <2>2 DEF Finite, Way
  <2>. QED  BY <1>1, <1>3, <2>1, <2>2, <2>3 DEF Steady, Live, Side, Travelling, Way
<1>. QED  BY <1>4, <1>5

(* What the coder receives from its inbound queue comes from the other     *)
(* way: then there may be more on the native way than before.              *)
LEMMA RecvCount ==
  ASSUME TypeInv, NEW g, Finite(g), NEW s \in Subscription, Recv(s[1], s[2])
  PROVE  /\ Finite(g)' /\ Live(g)' + Side(g)' <= Live(g) + Side(g)
         /\ s[1] # Coder => Steady(g)
<1> DEFINE q == inbox[s[1]][s[2]]
           n == Round(s[1], q)
<1>1. /\ Made(g)' = Made(g) /\ Waiting(g, "native")' = Waiting(g, "native")
      /\ \A way \in Way : OnWire(g, way)' = OnWire(g, way)
  BY SameParts DEF Recv, agentVars
<1>2. s[1] \in Agent /\ s[2] \in Topic /\ q \in Seq(HeardBy(s[1])) /\ (s[1] = Coder => s[2] = "goals")
  BY PolledOK, AgentAssumption DEF Subscription
<1>3. /\ Cardinality(Made(g)) \in Nat
      /\ \A way \in Way : /\ IsFiniteSet(Carried(tasks, g, way)) /\ Cardinality(Carried(tasks, g, way)) \in Nat
                          /\ Cardinality(OnWire(g, way)) \in Nat /\ Cardinality(Waiting(g, way)) \in Nat
  BY CountNat DEF Finite
<1>4. inbox' = EmptyInbox(s[1]) /\ tasks' = tasks \cup Rest(s[1], q)
  BY DEF Recv
<1>5. /\ IsFiniteSet(Waiting(g, "sent")') /\ Cardinality(Waiting(g, "sent")') \in Nat
      /\ Cardinality(Waiting(g, "sent")') <= Cardinality(Waiting(g, "sent"))
      /\ s[1] = Coder => Cardinality(Waiting(g, "sent")') = 0
  BY <1>2, <1>4, InboxEmptied
<1>6. s[1] = Coder => Waiting(g, "sent") = Places(q, g)
  BY <1>2 DEF Waiting
<1>7. CASE q = <<>>
  <2>1. tasks' = tasks
    BY <1>4, <1>7 DEF Rest
  <2>2. \A way \in Way : Carried(tasks, g, way)' = Carried(tasks, g, way)
    BY <2>1, SameParts
  <2>3. Finite(g)'
    BY <1>1, <1>5, <2>2 DEF Finite, Way
  <2>. QED  BY <1>1, <1>3, <1>5, <2>2, <2>3 DEF Steady, Live, Side, Travelling, Way
<1>8. CASE q # <<>>
  <2>1. tasks' \subseteq tasks \cup {n}
    BY <1>4 DEF Rest
  <2>2. /\ TaskOK(n)
        /\ Cardinality(Load(n, g, "native")) = Cardinality(Places(q, g))
        /\ Cardinality(Load(n, g, "sent")) = 0
        /\ s[1] # Coder => Cardinality(Places(q, g)) = 0
    BY <1>2, <1>8, RoundLoad
  <2>. HIDE DEF q, n
  <2>3. \A way \in Way :
          /\ IsFiniteSet(Carried(tasks, g, way)') /\ Cardinality(Carried(tasks, g, way)') \in Nat
          /\ Cardinality(Load(n, g, way)) \in Nat
          /\ Cardinality(Carried(tasks, g, way)')
               <= Cardinality(Carried(tasks, g, way)) + Cardinality(Load(n, g, way))
    BY <2>1, <2>2, TaskAdded
  <2>4. Finite(g)'
    BY <1>1, <1>5, <2>3 DEF Finite, Way
  <2>5. Cardinality(Load(n, g, "native")) + Cardinality(Waiting(g, "sent")')
          <= Cardinality(Waiting(g, "sent"))
    BY <1>3, <1>5, <1>6, <2>2 DEF Way
  <2>6. Live(g)' + Side(g)' <= Live(g) + Side(g)
    BY <1>1, <1>3, <1>5, <2>2, <2>3, <2>5 DEF Live, Side, Travelling, Way
  <2>7. s[1] # Coder => Live(g)' <= Live(g)
    BY <1>1, <1>3, <2>2, <2>3 DEF Live, Travelling, Way
  <2>. QED  BY <2>4, <2>6, <2>7 DEF Steady
<1>. QED  BY <1>7, <1>8

LEMMA LoopTakesCount ==
  ASSUME TypeInv, NEW g, Finite(g), NEW a \in Agent, LoopTakes(a)
  PROVE  Steady(g)
<1>1. /\ Made(g)' = Made(g) /\ Waiting(g, "native")' = Waiting(g, "native")
      /\ \A way \in Way : /\ OnWire(g, way)' = OnWire(g, way)
                          /\ Carried(tasks, g, way)' = Carried(tasks, g, way)
  BY SameParts DEF LoopTakes, agentVars
<1>2. /\ IsFiniteSet(Waiting(g, "sent")') /\ Cardinality(Waiting(g, "sent")') \in Nat
      /\ Cardinality(Waiting(g, "sent")') <= Cardinality(Waiting(g, "sent"))
  BY InboxEmptied DEF LoopTakes
<1>3. /\ Cardinality(Made(g)) \in Nat
      /\ \A way \in Way : /\ Cardinality(Carried(tasks, g, way)) \in Nat
                          /\ Cardinality(OnWire(g, way)) \in Nat /\ Cardinality(Waiting(g, way)) \in Nat
  BY CountNat DEF Finite
<1>4. Finite(g)'
  BY <1>1, <1>2 DEF Finite, Way
<1>. QED  BY <1>1, <1>2, <1>3, <1>4 DEF Steady, Live, Side, Travelling, Way

(* When nothing changes of what is counted.                                *)
LEMMA NothingCounts ==
  ASSUME NEW g, Finite(g), UNCHANGED <<opened, tasks, wire, queues, inbox>>
  PROVE  Steady(g) /\ Live(g)' = Live(g) /\ Side(g)' = Side(g)
<1>1. /\ Made(g)' = Made(g)
      /\ \A way \in Way : /\ OnWire(g, way)' = OnWire(g, way) /\ Waiting(g, way)' = Waiting(g, way)
                          /\ Carried(tasks, g, way)' = Carried(tasks, g, way)
  BY SameParts DEF Way
<1>2. Live(g)' = Live(g) /\ Side(g)' = Side(g) /\ Finite(g)'
  BY <1>1 DEF Finite, Live, Side, Travelling, Way
<1>. QED  BY <1>2, SumsNat DEF Steady

-----------------------------------------------------------------------------
(***************************************************************************)
(* The work of the agents.                                                 *)
(***************************************************************************)

(* A task ends, or goes on with its batch.                                 *)
LEMMA EndsCount ==
  ASSUME TypeInv, NEW g, Finite(g), NEW t \in tasks, Ends(t),
         UNCHANGED <<opened, wire, queues, inbox>>
  PROVE  Steady(g)
<1>1. TaskOK(t) /\ t.agent \in Agent /\ t.batch \in Seq(HeardBy(t.agent))
  BY DEF TypeInv, TaskType, TaskOK, Task
<1>2. CASE t.batch = <<>>
  <2>1. Becomes(t, {}) /\ {} \subseteq {t}
    BY <1>2 DEF Ends, Rest
  <2>. QED  BY <1>1, <2>1, OnlyTask, LessLoad
<1>3. CASE t.batch # <<>>
  <2> DEFINE n == Round(t.agent, t.batch)
  <2>1. Becomes(t, {n}) /\ TaskOK(n)
    <3>1. n \in Rest(t.agent, t.batch)
      BY <1>3 DEF Rest
    <3>. QED  BY <1>1, <1>3, <3>1, RestOK DEF Ends, Rest
  <2>2. n.batch = t.batch /\ \A way : ~Holds(n, g, way)
    BY DEF Round, Holds
  <2>. HIDE DEF n
  <2>3. \A way \in Way : Cardinality(Load(n, g, way)) <= Cardinality(Load(t, g, way))
    BY <1>1, <2>2, LoadStays
  <2>. QED  BY <2>1, <2>3, LessLoad
<1>. QED  BY <1>2, <1>3

(* A task goes on, still with the goal or without.                         *)
LEMMA GoesOnCount ==
  ASSUME TypeInv, NEW g, Finite(g), NEW t \in tasks, NEW s, At(t, s), TaskOK([t EXCEPT !.stage = s]),
         \/ t.what = "review"
         \/ t.what = "goal" /\ t.stage \in BeforePR,
         UNCHANGED <<opened, wire, queues, inbox>>
  PROVE  Steady(g)
<1> DEFINE n == [t EXCEPT !.stage = s]
<1>1. TaskOK(t)
  BY DEF TypeInv, TaskType
<1>2. n.batch = t.batch /\ n.what = t.what /\ n.body = t.body /\ n.stage = s /\ TaskOK(n)
  BY <1>1, StageIs
<1>3. Becomes(t, {n})
  BY DEF At
<1>. HIDE DEF n
<1>4. \A way : Holds(n, g, way) => Holds(t, g, way)
  BY <1>2 DEF Holds
<1>5. \A way \in Way : Cardinality(Load(n, g, way)) <= Cardinality(Load(t, g, way))
  BY <1>1, <1>2, <1>4, LoadStays
<1>. QED  BY <1>2, <1>3, <1>5, LessLoad

(* The next message of a batch is skipped, or handled: a goal that the     *)
(* coder works on has waited at the head of its batch.                     *)
LEMMA TakesCount ==
  ASSUME TypeInv, NEW g, Finite(g), NEW t \in tasks, Skip(t) \/ HandleGoal(t) \/ HandlePR(t)
  PROVE  Steady(g)
<1> DEFINE m == Head(t.batch)
           rest == Tail(t.batch)
<1>0. t.what = "round" /\ UNCHANGED <<opened, wire, queues, inbox>>
  BY DEF Skip, HandleGoal, HandlePR, Handles, brokerVars, agentVars
<1>1. /\ TaskOK(t) /\ t.agent \in Agent /\ t.batch \in Seq(HeardBy(t.agent)) /\ t.batch # <<>>
      /\ m \in HeardBy(t.agent) /\ rest \in Seq(HeardBy(t.agent))
  BY <1>0, AtMessage DEF TypeInv, TaskType
<1>2. CASE Becomes(t, Rest(t.agent, rest))
  <2> DEFINE n == Round(t.agent, rest)
  <2>1. CASE rest = <<>>
    <3>1. Becomes(t, {}) /\ {} \subseteq {t}
      BY <1>2, <2>1 DEF Rest
    <3>. QED  BY <1>0, <1>1, <3>1, LessLoad, OnlyTask
  <2>2. CASE rest # <<>>
    <3>1. Becomes(t, {n}) /\ TaskOK(n)
      <4>1. n \in Rest(t.agent, rest)
        BY <2>2 DEF Rest
      <4>. QED  BY <1>1, <1>2, <2>2, <4>1, RestOK DEF Rest
    <3>2. n.batch = Tail(t.batch) /\ \A way : ~Holds(n, g, way)
      BY DEF Round, Holds
    <3>. HIDE DEF n
    <3>3. \A way : Cardinality(Load(n, g, way)) <= Cardinality(Load(t, g, way))
      BY <1>1, <3>2, LoadTaken
    <3>. QED  BY <1>0, <3>1, <3>3, LessLoad
  <2>. QED  BY <2>1, <2>2
<1>3. ASSUME NEW what, NEW stage, Becomes(t, {Handling(t.agent, what, stage, m, rest)}),
             \/ what = "goal" /\ stage = "lookup" /\ t.agent = Coder
             \/ what = "review" /\ stage = "fetch" /\ t.agent = Gateway
      PROVE  Steady(g)
  <2> DEFINE n == Handling(t.agent, what, stage, m, rest)
  <2>1. t.agent = Coder => m \in Message /\ m.topic = "goals" /\ m.body \in Goal
    BY <1>1, BodyHeard, AgentAssumption DEF HeardBy, Listens, Subscription
  <2>2. t.agent = Gateway => m.body \in PR
    BY <1>1, PRHeard
  <2>3. TaskOK(n)
    BY <1>1, <1>3, <2>1, <2>2, HandlingOK
  <2>4. n.batch = Tail(t.batch) /\ n.body = m.body /\ n.what = what
    BY DEF Handling
  <2>5. Becomes(t, {n})
    BY <1>3
  <2>. HIDE DEF n
  <2>6. ASSUME NEW way, Holds(n, g, way) PROVE way = "native" /\ m \in Copies(g)
    BY <1>3, <2>1, <2>4, <2>6 DEF Holds, Copies
  <2>7. \A way : Cardinality(Load(n, g, way)) <= Cardinality(Load(t, g, way))
    BY <1>1, <2>4, <2>6, LoadTaken
  <2>. QED  BY <1>0, <2>3, <2>5, <2>7, LessLoad
<1>. QED  BY <1>2, <1>3 DEF Skip, HandleGoal, HandlePR

(* The goal becomes a pull request: the task has it no more.               *)
LEMMA WriteCount ==
  ASSUME TypeInv, NEW g, Finite(g), NEW t \in tasks, Write(t)
  PROVE  Steady(g)
<1> DEFINE n == [t EXCEPT !.stage = "publish", !.body = Len(opened')]
<1>1. /\ t \in Task /\ TaskOK(t) /\ t.what = "goal" /\ t.stage = "write" /\ t.body \in Goal
  BY DEF TypeInv, TaskType, TaskOK, Write, Publishing
<1>2. /\ opened \in Seq(Goal) /\ opened' = Append(opened, t.body) /\ Becomes(t, {n})
      /\ UNCHANGED <<wire, queues, inbox>>
  BY DEF TypeInv, AgentType, Write, brokerVars
<1>3. n.batch = t.batch /\ n.what = "goal" /\ n.stage = "publish"
  BY <1>1 DEF Task
<1>4. TaskOK(n)
  <2>1. TaskType' /\ n \in tasks'
    BY <1>2, WriteOK DEF TypeInv, Becomes
  <2>. QED  BY <2>1 DEF TaskType, TaskOK
<1>. HIDE DEF n
<1>5. \A way : ~Holds(n, g, way)
  BY <1>3 DEF Holds, BeforePR
<1>6. \A way \in Way :
        /\ IsFiniteSet(Carried(tasks, g, way)') /\ Cardinality(Carried(tasks, g, way)') \in Nat
        /\ Cardinality(Load(t, g, way)) \in Nat /\ Cardinality(Load(n, g, way)) \in Nat
        /\ Cardinality(Carried(tasks, g, way)') + Cardinality(Load(t, g, way))
             <= Cardinality(Carried(tasks, g, way)) + Cardinality(Load(n, g, way))
  BY <1>2, <1>4, TaskPart
<1>7. \A way \in Way :
        /\ Cardinality(Load(n, g, way)) <= Cardinality(Load(t, g, way))
        /\ Holds(t, g, way) => Cardinality(Load(n, g, way)) + 1 <= Cardinality(Load(t, g, way))
  BY <1>1, <1>3, <1>5, LoadStays
<1>8. /\ IsFiniteSet(Made(g)') /\ Cardinality(Made(g)') \in Nat
      /\ Cardinality(Made(g)') <= Cardinality(Made(g)) + 1
      /\ t.body # g => Cardinality(Made(g)') <= Cardinality(Made(g))
  <2>1. /\ DOMAIN opened' = DOMAIN opened \cup {Len(opened) + 1}
        /\ \A p \in DOMAIN opened : opened'[p] = opened[p]
        /\ opened'[Len(opened) + 1] = t.body
    BY <1>2
  <2>2. Made(g)' \subseteq Made(g) \cup {Len(opened) + 1}
    BY <2>1 DEF Made
  <2>3. t.body # g => Made(g)' \subseteq Made(g)
    BY <2>1 DEF Made
  <2>4. IsFiniteSet(Made(g))
    BY DEF Finite
  <2>5. t.body # g => Cardinality(Made(g)') <= Cardinality(Made(g))
    BY <2>3, <2>4, CountAtMost
  <2>. QED  BY <2>2, <2>4, <2>5, CountOneMore
<1>9. \A way \in Way : OnWire(g, way)' = OnWire(g, way) /\ Waiting(g, way)' = Waiting(g, way)
  BY <1>2, SameParts DEF Way
<1>10. /\ Cardinality(Made(g)) \in Nat
       /\ \A way \in Way : /\ Cardinality(Carried(tasks, g, way)) \in Nat
                           /\ Cardinality(OnWire(g, way)) \in Nat /\ Cardinality(Waiting(g, way)) \in Nat
  BY CountNat DEF Finite
<1>11. t.body = g => Holds(t, g, "native")
  BY <1>1 DEF Holds, BeforePR
<1>12. Finite(g)'
  BY <1>6, <1>8, <1>9 DEF Finite
<1>13. Live(g)' <= Live(g)
  BY <1>6, <1>7, <1>8, <1>9, <1>10, <1>11 DEF Live, Travelling, Way
<1>14. Side(g)' <= Side(g)
  BY <1>6, <1>7, <1>9, <1>10 DEF Side, Travelling, Way
<1>15. Live(g) \in Nat /\ Side(g) \in Nat /\ Live(g)' \in Nat /\ Side(g)' \in Nat
  BY <1>6, <1>8, <1>9, <1>10 DEF Live, Side, Travelling, Way
<1>. QED  BY <1>12, <1>13, <1>14, <1>15 DEF Steady

LEMMA WorksCount ==
  ASSUME TypeInv, NEW g, Finite(g), NEW t \in tasks, Works(t)
  PROVE  Steady(g)
<1>0. TaskOK(t)
  BY DEF TypeInv, TaskType
<1>1. CASE LookUp(t) \/ Think(t)
  <2>1. /\ t.what = "goal" /\ t.stage \in BeforePR /\ UNCHANGED <<opened, wire, queues, inbox>>
    BY <1>1 DEF LookUp, Think, BeforePR, brokerVars
  <2>2. PICK s \in {"think", "write"} : At(t, s)
    BY <1>1 DEF LookUp, Think
  <2>3. s \in Stage /\ s \in BeforePR
    BY DEF Stage, BeforePR
  <2>4. TaskOK([t EXCEPT !.stage = s])
    BY <1>0, <2>1, <2>3, StageOK
  <2>. QED  BY <2>1, <2>2, <2>4, GoesOnCount
<1>2. CASE Fetch(t)
  <2>1. t.what = "review" /\ At(t, "publish") /\ UNCHANGED <<opened, wire, queues, inbox>>
    BY <1>2 DEF Fetch, brokerVars, agentVars
  <2>2. TaskOK([t EXCEPT !.stage = "publish"])
    BY <1>0, <2>1, StageOK DEF Stage, Publishing
  <2>. QED  BY <2>1, <2>2, GoesOnCount
<1>3. CASE GoalFails(t) \/ ReviewEnds(t)
  <2>1. Ends(t) /\ UNCHANGED <<opened, wire, queues, inbox>>
    BY <1>3 DEF GoalFails, ReviewEnds, brokerVars
  <2>. QED  BY <2>1, EndsCount
<1>. QED  BY <1>1, <1>2, <1>3, TakesCount, WriteCount DEF Works

LEMMA PublishedCount ==
  ASSUME TypeInv, NEW g, Finite(g), NEW t \in tasks, Published(t)
  PROVE  Steady(g)
<1>1. UNCHANGED <<opened, wire, queues, inbox>>
  BY DEF Published, brokerVars
<1>2. CASE t.what = "review" /\ At(t, "run")
  <2>1. TaskOK([t EXCEPT !.stage = "run"])
    BY <1>2, StageOK DEF TypeInv, TaskType, Stage
  <2>. QED  BY <1>1, <1>2, <2>1, GoesOnCount
<1>. QED  BY <1>1, <1>2, EndsCount DEF Published

(* A goal that is broadcast, and each call for it, is one copy more.       *)
LEMMA GivenCount ==
  ASSUME TypeInv, NEW g, Finite(g), NEW h \in Goal, Inject(h) \/ Ask(h) \/ AskAgain(h)
  PROVE  /\ Finite(g)' /\ Live(g)' <= Live(g) + 1 /\ Side(g)' <= Side(g)
         /\ g # h => Steady(g)
<1>1. PICK n \in {Alone(Gateway, "inject", "publish", h), Called(h, asked'[h])} :
        tasks' \subseteq tasks \cup {n} /\ TaskOK(n)
  <2>1. CASE Inject(h)
    <3>1. TaskOK(Alone(Gateway, "inject", "publish", h))
      BY AgentAssumption, AloneOK
    <3>. QED  BY <2>1, <3>1 DEF Inject
  <2>2. CASE Ask(h) \/ AskAgain(h)
    BY <2>2, AsksOK
  <2>. QED  BY <2>1, <2>2
<1>2. TaskOK(n)
  BY <1>1
<1>3. n.batch = <<>> /\ n.body = h /\ ~Holds(n, g, "sent")
  BY DEF Called, Alone, Holds
<1>4. Load(n, g, "native") \subseteq {0} /\ Load(n, g, "sent") = {} /\ (g # h => Load(n, g, "native") = {})
  <2>1. Places(n.batch, g) = {}
    BY <1>3 DEF Places
  <2>. QED  BY <1>3, <2>1 DEF Load, Holds
<1>5. /\ Cardinality(Load(n, g, "native")) <= 1 /\ Cardinality(Load(n, g, "sent")) = 0
      /\ (g # h => Cardinality(Load(n, g, "native")) = 0)
  <2>1. Load(n, g, "native") = {} \/ Load(n, g, "native") = {0}
    BY <1>4
  <2>2. Cardinality({}) = 0 /\ Cardinality({0}) = 1
    BY FS_EmptySet, FS_Singleton
  <2>. QED  BY <1>4, <2>1, <2>2
<1>6. \A way \in Way :
        /\ IsFiniteSet(Carried(tasks, g, way)') /\ Cardinality(Carried(tasks, g, way)') \in Nat
        /\ Cardinality(Load(n, g, way)) \in Nat
        /\ Cardinality(Carried(tasks, g, way)')
             <= Cardinality(Carried(tasks, g, way)) + Cardinality(Load(n, g, way))
  BY <1>1, <1>2, TaskAdded
<1>7. /\ Made(g)' = Made(g)
      /\ \A way \in Way : OnWire(g, way)' = OnWire(g, way) /\ Waiting(g, way)' = Waiting(g, way)
  BY SameParts DEF Inject, Ask, AskAgain, brokerVars, Way
<1>8. /\ Cardinality(Made(g)) \in Nat
      /\ \A way \in Way : /\ Cardinality(Carried(tasks, g, way)) \in Nat
                          /\ Cardinality(OnWire(g, way)) \in Nat /\ Cardinality(Waiting(g, way)) \in Nat
  BY CountNat DEF Finite
<1>9. Finite(g)'
  BY <1>6, <1>7 DEF Finite
<1>10. /\ Live(g)' <= Live(g) + 1 /\ Side(g)' <= Side(g) /\ (g # h => Live(g)' <= Live(g))
  BY <1>5, <1>6, <1>7, <1>8 DEF Live, Side, Travelling, Way
<1>11. Live(g) \in Nat /\ Side(g) \in Nat /\ Live(g)' \in Nat /\ Side(g)' \in Nat
  BY <1>6, <1>7, <1>8 DEF Live, Side, Travelling, Way
<1>. QED  BY <1>9, <1>10, <1>11 DEF Steady

-----------------------------------------------------------------------------
(***************************************************************************)
(* The invariant.                                                          *)
(***************************************************************************)

(* The counts grow no more, with or without a fault.                       *)
LEMMA SteadyKeeps ==
  ASSUME NEW g, ClockType, CopyInv(g), Steady(g), goals' \subseteq goals, asked'[g] = asked[g],
         \/ faults' = faults /\ (~native'[Coder] => ~native[Coder])
         \/ faults' = faults + 1
  PROVE  CopyInv(g)'
<1>1. Live(g) \in Nat /\ Side(g) \in Nat /\ faults \in Nat
  BY SumsNat, BoundAssumption DEF CopyInv, ClockType
<1>2. Finite(g)' /\ Live(g)' \in Nat /\ Side(g)' \in Nat
  <2>1. Finite(g)'
    BY DEF Steady
  <2>. QED  BY <2>1, CountNat DEF Finite, Live, Side, Travelling, Way
<1>3. Live(g)' <= Live(g) /\ Live(g)' + Side(g)' <= Live(g) + Side(g)
  BY DEF Steady
<1>. QED  BY <1>1, <1>2, <1>3 DEF CopyInv, Excuse

(* One copy more, which a fault has left on the other way.                 *)
LEMMA CopyKeeps ==
  ASSUME NEW g, ClockType, GivenInv, CopyInv(g), g \notin goals, UNCHANGED <<goals, asked>>,
         Finite(g)', Live(g)' <= Live(g), Live(g)' + Side(g)' <= Live(g) + Side(g) + 1,
         faults' = faults + 1, native'[Coder] = native[Coder]
  PROVE  CopyInv(g)'
<1>1. Live(g) \in Nat /\ Side(g) \in Nat /\ faults \in Nat
  BY SumsNat, BoundAssumption DEF CopyInv, ClockType
<1>2. Live(g)' \in Nat /\ Side(g)' \in Nat
  BY CountNat DEF Finite, Live, Side, Travelling, Way
<1>3. ~native[Coder] => faults # 0
  BY AgentAssumption DEF GivenInv
<1>. QED  BY <1>1, <1>2, <1>3 DEF CopyInv, Excuse

(* The coder takes copies from the other way only while it is on it.       *)
LEMMA ReceivedKeeps ==
  ASSUME NEW g, ClockType, CopyInv(g), ~native[Coder], UNCHANGED <<faults, native, goals, asked>>,
         Finite(g)', Live(g)' + Side(g)' <= Live(g) + Side(g)
  PROVE  CopyInv(g)'
<1>1. Live(g) \in Nat /\ Side(g) \in Nat /\ faults \in Nat
  BY SumsNat, BoundAssumption DEF CopyInv, ClockType
<1>2. Live(g)' \in Nat /\ Side(g)' \in Nat
  BY CountNat DEF Finite, Live, Side, Travelling, Way
<1>. QED  BY <1>1, <1>2 DEF CopyInv, Excuse

LEMMA GivenKeeps ==
  ASSUME NEW g \in Goal, TypeInv, CopyInv(g), NEW h \in Goal, Inject(h) \/ Ask(h) \/ AskAgain(h)
  PROVE  CopyInv(g)'
<1>0. /\ Finite(g)' /\ Live(g)' <= Live(g) + 1 /\ Side(g)' <= Side(g)
      /\ g # h => Steady(g)
  BY GivenCount DEF CopyInv
<1>1. /\ Live(g) \in Nat /\ Side(g) \in Nat /\ faults \in Nat
      /\ Live(g) + Side(g) <= 1 + faults /\ (g \in goals => Live(g) = 0 /\ Side(g) = 0)
  BY SumsNat, BoundAssumption DEF CopyInv, TypeInv, ClockType
<1>2. Live(g)' \in Nat /\ Side(g)' \in Nat
  BY <1>0, CountNat DEF Finite, Live, Side, Travelling, Way
<1>3. goals' \subseteq goals /\ UNCHANGED native
  BY DEF Inject, Ask, AskAgain, clientVars
<1>4. CASE g = h /\ Inject(h)
  <2>1. h \in goals /\ h \notin goals' /\ UNCHANGED <<faults, asked>>
    BY <1>4 DEF Inject
  <2>. QED  BY <1>0, <1>1, <1>2, <1>4, <2>1 DEF CopyInv, Excuse
<1>5. CASE g = h /\ (Ask(h) \/ AskAgain(h))
  <2>1. asked'[g] # 0 /\ g \notin goals'
    <3>1. asked'[h] = asked[h] + 1 /\ asked[h] \in 0 .. Attempts - 1
      BY <1>5, AsksOK
    <3>2. h \notin goals'
      BY <1>5 DEF Ask, AskAgain, TypeInv, AgentType
    <3>. QED  BY <1>5, <3>1, <3>2 DEF Attempts
  <2>2. (Live(g) = 0 /\ Side(g) = 0 /\ faults' = faults) \/ faults' = faults + 1
    BY <1>1, <1>5 DEF Ask, AskAgain, Faulty
  <2>. QED  BY <1>0, <1>1, <1>2, <2>1, <2>2 DEF CopyInv
<1>6. CASE g # h
  <2>1. asked'[g] = asked[g]
    <3>1. CASE Inject(h)
      BY <3>1 DEF Inject
    <3>2. CASE Ask(h) \/ AskAgain(h)
      BY <1>6, <3>2, AsksOK DEF TypeInv, AgentType
    <3>. QED  BY <3>1, <3>2
  <2>2. UNCHANGED faults \/ faults' = faults + 1
    BY DEF Inject, Ask, AskAgain, Faulty
  <2>. QED  BY <1>0, <1>3, <1>6, <2>1, <2>2, SteadyKeeps DEF TypeInv
<1>. QED  BY <1>4, <1>5, <1>6

LEMMA CopyStep ==
  ASSUME TypeInv, GivenInv, NEW g \in Goal, CopyInv(g), Next
  PROVE  CopyInv(g)'
<1>0. Finite(g) /\ ClockType /\ ClientType /\ Coder \in Agent
  BY AgentAssumption DEF CopyInv, TypeInv
<1>1. ASSUME NEW t \in tasks, Publish(t) \/ Broadcast(t) \/ Works(t) PROVE CopyInv(g)'
  <2>1. Steady(g)
    BY <1>0, <1>1, PublishCount, BroadcastCount, WorksCount
  <2>2. CASE Publish(t) \/ Broadcast(t)
    BY <1>0, <2>1, <2>2, SteadyKeeps DEF Publish, Broadcast, clientVars, agentVars
  <2>3. CASE Works(t)
    <3>1. UNCHANGED <<faults, native, goals, asked>>
      BY <2>3 DEF Works, Skip, HandleGoal, HandlePR, LookUp, Think, Write, GoalFails, Fetch, ReviewEnds,
                  clientVars, agentVars
    <3>. QED  BY <1>0, <2>1, <3>1, SteadyKeeps
  <2>. QED  BY <1>1, <2>2, <2>3
<1>2. ASSUME NEW t \in tasks, PublishFails(t) PROVE CopyInv(g)'
  <2>1. /\ Finite(g)' /\ Live(g)' <= Live(g) /\ Live(g)' + Side(g)' <= Live(g) + Side(g) + 1
        /\ t.what # "inject" \/ t.body # g => Steady(g)
    BY <1>0, <1>2, PublishFailsCount
  <2>2. faults' = faults + 1 /\ UNCHANGED <<goals, asked>> /\ native' = [native EXCEPT ![t.agent] = FALSE]
    BY <1>2 DEF PublishFails, Faulty, agentVars
  <2>3. CASE t.what = "inject" /\ t.body = g
    <3>1. t.agent = Gateway /\ g \notin goals
      BY <2>3 DEF GivenInv
    <3>2. native'[Coder] = native[Coder]
      BY <1>0, <2>2, <3>1, AgentAssumption DEF ClientType
    <3>. QED  BY <1>0, <2>1, <2>2, <3>1, <3>2, CopyKeeps
  <2>4. CASE t.what # "inject" \/ t.body # g
    BY <1>0, <2>1, <2>2, <2>4, SteadyKeeps
  <2>. QED  BY <2>3, <2>4
<1>3. ASSUME NEW t \in tasks, Published(t) PROVE CopyInv(g)'
  <2>1. Steady(g) /\ UNCHANGED <<faults, goals, asked>>
    BY <1>0, <1>3, PublishedCount DEF Published
  <2>2. ~native'[Coder] => ~native[Coder]
    BY <1>0, <1>3 DEF Published, ClientType
  <2>. QED  BY <1>0, <2>1, <2>2, SteadyKeeps
<1>4. ASSUME NEW w \in wire, Arrives(w) PROVE CopyInv(g)'
  <2>1. \/ Steady(g) /\ UNCHANGED faults
        \/ Steady(g) /\ Faulty
        \/ /\ Faulty /\ Side(g) # 0
           /\ Finite(g)' /\ Live(g)' <= Live(g) /\ Live(g)' + Side(g)' <= Live(g) + Side(g) + 1
    BY <1>0, <1>4, ArrivesCount
  <2>2. UNCHANGED <<native, goals, asked>>
    BY <1>4 DEF Arrives, clientVars, agentVars
  <2>3. Side(g) # 0 => g \notin goals
    BY DEF CopyInv
  <2>. QED  BY <1>0, <2>1, <2>2, <2>3, SteadyKeeps, CopyKeeps DEF Faulty
<1>5. ASSUME NEW w \in wire, Misses(w) PROVE CopyInv(g)'
  <2>1. Steady(g) /\ faults' = faults + 1 /\ UNCHANGED <<goals, asked>>
    BY <1>0, <1>5, MissesCount DEF Misses, Faulty, agentVars
  <2>. QED  BY <1>0, <2>1, SteadyKeeps
<1>6. ASSUME NEW s \in Subscription, Polls(s[1], s[2]) PROVE CopyInv(g)'
  <2>1. CASE Poll(s[1], s[2])
    <3>1. Steady(g) /\ UNCHANGED <<faults, native, goals, asked>>
      BY <1>0, <2>1, PollCount DEF Poll, clientVars, agentVars
    <3>. QED  BY <1>0, <3>1, SteadyKeeps
  <2>2. CASE PollFails(s[1], s[2])
    <3>1. Steady(g) /\ faults' = faults + 1 /\ UNCHANGED <<goals, asked>>
      BY <1>0, <2>2, PollCount DEF PollFails, Faulty, agentVars
    <3>. QED  BY <1>0, <3>1, SteadyKeeps
  <2>3. CASE Recv(s[1], s[2])
    <3>1. /\ Finite(g)' /\ Live(g)' + Side(g)' <= Live(g) + Side(g)
          /\ s[1] # Coder => Steady(g)
      BY <1>0, <2>3, RecvCount
    <3>2. ~native[s[1]] /\ UNCHANGED <<faults, native, goals, asked>>
      BY <2>3 DEF Recv, MayRecv, clientVars, agentVars
    <3>. QED  BY <1>0, <3>1, <3>2, SteadyKeeps, ReceivedKeeps
  <2>. QED  BY <1>6, <2>1, <2>2, <2>3 DEF Polls
<1>7. ASSUME NEW a \in Agent, LoopTakes(a) PROVE CopyInv(g)'
  <2>1. Steady(g) /\ UNCHANGED <<faults, native, goals, asked>>
    BY <1>0, <1>7, LoopTakesCount DEF LoopTakes, clientVars, agentVars
  <2>. QED  BY <1>0, <2>1, SteadyKeeps
<1>8. ASSUME NEW a \in Agent, StillWorks(a) PROVE CopyInv(g)'
  <2>1. Steady(g) /\ UNCHANGED <<faults, goals, asked>>
    BY <1>0, <1>8, NothingCounts DEF StillWorks, brokerVars, agentVars
  <2>2. ~native'[Coder] => ~native[Coder]
    BY <1>0, <1>8 DEF StillWorks, ClientType
  <2>. QED  BY <1>0, <2>1, <2>2, SteadyKeeps
<1>9. ASSUME Tick PROVE CopyInv(g)'
  <2>1. Steady(g) /\ UNCHANGED <<faults, native, goals, asked>>
    BY <1>0, <1>9, NothingCounts DEF Tick, brokerVars, clientVars, agentVars
  <2>. QED  BY <1>0, <2>1, SteadyKeeps
<1>10. ASSUME NEW h \in Goal, Inject(h) \/ Ask(h) \/ AskAgain(h) PROVE CopyInv(g)'
  BY <1>10, GivenKeeps
<1>. QED  BY <1>1, <1>2, <1>3, <1>4, <1>5, <1>6, <1>7, <1>8, <1>9, <1>10 DEF Next, Publishes

(* Which client is on the other way, and whose goals are published.        *)
LEMMA GivenStep ==
  ASSUME TypeInv, GivenInv, Next
  PROVE  GivenInv'
<1>0. ClientType /\ ClockType /\ \A t \in tasks : TaskOK(t)
  BY DEF TypeInv, TaskType
<1>1. (\E a \in Agent : ~native'[a]) => faults' # 0
  <2>1. CASE Faulty
    BY <1>0, <2>1, BoundAssumption DEF Faulty, ClockType
  <2>2. CASE UNCHANGED faults /\ \A a \in Agent : native[a] => native'[a]
    BY <1>0, <2>2 DEF GivenInv
  <2>3. ASSUME NEW t \in tasks, Publishes(t)
        PROVE  Faulty \/ (UNCHANGED faults /\ \A a \in Agent : native[a] => native'[a])
    BY <1>0, <2>3 DEF Publishes, Publish, PublishFails, Broadcast, Published, clientVars, ClientType
  <2>4. ASSUME NEW t \in tasks, Works(t) PROVE UNCHANGED <<faults, native>>
    BY <2>4 DEF Works, Skip, HandleGoal, HandlePR, LookUp, Think, Write, GoalFails, Fetch, ReviewEnds,
                clientVars
  <2>5. ASSUME NEW s \in Subscription, Polls(s[1], s[2]) PROVE Faulty \/ UNCHANGED <<faults, native>>
    BY <2>5 DEF Polls, Poll, PollFails, Recv, clientVars
  <2>6. ASSUME NEW a \in Agent, StillWorks(a) \/ LoopTakes(a)
        PROVE  UNCHANGED faults /\ \A b \in Agent : native[b] => native'[b]
    BY <1>0, <2>6 DEF StillWorks, LoopTakes, clientVars, ClientType
  <2>7. ASSUME NEW w \in wire, Arrives(w) \/ Misses(w)
        PROVE  Faulty \/ UNCHANGED <<faults, native>>
    BY <2>7 DEF Arrives, Misses, clientVars
  <2>8. ASSUME NEW g \in Goal, Inject(g) \/ Ask(g) \/ AskAgain(g)
        PROVE  Faulty \/ UNCHANGED <<faults, native>>
    BY <2>8 DEF Inject, Ask, AskAgain, clientVars
  <2>. QED  BY <2>1, <2>2, <2>3, <2>4, <2>5, <2>6, <2>7, <2>8 DEF Next, Tick, clientVars
<1>2. \A t \in tasks' : t.what = "inject" => t.agent = Gateway /\ t.body \notin goals'
  <2>1. ASSUME NEW t \in tasks, NEW s, At(t, s), UNCHANGED goals
        PROVE  \A n \in tasks' : n.what = "inject" => n.agent = Gateway /\ n.body \notin goals'
    <3>1. LET n == [t EXCEPT !.stage = s] IN n.what = t.what /\ n.body = t.body /\ n.agent = t.agent
      BY <1>0 DEF TaskOK, Task
    <3>. QED  BY <2>1, <3>1 DEF At, Becomes, GivenInv
  <2>2. ASSUME goals' \subseteq goals, \A n \in tasks' \ tasks : n.what # "inject"
        PROVE  \A n \in tasks' : n.what = "inject" => n.agent = Gateway /\ n.body \notin goals'
    BY <2>2 DEF GivenInv
  <2>3. \A a, q : \A n \in Rest(a, q) : n.what # "inject"
    BY DEF Rest, Round
  <2>4. ASSUME NEW t \in tasks, Publishes(t)
        PROVE  \A n \in tasks' : n.what = "inject" => n.agent = Gateway /\ n.body \notin goals'
    <3>1. UNCHANGED goals /\ (Ends(t) \/ \E s : At(t, s))
      BY <2>4 DEF Publishes, Publish, PublishFails, Broadcast, Published, agentVars
    <3>2. Ends(t) => \A n \in tasks' \ tasks : n.what # "inject"
      BY <2>3 DEF Ends, Becomes
    <3>. QED  BY <2>1, <2>2, <3>1, <3>2
  <2>5. ASSUME NEW t \in tasks, Works(t)
        PROVE  \A n \in tasks' : n.what = "inject" => n.agent = Gateway /\ n.body \notin goals'
    <3>1. CASE LookUp(t) \/ Think(t) \/ Fetch(t)
      BY <2>1, <3>1 DEF LookUp, Think, Fetch, agentVars
    <3>2. CASE Skip(t) \/ GoalFails(t) \/ ReviewEnds(t)
      <4>1. UNCHANGED goals /\ \E a, q : Becomes(t, Rest(a, q))
        BY <3>2 DEF Skip, GoalFails, ReviewEnds, Ends, agentVars
      <4>. QED  BY <2>2, <2>3, <4>1 DEF Becomes
    <3>3. CASE HandleGoal(t) \/ HandlePR(t)
      <4>1. /\ UNCHANGED goals
            /\ \/ \E a, q : Becomes(t, Rest(a, q))
               \/ \E a, m, q : \/ Becomes(t, {Handling(a, "goal", "lookup", m, q)})
                               \/ Becomes(t, {Handling(a, "review", "fetch", m, q)})
        BY <3>3 DEF HandleGoal, HandlePR
      <4>2. \A n \in tasks' \ tasks : n.what # "inject"
        BY <2>3, <4>1 DEF Becomes, Handling
      <4>. QED  BY <2>2, <4>1, <4>2
    <3>4. CASE Write(t)
      <4>1. LET n == [t EXCEPT !.stage = "publish", !.body = Len(opened')] IN n.what = "goal"
        BY <1>0, <3>4 DEF Write, TaskOK, Task
      <4>. QED  BY <2>2, <3>4, <4>1 DEF Write, Becomes
    <3>. QED  BY <2>5, <3>1, <3>2, <3>3, <3>4 DEF Works
  <2>6. ASSUME NEW s \in Subscription, Polls(s[1], s[2])
        PROVE  \A n \in tasks' : n.what = "inject" => n.agent = Gateway /\ n.body \notin goals'
    <3>1. \A n \in tasks' \ tasks : n.what # "inject"
      BY <2>3, <2>6 DEF Polls, Poll, PollFails, Recv, Round
    <3>. QED  BY <2>2, <2>6, <3>1 DEF Polls, Poll, PollFails, Recv, agentVars
  <2>7. ASSUME NEW g \in Goal, Inject(g) \/ Ask(g) \/ AskAgain(g)
        PROVE  \A n \in tasks' : n.what = "inject" => n.agent = Gateway /\ n.body \notin goals'
    <3>1. CASE Inject(g)
      BY <3>1 DEF Inject, Alone, GivenInv
    <3>2. CASE Ask(g) \/ AskAgain(g)
      <4>1. \A n : Called(g, n).what = "goal"
        BY DEF Called, Alone
      <4>. QED  BY <2>2, <3>2, <4>1 DEF Ask, AskAgain, Asked
    <3>. QED  BY <2>7, <3>1, <3>2
  <2>8. ASSUME UNCHANGED <<goals, tasks>>
        PROVE  \A n \in tasks' : n.what = "inject" => n.agent = Gateway /\ n.body \notin goals'
    BY <2>8 DEF GivenInv
  <2>. QED  BY <2>4, <2>5, <2>6, <2>7, <2>8
            DEF Next, Tick, StillWorks, LoopTakes, Arrives, Misses, agentVars
<1>. QED  BY <1>1, <1>2 DEF GivenInv

(* A goal that is broadcast becomes more than one pull request only after  *)
(* two faults: one lost answer, poll or send never makes the coder work    *)
(* twice, whatever else is published, polled, handled or given meanwhile.  *)
(* One that another agent calls for becomes at most one more than there    *)
(* are faults: no fault has two effects.                                   *)
THEOREM GoalsBecomeOnePR == Spec => []OneGoalOnePR
<1>1. Init => CountInv
  <2>. SUFFICES ASSUME Init PROVE CountInv
    OBVIOUS
  <2>1. TypeInv /\ GivenInv
    BY InitTypeInv DEF Init, GivenInv
  <2>2. ASSUME NEW g \in Goal PROVE CopyInv(g)
    <3>1. queues[Coder]["goals"] = <<>> /\ inbox[Coder]["goals"] = <<>>
      BY AgentAssumption DEF Init, Topic
    <3>2. /\ Made(g) = {}
          /\ \A way \in Way : Carried(tasks, g, way) = {} /\ OnWire(g, way) = {} /\ Waiting(g, way) = {}
      BY <3>1 DEF Init, Made, Carried, OnWire, Waiting, Places
    <3>3. IsFiniteSet({}) /\ Cardinality({}) = 0
      BY FS_EmptySet
    <3>4. Finite(g) /\ Live(g) = 0 /\ Side(g) = 0
      BY <3>2, <3>3 DEF Finite, Live, Side, Travelling, Way
    <3>. QED  BY <3>4 DEF Init, CopyInv, Excuse
  <2>. QED  BY <2>1, <2>2 DEF CountInv
<1>2. CountInv /\ [Next]_vars => CountInv'
  <2>1. ASSUME CountInv, Next PROVE CountInv'
    <3>1. TypeInv' /\ GivenInv'
      BY <2>1, NextTypeInv, GivenStep DEF CountInv
    <3>2. \A g \in Goal : CopyInv(g)'
      BY <2>1, CopyStep DEF CountInv
    <3>. QED  BY <3>1, <3>2 DEF CountInv
  <2>2. ASSUME CountInv, UNCHANGED vars PROVE CountInv'
    <3>1. TypeInv' /\ UNCHANGED <<faults, native, goals, asked, opened, tasks, wire, queues, inbox>>
      BY <2>2, NextTypeInv DEF CountInv, vars, brokerVars, clientVars, agentVars
    <3>2. GivenInv'
      BY <2>2, <3>1 DEF CountInv, GivenInv
    <3>3. ASSUME NEW g \in Goal PROVE CopyInv(g)'
      <4>1. CopyInv(g) /\ ClockType
        BY <2>2 DEF CountInv, TypeInv
      <4>2. Steady(g)
        BY <3>1, <4>1, NothingCounts DEF CopyInv
      <4>. QED  BY <3>1, <4>1, <4>2, SteadyKeeps
    <3>. QED  BY <3>1, <3>2, <3>3 DEF CountInv
  <2>. QED  BY <2>1, <2>2
<1>3. CountInv => OneGoalOnePR
  <2>. SUFFICES ASSUME CountInv, NEW g \in Goal
                PROVE  \/ Cardinality(Made(g)) <= 1 \/ Cardinality(Made(g)) <= faults
                       \/ asked[g] > 0 /\ Cardinality(Made(g)) <= faults + 1
    BY DEF OneGoalOnePR, Made
  <2>1. CopyInv(g) /\ faults \in Nat /\ (asked[g] = 0 \/ asked[g] > 0)
    BY BoundAssumption DEF CountInv, TypeInv, ClockType, AgentType
  <2>2. /\ Cardinality(Made(g)) \in Nat
        /\ \A way \in Way : /\ Cardinality(Carried(tasks, g, way)) \in Nat
                            /\ Cardinality(OnWire(g, way)) \in Nat /\ Cardinality(Waiting(g, way)) \in Nat
    BY <2>1, CountNat DEF CopyInv, Finite
  <2>3. Cardinality(Made(g)) <= Live(g) /\ Live(g) \in Nat /\ Side(g) \in Nat
    BY <2>2 DEF Live, Side, Travelling, Way
  <2>. QED  BY <2>1, <2>2, <2>3 DEF CopyInv, Excuse
<1>. QED  BY <1>1, <1>2, <1>3, PTL DEF Spec

=============================================================================
