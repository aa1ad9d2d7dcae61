--------------------------- MODULE ActionDelivery ---------------------------
(***************************************************************************)
(* What SyncEngine.executeOrQueue promises its callers, without saying how: *)
(* an action handed over stays open until its executor has resolved or it   *)
(* has been given up, and only a crash of the process can lose it.          *)
(***************************************************************************)
EXTENDS Naturals

CONSTANT Action

VARIABLES
  fate,     (* what has become of each action                              *)
  crashes   (* how often the process has crashed                           *)

Fates == {"new", "open", "done", "abandoned", "lost"}

Init == fate = [a \in Action |-> "new"] /\ crashes = 0

Submit(a) ==
  fate[a] = "new" /\ fate' = [fate EXCEPT ![a] = "open"] /\ UNCHANGED crashes

(* An action given up may still be done: its removal from the queue may    *)
(* have failed to reach the file that the next process loads.              *)
Deliver(a) ==
  /\ fate[a] \in {"open", "abandoned"}
  /\ fate' = [fate EXCEPT ![a] = "done"]
  /\ UNCHANGED crashes

Abandon(a) ==
  fate[a] = "open" /\ fate' = [fate EXCEPT ![a] = "abandoned"] /\ UNCHANGED crashes

Crash ==
  /\ crashes' = crashes + 1
  /\ \E lost \in SUBSET {a \in Action : fate[a] = "open"} :
       fate' = [a \in Action |-> IF a \in lost THEN "lost" ELSE fate[a]]

Next == (\E a \in Action : Submit(a) \/ Deliver(a) \/ Abandon(a)) \/ Crash

Spec == Init /\ [][Next]_<<fate, crashes>>

=============================================================================
