--------------------------- MODULE GlobalFixProofs ---------------------------
(* The election of GlobalFix is safe for any number of agents and errors.     *)
EXTENDS GlobalFix, TLAPS

\* An agent that is not idle knows its error.
BusyHasError == \A a \in Agents : pc[a] # "idle" => error[a] \in Errors

\* The pending signatures are exactly the ones that have an owner.
PendingHasOwner == pending = { sig(a) : a \in Owners }

SleepersArePending == \A a \in Agents : pc[a] = "sleeping" => sig(a) \in pending

Inv == TypeOK /\ BusyHasError /\ PendingHasOwner /\ OneFix /\ SleepersArePending

USE NoErrorAssumption, SignatureAssumption

LEMMA InitInv == Init => Inv
BY DEF Init, Inv, TypeOK, Labels, BusyHasError, PendingHasOwner, OneFix, Owners,
   SleepersArePending

\* An agent that takes or keeps a label outside the owners' disturbs nobody, when
\* the coordinator's sets stay as they are.
LEMMA NonOwnerMoves ==
  ASSUME Inv, NEW a \in Agents, NEW l \in Labels \ {"executing", "reporting"},
         NEW e \in Errors \cup {NoError},
         pc' = [pc EXCEPT ![a] = l], error' = [error EXCEPT ![a] = e],
         l # "idle" => e \in Errors,
         l = "sleeping" => Signature[e] \in pending,
         a \notin Owners, UNCHANGED <<pending, completed, success>>,
         late' \subseteq Agents
  PROVE  Inv'
<1>1. TypeOK' BY DEF Inv, TypeOK
<1>2. \A b \in Agents : /\ pc'[b] = IF b = a THEN l ELSE pc[b]
                        /\ error'[b] = IF b = a THEN e ELSE error[b]
  BY DEF Inv, TypeOK
<1>3. Owners' = Owners /\ \A b \in Owners : sig(b)' = sig(b) BY <1>2 DEF Owners, sig
<1>4. BusyHasError' BY <1>2 DEF Inv, BusyHasError
<1>5. PendingHasOwner' BY <1>3 DEF Inv, PendingHasOwner
<1>6. OneFix' BY <1>3 DEF Inv, OneFix
<1>7. SleepersArePending' BY <1>2 DEF Inv, SleepersArePending, sig
<1> QED BY <1>1, <1>4, <1>5, <1>6, <1>7 DEF Inv

LEMMA RequestFixInv ==
  ASSUME Inv, NEW a \in Agents, NEW e \in Errors, RequestFix(a, e)
  PROVE  Inv'
<1>0. pc[a] = "idle" /\ a \notin Owners BY DEF RequestFix, Owners
<1>1. CASE UNCHANGED <<pending, pc, error>>
  BY <1>1 DEF RequestFix, Inv, TypeOK, BusyHasError, PendingHasOwner, OneFix, Owners,
     SleepersArePending, sig
<1>2. CASE /\ Goto(a, "waits") /\ error' = [error EXCEPT ![a] = e]
           /\ UNCHANGED pending
  <2>1. "waits" \in Labels \ {"executing", "reporting"} BY DEF Labels
  <2>2. UNCHANGED <<pending, completed, late, success>> BY <1>2 DEF RequestFix
  <2>3. late' \subseteq Agents BY <2>2 DEF Inv, TypeOK
  <2>4. pc' = [pc EXCEPT ![a] = "waits"] BY <1>2 DEF Goto
  <2> QED BY <1>0, <1>2, <2>1, <2>2, <2>3, <2>4, NonOwnerMoves
<1>3. CASE /\ Signature[e] \notin pending \cup completed
           /\ pending' = pending \cup {Signature[e]}
           /\ Goto(a, "executing")
           /\ error' = [error EXCEPT ![a] = e]
  <2>1. \A b \in Agents : /\ pc'[b] = IF b = a THEN "executing" ELSE pc[b]
                          /\ error'[b] = IF b = a THEN e ELSE error[b]
    BY <1>3 DEF Goto, Inv, TypeOK
  <2>2. UNCHANGED <<completed, late, success>> BY DEF RequestFix
  <2>3. TypeOK' BY <1>3, <2>2 DEF Goto, Inv, TypeOK, Labels, Signatures
  <2>4. Owners' = Owners \cup {a} BY <2>1 DEF Owners
  <2>5. sig(a)' = Signature[e] /\ \A b \in Agents \ {a} : sig(b)' = sig(b)
    BY <2>1 DEF sig
  <2>6. BusyHasError' BY <2>1 DEF Inv, BusyHasError
  <2>7. PendingHasOwner'
    <3>1. \A b \in Owners : sig(b)' = sig(b) BY <1>0, <2>5 DEF Owners
    <3> QED BY <1>3, <2>4, <2>5, <3>1 DEF Inv, PendingHasOwner
  <2>8. OneFix'
    <3>1. \A b \in Owners : sig(b) \in pending BY DEF Inv, PendingHasOwner
    <3>2. \A b \in Owners : sig(b)' = sig(b) BY <1>0, <2>5 DEF Owners
    <3> QED BY <1>3, <2>2, <2>4, <2>5, <3>1, <3>2 DEF Inv, OneFix
  <2>9. SleepersArePending' BY <1>3, <2>1 DEF Inv, SleepersArePending, sig
  <2> QED BY <2>3, <2>6, <2>7, <2>8, <2>9 DEF Inv
<1> QED BY <1>1, <1>2, <1>3 DEF RequestFix

LEMMA CommandEndsInv ==
  ASSUME Inv, NEW a \in Agents, CommandEnds(a)
  PROVE  Inv'
<1>1. TypeOK' BY DEF CommandEnds, Goto, Inv, TypeOK, Labels
<1>2. \A b \in Agents : pc'[b] = IF b = a THEN "reporting" ELSE pc[b]
  BY DEF CommandEnds, Goto, Inv, TypeOK
<1>3. Owners' = Owners /\ \A b \in Agents : sig(b)' = sig(b)
  BY <1>2 DEF CommandEnds, Owners, sig
<1>4. UNCHANGED <<pending, completed, error>> /\ pc[a] # "idle" BY DEF CommandEnds
<1>5. BusyHasError' BY <1>2, <1>4 DEF Inv, BusyHasError
<1>6. PendingHasOwner'
  <2>1. \A b \in Owners : sig(b)' = sig(b) BY <1>3 DEF Owners
  <2> QED BY <2>1, <1>3, <1>4 DEF Inv, PendingHasOwner
<1>7. OneFix'
  <2>1. Owners \subseteq Agents BY DEF Owners
  <2> QED BY <2>1, <1>3, <1>4 DEF Inv, OneFix
<1>8. SleepersArePending' BY <1>2, <1>3, <1>4 DEF Inv, SleepersArePending
<1> QED BY <1>1, <1>5, <1>6, <1>7, <1>8 DEF Inv

\* The owner is the only one of its signature, so its report leaves the
\* signature to nobody and wakes every sleeper.
LEMMA ReportInv ==
  ASSUME Inv, NEW a \in Agents, ReportFixResult(a)
  PROVE  Inv'
<1> DEFINE s == sig(a)
<1>0. a \in Owners /\ s \in Signatures
  BY DEF ReportFixResult, Owners, Inv, BusyHasError, sig, Signatures
<1>1. Awake \in [Agents -> Labels] BY DEF Awake, Inv, TypeOK, Labels
<1>2. \A b \in Agents :
        /\ pc'[b] = IF b = a THEN "idle" ELSE IF pc[b] = "sleeping" THEN "woken" ELSE pc[b]
        /\ error'[b] = IF b = a THEN NoError ELSE error[b]
  BY <1>1 DEF ReportFixResult, Awake, Inv, TypeOK
<1>3. TypeOK' BY <1>0, <1>1 DEF ReportFixResult, Inv, TypeOK, Labels
<1>4. Owners' = Owners \ {a} BY <1>2 DEF Owners
<1>5. \A b \in Owners' : sig(b)' = sig(b) BY <1>2, <1>4 DEF Owners, sig
<1>6. \A b \in Owners' : sig(b) # s BY <1>0, <1>4 DEF Inv, OneFix
<1>7. BusyHasError' BY <1>2 DEF Inv, BusyHasError
<1>8. PendingHasOwner'
  <2>1. pending' = pending \ {s} BY DEF ReportFixResult
  <2>2. pending = { sig(b) : b \in Owners } BY DEF Inv, PendingHasOwner
  <2>3. pending' = { sig(b) : b \in Owners' } BY <2>1, <2>2, <1>0, <1>4, <1>6
  <2> QED BY <2>3, <1>5 DEF PendingHasOwner
<1>9. OneFix'
  <2>1. completed' \subseteq completed \cup {s} BY DEF ReportFixResult
  <2> QED BY <2>1, <1>4, <1>5, <1>6 DEF Inv, OneFix
<1>10. SleepersArePending' BY <1>2 DEF SleepersArePending
<1> QED BY <1>3, <1>7, <1>8, <1>9, <1>10 DEF Inv

LEMMA WaiterInv ==
  ASSUME Inv, NEW a \in Agents, WaitForFix(a) \/ LookAgain(a) \/ DeadlinePasses(a)
  PROVE  Inv'
<1>0. a \notin Owners /\ pc[a] # "idle"
  BY DEF WaitForFix, LookAgain, DeadlinePasses, Owners
<1>1. error[a] \in Errors BY <1>0 DEF Inv, BusyHasError
<1>2. UNCHANGED <<pending, completed, success>> /\ late' \subseteq Agents
  BY DEF WaitForFix, LookAgain, DeadlinePasses, Inv, TypeOK
<1>3. {"idle", "sleeping", "woken"} \subseteq Labels \ {"executing", "reporting"}
  BY DEF Labels
<1>4. CASE Leave(a)
  <2>1. pc' = [pc EXCEPT ![a] = "idle"] /\ error' = [error EXCEPT ![a] = NoError]
    BY <1>4 DEF Leave, Goto
  <2> QED BY <1>0, <1>2, <1>3, <2>1, NonOwnerMoves
<1>5. CASE Goto(a, "sleeping") /\ sig(a) \in pending /\ UNCHANGED error
  <2>1. pc' = [pc EXCEPT ![a] = "sleeping"] /\ error' = [error EXCEPT ![a] = error[a]]
    BY <1>5 DEF Goto, Inv, TypeOK
  <2> QED BY <1>0, <1>1, <1>2, <1>3, <1>5, <2>1, NonOwnerMoves DEF sig
<1>6. CASE Goto(a, "woken") /\ UNCHANGED error
  <2>1. pc' = [pc EXCEPT ![a] = "woken"] /\ error' = [error EXCEPT ![a] = error[a]]
    BY <1>6 DEF Goto, Inv, TypeOK
  <2> QED BY <1>0, <1>1, <1>2, <1>3, <2>1, NonOwnerMoves
<1> QED BY <1>4, <1>5, <1>6 DEF WaitForFix, LookAgain, DeadlinePasses

LEMMA Invariant == Spec => []Inv
<1>1. Inv /\ [Next]_vars => Inv'
  <2> SUFFICES ASSUME Inv, [Next]_vars PROVE Inv' OBVIOUS
  <2>1. CASE UNCHANGED vars
    BY <2>1 DEF vars, Inv, TypeOK, BusyHasError, PendingHasOwner, OneFix, Owners,
       SleepersArePending, sig
  <2>2. CASE Next
    BY <2>2, RequestFixInv, CommandEndsInv, ReportInv, WaiterInv DEF Next, Step
  <2> QED BY <2>1, <2>2
<1> QED BY <1>1, InitInv, PTL DEF Spec

\* Every agent is where the code can have it, and every entry names who reserved it.
THEOREM TypeCorrect == Spec => []TypeOK
<1>1. Inv => TypeOK BY DEF Inv
<1> QED BY <1>1, Invariant, PTL

\* Only one agent at a time executes the fix of a signature, and none executes a
\* fix that has succeeded: the class comment of GlobalFixCoordinator.
THEOREM OneFixAlways == Spec => []OneFix
<1>1. Inv => OneFix BY DEF Inv
<1> QED BY <1>1, Invariant, PTL

\* A sleeping waiter always has an owner at work whose report will wake it.
THEOREM NoMissedWakeUpAlways == Spec => []NoMissedWakeUp
<1>1. Inv => NoMissedWakeUp
  BY DEF Inv, SleepersArePending, PendingHasOwner, NoMissedWakeUp
<1> QED BY <1>1, Invariant, PTL
=============================================================================
