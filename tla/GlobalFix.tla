------------------------------ MODULE GlobalFix ------------------------------
(* GlobalFixCoordinator of core/conductor.py: the agents of one process that   *)
(* run into the same project-wide error elect one of them to execute the fix,  *)
(* and the others wait for it under a condition variable. The caller is the    *)
(* shell branch of _attempt_self_correction in core/agent.py.                  *)
EXTENDS FiniteSets

CONSTANTS Agents,
          Errors,
          Signature,   \* Signature[e]: _hash_error, which conflates errors
          NoError

Signatures == { Signature[e] : e \in Errors }

ASSUME NoErrorAssumption == NoError \notin Errors
ASSUME SignatureAssumption == Signature \in [Errors -> Signatures]

VARIABLES pending,    \* _pending: the signatures somebody is fixing
          completed,  \* _completed: the signatures that are fixed
          pc,
          error,      \* the error each agent is trying to fix
          late,       \* the waiters whose 60 seconds are over
          success     \* the agents whose command has succeeded

vars == <<pending, completed, pc, error, late, success>>

Labels == {"idle", "waits", "sleeping", "woken", "executing", "reporting"}

sig(a) == Signature[error[a]]

\* The agents that were told to execute, and have not reported.
Owners == { a \in Agents : pc[a] \in {"executing", "reporting"} }

Init ==
  /\ pending = {} /\ completed = {}
  /\ pc = [a \in Agents |-> "idle"]
  /\ error = [a \in Agents |-> NoError]
  /\ late = {} /\ success = {}

Goto(a, label) == pc' = [pc EXCEPT ![a] = label]

\* The verdict is recorded and the agent goes on with its task.
Leave(a) == Goto(a, "idle") /\ error' = [error EXCEPT ![a] = NoError]

-----------------------------------------------------------------------------
\* Mutant: the cache of completed fixes is not consulted.
RequestFix_NoCache(a, e) ==
  /\ pc[a] = "idle"
  /\ error' = [error EXCEPT ![a] = e]
  /\ \/ Signature[e] \in pending /\ Goto(a, "waits") /\ UNCHANGED pending
     \/ /\ Signature[e] \notin pending
        /\ pending' = pending \cup {Signature[e]}
        /\ Goto(a, "executing")
  /\ UNCHANGED <<completed, late, success>>

\* An agent whose error is already fixed goes on at once.
RequestFix(a, e) ==
  /\ pc[a] = "idle"
  /\ \/ Signature[e] \in completed /\ UNCHANGED <<pending, pc, error>>
     \/ /\ Signature[e] \in pending \ completed
        /\ Goto(a, "waits")
        /\ error' = [error EXCEPT ![a] = e]
        /\ UNCHANGED pending
     \/ /\ Signature[e] \notin pending \cup completed
        /\ pending' = pending \cup {Signature[e]}
        /\ Goto(a, "executing")
        /\ error' = [error EXCEPT ![a] = e]
  /\ UNCHANGED <<completed, late, success>>

\* The command returns, with whatever code, or is killed after 120 seconds.
CommandEnds(a) ==
  /\ pc[a] = "executing"
  /\ success' \in {success, success \cup {a}}
  /\ Goto(a, "reporting")
  /\ UNCHANGED <<pending, completed, error, late>>

\* notify_all: every waiter of every signature will look again.
Awake == [b \in Agents |-> IF pc[b] = "sleeping" THEN "woken" ELSE pc[b]]

\* Mutant: only a success is announced.
ReportFixResult_SilentFailure(a) ==
  /\ pc[a] = "reporting"
  /\ pending' = pending \ {sig(a)}
  /\ completed' = IF a \in success THEN completed \cup {sig(a)} ELSE completed
  /\ pc' = [(IF a \in success THEN Awake ELSE pc) EXCEPT ![a] = "idle"]
  /\ error' = [error EXCEPT ![a] = NoError]
  /\ success' = success \ {a}
  /\ UNCHANGED late

\* Mutant: the error is cached as it is, not by its signature.
ReportFixResult_Unhashed(a) ==
  /\ pc[a] = "reporting"
  /\ pending' = pending \ {sig(a)}
  /\ completed' = IF a \in success THEN completed \cup {error[a]} ELSE completed
  /\ pc' = [Awake EXCEPT ![a] = "idle"]
  /\ error' = [error EXCEPT ![a] = NoError]
  /\ success' = success \ {a}
  /\ UNCHANGED late

ReportFixResult(a) ==
  /\ pc[a] = "reporting"
  /\ pending' = pending \ {sig(a)}
  /\ completed' = IF a \in success THEN completed \cup {sig(a)} ELSE completed
  /\ pc' = [Awake EXCEPT ![a] = "idle"]
  /\ error' = [error EXCEPT ![a] = NoError]
  /\ success' = success \ {a}
  /\ UNCHANGED late

\* wait_for_fix takes the lock, which request_fix had given back.
WaitForFix(a) ==
  /\ pc[a] = "waits"
  /\ IF sig(a) \in pending THEN Goto(a, "sleeping") /\ UNCHANGED error ELSE Leave(a)
  /\ UNCHANGED <<pending, completed, late, success>>

\* The deadline counts from the start of the wait, asleep or not.
DeadlinePasses(a) ==
  /\ pc[a] \in {"sleeping", "woken"} /\ a \notin late
  /\ late' = late \cup {a}
  /\ Goto(a, "woken")
  /\ UNCHANGED <<pending, completed, error, success>>

\* Mutant: every wake-up is given the whole timeout again.
LookAgain_TimerRestarts(a) ==
  /\ pc[a] = "woken"
  /\ IF sig(a) \in pending
     THEN Goto(a, "sleeping") /\ UNCHANGED error
     ELSE Leave(a)
  /\ late' = late \ {a}
  /\ UNCHANGED <<pending, completed, success>>

LookAgain(a) ==
  /\ pc[a] = "woken"
  /\ IF sig(a) \in pending /\ a \notin late
     THEN Goto(a, "sleeping") /\ UNCHANGED <<error, late>>
     ELSE Leave(a) /\ late' = late \ {a}
  /\ UNCHANGED <<pending, completed, success>>

-----------------------------------------------------------------------------
Step(a) == CommandEnds(a) \/ ReportFixResult(a) \/ WaitForFix(a) \/ LookAgain(a)

Next == \E a \in Agents :
          Step(a) \/ DeadlinePasses(a) \/ \E e \in Errors : RequestFix(a, e)

Spec == Init /\ [][Next]_vars

\* Threads are scheduled and clocks advance.
FairSpec == Spec /\ \A a \in Agents : WF_vars(Step(a)) /\ WF_vars(DeadlinePasses(a))

-----------------------------------------------------------------------------
\* The coordinator's dictionaries are keyed by signatures, never by the errors
\* themselves, and every agent is at a label of the protocol.
TypeOK ==
  /\ pending \subseteq Signatures /\ completed \subseteq Signatures
  /\ pc \in [Agents -> Labels]
  /\ error \in [Agents -> Errors \cup {NoError}]
  /\ late \subseteq Agents /\ success \subseteq Agents

\* "Only ONE fix is executed (not N times for N agents)": two agents never
\* execute fixes of one signature at a time, nor one that has already succeeded.
OneFix ==
  /\ \A a, b \in Owners : sig(a) = sig(b) => a = b
  /\ \A a \in Owners : sig(a) \notin completed

\* No waiter sleeps for a fix that nobody is executing: the wake-up was not
\* missed between request_fix and wait_for_fix, whose lock sections are separate.
NoMissedWakeUp ==
  \A a \in Agents : pc[a] = "sleeping" => \E b \in Owners : sig(b) = sig(a)

\* Whoever waits is let go, by a report or by its deadline, although owner after
\* owner may fail and be replaced before the waiter looks again.
WaiterReturns ==
  \A a \in Agents : (pc[a] \in {"waits", "sleeping", "woken"}) ~> (pc[a] = "idle")
=============================================================================
