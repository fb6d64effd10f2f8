-------------------------- MODULE EngineRunProofs ---------------------------
(* What EngineRun promises, for any errors, thresholds, caps, budgets and     *)
(* numbers of retries, rounds, steps and executions.                          *)
EXTENDS EngineRun, TLAPS

Settled == {"conclude", "done"}

\* A label is its engine's, and an execution has a result at its end only; a step
\* is corrected only while there is one.
Placed ==
  /\ pc \in ReactLabels => engine = "react"
  /\ pc \in DelegatedLabels => engine = "delegated"
  /\ pc \in PlanLabels => engine = "plan"
  /\ pc \in Settled \cup {"ended"} => result # "none"
  /\ pc \notin Settled \cup {"ended", "finally"} => result = "none"
  /\ pc \in {"lint", "mend"} => step < PlanSteps

\* Gates look at what an agent declared finished and a child, if guarded, changed.
Verified ==
  /\ pc \in {"verify", "gates", "fix", "fixTools"} => declared
  /\ pc \in {"wrapGates", "lastGates"} => declared /\ (guarded => changed)
  /\ CompletedIsVerified

\* What an execution has asked, by engine and label.
Asked ==
  /\ engine = "react" => question = NoQuestion /\ (result # "blocked" => asked = {})
  /\ pc \in DelegatedLabels \cup {"steps", "lint", "mend", "ask", "gate", "repair"} => asked = {}
  /\ pc = "prepare" => asked = {} \/ (stage = "recovered" /\ asked = {"escalation"})
  /\ pc = "ended" => CASE result = "blocked" -> asked = {question}
                       [] result = "failed"  -> asked \in {{}, {"escalation"}}
                       [] OTHER              -> asked = {}
  /\ pc = "conclude" => /\ result = "blocked" /\ engine # "react" => asked \subseteq {question}
                        /\ result = "completed" => asked = {}

\* What the provider bills is in the table or still with the agent, and every agent
\* that calls knows what was in the table before it, unless the accounting slipped.
Accounted ==
  /\ pc \in Settled \cup DelegatedLabels \cup {"idle", "start", "retry"} => records = 0
  /\ ~slip /\ pc \in {"loop", "call", "tools", "verify", "gates", "fix", "fixTools"}
       => prior = charged
  /\ pc = "call" => ~OverCap
  /\ cap > 0 /\ ~slip => spent = charged + (IF engine = "react" THEN records ELSE 0)
  /\ SpendWithinCap

IInv == TypeOK /\ Placed /\ Verified /\ Asked /\ Accounted

\* TypeOK in parts.
EngineTyped ==
  /\ pc \in Labels /\ engine \in Engines /\ result \in Results
  /\ attempt \in Nat /\ failures \in [Errors -> Nat]
  /\ tree \in {"unchecked", "green", "red"} /\ declared \in BOOLEAN
  /\ asked \subseteq Questions /\ question \in Questions \cup {NoQuestion}
MoneyTyped ==
  /\ cap \in Caps /\ priced \in BOOLEAN /\ slip \in BOOLEAN
  /\ prior \in Nat /\ records \in Nat /\ charged \in Nat /\ spent \in Nat
LoopTyped ==
  /\ iterations \in Nat /\ repeats \in Nat /\ turn \in Nat /\ stalls \in Nat
  /\ stallAction \in StallActions
  /\ monitor \in {"off", "watching", "decided", "spent"}
  /\ quiet \in BOOLEAN /\ stalled \in BOOLEAN
  /\ strict \in BOOLEAN /\ guarded \in BOOLEAN /\ changed \in BOOLEAN
PlanTyped ==
  /\ step \in 0..PlanSteps /\ streak \in Nat /\ vstreak \in Nat /\ tries \in Nat
  /\ stage \in Stages /\ kept \in Questions \cup {NoQuestion}
  /\ executions \in 0..MaxExecutions

\* A step the contract allows.
Contracted == [Contract!Next]_(Contract!contractVars)

-----------------------------------------------------------------------------
LEMMA Typed == TypeOK <=> EngineTyped /\ MoneyTyped /\ LoopTyped /\ PlanTyped
  BY DEF TypeOK, EngineTyped, MoneyTyped, LoopTyped, PlanTyped

LEMMA TypedNext == TypeOK' <=> EngineTyped' /\ MoneyTyped' /\ LoopTyped' /\ PlanTyped'
  BY DEF TypeOK, EngineTyped, MoneyTyped, LoopTyped, PlanTyped

LEMMA Working ==
  ASSUME pc \notin {"idle", "done"}, pc' \notin {"idle", "done"}, asked' = asked
  PROVE  Contracted
  BY DEF Contracted, Contract!contractVars

LEMMA Resting ==
  ASSUME pc' = pc, result' = result, asked' = asked
  PROVE  Contracted
  BY DEF Contracted, Contract!contractVars

LEMMA Asking ==
  ASSUME pc \notin {"idle", "done"}, pc' \notin {"idle", "done"}, asked = {},
         \E q \in Questions : asked' = {q}
  PROVE  Contracted
  BY DEF Contracted, Contract!Next, Contract!Ask

USE DEF childVars

LEMMA StartInv ==
  ASSUME IInv, engine = "react", Start,
         UNCHANGED <<childVars, planVars, executions>>
  PROVE  IInv' /\ Contracted
<1>1. TypeOK'
  <2>1. EngineTyped'
    BY CapsAssumption DEF IInv, TypeOK, EngineTyped, Placed, Labels, ReactLabels,
           DelegatedLabels, PlanLabels, Engines, Results, Questions, NoFailures, Stages,
           StallActions, Start, Goto, loop, planVars, counters
  <2>2. MoneyTyped'
    <3>1. slip' \in BOOLEAN  BY DEF IInv, TypeOK, Start
    <3>2. prior' \in Nat  BY DEF IInv, TypeOK, Start
    <3> QED  BY <3>1, <3>2 DEF IInv, TypeOK, MoneyTyped, Start
  <2>3. LoopTyped'
    BY DEF IInv, TypeOK, LoopTyped, StallActions, Start, Goto, loop, planVars, counters
  <2>4. PlanTyped'
    BY PlanAssumption DEF IInv, TypeOK, PlanTyped, Placed, Questions, Stages,
           StallActions, Start, Goto, loop, planVars, counters
  <2> QED  BY <2>1, <2>2, <2>3, <2>4, TypedNext
<1>2. Placed' /\ Verified'
  BY DEF IInv, TypeOK, Placed, Verified, CompletedIsVerified, Settled, ReactLabels,
         DelegatedLabels, PlanLabels, Start, Goto, loop, planVars, counters
<1>3. Asked'
  BY DEF IInv, TypeOK, Placed, Asked, Settled, ReactLabels, DelegatedLabels, PlanLabels,
         Stages, Start, Goto, loop, planVars, counters
<1>4. Accounted'
  <2>1. ~slip' => ~slip /\ prior' = charged
    <3>1. CASE prior' = charged /\ UNCHANGED slip  BY <3>1
    <3>2. CASE prior' = 0 /\ slip' = (slip \/ charged > 0)
      <4>1. ~slip' => ~slip /\ ~(charged > 0)  BY <3>2
      <4>2. ~(charged > 0) => charged = 0  BY DEF IInv, TypeOK
      <4> QED  BY <3>2, <4>1, <4>2
    <3> QED  BY <3>1, <3>2 DEF Start
  <2> QED  BY <2>1 DEF IInv, TypeOK, Placed, Accounted, SpendWithinCap, Settled, ReactLabels,
                       DelegatedLabels, Start, Goto
<1>5. Contracted
  BY Working, Asking, Resting DEF IInv, TypeOK, Placed, Asked, Settled, ReactLabels,
         DelegatedLabels, PlanLabels, Questions, Start, Goto, loop, planVars, counters
<1> QED  BY <1>1, <1>2, <1>3, <1>4, <1>5 DEF IInv

LEMMA RaiseInv ==
  ASSUME IInv, engine = "react", Raise,
         UNCHANGED <<childVars, planVars, executions>>
  PROVE  IInv' /\ Contracted
<1>1. TypeOK'
  BY CapsAssumption, PlanAssumption DEF IInv, TypeOK, Placed, Labels, ReactLabels,
         DelegatedLabels, PlanLabels, Engines, Results, Questions, NoFailures, Stages,
         StallActions, Raise, Return, reactVars, money, watch, loop, planVars, counters
<1>2. Placed' /\ Verified'
  BY DEF IInv, TypeOK, Placed, Verified, CompletedIsVerified, Settled, ReactLabels,
         DelegatedLabels, PlanLabels, Raise, Return, reactVars, money, watch, loop,
         planVars, counters
<1>3. Asked'
  BY DEF IInv, TypeOK, Placed, Asked, Settled, ReactLabels, DelegatedLabels, PlanLabels,
         Stages, Raise, Return, reactVars, money, watch, loop, planVars, counters
<1>4. Accounted'
  BY CapsAssumption DEF IInv, TypeOK, Placed, Accounted, SpendWithinCap, OverCap,
         OverCapAt, Settled, ReactLabels, DelegatedLabels, PlanLabels, Raise, Return,
         reactVars, money, watch, loop, planVars, counters
<1>5. Contracted
  BY Working, Asking, Resting DEF IInv, TypeOK, Placed, Asked, Settled, ReactLabels,
         DelegatedLabels, PlanLabels, Questions, Raise, Return, reactVars, money, watch,
         loop, planVars, counters
<1> QED  BY <1>1, <1>2, <1>3, <1>4, <1>5 DEF IInv

LEMMA FinallyInv ==
  ASSUME IInv, engine = "react", Finally,
         UNCHANGED <<childVars, planVars, executions>>
  PROVE  IInv' /\ Contracted
<1>1. TypeOK'
  <2>1. EngineTyped'
    BY CapsAssumption DEF IInv, TypeOK, EngineTyped, Placed, Labels, ReactLabels,
           DelegatedLabels, PlanLabels, Engines, Results, Questions, NoFailures, Stages,
           StallActions, Finally, Goto, Persist, planVars, counters
  <2>2. MoneyTyped'
    <3>1. slip' \in BOOLEAN  BY DEF IInv, TypeOK, Finally, Persist
    <3>2. charged' \in Nat /\ records' = 0 /\ prior' = 0
      BY DEF IInv, TypeOK, Finally, Persist
    <3> QED  BY <3>1, <3>2 DEF IInv, TypeOK, MoneyTyped, Finally
  <2>3. LoopTyped'
    BY DEF IInv, TypeOK, LoopTyped, StallActions, Finally, Goto, Persist, planVars,
           counters
  <2>4. PlanTyped'
    BY PlanAssumption DEF IInv, TypeOK, PlanTyped, Placed, Questions, Stages,
           StallActions, Finally, Goto, Persist, planVars, counters
  <2> QED  BY <2>1, <2>2, <2>3, <2>4, TypedNext
<1>2. Placed' /\ Verified'
  BY DEF IInv, TypeOK, Placed, Verified, CompletedIsVerified, Settled, ReactLabels,
         DelegatedLabels, PlanLabels, Finally, Goto, Persist, planVars, counters
<1>3. Asked'
  BY DEF IInv, TypeOK, Placed, Asked, Settled, ReactLabels, DelegatedLabels, PlanLabels,
         Stages, Finally, Goto, Persist, planVars, counters
<1>4. Accounted'
  <2>1. ~slip' => ~slip /\ charged' = charged + records
    <3>1. CASE charged' = charged + records /\ UNCHANGED slip  BY <3>1
    <3>2. CASE UNCHANGED charged /\ slip' = (slip \/ records > 0)
      <4>1. ~slip' => ~slip /\ ~(records > 0)  BY <3>2
      <4>2. ~(records > 0) => charged = charged + records  BY DEF IInv, TypeOK
      <4> QED  BY <3>2, <4>1, <4>2
    <3> QED  BY <3>1, <3>2 DEF Finally, Persist
  <2>2. slip => slip'  BY <2>1 DEF IInv, TypeOK
  <2>3. records' = 0 /\ spent' = spent /\ cap' = cap /\ priced' = priced /\ engine' = engine
    BY DEF Finally, Persist, Goto
  <2>4. pc' \in {"retry", "conclude"}  BY DEF Finally, Goto
  <2>5. cap' > 0 /\ ~slip' => spent' = charged' + records'
    <3>1. cap > 0 /\ ~slip => spent = charged + records
      BY DEF IInv, Accounted, Placed, Finally, ReactLabels
    <3> QED  BY <2>1, <2>3, <3>1 DEF IInv, TypeOK
  <2>6. SpendWithinCap'
    <3>1. cap > 0 /\ priced => slip \/ spent <= cap  BY DEF IInv, Accounted, SpendWithinCap
    <3> QED  BY <2>2, <2>3, <3>1 DEF IInv, TypeOK, SpendWithinCap
  <2>7. engine' = "react"  BY <2>3 DEF IInv, Placed, Finally, ReactLabels
  <2> QED  BY <2>3, <2>4, <2>5, <2>6, <2>7 DEF Accounted
<1>5. Contracted
  BY Working, Asking, Resting DEF IInv, TypeOK, Placed, Asked, Settled, ReactLabels,
         DelegatedLabels, PlanLabels, Questions, Finally, Goto, Persist, planVars,
         counters
<1> QED  BY <1>1, <1>2, <1>3, <1>4, <1>5 DEF IInv

LEMMA RetryInv ==
  ASSUME IInv, engine = "react", Retry,
         UNCHANGED <<childVars, planVars, executions>>
  PROVE  IInv' /\ Contracted
<1>1. TypeOK'
  <2>1. EngineTyped'
    <3>1. CASE stalls < MaxStallRetries
      <4>1. /\ pc' = "start" /\ attempt' = 0 /\ failures' = NoFailures
            /\ tree' = "unchecked" /\ declared' = FALSE
            /\ UNCHANGED <<engine, asked, question, result>>
        BY <3>1 DEF Retry
      <4>2. NoFailures \in [Errors -> Nat]  BY DEF NoFailures
      <4> QED  BY <4>1, <4>2 DEF IInv, TypeOK, EngineTyped, Labels, ReactLabels
    <3>2. CASE ~(stalls < MaxStallRetries)
      BY <3>2 DEF IInv, TypeOK, EngineTyped, Labels, Results, Retry
    <3> QED  BY <3>1, <3>2
  <2>2. MoneyTyped'
    BY CapsAssumption DEF IInv, TypeOK, MoneyTyped, StallActions, Retry, money, watch,
           loop, planVars, counters
  <2>3. LoopTyped'
    BY DEF IInv, TypeOK, LoopTyped, StallActions, Retry, money, watch, loop, planVars,
           counters
  <2>4. PlanTyped'
    BY PlanAssumption DEF IInv, TypeOK, PlanTyped, Placed, Questions, Stages,
           StallActions, Retry, money, watch, loop, planVars, counters
  <2> QED  BY <2>1, <2>2, <2>3, <2>4, TypedNext
<1>2. Placed' /\ Verified'
  BY DEF IInv, TypeOK, Placed, Verified, CompletedIsVerified, Settled, ReactLabels,
         DelegatedLabels, PlanLabels, Retry, money, watch, loop, planVars, counters
<1>3. Asked'
  BY DEF IInv, TypeOK, Placed, Asked, Settled, ReactLabels, DelegatedLabels, PlanLabels,
         Stages, Retry, money, watch, loop, planVars, counters
<1>4. Accounted'
  BY CapsAssumption DEF IInv, TypeOK, Placed, Accounted, SpendWithinCap, OverCap,
         OverCapAt, Settled, ReactLabels, DelegatedLabels, PlanLabels, Retry, money,
         watch, loop, planVars, counters
<1>5. Contracted
  BY Working, Asking, Resting DEF IInv, TypeOK, Placed, Asked, Settled, ReactLabels,
         DelegatedLabels, PlanLabels, Questions, Retry, money, watch, loop, planVars,
         counters
<1> QED  BY <1>1, <1>2, <1>3, <1>4, <1>5 DEF IInv

LEMMA IterateInv ==
  ASSUME IInv, engine = "react", Iterate,
         UNCHANGED <<childVars, planVars, executions>>
  PROVE  IInv' /\ Contracted
<1>1. TypeOK'
  BY CapsAssumption, PlanAssumption DEF IInv, TypeOK, Placed, Labels, ReactLabels,
         DelegatedLabels, PlanLabels, Engines, Results, Questions, NoFailures, Stages,
         StallActions, Iterate, BlockNow, Block, Goto, Return, reactVars, money, watch,
         loop, planVars, counters
<1>2. Placed' /\ Verified'
  BY DEF IInv, TypeOK, Placed, Verified, CompletedIsVerified, Settled, ReactLabels,
         DelegatedLabels, PlanLabels, Iterate, BlockNow, Block, Goto, Return, reactVars,
         money, watch, loop, planVars, counters
<1>3. Asked'
  BY DEF IInv, TypeOK, Placed, Asked, Settled, ReactLabels, DelegatedLabels, PlanLabels,
         Stages, Iterate, BlockNow, Block, Goto, Return, reactVars, money, watch, loop,
         planVars, counters
<1>4. Accounted'
  BY CapsAssumption DEF IInv, TypeOK, Placed, Accounted, SpendWithinCap, OverCap,
         OverCapAt, Settled, ReactLabels, DelegatedLabels, PlanLabels, Iterate,
         BlockNow, Block, Goto, Return, reactVars, money, watch, loop, planVars,
         counters
<1>5. Contracted
  BY Working, Asking, Resting DEF IInv, TypeOK, Placed, Asked, Settled, ReactLabels,
         DelegatedLabels, PlanLabels, Questions, Iterate, BlockNow, Block, Goto, Return,
         reactVars, money, watch, loop, planVars, counters
<1> QED  BY <1>1, <1>2, <1>3, <1>4, <1>5 DEF IInv

LEMMA RespondInv ==
  ASSUME IInv, engine = "react", Respond,
         UNCHANGED <<childVars, planVars, executions>>
  PROVE  IInv' /\ Contracted
<1>1. TypeOK'
  <2>1. EngineTyped'
    BY CapsAssumption, ZenonT(60) DEF IInv, TypeOK, EngineTyped, Placed, Labels, ReactLabels,
           DelegatedLabels, PlanLabels, Engines, Results, Questions, NoFailures, Stages,
           StallActions, Respond, Charge, Bill, Goto, BlockNow, Block, watch, planVars,
           counters
  <2>2. MoneyTyped'
    BY CapsAssumption DEF IInv, TypeOK, MoneyTyped, StallActions, Respond, Charge, Bill,
           Goto, BlockNow, Block, watch, planVars, counters
  <2>3. LoopTyped'
    BY DEF IInv, TypeOK, LoopTyped, StallActions, Respond, Charge, Bill, Goto, BlockNow,
           Block, watch, planVars, counters
  <2>4. PlanTyped'
    BY PlanAssumption DEF IInv, TypeOK, PlanTyped, Placed, Questions, Stages,
           StallActions, Respond, Charge, Bill, Goto, BlockNow, Block, watch, planVars,
           counters
  <2> QED  BY <2>1, <2>2, <2>3, <2>4, TypedNext
<1>2. Placed' /\ Verified'
  BY DEF IInv, TypeOK, Placed, Verified, CompletedIsVerified, Settled, ReactLabels,
         DelegatedLabels, PlanLabels, Respond, Charge, Bill, Goto, BlockNow, Block,
         watch, planVars, counters
<1>3. Asked'
  BY DEF IInv, TypeOK, Placed, Asked, Settled, ReactLabels, DelegatedLabels, PlanLabels,
         Stages, Respond, Charge, Bill, Goto, BlockNow, Block, watch, planVars, counters
<1>4. Accounted'
  BY CapsAssumption DEF IInv, TypeOK, Placed, Accounted, SpendWithinCap, OverCap,
         OverCapAt, Settled, ReactLabels, DelegatedLabels, PlanLabels, Respond, Charge,
         Bill, Goto, BlockNow, Block, watch, planVars, counters
<1>5. Contracted
  BY Working, Asking, Resting DEF IInv, TypeOK, Placed, Asked, Settled, ReactLabels,
         DelegatedLabels, PlanLabels, Questions, Respond, Charge, Bill, Goto, BlockNow,
         Block, watch, planVars, counters
<1> QED  BY <1>1, <1>2, <1>3, <1>4, <1>5 DEF IInv

LEMMA RunToolsInv ==
  ASSUME IInv, engine = "react", RunTools,
         UNCHANGED <<childVars, planVars, executions>>
  PROVE  IInv' /\ Contracted
<1>1. TypeOK'
  BY CapsAssumption, PlanAssumption DEF IInv, TypeOK, Placed, Labels, ReactLabels,
         DelegatedLabels, PlanLabels, Engines, Results, Questions, NoFailures, Stages,
         StallActions, RunTools, BlockNow, Block, Stuck, Return, Goto, money, planVars,
         counters
<1>2. Placed' /\ Verified'
  BY DEF IInv, TypeOK, Placed, Verified, CompletedIsVerified, Settled, ReactLabels,
         DelegatedLabels, PlanLabels, RunTools, BlockNow, Block, Stuck, Return, Goto,
         money, planVars, counters
<1>3. Asked'
  BY DEF IInv, TypeOK, Placed, Asked, Settled, ReactLabels, DelegatedLabels, PlanLabels,
         Stages, RunTools, BlockNow, Block, Stuck, Return, Goto, money, planVars,
         counters
<1>4. Accounted'
  BY CapsAssumption DEF IInv, TypeOK, Placed, Accounted, SpendWithinCap, OverCap,
         OverCapAt, Settled, ReactLabels, DelegatedLabels, PlanLabels, RunTools,
         BlockNow, Block, Stuck, Return, Goto, money, planVars, counters
<1>5. Contracted
  BY Working, Asking, Resting DEF IInv, TypeOK, Placed, Asked, Settled, ReactLabels,
         DelegatedLabels, PlanLabels, Questions, RunTools, BlockNow, Block, Stuck,
         Return, Goto, money, planVars, counters
<1> QED  BY <1>1, <1>2, <1>3, <1>4, <1>5 DEF IInv

LEMMA EnterRoundInv ==
  ASSUME IInv, engine = "react", EnterRound,
         UNCHANGED <<childVars, planVars, executions>>
  PROVE  IInv' /\ Contracted
<1>1. TypeOK'
  BY CapsAssumption, PlanAssumption DEF IInv, TypeOK, Placed, Labels, ReactLabels,
         DelegatedLabels, PlanLabels, Engines, Results, Questions, NoFailures, Stages,
         StallActions, EnterRound, Goto, Return, reactVars, money, watch, loop,
         planVars, counters
<1>2. Placed' /\ Verified'
  BY DEF IInv, TypeOK, Placed, Verified, CompletedIsVerified, Settled, ReactLabels,
         DelegatedLabels, PlanLabels, EnterRound, Goto, Return, reactVars, money, watch,
         loop, planVars, counters
<1>3. Asked'
  BY DEF IInv, TypeOK, Placed, Asked, Settled, ReactLabels, DelegatedLabels, PlanLabels,
         Stages, EnterRound, Goto, Return, reactVars, money, watch, loop, planVars,
         counters
<1>4. Accounted'
  BY CapsAssumption DEF IInv, TypeOK, Placed, Accounted, SpendWithinCap, OverCap,
         OverCapAt, Settled, ReactLabels, DelegatedLabels, PlanLabels, EnterRound, Goto,
         Return, reactVars, money, watch, loop, planVars, counters
<1>5. Contracted
  BY Working, Asking, Resting DEF IInv, TypeOK, Placed, Asked, Settled, ReactLabels,
         DelegatedLabels, PlanLabels, Questions, EnterRound, Goto, Return, reactVars,
         money, watch, loop, planVars, counters
<1> QED  BY <1>1, <1>2, <1>3, <1>4, <1>5 DEF IInv

LEMMA PassInv ==
  ASSUME IInv, engine = "react", Pass,
         UNCHANGED <<childVars, planVars, executions>>
  PROVE  IInv' /\ Contracted
<1>1. TypeOK'
  BY CapsAssumption, PlanAssumption DEF IInv, TypeOK, Placed, Labels, ReactLabels,
         DelegatedLabels, PlanLabels, Engines, Results, Questions, NoFailures, Stages,
         StallActions, Pass, reactVars, money, watch, loop, planVars, counters
<1>2. Placed' /\ Verified'
  BY DEF IInv, TypeOK, Placed, Verified, CompletedIsVerified, Settled, ReactLabels,
         DelegatedLabels, PlanLabels, Pass, reactVars, money, watch, loop, planVars,
         counters
<1>3. Asked'
  BY DEF IInv, TypeOK, Placed, Asked, Settled, ReactLabels, DelegatedLabels, PlanLabels,
         Stages, Pass, reactVars, money, watch, loop, planVars, counters
<1>4. Accounted'
  BY CapsAssumption DEF IInv, TypeOK, Placed, Accounted, SpendWithinCap, OverCap,
         OverCapAt, Settled, ReactLabels, DelegatedLabels, PlanLabels, Pass, reactVars,
         money, watch, loop, planVars, counters
<1>5. Contracted
  BY Working, Asking, Resting DEF IInv, TypeOK, Placed, Asked, Settled, ReactLabels,
         DelegatedLabels, PlanLabels, Questions, Pass, reactVars, money, watch, loop,
         planVars, counters
<1> QED  BY <1>1, <1>2, <1>3, <1>4, <1>5 DEF IInv

LEMMA GiveUpInv ==
  ASSUME IInv, engine = "react", GiveUp,
         UNCHANGED <<childVars, planVars, executions>>
  PROVE  IInv' /\ Contracted
<1>1. TypeOK'
  BY CapsAssumption, PlanAssumption DEF IInv, TypeOK, Placed, Labels, ReactLabels,
         DelegatedLabels, PlanLabels, Engines, Results, Questions, NoFailures, Stages,
         StallActions, GiveUp, reactVars, money, watch, loop, planVars, counters
<1>2. Placed' /\ Verified'
  BY DEF IInv, TypeOK, Placed, Verified, CompletedIsVerified, Settled, ReactLabels,
         DelegatedLabels, PlanLabels, GiveUp, reactVars, money, watch, loop, planVars,
         counters
<1>3. Asked'
  BY DEF IInv, TypeOK, Placed, Asked, Settled, ReactLabels, DelegatedLabels, PlanLabels,
         Stages, GiveUp, reactVars, money, watch, loop, planVars, counters
<1>4. Accounted'
  BY CapsAssumption DEF IInv, TypeOK, Placed, Accounted, SpendWithinCap, OverCap,
         OverCapAt, Settled, ReactLabels, DelegatedLabels, PlanLabels, GiveUp,
         reactVars, money, watch, loop, planVars, counters
<1>5. Contracted
  BY Working, Asking, Resting DEF IInv, TypeOK, Placed, Asked, Settled, ReactLabels,
         DelegatedLabels, PlanLabels, Questions, GiveUp, reactVars, money, watch, loop,
         planVars, counters
<1> QED  BY <1>1, <1>2, <1>3, <1>4, <1>5 DEF IInv

LEMMA QuickFixInv ==
  ASSUME IInv, engine = "react", QuickFix,
         UNCHANGED <<childVars, planVars, executions>>
  PROVE  IInv' /\ Contracted
<1>1. TypeOK'
  BY CapsAssumption, PlanAssumption DEF IInv, TypeOK, Placed, Labels, ReactLabels,
         DelegatedLabels, PlanLabels, Engines, Results, Questions, NoFailures, Stages,
         StallActions, QuickFix, reactVars, money, watch, loop, planVars, counters
<1>2. Placed' /\ Verified'
  BY DEF IInv, TypeOK, Placed, Verified, CompletedIsVerified, Settled, ReactLabels,
         DelegatedLabels, PlanLabels, QuickFix, reactVars, money, watch, loop, planVars,
         counters
<1>3. Asked'
  BY DEF IInv, TypeOK, Placed, Asked, Settled, ReactLabels, DelegatedLabels, PlanLabels,
         Stages, QuickFix, reactVars, money, watch, loop, planVars, counters
<1>4. Accounted'
  BY CapsAssumption DEF IInv, TypeOK, Placed, Accounted, SpendWithinCap, OverCap,
         OverCapAt, Settled, ReactLabels, DelegatedLabels, PlanLabels, QuickFix,
         reactVars, money, watch, loop, planVars, counters
<1>5. Contracted
  BY Working, Asking, Resting DEF IInv, TypeOK, Placed, Asked, Settled, ReactLabels,
         DelegatedLabels, PlanLabels, Questions, QuickFix, reactVars, money, watch,
         loop, planVars, counters
<1> QED  BY <1>1, <1>2, <1>3, <1>4, <1>5 DEF IInv

LEMMA FailRoundInv ==
  ASSUME IInv, engine = "react", FailRound,
         UNCHANGED <<childVars, planVars, executions>>
  PROVE  IInv' /\ Contracted
<1>1. TypeOK'
  <2>1. EngineTyped'
    <3>1. PICK e \in Errors :
            /\ failures' = RecordFailure(failures, e)
            /\ IF ShouldEscalate(failures', e)
               THEN Block("escalation") /\ UNCHANGED turn
               ELSE /\ pc' = "fix" /\ turn' = 0 /\ tree' = "red"
                    /\ UNCHANGED <<engine, attempt, declared, asked, question, result>>
      BY DEF FailRound
    <3>2. failures' \in [Errors -> Nat]  BY <3>1 DEF IInv, TypeOK, RecordFailure
    <3>3. CASE Block("escalation")
      BY <3>2, <3>3 DEF IInv, TypeOK, EngineTyped, Labels, ReactLabels, Results, Questions, Block
    <3>4. CASE /\ pc' = "fix" /\ tree' = "red"
               /\ UNCHANGED <<engine, attempt, declared, asked, question, result>>
      BY <3>2, <3>4 DEF IInv, TypeOK, EngineTyped, Labels, ReactLabels
    <3> QED  BY <3>1, <3>3, <3>4
  <2>2. MoneyTyped'
    BY CapsAssumption DEF IInv, TypeOK, MoneyTyped, StallActions, FailRound,
           RecordFailure, Block, money, watch, planVars, counters
  <2>3. LoopTyped'
    BY DEF IInv, TypeOK, LoopTyped, StallActions, FailRound, RecordFailure, Block,
           money, watch, planVars, counters
  <2>4. PlanTyped'
    BY PlanAssumption DEF IInv, TypeOK, PlanTyped, Placed, Questions, Stages,
           StallActions, FailRound, RecordFailure, Block, money, watch, planVars,
           counters
  <2> QED  BY <2>1, <2>2, <2>3, <2>4, TypedNext
<1>2. Placed' /\ Verified'
  BY DEF IInv, TypeOK, Placed, Verified, CompletedIsVerified, Settled, ReactLabels,
         DelegatedLabels, PlanLabels, FailRound, RecordFailure, Block, money, watch,
         planVars, counters
<1>3. Asked'
  BY DEF IInv, TypeOK, Placed, Asked, Settled, ReactLabels, DelegatedLabels, PlanLabels,
         Stages, FailRound, RecordFailure, Block, money, watch, planVars, counters
<1>4. Accounted'
  BY CapsAssumption DEF IInv, TypeOK, Placed, Accounted, SpendWithinCap, OverCap,
         OverCapAt, Settled, ReactLabels, DelegatedLabels, PlanLabels, FailRound,
         RecordFailure, Block, money, watch, planVars, counters
<1>5. Contracted
  BY Working, Asking, Resting DEF IInv, TypeOK, Placed, Asked, Settled, ReactLabels,
         DelegatedLabels, PlanLabels, Questions, FailRound, RecordFailure, Block, money,
         watch, planVars, counters
<1> QED  BY <1>1, <1>2, <1>3, <1>4, <1>5 DEF IInv

LEMMA FixTurnInv ==
  ASSUME IInv, engine = "react", FixTurn,
         UNCHANGED <<childVars, planVars, executions>>
  PROVE  IInv' /\ Contracted
<1>1. TypeOK'
  BY CapsAssumption, PlanAssumption DEF IInv, TypeOK, Placed, Labels, ReactLabels,
         DelegatedLabels, PlanLabels, Engines, Results, Questions, NoFailures, Stages,
         StallActions, FixTurn, NextRound, BlockNow, Block, Charge, Bill, Goto, watch,
         loop, planVars, counters
<1>2. Placed' /\ Verified'
  BY DEF IInv, TypeOK, Placed, Verified, CompletedIsVerified, Settled, ReactLabels,
         DelegatedLabels, PlanLabels, FixTurn, NextRound, BlockNow, Block, Charge, Bill,
         Goto, watch, loop, planVars, counters
<1>3. Asked'
  BY DEF IInv, TypeOK, Placed, Asked, Settled, ReactLabels, DelegatedLabels, PlanLabels,
         Stages, FixTurn, NextRound, BlockNow, Block, Charge, Bill, Goto, watch, loop,
         planVars, counters
<1>4. Accounted'
  <2>1. /\ pc = "fix" /\ engine = "react" /\ pc' \in {"verify", "finally", "fixTools"}
        /\ engine' = "react" /\ UNCHANGED <<cap, priced, prior, charged, slip>>
    BY DEF IInv, Placed, ReactLabels, FixTurn, NextRound, BlockNow, Block, Goto
  <2>2. (~slip => prior = charged) /\ (cap > 0 /\ ~slip => spent = charged + records)
    BY <2>1 DEF IInv, Accounted
  <2>3. CASE UNCHANGED <<records, spent>>
    BY <2>1, <2>2, <2>3 DEF IInv, Accounted, SpendWithinCap, Settled, DelegatedLabels
  <2>4. CASE ~OverCap /\ Charge
    <3>1. cap > 0 /\ ~slip => spent' = charged' + records'
      BY <2>1, <2>2, <2>4 DEF IInv, TypeOK, Charge, Bill
    <3>2. SpendWithinCap'
      BY <2>1, <2>2, <2>4, CapsAssumption
      DEF IInv, TypeOK, Charge, Bill, OverCap, OverCapAt, SpendWithinCap
    <3>3. ~slip' => prior' = charged'  BY <2>1, <2>2
    <3>4. engine' = "react" /\ (cap' > 0 /\ ~slip' => spent' = charged' + records')
      BY <2>1, <3>1
    <3> QED  BY <2>1, <3>2, <3>3, <3>4 DEF Accounted, Settled, DelegatedLabels
  <2>5. turn < MaxFixTurns \/ turn >= MaxFixTurns  BY LimitsAssumption DEF IInv, TypeOK
  <2> QED  BY <2>3, <2>4, <2>5 DEF FixTurn
<1>5. Contracted
  BY Working, Asking, Resting DEF IInv, TypeOK, Placed, Asked, Settled, ReactLabels,
         DelegatedLabels, PlanLabels, Questions, FixTurn, NextRound, BlockNow, Block,
         Charge, Bill, Goto, watch, loop, planVars, counters
<1> QED  BY <1>1, <1>2, <1>3, <1>4, <1>5 DEF IInv

LEMMA FixToolsInv ==
  ASSUME IInv, engine = "react", FixTools,
         UNCHANGED <<childVars, planVars, executions>>
  PROVE  IInv' /\ Contracted
<1>1. TypeOK'
  BY CapsAssumption, PlanAssumption DEF IInv, TypeOK, Placed, Labels, ReactLabels,
         DelegatedLabels, PlanLabels, Engines, Results, Questions, NoFailures, Stages,
         StallActions, FixTools, money, watch, planVars, counters
<1>2. Placed' /\ Verified'
  BY DEF IInv, TypeOK, Placed, Verified, CompletedIsVerified, Settled, ReactLabels,
         DelegatedLabels, PlanLabels, FixTools, money, watch, planVars, counters
<1>3. Asked'
  BY DEF IInv, TypeOK, Placed, Asked, Settled, ReactLabels, DelegatedLabels, PlanLabels,
         Stages, FixTools, money, watch, planVars, counters
<1>4. Accounted'
  BY CapsAssumption DEF IInv, TypeOK, Placed, Accounted, SpendWithinCap, OverCap,
         OverCapAt, Settled, ReactLabels, DelegatedLabels, PlanLabels, FixTools, money,
         watch, planVars, counters
<1>5. Contracted
  BY Working, Asking, Resting DEF IInv, TypeOK, Placed, Asked, Settled, ReactLabels,
         DelegatedLabels, PlanLabels, Questions, FixTools, money, watch, planVars,
         counters
<1> QED  BY <1>1, <1>2, <1>3, <1>4, <1>5 DEF IInv

LEMMA LullInv ==
  ASSUME IInv, Lull,
         UNCHANGED <<childVars, planVars, executions>>
  PROVE  IInv' /\ Contracted
<1>1. TypeOK'
  BY CapsAssumption, PlanAssumption DEF IInv, TypeOK, Placed, Labels, ReactLabels,
         DelegatedLabels, PlanLabels, Engines, Results, Questions, NoFailures, Stages,
         StallActions, Lull, engineVars, money, loop, planVars, counters
<1>2. Placed' /\ Verified'
  BY DEF IInv, TypeOK, Placed, Verified, CompletedIsVerified, Settled, ReactLabels,
         DelegatedLabels, PlanLabels, Lull, engineVars, money, loop, planVars, counters
<1>3. Asked'
  BY DEF IInv, TypeOK, Placed, Asked, Settled, ReactLabels, DelegatedLabels, PlanLabels,
         Stages, Lull, engineVars, money, loop, planVars, counters
<1>4. Accounted'
  BY CapsAssumption DEF IInv, TypeOK, Placed, Accounted, SpendWithinCap, OverCap,
         OverCapAt, Settled, ReactLabels, DelegatedLabels, PlanLabels, Lull, engineVars,
         money, loop, planVars, counters
<1>5. Contracted
  BY Working, Asking, Resting DEF IInv, TypeOK, Placed, Asked, Settled, ReactLabels,
         DelegatedLabels, PlanLabels, Questions, Lull, engineVars, money, loop,
         planVars, counters
<1> QED  BY <1>1, <1>2, <1>3, <1>4, <1>5 DEF IInv

LEMMA MeasureInv ==
  ASSUME IInv, Measure,
         UNCHANGED <<childVars, planVars, executions>>
  PROVE  IInv' /\ Contracted
<1>1. TypeOK'
  <2>1. EngineTyped'
    BY CapsAssumption DEF IInv, TypeOK, EngineTyped, Placed, Labels, ReactLabels,
           DelegatedLabels, PlanLabels, Engines, Results, Questions, NoFailures, Stages,
           StallActions, Measure, engineVars, money, loop, planVars, counters
  <2>2. MoneyTyped'
    BY CapsAssumption DEF IInv, TypeOK, MoneyTyped, StallActions, Measure, engineVars,
           money, loop, planVars, counters
  <2>3. LoopTyped'
    BY DEF IInv, TypeOK, LoopTyped, StallActions, Measure, engineVars, money, loop,
           planVars, counters
  <2>4. PlanTyped'
    BY PlanAssumption DEF IInv, TypeOK, PlanTyped, Placed, Questions, Stages,
           StallActions, Measure, engineVars, money, loop, planVars, counters
  <2> QED  BY <2>1, <2>2, <2>3, <2>4, TypedNext
<1>2. Placed' /\ Verified'
  BY DEF IInv, TypeOK, Placed, Verified, CompletedIsVerified, Settled, ReactLabels,
         DelegatedLabels, PlanLabels, Measure, engineVars, money, loop, planVars,
         counters
<1>3. Asked'
  BY DEF IInv, TypeOK, Placed, Asked, Settled, ReactLabels, DelegatedLabels, PlanLabels,
         Stages, Measure, engineVars, money, loop, planVars, counters
<1>4. Accounted'
  BY CapsAssumption DEF IInv, TypeOK, Placed, Accounted, SpendWithinCap, OverCap,
         OverCapAt, Settled, ReactLabels, DelegatedLabels, PlanLabels, Measure,
         engineVars, money, loop, planVars, counters
<1>5. Contracted
  BY Working, Asking, Resting DEF IInv, TypeOK, Placed, Asked, Settled, ReactLabels,
         DelegatedLabels, PlanLabels, Questions, Measure, engineVars, money, loop,
         planVars, counters
<1> QED  BY <1>1, <1>2, <1>3, <1>4, <1>5 DEF IInv

LEMMA ReportInv ==
  ASSUME IInv, Report,
         UNCHANGED <<childVars, planVars, executions>>
  PROVE  IInv' /\ Contracted
<1>1. TypeOK'
  BY CapsAssumption, PlanAssumption DEF IInv, TypeOK, Placed, Labels, ReactLabels,
         DelegatedLabels, PlanLabels, Engines, Results, Questions, NoFailures, Stages,
         StallActions, Report, engineVars, money, loop, planVars, counters
<1>2. Placed' /\ Verified'
  BY DEF IInv, TypeOK, Placed, Verified, CompletedIsVerified, Settled, ReactLabels,
         DelegatedLabels, PlanLabels, Report, engineVars, money, loop, planVars,
         counters
<1>3. Asked'
  BY DEF IInv, TypeOK, Placed, Asked, Settled, ReactLabels, DelegatedLabels, PlanLabels,
         Stages, Report, engineVars, money, loop, planVars, counters
<1>4. Accounted'
  BY CapsAssumption DEF IInv, TypeOK, Placed, Accounted, SpendWithinCap, OverCap,
         OverCapAt, Settled, ReactLabels, DelegatedLabels, PlanLabels, Report,
         engineVars, money, loop, planVars, counters
<1>5. Contracted
  BY Working, Asking, Resting DEF IInv, TypeOK, Placed, Asked, Settled, ReactLabels,
         DelegatedLabels, PlanLabels, Questions, Report, engineVars, money, loop,
         planVars, counters
<1> QED  BY <1>1, <1>2, <1>3, <1>4, <1>5 DEF IInv

LEMMA DelegateInv ==
  ASSUME IInv, engine = "delegated", Delegate,
         UNCHANGED <<reactVars, planVars, executions>>
  PROVE  IInv' /\ Contracted
<1>1. TypeOK'
  <2>1. EngineTyped'
    BY CapsAssumption, ZenonT(60) DEF IInv, TypeOK, EngineTyped, Placed, Labels, ReactLabels,
           DelegatedLabels, PlanLabels, Engines, Results, Questions, NoFailures, Stages,
           StallActions, Delegate, Judge, Accept, ReturnInner, reactVars, money, watch,
           loop, planVars, counters
  <2>2. MoneyTyped'
    BY CapsAssumption DEF IInv, TypeOK, MoneyTyped, StallActions, Delegate, Judge,
           Accept, ReturnInner, reactVars, money, watch, loop, planVars, counters
  <2>3. LoopTyped'
    BY DEF IInv, TypeOK, LoopTyped, StallActions, Delegate, Judge, Accept, ReturnInner,
           reactVars, money, watch, loop, planVars, counters
  <2>4. PlanTyped'
    BY PlanAssumption DEF IInv, TypeOK, PlanTyped, Placed, Questions, Stages,
           StallActions, Delegate, Judge, Accept, ReturnInner, reactVars, money, watch,
           loop, planVars, counters
  <2> QED  BY <2>1, <2>2, <2>3, <2>4, TypedNext
<1>2. Placed' /\ Verified'
  BY DEF IInv, TypeOK, Placed, Verified, CompletedIsVerified, Settled, ReactLabels,
         DelegatedLabels, PlanLabels, Delegate, Judge, Accept, ReturnInner, reactVars,
         money, watch, loop, planVars, counters
<1>3. Asked'
  BY DEF IInv, TypeOK, Placed, Asked, Settled, ReactLabels, DelegatedLabels, PlanLabels,
         Stages, Delegate, Judge, Accept, ReturnInner, reactVars, money, watch, loop,
         planVars, counters
<1>4. Accounted'
  BY CapsAssumption DEF IInv, TypeOK, Placed, Accounted, SpendWithinCap, OverCap,
         OverCapAt, Settled, ReactLabels, DelegatedLabels, PlanLabels, Delegate, Judge,
         Accept, ReturnInner, reactVars, money, watch, loop, planVars, counters
<1>5. Contracted
  BY Working, Asking, Resting DEF IInv, TypeOK, Placed, Asked, Settled, ReactLabels,
         DelegatedLabels, PlanLabels, Questions, Delegate, Judge, Accept, ReturnInner,
         reactVars, money, watch, loop, planVars, counters
<1> QED  BY <1>1, <1>2, <1>3, <1>4, <1>5 DEF IInv

LEMMA WrapPassInv ==
  ASSUME IInv, engine = "delegated", WrapPass,
         UNCHANGED <<reactVars, planVars, executions>>
  PROVE  IInv' /\ Contracted
<1>1. TypeOK'
  BY CapsAssumption, PlanAssumption DEF IInv, TypeOK, Placed, Labels, ReactLabels,
         DelegatedLabels, PlanLabels, Engines, Results, Questions, NoFailures, Stages,
         StallActions, WrapPass, reactVars, money, watch, loop, planVars, counters
<1>2. Placed' /\ Verified'
  BY DEF IInv, TypeOK, Placed, Verified, CompletedIsVerified, Settled, ReactLabels,
         DelegatedLabels, PlanLabels, WrapPass, reactVars, money, watch, loop, planVars,
         counters
<1>3. Asked'
  BY DEF IInv, TypeOK, Placed, Asked, Settled, ReactLabels, DelegatedLabels, PlanLabels,
         Stages, WrapPass, reactVars, money, watch, loop, planVars, counters
<1>4. Accounted'
  BY CapsAssumption DEF IInv, TypeOK, Placed, Accounted, SpendWithinCap, OverCap,
         OverCapAt, Settled, ReactLabels, DelegatedLabels, PlanLabels, WrapPass,
         reactVars, money, watch, loop, planVars, counters
<1>5. Contracted
  BY Working, Asking, Resting DEF IInv, TypeOK, Placed, Asked, Settled, ReactLabels,
         DelegatedLabels, PlanLabels, Questions, WrapPass, reactVars, money, watch,
         loop, planVars, counters
<1> QED  BY <1>1, <1>2, <1>3, <1>4, <1>5 DEF IInv

LEMMA WrapQuickFixInv ==
  ASSUME IInv, engine = "delegated", WrapQuickFix,
         UNCHANGED <<reactVars, planVars, executions>>
  PROVE  IInv' /\ Contracted
<1>1. TypeOK'
  BY CapsAssumption, PlanAssumption DEF IInv, TypeOK, Placed, Labels, ReactLabels,
         DelegatedLabels, PlanLabels, Engines, Results, Questions, NoFailures, Stages,
         StallActions, WrapQuickFix, NextCheck, reactVars, money, watch, loop, planVars,
         counters
<1>2. Placed' /\ Verified'
  BY DEF IInv, TypeOK, Placed, Verified, CompletedIsVerified, Settled, ReactLabels,
         DelegatedLabels, PlanLabels, WrapQuickFix, NextCheck, reactVars, money, watch,
         loop, planVars, counters
<1>3. Asked'
  BY DEF IInv, TypeOK, Placed, Asked, Settled, ReactLabels, DelegatedLabels, PlanLabels,
         Stages, WrapQuickFix, NextCheck, reactVars, money, watch, loop, planVars,
         counters
<1>4. Accounted'
  BY CapsAssumption DEF IInv, TypeOK, Placed, Accounted, SpendWithinCap, OverCap,
         OverCapAt, Settled, ReactLabels, DelegatedLabels, PlanLabels, WrapQuickFix,
         NextCheck, reactVars, money, watch, loop, planVars, counters
<1>5. Contracted
  BY Working, Asking, Resting DEF IInv, TypeOK, Placed, Asked, Settled, ReactLabels,
         DelegatedLabels, PlanLabels, Questions, WrapQuickFix, NextCheck, reactVars,
         money, watch, loop, planVars, counters
<1> QED  BY <1>1, <1>2, <1>3, <1>4, <1>5 DEF IInv

LEMMA WrapEscalateInv ==
  ASSUME IInv, engine = "delegated", WrapEscalate,
         UNCHANGED <<reactVars, planVars, executions>>
  PROVE  IInv' /\ Contracted
<1>1. TypeOK'
  BY CapsAssumption, PlanAssumption DEF IInv, TypeOK, Placed, Labels, ReactLabels,
         DelegatedLabels, PlanLabels, Engines, Results, Questions, NoFailures, Stages,
         StallActions, WrapEscalate, RecordFailure, RaiseQuestion, reactVars, money,
         watch, loop, planVars, counters
<1>2. Placed' /\ Verified'
  BY DEF IInv, TypeOK, Placed, Verified, CompletedIsVerified, Settled, ReactLabels,
         DelegatedLabels, PlanLabels, WrapEscalate, RecordFailure, RaiseQuestion,
         reactVars, money, watch, loop, planVars, counters
<1>3. Asked'
  BY DEF IInv, TypeOK, Placed, Asked, Settled, ReactLabels, DelegatedLabels, PlanLabels,
         Stages, WrapEscalate, RecordFailure, RaiseQuestion, reactVars, money, watch,
         loop, planVars, counters
<1>4. Accounted'
  BY CapsAssumption DEF IInv, TypeOK, Placed, Accounted, SpendWithinCap, OverCap,
         OverCapAt, Settled, ReactLabels, DelegatedLabels, PlanLabels, WrapEscalate,
         RecordFailure, RaiseQuestion, reactVars, money, watch, loop, planVars, counters
<1>5. Contracted
  BY Working, Asking, Resting DEF IInv, TypeOK, Placed, Asked, Settled, ReactLabels,
         DelegatedLabels, PlanLabels, Questions, WrapEscalate, RecordFailure,
         RaiseQuestion, reactVars, money, watch, loop, planVars, counters
<1> QED  BY <1>1, <1>2, <1>3, <1>4, <1>5 DEF IInv

LEMMA WrapCorrectInv ==
  ASSUME IInv, engine = "delegated", WrapCorrect,
         UNCHANGED <<reactVars, planVars, executions>>
  PROVE  IInv' /\ Contracted
<1>1. TypeOK'
  BY CapsAssumption, PlanAssumption DEF IInv, TypeOK, Placed, Labels, ReactLabels,
         DelegatedLabels, PlanLabels, Engines, Results, Questions, NoFailures, Stages,
         StallActions, WrapCorrect, RecordFailure, reactVars, money, watch, loop,
         planVars, counters
<1>2. Placed' /\ Verified'
  BY DEF IInv, TypeOK, Placed, Verified, CompletedIsVerified, Settled, ReactLabels,
         DelegatedLabels, PlanLabels, WrapCorrect, RecordFailure, reactVars, money,
         watch, loop, planVars, counters
<1>3. Asked'
  BY DEF IInv, TypeOK, Placed, Asked, Settled, ReactLabels, DelegatedLabels, PlanLabels,
         Stages, WrapCorrect, RecordFailure, reactVars, money, watch, loop, planVars,
         counters
<1>4. Accounted'
  BY CapsAssumption DEF IInv, TypeOK, Placed, Accounted, SpendWithinCap, OverCap,
         OverCapAt, Settled, ReactLabels, DelegatedLabels, PlanLabels, WrapCorrect,
         RecordFailure, reactVars, money, watch, loop, planVars, counters
<1>5. Contracted
  BY Working, Asking, Resting DEF IInv, TypeOK, Placed, Asked, Settled, ReactLabels,
         DelegatedLabels, PlanLabels, Questions, WrapCorrect, RecordFailure, reactVars,
         money, watch, loop, planVars, counters
<1> QED  BY <1>1, <1>2, <1>3, <1>4, <1>5 DEF IInv

LEMMA ExhaustInv ==
  ASSUME IInv, engine = "delegated", Exhaust,
         UNCHANGED <<reactVars, planVars, executions>>
  PROVE  IInv' /\ Contracted
<1>1. TypeOK'
  BY CapsAssumption, PlanAssumption DEF IInv, TypeOK, Placed, Labels, ReactLabels,
         DelegatedLabels, PlanLabels, Engines, Results, Questions, NoFailures, Stages,
         StallActions, Exhaust, RaiseQuestion, reactVars, money, watch, loop, planVars,
         counters
<1>2. Placed' /\ Verified'
  BY DEF IInv, TypeOK, Placed, Verified, CompletedIsVerified, Settled, ReactLabels,
         DelegatedLabels, PlanLabels, Exhaust, RaiseQuestion, reactVars, money, watch,
         loop, planVars, counters
<1>3. Asked'
  BY DEF IInv, TypeOK, Placed, Asked, Settled, ReactLabels, DelegatedLabels, PlanLabels,
         Stages, Exhaust, RaiseQuestion, reactVars, money, watch, loop, planVars,
         counters
<1>4. Accounted'
  BY CapsAssumption DEF IInv, TypeOK, Placed, Accounted, SpendWithinCap, OverCap,
         OverCapAt, Settled, ReactLabels, DelegatedLabels, PlanLabels, Exhaust,
         RaiseQuestion, reactVars, money, watch, loop, planVars, counters
<1>5. Contracted
  BY Working, Asking, Resting DEF IInv, TypeOK, Placed, Asked, Settled, ReactLabels,
         DelegatedLabels, PlanLabels, Questions, Exhaust, RaiseQuestion, reactVars,
         money, watch, loop, planVars, counters
<1> QED  BY <1>1, <1>2, <1>3, <1>4, <1>5 DEF IInv

LEMMA WrapRaiseInv ==
  ASSUME IInv, engine = "delegated", WrapRaise,
         UNCHANGED <<reactVars, planVars, executions>>
  PROVE  IInv' /\ Contracted
<1>1. TypeOK'
  BY CapsAssumption, PlanAssumption DEF IInv, TypeOK, Placed, Labels, ReactLabels,
         DelegatedLabels, PlanLabels, Engines, Results, Questions, NoFailures, Stages,
         StallActions, WrapRaise, reactVars, money, watch, loop, planVars, counters
<1>2. Placed' /\ Verified'
  BY DEF IInv, TypeOK, Placed, Verified, CompletedIsVerified, Settled, ReactLabels,
         DelegatedLabels, PlanLabels, WrapRaise, reactVars, money, watch, loop,
         planVars, counters
<1>3. Asked'
  BY DEF IInv, TypeOK, Placed, Asked, Settled, ReactLabels, DelegatedLabels, PlanLabels,
         Stages, WrapRaise, reactVars, money, watch, loop, planVars, counters
<1>4. Accounted'
  BY CapsAssumption DEF IInv, TypeOK, Placed, Accounted, SpendWithinCap, OverCap,
         OverCapAt, Settled, ReactLabels, DelegatedLabels, PlanLabels, WrapRaise,
         reactVars, money, watch, loop, planVars, counters
<1>5. Contracted
  BY DEF WrapRaise, DelegatedLabels, Contracted, Contract!Next, Contract!Stop
<1> QED  BY <1>1, <1>2, <1>3, <1>4, <1>5 DEF IInv

LEMMA PrepareInv ==
  ASSUME IInv, engine = "plan", Prepare,
         UNCHANGED <<spent, slip, watch, loop, stallAction, stalls, childVars, executions>>
  PROVE  IInv' /\ Contracted
<1>1. TypeOK'
  <2>1. EngineTyped'
    BY CapsAssumption DEF IInv, TypeOK, EngineTyped, Placed, Labels, ReactLabels,
           DelegatedLabels, PlanLabels, Engines, Results, Questions, NoFailures, Stages,
           StallActions, Prepare, Go, On, planVars, counters, watch, loop
  <2>2. MoneyTyped'
    BY CapsAssumption DEF IInv, TypeOK, MoneyTyped, StallActions, Prepare, Go, On,
           planVars, counters, watch, loop
  <2>3. LoopTyped'
    BY DEF IInv, TypeOK, LoopTyped, StallActions, Prepare, Go, On, planVars, counters,
           watch, loop
  <2>4. PlanTyped'
    BY PlanAssumption DEF IInv, TypeOK, PlanTyped, Placed, Questions, Stages,
           StallActions, Prepare, Go, On, planVars, counters, watch, loop
  <2> QED  BY <2>1, <2>2, <2>3, <2>4, TypedNext
<1>2. Placed' /\ Verified'
  BY DEF IInv, TypeOK, Placed, Verified, CompletedIsVerified, Settled, ReactLabels,
         DelegatedLabels, PlanLabels, Prepare, Go, On, planVars, counters, watch, loop
<1>3. Asked'
  BY DEF IInv, TypeOK, Placed, Asked, Settled, ReactLabels, DelegatedLabels, PlanLabels,
         Stages, Prepare, Go, On, planVars, counters, watch, loop
<1>4. Accounted'
  BY CapsAssumption DEF IInv, TypeOK, Placed, Accounted, SpendWithinCap, OverCap,
         OverCapAt, Settled, ReactLabels, DelegatedLabels, PlanLabels, Prepare, Go, On,
         planVars, counters, watch, loop
<1>5. Contracted
  BY Working, Asking, Resting DEF IInv, TypeOK, Placed, Asked, Settled, ReactLabels,
         DelegatedLabels, PlanLabels, Questions, Prepare, Go, On, planVars, counters,
         watch, loop
<1> QED  BY <1>1, <1>2, <1>3, <1>4, <1>5 DEF IInv

LEMMA FinishPlanInv ==
  ASSUME IInv, engine = "plan", FinishPlan,
         UNCHANGED <<spent, slip, watch, loop, stallAction, stalls, childVars, executions>>
  PROVE  IInv' /\ Contracted
<1>1. TypeOK'
  BY CapsAssumption, PlanAssumption DEF IInv, TypeOK, Placed, Labels, ReactLabels,
         DelegatedLabels, PlanLabels, Engines, Results, Questions, NoFailures, Stages,
         StallActions, FinishPlan, On, NoMoney, planVars, counters, watch, loop
<1>2. Placed' /\ Verified'
  BY DEF IInv, TypeOK, Placed, Verified, CompletedIsVerified, Settled, ReactLabels,
         DelegatedLabels, PlanLabels, FinishPlan, On, NoMoney, planVars, counters,
         watch, loop
<1>3. Asked'
  BY DEF IInv, TypeOK, Placed, Asked, Settled, ReactLabels, DelegatedLabels, PlanLabels,
         Stages, FinishPlan, On, NoMoney, planVars, counters, watch, loop
<1>4. Accounted'
  BY CapsAssumption DEF IInv, TypeOK, Placed, Accounted, SpendWithinCap, OverCap,
         OverCapAt, Settled, ReactLabels, DelegatedLabels, PlanLabels, FinishPlan, On,
         NoMoney, planVars, counters, watch, loop
<1>5. Contracted
  BY Working, Asking, Resting DEF IInv, TypeOK, Placed, Asked, Settled, ReactLabels,
         DelegatedLabels, PlanLabels, Questions, FinishPlan, On, NoMoney, planVars,
         counters, watch, loop
<1> QED  BY <1>1, <1>2, <1>3, <1>4, <1>5 DEF IInv

LEMMA StopAtCapInv ==
  ASSUME IInv, engine = "plan", StopAtCap,
         UNCHANGED <<spent, slip, watch, loop, stallAction, stalls, childVars, executions>>
  PROVE  IInv' /\ Contracted
<1>1. TypeOK'
  BY CapsAssumption, PlanAssumption DEF IInv, TypeOK, Placed, Labels, ReactLabels,
         DelegatedLabels, PlanLabels, Engines, Results, Questions, NoFailures, Stages,
         StallActions, StopAtCap, StopAsking, NoMoney, planVars, counters, watch, loop
<1>2. Placed' /\ Verified'
  BY DEF IInv, TypeOK, Placed, Verified, CompletedIsVerified, Settled, ReactLabels,
         DelegatedLabels, PlanLabels, StopAtCap, StopAsking, NoMoney, planVars,
         counters, watch, loop
<1>3. Asked'
  BY DEF IInv, TypeOK, Placed, Asked, Settled, ReactLabels, DelegatedLabels, PlanLabels,
         Stages, StopAtCap, StopAsking, NoMoney, planVars, counters, watch, loop
<1>4. Accounted'
  BY CapsAssumption DEF IInv, TypeOK, Placed, Accounted, SpendWithinCap, OverCap,
         OverCapAt, Settled, ReactLabels, DelegatedLabels, PlanLabels, StopAtCap,
         StopAsking, NoMoney, planVars, counters, watch, loop
<1>5. Contracted
  BY Working, Asking, Resting DEF IInv, TypeOK, Placed, Asked, Settled, ReactLabels,
         DelegatedLabels, PlanLabels, Questions, StopAtCap, StopAsking, NoMoney,
         planVars, counters, watch, loop
<1> QED  BY <1>1, <1>2, <1>3, <1>4, <1>5 DEF IInv

LEMMA ExecuteStepInv ==
  ASSUME IInv, engine = "plan", ExecuteStep,
         UNCHANGED <<spent, slip, watch, loop, stallAction, stalls, childVars, executions>>
  PROVE  IInv' /\ Contracted
<1>1. TypeOK'
  <2>1. EngineTyped'
    BY CapsAssumption, ZenonT(60) DEF IInv, TypeOK, EngineTyped, Placed, Labels, ReactLabels,
           DelegatedLabels, PlanLabels, Engines, Results, Questions, NoFailures, Stages,
           StallActions, ExecuteStep, Bill, Go, On, Unbilled, watch, loop
  <2>2. MoneyTyped'
    BY CapsAssumption DEF IInv, TypeOK, MoneyTyped, StallActions, ExecuteStep, Bill, Go,
           On, Unbilled, watch, loop
  <2>3. LoopTyped'
    BY DEF IInv, TypeOK, LoopTyped, StallActions, ExecuteStep, Bill, Go, On, Unbilled,
           watch, loop
  <2>4. PlanTyped'
    BY PlanAssumption DEF IInv, TypeOK, PlanTyped, Placed, Questions, Stages,
           StallActions, ExecuteStep, Bill, Go, On, Unbilled, watch, loop
  <2> QED  BY <2>1, <2>2, <2>3, <2>4, TypedNext
<1>2. Placed' /\ Verified'
  BY DEF IInv, TypeOK, Placed, Verified, CompletedIsVerified, Settled, ReactLabels,
         DelegatedLabels, PlanLabels, ExecuteStep, Bill, Go, On, Unbilled, watch, loop
<1>3. Asked'
  BY DEF IInv, TypeOK, Placed, Asked, Settled, ReactLabels, DelegatedLabels, PlanLabels,
         Stages, ExecuteStep, Bill, Go, On, Unbilled, watch, loop
<1>4. Accounted'
  BY CapsAssumption DEF IInv, TypeOK, Placed, Accounted, SpendWithinCap, OverCap,
         OverCapAt, Settled, ReactLabels, DelegatedLabels, PlanLabels, ExecuteStep,
         Bill, Go, On, Unbilled, watch, loop
<1>5. Contracted
  BY Working, Asking, Resting DEF IInv, TypeOK, Placed, Asked, Settled, ReactLabels,
         DelegatedLabels, PlanLabels, Questions, ExecuteStep, Bill, Go, On, Unbilled,
         watch, loop
<1> QED  BY <1>1, <1>2, <1>3, <1>4, <1>5 DEF IInv

LEMMA CorrectLintInv ==
  ASSUME IInv, engine = "plan", CorrectLint,
         UNCHANGED <<spent, slip, watch, loop, stallAction, stalls, childVars, executions>>
  PROVE  IInv' /\ Contracted
<1>1. TypeOK'
  <2>1. EngineTyped'
    BY CapsAssumption, ZenonT(60) DEF IInv, TypeOK, EngineTyped, Placed, Labels, ReactLabels,
           DelegatedLabels, PlanLabels, Engines, Results, Questions, NoFailures, Stages,
           StallActions, CorrectLint, Correct, Bill, Go, On, Unbilled, watch, loop
  <2>2. MoneyTyped'
    BY CapsAssumption DEF IInv, TypeOK, MoneyTyped, StallActions, CorrectLint, Correct,
           Bill, Go, On, Unbilled, watch, loop
  <2>3. LoopTyped'
    BY DEF IInv, TypeOK, LoopTyped, StallActions, CorrectLint, Correct, Bill, Go, On,
           Unbilled, watch, loop
  <2>4. PlanTyped'
    BY PlanAssumption DEF IInv, TypeOK, PlanTyped, Placed, Questions, Stages,
           StallActions, CorrectLint, Correct, Bill, Go, On, Unbilled, watch, loop
  <2> QED  BY <2>1, <2>2, <2>3, <2>4, TypedNext
<1>2. Placed' /\ Verified'
  BY DEF IInv, TypeOK, Placed, Verified, CompletedIsVerified, Settled, ReactLabels,
         DelegatedLabels, PlanLabels, CorrectLint, Correct, Bill, Go, On, Unbilled,
         watch, loop
<1>3. Asked'
  BY DEF IInv, TypeOK, Placed, Asked, Settled, ReactLabels, DelegatedLabels, PlanLabels,
         Stages, CorrectLint, Correct, Bill, Go, On, Unbilled, watch, loop
<1>4. Accounted'
  BY CapsAssumption DEF IInv, TypeOK, Placed, Accounted, SpendWithinCap, OverCap,
         OverCapAt, Settled, ReactLabels, DelegatedLabels, PlanLabels, CorrectLint,
         Correct, Bill, Go, On, Unbilled, watch, loop
<1>5. Contracted
  BY Working, Asking, Resting DEF IInv, TypeOK, Placed, Asked, Settled, ReactLabels,
         DelegatedLabels, PlanLabels, Questions, CorrectLint, Correct, Bill, Go, On,
         Unbilled, watch, loop
<1> QED  BY <1>1, <1>2, <1>3, <1>4, <1>5 DEF IInv

LEMMA LeaveLintInv ==
  ASSUME IInv, engine = "plan", LeaveLint,
         UNCHANGED <<spent, slip, watch, loop, stallAction, stalls, childVars, executions>>
  PROVE  IInv' /\ Contracted
<1>1. TypeOK'
  BY CapsAssumption, PlanAssumption DEF IInv, TypeOK, Placed, Labels, ReactLabels,
         DelegatedLabels, PlanLabels, Engines, Results, Questions, NoFailures, Stages,
         StallActions, LeaveLint, StopAsking, Go, On, NoMoney, watch, loop
<1>2. Placed' /\ Verified'
  BY DEF IInv, TypeOK, Placed, Verified, CompletedIsVerified, Settled, ReactLabels,
         DelegatedLabels, PlanLabels, LeaveLint, StopAsking, Go, On, NoMoney, watch,
         loop
<1>3. Asked'
  BY DEF IInv, TypeOK, Placed, Asked, Settled, ReactLabels, DelegatedLabels, PlanLabels,
         Stages, LeaveLint, StopAsking, Go, On, NoMoney, watch, loop
<1>4. Accounted'
  BY CapsAssumption DEF IInv, TypeOK, Placed, Accounted, SpendWithinCap, OverCap,
         OverCapAt, Settled, ReactLabels, DelegatedLabels, PlanLabels, LeaveLint,
         StopAsking, Go, On, NoMoney, watch, loop
<1>5. Contracted
  BY Working, Asking, Resting DEF IInv, TypeOK, Placed, Asked, Settled, ReactLabels,
         DelegatedLabels, PlanLabels, Questions, LeaveLint, StopAsking, Go, On, NoMoney,
         watch, loop
<1> QED  BY <1>1, <1>2, <1>3, <1>4, <1>5 DEF IInv

LEMMA CorrectStepInv ==
  ASSUME IInv, engine = "plan", CorrectStep,
         UNCHANGED <<spent, slip, watch, loop, stallAction, stalls, childVars, executions>>
  PROVE  IInv' /\ Contracted
<1>1. TypeOK'
  <2>1. EngineTyped'
    BY CapsAssumption, ZenonT(60) DEF IInv, TypeOK, EngineTyped, Placed, Labels, ReactLabels,
           DelegatedLabels, PlanLabels, Engines, Results, Questions, NoFailures, Stages,
           StallActions, CorrectStep, Correct, Bill, Go, On, Unbilled, watch, loop
  <2>2. MoneyTyped'
    BY CapsAssumption DEF IInv, TypeOK, MoneyTyped, StallActions, CorrectStep, Correct,
           Bill, Go, On, Unbilled, watch, loop
  <2>3. LoopTyped'
    BY DEF IInv, TypeOK, LoopTyped, StallActions, CorrectStep, Correct, Bill, Go, On,
           Unbilled, watch, loop
  <2>4. PlanTyped'
    BY PlanAssumption DEF IInv, TypeOK, PlanTyped, Placed, Questions, Stages,
           StallActions, CorrectStep, Correct, Bill, Go, On, Unbilled, watch, loop
  <2> QED  BY <2>1, <2>2, <2>3, <2>4, TypedNext
<1>2. Placed' /\ Verified'
  BY DEF IInv, TypeOK, Placed, Verified, CompletedIsVerified, Settled, ReactLabels,
         DelegatedLabels, PlanLabels, CorrectStep, Correct, Bill, Go, On, Unbilled,
         watch, loop
<1>3. Asked'
  BY DEF IInv, TypeOK, Placed, Asked, Settled, ReactLabels, DelegatedLabels, PlanLabels,
         Stages, CorrectStep, Correct, Bill, Go, On, Unbilled, watch, loop
<1>4. Accounted'
  BY CapsAssumption DEF IInv, TypeOK, Placed, Accounted, SpendWithinCap, OverCap,
         OverCapAt, Settled, ReactLabels, DelegatedLabels, PlanLabels, CorrectStep,
         Correct, Bill, Go, On, Unbilled, watch, loop
<1>5. Contracted
  BY Working, Asking, Resting DEF IInv, TypeOK, Placed, Asked, Settled, ReactLabels,
         DelegatedLabels, PlanLabels, Questions, CorrectStep, Correct, Bill, Go, On,
         Unbilled, watch, loop
<1> QED  BY <1>1, <1>2, <1>3, <1>4, <1>5 DEF IInv

LEMMA LeaveStepInv ==
  ASSUME IInv, engine = "plan", LeaveStep,
         UNCHANGED <<spent, slip, watch, loop, stallAction, stalls, childVars, executions>>
  PROVE  IInv' /\ Contracted
<1>1. TypeOK'
  BY CapsAssumption, PlanAssumption DEF IInv, TypeOK, Placed, Labels, ReactLabels,
         DelegatedLabels, PlanLabels, Engines, Results, Questions, NoFailures, Stages,
         StallActions, LeaveStep, Go, On, Finish, NoMoney, watch, loop
<1>2. Placed' /\ Verified'
  BY DEF IInv, TypeOK, Placed, Verified, CompletedIsVerified, Settled, ReactLabels,
         DelegatedLabels, PlanLabels, LeaveStep, Go, On, Finish, NoMoney, watch, loop
<1>3. Asked'
  BY DEF IInv, TypeOK, Placed, Asked, Settled, ReactLabels, DelegatedLabels, PlanLabels,
         Stages, LeaveStep, Go, On, Finish, NoMoney, watch, loop
<1>4. Accounted'
  BY CapsAssumption DEF IInv, TypeOK, Placed, Accounted, SpendWithinCap, OverCap,
         OverCapAt, Settled, ReactLabels, DelegatedLabels, PlanLabels, LeaveStep, Go,
         On, Finish, NoMoney, watch, loop
<1>5. Contracted
  BY Working, Asking, Resting DEF IInv, TypeOK, Placed, Asked, Settled, ReactLabels,
         DelegatedLabels, PlanLabels, Questions, LeaveStep, Go, On, Finish, NoMoney,
         watch, loop
<1> QED  BY <1>1, <1>2, <1>3, <1>4, <1>5 DEF IInv

LEMMA AskAboutStepInv ==
  ASSUME IInv, engine = "plan", AskAboutStep,
         UNCHANGED <<spent, slip, watch, loop, stallAction, stalls, childVars, executions>>
  PROVE  IInv' /\ Contracted
<1>1. TypeOK'
  <2>1. EngineTyped'
    BY CapsAssumption DEF IInv, TypeOK, EngineTyped, Placed, Labels, ReactLabels,
           DelegatedLabels, PlanLabels, Engines, Results, Questions, NoFailures, Stages,
           StallActions, AskAboutStep, Bill, StopAsking, Go, On, Unbilled, planVars,
           counters, watch, loop
  <2>2. MoneyTyped'
    BY CapsAssumption DEF IInv, TypeOK, MoneyTyped, StallActions, AskAboutStep, Bill,
           StopAsking, Go, On, Unbilled, planVars, counters, watch, loop
  <2>3. LoopTyped'
    BY DEF IInv, TypeOK, LoopTyped, StallActions, AskAboutStep, Bill, StopAsking, Go,
           On, Unbilled, planVars, counters, watch, loop
  <2>4. PlanTyped'
    BY PlanAssumption DEF IInv, TypeOK, PlanTyped, Placed, Questions, Stages,
           StallActions, AskAboutStep, Bill, StopAsking, Go, On, Unbilled, planVars,
           counters, watch, loop
  <2> QED  BY <2>1, <2>2, <2>3, <2>4, TypedNext
<1>2. Placed' /\ Verified'
  BY DEF IInv, TypeOK, Placed, Verified, CompletedIsVerified, Settled, ReactLabels,
         DelegatedLabels, PlanLabels, AskAboutStep, Bill, StopAsking, Go, On, Unbilled,
         planVars, counters, watch, loop
<1>3. Asked'
  BY DEF IInv, TypeOK, Placed, Asked, Settled, ReactLabels, DelegatedLabels, PlanLabels,
         Stages, AskAboutStep, Bill, StopAsking, Go, On, Unbilled, planVars, counters,
         watch, loop
<1>4. Accounted'
  BY CapsAssumption DEF IInv, TypeOK, Placed, Accounted, SpendWithinCap, OverCap,
         OverCapAt, Settled, ReactLabels, DelegatedLabels, PlanLabels, AskAboutStep,
         Bill, StopAsking, Go, On, Unbilled, planVars, counters, watch, loop
<1>5. Contracted
  BY Working, Asking, Resting DEF IInv, TypeOK, Placed, Asked, Settled, ReactLabels,
         DelegatedLabels, PlanLabels, Questions, AskAboutStep, Bill, StopAsking, Go, On,
         Unbilled, planVars, counters, watch, loop
<1> QED  BY <1>1, <1>2, <1>3, <1>4, <1>5 DEF IInv

LEMMA RunGatesInv ==
  ASSUME IInv, engine = "plan", RunGates,
         UNCHANGED <<spent, slip, watch, loop, stallAction, stalls, childVars, executions>>
  PROVE  IInv' /\ Contracted
<1>1. TypeOK'
  <2>1. EngineTyped'
    <3>1. pc' \in Labels /\ result' \in Results
      BY DEF IInv, TypeOK, RunGates, Finish, Labels, PlanLabels, Results
    <3>2. attempt' \in Nat /\ tree' \in {"unchecked", "green", "red"}
      BY DEF IInv, TypeOK, RunGates, Finish
    <3> QED  BY <3>1, <3>2 DEF IInv, TypeOK, EngineTyped, RunGates, Finish
  <2>2. MoneyTyped'
    BY CapsAssumption DEF IInv, TypeOK, MoneyTyped, StallActions, RunGates, Finish,
           NoMoney, planVars, counters, watch, loop
  <2>3. LoopTyped'
    BY DEF IInv, TypeOK, LoopTyped, StallActions, RunGates, Finish, NoMoney, planVars,
           counters, watch, loop
  <2>4. PlanTyped'
    BY PlanAssumption DEF IInv, TypeOK, PlanTyped, Placed, Questions, Stages,
           StallActions, RunGates, Finish, NoMoney, planVars, counters, watch, loop
  <2> QED  BY <2>1, <2>2, <2>3, <2>4, TypedNext
<1>2. Placed' /\ Verified'
  BY DEF IInv, TypeOK, Placed, Verified, CompletedIsVerified, Settled, ReactLabels,
         DelegatedLabels, PlanLabels, RunGates, Finish, NoMoney, planVars, counters,
         watch, loop
<1>3. Asked'
  BY DEF IInv, TypeOK, Placed, Asked, Settled, ReactLabels, DelegatedLabels, PlanLabels,
         Stages, RunGates, Finish, NoMoney, planVars, counters, watch, loop
<1>4. Accounted'
  BY CapsAssumption DEF IInv, TypeOK, Placed, Accounted, SpendWithinCap, OverCap,
         OverCapAt, Settled, ReactLabels, DelegatedLabels, PlanLabels, RunGates, Finish,
         NoMoney, planVars, counters, watch, loop
<1>5. Contracted
  BY Working, Asking, Resting DEF IInv, TypeOK, Placed, Asked, Settled, ReactLabels,
         DelegatedLabels, PlanLabels, Questions, RunGates, Finish, NoMoney, planVars,
         counters, watch, loop
<1> QED  BY <1>1, <1>2, <1>3, <1>4, <1>5 DEF IInv

LEMMA RepairInv ==
  ASSUME IInv, engine = "plan", Repair,
         UNCHANGED <<spent, slip, watch, loop, stallAction, stalls, childVars, executions>>
  PROVE  IInv' /\ Contracted
<1>1. TypeOK'
  BY CapsAssumption, PlanAssumption DEF IInv, TypeOK, Placed, Labels, ReactLabels,
         DelegatedLabels, PlanLabels, Engines, Results, Questions, NoFailures, Stages,
         StallActions, Repair, FailedFixes, Bill, Unbilled, planVars, counters, watch,
         loop
<1>2. Placed' /\ Verified'
  BY DEF IInv, TypeOK, Placed, Verified, CompletedIsVerified, Settled, ReactLabels,
         DelegatedLabels, PlanLabels, Repair, FailedFixes, Bill, Unbilled, planVars,
         counters, watch, loop
<1>3. Asked'
  BY DEF IInv, TypeOK, Placed, Asked, Settled, ReactLabels, DelegatedLabels, PlanLabels,
         Stages, Repair, FailedFixes, Bill, Unbilled, planVars, counters, watch, loop
<1>4. Accounted'
  BY CapsAssumption DEF IInv, TypeOK, Placed, Accounted, SpendWithinCap, OverCap,
         OverCapAt, Settled, ReactLabels, DelegatedLabels, PlanLabels, Repair,
         FailedFixes, Bill, Unbilled, planVars, counters, watch, loop
<1>5. Contracted
  BY Working, Asking, Resting DEF IInv, TypeOK, Placed, Asked, Settled, ReactLabels,
         DelegatedLabels, PlanLabels, Questions, Repair, FailedFixes, Bill, Unbilled,
         planVars, counters, watch, loop
<1> QED  BY <1>1, <1>2, <1>3, <1>4, <1>5 DEF IInv

LEMMA RepairFailsInv ==
  ASSUME IInv, engine = "plan", RepairFails,
         UNCHANGED <<spent, slip, watch, loop, stallAction, stalls, childVars, executions>>
  PROVE  IInv' /\ Contracted
<1>1. TypeOK'
  <2>1. EngineTyped'
    <3>1. pc' \in Labels /\ result' \in Results
      BY DEF RepairFails, Labels, PlanLabels, Results
    <3>2. asked' \subseteq Questions  BY DEF IInv, TypeOK, RepairFails, Questions
    <3> QED  BY <3>1, <3>2 DEF IInv, TypeOK, EngineTyped, RepairFails
  <2>2. MoneyTyped'
    BY CapsAssumption DEF IInv, TypeOK, MoneyTyped, StallActions, RepairFails,
           FailedFixes, Bill, Unbilled, planVars, counters, watch, loop
  <2>3. LoopTyped'
    BY DEF IInv, TypeOK, LoopTyped, StallActions, RepairFails, FailedFixes, Bill,
           Unbilled, planVars, counters, watch, loop
  <2>4. PlanTyped'
    BY PlanAssumption DEF IInv, TypeOK, PlanTyped, Placed, Questions, Stages,
           StallActions, RepairFails, FailedFixes, Bill, Unbilled, planVars, counters,
           watch, loop
  <2> QED  BY <2>1, <2>2, <2>3, <2>4, TypedNext
<1>2. Placed' /\ Verified'
  BY DEF IInv, TypeOK, Placed, Verified, CompletedIsVerified, Settled, ReactLabels,
         DelegatedLabels, PlanLabels, RepairFails, FailedFixes, Bill, Unbilled,
         planVars, counters, watch, loop
<1>3. Asked'
  BY DEF IInv, TypeOK, Placed, Asked, Settled, ReactLabels, DelegatedLabels, PlanLabels,
         Stages, RepairFails, FailedFixes, Bill, Unbilled, planVars, counters, watch,
         loop
<1>4. Accounted'
  BY CapsAssumption DEF IInv, TypeOK, Placed, Accounted, SpendWithinCap, OverCap,
         OverCapAt, Settled, ReactLabels, DelegatedLabels, PlanLabels, RepairFails,
         FailedFixes, Bill, Unbilled, planVars, counters, watch, loop
<1>5. Contracted
  BY Working, Asking, Resting DEF IInv, TypeOK, Placed, Asked, Settled, ReactLabels,
         DelegatedLabels, PlanLabels, Questions, RepairFails, FailedFixes, Bill,
         Unbilled, planVars, counters, watch, loop
<1> QED  BY <1>1, <1>2, <1>3, <1>4, <1>5 DEF IInv

LEMMA PlanRaiseInv ==
  ASSUME IInv, engine = "plan", PlanRaise,
         UNCHANGED <<spent, slip, watch, loop, stallAction, stalls, childVars, executions>>
  PROVE  IInv' /\ Contracted
<1>1. TypeOK'
  BY CapsAssumption, PlanAssumption DEF IInv, TypeOK, Placed, Labels, ReactLabels,
         DelegatedLabels, PlanLabels, Engines, Results, Questions, NoFailures, Stages,
         StallActions, PlanRaise, Forget, ForgetAgent, watch, loop
<1>2. Placed' /\ Verified'
  BY DEF IInv, TypeOK, Placed, Verified, CompletedIsVerified, Settled, ReactLabels,
         DelegatedLabels, PlanLabels, PlanRaise, Forget, ForgetAgent, watch, loop
<1>3. Asked'
  BY DEF IInv, TypeOK, Placed, Asked, Settled, ReactLabels, DelegatedLabels, PlanLabels,
         Stages, PlanRaise, Forget, ForgetAgent, watch, loop
<1>4. Accounted'
  BY CapsAssumption DEF IInv, TypeOK, Placed, Accounted, SpendWithinCap, OverCap,
         OverCapAt, Settled, ReactLabels, DelegatedLabels, PlanLabels, PlanRaise,
         Forget, ForgetAgent, watch, loop
<1>5. Contracted
  <2>1. pc \in {"prepare", "steps", "lint", "ask"} /\ asked' = asked  BY DEF PlanRaise
  <2>2. pc' = "conclude" \/ (pc' = "done" /\ result' = "failed")
    BY DEF IInv, TypeOK, Stages, PlanRaise
  <2>3. CASE pc' = "conclude"  BY <2>1, <2>3, Working
  <2>4. CASE pc' = "done" /\ result' = "failed"
    BY <2>1, <2>4 DEF Contracted, Contract!Next, Contract!Stop
  <2> QED  BY <2>2, <2>3, <2>4
<1> QED  BY <1>1, <1>2, <1>3, <1>4, <1>5 DEF IInv

LEMMA SuperviseInv ==
  ASSUME IInv, engine = "plan", Supervise,
         UNCHANGED <<spent, slip, watch, loop, stallAction, stalls, childVars, executions>>
  PROVE  IInv' /\ Contracted
<1>1. TypeOK'
  <2>1. EngineTyped'
    BY CapsAssumption DEF IInv, TypeOK, EngineTyped, Placed, Labels, ReactLabels,
           DelegatedLabels, PlanLabels, Engines, Results, Questions, NoFailures, Stages,
           StallActions, Supervise, FreshAgent, ForgetAgent, watch, loop
  <2>2. MoneyTyped'
    BY CapsAssumption DEF IInv, TypeOK, MoneyTyped, StallActions, Supervise, FreshAgent,
           ForgetAgent, watch, loop
  <2>3. LoopTyped'
    BY DEF IInv, TypeOK, LoopTyped, StallActions, Supervise, FreshAgent, ForgetAgent,
           watch, loop
  <2>4. PlanTyped'
    BY PlanAssumption DEF IInv, TypeOK, PlanTyped, Placed, Questions, Stages,
           StallActions, Supervise, FreshAgent, ForgetAgent, watch, loop
  <2> QED  BY <2>1, <2>2, <2>3, <2>4, TypedNext
<1>2. Placed' /\ Verified'
  BY DEF IInv, TypeOK, Placed, Verified, CompletedIsVerified, Settled, ReactLabels,
         DelegatedLabels, PlanLabels, Supervise, FreshAgent, ForgetAgent, watch, loop
<1>3. Asked'
  BY DEF IInv, TypeOK, Placed, Asked, Settled, ReactLabels, DelegatedLabels, PlanLabels,
         Stages, Supervise, FreshAgent, ForgetAgent, watch, loop
<1>4. Accounted'
  BY CapsAssumption DEF IInv, TypeOK, Placed, Accounted, SpendWithinCap, OverCap,
         OverCapAt, Settled, ReactLabels, DelegatedLabels, PlanLabels, Supervise,
         FreshAgent, ForgetAgent, watch, loop
<1>5. Contracted
  <2>1. pc = "ended" /\ pc' = "prepare" /\ asked' = {}  BY DEF Supervise, FreshAgent
  <2>2. asked # {}  BY DEF IInv, Asked, Supervise
  <2> QED  BY <2>1, <2>2 DEF Contracted, Contract!Next, Contract!Answer
<1> QED  BY <1>1, <1>2, <1>3, <1>4, <1>5 DEF IInv

LEMMA RecoverInv ==
  ASSUME IInv, engine = "plan", Recover,
         UNCHANGED <<spent, slip, watch, loop, stallAction, stalls, childVars, executions>>
  PROVE  IInv' /\ Contracted
<1>1. TypeOK'
  <2>1. EngineTyped'
    BY CapsAssumption DEF IInv, TypeOK, EngineTyped, Placed, Labels, ReactLabels,
           DelegatedLabels, PlanLabels, Engines, Results, Questions, NoFailures, Stages,
           StallActions, Recover, FreshAgent, ForgetAgent, watch, loop
  <2>2. MoneyTyped'
    BY CapsAssumption DEF IInv, TypeOK, MoneyTyped, StallActions, Recover, FreshAgent,
           ForgetAgent, watch, loop
  <2>3. LoopTyped'
    BY DEF IInv, TypeOK, LoopTyped, StallActions, Recover, FreshAgent, ForgetAgent,
           watch, loop
  <2>4. PlanTyped'
    BY PlanAssumption DEF IInv, TypeOK, PlanTyped, Placed, Questions, Stages,
           StallActions, Recover, FreshAgent, ForgetAgent, watch, loop
  <2> QED  BY <2>1, <2>2, <2>3, <2>4, TypedNext
<1>2. Placed' /\ Verified'
  BY DEF IInv, TypeOK, Placed, Verified, CompletedIsVerified, Settled, ReactLabels,
         DelegatedLabels, PlanLabels, Recover, FreshAgent, ForgetAgent, watch, loop
<1>3. Asked'
  BY DEF IInv, TypeOK, Placed, Asked, Settled, ReactLabels, DelegatedLabels, PlanLabels,
         Stages, Recover, FreshAgent, ForgetAgent, watch, loop
<1>4. Accounted'
  BY CapsAssumption DEF IInv, TypeOK, Placed, Accounted, SpendWithinCap, OverCap,
         OverCapAt, Settled, ReactLabels, DelegatedLabels, PlanLabels, Recover,
         FreshAgent, ForgetAgent, watch, loop
<1>5. Contracted
  BY Working, Asking, Resting DEF IInv, TypeOK, Placed, Asked, Settled, ReactLabels,
         DelegatedLabels, PlanLabels, Questions, Recover, FreshAgent, ForgetAgent,
         watch, loop
<1> QED  BY <1>1, <1>2, <1>3, <1>4, <1>5 DEF IInv

LEMMA MapStateInv ==
  ASSUME IInv, engine = "plan", MapState,
         UNCHANGED <<spent, slip, watch, loop, stallAction, stalls, childVars, executions>>
  PROVE  IInv' /\ Contracted
<1>1. TypeOK'
  BY CapsAssumption, PlanAssumption DEF IInv, TypeOK, Placed, Labels, ReactLabels,
         DelegatedLabels, PlanLabels, Engines, Results, Questions, NoFailures, Stages,
         StallActions, MapState, Forget, ForgetAgent, watch, loop
<1>2. Placed' /\ Verified'
  BY DEF IInv, TypeOK, Placed, Verified, CompletedIsVerified, Settled, ReactLabels,
         DelegatedLabels, PlanLabels, MapState, Forget, ForgetAgent, watch, loop
<1>3. Asked'
  BY DEF IInv, TypeOK, Placed, Asked, Settled, ReactLabels, DelegatedLabels, PlanLabels,
         Stages, MapState, Forget, ForgetAgent, watch, loop
<1>4. Accounted'
  BY CapsAssumption DEF IInv, TypeOK, Placed, Accounted, SpendWithinCap, OverCap,
         OverCapAt, Settled, ReactLabels, DelegatedLabels, PlanLabels, MapState, Forget,
         ForgetAgent, watch, loop
<1>5. Contracted
  BY Working, Asking, Resting DEF IInv, TypeOK, Placed, Asked, Settled, ReactLabels,
         DelegatedLabels, PlanLabels, Questions, MapState, Forget, ForgetAgent, watch,
         loop
<1> QED  BY <1>1, <1>2, <1>3, <1>4, <1>5 DEF IInv

LEMMA BeginInv ==
  ASSUME IInv, Begin
  PROVE  IInv' /\ Contracted
<1>1. TypeOK'
  <2>1. EngineTyped'
    BY CapsAssumption DEF IInv, TypeOK, EngineTyped, Placed, Labels, ReactLabels,
           DelegatedLabels, PlanLabels, Engines, Results, Questions, NoFailures, Stages,
           StallActions, Begin, money, watch, loop, planVars, counters
  <2>2. MoneyTyped'
    BY CapsAssumption DEF IInv, TypeOK, MoneyTyped, StallActions, Begin, money, watch,
           loop, planVars, counters
  <2>3. LoopTyped'
    BY DEF IInv, TypeOK, LoopTyped, StallActions, Begin, money, watch, loop, planVars,
           counters
  <2>4. PlanTyped'
    BY PlanAssumption, ExecutionsAssumption
    DEF IInv, TypeOK, PlanTyped, Questions, Stages, Begin, planVars, counters
  <2> QED  BY <2>1, <2>2, <2>3, <2>4, TypedNext
<1>2. Placed' /\ Verified'
  <2>1. pc' \in {"start", "prepare", "delegate"} /\ result' = "none"
    BY DEF Begin
  <2>2. /\ pc' = "start" => engine' = "react"
        /\ pc' = "prepare" => engine' = "plan"
        /\ pc' = "delegate" => engine' = "delegated"
    BY DEF Begin, Engines
  <2> QED  BY <2>1, <2>2 DEF Placed, Verified, CompletedIsVerified, Settled, ReactLabels,
                             DelegatedLabels, PlanLabels
<1>3. Asked'
  BY DEF IInv, TypeOK, Placed, Asked, Settled, ReactLabels, DelegatedLabels, PlanLabels,
         Stages, Begin, money, watch, loop, planVars, counters
<1>4. Accounted'
  BY CapsAssumption DEF IInv, TypeOK, Placed, Accounted, SpendWithinCap, OverCap,
         OverCapAt, Settled, ReactLabels, DelegatedLabels, PlanLabels, Begin, money,
         watch, loop, planVars, counters
<1>5. Contracted
  <2>1. pc = "idle" \/ (pc = "done" /\ result \in {"failed", "blocked"})
    BY DEF IInv, TypeOK, Placed, Settled, Results, Begin
  <2>2. pc' \notin {"idle", "done"} /\ asked' = {}  BY DEF Begin
  <2> QED  BY <2>1, <2>2 DEF Contracted, Contract!Next, Contract!Begin
<1> QED  BY <1>1, <1>2, <1>3, <1>4, <1>5 DEF IInv

LEMMA ConcludeInv ==
  ASSUME IInv, Conclude
  PROVE  IInv' /\ Contracted
<1>1. TypeOK'
  <2>1. EngineTyped'
    BY CapsAssumption, ZenonT(60) DEF IInv, TypeOK, EngineTyped, Placed, Labels, ReactLabels,
           DelegatedLabels, PlanLabels, Engines, Results, Questions, NoFailures, Stages,
           StallActions, Conclude, reactVars, money, watch, loop, planVars, counters
  <2>2. MoneyTyped'
    BY CapsAssumption DEF IInv, TypeOK, MoneyTyped, StallActions, Conclude, reactVars,
           money, watch, loop, planVars, counters
  <2>3. LoopTyped'
    BY DEF IInv, TypeOK, LoopTyped, StallActions, Conclude, reactVars, money, watch,
           loop, planVars, counters
  <2>4. PlanTyped'
    BY PlanAssumption DEF IInv, TypeOK, PlanTyped, Placed, Questions, Stages,
           StallActions, Conclude, reactVars, money, watch, loop, planVars, counters
  <2> QED  BY <2>1, <2>2, <2>3, <2>4, TypedNext
<1>2. Placed' /\ Verified'
  BY DEF IInv, TypeOK, Placed, Verified, CompletedIsVerified, Settled, ReactLabels,
         DelegatedLabels, PlanLabels, Conclude, reactVars, money, watch, loop, planVars,
         counters
<1>3. Asked'
  BY DEF IInv, TypeOK, Placed, Asked, Settled, ReactLabels, DelegatedLabels, PlanLabels,
         Stages, Conclude, reactVars, money, watch, loop, planVars, counters
<1>4. Accounted'
  BY CapsAssumption DEF IInv, TypeOK, Placed, Accounted, SpendWithinCap, OverCap,
         OverCapAt, Settled, ReactLabels, DelegatedLabels, PlanLabels, Conclude,
         reactVars, money, watch, loop, planVars, counters
<1>5. Contracted
  <2>1. pc = "conclude" /\ pc' = "done"  BY DEF Conclude
  <2>2. CASE result = "blocked" /\ question # NoQuestion
    <3>1. question \in Questions /\ asked \subseteq {question}
      BY <2>1, <2>2 DEF IInv, TypeOK, Asked
    <3>2. CASE asked' = asked /\ result' \in {"blocked", "failed"}
      BY <2>1, <3>2 DEF Contracted, Contract!Next, Contract!Stop
    <3>3. CASE asked = {} /\ asked' = {question} /\ result' = "blocked"
      BY <2>1, <3>1, <3>3 DEF Contracted, Contract!Next, Contract!Ask
    <3>4. asked = {} \/ asked = {question}  BY <3>1
    <3> QED  BY <2>2, <3>2, <3>3, <3>4 DEF Conclude
  <2>3. CASE ~(result = "blocked" /\ question # NoQuestion)
    <3>1. asked' = asked /\ result' = result  BY <2>3 DEF Conclude
    <3>2. CASE result = "completed"
      <4>1. asked = {}  BY <2>1, <3>2 DEF IInv, Asked
      <4> QED  BY <2>1, <3>1, <3>2, <4>1 DEF Contracted, Contract!Next, Contract!Complete
    <3>3. CASE result \in {"failed", "blocked"}
      BY <2>1, <3>1, <3>3 DEF Contracted, Contract!Next, Contract!Stop
    <3> QED  BY <2>1, <3>2, <3>3 DEF IInv, TypeOK, Placed, Settled, Results
  <2> QED  BY <2>2, <2>3
<1> QED  BY <1>1, <1>2, <1>3, <1>4, <1>5 DEF IInv

-----------------------------------------------------------------------------
LEMMA InitInv == Init => IInv /\ Contract!Init
<1> SUFFICES ASSUME Init PROVE IInv /\ Contract!Init  OBVIOUS
<1>1. TypeOK
  <2>1. EngineTyped
    BY DEF Init, EngineTyped, Labels, Engines, Results, NoFailures
  <2>2. MoneyTyped  BY DEF Init, MoneyTyped
  <2>3. LoopTyped  BY DEF Init, LoopTyped, StallActions
  <2>4. PlanTyped  BY PlanAssumption, ExecutionsAssumption DEF Init, PlanTyped, Stages
  <2> QED  BY <2>1, <2>2, <2>3, <2>4, Typed
<1>2. Placed /\ Verified
  BY DEF Init, Placed, Verified, CompletedIsVerified, Settled, ReactLabels, DelegatedLabels,
         PlanLabels
<1>3. Asked
  BY DEF Init, Asked, DelegatedLabels
<1>4. Accounted
  BY CapsAssumption DEF Init, Accounted, SpendWithinCap, Settled, DelegatedLabels
<1>5. Contract!Init
  BY DEF Init, Contract!Init
<1> QED  BY <1>1, <1>2, <1>3, <1>4, <1>5 DEF IInv

LEMMA NextInv == ASSUME IInv, [Next]_vars PROVE IInv' /\ Contracted
<1>1. CASE ReactNext
  BY <1>1, StartInv, RaiseInv, FinallyInv, RetryInv, IterateInv, RespondInv, RunToolsInv,
     EnterRoundInv, PassInv, GiveUpInv, QuickFixInv, FailRoundInv, FixTurnInv, FixToolsInv
  DEF ReactNext, ReactStep
<1>2. CASE WatchdogNext
  BY <1>2, LullInv, MeasureInv, ReportInv DEF WatchdogNext, Watchdog
<1>3. CASE DelegatedNext
  BY <1>3, DelegateInv, WrapPassInv, WrapQuickFixInv, WrapEscalateInv, WrapCorrectInv,
     ExhaustInv, WrapRaiseInv
  DEF DelegatedNext, DelegatedStep
<1>4. CASE PlanNext
  BY <1>4, PrepareInv, FinishPlanInv, StopAtCapInv, ExecuteStepInv, CorrectLintInv, LeaveLintInv,
     CorrectStepInv, LeaveStepInv, AskAboutStepInv, RunGatesInv, RepairInv, RepairFailsInv,
     PlanRaiseInv, SuperviseInv, RecoverInv, MapStateInv
  DEF PlanNext, PlanStep
<1>5. CASE UNCHANGED vars
  <2>1. Contracted
    BY <1>5, Resting DEF vars, engineVars
  <2>2. TypeOK' /\ Placed' /\ Verified'
    BY <1>5 DEF vars, engineVars, reactVars, money, watch, loop, planVars, counters, IInv, TypeOK,
                Placed, Verified, CompletedIsVerified
  <2>3. Asked' /\ Accounted'
    BY <1>5 DEF vars, engineVars, reactVars, money, watch, loop, planVars, counters, IInv,
                Asked, Accounted, SpendWithinCap, OverCap, OverCapAt
  <2> QED  BY <2>1, <2>2, <2>3 DEF IInv
<1> QED  BY <1>1, <1>2, <1>3, <1>4, <1>5, BeginInv, ConcludeInv DEF Next

LEMMA Inductive == Spec => []IInv
  BY InitInv, NextInv, PTL DEF Spec

\* Every variable has the shape the code gives it.
THEOREM TypeCorrect == Spec => []TypeOK
  BY Inductive, PTL DEF IInv

\* A run completes only with gates passed on the tree as its last write left it,
\* after its agent said it was done and, where the zero-file guard applies to the
\* delegated engine, with changes shown by git after its child's last run.
THEOREM CompletedIsVerifiedAlways == Spec => []CompletedIsVerified
<1>1. IInv => CompletedIsVerified  BY DEF IInv, Verified
<1> QED  BY <1>1, Inductive, PTL

\* A built-in run that failed left no question behind, whichever of its agents,
\* loops and caps ended it.
THEOREM FailedAsksNothingAlways == Spec => []FailedAsksNothing
<1>1. IInv => FailedAsksNothing  BY DEF IInv, Asked, FailedAsksNothing
<1> QED  BY <1>1, Inductive, PTL

\* The calls of the built-in engine, over all executions, retries and correction
\* loops, stay within any cap, unless the accounting slipped.
THEOREM SpendWithinCapAlways == Spec => []SpendWithinCap
<1>1. IInv => SpendWithinCap  BY DEF IInv, Accounted
<1> QED  BY <1>1, Inductive, PTL

\* Whichever engine runs, and however it is retried, supervised and stopped, an
\* execution is one of EngineContract: one question at a time, none when it
\* completes, and an outcome that stands.
THEOREM ContractImplemented == Spec => ContractSpec
  BY InitInv, NextInv, Inductive, PTL
  DEF Spec, ContractSpec, Contract!Spec, Contracted
=============================================================================
