------------------------- MODULE ProofLedgerProofs -------------------------
(* What the ledger and the merge gate keep for any number of requirements,     *)
(* gates and concurrent proof runs.                                            *)
EXTENDS ProofLedger, TLAPS

\* Whatever is in the ledger was captured.
Captured == \A r \in Reqs : req[r].status # "absent" => req[r].glitch \in Glitches

\* What a run has listed was captured and not waived, and so carries no waiver.
Listed(row) == row.glitch \in Glitches /\ row.status \in {"open", "satisfied"} /\ row.waiver = "none"
CopiesUnwaived ==
  \A p \in Runs :
    /\ \A copy \in run[p].todo : Listed(copy[2])
    /\ run[p].pc \in {"gates", "reopen"} => Listed(run[p].row)
    /\ run[p].row.status # "waived"

\* A pass that a run has counted is in the evidence.
PassesRecorded ==
  \A p \in Runs :
    /\ run[p].pc \in {"gates", "reopen"} => run[p].id \in Reqs
    /\ \A g \in Gates : run[p].results[g] = "passed" =>
         run[p].pc \in {"gates", "reopen"} /\ evidence[run[p].id][g].artifact # "none"

\* Where a requirement is that the check may not miss, at each phase of the check.
OnTheWay(r) ==
  \/ merge.pc = "satisfied" /\ req[r].status = "satisfied"
  \/ merge.pc = "verify" /\ r \in merge.todo /\ req[r].status = "satisfied"
NoneMissed ==
  /\ merge.pc \in {"satisfied", "verify", "allowed"} =>
       \A r \in Reqs : r \in spared \/ r \in merge.found \/ OnTheWay(r)
  /\ merge.pc = "allowed" /\ ~merge.override => merge.found = {}

IInv == TypeOK /\ Captured /\ SatisfiedIsProven /\ CopiesUnwaived /\ PassesRecorded /\ NoneMissed

Frames == [pc : Phases, full : BOOLEAN, may : SUBSET Gates, lapsed : SUBSET Reqs,
           todo : SUBSET (Reqs \X Rows), id : Reqs \cup {0}, row : Rows,
           results : [Gates -> Outcomes \cup {"none"}]]
Proofs == [last : Outcomes \cup {"none"}, artifact : {"none", "intact", "lost"}]

\* What the invariant says of one run's frame.
FrameOK(f) ==
  /\ f \in Frames
  /\ \A copy \in f.todo : Listed(copy[2])
  /\ f.pc \in {"gates", "reopen"} => Listed(f.row)
  /\ f.row.status # "waived"
  /\ f.pc \in {"gates", "reopen"} => f.id \in Reqs
  /\ \A g \in Gates : f.results[g] = "passed" =>
       f.pc \in {"gates", "reopen"} /\ evidence'[f.id][g].artifact # "none"

\* What it says of one row.
RowOK(r, row) ==
  /\ row \in Rows
  /\ row.status # "absent" => row.glitch \in Glitches
  /\ row.status = "satisfied" =>
       \A g \in Obligations[row.glitch] : evidence'[r][g].artifact # "none"
  /\ row.status = "waived" <=> row.waiver # "none"

USE ObligationsAssumption, LedgerAssumption

-----------------------------------------------------------------------------
LEMMA Idle == /\ IdleRun \in Frames /\ NoRow \in Rows
              /\ IdleRun.pc = "idle" /\ IdleRun.todo = {} /\ IdleRun.row = NoRow
              /\ IdleRun.lapsed = {} /\ IdleRun.id = 0
              /\ IdleRun.results = [g \in Gates |-> "none"]
BY DEF IdleRun, NoRow, Frames, Rows, Phases, Outcomes, Statuses

\* Evidence never goes away.
Grows == \A r \in Reqs, g \in Gates :
           evidence[r][g].artifact # "none" => evidence'[r][g].artifact # "none"

LEMMA Same == ASSUME IInv, UNCHANGED evidence
              PROVE Grows /\ evidence' \in [Reqs -> [Gates -> Proofs]]
BY DEF IInv, TypeOK, Grows, Proofs

\* Runs whose frames do not change stay in order while evidence grows.
LEMMA FramesStay ==
  ASSUME IInv, Grows, NEW p \in Runs
  PROVE  FrameOK(run[p])
<1>1. run[p] \in Frames BY DEF IInv, TypeOK, Frames
<1>2. \A g \in Gates : run[p].results[g] = "passed" =>
        run[p].pc \in {"gates", "reopen"} /\ evidence'[run[p].id][g].artifact # "none"
  BY DEF IInv, PassesRecorded, Grows
<1> QED BY <1>1, <1>2 DEF IInv, CopiesUnwaived, PassesRecorded, FrameOK

LEMMA RowsStay ==
  ASSUME IInv, Grows, NEW r \in Reqs
  PROVE  RowOK(r, req[r])
<1>1. req[r] \in Rows BY DEF IInv, TypeOK
<1>2. ASSUME req[r].status = "satisfied", NEW g \in Obligations[req[r].glitch]
      PROVE  evidence'[r][g].artifact # "none"
  <2>1. evidence[r][g].artifact # "none" BY <1>2 DEF IInv, SatisfiedIsProven
  <2>2. req[r].glitch \in Glitches BY <1>2 DEF IInv, Captured
  <2>3. g \in Gates BY <2>2
  <2> QED BY <2>1, <2>3 DEF Grows
<1> QED BY <1>1, <1>2 DEF IInv, SatisfiedIsProven, Captured, RowOK

\* The merge gate misses nothing in a step of anybody else, whatever the step
\* does to the rows.
LEMMA CheckStays ==
  ASSUME IInv, UNCHANGED merge, SpareDuringCheck
  PROVE  NoneMissed' /\ spared' \subseteq Reqs
<1>1. spared' \subseteq Reqs BY DEF IInv, TypeOK, SpareDuringCheck
<1>2. ASSUME merge.pc \in {"satisfied", "verify", "allowed"}, NEW r \in Reqs
      PROVE  r \in spared' \/ r \in merge'.found \/ OnTheWay(r)'
  <2>1. r \in spared \/ r \in merge.found \/ OnTheWay(r) BY <1>2 DEF IInv, NoneMissed
  <2>2. spared \subseteq spared' BY <1>2 DEF SpareDuringCheck
  <2>3. ASSUME req[r].status = "satisfied", req'[r].status # "satisfied" PROVE r \in spared'
    BY <1>2, <2>3 DEF SpareDuringCheck, Blocks
  <2> QED BY <2>1, <2>2, <2>3 DEF OnTheWay
<1>3. merge.pc = "allowed" /\ ~merge.override => merge.found = {} BY DEF IInv, NoneMissed
<1> QED BY <1>1, <1>2, <1>3 DEF NoneMissed

\* What is left to show of a step of anybody but the gate.
LEMMA Assemble ==
  ASSUME IInv, UNCHANGED merge, SpareDuringCheck,
         evidence' \in [Reqs -> [Gates -> Proofs]],
         capture' \in [Glitches -> [pc : {"idle", "stubs", "saved"}, id : Reqs]],
         req' \in [Reqs -> Rows], \A r \in Reqs : RowOK(r, req'[r]),
         run' \in [Runs -> Frames], \A p \in Runs : FrameOK(run'[p])
  PROVE  IInv'
<1>1. TypeOK' BY CheckStays DEF IInv, TypeOK, Frames, Proofs
<1>2. Captured' /\ SatisfiedIsProven' BY DEF RowOK, Captured, SatisfiedIsProven
<1>3. CopiesUnwaived' BY DEF FrameOK, CopiesUnwaived
<1>4. PassesRecorded' BY DEF FrameOK, PassesRecorded
<1> QED BY <1>1, <1>2, <1>3, <1>4, CheckStays DEF IInv

\* A step that only changes row r, or only the frame of run p, or both.
LEMMA RowStep ==
  ASSUME IInv, Grows, NEW r \in Reqs, NEW row, req' = [req EXCEPT ![r] = row], RowOK(r, row)
  PROVE  req' \in [Reqs -> Rows] /\ \A s \in Reqs : RowOK(s, req'[s])
<1>1. req \in [Reqs -> Rows] /\ row \in Rows BY DEF IInv, TypeOK, RowOK
<1>2. req' \in [Reqs -> Rows] BY <1>1
<1>3. ASSUME NEW s \in Reqs PROVE RowOK(s, req'[s])
  <2>1. CASE s = r BY <1>1, <2>1
  <2>2. CASE s # r
    <3>1. req'[s] = req[s] BY <1>1, <2>2
    <3> QED BY <3>1, RowsStay
  <2> QED BY <2>1, <2>2
<1> QED BY <1>2, <1>3

LEMMA FrameStep ==
  ASSUME IInv, Grows, NEW p \in Runs, NEW f, run' = [run EXCEPT ![p] = f], FrameOK(f)
  PROVE  run' \in [Runs -> Frames] /\ \A q \in Runs : FrameOK(run'[q])
<1>1. run \in [Runs -> Frames] /\ f \in Frames BY DEF IInv, TypeOK, Frames, FrameOK
<1>2. run' \in [Runs -> Frames] BY <1>1
<1>3. ASSUME NEW q \in Runs PROVE FrameOK(run'[q])
  <2>1. CASE q = p BY <1>1, <2>1
  <2>2. CASE q # p
    <3>1. run'[q] = run[q] BY <1>1, <2>2
    <3> QED BY <3>1, FramesStay
  <2> QED BY <2>1, <2>2
<1> QED BY <1>2, <1>3

LEMMA RowsUnchanged ==
  ASSUME IInv, Grows, UNCHANGED req
  PROVE  req' \in [Reqs -> Rows] /\ \A s \in Reqs : RowOK(s, req'[s])
BY RowsStay DEF IInv, TypeOK

LEMMA RunsUnchanged ==
  ASSUME IInv, Grows, UNCHANGED run
  PROVE  run' \in [Runs -> Frames] /\ \A q \in Runs : FrameOK(run'[q])
BY FramesStay DEF IInv, TypeOK, Frames

LEMMA RunsTyped == IInv => run \in [Runs -> Frames]
BY DEF IInv, TypeOK, Frames

LEMMA CaptureTyped ==
  ASSUME IInv
  PROVE  capture \in [Glitches -> [pc : {"idle", "stubs", "saved"}, id : Reqs]]
BY DEF IInv, TypeOK

-----------------------------------------------------------------------------
LEMMA CaptureKeeps ==
  ASSUME IInv, SpareDuringCheck, NEW g \in Glitches,
         AllocateId(g) \/ CaptureFails(g) \/ SaveCapture(g)
  PROVE  IInv'
<1>1. UNCHANGED <<evidence, run, merge>> BY DEF AllocateId, CaptureFails, SaveCapture
<1>2. Grows /\ evidence' \in [Reqs -> [Gates -> Proofs]] BY <1>1, Same
<1>3. capture' \in [Glitches -> [pc : {"idle", "stubs", "saved"}, id : Reqs]]
  BY CaptureTyped DEF AllocateId, CaptureFails, SaveCapture, NextReqId
<1>4. req' \in [Reqs -> Rows] /\ \A s \in Reqs : RowOK(s, req'[s])
  <2>1. CASE SaveCapture(g)
    <3>1. RowOK(capture[g].id, NewRow(g)) BY DEF RowOK, NewRow, Rows, Statuses
    <3>2. capture[g].id \in Reqs BY CaptureTyped
    <3> QED BY <1>2, <2>1, <3>1, <3>2, RowStep DEF SaveCapture
  <2>2. CASE UNCHANGED req BY <1>2, <2>2, RowsUnchanged
  <2> QED BY <2>1, <2>2 DEF AllocateId, CaptureFails
<1> QED BY <1>1, <1>2, <1>3, <1>4, RunsUnchanged, Assemble

LEMMA WaiverKeeps ==
  ASSUME IInv, SpareDuringCheck, NEW r \in Reqs, WaiveRequirement(r) \/ WaiverLapses(r)
  PROVE  IInv'
<1>1. UNCHANGED <<evidence, capture, run, merge>> BY DEF WaiveRequirement, WaiverLapses
<1>2. Grows /\ evidence' \in [Reqs -> [Gates -> Proofs]] BY <1>1, Same
<1>3. PICK w \in {"valid", "lapsed"} :
        req' = [req EXCEPT ![r] = [req[r] EXCEPT !.status = "waived", !.waiver = w]]
  <2>1. CASE WaiveRequirement(r) BY <2>1 DEF WaiveRequirement
  <2>2. CASE WaiverLapses(r)
    <3>1. req[r] \in Rows BY DEF IInv, TypeOK
    <3>2. [req[r] EXCEPT !.waiver = "lapsed"]
          = [req[r] EXCEPT !.status = "waived", !.waiver = "lapsed"]
      BY <2>2, <3>1 DEF WaiverLapses, Rows
    <3> QED BY <2>2, <3>2 DEF WaiverLapses
  <2> QED BY <2>1, <2>2
<1>4. RowOK(r, [req[r] EXCEPT !.status = "waived", !.waiver = w])
  <2>1. req[r] \in Rows /\ req[r].glitch \in Glitches
    BY DEF IInv, TypeOK, Captured, WaiveRequirement, WaiverLapses, Exists
  <2> QED BY <2>1 DEF RowOK, Rows, Statuses
<1>5. req' \in [Reqs -> Rows] /\ \A s \in Reqs : RowOK(s, req'[s])
  BY <1>2, <1>3, <1>4, RowStep
<1> QED BY <1>1, <1>2, <1>5, CaptureTyped, RunsUnchanged, Assemble

LEMMA LossKeeps ==
  ASSUME IInv, SpareDuringCheck, NEW r \in Reqs, NEW g \in Gates, LoseArtifact(r, g)
  PROVE  IInv'
<1>1. UNCHANGED <<req, capture, run, merge>> BY DEF LoseArtifact
<1>2. evidence \in [Reqs -> [Gates -> Proofs]] BY DEF IInv, TypeOK, Proofs
<1>3. evidence' \in [Reqs -> [Gates -> Proofs]]
  <2>1. evidence[r][g] \in Proofs /\ evidence[r] \in [Gates -> Proofs] BY <1>2
  <2>2. [evidence[r][g] EXCEPT !.artifact = "lost"] \in Proofs BY <2>1 DEF Proofs
  <2>3. [evidence[r] EXCEPT ![g] = [evidence[r][g] EXCEPT !.artifact = "lost"]] \in [Gates -> Proofs]
    BY <2>1, <2>2
  <2> QED BY <1>2, <2>3 DEF LoseArtifact
<1>4. Grows BY <1>2 DEF LoseArtifact, Grows, Proofs
<1> QED BY <1>1, <1>3, <1>4, CaptureTyped, RowsUnchanged, RunsUnchanged, Assemble

-----------------------------------------------------------------------------
\* A step of run p that touches neither rows nor evidence.
LEMMA FrameOnly ==
  ASSUME IInv, SpareDuringCheck, UNCHANGED <<req, evidence, capture, merge>>,
         NEW p \in Runs, NEW f, run' = [run EXCEPT ![p] = f], FrameOK(f)
  PROVE  IInv'
<1>1. Grows /\ evidence' \in [Reqs -> [Gates -> Proofs]] BY Same
<1> QED BY <1>1, CaptureTyped, RowsUnchanged, FrameStep, Assemble

LEMMA LetGoOK ==
  ASSUME IInv, Grows, NEW p \in Runs, LetGo(p)
  PROVE  run' \in [Runs -> Frames] /\ \A q \in Runs : FrameOK(run'[q])
<1> DEFINE f == [run[p] EXCEPT !.pc = "next", !.id = 0, !.row = NoRow, !.results = IdleRun.results]
<1>1. run' = [run EXCEPT ![p] = f] BY DEF LetGo
<1>2. FrameOK(run[p]) BY FramesStay
<1>3. FrameOK(f) BY <1>2, Idle DEF FrameOK, Frames, Phases, NoRow, Outcomes
<1> QED BY <1>1, <1>3, FrameStep

LEMMA ListingsKeep ==
  ASSUME IInv, SpareDuringCheck, NEW p \in Runs,
         \/ StartProof(p) \/ FindLapsed(p) \/ ListOpen(p) \/ ListSatisfied(p)
         \/ TakeRequirement(p) \/ SkipOutOfScope(p) \/ EndProof(p) \/ ProofDies(p)
  PROVE  IInv'
<1>1. UNCHANGED <<req, evidence, capture, merge>>
  BY DEF StartProof, FindLapsed, ListOpen, ListSatisfied, TakeRequirement, SkipOutOfScope,
         EndProof, ProofDies
<1>2. Grows BY <1>1, Same
<1>3. FrameOK(run[p]) BY <1>2, FramesStay
<1>4. FrameOK(IdleRun) BY Idle DEF FrameOK, NoRow
<1>5. \A r \in Reqs : req[r] \in Rows /\ (req[r].status \in {"open", "satisfied"} => Listed(req[r]))
  BY DEF IInv, TypeOK, Captured, SatisfiedIsProven, Listed
<1>6. PICK f : run' = [run EXCEPT ![p] = f] /\ FrameOK(f)
  <2>1. CASE StartProof(p)
    <3>1. PICK full \in BOOLEAN, may \in SUBSET Gates :
            run' = [run EXCEPT ![p] = [IdleRun EXCEPT !.pc = "waivers", !.full = full, !.may = may]]
      BY <2>1 DEF StartProof
    <3>2. FrameOK([IdleRun EXCEPT !.pc = "waivers", !.full = full, !.may = may])
      BY <1>4, Idle DEF FrameOK, Frames, Phases
    <3> QED BY <3>1, <3>2
  <2>2. CASE FindLapsed(p)
    <3> DEFINE f == [run[p] EXCEPT !.pc = "expire",
                                   !.lapsed = {r \in With("waived") : req[r].waiver = "lapsed"}]
    <3>1. FrameOK(f) BY <1>3, <2>2 DEF FindLapsed, At, FrameOK, Frames, Phases, With
    <3> QED BY <2>2, <3>1 DEF FindLapsed
  <2>3. CASE ListOpen(p)
    <3> DEFINE c == {<<r, req[r]>> : r \in With("open")}
               f == [run[p] EXCEPT !.pc = IF run[p].full THEN "satisfied" ELSE "next", !.todo = c]
    <3>1. c \in SUBSET (Reqs \X Rows) /\ \A copy \in c : Listed(copy[2]) BY <1>5 DEF With
    <3>2. FrameOK(f) BY <1>3, <2>3, <3>1 DEF ListOpen, At, FrameOK, Frames, Phases
    <3> QED BY <2>3, <3>2 DEF ListOpen
  <2>4. CASE ListSatisfied(p)
    <3> DEFINE c == {<<r, req[r]>> : r \in With("satisfied")}
               f == [run[p] EXCEPT !.pc = "next", !.todo = @ \cup c]
    <3>1. c \in SUBSET (Reqs \X Rows) /\ \A copy \in c : Listed(copy[2]) BY <1>5 DEF With
    <3>2. FrameOK(f) BY <1>3, <2>4, <3>1 DEF ListSatisfied, At, FrameOK, Frames, Phases
    <3> QED BY <2>4, <3>2 DEF ListSatisfied
  <2>5. CASE TakeRequirement(p)
    <3>1. PICK copy \in run[p].todo :
            run' = [run EXCEPT ![p] = [run[p] EXCEPT !.pc = "gates", !.todo = @ \ {copy},
                                                     !.id = copy[1], !.row = copy[2]]]
      BY <1>3, <2>5, RunsTyped, ZenonT(60) DEF TakeRequirement, FrameOK, Frames
    <3> DEFINE f == [run[p] EXCEPT !.pc = "gates", !.todo = @ \ {copy}, !.id = copy[1], !.row = copy[2]]
    <3>2. copy[1] \in Reqs /\ copy[2] \in Rows /\ Listed(copy[2]) BY <1>3 DEF FrameOK, Frames
    <3>3. \A g \in Gates : run[p].results[g] # "passed"
      BY <1>3, <2>5 DEF FrameOK, TakeRequirement, At
    <3>4. f \in Frames BY <1>3, <3>2 DEF FrameOK, Frames, Phases
    <3>5. /\ f.todo \subseteq run[p].todo /\ f.row = copy[2] /\ f.id = copy[1]
          /\ f.results = run[p].results
      BY <1>3 DEF FrameOK, Frames
    <3>6. FrameOK(f) BY <1>3, <3>2, <3>3, <3>4, <3>5 DEF FrameOK, Listed
    <3> QED BY <3>1, <3>6
  <2>6. CASE SkipOutOfScope(p)
    <3>1. PICK copy \in run[p].todo : run' = [run EXCEPT ![p] = [run[p] EXCEPT !.todo = @ \ {copy}]]
      BY <2>6 DEF SkipOutOfScope
    <3>2. FrameOK([run[p] EXCEPT !.todo = @ \ {copy}]) BY <1>3 DEF FrameOK, Frames
    <3> QED BY <3>1, <3>2
  <2>7. CASE EndProof(p) BY <1>4, <2>7 DEF EndProof
  <2>8. CASE ProofDies(p)
    <3>1. FrameOK([IdleRun EXCEPT !.pc = "dead", !.id = run[p].id])
      BY <1>3, <1>4, Idle DEF FrameOK, Frames, Phases
    <3> QED BY <2>8, <3>1 DEF ProofDies
  <2> QED BY <2>1, <2>2, <2>3, <2>4, <2>5, <2>6, <2>7, <2>8
<1> QED BY <1>1, <1>6, FrameOnly

LEMMA ReopenLapsedKeeps ==
  ASSUME IInv, SpareDuringCheck, NEW p \in Runs, ReopenLapsed(p)
  PROVE  IInv'
<1>1. UNCHANGED <<evidence, capture, merge>> BY DEF ReopenLapsed
<1>2. Grows /\ evidence' \in [Reqs -> [Gates -> Proofs]] BY <1>1, Same
<1>3. FrameOK(run[p]) BY <1>2, FramesStay
<1> DEFINE f == [run[p] EXCEPT !.pc = "open", !.lapsed = {}]
<1>4. FrameOK(f) BY <1>3 DEF ReopenLapsed, At, FrameOK, Frames, Phases
<1>5. run' = [run EXCEPT ![p] = f] BY RunsTyped DEF ReopenLapsed, Frames
<1>6. ASSUME NEW r \in Reqs PROVE RowOK(r, req'[r])
  <2>1. RowOK(r, req[r]) BY <1>2, RowsStay
  <2>2. CASE r \in run[p].lapsed /\ Exists(r)
    <3>1. req'[r] = [req[r] EXCEPT !.status = "open", !.waiver = "none"] BY <2>2 DEF ReopenLapsed
    <3> QED BY <2>1, <2>2, <3>1 DEF RowOK, Rows, Statuses, Exists
  <2>3. CASE ~(r \in run[p].lapsed /\ Exists(r)) BY <2>1, <2>3 DEF ReopenLapsed
  <2> QED BY <2>2, <2>3
<1>7. req' \in [Reqs -> Rows] BY <1>6 DEF RowOK, ReopenLapsed
<1> QED BY <1>1, <1>2, <1>4, <1>5, <1>6, <1>7, CaptureTyped, FrameStep, Assemble

LEMMA RunGateKeeps ==
  ASSUME IInv, SpareDuringCheck, NEW p \in Runs, NEW g \in Gates, RunGate(p, g)
  PROVE  IInv'
<1>1. UNCHANGED <<req, capture, merge>> BY DEF RunGate
<1> DEFINE id == run[p].id
<1>2. PICK outcome \in Outcomes :
        /\ run' = [run EXCEPT ![p] = [run[p] EXCEPT !.results[g] = outcome]]
        /\ evidence' = [evidence EXCEPT ![id] = [evidence[id] EXCEPT ![g] =
             [last |-> outcome,
              artifact |-> IF outcome = "passed" THEN "intact" ELSE evidence[id][g].artifact]]]
  BY DEF RunGate
<1>3. id \in Reqs /\ run[p].pc = "gates" BY DEF RunGate, At, IInv, PassesRecorded
<1>4. evidence \in [Reqs -> [Gates -> Proofs]] BY DEF IInv, TypeOK, Proofs
<1> DEFINE row == [last |-> outcome,
                   artifact |-> IF outcome = "passed" THEN "intact" ELSE evidence[id][g].artifact]
<1>5. evidence[id][g] \in Proofs /\ evidence[id] \in [Gates -> Proofs] BY <1>3, <1>4
<1>6. row \in Proofs BY <1>5 DEF Proofs
<1>7. evidence' \in [Reqs -> [Gates -> Proofs]]
  <2>1. [evidence[id] EXCEPT ![g] = row] \in [Gates -> Proofs] BY <1>5, <1>6
  <2> QED BY <1>2, <1>3, <1>4, <2>1
<1>8. evidence'[id][g] = row BY <1>2, <1>3, <1>4, <1>5
<1>9. \A r \in Reqs, h \in Gates : (r = id /\ h = g) \/ evidence'[r][h] = evidence[r][h]
  BY <1>2, <1>3, <1>4
<1>10. Grows BY <1>8, <1>9 DEF Grows
<1>11. FrameOK(run[p]) BY <1>10, FramesStay
<1> DEFINE f == [run[p] EXCEPT !.results[g] = outcome]
<1>12. f \in Frames BY <1>11 DEF FrameOK, Frames
<1>13. /\ f.todo = run[p].todo /\ f.row = run[p].row /\ f.id = id /\ f.pc = "gates"
       /\ \A h \in Gates : f.results[h] = IF h = g THEN outcome ELSE run[p].results[h]
  BY <1>3, <1>11 DEF FrameOK, Frames
<1>14. ASSUME NEW h \in Gates, f.results[h] = "passed" PROVE evidence'[id][h].artifact # "none"
  <2>1. CASE h = g BY <1>8, <1>13, <1>14, <2>1
  <2>2. CASE h # g BY <1>11, <1>13, <1>14, <2>2 DEF FrameOK
  <2> QED BY <2>1, <2>2
<1>15. FrameOK(f) BY <1>3, <1>11, <1>12, <1>13, <1>14 DEF FrameOK
<1> QED BY <1>1, <1>2, <1>7, <1>10, <1>15, CaptureTyped, FrameStep, RowsUnchanged, Assemble

\* A run that writes its copy back and goes on.
LEMMA WriteBack ==
  ASSUME IInv, SpareDuringCheck, NEW p \in Runs, NEW row,
         UNCHANGED <<evidence, capture, merge>>, LetGo(p),
         run[p].id \in Reqs, req' = [req EXCEPT ![run[p].id] = row], RowOK(run[p].id, row)
  PROVE  IInv'
<1>1. Grows /\ evidence' \in [Reqs -> [Gates -> Proofs]] BY Same
<1>2. req' \in [Reqs -> Rows] /\ \A s \in Reqs : RowOK(s, req'[s]) BY <1>1, RowStep
<1> QED BY <1>1, <1>2, LetGoOK, CaptureTyped, Assemble

\* What a run about to settle a requirement holds.
LEMMA AtGates ==
  ASSUME IInv, NEW p \in Runs, run[p].pc \in {"gates", "reopen"}
  PROVE  /\ run[p].id \in Reqs /\ run[p].row \in Rows /\ Listed(run[p].row)
         /\ run \in [Runs -> Frames] /\ run[p] \in Frames
BY RunsTyped DEF IInv, PassesRecorded, CopiesUnwaived, Frames

LEMMA SettlingKeeps ==
  ASSUME IInv, SpareDuringCheck, NEW p \in Runs,
         \/ NothingRan(p) \/ MarkSatisfied(p) \/ FindRegressed(p)
         \/ ReopenRequirement(p) \/ SaveUnproven(p)
  PROVE  IInv'
<1>1. run[p].pc \in {"gates", "reopen"} /\ UNCHANGED <<evidence, capture, merge>>
  BY DEF NothingRan, MarkSatisfied, FindRegressed, ReopenRequirement, SaveUnproven, At, AllRan
<1>2. /\ run[p].id \in Reqs /\ run[p].row \in Rows /\ Listed(run[p].row)
      /\ run \in [Runs -> Frames] /\ run[p] \in Frames
  BY <1>1, AtGates
<1>3. Grows /\ evidence' \in [Reqs -> [Gates -> Proofs]] BY <1>1, Same
<1>4. ASSUME UNCHANGED req, LetGo(p) PROVE IInv'
  BY <1>1, <1>3, <1>4, LetGoOK, CaptureTyped, RowsUnchanged, Assemble
<1>5. CASE MarkSatisfied(p)
  <2> DEFINE row == [run[p].row EXCEPT !.status = "satisfied"]
  <2>1. row \in Rows /\ row.glitch = run[p].row.glitch /\ row.status = "satisfied"
        /\ row.waiver = "none"
    BY <1>2 DEF Rows, Statuses, Listed
  <2>2. ASSUME NEW g \in Obligations[row.glitch] PROVE evidence'[run[p].id][g].artifact # "none"
    <3>1. g \in Gates /\ run[p].results[g] = "passed"
      BY <1>2, <1>5, <2>1 DEF MarkSatisfied, Proved, Obliged, Listed
    <3>2. evidence[run[p].id][g].artifact # "none" BY <3>1 DEF IInv, PassesRecorded
    <3> QED BY <1>1, <3>2
  <2>3. RowOK(run[p].id, row) BY <1>2, <2>1, <2>2 DEF RowOK, Listed
  <2> QED BY <1>1, <1>2, <1>5, <2>3, WriteBack DEF MarkSatisfied
<1>6. CASE ReopenRequirement(p)
  <2>1. RowOK(run[p].id, [run[p].row EXCEPT !.status = "open"])
    BY <1>2 DEF RowOK, Rows, Statuses, Listed
  <2> QED BY <1>1, <1>2, <1>6, <2>1, WriteBack DEF ReopenRequirement
<1>7. CASE SaveUnproven(p)
  <2>1. RowOK(run[p].id, run[p].row) BY <1>2, <1>7 DEF SaveUnproven, RowOK, Listed
  <2> QED BY <1>1, <1>2, <1>7, <2>1, WriteBack DEF SaveUnproven
<1>8. CASE FindRegressed(p) /\ req[run[p].id].status \notin {"waived", "absent"}
  <2> DEFINE f == [run[p] EXCEPT !.pc = "reopen", !.row = req[run[p].id]]
  <2>1. run' = [run EXCEPT ![p] = f] BY <1>2, <1>8 DEF FindRegressed, Frames
  <2>2. req[run[p].id] \in Rows /\ Listed(req[run[p].id])
    BY <1>2, <1>8 DEF IInv, TypeOK, Captured, SatisfiedIsProven, Listed, Rows, Statuses
  <2>3. f \in Frames BY <1>2, <2>2 DEF Frames, Phases
  <2>4. /\ f.todo = run[p].todo /\ f.row = req[run[p].id] /\ f.id = run[p].id
        /\ f.pc = "reopen" /\ f.results = run[p].results
    BY <1>2 DEF Frames
  <2>5. FrameOK(run[p]) BY <1>3, FramesStay
  <2>6. FrameOK(f) BY <1>2, <2>2, <2>3, <2>4, <2>5 DEF FrameOK, Listed
  <2> QED BY <1>1, <1>8, <2>1, <2>6, FrameOnly DEF FindRegressed
<1>9. CASE FindRegressed(p) /\ req[run[p].id].status \in {"waived", "absent"}
  BY <1>4, <1>9 DEF FindRegressed
<1>10. CASE NothingRan(p) BY <1>4, <1>10 DEF NothingRan
<1> QED BY <1>5, <1>6, <1>7, <1>8, <1>9, <1>10

-----------------------------------------------------------------------------
LEMMA MergingKeeps ==
  ASSUME IInv, SpareDuringCheck, Merging
  PROVE  IInv'
<1>1. UNCHANGED <<req, evidence, capture, run>>
  BY DEF Merging, AskMerge, GateListsOpen, GateListsSatisfied, GateVerifies, GateAnswers, MergeEnds
<1>2. spared' \subseteq Reqs BY DEF IInv, TypeOK, SpareDuringCheck
<1> DEFINE Checks == [pc : {"idle", "open", "satisfied", "verify", "allowed"}, override : BOOLEAN,
                      todo : SUBSET Reqs, found : SUBSET Reqs]
<1>3. merge \in Checks BY DEF IInv, TypeOK
<1>4. merge' \in Checks
  <2>1. IdleMerge \in Checks BY DEF IdleMerge
  <2>2. CASE AskMerge BY <2>1, <2>2 DEF AskMerge, IdleMerge
  <2>3. CASE GateListsOpen BY <1>3, <2>3 DEF GateListsOpen, With
  <2>4. CASE GateListsSatisfied BY <1>3, <2>4 DEF GateListsSatisfied, With
  <2>5. ASSUME NEW r \in Reqs, GateVerifies(r) PROVE merge' \in Checks
    BY <1>3, <2>5 DEF GateVerifies
  <2>6. CASE GateAnswers BY <1>3, <2>1, <2>6 DEF GateAnswers
  <2>7. CASE MergeEnds BY <2>1, <2>7 DEF MergeEnds
  <2> QED BY <2>2, <2>3, <2>4, <2>5, <2>6, <2>7 DEF Merging
<1>5. merge'.pc # "idle" => \A r \in Reqs : r \in spared \/ ~Blocks(r)' => r \in spared'
  BY DEF SpareDuringCheck
<1>6. NoneMissed'
  <2>1. CASE AskMerge \/ MergeEnds
    <3>1. IdleMerge \in Checks /\ IdleMerge.pc = "idle" BY DEF IdleMerge
    <3>2. CASE AskMerge
      <4>1. PICK o \in BOOLEAN : merge' = [IdleMerge EXCEPT !.pc = "open", !.override = o]
        BY <3>2 DEF AskMerge
      <4>2. merge'.pc = "open" BY <3>1, <4>1
      <4> QED BY <4>2 DEF NoneMissed
    <3>3. CASE MergeEnds BY <3>1, <3>3 DEF MergeEnds, NoneMissed
    <3> QED BY <2>1, <3>2, <3>3
  <2>2. CASE GateListsOpen
    <3>1. merge'.pc = "satisfied" /\ merge'.found = With("open") BY <1>3, <2>2 DEF GateListsOpen
    <3>2. ASSUME NEW r \in Reqs PROVE r \in spared' \/ r \in merge'.found \/ OnTheWay(r)'
      <4>1. r \in spared' \/ Blocks(r)' BY <1>5, <3>1
      <4>2. CASE Blocks(r)' BY <1>1, <3>1, <4>2 DEF Blocks, OnTheWay, With
      <4> QED BY <4>1, <4>2
    <3> QED BY <3>1, <3>2 DEF NoneMissed
  <2>3. CASE GateListsSatisfied
    <3>1. /\ merge.pc = "satisfied" /\ merge'.pc = "verify" /\ merge'.found = merge.found
          /\ merge'.todo = With("satisfied")
      BY <1>3, <2>3 DEF GateListsSatisfied
    <3> QED BY <1>1, <1>5, <3>1 DEF IInv, NoneMissed, OnTheWay, With
  <2>4. ASSUME NEW r \in Reqs, GateVerifies(r) PROVE NoneMissed'
    <3>1. /\ merge.pc = "verify" /\ merge'.pc = "verify" /\ merge'.todo = merge.todo \ {r}
          /\ merge'.found = IF Tampered(r) THEN merge.found \cup {r} ELSE merge.found
      BY <1>3, <2>4 DEF GateVerifies
    <3>2. ASSUME NEW s \in Reqs PROVE s \in spared' \/ s \in merge'.found \/ OnTheWay(s)'
      <4>1. s \in spared \/ s \in merge.found \/ (s \in merge.todo /\ req[s].status = "satisfied")
        BY <3>1 DEF IInv, NoneMissed, OnTheWay
      <4>2. CASE s # r BY <1>1, <1>5, <3>1, <4>1, <4>2 DEF OnTheWay
      <4>3. CASE s = r /\ ~Tampered(r)
        BY <1>1, <1>5, <3>1, <4>1, <4>3 DEF Blocks, Tampered
      <4>4. CASE s = r /\ Tampered(r) BY <3>1, <4>4
      <4> QED BY <4>2, <4>3, <4>4
    <3> QED BY <3>1, <3>2 DEF NoneMissed
  <2>5. CASE GateAnswers
    <3>1. CASE merge.found = {} \/ merge.override
      <4>1. /\ merge.pc = "verify" /\ merge.todo = {} /\ merge'.pc = "allowed"
            /\ merge'.found = merge.found /\ merge'.override = merge.override
        BY <1>3, <2>5, <3>1 DEF GateAnswers
      <4>2. \A r \in Reqs : r \in spared' \/ r \in merge'.found
        BY <1>5, <4>1 DEF IInv, NoneMissed, OnTheWay
      <4> QED BY <3>1, <4>1, <4>2 DEF NoneMissed
    <3>2. CASE ~(merge.found = {} \/ merge.override)
      BY <2>5, <3>2 DEF GateAnswers, IdleMerge, NoneMissed
    <3> QED BY <3>1, <3>2
  <2> QED BY <2>1, <2>2, <2>3, <2>4, <2>5 DEF Merging
<1>7. TypeOK' BY <1>1, <1>2, <1>4 DEF IInv, TypeOK
<1> QED BY <1>1, <1>6, <1>7
     DEF IInv, Captured, SatisfiedIsProven, CopiesUnwaived, Listed, PassesRecorded

-----------------------------------------------------------------------------
LEMMA InitInv == Init => IInv
<1> SUFFICES ASSUME Init PROVE IInv
  OBVIOUS
<1>1. \A p \in Runs : run[p] = IdleRun BY DEF Init
<1>2. \A r \in Reqs : req[r] = NoRow BY DEF Init
<1>3. TypeOK
  <2>1. req \in [Reqs -> Rows] /\ run \in [Runs -> Frames] BY Idle DEF Init
  <2>2. 1 \in Reqs BY DEF Reqs
  <2> QED BY <2>1, <2>2 DEF Init, TypeOK, Frames, IdleMerge
<1>4. Captured /\ SatisfiedIsProven BY <1>2 DEF Captured, SatisfiedIsProven, NoRow
<1>5. CopiesUnwaived /\ PassesRecorded
  BY <1>1, Idle DEF CopiesUnwaived, PassesRecorded, NoRow
<1>6. NoneMissed BY DEF Init, NoneMissed, IdleMerge
<1> QED BY <1>3, <1>4, <1>5, <1>6 DEF IInv

LEMMA StepInv == IInv /\ [Next]_vars => IInv'
<1> SUFFICES ASSUME IInv, [Next]_vars PROVE IInv'
  OBVIOUS
<1>1. ASSUME UNCHANGED vars PROVE IInv'
  BY <1>1 DEF vars, IInv, TypeOK, Captured, SatisfiedIsProven, CopiesUnwaived, Listed,
              PassesRecorded, NoneMissed, OnTheWay
<1>2. ASSUME Next PROVE IInv'
  <2>1. SpareDuringCheck BY <1>2 DEF Next
  <2>2. ASSUME NEW p \in Runs, Prove(p) PROVE IInv'
    BY <2>1, <2>2, ListingsKeep, ReopenLapsedKeeps, RunGateKeeps, SettlingKeeps DEF Prove
  <2> QED BY <1>2, <2>1, <2>2, CaptureKeeps, WaiverKeeps, LossKeeps, MergingKeeps DEF Next
<1> QED BY <1>1, <1>2

LEMMA Invariant == Spec => []IInv
BY InitInv, StepInv, PTL DEF Spec

\* Ledger, evidence, runs and checks are of their types, for any sizes.
THEOREM TypeCorrect == Spec => []TypeOK
BY Invariant, PTL DEF IInv

\* No number of runs that write stale rows over each other, of filters, captures
\* or waivers makes a requirement SATISFIED without a pass of each of its gates.
THEOREM SatisfiedIsProvenAlways == Spec => []SatisfiedIsProven
BY Invariant, PTL DEF IInv

\* A merge that nobody forced has looked at every requirement that was in its way
\* all along, unless a run reopened it during the check.
THEOREM GateSeesBlockersAlways == Spec => []GateSeesBlockers
<1>1. IInv => GateSeesBlockers
  <2> SUFFICES ASSUME IInv, merge.pc = "allowed", ~merge.override PROVE spared = Reqs
    BY DEF GateSeesBlockers
  <2>1. merge.found = {} /\ \A r \in Reqs : r \in spared BY DEF IInv, NoneMissed, OnTheWay
  <2> QED BY <2>1 DEF IInv, TypeOK
<1> QED BY <1>1, Invariant, PTL

\* A waiver is ended only by somebody who had looked before it was recorded.
THEOREM SeenWaiverStandsAlways == Spec => SeenWaiverStands
<1> DEFINE Ended(r) == req[r].status = "waived" /\ req'[r].status # "waived"
           Excused(r) == \/ \E p \in Runs : LookedBefore(p, r)
                         \/ \E g \in Glitches : capture[g].pc = "stubs" /\ capture[g].id = r
<1>1. IInv /\ [Next]_vars => [\A r \in Reqs : Ended(r) => Excused(r)]_vars
  <2> SUFFICES ASSUME IInv, Next, NEW r \in Reqs, Ended(r) PROVE Excused(r)
    OBVIOUS
  <2>1. req \in [Reqs -> Rows] /\ req' # req BY DEF IInv, TypeOK
  <2>2. ASSUME NEW g \in Glitches, AllocateId(g) \/ CaptureFails(g) \/ SaveCapture(g) PROVE Excused(r)
    BY <2>1, <2>2 DEF AllocateId, CaptureFails, SaveCapture
  <2>3. ASSUME NEW s \in Reqs, \/ WaiveRequirement(s) \/ WaiverLapses(s)
                              \/ \E g \in Gates : LoseArtifact(s, g)
        PROVE  FALSE
    BY <2>1, <2>3 DEF WaiveRequirement, WaiverLapses, LoseArtifact, Rows
  <2>4. ASSUME NEW p \in Runs, Prove(p) PROVE Excused(r)
    <3>1. CASE ReopenLapsed(p) BY <2>1, <3>1 DEF ReopenLapsed, LookedBefore
    <3>2. CASE MarkSatisfied(p) \/ ReopenRequirement(p) \/ SaveUnproven(p)
      <4>1. r = run[p].id BY <2>1, <3>2 DEF MarkSatisfied, ReopenRequirement, SaveUnproven
      <4>2. run[p].row.status # "waived" BY DEF IInv, CopiesUnwaived
      <4> QED BY <4>1, <4>2 DEF LookedBefore
    <3>3. CASE \/ StartProof(p) \/ FindLapsed(p) \/ ListOpen(p) \/ ListSatisfied(p)
               \/ TakeRequirement(p) \/ SkipOutOfScope(p) \/ EndProof(p) \/ ProofDies(p)
      BY <2>1, <3>3 DEF StartProof, FindLapsed, ListOpen, ListSatisfied, TakeRequirement,
                        SkipOutOfScope, EndProof, ProofDies
    <3>4. CASE NothingRan(p) \/ FindRegressed(p) \/ \E g \in Gates : RunGate(p, g)
      BY <2>1, <3>4 DEF NothingRan, FindRegressed, RunGate
    <3> QED BY <2>4, <3>1, <3>2, <3>3, <3>4 DEF Prove
  <2>5. Merging => UNCHANGED req
    BY DEF Merging, AskMerge, GateListsOpen, GateListsSatisfied, GateVerifies, GateAnswers, MergeEnds
  <2> QED BY <2>1, <2>2, <2>3, <2>4, <2>5 DEF Next
<1> QED BY <1>1, Invariant, PTL DEF Spec, SeenWaiverStands

-----------------------------------------------------------------------------
(* One run at a time: what SATISFIED says of the outcomes, not of the          *)
(* artifacts.                                                                  *)

\* What the runner assumes of its callers: a run starts when no other is alive.
AtWork(p) == run[p].pc \notin {"idle", "dead"}
OneAtATime == \A p, q \in Runs : AtWork(p) /\ AtWork(q) => p = q

\* A run died on r.
DiedOn(r) == \E q \in Runs : run[q].pc = "dead" /\ run[q].id = r

\* At the gates, the results so far are the newest evidence; what they have not
\* overwritten yet was a pass, if the requirement is still SATISFIED.
CountedAt(p) ==
  /\ run[p].pc \notin {"gates", "reopen", "dead"} => run[p].id = 0
  /\ run[p].pc \notin {"gates", "reopen"} => \A g \in Gates : run[p].results[g] = "none"
  /\ run[p].pc = "gates" =>
       /\ \A g \in Gates : run[p].results[g] # "none" =>
            g \in Due(p) /\ evidence[run[p].id][g].last = run[p].results[g]
       /\ req[run[p].id].status = "satisfied" =>
            \/ DiedOn(run[p].id)
            \/ \A g \in Obligations[req[run[p].id].glitch] :
                 evidence[run[p].id][g].last = "passed" \/ run[p].results[g] # "none"
Counted == \A p \in Runs : CountedAt(p)

\* The invariant that SatisfiedHoldsUp needs.
HeldInv == IInv /\ Counted /\ SatisfiedHoldsUp

\* A step that makes nothing SATISFIED and leaves every newest outcome alone.
Undisturbed ==
  /\ \A r \in Reqs : req'[r].status = "satisfied" => req'[r] = req[r]
  /\ \A r \in Reqs, g \in Gates : evidence'[r][g].last = evidence[r][g].last

\* The gates that a captured requirement asks for are gates.
LEMMA ObligedGates ==
  ASSUME IInv, NEW r \in Reqs, Exists(r)
  PROVE  Obligations[req[r].glitch] \subseteq Gates
BY DEF IInv, Captured, Exists

\* Such a step leaves what is known of a run whose frame it leaves alone.
LEMMA CountedStays ==
  ASSUME IInv, Undisturbed, NEW p \in Runs, CountedAt(p), run'[p] = run[p],
         \A r \in Reqs : DiedOn(r) => DiedOn(r)'
  PROVE  CountedAt(p)'
<1> SUFFICES ASSUME run[p].pc = "gates"
             PROVE  /\ \A g \in Gates : run[p].results[g] # "none" =>
                         g \in Due(p) /\ evidence'[run[p].id][g].last = run[p].results[g]
                    /\ req'[run[p].id].status = "satisfied" =>
                         \/ DiedOn(run[p].id)'
                         \/ \A g \in Obligations[req'[run[p].id].glitch] :
                              evidence'[run[p].id][g].last = "passed" \/ run[p].results[g] # "none"
  BY DEF CountedAt, Due, Obliged, DiedOn
<1>1. run[p].id \in Reqs BY AtGates
<1>2. \A g \in Gates : run[p].results[g] # "none" =>
        g \in Due(p) /\ evidence'[run[p].id][g].last = run[p].results[g]
  BY <1>1 DEF CountedAt, Undisturbed
<1>3. ASSUME req'[run[p].id].status = "satisfied", ~DiedOn(run[p].id)',
             NEW g \in Obligations[req'[run[p].id].glitch]
      PROVE  evidence'[run[p].id][g].last = "passed" \/ run[p].results[g] # "none"
  <2>1. req'[run[p].id] = req[run[p].id] BY <1>1, <1>3 DEF Undisturbed
  <2>2. g \in Gates BY <1>1, <1>3, <2>1, ObligedGates DEF Exists
  <2>3. ~DiedOn(run[p].id) BY <1>1, <1>3
  <2>4. evidence[run[p].id][g].last = "passed" \/ run[p].results[g] # "none"
    BY <1>3, <2>1, <2>3 DEF CountedAt
  <2> QED BY <1>1, <2>2, <2>4 DEF Undisturbed
<1> QED BY <1>2, <1>3

\* ... and what the requirements that nobody lets go of say.
LEMMA HeldStays ==
  ASSUME IInv, SatisfiedHoldsUp, Undisturbed, NEW r \in Reqs, req'[r].status = "satisfied"
  PROVE  \/ \A g \in Obligations[req'[r].glitch] : evidence'[r][g].last = "passed"
         \/ \E p \in Runs : run[p].id = r
<1>1. req'[r] = req[r] BY DEF Undisturbed
<1>2. Obligations[req[r].glitch] \subseteq Gates BY <1>1, ObligedGates DEF Exists
<1> QED BY <1>1, <1>2 DEF SatisfiedHoldsUp, Undisturbed

\* A step of somebody who is not a run.
LEMMA OutsideHeld ==
  ASSUME HeldInv, UNCHANGED run, Undisturbed
  PROVE  Counted' /\ SatisfiedHoldsUp'
<1>1. Counted'
  <2> SUFFICES ASSUME NEW p \in Runs PROVE CountedAt(p)' BY DEF Counted
  <2>1. \A r \in Reqs : DiedOn(r) => DiedOn(r)' BY DEF DiedOn
  <2>2. CountedAt(p) /\ run'[p] = run[p] BY DEF HeldInv, Counted
  <2> QED BY <2>1, <2>2, CountedStays DEF HeldInv
<1>2. SatisfiedHoldsUp' BY HeldStays DEF HeldInv, SatisfiedHoldsUp
<1> QED BY <1>1, <1>2

LEMMA OthersHeld ==
  ASSUME HeldInv,
         \/ \E g \in Glitches : AllocateId(g) \/ CaptureFails(g) \/ SaveCapture(g)
         \/ \E r \in Reqs : WaiveRequirement(r) \/ WaiverLapses(r) \/ \E g \in Gates : LoseArtifact(r, g)
         \/ Merging
  PROVE  Counted' /\ SatisfiedHoldsUp'
<1>1. UNCHANGED run
  BY DEF AllocateId, CaptureFails, SaveCapture, WaiveRequirement, WaiverLapses, LoseArtifact,
         Merging, AskMerge, GateListsOpen, GateListsSatisfied, GateVerifies, GateAnswers, MergeEnds
<1>2. req \in [Reqs -> Rows] /\ evidence \in [Reqs -> [Gates -> Proofs]]
  BY DEF HeldInv, IInv, TypeOK, Proofs
<1>3. Undisturbed
  <2>1. ASSUME NEW g \in Glitches, AllocateId(g) \/ CaptureFails(g) \/ SaveCapture(g)
        PROVE  Undisturbed
    BY <1>2, <2>1 DEF AllocateId, CaptureFails, SaveCapture, NewRow, Undisturbed
  <2>2. ASSUME NEW r \in Reqs, WaiveRequirement(r) \/ WaiverLapses(r) PROVE Undisturbed
    BY <1>2, <2>2 DEF WaiveRequirement, WaiverLapses, Undisturbed, Rows
  <2>3. ASSUME NEW r \in Reqs, NEW g \in Gates, LoseArtifact(r, g) PROVE Undisturbed
    BY <1>2, <2>3, SMTT(30) DEF LoseArtifact, Undisturbed, Proofs
  <2>4. CASE Merging
    BY <2>4 DEF Undisturbed, Merging, AskMerge, GateListsOpen, GateListsSatisfied, GateVerifies,
                GateAnswers, MergeEnds
  <2> QED BY <2>1, <2>2, <2>3, <2>4
<1> QED BY <1>1, <1>3, OutsideHeld

\* A step of a run that is at no requirement before or after.
LEMMA AwayHeld ==
  ASSUME HeldInv, Undisturbed, NEW p \in Runs, NEW f, run' = [run EXCEPT ![p] = f],
         run[p].pc \notin {"gates", "reopen", "dead"}, f.pc \notin {"gates", "reopen", "dead"},
         f.id = 0, \A g \in Gates : f.results[g] = "none"
  PROVE  Counted' /\ SatisfiedHoldsUp'
<1>1. run'[p] = f /\ \A q \in Runs : q # p => run'[q] = run[q] BY RunsTyped DEF HeldInv
<1>2. \A r \in Reqs : DiedOn(r) => DiedOn(r)' BY <1>1 DEF DiedOn
<1>3. Counted'
  <2> SUFFICES ASSUME NEW q \in Runs PROVE CountedAt(q)' BY DEF Counted
  <2>1. CASE q = p BY <1>1, <2>1 DEF CountedAt
  <2>2. CASE q # p BY <1>1, <1>2, <2>2, CountedStays DEF HeldInv, Counted
  <2> QED BY <2>1, <2>2
<1>4. run[p].id = 0 BY DEF HeldInv, Counted, CountedAt
<1>5. \A r \in Reqs : (\E q \in Runs : run[q].id = r) => \E q \in Runs : run'[q].id = r
  BY <1>1, <1>4 DEF Reqs
<1>6. SatisfiedHoldsUp' BY <1>5, HeldStays DEF HeldInv, SatisfiedHoldsUp
<1> QED BY <1>3, <1>6

LEMMA StepsAway ==
  ASSUME HeldInv, NEW p \in Runs,
         \/ StartProof(p) \/ FindLapsed(p) \/ ReopenLapsed(p) \/ ListOpen(p) \/ ListSatisfied(p)
         \/ SkipOutOfScope(p) \/ EndProof(p)
  PROVE  Counted' /\ SatisfiedHoldsUp'
<1>1. run[p].pc \notin {"gates", "reopen", "dead"}
  BY DEF StartProof, FindLapsed, ReopenLapsed, ListOpen, ListSatisfied, SkipOutOfScope, EndProof, At
<1>2. run[p] \in Frames /\ run[p].id = 0 /\ \A g \in Gates : run[p].results[g] = "none"
  BY <1>1, RunsTyped DEF HeldInv, Counted, CountedAt
<1>3. UNCHANGED evidence
  BY DEF StartProof, FindLapsed, ReopenLapsed, ListOpen, ListSatisfied, SkipOutOfScope, EndProof
<1>4. Undisturbed
  <2>1. CASE ReopenLapsed(p)
    <3> SUFFICES ASSUME NEW r \in Reqs, req'[r].status = "satisfied" PROVE req'[r] = req[r]
      BY <1>3 DEF Undisturbed
    <3>1. req[r] \in Rows BY DEF HeldInv, IInv, TypeOK
    <3> QED BY <2>1, <3>1 DEF ReopenLapsed, Rows
  <2>2. CASE UNCHANGED req BY <1>3, <2>2 DEF Undisturbed
  <2> QED BY <2>1, <2>2
       DEF StartProof, FindLapsed, ListOpen, ListSatisfied, SkipOutOfScope, EndProof
<1>5. \E f : /\ run' = [run EXCEPT ![p] = f] /\ f.pc \notin {"gates", "reopen", "dead"}
             /\ f.id = 0 /\ \A g \in Gates : f.results[g] = "none"
  <2>1. CASE StartProof(p) \/ EndProof(p)
    <3>1. IdleRun \in Frames /\ IdleRun.pc = "idle" /\ IdleRun.id = 0
          /\ IdleRun.results = [g \in Gates |-> "none"]
      BY Idle
    <3>2. CASE StartProof(p)
      <4>1. PICK full \in BOOLEAN, may \in SUBSET Gates :
              run' = [run EXCEPT ![p] = [IdleRun EXCEPT !.pc = "waivers", !.full = full, !.may = may]]
        BY <3>2 DEF StartProof
      <4> DEFINE f == [IdleRun EXCEPT !.pc = "waivers", !.full = full, !.may = may]
      <4>2. f.pc = "waivers" /\ f.id = 0 /\ f.results = [g \in Gates |-> "none"]
        BY <3>1 DEF Frames
      <4> QED BY <4>1, <4>2
    <3>3. CASE EndProof(p) BY <3>1, <3>3 DEF EndProof
    <3> QED BY <2>1, <3>2, <3>3
  <2>2. CASE FindLapsed(p)
    <3> DEFINE f == [run[p] EXCEPT !.pc = "expire",
                                   !.lapsed = {r \in With("waived") : req[r].waiver = "lapsed"}]
    <3>1. run' = [run EXCEPT ![p] = f] BY <2>2, RunsTyped DEF FindLapsed, HeldInv, Frames
    <3>2. f.pc \notin {"gates", "reopen", "dead"} /\ f.id = 0 /\ f.results = run[p].results
      BY <1>2 DEF Frames
    <3> QED BY <1>2, <3>1, <3>2
  <2>3. CASE ReopenLapsed(p)
    <3> DEFINE f == [run[p] EXCEPT !.pc = "open", !.lapsed = {}]
    <3>1. run' = [run EXCEPT ![p] = f] BY <2>3, RunsTyped DEF ReopenLapsed, HeldInv, Frames
    <3>2. f.pc \notin {"gates", "reopen", "dead"} /\ f.id = 0 /\ f.results = run[p].results
      BY <1>2 DEF Frames
    <3> QED BY <1>2, <3>1, <3>2
  <2>4. CASE ListOpen(p)
    <3> DEFINE f == [run[p] EXCEPT !.pc = IF run[p].full THEN "satisfied" ELSE "next",
                                   !.todo = {<<r, req[r]>> : r \in With("open")}]
    <3>1. run' = [run EXCEPT ![p] = f] BY <2>4 DEF ListOpen
    <3>2. f.pc \notin {"gates", "reopen", "dead"} /\ f.id = 0 /\ f.results = run[p].results
      BY <1>2 DEF Frames
    <3> HIDE DEF f
    <3> QED BY <1>2, <3>1, <3>2
  <2>5. CASE ListSatisfied(p)
    <3> DEFINE f == [run[p] EXCEPT !.pc = "next",
                                   !.todo = @ \cup {<<r, req[r]>> : r \in With("satisfied")}]
    <3>1. run' = [run EXCEPT ![p] = f] BY <2>5, RunsTyped DEF ListSatisfied, HeldInv, Frames
    <3>2. f.pc \notin {"gates", "reopen", "dead"} /\ f.id = 0 /\ f.results = run[p].results
      BY <1>2 DEF Frames
    <3> QED BY <1>2, <3>1, <3>2
  <2>6. CASE SkipOutOfScope(p)
    <3>1. PICK copy \in run[p].todo : run' = [run EXCEPT ![p] = [run[p] EXCEPT !.todo = @ \ {copy}]]
      BY <2>6 DEF SkipOutOfScope
    <3> DEFINE f == [run[p] EXCEPT !.todo = @ \ {copy}]
    <3>2. f.pc = run[p].pc /\ f.id = 0 /\ f.results = run[p].results BY <1>2 DEF Frames
    <3> QED BY <1>1, <1>2, <3>1, <3>2
  <2> QED BY <2>1, <2>2, <2>3, <2>4, <2>5, <2>6
<1> QED BY <1>1, <1>4, <1>5, AwayHeld

\* What else a step of p leaves alone when p is at work and nobody else is.
LEMMA OthersRest ==
  ASSUME HeldInv, OneAtATime, NEW p \in Runs, AtWork(p), NEW f, run' = [run EXCEPT ![p] = f]
  PROVE  /\ run'[p] = f
         /\ \A q \in Runs : q # p => run'[q] = run[q] /\ CountedAt(q)'
         /\ \A r \in Reqs : DiedOn(r) => DiedOn(r)'
         /\ \A r \in Reqs : (\E q \in Runs : run[q].id = r) =>
                              run[p].id = r \/ (DiedOn(r) /\ \E q \in Runs : run'[q].id = r)
<1>1. run'[p] = f /\ \A q \in Runs : q # p => run'[q] = run[q] BY RunsTyped DEF HeldInv
<1>2. \A q \in Runs : q # p => run[q].pc \in {"idle", "dead"} BY DEF OneAtATime, AtWork
<1>3. \A q \in Runs : q # p => CountedAt(q)' BY <1>1, <1>2 DEF HeldInv, Counted, CountedAt
<1>4. \A r \in Reqs : DiedOn(r) => DiedOn(r)' BY <1>1 DEF DiedOn, AtWork
<1>5. ASSUME NEW r \in Reqs, NEW q \in Runs, run[q].id = r, run[p].id # r
      PROVE  DiedOn(r) /\ run'[q].id = r
  <2>1. q # p /\ run[q].id # 0 BY <1>5 DEF Reqs
  <2>2. run[q].pc = "dead" BY <1>2, <2>1 DEF HeldInv, Counted, CountedAt
  <2> QED BY <1>1, <1>5, <2>1, <2>2 DEF DiedOn
<1> QED BY <1>1, <1>3, <1>4, <1>5

LEMMA TakeHeld ==
  ASSUME HeldInv, OneAtATime, NEW p \in Runs, TakeRequirement(p)
  PROVE  Counted' /\ SatisfiedHoldsUp'
<1>1. run[p] \in Frames /\ run[p].pc = "next" /\ UNCHANGED <<req, evidence>>
  BY RunsTyped DEF HeldInv, TakeRequirement, At
<1>2. PICK copy \in run[p].todo :
        run' = [run EXCEPT ![p] = [run[p] EXCEPT !.pc = "gates", !.todo = @ \ {copy},
                                                 !.id = copy[1], !.row = copy[2]]]
  BY <1>1, RunsTyped, ZenonT(60) DEF TakeRequirement, HeldInv, Frames
<1> DEFINE f == [run[p] EXCEPT !.pc = "gates", !.todo = @ \ {copy}, !.id = copy[1], !.row = copy[2]]
<1>3. f.pc = "gates" /\ f.id = copy[1] /\ f.results = run[p].results BY <1>1 DEF Frames
<1>4. copy[1] \in Reqs BY <1>1 DEF Frames
<1>5. run[p].id = 0 /\ \A g \in Gates : f.results[g] = "none"
  BY <1>1, <1>3 DEF HeldInv, Counted, CountedAt
<1> HIDE DEF f
<1>6. AtWork(p) /\ run' = [run EXCEPT ![p] = f] BY <1>1, <1>2 DEF AtWork, f
<1>7. /\ run'[p] = f
      /\ \A q \in Runs : q # p => run'[q] = run[q] /\ CountedAt(q)'
      /\ \A r \in Reqs : DiedOn(r) => DiedOn(r)'
      /\ \A r \in Reqs : (\E q \in Runs : run[q].id = r) =>
                           run[p].id = r \/ (DiedOn(r) /\ \E q \in Runs : run'[q].id = r)
  BY <1>6, OthersRest
<1>8. \A r \in Reqs : run[p].id # r BY <1>5 DEF Reqs
<1>9. CountedAt(p)'
  <2>1. ASSUME req[copy[1]].status = "satisfied", ~DiedOn(copy[1])'
        PROVE  \A g \in Obligations[req[copy[1]].glitch] : evidence[copy[1]][g].last = "passed"
    BY <1>4, <1>7, <1>8, <2>1 DEF HeldInv, SatisfiedHoldsUp
  <2> QED BY <1>1, <1>3, <1>5, <1>7, <2>1 DEF CountedAt
<1>10. Counted' BY <1>7, <1>9 DEF Counted
<1>11. SatisfiedHoldsUp' BY <1>1, <1>7, <1>8 DEF HeldInv, SatisfiedHoldsUp
<1> QED BY <1>10, <1>11

LEMMA RunGateHeld ==
  ASSUME HeldInv, OneAtATime, NEW p \in Runs, NEW g \in Gates, RunGate(p, g)
  PROVE  Counted' /\ SatisfiedHoldsUp'
<1> DEFINE id == run[p].id
<1>1. /\ run[p].pc = "gates" /\ g \in Due(p) /\ UNCHANGED req
      /\ id \in Reqs /\ run[p] \in Frames /\ evidence \in [Reqs -> [Gates -> Proofs]]
  <2>1. run[p].pc = "gates" /\ g \in Due(p) /\ UNCHANGED req BY DEF RunGate, At
  <2> QED BY <2>1, AtGates DEF HeldInv, IInv, TypeOK, Proofs
<1>2. PICK outcome \in Outcomes :
        /\ run' = [run EXCEPT ![p] = [run[p] EXCEPT !.results[g] = outcome]]
        /\ evidence' = [evidence EXCEPT ![id] = [evidence[id] EXCEPT ![g] =
             [last |-> outcome,
              artifact |-> IF outcome = "passed" THEN "intact" ELSE evidence[id][g].artifact]]]
  BY DEF RunGate
<1>3. /\ evidence'[id][g].last = outcome
      /\ \A r \in Reqs, h \in Gates : (r = id /\ h = g) \/ evidence'[r][h] = evidence[r][h]
  BY <1>1, <1>2
<1> DEFINE f == [run[p] EXCEPT !.results[g] = outcome]
<1>4. /\ f.pc = "gates" /\ f.id = id /\ f.row = run[p].row /\ f.may = run[p].may
      /\ \A h \in Gates : f.results[h] = IF h = g THEN outcome ELSE run[p].results[h]
  BY <1>1 DEF Frames
<1> HIDE DEF f
<1>5. AtWork(p) /\ run' = [run EXCEPT ![p] = f] BY <1>1, <1>2 DEF AtWork, f
<1>6. /\ run'[p] = f
      /\ \A q \in Runs : q # p => run'[q] = run[q] /\ CountedAt(q)'
      /\ \A r \in Reqs : DiedOn(r) => DiedOn(r)'
      /\ \A r \in Reqs : (\E q \in Runs : run[q].id = r) =>
                           run[p].id = r \/ (DiedOn(r) /\ \E q \in Runs : run'[q].id = r)
  BY <1>5, OthersRest
<1>7. Due(p)' = Due(p) BY <1>4, <1>6 DEF Due, Obliged
<1>8. ASSUME NEW h \in Gates, f.results[h] # "none"
      PROVE  h \in Due(p) /\ evidence'[id][h].last = f.results[h]
  <2>1. CASE h = g BY <1>1, <1>3, <1>4, <2>1
  <2>2. CASE h # g
    <3>1. run[p].results[h] # "none" BY <1>4, <1>8, <2>2
    <3>2. h \in Due(p) /\ evidence[id][h].last = run[p].results[h]
      BY <1>1, <3>1 DEF HeldInv, Counted, CountedAt
    <3> QED BY <1>1, <1>3, <1>4, <2>2, <3>2
  <2> QED BY <2>1, <2>2
<1>9. ASSUME req[id].status = "satisfied", ~DiedOn(id), NEW h \in Obligations[req[id].glitch]
      PROVE  evidence'[id][h].last = "passed" \/ f.results[h] # "none"
  <2>1. h \in Gates BY <1>1, <1>9, ObligedGates DEF HeldInv, Exists
  <2>2. evidence[id][h].last = "passed" \/ run[p].results[h] # "none"
    BY <1>1, <1>9 DEF HeldInv, Counted, CountedAt
  <2>3. CASE h = g BY <1>1, <1>2, <1>4, <2>3 DEF Outcomes
  <2>4. CASE h # g
    <3>1. evidence'[id][h] = evidence[id][h] BY <1>1, <1>3, <2>1, <2>4
    <3> QED BY <1>4, <2>1, <2>2, <2>4, <3>1
  <2> QED BY <2>3, <2>4
<1>10. CountedAt(p)'
  <2>1. DiedOn(id) => DiedOn(run[p].id)' BY <1>1, <1>4, <1>6 DEF DiedOn
  <2> QED BY <1>1, <1>4, <1>6, <1>7, <1>8, <1>9, <2>1 DEF CountedAt
<1>11. Counted' BY <1>6, <1>10 DEF Counted
<1>12. SatisfiedHoldsUp'
  <2> SUFFICES ASSUME NEW r \in Reqs, req[r].status = "satisfied"
               PROVE  \/ \A h \in Obligations[req[r].glitch] : evidence'[r][h].last = "passed"
                      \/ \E q \in Runs : run'[q].id = r
    BY <1>1 DEF SatisfiedHoldsUp
  <2>1. CASE r = id BY <1>4, <1>6, <2>1
  <2>2. CASE r # id
    <3>1. Obligations[req[r].glitch] \subseteq Gates BY ObligedGates DEF HeldInv, Exists
    <3> QED BY <1>3, <1>6, <2>2, <3>1 DEF HeldInv, SatisfiedHoldsUp
  <2> QED BY <2>1, <2>2
<1> QED BY <1>11, <1>12

\* A run that lets go of its requirement, if what it leaves there holds up.
LEMMA LetGoHeld ==
  ASSUME HeldInv, OneAtATime, NEW p \in Runs, AtWork(p), LetGo(p), UNCHANGED evidence,
         \A r \in Reqs : r # run[p].id => req'[r] = req[r],
         run[p].id \in Reqs /\ req'[run[p].id].status = "satisfied" =>
           \/ DiedOn(run[p].id)
           \/ \A g \in Obligations[req'[run[p].id].glitch] : evidence[run[p].id][g].last = "passed"
  PROVE  Counted' /\ SatisfiedHoldsUp'
<1> DEFINE f == [run[p] EXCEPT !.pc = "next", !.id = 0, !.row = NoRow, !.results = IdleRun.results]
<1>1. run[p] \in Frames BY RunsTyped DEF HeldInv
<1>2. f.pc = "next" /\ f.id = 0 /\ \A g \in Gates : f.results[g] = "none"
  BY <1>1, Idle DEF Frames
<1> HIDE DEF f
<1>3. run' = [run EXCEPT ![p] = f] BY DEF LetGo, f
<1>4. /\ run'[p] = f
      /\ \A q \in Runs : q # p => run'[q] = run[q] /\ CountedAt(q)'
      /\ \A r \in Reqs : DiedOn(r) => DiedOn(r)'
      /\ \A r \in Reqs : (\E q \in Runs : run[q].id = r) =>
                           run[p].id = r \/ (DiedOn(r) /\ \E q \in Runs : run'[q].id = r)
  BY <1>3, OthersRest
<1>5. Counted' BY <1>2, <1>4 DEF Counted, CountedAt
<1>6. SatisfiedHoldsUp'
  <2> SUFFICES ASSUME NEW r \in Reqs, req'[r].status = "satisfied"
               PROVE  \/ \A g \in Obligations[req'[r].glitch] : evidence[r][g].last = "passed"
                      \/ \E q \in Runs : run'[q].id = r
    BY DEF SatisfiedHoldsUp
  <2>1. CASE r = run[p].id BY <1>4, <2>1 DEF DiedOn
  <2>2. CASE r # run[p].id BY <1>4, <2>2 DEF HeldInv, SatisfiedHoldsUp
  <2> QED BY <2>1, <2>2
<1> QED BY <1>5, <1>6

LEMMA SettlingHeld ==
  ASSUME HeldInv, OneAtATime, NEW p \in Runs,
         \/ NothingRan(p) \/ MarkSatisfied(p) \/ FindRegressed(p)
         \/ ReopenRequirement(p) \/ SaveUnproven(p)
  PROVE  Counted' /\ SatisfiedHoldsUp'
<1> DEFINE id == run[p].id
<1>1. run[p].pc \in {"gates", "reopen"} /\ UNCHANGED evidence
  BY DEF NothingRan, MarkSatisfied, FindRegressed, ReopenRequirement, SaveUnproven, At, AllRan
<1>2. /\ id \in Reqs /\ run[p].row \in Rows /\ Listed(run[p].row)
      /\ run[p] \in Frames /\ req \in [Reqs -> Rows]
  BY <1>1, AtGates DEF HeldInv, IInv, TypeOK
<1>3. AtWork(p) BY <1>1 DEF AtWork
<1>4. CASE NothingRan(p)
  <2>1. run[p].pc = "gates" /\ Due(p) = {} /\ LetGo(p) /\ UNCHANGED req
    BY <1>4 DEF NothingRan, At
  <2>2. \A g \in Gates : run[p].results[g] = "none"
    BY <2>1 DEF HeldInv, Counted, CountedAt
  <2>3. ASSUME req[id].status = "satisfied", ~DiedOn(id), NEW g \in Obligations[req[id].glitch]
        PROVE  evidence[id][g].last = "passed"
    <3>1. g \in Gates BY <1>2, <2>3, ObligedGates DEF HeldInv, Exists
    <3> QED BY <2>1, <2>2, <2>3, <3>1 DEF HeldInv, Counted, CountedAt
  <2> QED BY <1>1, <1>3, <2>1, <2>3, LetGoHeld
<1>5. CASE MarkSatisfied(p)
  <2> DEFINE row == [run[p].row EXCEPT !.status = "satisfied"]
  <2>1. row.glitch = run[p].row.glitch /\ run[p].row.glitch \in Glitches BY <1>2 DEF Rows, Listed
  <2>2. req'[id] = row /\ \A r \in Reqs : r # id => req'[r] = req[r]
    BY <1>2, <1>5 DEF MarkSatisfied
  <2>3. run[p].pc = "gates" /\ LetGo(p) /\ Proved(p) BY <1>5 DEF MarkSatisfied, AllRan, At
  <2>4. ASSUME NEW g \in Obligations[row.glitch] PROVE evidence[id][g].last = "passed"
    <3>1. g \in Gates BY <2>1
    <3>2. run[p].results[g] = "passed" BY <2>1, <2>3 DEF Proved, Obliged
    <3> QED BY <2>3, <3>1, <3>2 DEF HeldInv, Counted, CountedAt
  <2> QED BY <1>1, <1>3, <2>2, <2>3, <2>4, LetGoHeld
<1>6. CASE ReopenRequirement(p) \/ SaveUnproven(p)
  <2>1. LetGo(p) /\ req'[id].status # "satisfied" /\ \A r \in Reqs : r # id => req'[r] = req[r]
    BY <1>2, <1>6 DEF ReopenRequirement, SaveUnproven, Rows
  <2> QED BY <1>1, <1>3, <2>1, LetGoHeld
<1>7. CASE FindRegressed(p) /\ req[id].status \in {"waived", "absent"}
  <2>1. LetGo(p) /\ UNCHANGED req BY <1>7 DEF FindRegressed
  <2> QED BY <1>1, <1>3, <1>7, <2>1, LetGoHeld
<1>8. CASE FindRegressed(p) /\ req[id].status \notin {"waived", "absent"}
  <2> DEFINE f == [run[p] EXCEPT !.pc = "reopen", !.row = req[id]]
  <2>1. f.pc = "reopen" /\ f.id = id BY <1>2 DEF Frames
  <2>2. run' = [run EXCEPT ![p] = f] /\ UNCHANGED req
    BY <1>2, <1>8, RunsTyped DEF HeldInv, FindRegressed, Frames
  <2> HIDE DEF f
  <2>3. /\ run'[p] = f
        /\ \A q \in Runs : q # p => run'[q] = run[q] /\ CountedAt(q)'
        /\ \A r \in Reqs : (\E q \in Runs : run[q].id = r) =>
                             run[p].id = r \/ (DiedOn(r) /\ \E q \in Runs : run'[q].id = r)
    BY <1>3, <2>2, OthersRest
  <2>4. Counted' BY <2>1, <2>3 DEF Counted, CountedAt
  <2>5. SatisfiedHoldsUp' BY <1>1, <2>1, <2>2, <2>3 DEF HeldInv, SatisfiedHoldsUp
  <2> QED BY <2>4, <2>5
<1> QED BY <1>4, <1>5, <1>6, <1>7, <1>8

LEMMA DeathHeld ==
  ASSUME HeldInv, OneAtATime, NEW p \in Runs, ProofDies(p)
  PROVE  Counted' /\ SatisfiedHoldsUp'
<1> DEFINE f == [IdleRun EXCEPT !.pc = "dead", !.id = run[p].id]
<1>1. IdleRun \in Frames BY Idle
<1>2. f.pc = "dead" /\ f.id = run[p].id /\ \A g \in Gates : f.results[g] = "none"
  BY <1>1, Idle DEF Frames
<1> HIDE DEF f
<1>3. AtWork(p) /\ run' = [run EXCEPT ![p] = f] /\ UNCHANGED <<req, evidence>>
  BY DEF ProofDies, AtWork, f
<1>4. /\ run'[p] = f
      /\ \A q \in Runs : q # p => run'[q] = run[q] /\ CountedAt(q)'
      /\ \A r \in Reqs : (\E q \in Runs : run[q].id = r) =>
                           run[p].id = r \/ (DiedOn(r) /\ \E q \in Runs : run'[q].id = r)
  BY <1>3, OthersRest
<1>5. Counted' BY <1>2, <1>4 DEF Counted, CountedAt
<1>6. SatisfiedHoldsUp' BY <1>2, <1>3, <1>4 DEF HeldInv, SatisfiedHoldsUp
<1> QED BY <1>5, <1>6

LEMMA InitHeld == Init => HeldInv
<1> SUFFICES ASSUME Init PROVE HeldInv
  OBVIOUS
<1>1. \A p \in Runs : run[p] = IdleRun BY DEF Init
<1>2. \A r \in Reqs : req[r].status = "absent" BY DEF Init, NoRow
<1> QED BY <1>1, <1>2, InitInv, Idle DEF HeldInv, Counted, CountedAt, SatisfiedHoldsUp

LEMMA StepHeld == HeldInv /\ OneAtATime /\ [Next]_vars => HeldInv'
<1> SUFFICES ASSUME HeldInv, OneAtATime, [Next]_vars PROVE HeldInv'
  OBVIOUS
<1>1. IInv' BY StepInv DEF HeldInv
<1>2. CASE UNCHANGED vars
  <2>1. Undisturbed /\ UNCHANGED run BY <1>2 DEF vars, Undisturbed
  <2> QED BY <1>1, <2>1, OutsideHeld DEF HeldInv
<1>3. ASSUME NEW p \in Runs, Prove(p) PROVE Counted' /\ SatisfiedHoldsUp'
  BY <1>3, StepsAway, TakeHeld, RunGateHeld, SettlingHeld, DeathHeld DEF Prove
<1>4. CASE Next BY <1>1, <1>3, <1>4, OthersHeld DEF Next, HeldInv
<1> QED BY <1>2, <1>4

\* While proof runs come one after another, a requirement that is SATISFIED last
\* passed each of its gates, is being looked at, or was left by a run that died
\* on it: whatever was waived, captured over it or filtered out in between.
THEOREM SatisfiedHoldsUpAlways == Spec /\ []OneAtATime => []SatisfiedHoldsUp
<1>1. HeldInv => SatisfiedHoldsUp BY DEF HeldInv
<1> QED BY <1>1, InitHeld, StepHeld, PTL DEF Spec
=============================================================================
