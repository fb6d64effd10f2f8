---------------------------- MODULE ProofLedger ----------------------------
(* PROOF9 (core/proof/) and the merge gate that reads it: requirements are     *)
(* captured from glitches, proved by runs of their gates, waived by humans for *)
(* a while, and whatever is neither proved nor waived stops a merge.           *)
(*                                                                             *)
(* Every ledger function opens its own connection, so each action is one       *)
(* database statement. A run keeps whole rows from its two listings and writes *)
(* them back whole when their gates have run, minutes later.                   *)
EXTENDS Integers

CONSTANTS Glitches,     \* what there is to capture, each once
          Gates,
          Obligations,  \* the gates the classification of a glitch asks for
          Runs,         \* processes that run the proof
          MaxReq        \* bound: requirement ids

ASSUME ObligationsAssumption == Obligations \in [Glitches -> (SUBSET Gates) \ {{}}]
ASSUME LedgerAssumption == MaxReq \in Nat \ {0} /\ "none" \notin Glitches

VARIABLES req,       \* the proof_requirements table
          evidence,  \* per requirement and gate: the newest outcome, and the newest pass's artifact
          capture,   \* where the capture of each glitch is
          run,       \* where each run is, and what it has read
          merge,     \* the merge gate, one check at a time
          spared     \* what a check may miss: see SpareDuringCheck

vars == <<req, evidence, capture, run, merge, spared>>

Reqs == 1..MaxReq
Statuses == {"absent", "open", "satisfied", "waived"}
Rows == [status : Statuses, glitch : Glitches \cup {"none"}, waiver : {"none", "valid", "lapsed"}]
Outcomes == {"passed", "unproven"}     \* GateOutcome: FAILED and UNVERIFIABLE decide alike
Phases == {"idle", "waivers", "expire", "open", "satisfied", "next", "gates", "reopen", "dead"}

NoRow == [status |-> "absent", glitch |-> "none", waiver |-> "none"]
NewRow(g) == [status |-> "open", glitch |-> g, waiver |-> "none"]
IdleRun == [pc |-> "idle", full |-> FALSE, may |-> {}, lapsed |-> {}, todo |-> {},
            id |-> 0, row |-> NoRow, results |-> [g \in Gates |-> "none"]]
IdleMerge == [pc |-> "idle", override |-> FALSE, todo |-> {}, found |-> {}]

TypeOK ==
  /\ req \in [Reqs -> Rows]
  /\ evidence \in [Reqs -> [Gates -> [last : Outcomes \cup {"none"},
                                      artifact : {"none", "intact", "lost"}]]]
  /\ capture \in [Glitches -> [pc : {"idle", "stubs", "saved"}, id : Reqs]]
  /\ run \in [Runs -> [pc : Phases, full : BOOLEAN, may : SUBSET Gates, lapsed : SUBSET Reqs,
                       todo : SUBSET (Reqs \X Rows), id : Reqs \cup {0}, row : Rows,
                       results : [Gates -> Outcomes \cup {"none"}]]]
  /\ merge \in [pc : {"idle", "open", "satisfied", "verify", "allowed"}, override : BOOLEAN,
                todo : SUBSET Reqs, found : SUBSET Reqs]
  /\ spared \subseteq Reqs

Init ==
  /\ req = [r \in Reqs |-> NoRow]
  /\ evidence = [r \in Reqs |-> [g \in Gates |-> [last |-> "none", artifact |-> "none"]]]
  /\ capture = [g \in Glitches |-> [pc |-> "idle", id |-> 1]]
  /\ run = [p \in Runs |-> IdleRun]
  /\ merge = IdleMerge
  /\ spared = {}

Exists(r) == req[r].status # "absent"
With(status) == {r \in Reqs : req[r].status = status}

-----------------------------------------------------------------------------
(* Capture: the id is the largest so far plus one, read on a connection of its *)
(* own; the test stubs are written; then the row, replacing what is there.     *)

\* Mutant: the largest id itself.
NextReqId_Max == {id \in 0..MaxReq : (\A r \in Reqs : Exists(r) => r <= id) /\ (id > 0 => Exists(id))}

\* next_req_id, while the bound allows one: at most one id.
NextReqId == {id \in Reqs : (\A r \in Reqs : Exists(r) => r < id) /\ (id > 1 => Exists(id - 1))}

AllocateId(g) ==
  /\ capture[g].pc = "idle"
  /\ \E id \in NextReqId : capture' = [capture EXCEPT ![g] = [pc |-> "stubs", id |-> id]]
  /\ UNCHANGED <<req, evidence, run, merge>>

\* The stubs could not be written: nothing was stored, and the human may retry.
CaptureFails(g) ==
  /\ capture[g].pc = "stubs"
  /\ capture' = [capture EXCEPT ![g].pc = "idle"]
  /\ UNCHANGED <<req, evidence, run, merge>>

SaveCapture(g) ==
  /\ capture[g].pc = "stubs"
  /\ req' = [req EXCEPT ![capture[g].id] = NewRow(g)]
  /\ capture' = [capture EXCEPT ![g].pc = "saved"]
  /\ UNCHANGED <<evidence, run, merge>>

-----------------------------------------------------------------------------
(* Humans and time.                                                            *)

\* Any existing requirement, whatever its status; the date may have passed.
WaiveRequirement(r) ==
  /\ Exists(r)
  /\ \E w \in {"valid", "lapsed"} :
       req' = [req EXCEPT ![r].status = "waived", ![r].waiver = w]
  /\ UNCHANGED <<evidence, capture, run, merge>>

WaiverLapses(r) ==
  /\ req[r].status = "waived" /\ req[r].waiver = "valid"
  /\ req' = [req EXCEPT ![r].waiver = "lapsed"]
  /\ UNCHANGED <<evidence, capture, run, merge>>

\* An artifact is deleted, edited, or overwritten by the same run's second
\* evaluation of a requirement that both of its listings returned.
LoseArtifact(r, g) ==
  /\ evidence[r][g].artifact = "intact"
  /\ evidence' = [evidence EXCEPT ![r][g].artifact = "lost"]
  /\ UNCHANGED <<req, capture, run, merge>>

-----------------------------------------------------------------------------
(* A proof run. may is what --gate and enabled_gates leave to run.             *)

At(p, pc) == run[p].pc = pc

\* The run is done with the requirement it was at.
LetGo(p) == run' = [run EXCEPT ![p].pc = "next", ![p].id = 0, ![p].row = NoRow,
                               ![p].results = IdleRun.results]

StartProof(p) ==
  /\ At(p, "idle")
  /\ \E full \in BOOLEAN, may \in SUBSET Gates :
       run' = [run EXCEPT ![p] = [IdleRun EXCEPT !.pc = "waivers", !.full = full, !.may = may]]
  /\ UNCHANGED <<req, evidence, capture, merge>>

\* check_expired_waivers selects; no transaction is open until it updates.
FindLapsed(p) ==
  /\ At(p, "waivers")
  /\ run' = [run EXCEPT ![p].pc = "expire",
                        ![p].lapsed = {r \in With("waived") : req[r].waiver = "lapsed"}]
  /\ UNCHANGED <<req, evidence, capture, merge>>

ReopenLapsed(p) ==
  /\ At(p, "expire")
  /\ req' = [r \in Reqs |-> IF r \in run[p].lapsed /\ Exists(r)
                            THEN [req[r] EXCEPT !.status = "open", !.waiver = "none"]
                            ELSE req[r]]
  /\ run' = [run EXCEPT ![p].pc = "open", ![p].lapsed = {}]
  /\ UNCHANGED <<evidence, capture, merge>>

ListOpen(p) ==
  /\ At(p, "open")
  /\ run' = [run EXCEPT ![p].pc = IF run[p].full THEN "satisfied" ELSE "next",
                        ![p].todo = {<<r, req[r]>> : r \in With("open")}]
  /\ UNCHANGED <<req, evidence, capture, merge>>

\* Mutant: everything that is not OPEN, waived requirements too.
ListSatisfied_Waived(p) ==
  /\ At(p, "satisfied")
  /\ run' = [run EXCEPT ![p].pc = "next",
        ![p].todo = @ \cup {<<r, req[r]>> : r \in With("satisfied") \cup With("waived")}]
  /\ UNCHANGED <<req, evidence, capture, merge>>

ListSatisfied(p) ==
  /\ At(p, "satisfied")
  /\ run' = [run EXCEPT ![p].pc = "next",
                        ![p].todo = @ \cup {<<r, req[r]>> : r \in With("satisfied")}]
  /\ UNCHANGED <<req, evidence, capture, merge>>

TakeRequirement(p) ==
  /\ At(p, "next")
  /\ \E copy \in run[p].todo :
       run' = [run EXCEPT ![p].pc = "gates", ![p].todo = @ \ {copy}, ![p].id = copy[1],
                          ![p].row = copy[2]]
  /\ UNCHANGED <<req, evidence, capture, merge>>

SkipOutOfScope(p) ==
  /\ At(p, "next") /\ ~run[p].full
  /\ \E copy \in run[p].todo : run' = [run EXCEPT ![p].todo = @ \ {copy}]
  /\ UNCHANGED <<req, evidence, capture, merge>>

Obliged(p) == Obligations[run[p].row.glitch]
Due(p) == Obliged(p) \cap run[p].may

\* One gate: its artifact is written and its outcome attached as evidence.
RunGate(p, g) ==
  /\ At(p, "gates") /\ g \in Due(p) /\ run[p].results[g] = "none"
  /\ \E outcome \in Outcomes :
       /\ run' = [run EXCEPT ![p].results[g] = outcome]
       /\ evidence' = [evidence EXCEPT
            ![run[p].id][g] = [last |-> outcome,
                               artifact |-> IF outcome = "passed" THEN "intact" ELSE @.artifact]]
  /\ UNCHANGED <<req, capture, merge>>

AllRan(p) == At(p, "gates") /\ \A g \in Due(p) : run[p].results[g] # "none"
\* Mutant: the results are not counted against the obligations.
Proved_Filtered(p) == \A g \in Due(p) : run[p].results[g] = "passed"

Proved(p) == Due(p) = Obliged(p) /\ \A g \in Due(p) : run[p].results[g] = "passed"

NothingRan(p) ==
  /\ At(p, "gates") /\ Due(p) = {}
  /\ LetGo(p)
  /\ UNCHANGED <<req, evidence, capture, merge>>

\* The row as it was listed, but SATISFIED.
MarkSatisfied(p) ==
  /\ AllRan(p) /\ Due(p) # {} /\ Proved(p)
  /\ req' = [req EXCEPT ![run[p].id] = [run[p].row EXCEPT !.status = "satisfied"]]
  /\ LetGo(p)
  /\ UNCHANGED <<evidence, capture, merge>>

\* Mutant: a regression is taken for one only when every gate ran.
FindRegressed_AllGates(p) ==
  /\ AllRan(p) /\ Due(p) # {} /\ ~Proved(p) /\ run[p].row.status = "satisfied"
  /\ IF req[run[p].id].status \in {"waived", "absent"} \/ Due(p) # Obliged(p)
     THEN LetGo(p)
     ELSE run' = [run EXCEPT ![p].pc = "reopen", ![p].row = req[run[p].id]]
  /\ UNCHANGED <<req, evidence, capture, merge>>

\* reopen_requirement reads the row afresh, and leaves a waived one alone ...
FindRegressed(p) ==
  /\ AllRan(p) /\ Due(p) # {} /\ ~Proved(p) /\ run[p].row.status = "satisfied"
  /\ IF req[run[p].id].status \in {"waived", "absent"}
     THEN LetGo(p)
     ELSE run' = [run EXCEPT ![p].pc = "reopen", ![p].row = req[run[p].id]]
  /\ UNCHANGED <<req, evidence, capture, merge>>

\* ... then writes it, on another connection.
ReopenRequirement(p) ==
  /\ At(p, "reopen")
  /\ req' = [req EXCEPT ![run[p].id] = [run[p].row EXCEPT !.status = "open"]]
  /\ LetGo(p)
  /\ UNCHANGED <<evidence, capture, merge>>

\* The row as it was listed, with its obligations' new outcomes.
SaveUnproven(p) ==
  /\ AllRan(p) /\ Due(p) # {} /\ ~Proved(p) /\ run[p].row.status # "satisfied"
  /\ req' = [req EXCEPT ![run[p].id] = run[p].row]
  /\ LetGo(p)
  /\ UNCHANGED <<evidence, capture, merge>>

EndProof(p) ==
  /\ At(p, "next") /\ run[p].todo = {}
  /\ run' = [run EXCEPT ![p] = IdleRun]
  /\ UNCHANGED <<req, evidence, capture, merge>>

\* The process is killed, or an exception leaves run_proof.
ProofDies(p) ==
  /\ run[p].pc \notin {"idle", "dead"}
  /\ run' = [run EXCEPT ![p] = [IdleRun EXCEPT !.pc = "dead", !.id = run[p].id]]
  /\ UNCHANGED <<req, evidence, capture, merge>>

Prove(p) ==
  \/ StartProof(p) \/ FindLapsed(p) \/ ReopenLapsed(p) \/ ListOpen(p) \/ ListSatisfied(p)
  \/ TakeRequirement(p) \/ SkipOutOfScope(p) \/ \E g \in Gates : RunGate(p, g)
  \/ NothingRan(p) \/ MarkSatisfied(p) \/ FindRegressed(p) \/ ReopenRequirement(p)
  \/ SaveUnproven(p) \/ EndProof(p) \/ ProofDies(p)

-----------------------------------------------------------------------------
(* The merge gate: list_blocking_requirements, then the merge on GitHub.       *)

AskMerge ==
  /\ merge.pc = "idle"
  /\ \E override \in BOOLEAN :
       merge' = [IdleMerge EXCEPT !.pc = "open", !.override = override]
  /\ UNCHANGED <<req, evidence, capture, run>>

GateListsOpen ==
  /\ merge.pc = "open"
  /\ merge' = [merge EXCEPT !.pc = "satisfied", !.found = With("open")]
  /\ UNCHANGED <<req, evidence, capture, run>>

GateListsSatisfied ==
  /\ merge.pc = "satisfied"
  /\ merge' = [merge EXCEPT !.pc = "verify", !.todo = With("satisfied")]
  /\ UNCHANGED <<req, evidence, capture, run>>

Tampered(r) == \E g \in Gates : evidence[r][g].artifact = "lost"

\* Mutant: SATISFIED is enough, as before #952.
GateVerifies_Trusting(r) ==
  /\ merge.pc = "verify" /\ r \in merge.todo
  /\ merge' = [merge EXCEPT !.todo = @ \ {r}]
  /\ UNCHANGED <<req, evidence, capture, run>>

GateVerifies(r) ==
  /\ merge.pc = "verify" /\ r \in merge.todo
  /\ merge' = [merge EXCEPT !.todo = @ \ {r},
                            !.found = IF Tampered(r) THEN @ \cup {r} ELSE @]
  /\ UNCHANGED <<req, evidence, capture, run>>

GateAnswers ==
  /\ merge.pc = "verify" /\ merge.todo = {}
  /\ merge' = IF merge.found = {} \/ merge.override
              THEN [merge EXCEPT !.pc = "allowed"] ELSE IdleMerge
  /\ UNCHANGED <<req, evidence, capture, run>>

\* GitHub answers, either way.
MergeEnds ==
  /\ merge.pc = "allowed"
  /\ merge' = IdleMerge
  /\ UNCHANGED <<req, evidence, capture, run>>

Merging ==
  \/ AskMerge \/ GateListsOpen \/ GateListsSatisfied \/ \E r \in Reqs : GateVerifies(r)
  \/ GateAnswers \/ MergeEnds

-----------------------------------------------------------------------------
Blocks(r) == req[r].status = "open" \/ (req[r].status = "satisfied" /\ Tampered(r))

\* A requirement a check may miss: for a moment of the check it did not block, or
\* it went from SATISFIED to OPEN while the check was between its two listings.
SpareDuringCheck ==
  spared' = IF merge'.pc = "idle" THEN {}
            ELSE spared \cup {r \in Reqs : \/ ~Blocks(r)'
                                           \/ req[r].status = "satisfied" /\ req'[r].status = "open"}

Next ==
  /\ \/ \E g \in Glitches : AllocateId(g) \/ CaptureFails(g) \/ SaveCapture(g)
     \/ \E r \in Reqs : WaiveRequirement(r) \/ WaiverLapses(r) \/ \E g \in Gates : LoseArtifact(r, g)
     \/ \E p \in Runs : Prove(p)
     \/ Merging
  /\ SpareDuringCheck

Spec == Init /\ [][Next]_vars

-----------------------------------------------------------------------------
(* Properties.                                                                 *)

\* A SATISFIED requirement has passing evidence for every one of its gates, and
\* a waiver exactly when it is WAIVED, whatever stale rows runs have written over
\* it, with whatever gates filtered out (runner.py's count of the results).
SatisfiedIsProven ==
  \A r \in Reqs :
    /\ req[r].status = "satisfied" =>
         \A g \in Obligations[req[r].glitch] : evidence[r][g].artifact # "none"
    /\ req[r].status = "waived" <=> req[r].waiver # "none"

\* With runs one after another: a SATISFIED requirement one of whose gates last
\* did not pass is reopened by the run that saw it, unless that run died (#923).
SatisfiedHoldsUp ==
  \A r \in Reqs :
    req[r].status = "satisfied" =>
      \/ \A g \in Obligations[req[r].glitch] : evidence[r][g].last = "passed"
      \/ \E p \in Runs : run[p].id = r

\* Somebody who is about to write the row of r, and looked before it was waived.
LookedBefore(p, r) ==
  \/ r \in run[p].lapsed
  \/ run[p].id = r /\ run[p].row.status # "waived"

\* A waiver ends only by a run that found an earlier one lapsed, by one that
\* listed the requirement before it was waived, or by a capture that had been
\* given the same id: never by one that could have seen it.
SeenWaiverStands ==
  [][\A r \in Reqs :
       req[r].status = "waived" /\ req'[r].status # "waived" =>
         \/ \E p \in Runs : LookedBefore(p, r)
         \/ \E g \in Glitches : capture[g].pc = "stubs" /\ capture[g].id = r]_vars

\* A merge goes ahead without an override only if every requirement was out of
\* its way at some moment of the check, or was reopened during the check.
GateSeesBlockers == merge.pc = "allowed" /\ ~merge.override => spared = Reqs

\* ledger.py:515: a gate result must not silently overturn a waiver. (No run checks
\* it, for it is false: see SeenWaiverStands for what does hold.)
WaiverOutlivesGates ==
  [][\A p \in Runs, r \in Reqs :
       /\ run[p].pc \in {"gates", "reopen"} /\ run'[p].pc = "next"
       /\ req[r].status = "waived" /\ req[r].waiver = "valid"
       => req'[r].status = "waived"]_vars

\* ledger.py:307: a racing allocation cannot silently clobber another requirement.
\* (No run checks it, for it is false: capture does not pass create_only.)
CaptureKeepsOthers == [][\A r \in Reqs : Exists(r) => req'[r].glitch = req[r].glitch]_vars
=============================================================================
