----------------------------- MODULE ReplanProofs -----------------------------
(***************************************************************************)
(* Proofs about Validation and Replan, for every set of tasks and users,   *)
(* every planned graph, every contract, mode and bound.                    *)
(***************************************************************************)
EXTENDS Replan, SequenceTheorems, WellFoundedInduction, TLAPS

-----------------------------------------------------------------------------
(* Validation: what a verdict says, for every contract, observation and      *)
(* mode.                                                                    *)

(* Only these three statuses occur among the criteria.                      *)
LEMMA CriterionStatuses ==
    ASSUME NEW c \in Contract, NEW o \in Observation, NEW m \in Mode
    PROVE  \A k \in Criteria(c, o, m) : k.status \in {"PASS", "FAIL", "NEEDS_REVIEW"}
<1>1. \A k \in SelfTest(c, o) : k.status \in {"PASS", "FAIL"}
  BY DEF SelfTest, Criterion
<1>2. \A k \in Prose(c, o) : k.status = "NEEDS_REVIEW"
  BY DEF Prose, Criterion
<1>3. \A k \in Checks(c, o, m) : k.status \in {"PASS", "FAIL"}
  BY DEF Checks, Criterion
<1>4. \A k \in ScopeCheck(c, o, m) : k.status \in {"PASS", "FAIL", "NEEDS_REVIEW"}
  BY DEF ScopeCheck, Criterion
<1>5. \A k \in GitCheck(o) : k.status \in {"PASS", "FAIL"}
  BY DEF GitCheck, Criterion
<1> QED
  BY <1>1, <1>2, <1>3, <1>4, <1>5 DEF Criteria

(* An enforced scope violation is among the criteria.                       *)
LEMMA EnforcedFails ==
    ASSUME NEW c \in Contract, NEW o \in Observation, NEW m \in Mode,
           Enforced(c, o, m)
    PROVE  Criterion("FILE", "FAIL") \in Criteria(c, o, m)
<1>1. EvaluateScope(c, o) = "SCOPE_VIOLATION"
  BY DEF Enforced
<1>2. ScopeCheck(c, o, m) = {Criterion("FILE", "FAIL")}
  BY <1>1 DEF ScopeCheck
<1> QED
  BY <1>2 DEF Criteria

(* Whatever the validator counts as a failure is a FAIL criterion, too.     *)
LEMMA FailuresAreCriteria ==
    ASSUME NEW c \in Contract, NEW o \in Observation, NEW m \in Mode,
           HasFailures(c, o, m)
    PROVE  \E k \in Criteria(c, o, m) : k.status = "FAIL"
<1>1. CASE c.tests /\ o.exit = "failed"
  <2>1. ~TestsPass(c, o)
    BY <1>1 DEF TestsPass
  <2>2. Criterion("TEST", "FAIL") \in SelfTest(c, o)
    BY <1>1, <2>1 DEF SelfTest
  <2> QED
    BY <2>2 DEF Criteria, Criterion
<1>2. CASE Enforced(c, o, m)
  BY <1>2, EnforcedFails DEF Criterion
<1>3. CASE Contradicted(o)
  <2>1. Criterion("GIT", "FAIL") \in GitCheck(o)
    BY <1>3 DEF GitCheck, Contradicted
  <2> QED
    BY <2>1 DEF Criteria, Criterion
<1> QED
  BY <1>1, <1>2, <1>3 DEF HasFailures

(* The validator reaches its verdict from criteria, a list of failures and  *)
(* the scope mode, the aggregator from the criteria alone                   *)
(* (validator.py:203, validation_aggregator.py:56): without findings of a   *)
(* reviewing model they agree.                                              *)
THEOREM VerdictsAgree ==
    \A c \in Contract, o \in Observation, m \in Mode :
        Aggregated(c, o, m, {}) = Validated(c, o, m)
<1> SUFFICES ASSUME NEW c \in Contract, NEW o \in Observation, NEW m \in Mode
             PROVE  Aggregated(c, o, m, {}) = Validated(c, o, m)
  OBVIOUS
<1>1. Reviewed({}) = {}
  BY DEF Reviewed
<1>2. Aggregated(c, o, m, {}) = Judged(Criteria(c, o, m))
  BY <1>1 DEF Aggregated
<1>3. Enforced(c, o, m) \/ HasFailures(c, o, m) => Judged(Criteria(c, o, m)) = "FAIL"
  BY FailuresAreCriteria DEF Judged, HasFailures
<1> QED
  BY <1>2, <1>3 DEF Validated

(* A model's findings can only make a verdict worse: what passes with them   *)
(* passes without.                                                          *)
THEOREM FindingsOnlyWorsen ==
    ASSUME NEW c \in Contract, NEW o \in Observation, NEW m \in Mode, NEW findings,
           Aggregated(c, o, m, findings) = "PASS"
    PROVE  findings = {} /\ Validated(c, o, m) = "PASS"
<1>1. /\ \A k \in Criteria(c, o, m) \cup Reviewed(findings) : k.status # "FAIL"
      /\ \A k \in Criteria(c, o, m) \cup Reviewed(findings) : k.status # "NEEDS_REVIEW"
  BY DEF Aggregated, Judged
<1>2. \A k \in Reviewed(findings) : k.status \in {"FAIL", "NEEDS_REVIEW"}
  BY DEF Reviewed, Criterion
<1>3. Reviewed(findings) = {}
  BY <1>1, <1>2
<1>4. findings = {}
  BY <1>3 DEF Reviewed
<1> QED
  BY <1>4, VerdictsAgree

(* A PASS is earned: the suite, if one is declared, passed or was empty,     *)
(* prose is backed by a suite, required machine checks hold, an enforced     *)
(* scope is kept, declared paths can be trusted and git does not contradict. *)
THEOREM PassIsEarned ==
    ASSUME NEW c \in Contract, NEW o \in Observation, NEW m \in Mode,
           Aggregated(c, o, m, {}) = "PASS"
    PROVE  /\ c.tests => o.exit \in {"passed", "empty"}
           /\ c.criteria => c.tests
           /\ m.criteria = "require" => c.checks \ {"MANUAL"} \subseteq o.holds
           /\ m.scope = "enforce" /\ c.declared = "usable" => o.changes # "outside"
           /\ c.declared # "untrusted"
           /\ ~Contradicted(o)
<1>1. /\ \A k \in Criteria(c, o, m) : k.status # "FAIL"
      /\ \A k \in Criteria(c, o, m) : k.status # "NEEDS_REVIEW"
  BY DEF Aggregated, Judged
<1>2. ~HasFailures(c, o, m)
  BY <1>1, FailuresAreCriteria
<1>3. c.tests => o.exit \in {"passed", "empty"}
  BY <1>2 DEF HasFailures, Observation
<1>4. c.criteria => c.tests
  <2>1. Prose(c, o) = {}
    BY <1>1 DEF Criteria, Prose, Criterion
  <2> QED
    BY <2>1 DEF Prose, TestsPass
<1>5. m.criteria = "require" => c.checks \ {"MANUAL"} \subseteq o.holds
  <2> SUFFICES ASSUME m.criteria = "require",
                      NEW k \in c.checks \ {"MANUAL"}, k \notin o.holds
               PROVE  FALSE
    OBVIOUS
  <2>1. Criterion(k, "FAIL") \in Checks(c, o, m)
    BY DEF Checks
  <2> QED
    BY <1>1, <2>1 DEF Criteria, Criterion
<1>6. m.scope = "enforce" /\ c.declared = "usable" => o.changes # "outside"
  BY <1>2 DEF HasFailures, Enforced, EvaluateScope, AllowedPaths
<1>7. c.declared # "untrusted"
  <2> SUFFICES ASSUME c.declared = "untrusted" PROVE FALSE
    OBVIOUS
  <2>1. EvaluateScope(c, o) = "NEEDS_REVIEW"
    BY DEF EvaluateScope, AllowedPaths
  <2>2. Criterion("FILE", "NEEDS_REVIEW") \in Criteria(c, o, m)
    BY <2>1 DEF ScopeCheck, Criteria
  <2> QED
    BY <1>1, <2>2 DEF Criterion
<1> QED
  BY <1>2, <1>3, <1>4, <1>5, <1>6, <1>7 DEF HasFailures

-----------------------------------------------------------------------------
(* The verdicts there are.                                                  *)
LEMMA Verdicts ==
    ASSUME NEW criteria
    PROVE  Judged(criteria) \in {"PASS", "FAIL", "NEEDS_REVIEW"}
BY DEF Judged

(* ... and those on scope.                                                  *)
LEMMA ScopeVerdicts ==
    ASSUME NEW c \in Contract, NEW o \in Observation
    PROVE  EvaluateScope(c, o) \in {"WITHIN_SCOPE", "NEEDS_REVIEW", "SCOPE_VIOLATION"}
<1>1. AllowedPaths(c) \in {"declared", "none", "workspace"}
  BY DEF AllowedPaths, Contract
<1> QED
  BY <1>1 DEF EvaluateScope

-----------------------------------------------------------------------------
(* What was observed, had every check held and nothing lain outside.        *)
Good(c, o) ==
    [o EXCEPT !.holds = c.checks,
              !.changes = IF @ = "outside" THEN "inside" ELSE @]

LEMMA GoodIsObserved ==
    ASSUME NEW c \in Contract, NEW o \in Observation
    PROVE  /\ Good(c, o) \in Observation
           /\ Good(c, o).exit = o.exit /\ Good(c, o).git = o.git
           /\ Good(c, o).holds = c.checks
           /\ Good(c, o).changes = IF o.changes = "outside" THEN "inside" ELSE o.changes
BY DEF Good, Contract, Observation

(* In the modes that only observe, machine checks and scope add nothing that *)
(* fails, and the same to be reviewed.                                      *)
LEMMA GrayCriteria ==
    ASSUME NEW c \in Contract, NEW o \in Observation, NEW m \in Mode,
           m.scope = "warn", m.criteria = "observe", NEW s \in {"FAIL", "NEEDS_REVIEW"}
    PROVE  /\ \A k \in Checks(c, o, m) : k.status = "PASS"
           /\ (\E k \in ScopeCheck(c, o, m) : k.status = s)
                 <=> s = "NEEDS_REVIEW" /\ c.declared = "untrusted"
<1>1. \A k \in Checks(c, o, m) : k.status = "PASS"
  BY DEF Checks, Criterion
<1>2. EvaluateScope(c, o) = "NEEDS_REVIEW" <=> c.declared = "untrusted"
  <2>1. AllowedPaths(c) = "none" <=> c.declared = "untrusted"
    BY DEF AllowedPaths, Contract
  <2>2. AllowedPaths(c) \in {"declared", "none", "workspace"}
    BY DEF AllowedPaths, Contract
  <2> QED
    BY <2>1, <2>2 DEF EvaluateScope
<1>3. ~Enforced(c, o, m)
  BY DEF Enforced
<1>4. CASE c.declared = "untrusted"
  <2>1. ScopeCheck(c, o, m) = {Criterion("FILE", "NEEDS_REVIEW")}
    BY <1>2, <1>4 DEF ScopeCheck
  <2> QED
    BY <1>1, <1>4, <2>1 DEF Criterion
<1>5. CASE c.declared # "untrusted"
  <2>1. EvaluateScope(c, o) \in {"WITHIN_SCOPE", "SCOPE_VIOLATION"}
    BY <1>2, <1>5, ScopeVerdicts
  <2>2. \A k \in ScopeCheck(c, o, m) : k.status = "PASS"
    BY <1>3, <2>1 DEF ScopeCheck, Criterion
  <2> QED
    BY <1>1, <1>5, <2>2
<1> QED
  BY <1>4, <1>5

(* The gray modes (PROJECTFORGE_SCOPE_MODE=warn, criteria mode observe) only  *)
(* watch: the verdict is the one of an observation with nothing to complain  *)
(* about, and so is whether a test criterion failed (validator.py:149,       *)
(* validator.py:343).                                                       *)
THEOREM GrayModesWatch ==
    ASSUME NEW c \in Contract, NEW o \in Observation, NEW m \in Mode,
           m.scope = "warn", m.criteria = "observe"
    PROVE  /\ Aggregated(c, o, m, {}) = Aggregated(c, Good(c, o), m, {})
           /\ (\E k \in Criteria(c, o, m) : k.type = "TEST" /\ k.status = "FAIL")
                 <=> \E k \in Criteria(c, Good(c, o), m) : k.type = "TEST" /\ k.status = "FAIL"
<1> DEFINE g == Good(c, o)
<1>1. /\ g \in Observation
      /\ SelfTest(c, g) = SelfTest(c, o) /\ Prose(c, g) = Prose(c, o)
      /\ GitCheck(g) = GitCheck(o)
  BY GoodIsObserved DEF SelfTest, Prose, TestsPass, GitCheck, Contradicted
<1>2. ASSUME NEW s \in {"FAIL", "NEEDS_REVIEW"}
      PROVE  (\E k \in Criteria(c, o, m) : k.status = s)
                <=> \E k \in Criteria(c, g, m) : k.status = s
  <2>1. /\ \A k \in Checks(c, o, m) \cup Checks(c, g, m) : k.status # s
        /\ (\E k \in ScopeCheck(c, o, m) : k.status = s)
              <=> \E k \in ScopeCheck(c, g, m) : k.status = s
    <3> HIDE DEF g
    <3> QED
      BY <1>1, GrayCriteria
  <2> HIDE DEF g
  <2> QED
    BY <1>1, <2>1 DEF Criteria
<1>3. Judged(Criteria(c, o, m)) = Judged(Criteria(c, g, m))
  <2> HIDE DEF g
  <2> QED
    BY <1>2 DEF Judged
<1>4. Aggregated(c, o, m, {}) = Aggregated(c, g, m, {})
  <2>1. Reviewed({}) = {}
    BY DEF Reviewed
  <2> HIDE DEF g
  <2> QED
    BY <1>3, <2>1 DEF Aggregated
<1>5. \A w \in {o, g} : \A k \in Checks(c, w, m) \cup ScopeCheck(c, w, m) : k.status # "FAIL"
  <2> HIDE DEF g
  <2> QED
    BY <1>1, GrayCriteria
<1>6. (\E k \in Criteria(c, o, m) : k.type = "TEST" /\ k.status = "FAIL")
         <=> \E k \in Criteria(c, g, m) : k.type = "TEST" /\ k.status = "FAIL"
  <2> HIDE DEF g
  <2> QED
    BY <1>1, <1>5 DEF Criteria
<1> QED
  BY <1>4, <1>6

-----------------------------------------------------------------------------
(* The stored graph. *)

USE ReplanAssumption
(* Abbreviations of single expressions. *)
USE DEF Wave, AttemptsLeft, ReadyToApply, Judges

-----------------------------------------------------------------------------
(* The inductive invariant. *)

CallsAreCalls == calls = [u \in Users |-> calls[u]]

NeverSplit == \A i \in 1 .. Len(proposals) : proposals[i].action \in {"RETRY", "BLOCK"}

RunUnderWay == pc # "idle" => Len(runs) > 0

(* What the history variable knows of the task at hand. *)
NothingSeen == evidence = NoEvidence /\ pc # "validating"

AgentSeen ==
    /\ pc = "validating"
    /\ evidence \in [task : {cur}, real : Reach, git : CommitOutcomes,
                    read : BOOLEAN, changes : Reach]
    /\ evidence.git = "advanced" /\ evidence.read => evidence.changes = evidence.real

ValidatorSeen ==
    /\ pc = "top"
    /\ evidence \in [task : Task, real : Reach, read : BOOLEAN, seen : Observation]
    /\ evidence.seen.git = "advanced" /\ evidence.read
          => evidence.seen.changes = evidence.real
    /\ live[evidence.task] =
          StatusOf(Aggregated(Contracts[evidence.task], evidence.seen, mode, {}))

EvidenceFits == NothingSeen \/ AgentSeen \/ ValidatorSeen

(* Every block a graph has, in the store or in a call, was approved.        *)
ApprovedTasks ==
    {t \in Task : \E i \in approved : proposals[i].task = t /\ proposals[i].action = "BLOCK"}

ApprovalsKept ==
    /\ \A i \in 1 .. Len(proposals) : proposals[i].status = "APPROVED" => i \in approved
    /\ \A t \in Task : stored.status[t] = "BLOCKED" => t \in ApprovedTasks
    /\ \A u \in Users : Applying(calls[u]) =>
           \A t \in Task : calls[u].graph.status[t] = "BLOCKED" => t \in ApprovedTasks

(* ... and keeps those that were applied; the block of a call that is about *)
(* to save its proposal is in its copy.                                     *)
StandingTasks ==
    {t \in Task : \E i \in 1 .. Len(proposals) :
        /\ proposals[i].status = "APPLIED" /\ proposals[i].action = "BLOCK"
        /\ proposals[i].task = t}

OneApplies == \A u, w \in Users : Applying(calls[u]) /\ Applying(calls[w]) => u = w

CopiesStand ==
    \A u \in Users : Applying(calls[u]) =>
        \A t \in StandingTasks : calls[u].graph.status[t] = "BLOCKED"

CheckedStand ==
    \A u \in Users :
        calls[u].at = "checked" /\ proposals[calls[u].proposal].action = "BLOCK"
            => calls[u].graph.status[proposals[calls[u].proposal].task] = "BLOCKED"

StoreStands ==
    (\A u \in Users : calls[u].at # "applied") =>
        \A t \in StandingTasks : stored.status[t] = "BLOCKED"

BlocksKept == ~disturbed => OneApplies /\ CopiesStand /\ CheckedStand /\ StoreStands

IInv ==
    /\ TypeOK /\ CallsAreCalls /\ NeverSplit /\ RunUnderWay
    /\ EvidenceFits /\ ApprovalsKept /\ BlocksKept

-----------------------------------------------------------------------------
(* Lemmas. *)

(* A sweep rewrites idle tasks only.                                        *)
LEMMA Sweep ==
    ASSUME NEW st \in [Task -> TaskStatus], NEW new, UpdateStates(Planned, st, new)
    PROVE  /\ new \in [Task -> TaskStatus]
           /\ \A t \in Task : st[t] \notin Idle => new[t] = st[t]
<1>1. PICK B \in SUBSET Task : SweepBlocks(Planned, st, B) /\ new = Swept(Planned, st, B)
  BY DEF UpdateStates
<1>2. \A t \in B : st[t] \in Idle
  BY <1>1 DEF SweepBlocks
<1> QED
  BY <1>1, <1>2 DEF Swept, TaskStatus, Idle

(* The task graphs of runs and calls are the planned one.                   *)
LEMMA PlanFacts ==
    ASSUME NEW p \in Plan
    PROVE  p.graph = Planned /\ p.status \in [Task -> TaskStatus]
BY DEF Plan

(* What settling the current task leaves behind.                            *)
LEMMA Settles ==
    ASSUME TypeOK, RunUnderWay, cur # NoTask, NEW new \in Settled, NEW result \in Result,
           Settle(new, result)
    PROVE  /\ live' \in [Task -> TaskStatus] /\ live'[cur] = new
           /\ runs' \in Seq(Seq(Record)) /\ Len(runs') = Len(runs)
           /\ pc' = "top" /\ cur' = NoTask /\ iteration' = 0
<1> DEFINE n == Len(runs)
           rec == [task |-> cur, status |-> new, result |-> result]
           st == [live EXCEPT ![cur] = new]
<1>0. n = Len(runs)
  OBVIOUS
<1>1. cur \in Task /\ pc # "idle" /\ live \in [Task -> TaskStatus]
  BY DEF TypeOK
<1>2. runs \in Seq(Seq(Record)) /\ n \in 1 .. n
  BY <1>1 DEF TypeOK, RunUnderWay
<1>3. st \in [Task -> TaskStatus] /\ st[cur] = new
  BY <1>1 DEF TaskStatus, Settled
<1>4. loaded.graph = Planned
  BY PlanFacts DEF TypeOK
<1>5. UpdateStates(Planned, st, live')
  BY <1>4 DEF Settle
<1>6. live' \in [Task -> TaskStatus] /\ live'[cur] = new
  <2> HIDE DEF st
  <2> QED
    BY <1>1, <1>3, <1>5, Sweep DEF Idle, Settled
<1>7. rec \in Record
  BY <1>1 DEF Record
<1>8. Append(runs[n], rec) \in Seq(Record)
  <2>1. runs[n] \in Seq(Record)
    BY <1>2
  <2> HIDE DEF rec
  <2> QED
    BY <1>7, <2>1, AppendProperties
<1>9. runs' = [runs EXCEPT ![n] = Append(runs[n], rec)]
  BY DEF Settle
<1>10. runs' \in Seq(Seq(Record)) /\ Len(runs') = n
  <2> HIDE DEF n, rec
  <2> QED
    BY <1>0, <1>2, <1>8, <1>9, ExceptSeq
<1> QED
  BY <1>6, <1>10 DEF Settle

(* Saving a proposal changes its status alone.                              *)
LEMMA Saved ==
    ASSUME TypeOK, NEW i \in 1 .. Len(proposals),
           NEW s \in {"PROPOSED", "APPROVED", "REJECTED", "APPLIED"},
           proposals' = [proposals EXCEPT ![i].status = s]
    PROVE  /\ proposals' \in Seq(Proposal) /\ Len(proposals') = Len(proposals)
           /\ \A j \in 1 .. Len(proposals) :
                 /\ proposals'[j].task = proposals[j].task
                 /\ proposals'[j].action = proposals[j].action
                 /\ proposals'[j].status = IF j = i THEN s ELSE proposals[j].status
<1>1. proposals \in Seq(Proposal)
  BY DEF TypeOK
<1>2. proposals[i] \in Proposal
  BY <1>1
<1>3. [proposals[i] EXCEPT !.status = s] \in Proposal
  BY <1>2 DEF Proposal
<1>4. proposals' = [proposals EXCEPT ![i] = [proposals[i] EXCEPT !.status = s]]
  OBVIOUS
<1>5. /\ proposals' \in Seq(Proposal) /\ Len(proposals') = Len(proposals)
      /\ \A j \in 1 .. Len(proposals) :
            proposals'[j] = IF j = i THEN [proposals[i] EXCEPT !.status = s] ELSE proposals[j]
  BY <1>1, <1>3, <1>4, ExceptSeq
<1>6. \A j \in 1 .. Len(proposals) : proposals[j] \in Proposal
  BY <1>1
<1> QED
  BY <1>5, <1>6 DEF Proposal

(* A call that has begun refers to a proposal, and one that applies it has a *)
(* copy of the graph.                                                       *)
LEMMA CallFacts ==
    ASSUME TypeOK, NEW u \in Users, calls[u].at # "idle"
    PROVE  /\ calls[u].proposal \in 1 .. Len(proposals)
           /\ calls[u] \in CallOf(calls[u].proposal)
           /\ calls[u].at = "decided" => calls[u].verdict \in {"APPROVED", "REJECTED"}
           /\ Applying(calls[u]) => calls[u].graph \in Plan
<1>1. PICK i \in 1 .. Len(proposals) : calls[u] \in CallOf(i)
  BY DEF TypeOK, IdleCall
<1>2. calls[u].proposal = i
  BY <1>1 DEF CallOf
<1>3. calls[u].at = "decided" => calls[u].verdict \in {"APPROVED", "REJECTED"}
  BY <1>1 DEF CallOf
<1>4. Applying(calls[u]) => calls[u].graph \in Plan
  BY <1>1 DEF CallOf, Applying
<1> QED
  BY <1>1, <1>2, <1>3, <1>4

(* A step of one user leaves the calls of the others as they are.           *)
LEMMA OneCall ==
    ASSUME CallsAreCalls, NEW u \in Users, NEW c, calls' = [calls EXCEPT ![u] = c]
    PROVE  /\ CallsAreCalls' /\ calls'[u] = c
           /\ \A w \in Users \ {u} : calls'[w] = calls[w]
BY DEF CallsAreCalls

(* Every set of numbers that is not empty has a smallest one.               *)
LEMMA SmallestInSet ==
    ASSUME NEW S, S \subseteq Nat, S # {}
    PROVE  \E i \in S : \A j \in S : i <= j
<1> DEFINE R == OpToRel(<, Nat)
<1>1. IsWellFoundedOn(R, Nat)
  BY NatLessThanWellFounded
<1>2. \A i, j \in Nat : <<j, i>> \notin R => i <= j
  BY DEF OpToRel
<1> HIDE DEF R
<1>3. \E i \in S : \A j \in S : ~(<<j, i>> \in R)
  BY <1>1, WFMin
<1> QED
  BY <1>2, <1>3

(* Nothing but a retry or a block is proposed.                              *)
LEMMA ProposedActions ==
    ASSUME NEW r, NEW attempts, NEW maxRetries
    PROVE  Proposed(Recommended(r, attempts), attempts, maxRetries) \in {"RETRY", "BLOCK"}
<1>1. Recommended(r, attempts) \in {"RETRY", "BLOCK"}
  BY DEF Recommended
<1> HIDE DEF Recommended
<1> QED
  BY <1>1 DEF Proposed

(* What applying one does to the statuses.                                  *)
LEMMA AppliedEffect ==
    ASSUME NEW p \in Proposal, p.action \in {"RETRY", "BLOCK"},
           NEW st \in [Task -> TaskStatus], Applied(p, Planned, st).ok
    PROVE  LET new == Applied(p, Planned, st).status
           IN  /\ Applied(p, Planned, st).graph = Planned
               /\ new \in [Task -> TaskStatus]
               /\ \A t \in Task : new[t] = "BLOCKED" =>
                     st[t] = "BLOCKED" \/ (t = p.task /\ p.action = "BLOCK")
               /\ \A t \in Task : st[t] = "BLOCKED" => new[t] = "BLOCKED"
               /\ p.action = "BLOCK" => new[p.task] = "BLOCKED"
<1>1. p.task \in Task
  BY DEF Proposal
<1>2. Applicable(p, Planned, st)
  BY DEF Applied
<1>3. CASE p.action = "RETRY"
  <2>1. /\ Applied(p, Planned, st).graph = Planned
        /\ Applied(p, Planned, st).status = [st EXCEPT ![p.task] = Retried(st[p.task])]
    BY <1>2, <1>3 DEF Applied
  <2> QED
    BY <1>1, <1>3, <2>1 DEF Retried, TaskStatus
<1>4. CASE p.action = "BLOCK"
  <2>1. st[p.task] # "DONE"
    BY <1>2, <1>4 DEF Applied
  <2>2. /\ Applied(p, Planned, st).graph = Planned
        /\ Applied(p, Planned, st).status = [st EXCEPT ![p.task] = "BLOCKED"]
    BY <1>2, <1>4, <2>1 DEF Applied
  <2> QED
    BY <1>1, <1>4, <2>2 DEF TaskStatus
<1> QED
  BY <1>3, <1>4

(* What Create appends.                                                     *)
LEMMA Created ==
    ASSUME TypeOK, Create
    PROVE  \E p \in Proposal : /\ p.status = "PROPOSED" /\ p.action \in {"RETRY", "BLOCK"}
                               /\ proposals' = Append(proposals, p)
<1>1. PICK r \in 1 .. Len(runs) :
         /\ \E i \in 1 .. Len(runs[r]) : runs[r][i].status = "FAILED"
         /\ LET record == runs[r][FirstFailed(runs[r])]
                attempts == Cardinality({i \in 1 .. Len(runs[r]) :
                                            runs[r][i].task = record.task})
            IN  proposals' = Append(proposals,
                   [task |-> record.task, status |-> "PROPOSED", parts |-> << >>,
                    action |-> Proposed(Recommended(record.result, attempts),
                                        attempts, MaxRetries)])
  BY DEF Create
<1> DEFINE records == runs[r]
           record == records[FirstFailed(records)]
           attempts == Cardinality({i \in 1 .. Len(records) : records[i].task = record.task})
           action == Proposed(Recommended(record.result, attempts), attempts, MaxRetries)
<1>2. records \in Seq(Record)
  BY DEF TypeOK
<1>3. FirstFailed(records) \in 1 .. Len(records)
  <2> DEFINE failed == {i \in 1 .. Len(records) : records[i].status = "FAILED"}
  <2>1. failed # {} /\ failed \subseteq Nat
    <3>1. \E i \in 1 .. Len(records) : records[i].status = "FAILED"
      BY <1>1
    <3>2. failed \subseteq 1 .. Len(records)
      OBVIOUS
    <3> QED
      BY <1>2, <3>1, <3>2
  <2>2. \E i \in failed : \A j \in failed : i <= j
    BY <2>1, SmallestInSet
  <2> QED
    BY <2>2 DEF FirstFailed
<1>4. record.task \in Task
  <2> HIDE DEF records
  <2>1. record \in Record
    BY <1>2, <1>3
  <2> QED
    BY <2>1 DEF Record
<1>5. action \in {"RETRY", "BLOCK"}
  BY ProposedActions
<1>6. proposals' = Append(proposals, [task |-> record.task, status |-> "PROPOSED",
                                      parts |-> << >>, action |-> action])
  BY <1>1
<1> HIDE DEF record, action
<1> QED
  BY <1>4, <1>5, <1>6 DEF Proposal, Actions
-----------------------------------------------------------------------------
(* The type invariant and what goes with it. *)

Basics == TypeOK /\ CallsAreCalls /\ NeverSplit /\ RunUnderWay

(* It holds initially, and so does the rest.                                *)
LEMMA Initially == Init => IInv
<1> SUFFICES ASSUME Init PROVE IInv
  OBVIOUS
<1> USE DEF Init
<1>1. stored \in Plan /\ live \in [Task -> TaskStatus]
  BY DEF Plan, TaskStatus
<1>2. TypeOK
  <2>1. loaded \in Plan /\ runs \in Seq(Seq(Record)) /\ proposals \in Seq(Proposal)
    BY <1>1
  <2>2. iteration \in 0 .. MaxIterations /\ left \in Reach /\ approved = {}
    BY DEF Reach
  <2>3. \A u \in Users : calls[u] = IdleCall
    OBVIOUS
  <2>4. /\ mode \in Modes /\ project = "READY" /\ pc = "idle" /\ cur = NoTask
        /\ disturbed = FALSE
    OBVIOUS
  <2> QED
    BY ONLY <1>1, <2>1, <2>2, <2>3, <2>4 DEF TypeOK
<1>3. CallsAreCalls /\ NeverSplit /\ RunUnderWay /\ EvidenceFits
  BY DEF CallsAreCalls, NeverSplit, RunUnderWay, EvidenceFits, NothingSeen
<1>4. ApprovalsKept
  BY DEF ApprovalsKept, Applying, IdleCall
<1>5. BlocksKept
  BY DEF BlocksKept, OneApplies, CopiesStand, CheckedStand, StoreStands,
         StandingTasks, Applying, IdleCall
<1> QED
  BY <1>2, <1>3, <1>4, <1>5 DEF IInv

(* What the validator sees of an implementation fits what its agent left.   *)
LEMMA Answered ==
    ASSUME TypeOK, EvidenceFits, ValidatorAnswers
    PROVE  \E o \in Observation :
              LET result == ResultOf(Contracts[cur], o, mode)
                  new == StatusOf(result.verdict)
              IN  /\ new \in Settled /\ result \in Result
                  /\ o.git = "advanced" /\ evidence.read => o.changes = evidence.real
                  /\ evidence' = [task |-> cur, real |-> evidence.real,
                                  read |-> evidence.read, seen |-> o]
                  /\ evidence.real \in Reach /\ evidence.read \in BOOLEAN
                  /\ left' \in Remaining(new, left)
                  /\ Settle(new, result)
<1>1. AgentSeen /\ cur \in Task
  BY DEF ValidatorAnswers, EvidenceFits, NothingSeen, ValidatorSeen, TypeOK
<1>2. Contracts[cur] \in Contract /\ mode \in Mode
  BY <1>1 DEF TypeOK
<1>3. PICK exit \in {"passed", "empty", "failed"},
           holds \in SUBSET (Contracts[cur].checks \ {"MANUAL"}) :
         LET o == [exit |-> exit, holds |-> holds,
                   changes |-> evidence.changes, git |-> evidence.git]
             result == ResultOf(Contracts[cur], o, mode)
             new == StatusOf(result.verdict)
         IN  /\ evidence' = [task |-> cur, real |-> evidence.real,
                             read |-> evidence.read, seen |-> o]
             /\ left' \in Remaining(new, left)
             /\ Settle(new, result)
  BY DEF ValidatorAnswers
<1> DEFINE o == [exit |-> exit, holds |-> holds,
                 changes |-> evidence.changes, git |-> evidence.git]
           result == ResultOf(Contracts[cur], o, mode)
           new == StatusOf(result.verdict)
<1>4. holds \subseteq CheckKind
  BY <1>2, <1>3 DEF Contract
<1>5. evidence.changes \in Reach /\ evidence.git \in {"untracked", "same", "advanced"}
  BY <1>1 DEF AgentSeen
<1>6. o \in Observation /\ o.changes = evidence.changes /\ o.git = evidence.git
  BY <1>3, <1>4, <1>5 DEF Observation, Reach
<1>7. result \in Result /\ result.verdict \in {"PASS", "FAIL", "NEEDS_REVIEW"}
  <2> HIDE DEF o
  <2>1. Aggregated(Contracts[cur], o, mode, {}) \in {"PASS", "FAIL", "NEEDS_REVIEW"}
    BY Verdicts DEF Aggregated
  <2>2. EvaluateScope(Contracts[cur], o) \in {"WITHIN_SCOPE", "NEEDS_REVIEW", "SCOPE_VIOLATION"}
    BY <1>2, <1>6, ScopeVerdicts
  <2> QED
    BY <2>1, <2>2 DEF ResultOf, Result, AgentStatus
<1>8. new \in Settled
  <2> HIDE DEF result
  <2> QED
    BY <1>7 DEF StatusOf, Settled
<1>9. /\ evidence' = [task |-> cur, real |-> evidence.real,
                      read |-> evidence.read, seen |-> o]
      /\ left' \in Remaining(new, left)
      /\ Settle(new, result)
  BY <1>3
<1>10. /\ evidence.real \in Reach /\ evidence.read \in BOOLEAN
       /\ o.git = "advanced" /\ evidence.read => o.changes = evidence.real
  BY <1>1, <1>6 DEF AgentSeen
<1> HIDE DEF o
<1> QED
  BY <1>6, <1>7, <1>8, <1>9, <1>10

(* Every step of a run and the launch of one keep it.                       *)
LEMMA RunBasics ==
    ASSUME Basics, EvidenceFits, Launch \/ RunStep
    PROVE  Basics' /\ UNCHANGED userVars
<1> USE DEF Basics
<1>1. UNCHANGED <<mode, userVars>>
  BY DEF Launch, RunStep, Begin, AttemptFails, AgentGivesUp, AgentImplements,
         ValidatorAnswers, EndRun, Settle, userVars
<1>2. /\ CallsAreCalls' /\ NeverSplit'
      /\ UNCHANGED userVars
      /\ stored' \in Plan /\ proposals' \in Seq(Proposal)
      /\ \A u \in Users : \/ calls'[u] = IdleCall
                          \/ \E i \in 1 .. Len(proposals') : calls'[u] \in CallOf(i)
      /\ approved' \subseteq 1 .. Len(proposals') /\ disturbed' \in BOOLEAN
      /\ mode' \in Modes
  BY <1>1 DEF userVars, TypeOK, CallsAreCalls, NeverSplit
<1> DEFINE RunTypes ==
             /\ project \in {"READY", "EXECUTING", "COMPLETED", "BLOCKED"}
             /\ loaded \in Plan /\ live \in [Task -> TaskStatus]
             /\ runs \in Seq(Seq(Record))
             /\ pc \in {"idle", "top", "attempting", "validating"}
             /\ cur \in Task \cup {NoTask} /\ (cur = NoTask <=> pc \in {"idle", "top"})
             /\ iteration \in 0 .. MaxIterations
             /\ left \in Reach
             /\ RunUnderWay
<1>3. RunTypes
  BY DEF TypeOK
<1>4. RunTypes' => Basics'
  BY <1>2 DEF TypeOK
<1>5. \A a, b \in Reach : Both(a, b) \in Reach
  BY DEF Both, Reach
<1>6. \A w \in Works : w \in Reach
  BY DEF Reach
<1>7. \A new, before : before \in Reach => Remaining(new, before) \subseteq Reach
  BY DEF Remaining, Reach
<1>8. MaxIterations \in Nat \ {0}
  OBVIOUS
<1>9. CASE Launch
  <2>1. live' \in [Task -> TaskStatus]
    <3>1. stored.graph = Planned /\ stored.status \in [Task -> TaskStatus]
      BY PlanFacts DEF TypeOK
    <3>2. UpdateStates(Planned, stored.status, live')
      BY <1>9, <3>1 DEF Launch
    <3> QED
      BY <3>1, <3>2, Sweep
  <2>2. runs' \in Seq(Seq(Record)) /\ Len(runs') = Len(runs) + 1
    <3>1. runs' = Append(runs, << >>) /\ << >> \in Seq(Record)
      BY <1>9 DEF Launch
    <3> QED
      BY <1>3, <3>1, AppendProperties
  <2>3. RunTypes'
    BY <1>2, <1>3, <1>9, <2>1, <2>2 DEF Launch, TypeOK, RunUnderWay
  <2> QED
    BY <1>2, <1>4, <2>3
<1>10. CASE Begin
  <2>1. cur' \in Task /\ live' = [live EXCEPT ![cur'] = "IN_PROGRESS"]
    <3>1. loaded.graph = Planned
      BY <1>3, PlanFacts
    <3> QED
      BY <1>10, <3>1 DEF Begin, ReadyTasks, IsFirst
  <2>2. live' \in [Task -> TaskStatus]
    BY <1>3, <2>1 DEF TaskStatus
  <2>3. RunTypes'
    BY <1>3, <1>8, <1>10, <2>1, <2>2 DEF Begin, RunUnderWay
  <2> QED
    BY <1>2, <1>4, <2>3
<1>11. CASE AttemptFails
  <2>1. RunTypes'
    BY <1>3, <1>5, <1>6, <1>8, <1>11 DEF AttemptFails, RunUnderWay
  <2> QED
    BY <1>2, <1>4, <2>1
<1>12. CASE AgentGivesUp
  <2>1. PICK agent \in Endings, work \in Works :
           /\ left' \in Remaining("FAILED", Both(left, work))
           /\ Settle("FAILED", [agent |-> agent, verdict |-> "none",
                                tests |-> FALSE, scope |-> "none"])
    BY <1>12 DEF AgentGivesUp
  <2> DEFINE result == [agent |-> agent, verdict |-> "none", tests |-> FALSE, scope |-> "none"]
  <2>2. result \in Result
    BY DEF Result, AgentStatus
  <2>3. cur # NoTask
    BY <1>3, <1>12 DEF AgentGivesUp
  <2> HIDE DEF result
  <2>4. /\ live' \in [Task -> TaskStatus]
        /\ runs' \in Seq(Seq(Record)) /\ Len(runs') = Len(runs)
        /\ pc' = "top" /\ cur' = NoTask /\ iteration' = 0
    BY <2>1, <2>2, <2>3, Settles DEF Settled, result
  <2>5. left' \in Reach
    BY <1>3, <1>5, <1>6, <1>7, <2>1
  <2>6. project' = project /\ loaded' = loaded
    BY <2>1 DEF Settle
  <2>7. RunUnderWay'
    BY <1>3, <1>12, <2>4 DEF RunUnderWay, AgentGivesUp
  <2>8. RunTypes'
    BY <1>3, <1>8, <2>4, <2>5, <2>6, <2>7
  <2> QED
    BY <1>2, <1>4, <2>8
<1>13. CASE AgentImplements
  <2>1. live' \in [Task -> TaskStatus]
    BY <1>3, <1>13 DEF AgentImplements, TaskStatus
  <2>2. left' \in Reach
    BY <1>3, <1>5, <1>6, <1>13 DEF AgentImplements, Leftover, Reach
  <2>3. RunTypes'
    BY <1>3, <1>13, <2>1, <2>2 DEF AgentImplements, RunUnderWay
  <2> QED
    BY <1>2, <1>4, <2>3
<1>14. CASE ValidatorAnswers
  <2>1. PICK o \in Observation :
           LET result == ResultOf(Contracts[cur], o, mode)
               new == StatusOf(result.verdict)
           IN  /\ new \in Settled /\ result \in Result
               /\ left' \in Remaining(new, left)
               /\ Settle(new, result)
    BY <1>14, Answered
  <2> DEFINE result == ResultOf(Contracts[cur], o, mode)
             new == StatusOf(result.verdict)
  <2>2. /\ new \in Settled /\ result \in Result
        /\ left' \in Remaining(new, left)
        /\ Settle(new, result)
    BY <2>1
  <2>3. cur # NoTask
    BY <1>3, <1>14 DEF ValidatorAnswers
  <2> HIDE DEF result, new
  <2>4. /\ live' \in [Task -> TaskStatus]
        /\ runs' \in Seq(Seq(Record)) /\ Len(runs') = Len(runs)
        /\ pc' = "top" /\ cur' = NoTask /\ iteration' = 0
    BY <2>2, <2>3, Settles
  <2>5. left' \in Reach
    BY <1>3, <1>7, <2>2
  <2>6. project' = project /\ loaded' = loaded
    BY <2>2 DEF Settle
  <2>7. RunUnderWay'
    BY <1>3, <1>14, <2>4 DEF RunUnderWay, ValidatorAnswers
  <2>8. RunTypes'
    BY <1>3, <1>8, <2>4, <2>5, <2>6, <2>7
  <2> QED
    BY <1>2, <1>4, <2>8
<1>15. CASE EndRun
  <2>1. RunTypes'
    BY <1>3, <1>15 DEF EndRun, RunUnderWay
  <2> QED
    BY <1>2, <1>4, <2>1
<1> QED
  BY <1>9, <1>10, <1>11, <1>12, <1>13, <1>14, <1>15 DEF RunStep

(* What was seen of the task at hand fits, too.                             *)
LEMMA RunEvidence ==
    ASSUME Basics, EvidenceFits, Launch \/ RunStep
    PROVE  EvidenceFits'
<1> USE DEF Basics
<1>1. CASE Launch
  <2>1. NothingSeen
    BY <1>1 DEF Launch, EvidenceFits, AgentSeen, ValidatorSeen
  <2> QED
    BY <1>1, <2>1 DEF Launch, EvidenceFits, NothingSeen, NoEvidence
<1>2. CASE Begin
  BY <1>2 DEF Begin, EvidenceFits, NothingSeen, NoEvidence
<1>3. CASE AttemptFails
  <2>1. NothingSeen
    BY <1>3 DEF AttemptFails, EvidenceFits, AgentSeen, ValidatorSeen
  <2> QED
    BY <1>3, <2>1 DEF AttemptFails, EvidenceFits, NothingSeen, NoEvidence
<1>4. CASE AgentGivesUp
  <2>1. NothingSeen
    BY <1>4 DEF AgentGivesUp, EvidenceFits, AgentSeen, ValidatorSeen
  <2>2. pc' = "top" /\ evidence' = evidence
    BY <1>4 DEF AgentGivesUp, Settle
  <2> QED
    BY <2>1, <2>2 DEF EvidenceFits, NothingSeen, NoEvidence
<1>5. CASE AgentImplements
  <2> DEFINE changes(work, git, read) ==
                IF git = "untracked" /\ read THEN left' ELSE Reported(left, work, git, read)
  <2>1. PICK work \in Works, git \in CommitOutcomes, read \in BOOLEAN :
           /\ left' \in Leftover(git, work)
           /\ evidence' = [task |-> cur, real |-> Both(left, work), git |-> git,
                           read |-> read, changes |-> changes(work, git, read)]
    BY <1>5 DEF AgentImplements
  <2>2. Both(left, work) \in Reach /\ Reported(left, work, git, read) \in Reach
    BY DEF Both, Reported, Reach
  <2>3. changes(work, git, read) \in Reach
    BY <2>1, <2>2 DEF Leftover, Reach
  <2>4. git = "advanced" /\ read => changes(work, git, read) = Both(left, work)
    BY DEF Reported
  <2>5. pc' = "validating" /\ cur' = cur
    BY <1>5 DEF AgentImplements
  <2>6. AgentSeen'
    <3> HIDE DEF changes
    <3> QED
      BY <2>1, <2>2, <2>3, <2>4, <2>5 DEF AgentSeen, Reach
  <2> QED
    BY <2>6 DEF EvidenceFits
<1>6. CASE ValidatorAnswers
  <2>1. PICK o \in Observation :
           LET result == ResultOf(Contracts[cur], o, mode)
               new == StatusOf(result.verdict)
           IN  /\ new \in Settled /\ result \in Result
               /\ o.git = "advanced" /\ evidence.read => o.changes = evidence.real
               /\ evidence' = [task |-> cur, real |-> evidence.real,
                               read |-> evidence.read, seen |-> o]
               /\ evidence.real \in Reach /\ evidence.read \in BOOLEAN
               /\ Settle(new, result)
    BY <1>6, Answered
  <2> DEFINE result == ResultOf(Contracts[cur], o, mode)
             new == StatusOf(result.verdict)
  <2>2. cur \in Task /\ cur # NoTask
    BY <1>6 DEF ValidatorAnswers, TypeOK
  <2>3. new = StatusOf(Aggregated(Contracts[cur], o, mode, {}))
    BY DEF ResultOf
  <2>4. /\ new \in Settled /\ result \in Result
        /\ Settle(new, result)
    BY <2>1
  <2> HIDE DEF result, new
  <2>5. live'[cur] = new /\ pc' = "top" /\ mode' = mode
    BY <2>2, <2>4, Settles DEF Settle
  <2>6. /\ evidence' = [task |-> cur, real |-> evidence.real,
                        read |-> evidence.read, seen |-> o]
        /\ evidence.real \in Reach /\ evidence.read \in BOOLEAN
        /\ o.git = "advanced" /\ evidence.read => o.changes = evidence.real
    BY <2>1
  <2>7. ValidatorSeen'
    BY <2>2, <2>3, <2>5, <2>6 DEF ValidatorSeen, Reach
  <2> QED
    BY <2>7 DEF EvidenceFits
<1>7. CASE EndRun
  BY <1>7 DEF EndRun, EvidenceFits, NothingSeen, NoEvidence
<1> QED
  BY <1>1, <1>2, <1>3, <1>4, <1>5, <1>6, <1>7 DEF RunStep

-----------------------------------------------------------------------------
(* Steps that leave the run alone. *)

(* They keep the invariant when they keep what it says of users.            *)
LEMMA UsersOnly ==
    ASSUME IInv, UNCHANGED <<mode, runVars>>,
           stored' \in Plan, proposals' \in Seq(Proposal),
           \A u \in Users : \/ calls'[u] = IdleCall
                            \/ \E i \in 1 .. Len(proposals') : calls'[u] \in CallOf(i),
           approved' \subseteq 1 .. Len(proposals'), disturbed' \in BOOLEAN,
           CallsAreCalls', NeverSplit', ApprovalsKept', BlocksKept'
    PROVE  IInv'
<1>1. TypeOK'
  BY DEF IInv, TypeOK, runVars
<1>2. RunUnderWay'
  BY DEF IInv, RunUnderWay, runVars
<1>3. EvidenceFits'
  BY DEF IInv, EvidenceFits, NothingSeen, AgentSeen, ValidatorSeen, runVars
<1> QED
  BY <1>1, <1>2, <1>3 DEF IInv

(* Neither a launch nor a step of a run touches what users share.           *)
LEMMA RunKeeps ==
    ASSUME IInv, Launch \/ RunStep
    PROVE  IInv'
<1>1. Basics' /\ UNCHANGED userVars
  BY RunBasics DEF IInv, Basics
<1>2. EvidenceFits'
  BY RunEvidence DEF IInv, Basics
<1>3. ApprovalsKept'
  BY <1>1 DEF IInv, ApprovalsKept, ApprovedTasks, userVars
<1>4. BlocksKept'
  BY <1>1 DEF IInv, BlocksKept, OneApplies, CopiesStand, CheckedStand, StoreStands,
             StandingTasks, userVars
<1> QED
  BY <1>1, <1>2, <1>3, <1>4 DEF IInv, Basics

(* A new proposal was neither approved nor applied.                         *)
LEMMA CreateKeeps ==
    ASSUME IInv, Create
    PROVE  IInv'
<1> USE DEF IInv
<1>1. PICK p \in Proposal : /\ p.status = "PROPOSED" /\ p.action \in {"RETRY", "BLOCK"}
                            /\ proposals' = Append(proposals, p)
  BY Created
<1>2. UNCHANGED <<mode, runVars, stored, calls, approved, disturbed>>
  BY DEF Create
<1>3. /\ proposals' \in Seq(Proposal) /\ Len(proposals') = Len(proposals) + 1
      /\ \A i \in 1 .. Len(proposals) : proposals'[i] = proposals[i]
      /\ proposals'[Len(proposals) + 1] = p
  BY <1>1, AppendProperties DEF TypeOK
<1>4. Len(proposals) \in Nat
  BY DEF TypeOK
<1>5. 1 .. Len(proposals') = 1 .. Len(proposals) \cup {Len(proposals) + 1}
  BY <1>3, <1>4
<1>6. \A u \in Users : \/ calls'[u] = IdleCall
                       \/ \E i \in 1 .. Len(proposals') : calls'[u] \in CallOf(i)
  BY <1>2, <1>5 DEF TypeOK
<1>7. CallsAreCalls' /\ NeverSplit'
  BY <1>1, <1>2, <1>3, <1>5 DEF CallsAreCalls, NeverSplit
<1>8. approved \subseteq 1 .. Len(proposals)
  BY DEF TypeOK
<1>9. ApprovedTasks \subseteq ApprovedTasks' /\ StandingTasks' \subseteq StandingTasks
  BY <1>1, <1>2, <1>3, <1>5, <1>8 DEF ApprovedTasks, StandingTasks
<1>10. ApprovalsKept'
  BY <1>1, <1>2, <1>3, <1>5, <1>9 DEF ApprovalsKept
<1>11. BlocksKept'
  <2> SUFFICES ASSUME ~disturbed'
               PROVE  OneApplies' /\ CopiesStand' /\ CheckedStand' /\ StoreStands'
    BY DEF BlocksKept
  <2>1. OneApplies /\ CopiesStand /\ CheckedStand /\ StoreStands
    BY <1>2 DEF BlocksKept
  <2>2. OneApplies'
    BY <1>2, <1>3, <1>9, <2>1 DEF OneApplies, Applying
  <2>3. CopiesStand'
    BY <1>2, <1>3, <1>9, <2>1 DEF CopiesStand, Applying
  <2>4. CheckedStand'
    BY <1>2, <1>3, <1>9, CallFacts, <2>1 DEF CheckedStand
  <2>5. StoreStands'
    BY <1>2, <1>3, <1>9, <2>1 DEF StoreStands
  <2> QED
    BY <2>2, <2>3, <2>4, <2>5
<1> QED
  BY <1>2, <1>3, <1>5, <1>6, <1>7, <1>8, <1>10, <1>11, UsersOnly DEF TypeOK

(* A call that ends and changes nothing.                                    *)
LEMMA CallEnds ==
    ASSUME IInv, NEW u \in Users, calls' = [calls EXCEPT ![u] = IdleCall],
           UNCHANGED <<mode, runVars, stored, proposals, approved>>,
           disturbed' \in BOOLEAN, ~disturbed' => ~disturbed /\ calls[u].at # "applied"
    PROVE  IInv'
<1> USE DEF IInv
<1>1. /\ CallsAreCalls' /\ calls'[u] = IdleCall
      /\ \A w \in Users \ {u} : calls'[w] = calls[w]
  BY OneCall
<1>2. \A w \in Users : \/ calls'[w] = IdleCall
                       \/ \E j \in 1 .. Len(proposals') : calls'[w] \in CallOf(j)
  BY <1>1 DEF TypeOK
<1>3. ApprovedTasks' = ApprovedTasks /\ StandingTasks' = StandingTasks
  BY DEF ApprovedTasks, StandingTasks
<1>4. ApprovalsKept'
  BY <1>1, <1>3 DEF ApprovalsKept, Applying, IdleCall
<1>5. BlocksKept'
  <2> SUFFICES ASSUME ~disturbed'
               PROVE  OneApplies' /\ CopiesStand' /\ CheckedStand' /\ StoreStands'
    BY DEF BlocksKept
  <2>1. OneApplies /\ CopiesStand /\ CheckedStand /\ StoreStands
    BY DEF BlocksKept
  <2>2. OneApplies'
    BY <1>1, <1>3, <2>1 DEF OneApplies, Applying, IdleCall
  <2>3. CopiesStand'
    BY <1>1, <1>3, <2>1 DEF CopiesStand, Applying, IdleCall
  <2>4. CheckedStand'
    BY <1>1, <1>3, <2>1 DEF CheckedStand, IdleCall
  <2>5. StoreStands'
    BY <1>1, <1>3, <2>1 DEF StoreStands, IdleCall
  <2> QED
    BY <2>2, <2>3, <2>4, <2>5
<1> QED
  BY <1>1, <1>2, <1>4, <1>5, UsersOnly DEF TypeOK, NeverSplit

(* Approving and rejecting: the call.                                       *)
LEMMA DecideLoadKeeps ==
    ASSUME IInv, NEW u \in Users, DecideLoad(u)
    PROVE  IInv'
<1> USE DEF IInv
<1>1. UNCHANGED <<mode, runVars, stored, proposals, approved, disturbed>>
  BY DEF DecideLoad
<1>2. PICK i \in 1 .. Len(proposals), verdict \in {"APPROVED", "REJECTED"} :
         calls' = [calls EXCEPT ![u] =
                      [at |-> "decided", proposal |-> i, verdict |-> verdict]]
  BY DEF DecideLoad
<1> DEFINE c == [at |-> "decided", proposal |-> i, verdict |-> verdict]
<1>3. c \in CallOf(i) /\ c.at = "decided"
  BY DEF CallOf
<1>4. calls' = [calls EXCEPT ![u] = c]
  BY <1>2
<1> HIDE DEF c
<1>5. CallsAreCalls' /\ calls'[u] = c /\ \A w \in Users \ {u} : calls'[w] = calls[w]
  BY <1>4, OneCall
<1>6. \A w \in Users : \/ calls'[w] = IdleCall
                       \/ \E j \in 1 .. Len(proposals') : calls'[w] \in CallOf(j)
  BY <1>1, <1>3, <1>5 DEF TypeOK
<1>7. ApprovedTasks' = ApprovedTasks /\ StandingTasks' = StandingTasks
  BY <1>1 DEF ApprovedTasks, StandingTasks
<1>8. ApprovalsKept'
  BY <1>1, <1>3, <1>5, <1>7 DEF ApprovalsKept, Applying
<1>9. calls[u].at = "idle"
  BY DEF DecideLoad, IdleCall
<1>10. BlocksKept'
  <2> SUFFICES ASSUME ~disturbed'
               PROVE  OneApplies' /\ CopiesStand' /\ CheckedStand' /\ StoreStands'
    BY DEF BlocksKept
  <2>1. OneApplies /\ CopiesStand /\ CheckedStand /\ StoreStands
    BY <1>1 DEF BlocksKept
  <2>2. OneApplies'
    BY <1>1, <1>3, <1>5, <1>7, <1>9, <2>1 DEF OneApplies, Applying
  <2>3. CopiesStand'
    BY <1>1, <1>3, <1>5, <1>7, <1>9, <2>1 DEF CopiesStand, Applying
  <2>4. CheckedStand'
    BY <1>1, <1>3, <1>5, <1>7, <1>9, <2>1 DEF CheckedStand
  <2>5. StoreStands'
    BY <1>1, <1>3, <1>5, <1>7, <1>9, <2>1 DEF StoreStands
  <2> QED
    BY <2>2, <2>3, <2>4, <2>5
<1> QED
  BY <1>1, <1>5, <1>6, <1>8, <1>10, UsersOnly DEF TypeOK, NeverSplit

(* ... and the save.                                                        *)
LEMMA DecideSaveKeeps ==
    ASSUME IInv, NEW u \in Users, DecideSave(u)
    PROVE  IInv'
<1> USE DEF IInv
<1> DEFINE i == calls[u].proposal
           s == calls[u].verdict
<1>1. UNCHANGED <<mode, runVars, stored, disturbed>>
  BY DEF DecideSave
<1>2. calls[u].at = "decided"
  BY DEF DecideSave
<1>3. i \in 1 .. Len(proposals) /\ s \in {"APPROVED", "REJECTED"}
  BY <1>2, CallFacts
<1>4. /\ proposals' = [proposals EXCEPT ![i].status = s]
      /\ approved' = IF s = "APPROVED" THEN approved \cup {i} ELSE approved
  BY DEF DecideSave
<1>5. /\ CallsAreCalls' /\ calls'[u] = IdleCall
      /\ \A w \in Users \ {u} : calls'[w] = calls[w]
  BY OneCall DEF DecideSave
<1> HIDE DEF i, s
<1>6. /\ proposals' \in Seq(Proposal) /\ Len(proposals') = Len(proposals)
      /\ \A j \in 1 .. Len(proposals) :
            /\ proposals'[j].task = proposals[j].task
            /\ proposals'[j].action = proposals[j].action
            /\ proposals'[j].status = IF j = i THEN s ELSE proposals[j].status
  <2>1. s \in {"PROPOSED", "APPROVED", "REJECTED", "APPLIED"}
    BY <1>3
  <2>2. TypeOK
    OBVIOUS
  <2> QED
    BY ONLY <1>3, <1>4, <2>1, <2>2, Saved
<1>7. /\ approved \subseteq 1 .. Len(proposals)
      /\ approved \subseteq approved' /\ approved' \subseteq 1 .. Len(proposals)
      /\ s = "APPROVED" => i \in approved'
  BY <1>3, <1>4 DEF TypeOK
<1>8. \A w \in Users : \/ calls'[w] = IdleCall
                       \/ \E j \in 1 .. Len(proposals') : calls'[w] \in CallOf(j)
  BY <1>5, <1>6 DEF TypeOK
<1>9. NeverSplit'
  BY <1>6 DEF NeverSplit
<1>10. ApprovedTasks \subseteq ApprovedTasks'
  BY <1>6, <1>7 DEF ApprovedTasks
<1>11. StandingTasks' \subseteq StandingTasks
  BY <1>3, <1>6 DEF StandingTasks
<1>12. ApprovalsKept'
  <2>1. \A j \in 1 .. Len(proposals') : proposals'[j].status = "APPROVED" => j \in approved'
    BY <1>3, <1>6, <1>7 DEF ApprovalsKept
  <2>2. \A t \in Task : stored'.status[t] = "BLOCKED" => t \in ApprovedTasks'
    BY <1>1, <1>10 DEF ApprovalsKept
  <2>3. \A w \in Users : Applying(calls'[w]) =>
           \A t \in Task : calls'[w].graph.status[t] = "BLOCKED" => t \in ApprovedTasks'
    BY <1>5, <1>10 DEF ApprovalsKept, Applying, IdleCall
  <2> QED
    BY <2>1, <2>2, <2>3 DEF ApprovalsKept
<1>13. BlocksKept'
  <2> SUFFICES ASSUME ~disturbed'
               PROVE  OneApplies' /\ CopiesStand' /\ CheckedStand' /\ StoreStands'
    BY DEF BlocksKept
  <2>1. OneApplies /\ CopiesStand /\ CheckedStand /\ StoreStands
    BY <1>1 DEF BlocksKept
  <2>2. OneApplies'
    BY <1>1, <1>2, <1>5, <1>6, <1>11, <2>1 DEF OneApplies, Applying, IdleCall
  <2>3. CopiesStand'
    BY <1>1, <1>2, <1>5, <1>6, <1>11, <2>1 DEF CopiesStand, Applying, IdleCall
  <2>4. CheckedStand'
    BY <1>1, <1>2, <1>5, <1>6, <1>11, CallFacts, <2>1 DEF CheckedStand, IdleCall
  <2>5. StoreStands'
    BY <1>1, <1>2, <1>5, <1>6, <1>11, <2>1 DEF StoreStands, IdleCall
  <2> QED
    BY <2>2, <2>3, <2>4, <2>5
<1> QED
  BY <1>1, <1>5, <1>6, <1>7, <1>8, <1>9, <1>12, <1>13, UsersOnly DEF TypeOK

(* Applying: the graph is copied, ...                                       *)
LEMMA ApplyLoadKeeps ==
    ASSUME IInv, NEW u \in Users, ApplyLoad(u)
    PROVE  IInv'
<1> USE DEF IInv
<1>1. UNCHANGED <<mode, runVars, stored, proposals, approved>>
  BY DEF ApplyLoad
<1>2. PICK i \in 1 .. Len(proposals) :
         calls' = [calls EXCEPT ![u] =
                      [at |-> "loaded", proposal |-> i, graph |-> stored]]
  BY DEF ApplyLoad
<1> DEFINE c == [at |-> "loaded", proposal |-> i, graph |-> stored]
<1>3. c \in CallOf(i) /\ c.at = "loaded" /\ c.graph = stored
  BY DEF CallOf, TypeOK
<1>4. calls' = [calls EXCEPT ![u] = c]
  BY <1>2
<1> HIDE DEF c
<1>5. CallsAreCalls' /\ calls'[u] = c /\ \A w \in Users \ {u} : calls'[w] = calls[w]
  BY <1>4, OneCall
<1>6. \A w \in Users : \/ calls'[w] = IdleCall
                       \/ \E j \in 1 .. Len(proposals') : calls'[w] \in CallOf(j)
  BY <1>1, <1>3, <1>5 DEF TypeOK
<1>7. ApprovedTasks' = ApprovedTasks /\ StandingTasks' = StandingTasks
  BY <1>1 DEF ApprovedTasks, StandingTasks
<1>8. ApprovalsKept'
  BY <1>1, <1>3, <1>5, <1>7 DEF ApprovalsKept, Applying
<1>9. /\ disturbed' \in BOOLEAN
      /\ ~disturbed' => ~disturbed /\ \A w \in Users : ~Applying(calls[w])
  BY DEF ApplyLoad, TypeOK
<1>10. BlocksKept'
  <2> SUFFICES ASSUME ~disturbed'
               PROVE  OneApplies' /\ CopiesStand' /\ CheckedStand' /\ StoreStands'
    BY DEF BlocksKept
  <2>1. OneApplies /\ CopiesStand /\ CheckedStand /\ StoreStands
    BY <1>9 DEF BlocksKept
  <2>2. OneApplies'
    BY <1>1, <1>3, <1>5, <1>7, <1>9, <2>1 DEF OneApplies, Applying
  <2>3. CopiesStand'
    BY <1>1, <1>3, <1>5, <1>7, <1>9, <2>1 DEF CopiesStand, StoreStands, Applying
  <2>4. CheckedStand'
    BY <1>1, <1>3, <1>5, <1>7, <1>9, <2>1 DEF CheckedStand
  <2>5. StoreStands'
    BY <1>1, <1>3, <1>5, <1>7, <1>9, <2>1 DEF StoreStands, Applying
  <2> QED
    BY <2>2, <2>3, <2>4, <2>5
<1> QED
  BY <1>1, <1>5, <1>6, <1>8, <1>9, <1>10, UsersOnly DEF TypeOK, NeverSplit

(* ... changed as the proposal says, ...                                    *)
LEMMA ApplyCheckKeeps ==
    ASSUME IInv, NEW u \in Users, ApplyCheck(u)
    PROVE  IInv'
<1> USE DEF IInv
<1> DEFINE i == calls[u].proposal
           p == proposals[i]
           st == calls[u].graph.status
           result == Applied([p EXCEPT !.status = "APPROVED"], calls[u].graph.graph, st)
           c == IF ReadyToApply(p) /\ result.ok
                THEN [at |-> "checked", proposal |-> i,
                      graph |-> [graph |-> result.graph, status |-> result.status]]
                ELSE IdleCall
<1>1. UNCHANGED <<mode, runVars, stored, proposals, approved, disturbed>>
  BY DEF ApplyCheck
<1>2. calls[u].at = "loaded" /\ calls' = [calls EXCEPT ![u] = c]
  BY DEF ApplyCheck
<1>3. i \in 1 .. Len(proposals) /\ Applying(calls[u]) /\ calls[u].graph \in Plan
  BY <1>2, CallFacts DEF Applying
<1>4. /\ p \in Proposal /\ p.action \in {"RETRY", "BLOCK"}
      /\ p.status = "APPROVED" => i \in approved
  BY <1>3 DEF TypeOK, NeverSplit, ApprovalsKept
<1>5. calls[u].graph.graph = Planned /\ st \in [Task -> TaskStatus]
  BY <1>3, PlanFacts
<1> HIDE DEF i
<1>6. CASE p.status = "APPROVED" /\ result.ok
  <2> DEFINE new == Applied([p EXCEPT !.status = "APPROVED"], Planned, st).status
  <2>1. /\ c = [at |-> "checked", proposal |-> i,
                graph |-> [graph |-> result.graph, status |-> result.status]]
        /\ result = Applied([p EXCEPT !.status = "APPROVED"], Planned, st)
    BY <1>5, <1>6
  <2>2. [p EXCEPT !.status = "APPROVED"] = p
    BY <1>4, <1>6 DEF Proposal
  <2>3. /\ Applied(p, Planned, st).graph = Planned
        /\ new \in [Task -> TaskStatus]
        /\ \A t \in Task : new[t] = "BLOCKED" =>
              st[t] = "BLOCKED" \/ (t = p.task /\ p.action = "BLOCK")
        /\ \A t \in Task : st[t] = "BLOCKED" => new[t] = "BLOCKED"
        /\ p.action = "BLOCK" => new[p.task] = "BLOCKED"
    <3> HIDE DEF p, st
    <3>1. Applied(p, Planned, st).ok
      BY <1>6, <2>1, <2>2
    <3> QED
      BY <1>4, <1>5, <2>2, <3>1, AppliedEffect
  <2>4. c = [at |-> "checked", proposal |-> i, graph |-> [graph |-> Planned, status |-> new]]
    BY <2>1, <2>2, <2>3
  <2>5. c \in CallOf(i) /\ c.at = "checked" /\ c.proposal = i /\ c.graph.status = new
    <3> HIDE DEF new, c
    <3> QED
      BY <2>3, <2>4 DEF CallOf, Plan
  <2> HIDE DEF c, new, p, st, result
  <2>6. CallsAreCalls' /\ calls'[u] = c /\ \A w \in Users \ {u} : calls'[w] = calls[w]
    BY <1>2, OneCall
  <2>7. \A w \in Users : \/ calls'[w] = IdleCall
                         \/ \E j \in 1 .. Len(proposals') : calls'[w] \in CallOf(j)
    BY <1>1, <1>3, <2>5, <2>6 DEF TypeOK
  <2>8. ApprovedTasks' = ApprovedTasks /\ StandingTasks' = StandingTasks
    BY <1>1 DEF ApprovedTasks, StandingTasks
  <2>9. StandingTasks \subseteq Task
    BY DEF StandingTasks
  <2>10. p.task \in Task /\ (p.action = "BLOCK" => p.task \in ApprovedTasks)
    BY <1>4, <1>6 DEF ApprovedTasks, Proposal, p
  <2>11. \A t \in Task : new[t] = "BLOCKED" => t \in ApprovedTasks
    BY <1>3, <2>3, <2>10 DEF ApprovalsKept, st
  <2>12. ApprovalsKept'
    BY <1>1, <2>5, <2>6, <2>8, <2>11 DEF ApprovalsKept, Applying
  <2>13. ~disturbed => \A t \in StandingTasks : new[t] = "BLOCKED"
    BY <1>3, <2>3, <2>9 DEF BlocksKept, CopiesStand, st
  <2>14. BlocksKept'
    <3> SUFFICES ASSUME ~disturbed'
                 PROVE  OneApplies' /\ CopiesStand' /\ CheckedStand' /\ StoreStands'
      BY DEF BlocksKept
    <3>1. OneApplies /\ CopiesStand /\ CheckedStand /\ StoreStands
      BY <1>1 DEF BlocksKept
    <3>2. OneApplies'
      BY <1>2, <1>3, <2>5, <2>6, <3>1 DEF OneApplies, Applying
    <3>3. CopiesStand'
      BY <1>1, <2>5, <2>6, <2>8, <2>13, <3>1 DEF CopiesStand, Applying
    <3>4. CheckedStand'
      BY <1>1, <2>3, <2>5, <2>6, <3>1 DEF CheckedStand, p
    <3>5. StoreStands'
      BY <1>1, <1>2, <2>5, <2>6, <2>8, <3>1 DEF StoreStands
    <3> QED
      BY <3>2, <3>3, <3>4, <3>5
  <2> QED
    BY <1>1, <2>6, <2>7, <2>12, <2>14, UsersOnly DEF TypeOK, NeverSplit
<1>7. CASE ~(p.status = "APPROVED" /\ result.ok)
  <2>1. calls' = [calls EXCEPT ![u] = IdleCall]
    BY <1>2, <1>7
  <2>2. disturbed' \in BOOLEAN /\ (~disturbed' => ~disturbed /\ calls[u].at # "applied")
    BY <1>1, <1>2 DEF TypeOK
  <2> QED
    BY <1>1, <2>1, <2>2, CallEnds
<1> QED
  BY <1>6, <1>7

(* ... the proposal saved, ...                                              *)
LEMMA ApplySaveKeeps ==
    ASSUME IInv, NEW u \in Users, ApplySave(u)
    PROVE  IInv'
<1> USE DEF IInv
<1> DEFINE i == calls[u].proposal
           c == [calls[u] EXCEPT !.at = "applied"]
<1>1. UNCHANGED <<mode, runVars, stored, approved, disturbed>>
  BY DEF ApplySave
<1>2. calls[u].at = "checked"
  BY DEF ApplySave
<1>3. /\ i \in 1 .. Len(proposals) /\ Applying(calls[u])
      /\ calls[u] \in CallOf(i) /\ calls[u].graph \in Plan
  BY <1>2, CallFacts DEF Applying
<1>4. /\ proposals' = [proposals EXCEPT ![i].status = "APPLIED"]
      /\ calls' = [calls EXCEPT ![u] = c]
  BY DEF ApplySave
<1>5. c \in CallOf(i) /\ c.at = "applied" /\ c.graph = calls[u].graph /\ c.proposal = i
  BY <1>2, <1>3 DEF CallOf
<1> HIDE DEF c
<1>6. CallsAreCalls' /\ calls'[u] = c /\ \A w \in Users \ {u} : calls'[w] = calls[w]
  BY <1>4, OneCall
<1> HIDE DEF i
<1>7. /\ proposals' \in Seq(Proposal) /\ Len(proposals') = Len(proposals)
      /\ \A j \in 1 .. Len(proposals) :
            /\ proposals'[j].task = proposals[j].task
            /\ proposals'[j].action = proposals[j].action
            /\ proposals'[j].status = IF j = i THEN "APPLIED" ELSE proposals[j].status
  <2>1. TypeOK
    OBVIOUS
  <2> QED
    BY ONLY <1>3, <1>4, <2>1, Saved
<1>8. \A w \in Users : \/ calls'[w] = IdleCall
                       \/ \E j \in 1 .. Len(proposals') : calls'[w] \in CallOf(j)
  BY <1>3, <1>5, <1>6, <1>7 DEF TypeOK
<1>9. NeverSplit'
  BY <1>7 DEF NeverSplit
<1>10. approved \subseteq 1 .. Len(proposals)
  BY DEF TypeOK
<1>11. ApprovedTasks \subseteq ApprovedTasks'
  BY <1>1, <1>7, <1>10 DEF ApprovedTasks
<1>12. \A t \in StandingTasks' : t \in StandingTasks \/ (t = proposals[i].task /\ proposals[i].action = "BLOCK")
  BY <1>3, <1>7 DEF StandingTasks
<1>13. ApprovalsKept'
  <2>1. \A j \in 1 .. Len(proposals') : proposals'[j].status = "APPROVED" => j \in approved'
    BY <1>1, <1>3, <1>7 DEF ApprovalsKept
  <2>2. \A t \in Task : stored'.status[t] = "BLOCKED" => t \in ApprovedTasks'
    BY <1>1, <1>11 DEF ApprovalsKept
  <2>3. \A w \in Users : Applying(calls'[w]) =>
           \A t \in Task : calls'[w].graph.status[t] = "BLOCKED" => t \in ApprovedTasks'
    BY <1>3, <1>5, <1>6, <1>11 DEF ApprovalsKept, Applying
  <2> QED
    BY <2>1, <2>2, <2>3 DEF ApprovalsKept
<1>14. BlocksKept'
  <2> SUFFICES ASSUME ~disturbed'
               PROVE  OneApplies' /\ CopiesStand' /\ CheckedStand' /\ StoreStands'
    BY DEF BlocksKept
  <2>1. OneApplies /\ CopiesStand /\ CheckedStand /\ StoreStands
    BY <1>1 DEF BlocksKept
  <2>2. OneApplies'
    BY <1>3, <1>5, <1>6, <2>1 DEF OneApplies, Applying
  <2>3. \A t \in StandingTasks' : c.graph.status[t] = "BLOCKED"
    BY <1>2, <1>3, <1>5, <1>12, <2>1 DEF CopiesStand, CheckedStand, i
  <2>4. \A w \in Users \ {u} : ~Applying(calls'[w])
    BY <1>3, <1>6, <2>1 DEF OneApplies
  <2>5. CopiesStand'
    BY <1>6, <2>3, <2>4 DEF CopiesStand
  <2>6. CheckedStand'
    BY <1>5, <1>6, <2>4 DEF CheckedStand, Applying
  <2>7. StoreStands'
    BY <1>5, <1>6 DEF StoreStands
  <2> QED
    BY <2>2, <2>5, <2>6, <2>7
<1> QED
  BY <1>1, <1>6, <1>7, <1>8, <1>9, <1>10, <1>13, <1>14, UsersOnly DEF TypeOK

(* ... and the graph persisted.                                             *)
LEMMA ApplyPersistKeeps ==
    ASSUME IInv, NEW u \in Users, ApplyPersist(u)
    PROVE  IInv'
<1> USE DEF IInv
<1>1. UNCHANGED <<mode, runVars, proposals, approved, disturbed>>
  BY DEF ApplyPersist
<1>2. calls[u].at = "applied" /\ stored' = calls[u].graph
  BY DEF ApplyPersist
<1>3. Applying(calls[u]) /\ calls[u].graph \in Plan
  BY <1>2, CallFacts DEF Applying
<1>4. /\ CallsAreCalls' /\ calls'[u] = IdleCall
      /\ \A w \in Users \ {u} : calls'[w] = calls[w]
  BY OneCall DEF ApplyPersist
<1>5. \A w \in Users : \/ calls'[w] = IdleCall
                       \/ \E j \in 1 .. Len(proposals') : calls'[w] \in CallOf(j)
  BY <1>1, <1>4 DEF TypeOK
<1>6. ApprovedTasks' = ApprovedTasks /\ StandingTasks' = StandingTasks
  BY <1>1 DEF ApprovedTasks, StandingTasks
<1>7. ApprovalsKept'
  BY <1>1, <1>2, <1>3, <1>4, <1>6 DEF ApprovalsKept, Applying, IdleCall
<1>8. BlocksKept'
  <2> SUFFICES ASSUME ~disturbed'
               PROVE  OneApplies' /\ CopiesStand' /\ CheckedStand' /\ StoreStands'
    BY DEF BlocksKept
  <2>1. OneApplies /\ CopiesStand /\ CheckedStand /\ StoreStands
    BY <1>1 DEF BlocksKept
  <2>2. OneApplies'
    BY <1>4, <2>1 DEF OneApplies, Applying, IdleCall
  <2>3. CopiesStand'
    BY <1>4, <1>6, <2>1 DEF CopiesStand, Applying, IdleCall
  <2>4. CheckedStand'
    BY <1>1, <1>4, <2>1 DEF CheckedStand, IdleCall
  <2>5. StoreStands'
    BY <1>2, <1>3, <1>6, <2>1 DEF StoreStands, CopiesStand
  <2> QED
    BY <2>2, <2>3, <2>4, <2>5
<1> QED
  BY <1>1, <1>2, <1>3, <1>4, <1>5, <1>7, <1>8, UsersOnly DEF TypeOK, NeverSplit

-----------------------------------------------------------------------------
(* The theorems. *)

(* No step leaves the invariant.                                            *)
LEMMA Inductive == IInv /\ [Next]_vars => IInv'
<1> SUFFICES ASSUME IInv, [Next]_vars PROVE IInv'
  OBVIOUS
<1>1. CASE Launch \/ RunStep
  BY <1>1, RunKeeps
<1>2. CASE Create
  BY <1>2, CreateKeeps
<1>3. ASSUME NEW u \in Users, Vanish(u)
      PROVE  IInv'
  <2>1. /\ calls' = [calls EXCEPT ![u] = IdleCall]
        /\ UNCHANGED <<mode, runVars, stored, proposals, approved>>
        /\ disturbed' = (disturbed \/ calls[u].at = "applied")
    BY <1>3 DEF Vanish
  <2>2. disturbed' \in BOOLEAN /\ (~disturbed' => ~disturbed /\ calls[u].at # "applied")
    BY <2>1
  <2> QED
    BY <2>1, <2>2, CallEnds
<1>4. ASSUME NEW u \in Users,
             \/ DecideLoad(u) \/ DecideSave(u) \/ ApplyLoad(u) \/ ApplyCheck(u)
             \/ ApplySave(u) \/ ApplyPersist(u)
      PROVE  IInv'
  BY <1>4, DecideLoadKeeps, DecideSaveKeeps, ApplyLoadKeeps, ApplyCheckKeeps,
     ApplySaveKeeps, ApplyPersistKeeps
<1>5. CASE UNCHANGED vars
  <2>1. UNCHANGED <<mode, runVars>> /\ UNCHANGED userVars
    BY <1>5 DEF vars
  <2>2. ApprovalsKept'
    BY <2>1 DEF IInv, ApprovalsKept, ApprovedTasks, userVars
  <2>3. BlocksKept'
    BY <2>1 DEF IInv, BlocksKept, OneApplies, CopiesStand, CheckedStand, StoreStands,
                StandingTasks, userVars
  <2>4. UNCHANGED <<stored, proposals, calls, approved, disturbed>>
    BY <2>1 DEF userVars
  <2>5. CallsAreCalls' /\ NeverSplit'
    BY <2>4 DEF IInv, CallsAreCalls, NeverSplit
  <2> QED
    BY <2>1, <2>2, <2>3, <2>4, <2>5, UsersOnly DEF IInv, TypeOK
<1> QED
  BY <1>1, <1>2, <1>3, <1>4, <1>5 DEF Next

(* The inductive invariant holds in every reachable state.                  *)
THEOREM Invariance == Spec => []IInv
<1> QED
  BY Initially, Inductive, PTL DEF Spec

(* The types are kept, and every call refers to a proposal that exists.     *)
THEOREM TypesOK == Spec => []TypeOK
<1>1. IInv => TypeOK
  BY DEF IInv
<1> QED
  BY <1>1, Invariance, PTL

(* What was seen of a validated task is an observation of it, and its status *)
(* follows from the verdict on that.                                        *)
LEMMA Seen ==
    ASSUME IInv, Judges
    PROVE  /\ ValidatorSeen
           /\ Contracts[evidence.task] \in Contract
           /\ evidence.seen \in Observation /\ mode \in Mode
<1>1. ~NothingSeen
  BY DEF NothingSeen, NoEvidence
<1>2. ~AgentSeen
  BY DEF AgentSeen
<1>3. ValidatorSeen
  BY <1>1, <1>2 DEF IInv, EvidenceFits
<1>4. mode \in Mode
  BY DEF IInv, TypeOK
<1> QED
  BY <1>3, <1>4 DEF ValidatorSeen

(* Only a PASS makes a task DONE, so that all its contract demands was seen  *)
(* to hold: DoneIsVerified in every reachable state.                        *)
THEOREM DoneVerified == Spec => []DoneIsVerified
<1>1. ASSUME IInv PROVE DoneIsVerified
  <2> SUFFICES ASSUME Judges, live[evidence.task] = "DONE" PROVE DoneIsVerified
    BY DEF DoneIsVerified
  <2> DEFINE c == Contracts[evidence.task]
             o == evidence.seen
  <2>1. ValidatorSeen /\ c \in Contract /\ o \in Observation /\ mode \in Mode
    BY <1>1, Seen
  <2>2. StatusOf(Aggregated(c, o, mode, {})) = "DONE"
    BY <2>1 DEF ValidatorSeen
  <2>3. Aggregated(c, o, mode, {}) \in {"PASS", "FAIL", "NEEDS_REVIEW"}
    BY Verdicts DEF Aggregated
  <2>4. Aggregated(c, o, mode, {}) = "PASS"
    BY <2>2, <2>3 DEF StatusOf
  <2>5. o.git = "advanced" /\ evidence.read => o.changes = evidence.real
    BY <2>1 DEF ValidatorSeen
  <2> HIDE DEF c, o
  <2>6. /\ c.tests => o.exit \in {"passed", "empty"}
        /\ c.criteria => c.tests
        /\ mode.criteria = "require" => c.checks \ {"MANUAL"} \subseteq o.holds
        /\ mode.scope = "enforce" /\ c.declared = "usable" => o.changes # "outside"
        /\ c.declared # "untrusted"
    BY <2>1, <2>4, PassIsEarned
  <2> QED
    BY <2>5, <2>6 DEF DoneIsVerified, c, o
<1> QED
  BY <1>1, Invariance, PTL

(* The modes that only observe change neither a verdict nor what is         *)
(* recommended after a failure: ObservingIsNeutral in every reachable state. *)
THEOREM ObservationNeutral == Spec => []ObservingIsNeutral
<1>1. ASSUME IInv PROVE ObservingIsNeutral
  <2> SUFFICES ASSUME Judges, mode = [scope |-> "warn", criteria |-> "observe"]
               PROVE  ObservingIsNeutral
    BY DEF ObservingIsNeutral
  <2> DEFINE c == Contracts[evidence.task]
             o == evidence.seen
             g == Good(c, o)
  <2>1. ValidatorSeen /\ c \in Contract /\ o \in Observation /\ mode \in Mode
    BY <1>1, Seen
  <2>2. live[evidence.task] = StatusOf(Aggregated(c, o, mode, {}))
    BY <2>1 DEF ValidatorSeen
  <2>3. g = [o EXCEPT !.holds = c.checks, !.changes = IF @ = "outside" THEN "inside" ELSE @]
    BY DEF Good
  <2> HIDE DEF c, o
  <2>4. /\ Aggregated(c, o, mode, {}) = Aggregated(c, g, mode, {})
        /\ (\E k \in Criteria(c, o, mode) : k.type = "TEST" /\ k.status = "FAIL")
              <=> \E k \in Criteria(c, g, mode) : k.type = "TEST" /\ k.status = "FAIL"
    BY <2>1, GrayModesWatch
  <2> HIDE DEF g
  <2>5. ASSUME live[evidence.task] = "FAILED"
        PROVE  Recommended(ResultOf(c, o, mode), 1) = Recommended(ResultOf(c, g, mode), 1)
    <3>1. Aggregated(c, o, mode, {}) \in {"PASS", "FAIL", "NEEDS_REVIEW"}
      BY Verdicts DEF Aggregated
    <3>2. Aggregated(c, o, mode, {}) = "FAIL"
      BY <2>2, <2>5, <3>1 DEF StatusOf
    <3>3. /\ ResultOf(c, o, mode).agent = "IMPLEMENTED" /\ ResultOf(c, g, mode).agent = "IMPLEMENTED"
          /\ ResultOf(c, o, mode).verdict = "FAIL" /\ ResultOf(c, g, mode).verdict = "FAIL"
          /\ ResultOf(c, o, mode).tests <=> ResultOf(c, g, mode).tests
      BY <2>4, <3>2 DEF ResultOf
    <3> HIDE DEF ResultOf
    <3> QED
      BY <3>3 DEF Recommended, FailureType
  <2> QED
    BY <2>3, <2>4, <2>5 DEF ObservingIsNeutral, c, o
<1> QED
  BY <1>1, Invariance, PTL

(* However calls race and die, a stored block was approved:                 *)
(* BlocksWereApproved in every reachable state.                             *)
THEOREM BlocksApproved == Spec => []BlocksWereApproved
<1>1. IInv => BlocksWereApproved
  BY DEF IInv, ApprovalsKept, ApprovedTasks, BlocksWereApproved
<1> QED
  BY <1>1, Invariance, PTL

(* Without overlapping applies and deaths between the two saves a block that *)
(* was applied stands: AppliedBlockStands in every reachable state.         *)
THEOREM BlocksStand == Spec => []AppliedBlockStands
<1>1. ASSUME IInv PROVE AppliedBlockStands
  <2> SUFFICES ASSUME ~disturbed, \A u \in Users : ~Applying(calls[u]),
                      NEW i \in 1 .. Len(proposals),
                      proposals[i].status = "APPLIED", proposals[i].action = "BLOCK"
               PROVE  stored.status[proposals[i].task] = "BLOCKED"
    BY DEF AppliedBlockStands
  <2>1. StoreStands
    BY <1>1 DEF IInv, BlocksKept
  <2>2. \A u \in Users : calls[u].at # "applied"
    BY DEF Applying
  <2>3. proposals[i].task \in StandingTasks
    <3>1. proposals \in Seq(Proposal)
      BY <1>1 DEF IInv, TypeOK
    <3>2. proposals[i].task \in Task
      <4>1. proposals[i] \in Proposal
        BY ONLY <3>1, i \in 1 .. Len(proposals)
      <4> QED
        BY <4>1 DEF Proposal
    <3> QED
      BY <3>2 DEF StandingTasks
  <2> QED
    BY <2>1, <2>2, <2>3 DEF StoreStands
<1> QED
  BY <1>1, Invariance, PTL
===============================================================================
