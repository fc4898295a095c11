------------------------------ MODULE CardLoop ------------------------------
(***************************************************************************)
(* One code card of the harness and the audit rounds the gate derives for  *)
(* it.  Every gate verb (claim, return, audit dispatch, audit verdict,     *)
(* rework, block, reopen, withdraw, close) is one atomic action; QueueMove *)
(* splits the queue moves into their file writes.  Finalize is two         *)
(* actions, its look at the tip and its merge; the module Finalize has it  *)
(* step by step.  Files are the state: the queue directory of the card and *)
(* of its audit cards, a few frontmatter fields, the append-only records,  *)
(* what a running finalize knows, and the card branch                      *)
(* (commits are numbered along it; commit 0 is its base).                  *)
(*                                                                         *)
(* Abstractions: one card; the claimant and the auditors are fixed and     *)
(* distinct, so identity checks always pass; a verdict is PASS or FAIL     *)
(* (which stands for every value outside the PASS family); record names    *)
(* are ordered as the records were written.                                *)
(***************************************************************************)
EXTENDS Naturals, Sequences, FiniteSets

CONSTANTS Audit,       \* the card's "audit" field: "required", "optional", "none"
          MaxTip,      \* bound on the commits of the card branch
          MaxReturns,  \* bound on the returns filed for the card
          MaxAudits,   \* bound on its audit rounds R, R2, ...
          MaxRounds,   \* bound on the rounds reopening creates
          MaxReworks   \* rework rounds the declaration grants (max_rounds)

ASSUME AuditAssumption == Audit \in {"required", "optional", "none"}
ASSUME BoundsAssumption ==
    /\ MaxTip \in Nat
    /\ MaxReturns \in Nat
    /\ MaxAudits \in Nat
    /\ MaxRounds \in Nat \ {0}
    /\ MaxReworks \in Nat

VARIABLES
    place,      \* queue directory of the card, equal to its status
    round,      \* 1 + the round boundaries in records/events
    ready,      \* executor_status = completed and audit_readiness = ready
    auditRef,   \* related_audit_task_ref: an audit round, 0 if absent
    tip,        \* last commit of the card branch
    checked,    \* a finalize that found the tip passed has yet to merge the branch
    merged,     \* last commit of the card branch that is in the base branch
    returns,    \* records/returns, oldest first
    audits,     \* audit cards R, R2, ... with the dispatch that created each
    verdicts,   \* records/audit_verdicts of the card, oldest first
    reworks,    \* rework_rounds of the card, oldest first
    closures,   \* records/closures of the card
    reported    \* audit rounds a withdrawal reported it could not withdraw

vars == <<place, round, ready, auditRef, tip, checked, merged, returns, audits,
          verdicts, reworks, closures, reported>>

Places == {"pending", "claimed", "blocked", "completed", "withdrawn"}

Return  == [round : 1..MaxRounds, tip : 0..MaxTip, outcome : {"done", "blocked"}]
AuditRound ==
    [place : Places,
     ret   : 1..MaxReturns,            \* the return record it reviews
     sup   : 0..MaxAudits,             \* the round its dispatch record supersedes
     round : 1..MaxRounds,             \* the round it was dispatched in
     by    : {"return", "dispatch"},   \* derived from a return or dispatched by hand
     seen  : 0..MaxTip]                \* HEAD of the forensic worktree, set by a claim
Verdict == [audit : 1..MaxAudits, round : 1..MaxRounds,
            value : {"PASS", "FAIL"}, commit : 0..MaxTip]
Rework  == [verdict : 0..MaxAudits, tip : 0..MaxTip]
Closure == [round : 1..MaxRounds, ret : 1..MaxReturns, verdict : 0..MaxAudits]

Init == /\ place = "pending"
        /\ round = 1
        /\ ready = FALSE
        /\ auditRef = 0
        /\ tip = 0
        /\ checked = FALSE
        /\ merged = 0
        /\ returns = <<>>
        /\ audits = <<>>
        /\ verdicts = <<>>
        /\ reworks = <<>>
        /\ closures = {}
        /\ reported = {}
-----------------------------------------------------------------------------
(* What the gate reads. *)

Latest(s) == s[Len(s)]

(* The card branch holds commits the base branch does not. *)
Live == tip > merged

JudgedForgotten(k) == FALSE   \* mutant: verdicts of the audit card are not looked up

Judged(k) == \E i \in 1..Len(verdicts) : verdicts[i].audit = k

Superseded(k) == \E j \in (k + 1)..Len(audits) : audits[j].sup = k

Open(k) == audits[k].place \in {"pending", "claimed"}

PassedOnce == \E i \in 1..Len(verdicts) : verdicts[i].value = "PASS"   \* mutant of LatestPasses

(* The latest verdict by time over every round, as the completion check and *)
(* finalize read it.                                                        *)
LatestPasses == verdicts # <<>> /\ Latest(verdicts).value = "PASS"

CoversAny == TRUE   \* mutant of CoversTip: a PASS is for the card, not for a commit

(* The latest verdict is for exactly the commit that would be merged.      *)
CoversTip == Latest(verdicts).commit = tip

ReturnedThisRound == returns # <<>> /\ Latest(returns).round = round

ClosedByStatus == place = "completed"   \* mutant of ClosedThisRound

ClosedThisRound == \E c \in closures : c.round = round

(* The latest record of the round is the latest record, or there is none. *)
JudgedThisRound(k) == /\ verdicts # <<>>
                      /\ Latest(verdicts).round = round
                      /\ Latest(verdicts).audit = k

(* The rework rounds registered against the latest verdict. *)
ReworksOfLatest == {i \in 1..Len(reworks) : reworks[i].verdict = Len(verdicts)}

(* The latest verdict no longer covers the branch: a PASS for another      *)
(* commit, or a FAIL for which a rework round is registered and to which   *)
(* the branch has moved since the last such registration.                  *)
VerdictStale ==
    /\ Live
    /\ verdicts # <<>>
    /\ Latest(verdicts).commit # tip
    /\ \/ Latest(verdicts).value = "PASS"
       \/ /\ ReworksOfLatest # {}
          /\ \A i \in ReworksOfLatest : tip > reworks[i].tip

(* The commits the audit round k is looking at: the one its reviewed return *)
(* is bound to, and the HEAD of its forensic worktree while that exists.    *)
Bound(k) == {returns[audits[k].ret].tip}
              \cup (IF audits[k].place = "claimed" THEN {audits[k].seen} ELSE {})

ReturnNeverStale(k) == FALSE   \* mutant of ReturnStale: only verdicts go stale

(* Round k was derived in this card round, has no verdict, and looks at a *)
(* commit that is no longer the tip.                                      *)
ReturnStale(k) ==
    /\ Live
    /\ audits[k].by = "return"
    /\ audits[k].round = round
    /\ ~JudgedThisRound(k)
    /\ \E b \in Bound(k) : b # tip

(* The dispatch chain of the card blocks a new dispatch: there is a verdict, *)
(* or the linked audit card is not concluded.                                *)
ChainValid ==
    /\ auditRef # 0
    /\ \/ verdicts # <<>>
       \/ audits[auditRef].place \notin {"completed", "withdrawn"}
-----------------------------------------------------------------------------
(* The executor's side. *)

Claim == /\ place = "pending"
         /\ place' = "claimed"
         /\ UNCHANGED <<round, ready, auditRef, tip, checked, merged, returns, audits,
                        verdicts, reworks, closures, reported>>

Commit == /\ place = "claimed"
          /\ tip < MaxTip
          /\ tip' = tip + 1
          /\ UNCHANGED <<place, round, ready, auditRef, checked, merged, returns, audits,
                         verdicts, reworks, closures, reported>>

(* The audit round a return supersedes: the current round k when its own   *)
(* verdict is stale, or when it is in flight on another commit than the tip. *)
Supersedes(k) ==
    /\ k # 0
    /\ \/ VerdictStale /\ Latest(verdicts).audit = k
       \/ ReturnStale(k)

EachReturn == ~VerdictStale   \* mutant of FirstRound: every return takes the next number

(* A derivation that is no re-audit names the first audit round, and is    *)
(* skipped when that exists: a dead chain is not replaced by a return.      *)
FirstRound ==
    /\ ~VerdictStale
    /\ ~ChainValid
    /\ audits = <<>>

(* A return outcome "done" derives an audit round when it supersedes the   *)
(* current one, or the first one when no stale verdict is being re-audited *)
(* and the dispatch chain is free.                                         *)
Derives(outcome) ==
    /\ outcome = "done"
    /\ Audit # "none"
    /\ Supersedes(Len(audits)) \/ FirstRound

FileReturn(outcome) ==
    /\ place = "claimed"
    /\ Len(returns) < MaxReturns
    /\ returns' = Append(returns, [round |-> round, tip |-> tip, outcome |-> outcome])
    /\ ready' = TRUE
    /\ IF Derives(outcome)
       THEN /\ Len(audits) < MaxAudits
            /\ audits' = Append(audits,
                           [place |-> "pending", ret |-> Len(returns) + 1,
                            sup |-> IF Supersedes(Len(audits)) THEN Len(audits) ELSE 0,
                            round |-> round, by |-> "return", seen |-> 0])
            /\ auditRef' = Len(audits) + 1
       ELSE UNCHANGED <<audits, auditRef>>
    /\ UNCHANGED <<place, round, tip, checked, merged, verdicts, reworks, closures, reported>>

(* A rework round asked for after a verdict; the verdict it names is not   *)
(* looked up, so one may be registered when there is none (verdict 0).     *)
RegisterRework ==
    /\ place = "claimed"
    /\ Len(reworks) < MaxReworks
    /\ reworks' = Append(reworks, [verdict |-> Len(verdicts), tip |-> tip])
    /\ UNCHANGED <<place, round, ready, auditRef, tip, checked, merged, returns, audits,
                   verdicts, closures, reported>>
-----------------------------------------------------------------------------
(* The auditors' side. *)

(* The refusals of a hand-made dispatch that depend on the card's history. *)
DispatchReleased ==
    /\ verdicts # <<>> /\ LatestPasses => Latest(verdicts).commit # tip
    /\ ChainValid => verdicts # <<>> /\ ~LatestPasses

(* The dispatcher names the next unused round number. *)
AuditDispatch ==
    /\ place = "claimed"
    /\ ready
    /\ returns # <<>>
    /\ DispatchReleased
    /\ Len(audits) < MaxAudits
    /\ audits' = Append(audits, [place |-> "pending", ret |-> Len(returns), sup |-> 0,
                                 round |-> round, by |-> "dispatch", seen |-> 0])
    /\ auditRef' = Len(audits) + 1
    /\ UNCHANGED <<place, round, ready, tip, checked, merged, returns, verdicts, reworks,
                   closures, reported>>

ClaimAudit(k) ==
    /\ audits[k].place = "pending"
    /\ audits' = [audits EXCEPT ![k].place = "claimed", ![k].seen = tip]
    /\ UNCHANGED <<place, round, ready, auditRef, tip, checked, merged, returns, verdicts,
                   reworks, closures, reported>>

WithdrawAudit(k) ==
    /\ Open(k)
    /\ audits' = [audits EXCEPT ![k].place = "withdrawn"]
    /\ UNCHANGED <<place, round, ready, auditRef, tip, checked, merged, returns, verdicts,
                   reworks, closures, reported>>

(* A card that an earlier verdict has completed is taken for one as well.  *)
TakesVerdict(k) == audits[k].place \in {"claimed", "completed"}

(* The auditor states the commit itself; the gate checks only its format.  *)
(* The dispatch record of round k is the one the auditor names; left to    *)
(* the default it can be that of another round, and the verdict is refused *)
(* (DerivedCanBeJudged of GateSteps), which changes nothing here.  The audit  *)
(* card is closed by its verdict.                                          *)
AuditVerdict(k, value, commit) ==
    /\ TakesVerdict(k)
    /\ ~Judged(k)
    /\ verdicts' = Append(verdicts, [audit |-> k, round |-> round,
                                     value |-> value, commit |-> commit])
    /\ audits' = [audits EXCEPT ![k].place = "completed"]
    /\ UNCHANGED <<place, round, ready, auditRef, tip, checked, merged, returns, reworks,
                   closures, reported>>
-----------------------------------------------------------------------------
(* Merging and the end of a round. *)

(* Finalize looks for a verdict: the latest must be a PASS for exactly the *)
(* tip.  Where the card is filed is not looked at.                         *)
CheckBranch ==
    /\ Live
    /\ LatestPasses
    /\ CoversTip
    /\ checked' = TRUE
    /\ UNCHANGED <<place, round, ready, auditRef, tip, merged, returns, audits,
                   verdicts, reworks, closures, reported>>

(* Then it merges the branch by its name, wherever the branch is by then.  *)
(* Another finalize that has looked at the branch may be behind it.        *)
Finalize ==
    /\ checked
    /\ Live
    /\ merged' = tip
    /\ checked' \in BOOLEAN
    /\ UNCHANGED <<place, round, ready, auditRef, tip, returns, audits, verdicts,
                   reworks, closures, reported>>

Block == /\ place = "claimed"
         /\ place' = "blocked"
         /\ UNCHANGED <<round, ready, auditRef, tip, checked, merged, returns, audits,
                        verdicts, reworks, closures, reported>>

(* A reopen writes a round boundary only if this round has a return; the   *)
(* executor status, the return and the audit link stay on the card.        *)
Reopen ==
    /\ place \in {"blocked", "completed"}
    /\ place' = "pending"
    /\ IF ReturnedThisRound
       THEN round < MaxRounds /\ round' = round + 1
       ELSE UNCHANGED round
    /\ UNCHANGED <<ready, auditRef, tip, checked, merged, returns, audits, verdicts,
                   reworks, closures, reported>>

(* Closing looks for a return in any round, at the outcome of this round's *)
(* latest return, for a closure of this round, and at the latest verdict.  *)
(* It closes with the card the first audit round, if that is claimed.      *)
Close ==
    /\ place = "claimed"
    /\ returns # <<>>
    /\ ReturnedThisRound => Latest(returns).outcome # "blocked"
    /\ ~ClosedThisRound
    /\ Audit = "required" => LatestPasses
    /\ place' = "completed"
    /\ closures' = closures \cup {[round |-> round, ret |-> Len(returns),
                                   verdict |-> Len(verdicts)]}
    /\ audits' = [k \in 1..Len(audits) |->
                    IF k = 1 /\ audits[k].place = "claimed"
                    THEN [audits[k] EXCEPT !.place = "completed"] ELSE audits[k]]
    /\ UNCHANGED <<round, ready, auditRef, tip, checked, merged, returns, verdicts, reworks,
                   reported>>

ClaimedOnly(k) == audits[k].place = "claimed"   \* mutant of InFlight

(* The audit rounds a withdrawal of the card takes with it. *)
InFlight(k) == audits[k].place \in {"pending", "claimed"}

(* The card moves first; then its open audit rounds are withdrawn one by   *)
(* one.  The rounds that fail stay open and are reported.                  *)
Withdraw ==
    /\ place \in {"pending", "claimed", "blocked"}
    /\ place' = "withdrawn"
    /\ \E failed \in SUBSET {k \in 1..Len(audits) : InFlight(k)} :
          /\ reported' = reported \cup failed
          /\ audits' = [k \in 1..Len(audits) |->
                          IF InFlight(k) /\ k \notin failed
                          THEN [audits[k] EXCEPT !.place = "withdrawn"] ELSE audits[k]]
    /\ UNCHANGED <<round, ready, auditRef, tip, checked, merged, returns, verdicts, reworks,
                   closures>>
-----------------------------------------------------------------------------
Next ==
    \/ Claim
    \/ Commit
    \/ \E outcome \in {"done", "blocked"} : FileReturn(outcome)
    \/ RegisterRework
    \/ AuditDispatch
    \/ \E k \in 1..Len(audits) : ClaimAudit(k)
    \/ \E k \in 1..Len(audits) : WithdrawAudit(k)
    \/ \E k \in 1..Len(audits), value \in {"PASS", "FAIL"}, commit \in 0..tip :
          AuditVerdict(k, value, commit)
    \/ CheckBranch
    \/ Finalize
    \/ Block
    \/ Reopen
    \/ Close
    \/ Withdraw

Spec == Init /\ [][Next]_vars
-----------------------------------------------------------------------------
(* The types of the variables. *)
TypeOK ==
    /\ place \in Places
    /\ round \in 1..MaxRounds
    /\ ready \in BOOLEAN
    /\ auditRef \in 0..Len(audits)
    /\ tip \in 0..MaxTip
    /\ checked \in BOOLEAN
    /\ merged \in 0..tip
    /\ returns \in Seq(Return) /\ Len(returns) <= MaxReturns
    /\ audits \in Seq(AuditRound) /\ Len(audits) <= MaxAudits
    /\ verdicts \in Seq(Verdict) /\ Len(verdicts) <= Len(audits)
    /\ reworks \in Seq(Rework) /\ Len(reworks) <= MaxReworks
    /\ closures \subseteq Closure
    /\ reported \subseteq 1..Len(audits)

(* No card reaches the base branch before an audit round has passed it:    *)
(* whatever a reopen, a late verdict of a replaced round or a commit after *)
(* the check did in between, what is merged includes a commit that was     *)
(* passed itself.  Commits made after the check may come with it, as the   *)
(* branch is merged by name (MergedWasCovered of Finalize).                *)
MergedHoldsPassed ==
    merged > 0 => \E i \in 1..Len(verdicts) :
                     verdicts[i].value = "PASS" /\ verdicts[i].commit \in 1..merged

(* A card lies in completed/ only with a closure record of its current     *)
(* round, and, where the audit is required, one that was written while the *)
(* latest verdict was a PASS.                                              *)
CompletedWasAudited ==
    place = "completed" =>
        \E c \in closures :
           /\ c.round = round
           /\ Audit = "required" => /\ c.verdict \in 1..Len(verdicts)
                                    /\ verdicts[c.verdict].value = "PASS"

(* A withdrawn card leaves no audit round waiting for an auditor, except   *)
(* the ones its withdrawal reported as not withdrawn.                      *)
NoSilentOrphan ==
    place = "withdrawn" => \A k \in 1..Len(audits) : Open(k) => k \in reported

(* Of the rounds derived by returns at most one is in flight: open, not    *)
(* superseded and without a verdict.  A second one needs a round that was  *)
(* dispatched by hand right after the first, while it was in flight, as    *)
(* only the FAIL of a round before both releases (the next return then     *)
(* replaces the round dispatched by hand and not the derived one).         *)
OneDerivedRoundInFlight ==
    LET inFlight == {i \in 1..Len(audits) : /\ audits[i].by = "return"
                                            /\ Open(i) /\ ~Superseded(i) /\ ~Judged(i)}
    IN  \A j, k \in inFlight : j < k =>
           /\ audits[j + 1].by = "dispatch"
           /\ \E i \in 1..Len(verdicts) : verdicts[i].value = "FAIL" /\ verdicts[i].audit < j

(* A delivery is never audited on an outdated commit: after a return that  *)
(* is to be audited, the round in flight (if the card round has derived    *)
(* one) reviews the commit just returned, or has been superseded by one    *)
(* that does.                                                              *)
DeliveryIsReviewed ==
    [][ Len(returns') > Len(returns) /\ Live /\ Latest(returns').outcome = "done"
          /\ Audit # "none" /\ audits' # <<>>
          => LET r == Latest(audits')
             IN  r.by = "return" /\ r.round = round /\ r.place \in {"pending", "claimed"}
                   /\ ~JudgedThisRound(Len(audits'))
                   => returns'[r.ret].tip = tip
      ]_vars

(* The queue part of the loop implements the life cycle of a card. *)
Lifecycle == INSTANCE CardLifecycle
    WITH delivered <- ReturnedThisRound, closed <- {c.round : c \in closures}
LifecycleSpec == Lifecycle!Spec
-----------------------------------------------------------------------------
(* What the documents say and the code does not do.  Each of these is the  *)
(* property of a run that finds it violated.                               *)

(* schema/transitions.schema.json, round boundary: closing reads only the  *)
(* records of the current round, so a closure rests on a return of its own *)
(* round.                                                                  *)
ClosureRestsOnItsRound == \A c \in closures : returns[c.ret].round = c.round

(* board_adapter, re-review dispatch: a PASS for another commit than the   *)
(* tip releases a dispatch as a re-review.                                 *)
RereviewReleased ==
    place = "claimed" /\ ready /\ LatestPasses /\ Latest(verdicts).commit # tip
        => DispatchReleased

(* audit_helpers.is_dispatch_chain_valid: an audit card that is pending or *)
(* claimed blocks another dispatch.                                        *)
InFlightBlocksDispatch ==
    [][ Len(audits') > Len(audits) /\ audits'[Len(audits')].by = "dispatch"
          => auditRef = 0 \/ ~Open(auditRef) ]_vars

(* schema/transitions.schema.json, superseded round: the report of a round *)
(* that has been superseded does not enter the gate.                       *)
SupersededIsNotHeard ==
    [][ Len(verdicts') > Len(verdicts) => ~Superseded(Latest(verdicts').audit) ]_vars

(* schema/transitions.schema.json, superseded round: closing the card moves *)
(* its superseded rounds to completed.                                      *)
SupersededCloseWithCard ==
    place = "completed" => \A k \in 1..Len(audits) : Superseded(k) => ~Open(k)

(* schema/transitions.schema.json, round boundary: the records of an older *)
(* round do not stop the new one, so the first return of a new round that  *)
(* brings a new commit is audited by a round of its own.                   *)
NewRoundIsAudited ==
    [][ /\ Len(returns') > Len(returns) /\ Latest(returns').outcome = "done"
        /\ Audit # "none" /\ Live
        /\ \A i \in 1..Len(returns) : returns[i].round < round /\ returns[i].tip < tip
        => Len(audits') > Len(audits) ]_vars
=============================================================================
