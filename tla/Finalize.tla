------------------------------ MODULE Finalize ------------------------------
(***************************************************************************)
(* Finalizing cards into one base branch: several runs of "finalize" on    *)
(* one repository, each a process that may be killed anywhere.  A run      *)
(* checks the verdict, takes the repository's merge lock without waiting,  *)
(* merges the card branch by its name, runs the regression, pushes,        *)
(* deploys, and writes the finalization record; a later run resumes what   *)
(* an earlier one left undone.  Meanwhile executors commit to the card     *)
(* branches and auditors give verdicts.                                    *)
(*                                                                         *)
(* CardLoop takes all of this as two steps, CheckBranch and Finalize.  The *)
(* base branch is the sequence of its first-parent commits since the       *)
(* project began; a commit of a card branch is a number.  Left out: work   *)
(* trees that are dirty or on another branch, cards without a branch of    *)
(* their own, a base branch merged into a card branch, repair cards that   *)
(* inherit verdicts, pushes and deployments by hand (dev_override among    *)
(* them).                                                                  *)
(***************************************************************************)
EXTENDS Naturals, Sequences, FiniteSets

CONSTANTS Cards,        \* cards that have a branch
          Runs,         \* processes that run finalize
          Remote,       \* TRUE iff there is a remote to push to
          Deployable,   \* TRUE iff the repository has a deployment
          Regression,   \* post-merge regression: "off", "warn" or "block"
          Outside,      \* bound on commits people make on the base branch
          MaxTip,       \* bound on the commits of a card branch
          MaxVerdicts,  \* bound on the verdicts of a card
          MaxFaults,    \* bound on stops and failures
          MaxReruns     \* bound on runs that are not the driver's "--push"

ASSUME FinalizeAssumption ==
    /\ Remote \in BOOLEAN /\ Deployable \in BOOLEAN
    /\ Regression \in {"off", "warn", "block"}
    /\ MaxTip \in Nat /\ MaxVerdicts \in Nat \ {0} /\ MaxFaults \in Nat
    /\ Outside \in Nat /\ MaxReruns \in Nat
    /\ "none" \notin Runs /\ "outside" \notin Cards

VARIABLES
    tip,       \* last commit of each card branch
    verdicts,  \* audit verdicts of each card, oldest first
    trunk,     \* first-parent commits of the base branch
    origin,    \* how many of them the remote has
    versions,  \* how many of them were in each version deployed, oldest first
    records,   \* finalization records of each card, oldest first
    lock,      \* the run that holds the merge lock, or NoRun
    run,       \* where each run is and what it has read
    faults, reruns

vars == <<tip, verdicts, trunk, origin, versions, records, lock, run, faults, reruns>>
world == <<tip, verdicts, trunk, origin, versions, records>>

NoRun == "none"
NoCard == "outside"
Unbound == MaxTip + 1     \* no commit is asked of a verdict, or named by it

LegacyPass == [value |-> "PASS", commit |-> Unbound]

Idle == [pc |-> "idle", card |-> NoCard, verdict |-> 0, push |-> FALSE,
         deploy |-> FALSE, merge |-> 0, head |-> 0, resumed |-> FALSE, status |-> "none"]

(* A card may have a PASS from before verdicts named a commit, and the     *)
(* repository a version that is deployed.                                  *)
Init == /\ tip = [c \in Cards |-> 0]
        /\ verdicts \in [Cards -> {<<>>, <<LegacyPass>>}]
        /\ trunk = <<>>
        /\ origin = 0
        /\ versions \in IF Deployable THEN {<<>>, <<0>>} ELSE {<<>>}
        /\ records = [c \in Cards |-> <<>>]
        /\ lock = NoRun
        /\ run = [r \in Runs |-> Idle]
        /\ faults = 0
        /\ reruns = 0
-----------------------------------------------------------------------------
Latest(s) == s[Len(s)]

(* The tip of the branch is an ancestor of the base branch. *)
Merged(c) == \/ tip[c] = 0
             \/ \E i \in 1..Len(trunk) : trunk[i].card = c /\ trunk[i].commit >= tip[c]

(* The commit the latest verdict has to be for: the tip, if it is not      *)
(* merged yet; a merged branch is not compared.                            *)
Required(c) == IF Merged(c) THEN Unbound ELSE tip[c]

Passes(c) == verdicts[c] # <<>> /\ Latest(verdicts[c]).value = "PASS"

(* A verdict is for the commit it names; one of the old kind, without a    *)
(* commit, is let through for any.                                         *)
For(verdict, commit) == verdict.commit \in {commit, Unbound}

CanFinalize(c) ==
    Passes(c) /\ (Required(c) = Unbound \/ For(Latest(verdicts[c]), Required(c)))

CoveredByCard(i) ==   \* mutant of Covered: a PASS covers whatever its card merges
    trunk[i].card # NoCard /\ Passes(trunk[i].card)

(* A merge is covered if the latest verdict of its card is a PASS for the  *)
(* commit that was merged.  A commit of no card is covered by nothing.     *)
Covered(i) == /\ trunk[i].card # NoCard
              /\ Passes(trunk[i].card)
              /\ For(Latest(verdicts[trunk[i].card]), trunk[i].commit)

Since == IF versions = <<>> THEN {} ELSE (Latest(versions) + 1)..Len(trunk)

(* Every commit since the deployed version is covered.  Where no version   *)
(* is deployed nothing is asked.                                           *)
IntervalCovered == \A i \in Since : Covered(i)

(* The merges a resumed run takes for those of its card: the one of the    *)
(* commit its verdict names, and those whose message names the verdict.    *)
Candidates(c, v) ==
    {i \in 1..Len(trunk) : trunk[i].card = c
                             /\ (trunk[i].commit = verdicts[c][v].commit \/ trunk[i].verdict = v)}

PushPending(m) == Remote /\ m > origin
Deployed(m) == versions # <<>> /\ m <= Latest(versions)
DeployPending(m) == Deployable /\ ~Deployed(m)
Synced == Remote => origin = Len(trunk)

At(r, pc) == run[r].pc = pc
Goto(r, pc) == run' = [run EXCEPT ![r].pc = pc]

FileLock(r) == lock     \* mutant of Unlocked: a lock file that outlives its process

Unlocked(r) == IF lock = r THEN NoRun ELSE lock

(* The run returns: its process is gone, and with it the lock. *)
Return(r) == run' = [run EXCEPT ![r] = Idle] /\ lock' = Unlocked(r)

Fault == faults < MaxFaults /\ faults' = faults + 1
-----------------------------------------------------------------------------
(* Executors and auditors, who know nothing of the runs. *)

Commit(c) == /\ tip[c] < MaxTip
             /\ tip' = [tip EXCEPT ![c] = @ + 1]
             /\ UNCHANGED <<verdicts, trunk, origin, versions, records, lock, run, faults, reruns>>

Verdict(c, value, commit) ==
    /\ Len(verdicts[c]) < MaxVerdicts
    /\ verdicts' = [verdicts EXCEPT ![c] = Append(@, [value |-> value, commit |-> commit])]
    /\ UNCHANGED <<tip, trunk, origin, versions, records, lock, run, faults, reruns>>

(* A person commits on the base branch; the lock keeps out only finalize.  *)
OutsideCommit ==
    /\ Cardinality({i \in 1..Len(trunk) : trunk[i].card = NoCard}) < Outside
    /\ trunk' = Append(trunk, [card |-> NoCard, commit |-> 0, verdict |-> 0])
    /\ UNCHANGED <<tip, verdicts, origin, versions, records, lock, run, faults, reruns>>
-----------------------------------------------------------------------------
(* A run up to the merge. *)

(* The tip and the verdict are read here, before the lock is taken. *)
Start(r, c, push, deploy) ==
    /\ At(r, "idle")
    /\ CanFinalize(c)
    /\ IF push /\ ~deploy /\ records[c] = <<>>
       THEN UNCHANGED reruns
       ELSE reruns < MaxReruns /\ reruns' = reruns + 1
    /\ run' = [run EXCEPT ![r] = [Idle EXCEPT !.pc = "checked", !.card = c,
                  !.verdict = Len(verdicts[c]), !.push = push, !.deploy = deploy]]
    /\ UNCHANGED <<world, lock, faults>>

LockIgnored == TRUE     \* mutant of LockFree: the lock is not looked at

LockFree == lock = NoRun

(* The lock is not waited for: a second run returns, to be tried again. *)
TakeLock(r) ==
    /\ At(r, "checked")
    /\ IF LockFree
       THEN lock' = r /\ Goto(r, "locked")
       ELSE Return(r)
    /\ UNCHANGED <<world, faults, reruns>>

(* Under the lock the commits since the deployed version are looked at. *)
CheckInterval(r) ==
    /\ At(r, "locked")
    /\ IF IntervalCovered THEN Goto(r, "ready") /\ UNCHANGED lock ELSE Return(r)
    /\ UNCHANGED <<world, faults, reruns>>

MergeAnyway(c) == tip[c] = 0   \* mutant of AlreadyIn: any branch with commits is merged

(* Looked at again under the lock. *)
AlreadyIn(c) == Merged(c)

(* The branch is merged by its name, wherever it is by now. *)
Merge(r) ==
    /\ At(r, "ready")
    /\ ~AlreadyIn(run[r].card)
    /\ trunk' = Append(trunk, [card |-> run[r].card, commit |-> tip[run[r].card],
                               verdict |-> run[r].verdict])
    /\ Goto(r, "merged")
    /\ UNCHANGED <<tip, verdicts, origin, versions, records, lock, faults, reruns>>

(* A conflict that is not one of JSON keys only aborts the merge. *)
MergeConflict(r) ==
    /\ At(r, "ready")
    /\ ~AlreadyIn(run[r].card)
    /\ Fault
    /\ Return(r)
    /\ UNCHANGED <<world, reruns>>

(* What the run takes for its merge is the head, read once git has merged. *)
ReadMerge(r) ==
    /\ At(r, "merged")
    /\ run' = [run EXCEPT ![r].pc = "regress", ![r].merge = Len(trunk)]
    /\ UNCHANGED <<world, lock, faults, reruns>>

RegressionPasses(r) == /\ At(r, "regress")
                       /\ Goto(r, "settle")
                       /\ UNCHANGED <<world, lock, faults, reruns>>

(* The base branch still ends with what the run takes for its merge. *)
OwnHead(r) == Len(trunk) = run[r].merge

(* New failures: the merge is to be taken back, unless the branch has      *)
(* moved on.                                                               *)
RegressionFails(r) ==
    /\ At(r, "regress")
    /\ Regression = "block"
    /\ Fault
    /\ IF OwnHead(r) THEN Goto(r, "undo") /\ UNCHANGED lock ELSE Return(r)
    /\ UNCHANGED <<world, reruns>>

UndoTooFar(m) == m - 2   \* mutant of BeforeMerge: off by one

(* The parent of the merge. *)
BeforeMerge(m) == m - 1

(* The reset goes back behind the merge, whatever has come after it since. *)
Undo(r) ==
    /\ At(r, "undo")
    /\ trunk' = SubSeq(trunk, 1, BeforeMerge(run[r].merge))
    /\ Return(r)
    /\ UNCHANGED <<tip, verdicts, origin, versions, records, faults, reruns>>
-----------------------------------------------------------------------------
(* A run after the merge.  A run that merged names the head of the base    *)
(* branch in its record, as it is when the work tree is looked at.         *)
Settle(r) ==
    /\ At(r, "settle")
    /\ run' = [run EXCEPT ![r].pc = IF Synced THEN "deploy" ELSE "push",
                          ![r].merge = IF @ = 0 THEN 0 ELSE Len(trunk),
                          ![r].head = Len(trunk)]
    /\ UNCHANGED <<world, lock, faults, reruns>>

(* Unpushed and not asked to push: the run passes, and writes no record. *)
LeaveUnpushed(r) ==
    /\ At(r, "push")
    /\ ~run[r].push
    /\ Return(r)
    /\ UNCHANGED <<world, faults, reruns>>

Push(r) ==
    /\ At(r, "push")
    /\ run[r].push
    /\ origin' = Len(trunk)
    /\ Goto(r, "deploy")
    /\ UNCHANGED <<tip, verdicts, trunk, versions, records, lock, faults, reruns>>

PushFailsSilently(r) ==   \* mutant of PushFails: the failure is only logged
    Goto(r, "deploy") /\ UNCHANGED lock

PushStops(r) == Return(r)

PushFails(r) ==
    /\ At(r, "push")
    /\ run[r].push
    /\ Fault
    /\ PushStops(r)
    /\ UNCHANGED <<world, reruns>>

(* What a deployment would add; the first one is asked for the head only.  *)
ToDeploy == IF versions = <<>> THEN {Len(trunk)} \ {0} ELSE Since

(* The gate lets a version be deployed only if every commit it adds is     *)
(* covered, one of them by the verdict the run has read; and an empty      *)
(* interval only with a reason, which finalize does not give.              *)
Authorized(r) == /\ \A i \in ToDeploy : Covered(i)
                 /\ \E i \in ToDeploy : trunk[i].card = run[r].card
                 /\ run[r].verdict = Len(verdicts[run[r].card])

(* After a merge the deployment follows without being asked for; a resumed *)
(* run deploys only with --deploy.                                         *)
Wanted(r) ==
    IF run[r].resumed THEN run[r].deploy /\ DeployPending(run[r].merge)
    ELSE Deployable /\ (versions # <<>> => Latest(versions) # run[r].head)

CheckDeploy(r) ==
    /\ At(r, "deploy")
    /\ Wanted(r)
    /\ run' = IF Authorized(r)
              THEN [run EXCEPT ![r].pc = "build",
                               ![r].head = IF run[r].resumed THEN Len(trunk) ELSE @]
              ELSE [run EXCEPT ![r].pc = "record", ![r].status = "deploy_failed"]
    /\ UNCHANGED <<world, lock, faults, reruns>>

(* The base branch is deployed as it is then, and the version compared     *)
(* with the head the run has read.                                         *)
Deploy(r) ==
    /\ At(r, "build")
    /\ versions' = Append(versions, Len(trunk))
    /\ \/ /\ run' = [run EXCEPT ![r].pc = "record",
                   ![r].status = IF Len(trunk) = run[r].head THEN "deployed" ELSE "deploy_failed"]
          /\ UNCHANGED faults
       \/ /\ run' = [run EXCEPT ![r].pc = "record", ![r].status = "deploy_failed"]
          /\ Fault
    /\ UNCHANGED <<tip, verdicts, trunk, origin, records, lock, reruns>>

(* The deployment is refused by the script, or rolled back. *)
DeployFails(r) ==
    /\ At(r, "build")
    /\ Fault
    /\ run' = [run EXCEPT ![r].pc = "record", ![r].status = "deploy_failed"]
    /\ UNCHANGED <<world, lock, reruns>>

SkipDeploy(r) ==
    /\ At(r, "deploy")
    /\ ~Wanted(r)
    /\ run' = [run EXCEPT ![r].pc = "record",
                 ![r].status = IF run[r].resumed /\ Deployable
                               THEN IF DeployPending(run[r].merge) THEN "not_attempted" ELSE "deployed"
                               ELSE "skipped"]
    /\ UNCHANGED <<world, lock, faults, reruns>>

(* A run that neither merged nor resumed writes no record. *)
Record(r) ==
    /\ At(r, "record")
    /\ records' = IF run[r].merge = 0 THEN records
                  ELSE [records EXCEPT ![run[r].card] =
                          Append(@, [merge |-> run[r].merge, verdict |-> run[r].verdict,
                                     status |-> run[r].status])]
    /\ Return(r)
    /\ UNCHANGED <<tip, verdicts, trunk, origin, versions, faults, reruns>>
-----------------------------------------------------------------------------
(* The branch is in the base branch already. *)

(* The merge the card's records name, or the only candidate. *)
ResumePoint(r, m) ==
    LET c == run[r].card
    IN IF records[c] # <<>> THEN m = Latest(records[c]).merge
       ELSE Candidates(c, run[r].verdict) = {m}

Done(r, m) == /\ records[run[r].card] # <<>>
              /\ ~PushPending(m)
              /\ ~(DeployPending(m) /\ run[r].deploy)

Resume(r) ==
    /\ At(r, "ready")
    /\ AlreadyIn(run[r].card)
    /\ \E m \in 1..Len(trunk) :
          /\ ResumePoint(r, m)
          /\ IF Done(r, m) THEN Goto(r, "settle")
             ELSE run' = [run EXCEPT ![r].merge = m, ![r].resumed = TRUE,
                            ![r].pc = IF PushPending(m) THEN "push_again" ELSE "deploy"]
    /\ UNCHANGED <<world, lock, faults, reruns>>

(* No merge, or more than one, can be told to be the card's. *)
RefuseResume(r) ==
    /\ At(r, "ready")
    /\ AlreadyIn(run[r].card)
    /\ ~\E m \in 1..Len(trunk) : ResumePoint(r, m)
    /\ Return(r)
    /\ UNCHANGED <<world, faults, reruns>>

RefuseUnpushed(r) ==
    /\ At(r, "push_again")
    /\ ~run[r].push
    /\ Return(r)
    /\ UNCHANGED <<world, faults, reruns>>

PushAgain(r) ==
    /\ At(r, "push_again")
    /\ run[r].push
    /\ \/ origin' = Len(trunk) /\ Goto(r, "deploy") /\ UNCHANGED <<lock, faults>>
       \/ Fault /\ Return(r) /\ UNCHANGED origin
    /\ UNCHANGED <<tip, verdicts, trunk, versions, records, reruns>>

(* The run is killed, or its record cannot be written. *)
Stop(r) ==
    /\ ~At(r, "idle")
    /\ Fault
    /\ Return(r)
    /\ UNCHANGED <<world, reruns>>
-----------------------------------------------------------------------------
Proceed(r) ==
    \/ TakeLock(r) \/ CheckInterval(r) \/ Merge(r) \/ ReadMerge(r) \/ RegressionPasses(r)
    \/ Undo(r) \/ Settle(r) \/ LeaveUnpushed(r) \/ Push(r) \/ CheckDeploy(r) \/ Deploy(r)
    \/ SkipDeploy(r) \/ Record(r) \/ Resume(r) \/ RefuseResume(r) \/ RefuseUnpushed(r) \/ PushAgain(r)

Next ==
    \/ \E c \in Cards : Commit(c)
    \/ \E c \in Cards, value \in {"PASS", "FAIL"}, commit \in 0..MaxTip :
          commit <= tip[c] /\ Verdict(c, value, commit)
    \/ OutsideCommit
    \/ \E r \in Runs :
          \/ \E c \in Cards, push, deploy \in BOOLEAN : Start(r, c, push, deploy)
          \/ TakeLock(r)
          \/ CheckInterval(r)
          \/ Merge(r)
          \/ MergeConflict(r)
          \/ ReadMerge(r)
          \/ RegressionPasses(r)
          \/ RegressionFails(r)
          \/ Undo(r)
          \/ Settle(r)
          \/ LeaveUnpushed(r)
          \/ Push(r)
          \/ PushFails(r)
          \/ CheckDeploy(r)
          \/ Deploy(r)
          \/ DeployFails(r)
          \/ SkipDeploy(r)
          \/ Record(r)
          \/ Resume(r)
          \/ RefuseResume(r)
          \/ RefuseUnpushed(r)
          \/ PushAgain(r)
          \/ Stop(r)

Spec == Init /\ [][Next]_vars

(* A run that is not killed goes on to its end, and the driver of a card   *)
(* runs "finalize --push" again until there is a record.                   *)
Fairness ==
    /\ \A r \in Runs : WF_vars(Proceed(r))
    /\ \A c \in Cards : WF_vars(\E r \in Runs : Start(r, c, TRUE, FALSE) /\ records[c] = <<>>)

FairSpec == Spec /\ Fairness
-----------------------------------------------------------------------------
Trunk == [card : Cards \cup {NoCard}, commit : 0..MaxTip, verdict : 0..MaxVerdicts]
Verdicts == [value : {"PASS", "FAIL"}, commit : 0..Unbound]
Statuses == {"none", "skipped", "deployed", "deploy_failed", "not_attempted"}
Records == [merge : Nat, verdict : 1..MaxVerdicts, status : Statuses]
RunState == [pc : {"idle", "checked", "locked", "ready", "merged", "regress", "undo", "settle",
                   "push", "push_again", "deploy", "build", "record"},
             card : Cards \cup {NoCard}, verdict : 0..MaxVerdicts, push : BOOLEAN,
             deploy : BOOLEAN, merge : Nat, head : Nat, resumed : BOOLEAN, status : Statuses]

(* The type of the state. *)
TypeOK ==
    /\ tip \in [Cards -> 0..MaxTip]
    /\ verdicts \in [Cards -> Seq(Verdicts)]
    /\ trunk \in Seq(Trunk)
    /\ origin \in 0..Len(trunk)
    /\ versions \in Seq(0..Len(trunk))
    /\ records \in [Cards -> Seq(Records)]
    /\ lock \in Runs \cup {NoRun}
    /\ run \in [Runs -> RunState]
    /\ \A r \in Runs : run[r].merge <= Len(trunk)
    /\ faults \in 0..MaxFaults
    /\ reruns \in 0..MaxReruns

(* However runs are killed, refused and repeated, a commit of a card comes *)
(* into the base branch by one merge only: a run that finds the branch     *)
(* merged resumes instead.                                                 *)
MergedOnce ==
    \A i, j \in 1..Len(trunk) :
        i < j /\ trunk[i].card = trunk[j].card /\ trunk[i].card # NoCard
          => trunk[i].commit < trunk[j].commit

(* The commit a finalization record names as the merge of its card         *)
(* contains that merge, and nothing after it but what people committed     *)
(* while the run was under way: never another card, for the lock is held   *)
(* from the merge to the record, and a resumed run tells its merge.        *)
RecordNamesDelivery ==
    \A c \in Cards : \A k \in 1..Len(records[c]) :
        LET m == records[c][k].merge
        IN \E i \in 1..Len(trunk) :
              /\ i <= m /\ m <= Len(trunk)
              /\ trunk[i].card = c
              /\ \A j \in (i + 1)..m : trunk[j].card = NoCard

(* A finalization record says that the card is delivered: where there is a *)
(* remote, what the record names has been pushed, also when the run that   *)
(* merged was killed before its push.                                      *)
RecordedIsPushed ==
    Remote => \A c \in Cards : \A k \in 1..Len(records[c]) : records[c][k].merge <= origin

(* Whatever merge a deployment adds to the deployed version, an auditor    *)
(* gave its card a PASS for that commit, or one of the old kind for no     *)
(* commit: the branch may move between the check of the verdict and the    *)
(* merge, and a verdict for another commit of the card does not do.  Where *)
(* nothing was deployed before, this begins with the head of the first     *)
(* version; and it does not speak of what people commit.                   *)
DeployedWasAudited ==
    \A i \in 1..Len(trunk) :
        Deployed(i) /\ versions[1] <= i /\ trunk[i].card # NoCard =>
            \E v \in 1..Len(verdicts[trunk[i].card]) :
               LET w == verdicts[trunk[i].card][v]
               IN w.value = "PASS" /\ For(w, trunk[i].commit)

(* A failed regression takes back no merge but that of its own card, while *)
(* it holds the lock: between its look at the head and its reset no other  *)
(* run merges.  (What a person commits there it does take back.)           *)
UndoTakesOwnMerge ==
    [][\A i \in 1..Len(trunk) : i > Len(trunk') =>
         \/ trunk[i].card = NoCard
         \/ \E r \in Runs : At(r, "undo") /\ lock = r /\ run[r].card = trunk[i].card]_vars

(* If the latest verdict of a card comes to be, for good, a PASS for the   *)
(* tip of its branch, and no commit stays uncovered, then the card is      *)
(* finalized in the end: the lock of a killed run does not stay, and the   *)
(* merge it left behind is found again.                                    *)
Reviewed(c) == Passes(c) /\ Latest(verdicts[c]).commit = tip[c] /\ tip[c] > 0

PassedIsRecorded ==
    \A c \in Cards : <>[](Reviewed(c) /\ IntervalCovered) => <>(records[c] # <<>>)
-----------------------------------------------------------------------------
(* The base branch as a ledger: the merges without what resuming needs of  *)
(* them, the commits that were given a PASS, and what records name.        *)
Commits == [i \in 1..Len(trunk) |-> [card |-> trunk[i].card, commit |-> trunk[i].commit]]
Passed == {e \in [card : Cards, commit : 0..Unbound] :
              \E v \in 1..Len(verdicts[e.card]) :
                 verdicts[e.card][v] = [value |-> "PASS", commit |-> e.commit]}
Named == UNION {{records[c][k].merge : k \in 1..Len(records[c])} : c \in Cards}

Ledger == INSTANCE BaseLedger WITH commits <- Commits, passed <- Passed, pushed <- origin,
                                   named <- Named

(* Runs of finalize that are killed, refused, resumed and undone keep the  *)
(* base branch a ledger: a commit of a card is merged once, and after a    *)
(* PASS for it or an earlier one; an undo strikes at most one merge, and   *)
(* nothing that was pushed, deployed or recorded; merges are deployed only *)
(* with their PASS, and recorded only when pushed.                         *)
LedgerSpec == Ledger!Spec
-----------------------------------------------------------------------------
(* What the sources say, and the code does not do. *)

(* "the verdict must cover exactly this commit": whatever finalize merges  *)
(* for a card, a PASS has been given for exactly that commit (or, of the   *)
(* old kind, for none).                                                    *)
MergedWasCovered ==
    \A i \in 1..Len(trunk) : trunk[i].card # NoCard =>
        \E v \in 1..Len(verdicts[trunk[i].card]) :
            LET w == verdicts[trunk[i].card][v]
            IN w.value = "PASS" /\ For(w, trunk[i].commit)

(* "never take the commit of another for the evidence": the commit a       *)
(* record names is a merge of its card, also when people commit on the     *)
(* base branch while the run is under way.                                 *)
RecordNamesOwnMerge ==
    \A c \in Cards : \A k \in 1..Len(records[c]) : trunk[records[c][k].merge].card = c

(* "refuse the reset (do not touch the commits of others)": an undo takes  *)
(* back nothing a person committed.                                        *)
UndoKeepsPeople ==
    [][\A i \in 1..Len(trunk) : i > Len(trunk') => trunk[i].card # NoCard]_vars
=============================================================================
