------------------------------ MODULE Landing ------------------------------
(***************************************************************************)
(* Landing governance files: the command that commits the files of one     *)
(* card (or the paths a command has just written) in the checkout that all *)
(* commands of a project share, and pushes them.  Several landings run at  *)
(* the same time in one work tree, one index and one branch; the remote    *)
(* branch is also pushed to from other checkouts; any landing may be       *)
(* refused by a hook, lose the connection, or be killed.                   *)
(*                                                                         *)
(* A file is its version, numbered along all its writers; a commit is the  *)
(* patch [file -> version] and a branch the sequence of its patches, so a  *)
(* commit's hash is the history up to it, and a cherry-picked patch has a  *)
(* new hash.  Abstractions: a landing names its paths (the landing of a    *)
(* whole root is left out); the reads of one check, and a fetch with the   *)
(* comparison after it, are one step; two patches of one file conflict;    *)
(* index.lock retries end well; following the remote and restoring what    *)
(* others have staged is one step; deleted and ignored files, the contents *)
(* of the guardrails and the texts are left out.                           *)
(***************************************************************************)
EXTENDS Naturals, Sequences, FiniteSets, SequencesExt

CONSTANTS Runs,         \* the landings, one at a time per card
          Files,        \* governance files
          Scope,        \* the files each landing is for
          MaxWrites,    \* bound on the versions written in this checkout
          MaxForeign,   \* bound on the commits pushed from other checkouts
          MaxStaged,    \* bound on the files others stage by hand
          MaxFaults     \* bound on hook refusals, lost connections and kills

ASSUME LandingAssumption ==
    /\ Scope \in [Runs -> SUBSET Files]
    /\ {MaxWrites, MaxForeign, MaxStaged, MaxFaults} \subseteq Nat

VARIABLES
    tree,       \* work tree: file -> version
    index,      \* staged version; the one of HEAD if nothing is staged
    local,      \* the checked-out branch
    remote,     \* the branch at the remote
    seen,       \* origin/<branch>, what the last fetch or push saw of it
    job,        \* landing -> the step it is at and what it has read
    landed,     \* landing -> the <<file, version>> pairs its last PASS spoke for,
                \* {} after any other end
    fresh,      \* file -> last version number used
    latest,     \* file -> last version written in this checkout
    committed,  \* <<file, version>> pairs committed in this checkout
    count       \* writes, foreign commits, stagings and faults so far

vars == <<tree, index, local, remote, seen, job, landed, fresh, latest, committed,
          count>>

git == <<local, remote, seen>>
history == <<fresh, latest, committed>>

Pcs == {"idle", "stage", "commit", "verify", "fetch", "push", "pushPick", "settle", "move"}

NoFiles == [f \in Files |-> 0]

Idle == [pc |-> "idle", manifest |-> {}, kept |-> {}, snap |-> NoFiles, pairs |-> {},
         hash |-> <<>>, tip |-> <<>>]

Init == /\ tree = NoFiles /\ index = NoFiles
        /\ local = <<>> /\ remote = <<>> /\ seen = <<>>
        /\ job = [r \in Runs |-> Idle]
        /\ landed = [r \in Runs |-> {}]
        /\ fresh = NoFiles /\ latest = NoFiles /\ committed = {}
        /\ count = [writes |-> 0, foreign |-> 0, staged |-> 0, faults |-> 0]
-----------------------------------------------------------------------------
(* Histories. *)

Version(h, f) ==
    LET at == {i \in 1..Len(h) : f \in DOMAIN h[i]}
    IN  IF at = {} THEN 0 ELSE h[CHOOSE i \in at : \A j \in at : j <= i][f]

PairsOf(p) == {<<f, p[f]>> : f \in DOMAIN p}

Pairs(h) == {<<f, 0>> : f \in Files} \cup UNION {PairsOf(h[i]) : i \in 1..Len(h)}

(* The number of commits two branches share. *)
Fork(a, b) ==
    CHOOSE n \in 0..Len(a) : /\ n <= Len(b)
                             /\ n < Len(a) /\ n < Len(b) => a[n + 1] # b[n + 1]
                             /\ \A i \in 1..n : a[i] = b[i]

(* rev-list b..a: the commits of a that b lacks, by hash. *)
Beyond(a, b) == SubSeq(a, Fork(a, b) + 1, Len(a))

(* The patches of a that b lacks, too: rev-list --cherry-pick b...a. *)
Missing(a, b) == ToSet(Beyond(a, b)) \ ToSet(Beyond(b, a))

(* The entries of h at the positions "at", in their order. *)
Entries(h, at) ==
    [k \in 1..Cardinality(at) |->
        h[CHOOSE i \in at : Cardinality({j \in at : j <= i}) = k]]

(* The commits to pick: those of the missing patches, in their order. *)
Unpicked(a, b) ==
    LET own == Beyond(a, b)
        missing == Missing(a, b)
    IN  Entries(own, {i \in 1..Len(own) : own[i] \in missing})

Conflicts(a, b) ==
    \E p \in Missing(a, b), q \in Missing(b, a) : DOMAIN p \cap DOMAIN q # {}

(* Files whose work tree or index differs from HEAD. *)
Dirty == {f \in Files : tree[f] # Version(local, f) \/ index[f] # Version(local, f)}
Staged == {f \in Files : index[f] # Version(local, f)}
-----------------------------------------------------------------------------
(* What a landing reads of its scope. *)

(* Somebody staged another version than the work tree has; committing      *)
(* would replace it.                                                       *)
Overlap(r) == {f \in Scope[r] \cap Staged : index[f] # tree[f]}

UnpushedNever(r) == {}   \* mutant of Unpushed: committed is landed

(* Commits that are not pushed, by hash, and touch the scope. *)
Unpushed(r) == {p \in ToSet(Beyond(local, seen)) : DOMAIN p \cap Scope[r] # {}}

AtStep(r, pc) == job[r].pc = pc

Goto(r, pc) == job' = [job EXCEPT ![r].pc = pc]

End(r, pairs) ==
    /\ job' = [job EXCEPT ![r] = Idle]
    /\ landed' = [landed EXCEPT ![r] = pairs]

Refused(r) == End(r, {})

(* The index after the staging of r has been taken back: HEAD in its       *)
(* scope, and what had been staged before where that was accepted.         *)
Unstaged(r) == [f \in Files |-> IF f \in job[r].kept THEN job[r].snap[f]
                                ELSE IF f \in Scope[r] THEN Version(local, f)
                                ELSE index[f]]
-----------------------------------------------------------------------------
(* From the check to the commit. *)

(* Nothing to do: the no-op of a landing of a card, or of one by paths      *)
(* when nothing at all is left to push.                                    *)
AlreadyLanded(r) ==
    /\ AtStep(r, "idle")
    /\ Scope[r] \cap Dirty = {}
    /\ Unpushed(r) = {}
    /\ End(r, {<<f, tree[f]>> : f \in Scope[r]})
    /\ UNCHANGED <<tree, index, git, history, count>>

(* A landing by paths has its scope published, but finds commits of others *)
(* that are not pushed: it does not push for them, and reports no success. *)
RefuseUnpushed(r) ==
    /\ AtStep(r, "idle")
    /\ Scope[r] \cap Dirty = {}
    /\ Unpushed(r) = {} /\ Beyond(local, seen) # <<>>
    /\ Refused(r)
    /\ UNCHANGED <<tree, index, git, history, count>>

(* Nothing to commit, but an earlier landing has not been pushed. *)
RetryPush(r) ==
    /\ AtStep(r, "idle")
    /\ Scope[r] \cap Dirty = {}
    /\ Unpushed(r) # {}
    /\ job' = [job EXCEPT ![r] = [Idle EXCEPT !.pc = "fetch", !.hash = local,
                 !.pairs = UNION {PairsOf(p) : p \in Unpushed(r)}]]
    /\ UNCHANGED <<tree, index, git, history, count, landed>>

RefuseOverlap(r) ==
    /\ AtStep(r, "idle")
    /\ Overlap(r) # {}
    /\ Refused(r)
    /\ UNCHANGED <<tree, index, git, history, count>>

(* The manifest: what differs from HEAD in the work tree. *)
Plan(r) ==
    /\ AtStep(r, "idle")
    /\ Scope[r] \cap Dirty # {}
    /\ Overlap(r) = {}
    /\ job' = [job EXCEPT ![r] = [Idle EXCEPT !.pc = "stage",
                 !.manifest = {f \in Scope[r] : tree[f] # Version(local, f)},
                 !.kept = Scope[r] \cap Staged]]
    /\ UNCHANGED <<tree, index, git, history, count, landed>>

(* The index is copied if somebody's staging was accepted, the paths are   *)
(* added, and what is staged of them must be the manifest.                 *)
Stage(r) ==
    LET added == {f \in Scope[r] : tree[f] # Version(local, f)}
    IN  /\ AtStep(r, "stage")
        /\ IF added = job[r].manifest
           THEN /\ index' = [f \in Files |-> IF f \in Scope[r] THEN tree[f] ELSE index[f]]
                /\ job' = [job EXCEPT ![r].pc = "commit",
                             ![r].snap = IF job[r].kept # {} THEN index ELSE NoFiles]
                /\ UNCHANGED landed
           ELSE /\ index' = [f \in Files |-> IF f \in Scope[r] \ job[r].kept
                                             THEN Version(local, f) ELSE index[f]]
                /\ Refused(r)
        /\ UNCHANGED <<tree, git, history, count>>

(* The commit takes the files of the manifest from the work tree, and      *)
(* nothing else that is staged; with nothing to commit, git refuses.       *)
Commit(r) ==
    LET changed == {f \in job[r].manifest : tree[f] # Version(local, f)}
        patch == [f \in changed |-> tree[f]]
    IN  /\ AtStep(r, "commit")
        /\ IF changed # {}
           THEN /\ local' = Append(local, patch)
                /\ index' = [f \in Files |-> IF f \in job[r].manifest THEN tree[f] ELSE index[f]]
                /\ committed' = committed \cup PairsOf(patch)
                /\ job' = [job EXCEPT ![r] = [Idle EXCEPT !.pc = "verify", !.pairs = PairsOf(patch),
                                                !.manifest = job[r].manifest]]
                /\ UNCHANGED landed
           ELSE /\ index' = Unstaged(r)
                /\ Refused(r)
                /\ UNCHANGED <<local, committed>>
        /\ UNCHANGED <<tree, remote, seen, fresh, latest, count>>

(* HEAD is read after the commit, and must show the files of the manifest. *)
Verify(r) ==
    /\ AtStep(r, "verify")
    /\ IF local # <<>> /\ DOMAIN Last(local) = job[r].manifest
       THEN /\ job' = [job EXCEPT ![r].pc = "fetch", ![r].hash = local, ![r].manifest = {}]
            /\ UNCHANGED landed
       ELSE Refused(r)
    /\ UNCHANGED <<tree, index, git, history, count>>
-----------------------------------------------------------------------------
(* The push. *)

OwnOnly(r) ==   \* mutant of ToPick: commits of other landings are not taken along
    /\ Missing(local, remote) = {Last(job[r].hash)}
    /\ ~Conflicts(local, remote)

(* The commit to push must be among the commits the remote lacks.          *)
ToPick(r) ==
    /\ IsPrefix(job[r].hash, local)
    /\ Len(job[r].hash) > Fork(local, remote)
    /\ Last(job[r].hash) \in Missing(local, remote)
    /\ ~Conflicts(local, remote)

(* With nothing new at the remote the branch is pushed as it is; otherwise *)
(* the commits the remote lacks are cherry-picked onto it in a work tree   *)
(* of their own.                                                           *)
Fetch(r) ==
    /\ AtStep(r, "fetch")
    /\ seen' = remote
    /\ \/ /\ IsPrefix(remote, local)
          /\ Goto(r, "push")
          /\ UNCHANGED landed
       \/ /\ ~IsPrefix(remote, local)
          /\ ToPick(r)
          /\ job' = [job EXCEPT ![r].pc = "pushPick", ![r].hash = <<>>,
                       ![r].tip = remote \o Unpicked(local, remote)]
          /\ UNCHANGED landed
       \/ /\ ~IsPrefix(remote, local)
          /\ ~ToPick(r)
          /\ Refused(r)
    /\ UNCHANGED <<tree, index, local, remote, history, count>>

(* After a push the remote branch must contain the commit. *)
PushIsThere(r) == IsPrefix(job[r].hash, seen')

(* HEAD is pushed as it is now; the remote takes a fast-forward only. *)
Push(r) ==
    /\ AtStep(r, "push")
    /\ IF IsPrefix(remote, local)
       THEN /\ remote' = local
            /\ seen' = local
            /\ IF PushIsThere(r) THEN End(r, job[r].pairs) ELSE Refused(r)
       ELSE /\ Refused(r)
            /\ UNCHANGED <<remote, seen>>
    /\ UNCHANGED <<tree, index, local, history, count>>

PushPick(r) ==
    /\ AtStep(r, "pushPick")
    /\ IF IsPrefix(remote, job[r].tip)
       THEN /\ remote' = job[r].tip
            /\ seen' = job[r].tip
            /\ Goto(r, "settle")
            /\ UNCHANGED landed
       ELSE /\ Refused(r)
            /\ UNCHANGED <<remote, seen>>
    /\ UNCHANGED <<tree, index, local, history, count>>

(* The branch follows the remote if the remote has all its patches and     *)
(* changes no dirty file.  What others have staged is remembered.          *)
Settle(r) ==
    LET moved == {f \in Files : Version(local, f) # Version(remote, f)}
    IN  /\ AtStep(r, "settle")
        /\ seen' = remote
        /\ IF Missing(local, remote) = {} /\ moved \cap Dirty = {}
           THEN /\ job' = [job EXCEPT ![r].pc = "move", ![r].kept = Staged,
                             ![r].snap = IF Staged # {} THEN index ELSE NoFiles]
                /\ UNCHANGED landed
           ELSE End(r, job[r].pairs)
        /\ UNCHANGED <<tree, index, local, remote, history, count>>

HardReset(from, to) == {}   \* mutant of InTheWay: git reset --hard

(* The files that keep git reset --keep from moving the branch. *)
InTheWay(from, to) == {f \in Dirty : Version(from, f) # Version(to, f)}

(* git reset --keep origin/<branch>, and the staging remembered is put     *)
(* back.  A branch that is not moved is only reported.                     *)
Move(r) ==
    /\ AtStep(r, "move")
    /\ IF InTheWay(local, seen) = {}
       THEN /\ local' = seen
            /\ tree' = [f \in Files |-> IF Version(local, f) # Version(seen, f)
                                        THEN Version(seen, f) ELSE tree[f]]
            /\ index' = [f \in Files |-> IF f \in job[r].kept THEN job[r].snap[f]
                                         ELSE Version(seen, f)]
       ELSE UNCHANGED <<local, tree, index>>
    /\ End(r, job[r].pairs)
    /\ UNCHANGED <<remote, seen, history, count>>
-----------------------------------------------------------------------------
(* Faults and the world around. *)

Fault == /\ count.faults < MaxFaults
         /\ count' = [count EXCEPT !.faults = @ + 1]

HookRefuses(r) == /\ AtStep(r, "commit")
                  /\ Fault
                  /\ index' = Unstaged(r)
                  /\ Refused(r)
                  /\ UNCHANGED <<tree, git, history>>

LoseConnection(r) == /\ job[r].pc \in {"fetch", "push", "pushPick", "settle"}
                     /\ Fault
                     /\ Refused(r)
                     /\ UNCHANGED <<tree, index, git, history>>

Kill(r) == /\ ~AtStep(r, "idle")
           /\ Fault
           /\ End(r, {})
           /\ UNCHANGED <<tree, index, git, history>>

Write(f) == /\ count.writes < MaxWrites
            /\ count' = [count EXCEPT !.writes = @ + 1]
            /\ fresh' = [fresh EXCEPT ![f] = @ + 1]
            /\ latest' = [latest EXCEPT ![f] = fresh'[f]]
            /\ tree' = [tree EXCEPT ![f] = fresh'[f]]
            /\ UNCHANGED <<index, git, job, landed, committed>>

StageByHand(f) == /\ count.staged < MaxStaged
                  /\ index[f] # tree[f]
                  /\ count' = [count EXCEPT !.staged = @ + 1]
                  /\ index' = [index EXCEPT ![f] = tree[f]]
                  /\ UNCHANGED <<tree, git, job, landed, history>>

PushFromElsewhere(f) ==
    /\ count.foreign < MaxForeign
    /\ count' = [count EXCEPT !.foreign = @ + 1]
    /\ fresh' = [fresh EXCEPT ![f] = @ + 1]
    /\ remote' = Append(remote, [g \in {f} |-> fresh'[f]])
    /\ UNCHANGED <<tree, index, local, seen, job, landed, latest, committed>>
-----------------------------------------------------------------------------
Land(r) ==
    \/ AlreadyLanded(r) \/ RefuseUnpushed(r) \/ RetryPush(r) \/ RefuseOverlap(r) \/ Plan(r)
    \/ Stage(r) \/ Commit(r) \/ Verify(r)
    \/ Fetch(r) \/ Push(r) \/ PushPick(r) \/ Settle(r) \/ Move(r)

Next ==
    \/ \E r \in Runs : Land(r) \/ HookRefuses(r) \/ LoseConnection(r) \/ Kill(r)
    \/ \E f \in Files : Write(f) \/ StageByHand(f) \/ PushFromElsewhere(f)

(* A landing that is not reported done is run again: by the loop, whose     *)
(* next step it stays, or by the command the report prints.                 *)
Fairness == \A r \in Runs : WF_vars(Land(r))

Spec == Init /\ [][Next]_vars /\ Fairness
-----------------------------------------------------------------------------
(* The types of the variables. *)
TypeOK ==
    /\ tree \in [Files -> Nat] /\ index \in [Files -> Nat]
    /\ \A h \in {local, remote, seen} : \A i \in 1..Len(h) : DOMAIN h[i] \subseteq Files
    /\ \A r \in Runs : job[r].pc \in Pcs

(* A landing that reports success does not speak for a commit that is only *)
(* local: in spite of other landings that commit, push and move the branch *)
(* between any two of its steps, of faults and of pushes from elsewhere.   *)
PassIsPublished == \A r \in Runs : landed[r] \cap Pairs(local) \subseteq Pairs(remote)

(* What was last written to a file in this checkout stays in its work tree *)
(* until it has been committed: no landing overwrites work in progress.    *)
WorkKept == \A f \in Files : latest[f] = tree[f] \/ <<f, latest[f]>> \in committed \cup {<<f, 0>>}

(* What a landing needs a person for: a version staged by hand that differs *)
(* from the work tree's, or a patch that conflicts with the remote.         *)
NeedsHand ==
    \/ \E r \in Runs : Overlap(r) # {}
    \/ Conflicts(local, remote)

(* Commits do not stay in this checkout: again and again everything on the *)
(* branch is at the remote, in spite of lost connections, kills and pushes *)
(* that were overtaken - unless a landing needs a person.                  *)
PublishedInTheEnd == []<>(Missing(local, remote) = {} \/ NeedsHand)

(* The comment says that following the remote updates only the files its   *)
(* commits changed: what was committed here stays on one of the branches.  *)
CommitsKept == committed \subseteq Pairs(local) \cup Pairs(remote)
=============================================================================
