----------------------------- MODULE BaseLedger -----------------------------
(***************************************************************************)
(* What finalizing promises about the base branch, without saying how: a   *)
(* ledger to which merges of cards and commits of people are added at the  *)
(* end, and from which only a last merge that nobody relies on yet (and    *)
(* what people commit after it) may be struck.  There are no runs here, no *)
(* lock, no checks and no failures.                                        *)
(* Finalize is shown to implement this module.                             *)
(***************************************************************************)
EXTENDS Naturals, Sequences

CONSTANTS Cards,     \* cards that have a branch
          Remote,    \* TRUE iff there is a remote to push to
          MaxTip     \* bound on the commits of a card branch

VARIABLES commits,   \* the base branch: what was merged, oldest first
          passed,    \* commits of cards that were given a PASS
          pushed,    \* how many commits of the base branch the remote has
          versions,  \* how many of them were in each version deployed
          named      \* positions that finalization records name

vars == <<commits, passed, pushed, versions, named>>

NoCard == "outside"
Unbound == MaxTip + 1   \* what a PASS of the old kind names: no commit

Init == /\ commits = <<>>
        /\ passed \in SUBSET [card : Cards, commit : {Unbound}]
        /\ pushed = 0
        /\ versions \in {<<>>, <<0>>}
        /\ named = {}

Current == versions[Len(versions)]

(* An auditor passed this merge of a card, or its card without a commit. *)
Vouched(e) == e \in passed \/ [card |-> e.card, commit |-> Unbound] \in passed

(* An auditor passes commit k of a card, merged or not. *)
Pass(c, k) == /\ passed' = passed \cup {[card |-> c, commit |-> k]}
              /\ UNCHANGED <<commits, pushed, versions, named>>

(* A merge brings in something new of its card, which was given a PASS for *)
(* what it brings in or for less.                                          *)
Merge(c, k) == /\ \A i \in 1..Len(commits) : commits[i].card = c => commits[i].commit < k
               /\ \E j \in 0..k : Vouched([card |-> c, commit |-> j])
               /\ commits' = Append(commits, [card |-> c, commit |-> k])
               /\ UNCHANGED <<passed, pushed, versions, named>>

(* A person commits on the base branch. *)
Foreign == /\ commits' = Append(commits, [card |-> NoCard, commit |-> 0])
           /\ UNCHANGED <<passed, pushed, versions, named>>

(* Nobody relies on commit i yet. *)
Open(i) == i > pushed /\ (versions # <<>> => i > Current) /\ i \notin named

(* The last merge is taken back, with what people have committed since, or *)
(* that alone.                                                             *)
Undo == \E k \in 1..Len(commits) :
           /\ \A i \in k..Len(commits) : Open(i)
           /\ \A i \in (k + 1)..Len(commits) : commits[i].card = NoCard
           /\ commits' = SubSeq(commits, 1, k - 1)
           /\ UNCHANGED <<passed, pushed, versions, named>>

Push == /\ pushed' = Len(commits)
        /\ UNCHANGED <<commits, passed, versions, named>>

(* The whole branch is deployed, if each merge that this adds to the       *)
(* deployed version was passed; the first time, if the last one was.       *)
Deploy == /\ \A i \in 1..Len(commits) :
                (IF versions = <<>> THEN i = Len(commits) ELSE i > Current)
                  => commits[i].card = NoCard \/ Vouched(commits[i])
          /\ versions' = Append(versions, Len(commits))
          /\ UNCHANGED <<commits, passed, pushed, named>>

(* A record names commit i as delivered. *)
Record(i) == /\ i \in 1..Len(commits)
             /\ Remote => i <= pushed
             /\ named' = named \cup {i}
             /\ UNCHANGED <<commits, passed, pushed, versions>>

Next == \/ \E c \in Cards, k \in 0..MaxTip : Pass(c, k) \/ Merge(c, k)
        \/ Foreign
        \/ Undo
        \/ Push
        \/ Deploy
        \/ \E i \in 1..Len(commits) : Record(i)

Spec == Init /\ [][Next]_vars
=============================================================================
