-------------------------- MODULE Finalize_proofs --------------------------
(***************************************************************************)
(* Proofs about Finalize for all values of its constants.                  *)
(*                                                                         *)
(* What makes the invariants inductive is the merge lock: whoever is past  *)
(* it holds it, so that between the merge of a run and its record nobody   *)
(* else merges, pushes, deploys or writes a record.  People do commit in   *)
(* between, and what is said of a run below allows for that.               *)
(***************************************************************************)
EXTENDS Finalize, SequenceTheorems, TLAPS

(* Whoever is past the lock holds it. *)
Held == \A r \in Runs : run[r].pc \notin {"idle", "checked"} => lock = r

(* A verdict names a commit that was there when it was given, or none.     *)
Bounded == \A c \in Cards :
              /\ Len(verdicts[c]) <= MaxVerdicts
              /\ \A v \in 1..Len(verdicts[c]) :
                    verdicts[c][v].commit <= tip[c] \/ verdicts[c][v].commit = Unbound

(* Commit i of the base branch was given a PASS, or its card one of the    *)
(* old kind.                                                               *)
Audited(i) == \E v \in 1..Len(verdicts[trunk[i].card]) :
                 /\ verdicts[trunk[i].card][v].value = "PASS"
                 /\ For(verdicts[trunk[i].card][v], trunk[i].commit)

(* All that the next deployment would add was. *)
Clear == \A i \in ToDeploy : trunk[i].card # NoCard => Audited(i)

(* Commit m of the base branch is a merge of card c, or what people        *)
(* committed upon it.                                                      *)
Names(c, m) == \E i \in 1..Len(trunk) :
                  /\ i <= m /\ m <= Len(trunk)
                  /\ trunk[i].card = c
                  /\ \A j \in (i + 1)..m : trunk[j].card = NoCard

(* From commit i on nothing is pushed, deployed or named in a record.      *)
Fresh(i) == /\ i > origin
            /\ \A k \in 1..Len(versions) : versions[k] < i
            /\ \A c \in Cards : \A k \in 1..Len(records[c]) : records[c][k].merge < i

(* A run that has begun has a card, and a PASS of it. *)
HasPass(x) == /\ x.card \in Cards
              /\ x.verdict \in 1..Len(verdicts[x.card])
              /\ verdicts[x.card][x.verdict].value = "PASS"

(* What its own merge has left of the base branch, while nobody has relied *)
(* on it yet.                                                              *)
OnTop(x) == \E i \in 1..Len(trunk) :
               /\ trunk[i].card = x.card
               /\ \A j \in (i + 1)..Len(trunk) : trunk[j].card = NoCard
               /\ Fresh(i)
               /\ x.pc = "merged" \/ i <= x.merge

(* Where a run is, and what it may rely on there. *)
Fine(x) ==
    /\ x.merge <= Len(trunk)
    /\ x.pc # "idle" => HasPass(x)
    /\ x.pc \in {"idle", "checked", "locked", "ready", "merged"} => x.merge = 0
    /\ x.pc \in {"merged", "regress", "undo"} => OnTop(x)
    /\ x.pc = "settle" /\ x.merge # 0 => Names(x.card, Len(trunk))
    /\ x.pc \in {"push", "push_again", "deploy", "build", "record"} /\ x.merge # 0
         => Names(x.card, x.merge)
    /\ x.pc \in {"deploy", "build", "record"} /\ Remote => x.merge <= origin
    /\ x.pc = "build" => Clear

RunInv == /\ run \in [Runs -> RunState]
          /\ lock \in Runs \cup {NoRun}
          /\ Held
          /\ \A r \in Runs : Fine(run[r])

WorldInv == /\ tip \in [Cards -> 0..MaxTip]
            /\ verdicts \in [Cards -> Seq(Verdicts)]
            /\ trunk \in Seq(Trunk)
            /\ origin \in 0..Len(trunk)
            /\ versions \in Seq(0..Len(trunk))
            /\ records \in [Cards -> Seq(Records)]
            /\ Bounded
            /\ MergedOnce
            /\ RecordNamesDelivery
            /\ RecordedIsPushed
            /\ DeployedWasAudited

IInv == /\ RunInv
        /\ WorldInv
        /\ faults \in 0..MaxFaults
        /\ reruns \in 0..MaxReruns
-----------------------------------------------------------------------------
LEMMA IdleRun == Idle \in RunState /\ Idle.merge = 0 /\ Idle.pc = "idle"
  BY FinalizeAssumption DEF Idle, RunState, NoCard, Statuses

LEMMA Typed ==
    ASSUME IInv
    PROVE  /\ run \in [Runs -> RunState] /\ \A r \in Runs : run[r] \in RunState
           /\ \A r \in Runs : run[r].merge \in Nat /\ run[r].head \in Nat
           /\ trunk \in Seq(Trunk) /\ Len(trunk) \in Nat
           /\ \A i \in 1..Len(trunk) : trunk[i] \in Trunk
           /\ versions \in Seq(0..Len(trunk)) /\ Len(versions) \in Nat
           /\ origin \in Nat /\ origin <= Len(trunk)
           /\ records \in [Cards -> Seq(Records)]
           /\ verdicts \in [Cards -> Seq(Verdicts)]
<1>1. run \in [Runs -> RunState] /\ WorldInv
  BY DEF IInv, RunInv
<1>2. \A r \in Runs : run[r] \in RunState
  BY <1>1
<1>3. \A r \in Runs : run[r].merge \in Nat /\ run[r].head \in Nat
  BY <1>2 DEF RunState
<1> QED
  BY <1>1, <1>2, <1>3 DEF WorldInv

LEMMA InitInv == Init => IInv
<1> SUFFICES ASSUME Init PROVE IInv
  OBVIOUS
<1>1. \A S : <<>> \in Seq(S) /\ Len(<<>>) = 0
  OBVIOUS
<1>2. Idle \in RunState /\ Idle.merge = 0 /\ Idle.pc = "idle"
  BY IdleRun
<1>3. LegacyPass \in Verdicts /\ LegacyPass.commit = Unbound
  BY FinalizeAssumption DEF LegacyPass, Verdicts, Unbound
<1>4. \A c \in Cards : verdicts[c] = <<>> \/ verdicts[c] = <<LegacyPass>>
  BY DEF Init
<1>5. \A c \in Cards : /\ verdicts[c] \in Seq(Verdicts) /\ Len(verdicts[c]) \in 0..1
                      /\ \A v \in 1..Len(verdicts[c]) : verdicts[c][v] = LegacyPass
  <2> SUFFICES ASSUME NEW c \in Cards
               PROVE  /\ verdicts[c] \in Seq(Verdicts) /\ Len(verdicts[c]) \in 0..1
                      /\ \A v \in 1..Len(verdicts[c]) : verdicts[c][v] = LegacyPass
    OBVIOUS
  <2>1. CASE verdicts[c] = <<>>
    BY <1>1, <2>1
  <2>2. CASE verdicts[c] = <<LegacyPass>>
    BY <1>3, <2>2
  <2> QED
    BY <1>4, <2>1, <2>2
<1>6. verdicts \in [Cards -> Seq(Verdicts)] /\ Bounded
  <2>1. verdicts \in [Cards -> Seq(Verdicts)]
    BY <1>5 DEF Init
  <2>2. Bounded
    BY <1>3, <1>5, FinalizeAssumption DEF Bounded
  <2> QED
    BY <2>1, <2>2
<1>7. trunk \in Seq(Trunk) /\ Len(trunk) = 0 /\ versions \in Seq(0..Len(trunk))
  <2>1. trunk = <<>> /\ (versions = <<>> \/ versions = <<0>>)
    BY DEF Init
  <2>2. Len(trunk) = 0 /\ 0 \in 0..0 /\ <<0>> \in Seq(0..0)
    BY <2>1
  <2> QED
    BY <1>1, <2>1, <2>2
<1>8. RunInv
  <2>1. \A r \in Runs : run[r] = Idle
    BY DEF Init
  <2>2. Fine(Idle)
    BY <1>2, <1>7 DEF Fine
  <2> QED
    BY <1>2, <2>1, <2>2 DEF Init, RunInv, Held
<1>9. MergedOnce /\ RecordNamesDelivery /\ RecordedIsPushed /\ DeployedWasAudited
  BY <1>1, <1>7 DEF Init, MergedOnce, RecordNamesDelivery, RecordedIsPushed, DeployedWasAudited
<1> QED
  BY <1>1, <1>6, <1>7, <1>8, <1>9, FinalizeAssumption DEF Init, IInv, WorldInv
-----------------------------------------------------------------------------
(* Steps that change runs and nothing else.                                *)

LEMMA WorldKept ==
    ASSUME IInv, UNCHANGED world
    PROVE  WorldInv' /\ \A x : Fine(x)' <=> Fine(x)
<1>1. UNCHANGED <<tip, verdicts, trunk, origin, versions, records>>
  BY DEF world
<1>2. WorldInv'
  BY <1>1 DEF IInv, WorldInv, Bounded, MergedOnce, RecordNamesDelivery, RecordedIsPushed,
     DeployedWasAudited, Deployed, Latest
<1>3. Clear' <=> Clear
  BY <1>1 DEF Clear, ToDeploy, Since, Latest, Audited
<1>4. \A x : /\ HasPass(x)' <=> HasPass(x)
             /\ OnTop(x)' <=> OnTop(x)
  BY <1>1 DEF HasPass, OnTop, Fresh
<1>5. \A c, m : Names(c, m)' <=> Names(c, m)
  BY <1>1 DEF Names
<1> QED
  BY <1>1, <1>2, <1>3, <1>4, <1>5 DEF Fine

(* A run that returns gives the lock back if it holds it. *)
LEMMA ReturnRun ==
    ASSUME IInv, NEW r \in Runs, Return(r)
    PROVE  /\ run' \in [Runs -> RunState] /\ run'[r] = Idle
           /\ \A q \in Runs \ {r} : run'[q] = run[q]
           /\ lock' = (IF lock = r THEN NoRun ELSE lock)
           /\ lock' \in Runs \cup {NoRun}
           /\ Held'
<1>1. Idle \in RunState /\ Idle.pc = "idle"
  BY IdleRun
<1>2. run \in [Runs -> RunState] /\ lock \in Runs \cup {NoRun} /\ Held
  BY DEF IInv, RunInv
<1>3. /\ run' \in [Runs -> RunState] /\ run'[r] = Idle
      /\ \A q \in Runs \ {r} : run'[q] = run[q]
  BY <1>1, <1>2 DEF Return
<1>4. lock' = IF lock = r THEN NoRun ELSE lock
  BY DEF Return, Unlocked
<1>5. Held'
  BY <1>1, <1>2, <1>3, <1>4 DEF Held
<1> QED
  BY <1>2, <1>3, <1>4, <1>5

LEMMA QuietReturn ==
    ASSUME IInv, NEW r \in Runs, Return(r), UNCHANGED world
    PROVE  RunInv' /\ WorldInv'
<1>1. Fine(Idle)
  BY IdleRun, Typed DEF Fine
<1>2. \A q \in Runs : Fine(run'[q])
  BY <1>1, ReturnRun DEF IInv, RunInv
<1> QED
  BY <1>2, ReturnRun, WorldKept DEF RunInv

(* A run past the lock that goes on. *)
LEMMA QuietMove ==
    ASSUME IInv, NEW r \in Runs, UNCHANGED world, UNCHANGED lock,
           NEW x \in RunState, run' = [run EXCEPT ![r] = x],
           run[r].pc \notin {"idle", "checked"}, Fine(x)
    PROVE  RunInv' /\ WorldInv'
<1>1. run \in [Runs -> RunState] /\ lock \in Runs \cup {NoRun} /\ Held /\ \A q \in Runs : Fine(run[q])
  BY DEF IInv, RunInv
<1>2. run' \in [Runs -> RunState] /\ run'[r] = x /\ \A q \in Runs \ {r} : run'[q] = run[q]
  BY <1>1
<1>3. Held'
  BY <1>1, <1>2 DEF Held
<1>4. \A q \in Runs : Fine(run'[q])
  BY <1>1, <1>2
<1> QED
  BY <1>1, <1>2, <1>3, <1>4, WorldKept DEF RunInv

LEMMA StartKept ==
    ASSUME IInv, NEW r \in Runs, NEW c \in Cards, NEW push \in BOOLEAN, NEW deploy \in BOOLEAN,
           Start(r, c, push, deploy)
    PROVE  RunInv' /\ WorldInv'
<1>1. /\ run \in [Runs -> RunState] /\ lock \in Runs \cup {NoRun} /\ Held
      /\ \A q \in Runs : Fine(run[q])
      /\ verdicts[c] \in Seq(Verdicts) /\ Len(verdicts[c]) <= MaxVerdicts
  BY DEF IInv, RunInv, WorldInv, Bounded
<1>2. UNCHANGED world /\ UNCHANGED lock
  BY DEF Start
<1>3. verdicts[c] # <<>> /\ verdicts[c][Len(verdicts[c])].value = "PASS"
  BY DEF Start, CanFinalize, Passes, Latest
<1>4. PICK v \in 0..MaxVerdicts : v = Len(verdicts[c]) /\ v > 0
  BY <1>1, <1>3, FinalizeAssumption
<1>5. PICK x : x = [Idle EXCEPT !.pc = "checked", !.card = c, !.verdict = v,
                                !.push = push, !.deploy = deploy]
  OBVIOUS
<1>6. /\ x \in RunState /\ x.pc = "checked" /\ x.card = c
      /\ x.verdict = v /\ x.merge = 0
  BY <1>4, <1>5, IdleRun DEF RunState
<1>7. run' = [run EXCEPT ![r] = x]
  BY <1>4, <1>5 DEF Start
<1>8. Fine(x)
  BY <1>3, <1>4, <1>6, Typed DEF Fine, HasPass
<1>9. /\ run' \in [Runs -> RunState] /\ run'[r] = x
      /\ \A q \in Runs \ {r} : run'[q] = run[q]
  BY <1>1, <1>6, <1>7
<1>10. Held' /\ \A q \in Runs : Fine(run'[q])
  BY <1>1, <1>2, <1>6, <1>8, <1>9 DEF Held
<1> QED
  BY <1>1, <1>2, <1>9, <1>10, WorldKept DEF RunInv

LEMMA TakeLockKept ==
    ASSUME IInv, NEW r \in Runs, TakeLock(r)
    PROVE  RunInv' /\ WorldInv'
<1>1. UNCHANGED world
  BY DEF TakeLock
<1>2. CASE Return(r)
  BY <1>1, <1>2, QuietReturn
<1>3. CASE LockFree /\ lock' = r /\ Goto(r, "locked")
  <2>1. /\ run \in [Runs -> RunState] /\ run[r] \in RunState /\ Held
        /\ \A q \in Runs : Fine(run[q])
    BY DEF IInv, RunInv
  <2>2. PICK x : x = [run[r] EXCEPT !.pc = "locked"]
    OBVIOUS
  <2>3. /\ x \in RunState /\ x.pc = "locked" /\ x.merge = run[r].merge /\ x.card = run[r].card
        /\ x.verdict = run[r].verdict
    BY <2>1, <2>2 DEF RunState
  <2>4. /\ run' \in [Runs -> RunState] /\ run'[r] = x
        /\ \A q \in Runs \ {r} : run'[q] = run[q]
    BY <1>3, <2>1, <2>2, <2>3 DEF Goto
  <2>5. run[r].pc = "checked"
    BY DEF TakeLock, At
  <2>6. Fine(x)
    BY <2>1, <2>3, <2>5 DEF Fine, HasPass
  <2>7. \A q \in Runs : run[q].pc \in {"idle", "checked"}
    BY <1>3, <2>1, FinalizeAssumption DEF Held, LockFree, NoRun
  <2>8. Held' /\ \A q \in Runs : Fine(run'[q])
    BY <1>3, <2>1, <2>4, <2>6, <2>7 DEF Held
  <2> QED
    BY <1>1, <1>3, <2>4, <2>8, WorldKept DEF RunInv
<1> QED
  BY <1>2, <1>3 DEF TakeLock

(* What is known of a run that is past the lock. *)
LEMMA Past ==
    ASSUME IInv, NEW r \in Runs, run[r].pc \notin {"idle", "checked"}
    PROVE  /\ run[r] \in RunState /\ Fine(run[r]) /\ HasPass(run[r])
           /\ \A q \in Runs \ {r} : run[q].pc \in {"idle", "checked"}
  BY DEF IInv, RunInv, Held, Fine

LEMMA CheckIntervalKept ==
    ASSUME IInv, NEW r \in Runs, CheckInterval(r)
    PROVE  RunInv' /\ WorldInv'
<1>1. UNCHANGED world /\ run[r].pc = "locked"
  BY DEF CheckInterval, At
<1>2. CASE Return(r)
  BY <1>1, <1>2, QuietReturn
<1>3. CASE Goto(r, "ready") /\ UNCHANGED lock
  <2>1. PICK x : x = [run[r] EXCEPT !.pc = "ready"]
    OBVIOUS
  <2>2. /\ x \in RunState /\ x.pc = "ready" /\ x.merge = run[r].merge /\ x.card = run[r].card
        /\ x.verdict = run[r].verdict
    BY <1>1, <2>1, Past DEF RunState
  <2>3. run' = [run EXCEPT ![r] = x]
    BY <1>3, <2>1 DEF Goto
  <2>4. Fine(x)
    BY <1>1, <2>2, Past DEF Fine, HasPass
  <2> QED
    BY <1>1, <1>3, <2>2, <2>3, <2>4, QuietMove
<1> QED
  BY <1>2, <1>3 DEF CheckInterval

(* The head a run reads is its merge, or what people committed upon it.    *)
LEMMA ReadMergeKept ==
    ASSUME IInv, NEW r \in Runs, ReadMerge(r)
    PROVE  RunInv' /\ WorldInv'
<1>1. UNCHANGED world /\ UNCHANGED lock /\ run[r].pc = "merged" /\ Len(trunk) \in Nat
  BY Typed DEF ReadMerge, At
<1>2. PICK n \in Nat : n = Len(trunk)
  BY <1>1
<1>3. PICK x : x = [run[r] EXCEPT !.pc = "regress", !.merge = n]
  OBVIOUS
<1>4. /\ x \in RunState /\ x.pc = "regress" /\ x.merge = n /\ x.card = run[r].card
      /\ x.verdict = run[r].verdict
  BY <1>1, <1>3, Past DEF RunState
<1>5. run' = [run EXCEPT ![r] = x]
  BY <1>2, <1>3 DEF ReadMerge
<1>6. HasPass(x) /\ OnTop(x)
  BY <1>1, <1>2, <1>4, Past DEF Fine, HasPass, OnTop
<1>7. Fine(x)
  BY <1>2, <1>4, <1>6 DEF Fine
<1> QED
  BY <1>1, <1>4, <1>5, <1>7, QuietMove

LEMMA RegressionKept ==
    ASSUME IInv, NEW r \in Runs, RegressionPasses(r) \/ RegressionFails(r)
    PROVE  RunInv' /\ WorldInv'
<1>1. UNCHANGED world /\ run[r].pc = "regress" /\ Len(trunk) \in Nat
  BY Typed DEF RegressionPasses, RegressionFails, At
<1>2. CASE Return(r)
  BY <1>1, <1>2, QuietReturn
<1>3. ASSUME NEW pc \in {"settle", "undo"}, Goto(r, pc), UNCHANGED lock
      PROVE  RunInv' /\ WorldInv'
  <2>1. PICK x : x = [run[r] EXCEPT !.pc = pc]
    OBVIOUS
  <2>2. /\ x \in RunState /\ x.pc = pc /\ x.merge = run[r].merge /\ x.card = run[r].card
        /\ x.verdict = run[r].verdict
    BY <1>1, <2>1, Past DEF RunState
  <2>3. run' = [run EXCEPT ![r] = x]
    BY <1>3, <2>1 DEF Goto
  <2>4. HasPass(x) /\ OnTop(x) /\ x.merge <= Len(trunk)
    BY <1>1, <2>2, Past DEF Fine, HasPass, OnTop
  <2>5. Names(x.card, Len(trunk))
    BY <1>1, <2>4 DEF OnTop, Names
  <2>6. Fine(x)
    BY <2>2, <2>4, <2>5 DEF Fine
  <2> QED
    BY <1>1, <1>3, <2>2, <2>3, <2>6, QuietMove
<1> QED
  BY <1>2, <1>3 DEF RegressionPasses, RegressionFails

LEMMA SettleKept ==
    ASSUME IInv, NEW r \in Runs, Settle(r)
    PROVE  RunInv' /\ WorldInv'
<1>1. /\ UNCHANGED world /\ UNCHANGED lock /\ run[r].pc = "settle" /\ Len(trunk) \in Nat
      /\ run[r].merge \in Nat
  BY Typed DEF Settle, At
<1>2. PICK pc \in {"deploy", "push"} : pc = IF Synced THEN "deploy" ELSE "push"
  OBVIOUS
<1>3. PICK m \in Nat : m = IF run[r].merge = 0 THEN 0 ELSE Len(trunk)
  BY <1>1
<1>4. PICK h \in Nat : h = Len(trunk)
  BY <1>1
<1>5. PICK x : x = [run[r] EXCEPT !.pc = pc, !.merge = m, !.head = h]
  OBVIOUS
<1>6. /\ x \in RunState /\ x.pc = pc /\ x.merge = m /\ x.card = run[r].card
      /\ x.verdict = run[r].verdict
  BY <1>1, <1>5, Past DEF RunState
<1>7. run' = [run EXCEPT ![r] = x]
  <2>1. run[r] \in RunState
    BY <1>1, Past
  <2> QED
    BY <1>2, <1>3, <1>4, <1>5, <2>1 DEF Settle, RunState
<1>8. HasPass(x) /\ x.merge <= Len(trunk)
  BY <1>1, <1>3, <1>6, Past DEF HasPass
<1>9. x.merge # 0 => Names(x.card, x.merge)
  BY <1>1, <1>3, <1>6, Past DEF Fine
<1>10. x.pc = "deploy" /\ Remote => x.merge <= origin
  BY <1>2, <1>6, <1>8 DEF Synced
<1>11. Fine(x)
  BY <1>6, <1>8, <1>9, <1>10 DEF Fine
<1> QED
  BY <1>1, <1>6, <1>7, <1>11, QuietMove

(* What is covered was given a PASS. *)
LEMMA CoveredAudited ==
    ASSUME IInv, NEW i \in 1..Len(trunk), Covered(i)
    PROVE  Audited(i)
<1>1. trunk[i].card \in Cards
  <2>1. trunk[i] \in Trunk
    BY Typed
  <2> QED
    BY <2>1 DEF Covered, Trunk
<1>2. verdicts[trunk[i].card] \in Seq(Verdicts) /\ verdicts[trunk[i].card] # <<>>
  BY <1>1, Typed DEF Covered, Passes
<1>3. Len(verdicts[trunk[i].card]) \in 1..Len(verdicts[trunk[i].card])
  BY <1>2
<1> QED
  BY <1>3 DEF Covered, Passes, Latest, Audited

LEMMA CheckDeployKept ==
    ASSUME IInv, NEW r \in Runs, CheckDeploy(r)
    PROVE  RunInv' /\ WorldInv'
<1>1. /\ UNCHANGED world /\ UNCHANGED lock /\ run[r].pc = "deploy" /\ Len(trunk) \in Nat
      /\ run[r] \in RunState
  BY Typed, Past DEF CheckDeploy, At
<1>2. CASE Authorized(r)
  <2>1. PICK h \in Nat : h = IF run[r].resumed THEN Len(trunk) ELSE run[r].head
    BY <1>1 DEF RunState
  <2>2. PICK x : x = [run[r] EXCEPT !.pc = "build", !.head = h]
    OBVIOUS
  <2>3. /\ x \in RunState /\ x.pc = "build" /\ x.merge = run[r].merge /\ x.card = run[r].card
        /\ x.verdict = run[r].verdict
    BY <1>1, <2>2 DEF RunState
  <2>4. run' = [run EXCEPT ![r] = x]
    BY <1>1, <1>2, <2>1, <2>2 DEF CheckDeploy, RunState
  <2>5. Clear
    <3>1. ToDeploy \subseteq 1..Len(trunk)
      <4>1. CASE versions = <<>>
        BY <1>1, <4>1 DEF ToDeploy
      <4>2. CASE versions # <<>>
        <5>1. versions[Len(versions)] \in 0..Len(trunk)
          BY <4>2, Typed
        <5> QED
          BY <1>1, <4>2, <5>1 DEF ToDeploy, Since, Latest
      <4> QED
        BY <4>1, <4>2
    <3> QED
      BY <1>2, <3>1, CoveredAudited DEF Authorized, Clear
  <2>6. Fine(x)
    BY <1>1, <2>3, <2>5, Past DEF Fine, HasPass
  <2> QED
    BY <1>1, <2>3, <2>4, <2>6, QuietMove
<1>3. CASE ~Authorized(r)
  <2>1. PICK x : x = [run[r] EXCEPT !.pc = "record", !.status = "deploy_failed"]
    OBVIOUS
  <2>2. /\ x \in RunState /\ x.pc = "record" /\ x.merge = run[r].merge /\ x.card = run[r].card
        /\ x.verdict = run[r].verdict
    BY <1>1, <2>1 DEF RunState, Statuses
  <2>3. run' = [run EXCEPT ![r] = x]
    BY <1>1, <1>3, <2>1 DEF CheckDeploy, RunState
  <2>4. Fine(x)
    BY <1>1, <2>2, Past DEF Fine, HasPass
  <2> QED
    BY <1>1, <2>2, <2>3, <2>4, QuietMove
<1> QED
  BY <1>2, <1>3

LEMMA NotDeployedKept ==
    ASSUME IInv, NEW r \in Runs, DeployFails(r) \/ SkipDeploy(r)
    PROVE  RunInv' /\ WorldInv'
<1>1. /\ UNCHANGED world /\ UNCHANGED lock /\ run[r].pc \in {"deploy", "build"}
      /\ run[r] \in RunState
  BY Past DEF DeployFails, SkipDeploy, At
<1>2. PICK s \in Statuses : run' = [run EXCEPT ![r].pc = "record", ![r].status = s]
  BY DEF DeployFails, SkipDeploy, Statuses
<1>3. PICK x : x = [run[r] EXCEPT !.pc = "record", !.status = s]
  OBVIOUS
<1>4. /\ x \in RunState /\ x.pc = "record" /\ x.merge = run[r].merge /\ x.card = run[r].card
      /\ x.verdict = run[r].verdict
  BY <1>1, <1>3 DEF RunState
<1>5. run' = [run EXCEPT ![r] = x]
  BY <1>1, <1>2, <1>3 DEF RunState
<1>6. Fine(x)
  BY <1>1, <1>4, Past DEF Fine, HasPass
<1> QED
  BY <1>1, <1>4, <1>5, <1>6, QuietMove

LEMMA RecordsName ==
    RecordNamesDelivery <=> \A c \in Cards : \A k \in 1..Len(records[c]) : Names(c, records[c][k].merge)
  BY DEF RecordNamesDelivery, Names

(* What a run resumes is a merge of its card, or what a record names.      *)
LEMMA ResumeKept ==
    ASSUME IInv, NEW r \in Runs, Resume(r)
    PROVE  RunInv' /\ WorldInv'
<1>1. /\ UNCHANGED world /\ UNCHANGED lock /\ run[r].pc = "ready" /\ run[r] \in RunState
      /\ Len(trunk) \in Nat /\ run[r].merge = 0 /\ run[r].card \in Cards
  BY Typed, Past DEF Resume, At, Fine, HasPass
<1>2. CASE Goto(r, "settle")
  <2>1. PICK x : x = [run[r] EXCEPT !.pc = "settle"]
    OBVIOUS
  <2>2. /\ x \in RunState /\ x.pc = "settle" /\ x.merge = 0 /\ x.card = run[r].card
        /\ x.verdict = run[r].verdict
    BY <1>1, <2>1 DEF RunState
  <2>3. run' = [run EXCEPT ![r] = x]
    BY <1>2, <2>1 DEF Goto
  <2>4. Fine(x)
    BY <1>1, <2>2, Past DEF Fine, HasPass
  <2> QED
    BY <1>1, <2>2, <2>3, <2>4, QuietMove
<1>3. ASSUME NEW m \in 1..Len(trunk), ResumePoint(r, m),
             run' = [run EXCEPT ![r].merge = m, ![r].resumed = TRUE,
                       ![r].pc = IF PushPending(m) THEN "push_again" ELSE "deploy"]
      PROVE  RunInv' /\ WorldInv'
  <2>0. m \in Nat
    BY <1>1
  <2>1. PICK pc \in {"push_again", "deploy"} : pc = IF PushPending(m) THEN "push_again" ELSE "deploy"
    OBVIOUS
  <2>2. PICK x : x = [run[r] EXCEPT !.merge = m, !.resumed = TRUE, !.pc = pc]
    OBVIOUS
  <2>3. /\ x \in RunState /\ x.pc = pc /\ x.merge = m /\ x.card = run[r].card
        /\ x.verdict = run[r].verdict
    BY <1>1, <2>0, <2>2 DEF RunState
  <2>4. run' = [run EXCEPT ![r] = x]
    BY <1>1, <1>3, <2>1, <2>2 DEF RunState
  <2>5. Names(x.card, m)
    <3> DEFINE c == run[r].card
    <3>1. CASE records[c] # <<>>
      <4>1. Len(records[c]) \in 1..Len(records[c]) /\ m = records[c][Len(records[c])].merge
        BY <1>1, <1>3, <3>1, Typed DEF ResumePoint, Latest
      <4> QED
        BY <1>1, <2>3, <4>1, RecordsName DEF IInv, WorldInv
    <3>2. CASE records[c] = <<>>
      <4>1. trunk[m].card = c
        BY <1>3, <3>2 DEF ResumePoint, Candidates
      <4>2. \A j \in (m + 1)..m : FALSE
        OBVIOUS
      <4> QED
        BY <1>1, <2>3, <4>1, <4>2 DEF Names
    <3> QED
      BY <3>1, <3>2
  <2>6. x.pc = "deploy" /\ Remote => x.merge <= origin
    BY <1>1, <2>1, <2>3, Typed DEF PushPending
  <2>7. Fine(x)
    BY <1>1, <2>3, <2>5, <2>6, Past DEF Fine, HasPass
  <2> QED
    BY <1>1, <2>3, <2>4, <2>7, QuietMove
<1> QED
  BY <1>2, <1>3 DEF Resume
-----------------------------------------------------------------------------
(* Steps that change the base branch.                                      *)

LEMMA LatestVersion ==
    ASSUME IInv, versions # <<>>
    PROVE  /\ Latest(versions) \in Nat /\ Latest(versions) <= Len(trunk)
           /\ Len(versions) \in 1..Len(versions) /\ Latest(versions) = versions[Len(versions)]
           /\ versions[1] \in Nat
<1>1. versions \in Seq(0..Len(trunk)) /\ Len(trunk) \in Nat
  BY Typed
<1>2. Len(versions) \in 1..Len(versions) /\ 1 \in 1..Len(versions)
  BY <1>1
<1>3. versions[Len(versions)] \in 0..Len(trunk) /\ versions[1] \in 0..Len(trunk)
  BY <1>1, <1>2
<1> QED
  BY <1>1, <1>2, <1>3 DEF Latest

LEMMA Deliveries ==
    ASSUME IInv
    PROVE  \A c \in Cards : \A k \in 1..Len(records[c]) :
              /\ records[c][k].merge \in Nat /\ Names(c, records[c][k].merge)
              /\ records[c][k].merge \in 1..Len(trunk)
<1> SUFFICES ASSUME NEW c \in Cards, NEW k \in 1..Len(records[c])
             PROVE  /\ records[c][k].merge \in Nat /\ Names(c, records[c][k].merge)
                    /\ records[c][k].merge \in 1..Len(trunk)
  OBVIOUS
<1>1. records[c][k] \in Records
  BY Typed
<1>2. Names(c, records[c][k].merge)
  BY RecordsName DEF IInv, WorldInv
<1> QED
  BY <1>1, <1>2, Typed DEF Records, Names

(* What lies below is not changed by a commit on top, or by an undo.       *)
LEMMA NamesStay ==
    ASSUME NEW c, NEW m \in Nat, Names(c, m), Len(trunk) \in Nat, Len(trunk') \in Nat, m <= Len(trunk'),
           \A i \in 1..m : trunk'[i] = trunk[i]
    PROVE  Names(c, m)'
<1>1. PICK i \in 1..Len(trunk) : /\ i <= m /\ m <= Len(trunk)
                                 /\ trunk[i].card = c
                                 /\ \A j \in (i + 1)..m : trunk[j].card = NoCard
  BY DEF Names
<1>2. i \in 1..Len(trunk') /\ trunk'[i].card = c /\ \A j \in (i + 1)..m : trunk'[j].card = NoCard
  BY <1>1
<1> QED
  BY <1>1, <1>2 DEF Names

LEMMA Longer ==
    ASSUME IInv, NEW e \in Trunk, trunk' = Append(trunk, e)
    PROVE  /\ trunk' \in Seq(Trunk) /\ Len(trunk') = Len(trunk) + 1 /\ Len(trunk') \in Nat
           /\ trunk'[Len(trunk) + 1] = e
           /\ \A i \in 1..Len(trunk) : trunk'[i] = trunk[i]
  BY Typed

LEMMA LongerWorld ==
    ASSUME IInv, NEW e \in Trunk, trunk' = Append(trunk, e),
           UNCHANGED <<tip, verdicts, origin, versions, records>>,
           e.card = NoCard \/ \A i \in 1..Len(trunk) : trunk[i].card = e.card => trunk[i].commit < e.commit
    PROVE  WorldInv'
<1>0. WorldInv /\ Len(trunk) \in Nat
  BY Typed DEF IInv
<1>1. /\ trunk' \in Seq(Trunk) /\ Len(trunk') = Len(trunk) + 1 /\ Len(trunk') \in Nat
      /\ trunk'[Len(trunk) + 1] = e
      /\ \A i \in 1..Len(trunk) : trunk'[i] = trunk[i]
  BY Longer
<1>2. versions \in Seq(0..Len(trunk')) /\ origin \in 0..Len(trunk')
  <2>1. \A k \in 1..Len(versions) : versions[k] \in 0..Len(trunk')
    BY <1>0, <1>1, Typed
  <2> QED
    BY <1>0, <1>1, <2>1, Typed
<1>3. Bounded' /\ RecordedIsPushed'
  BY <1>0 DEF WorldInv, Bounded, RecordedIsPushed
<1>4. MergedOnce'
  <2>1. \A i \in 1..Len(trunk') : i = Len(trunk) + 1 \/ i \in 1..Len(trunk)
    BY <1>0, <1>1
  <2> QED
    BY <1>0, <1>1, <2>1 DEF WorldInv, MergedOnce
<1>5. RecordNamesDelivery'
  <2>1. \A c \in Cards : \A k \in 1..Len(records[c]) : Names(c, records[c][k].merge)'
    <3> SUFFICES ASSUME NEW c \in Cards, NEW k \in 1..Len(records[c])
                 PROVE  Names(c, records[c][k].merge)'
      OBVIOUS
    <3>1. PICK m \in Nat : m = records[c][k].merge /\ m \in 1..Len(trunk) /\ Names(c, m)
      BY Deliveries
    <3>2. Names(c, m)'
      BY <1>0, <1>1, <3>1, NamesStay
    <3>3. records'[c][k].merge = m
      BY <3>1
    <3> QED
      BY <3>2, <3>3 DEF Names
  <2> QED
    BY <2>1 DEF RecordNamesDelivery, Names
<1>6. DeployedWasAudited'
  <2>1. versions # <<>> => Latest(versions) \in Nat /\ Latest(versions) <= Len(trunk)
    BY LatestVersion
  <2>2. \A i \in 1..Len(trunk') : Deployed(i) => i \in 1..Len(trunk) /\ trunk'[i] = trunk[i]
    BY <1>0, <1>1, <2>1 DEF Deployed
  <2>3. \A i \in 1..Len(trunk') : Deployed(i)' <=> Deployed(i)
    BY DEF Deployed, Latest
  <2> QED
    BY <1>0, <2>2, <2>3 DEF WorldInv, DeployedWasAudited
<1> QED
  BY <1>0, <1>1, <1>2, <1>3, <1>4, <1>5, <1>6 DEF WorldInv

LEMMA OutsideKept ==
    ASSUME IInv, OutsideCommit
    PROVE  RunInv' /\ WorldInv'
<1> DEFINE e == [card |-> NoCard, commit |-> 0, verdict |-> 0]
<1>1. e \in Trunk /\ e.card = NoCard
  BY FinalizeAssumption DEF Trunk
<1>2. trunk' = Append(trunk, e) /\ UNCHANGED <<tip, verdicts, origin, versions, records, lock, run>>
  BY DEF OutsideCommit
<1> HIDE DEF e
<1>3. WorldInv'
  BY <1>1, <1>2, LongerWorld
<1>4. /\ Len(trunk) \in Nat /\ Len(trunk') = Len(trunk) + 1
      /\ trunk'[Len(trunk) + 1].card = NoCard
      /\ \A i \in 1..Len(trunk) : trunk'[i] = trunk[i]
  BY <1>1, <1>2, Longer, Typed
<1>5. Clear => Clear'
  <2> SUFFICES ASSUME Clear, NEW i \in ToDeploy', trunk'[i].card # NoCard
               PROVE  Audited(i)'
    BY DEF Clear
  <2>1. i # Len(trunk) + 1
    BY <1>4
  <2>2. versions # <<>> /\ i \in Since /\ i \in 1..Len(trunk)
    BY <1>2, <1>4, <2>1, LatestVersion DEF ToDeploy, Since, Latest
  <2>3. Audited(i)
    BY <1>4, <2>2 DEF Clear, ToDeploy
  <2> QED
    BY <1>2, <1>4, <2>2, <2>3 DEF Audited
<1>6. ASSUME NEW q \in Runs PROVE Fine(run[q])'
  <2>1. Fine(run[q]) /\ run[q].merge \in Nat
    BY Typed DEF IInv, RunInv
  <2>2. run[q].merge <= Len(trunk')
    BY <1>4, <2>1 DEF Fine
  <2>3. run[q].pc # "idle" => HasPass(run[q])'
    BY <1>2, <2>1 DEF Fine, HasPass
  <2>4. ASSUME OnTop(run[q]) PROVE OnTop(run[q])'
    <3>1. PICK i \in 1..Len(trunk) : /\ trunk[i].card = run[q].card
                                     /\ \A j \in (i + 1)..Len(trunk) : trunk[j].card = NoCard
                                     /\ Fresh(i)
                                     /\ run[q].pc = "merged" \/ i <= run[q].merge
      BY <2>4 DEF OnTop
    <3>2. Fresh(i)'
      BY <1>2, <3>1 DEF Fresh
    <3>3. i \in 1..Len(trunk') /\ trunk'[i].card = run[q].card
      BY <1>4, <3>1
    <3>4. \A j \in (i + 1)..Len(trunk') : trunk'[j].card = NoCard
      <4> SUFFICES ASSUME NEW j \in (i + 1)..Len(trunk') PROVE trunk'[j].card = NoCard
        OBVIOUS
      <4>1. j = Len(trunk) + 1 \/ (j \in 1..Len(trunk) /\ j \in (i + 1)..Len(trunk))
        BY <1>4
      <4> QED
        BY <1>4, <3>1, <4>1
    <3> QED
      BY <1>2, <3>1, <3>2, <3>3, <3>4 DEF OnTop
  <2>5. ASSUME Names(run[q].card, Len(trunk)) PROVE Names(run[q].card, Len(trunk))'
    <3>1. PICK i \in 1..Len(trunk) : /\ trunk[i].card = run[q].card
                                     /\ \A j \in (i + 1)..Len(trunk) : trunk[j].card = NoCard
      BY <2>5 DEF Names
    <3>2. i \in 1..Len(trunk') /\ i <= Len(trunk') /\ trunk'[i].card = run[q].card
      BY <1>4, <3>1
    <3>3. \A j \in (i + 1)..Len(trunk') : trunk'[j].card = NoCard
      <4> SUFFICES ASSUME NEW j \in (i + 1)..Len(trunk') PROVE trunk'[j].card = NoCard
        OBVIOUS
      <4>1. j = Len(trunk) + 1 \/ (j \in 1..Len(trunk) /\ j \in (i + 1)..Len(trunk))
        BY <1>4
      <4> QED
        BY <1>4, <3>1, <4>1
    <3> QED
      BY <1>2, <1>4, <3>2, <3>3 DEF Names
  <2>6. ASSUME Names(run[q].card, run[q].merge) PROVE Names(run[q].card, run[q].merge)'
    <3>0. PICK c : c = run[q].card
      OBVIOUS
    <3>1. PICK m \in Nat : c = run[q].card /\ m = run[q].merge
      BY <2>1, <3>0
    <3>2. Names(c, m) /\ m <= Len(trunk)
      BY <2>6, <3>1 DEF Names
    <3>3. Names(c, m)'
      BY <1>4, <3>2, NamesStay
    <3> QED
      BY <1>2, <3>1, <3>3 DEF Names
  <2>7. run[q]' = run[q] /\ UNCHANGED origin
    BY <1>2
  <2> QED
    BY <1>5, <2>1, <2>2, <2>3, <2>4, <2>5, <2>6, <2>7 DEF Fine
<1>7. RunInv'
  BY <1>2, <1>6 DEF IInv, RunInv, Held
<1> QED
  BY <1>3, <1>7

(* The other runs, before the lock, rely on nothing but a verdict.         *)
LEMMA OthersFine ==
    ASSUME IInv, NEW r \in Runs, run[r].pc \notin {"idle", "checked"}, UNCHANGED verdicts,
           Len(trunk') \in Nat, NEW q \in Runs \ {r}, run'[q] = run[q]
    PROVE  Fine(run[q])' /\ run[q].merge = 0
<1>1. run[q].pc \in {"idle", "checked"} /\ Fine(run[q])
  BY Past DEF IInv, RunInv
<1>2. run[q].merge = 0 /\ (run[q].pc # "idle" => HasPass(run[q])')
  BY <1>1 DEF Fine, HasPass
<1> QED
  BY <1>1, <1>2 DEF Fine

LEMMA RunKept ==
    ASSUME IInv, NEW r \in Runs, run[r].pc \notin {"idle", "checked"}, UNCHANGED <<verdicts, lock>>,
           Len(trunk') \in Nat, NEW x \in RunState, run' = [run EXCEPT ![r] = x], Fine(x)'
    PROVE  RunInv'
<1>1. /\ run \in [Runs -> RunState] /\ lock \in Runs \cup {NoRun} /\ Held
  BY DEF IInv, RunInv
<1>2. run' \in [Runs -> RunState] /\ run'[r] = x /\ \A q \in Runs \ {r} : run'[q] = run[q]
  BY <1>1
<1>3. Held'
  BY <1>1, <1>2 DEF Held
<1>4. \A q \in Runs : Fine(run[q])'
  <2> SUFFICES ASSUME NEW q \in Runs PROVE Fine(run[q])'
    OBVIOUS
  <2>1. CASE q = r
    BY <1>2, <2>1 DEF Fine, HasPass, OnTop, Names
  <2>2. CASE q # r
    BY <1>2, <2>2, OthersFine
  <2> QED
    BY <2>1, <2>2
<1> QED
  BY <1>1, <1>2, <1>3, <1>4 DEF RunInv

(* A merge goes on top, and above all of its card that is there.           *)
LEMMA MergeFacts ==
    ASSUME IInv, NEW r \in Runs, Merge(r)
    PROVE  \E e \in Trunk :
              /\ e.card = run[r].card /\ e.card \in Cards /\ e.card # NoCard
              /\ e.commit = tip[run[r].card] /\ e.commit \in 0..MaxTip
              /\ trunk' = Append(trunk, e)
              /\ \A i \in 1..Len(trunk) : trunk[i].card = e.card => trunk[i].commit < e.commit
<1> DEFINE c == run[r].card
           e == [card |-> c, commit |-> tip[c], verdict |-> run[r].verdict]
<1>1. c \in Cards /\ run[r] \in RunState /\ tip \in [Cards -> 0..MaxTip]
  BY Past DEF Merge, At, HasPass, IInv, WorldInv
<1>2. e \in Trunk /\ trunk' = Append(trunk, e)
  BY <1>1 DEF Merge, Trunk, RunState
<1>3. \A i \in 1..Len(trunk) : trunk[i].card = c => trunk[i].commit < tip[c]
  <2>1. \A i \in 1..Len(trunk) : trunk[i].commit \in Nat
    BY Typed, FinalizeAssumption DEF Trunk
  <2>2. tip[c] \in Nat
    BY <1>1, FinalizeAssumption
  <2>3. ~\E i \in 1..Len(trunk) : trunk[i].card = c /\ trunk[i].commit >= tip[c]
    BY DEF Merge, AlreadyIn, Merged
  <2> QED
    BY <2>1, <2>2, <2>3
<1> QED
  BY <1>1, <1>2, <1>3, FinalizeAssumption DEF NoCard

LEMMA MergeKept ==
    ASSUME IInv, NEW r \in Runs, Merge(r)
    PROVE  RunInv' /\ WorldInv'
<1>1. PICK e \in Trunk :
         /\ e.card = run[r].card /\ e.card \in Cards
         /\ trunk' = Append(trunk, e)
         /\ \A i \in 1..Len(trunk) : trunk[i].card = e.card => trunk[i].commit < e.commit
  BY MergeFacts
<1>2. UNCHANGED <<tip, verdicts, origin, versions, records, lock>> /\ run[r].pc = "ready"
  BY DEF Merge, At
<1>3. WorldInv'
  BY <1>1, <1>2, LongerWorld
<1>4. /\ Len(trunk) \in Nat /\ Len(trunk') \in Nat /\ Len(trunk') = Len(trunk) + 1
      /\ trunk'[Len(trunk) + 1] = e
  BY <1>1, Longer, Typed
<1>5. PICK x : x = [run[r] EXCEPT !.pc = "merged"]
  OBVIOUS
<1>6. /\ x \in RunState /\ x.pc = "merged" /\ x.merge = 0 /\ x.card = run[r].card
      /\ x.verdict = run[r].verdict
  BY <1>2, <1>5, Past DEF RunState, Fine
<1>7. run' = [run EXCEPT ![r] = x]
  BY <1>5 DEF Merge, Goto
<1>8. Fine(x)'
  <2>1. HasPass(x)'
    BY <1>2, <1>6, Past DEF HasPass
  <2>2. PICK n \in Nat : n = Len(trunk) + 1
    BY <1>4
  <2>3. Fresh(n)'
    <3>1. \A k \in 1..Len(versions) : versions[k] \in 0..Len(trunk)
      BY Typed
    <3>2. \A k \in 1..Len(versions) : versions[k] < n
      BY <1>4, <2>2, <3>1
    <3>3. origin < n
      BY <2>2, Typed
    <3>4. \A c \in Cards : \A k \in 1..Len(records[c]) : records[c][k].merge < n
      BY <1>4, <2>2, Deliveries
    <3> QED
      BY <1>2, <3>2, <3>3, <3>4, Typed DEF Fresh
  <2>4. OnTop(x)'
    <3>1. n \in 1..Len(trunk') /\ trunk'[n].card = x.card /\ \A j \in (n + 1)..Len(trunk') : FALSE
      BY <1>1, <1>4, <1>6, <2>2
    <3> QED
      BY <1>6, <2>3, <3>1 DEF OnTop
  <2> QED
    BY <1>4, <1>6, <2>1, <2>4 DEF Fine
<1>9. RunInv'
  BY <1>2, <1>4, <1>6, <1>7, <1>8, RunKept
<1> QED
  BY <1>3, <1>9

(* What an undo leaves is the base branch below the commit the run takes   *)
(* for its merge; the merge of its card is struck or the last one left,    *)
(* and nobody relies on anything that is struck.                           *)
LEMMA UndoFacts ==
    ASSUME IInv, NEW r \in Runs, Undo(r)
    PROVE  /\ run[r].merge \in 1..Len(trunk) /\ Len(trunk) \in Nat
           /\ run[r].pc = "undo" /\ lock = r
           /\ trunk' \in Seq(Trunk) /\ Len(trunk') = run[r].merge - 1 /\ Len(trunk') \in Nat
           /\ \A i \in 1..(run[r].merge - 1) : trunk'[i] = trunk[i]
           /\ Fresh(run[r].merge)
           /\ trunk[run[r].merge].card \in {run[r].card, NoCard}
           /\ \A i \in (run[r].merge + 1)..Len(trunk) : trunk[i].card = NoCard
           /\ UNCHANGED <<tip, verdicts, origin, versions, records>>
<1>1. /\ run[r].pc = "undo" /\ UNCHANGED <<tip, verdicts, origin, versions, records>>
      /\ Len(trunk) \in Nat /\ run[r].merge \in Nat /\ trunk \in Seq(Trunk)
  BY Typed DEF Undo, At
<1>2. OnTop(run[r]) /\ run[r].merge <= Len(trunk) /\ lock = r
  BY <1>1, Past DEF Fine, IInv, RunInv, Held
<1>3. PICK i \in 1..Len(trunk) : /\ trunk[i].card = run[r].card
                                 /\ \A j \in (i + 1)..Len(trunk) : trunk[j].card = NoCard
                                 /\ Fresh(i)
                                 /\ i <= run[r].merge
  BY <1>1, <1>2 DEF OnTop
<1>4. PICK m \in 1..Len(trunk) : m = run[r].merge
  BY <1>1, <1>2, <1>3
<1>5. Fresh(m)
  <2>1. origin \in Nat /\ \A k \in 1..Len(versions) : versions[k] \in Nat
    BY Typed
  <2>2. \A c \in Cards : \A k \in 1..Len(records[c]) : records[c][k].merge \in Nat
    BY Deliveries
  <2> QED
    BY <1>3, <1>4, <2>1, <2>2 DEF Fresh
<1>6. trunk[m].card \in {run[r].card, NoCard} /\ \A j \in (m + 1)..Len(trunk) : trunk[j].card = NoCard
  BY <1>1, <1>3, <1>4
<1>7. PICK n \in Nat : n = m - 1
  BY <1>4
<1>8. trunk' = SubSeq(trunk, 1, n)
  BY <1>4, <1>7 DEF Undo, BeforeMerge
<1>9. /\ trunk' \in Seq(Trunk) /\ Len(trunk') = n
      /\ \A j \in 1..n : trunk'[j] = trunk[j]
  <2>1. n \in Int /\ \A j \in 1..n : trunk[j] \in Trunk
    BY <1>1, <1>4, <1>7
  <2>2. PICK one \in Int : one = 1
    OBVIOUS
  <2>3. \A j \in one..n : trunk[j] \in Trunk
    BY <2>1, <2>2
  <2>4. /\ SubSeq(trunk, one, n) \in Seq(Trunk)
        /\ Len(SubSeq(trunk, one, n)) = IF one <= n THEN n - one + 1 ELSE 0
        /\ \A j \in 1..(n - one + 1) : SubSeq(trunk, one, n)[j] = trunk[one + j - 1]
    BY <1>1, <2>1, <2>2, <2>3, SubSeqProperties
  <2> QED
    BY <1>7, <1>8, <2>1, <2>2, <2>4
<1> QED
  BY <1>1, <1>2, <1>4, <1>5, <1>6, <1>7, <1>9

LEMMA UndoKept ==
    ASSUME IInv, NEW r \in Runs, Undo(r)
    PROVE  RunInv' /\ WorldInv'
<1>0. PICK m \in 1..Len(trunk) :
         /\ m = run[r].merge /\ Len(trunk) \in Nat /\ Len(trunk') \in Nat
         /\ trunk' \in Seq(Trunk) /\ Len(trunk') = m - 1
         /\ \A i \in 1..(m - 1) : trunk'[i] = trunk[i]
         /\ Fresh(m)
  BY UndoFacts
<1>1. UNCHANGED <<tip, verdicts, origin, versions, records>> /\ run[r].pc = "undo" /\ WorldInv
  BY UndoFacts DEF IInv
<1>2. RunInv'
  <2>1. Return(r)
    BY DEF Undo
  <2>2. Fine(Idle)'
    BY <1>0, IdleRun DEF Fine
  <2>3. \A q \in Runs : Fine(run[q])'
    <3> SUFFICES ASSUME NEW q \in Runs PROVE Fine(run[q])'
      OBVIOUS
    <3>1. CASE q = r
      <4>1. run'[q] = Idle
        BY <2>1, <3>1, ReturnRun
      <4> QED
        BY <2>2, <4>1 DEF Fine, HasPass, OnTop, Names
    <3>2. CASE q # r
      BY <1>0, <1>1, <2>1, <3>2, ReturnRun, OthersFine
    <3> QED
      BY <3>1, <3>2
  <2> QED
    BY <2>1, <2>3, ReturnRun DEF RunInv
<1>3. origin \in 0..Len(trunk') /\ versions \in Seq(0..Len(trunk'))
  <2>1. \A k \in 1..Len(versions) : versions[k] \in Nat
    BY Typed
  <2>2. \A k \in 1..Len(versions) : versions[k] \in 0..Len(trunk')
    BY <1>0, <2>1 DEF Fresh
  <2>3. versions \in Seq(0..Len(trunk'))
    BY <2>2, Typed
  <2>4. origin < m
    BY <1>0 DEF Fresh
  <2> QED
    BY <1>0, <2>3, <2>4, Typed
<1>4. Bounded' /\ RecordedIsPushed'
  BY <1>1 DEF WorldInv, Bounded, RecordedIsPushed
<1>5. MergedOnce'
  <2>1. \A i \in 1..Len(trunk') : i \in 1..Len(trunk) /\ trunk'[i] = trunk[i]
    BY <1>0
  <2> QED
    BY <1>1, <2>1 DEF WorldInv, MergedOnce
<1>6. RecordNamesDelivery'
  <2>1. \A c \in Cards : \A k \in 1..Len(records[c]) : Names(c, records[c][k].merge)'
    <3> SUFFICES ASSUME NEW c \in Cards, NEW k \in 1..Len(records[c])
                 PROVE  Names(c, records[c][k].merge)'
      OBVIOUS
    <3>1. PICK d \in Nat : d = records[c][k].merge /\ Names(c, d) /\ d < m
      BY <1>0, Deliveries DEF Fresh
    <3>2. Names(c, d)'
      <4>1. d <= Len(trunk')
        BY <1>0, <3>1
      <4>2. \A i \in 1..d : trunk'[i] = trunk[i]
        BY <1>0, <3>1, SMTT(30)
      <4> QED
        BY <1>0, <3>1, <4>1, <4>2, NamesStay
    <3>3. records'[c][k].merge = d
      BY <1>1, <3>1
    <3> QED
      BY <3>2, <3>3 DEF Names
  <2> QED
    BY <1>1, <2>1 DEF RecordNamesDelivery, Names
<1>7. DeployedWasAudited'
  <2>1. \A i \in 1..Len(trunk') : i \in 1..Len(trunk) /\ trunk'[i] = trunk[i]
    BY <1>0
  <2>2. \A i \in 1..Len(trunk') : Deployed(i)' <=> Deployed(i)
    BY <1>1 DEF Deployed, Latest
  <2> QED
    BY <1>1, <2>1, <2>2 DEF WorldInv, DeployedWasAudited
<1> QED
  BY <1>0, <1>1, <1>2, <1>3, <1>4, <1>5, <1>6, <1>7 DEF WorldInv
-----------------------------------------------------------------------------
(* Steps that change what is known of the base branch.                     *)

LEMMA PushKept ==
    ASSUME IInv, NEW r \in Runs, Push(r) \/ PushAgain(r)
    PROVE  RunInv' /\ WorldInv'
<1>1. /\ UNCHANGED <<tip, verdicts, trunk, versions, records>> /\ run[r].pc \in {"push", "push_again"}
      /\ WorldInv /\ Len(trunk) \in Nat
  BY Typed DEF Push, PushAgain, At, IInv
<1>2. CASE Return(r) /\ UNCHANGED origin
  BY <1>1, <1>2, QuietReturn DEF world
<1>3. CASE origin' = Len(trunk) /\ Goto(r, "deploy") /\ UNCHANGED lock
  <2>1. PICK x : x = [run[r] EXCEPT !.pc = "deploy"]
    OBVIOUS
  <2>2. /\ x \in RunState /\ x.pc = "deploy" /\ x.merge = run[r].merge /\ x.card = run[r].card
        /\ x.verdict = run[r].verdict
    BY <1>1, <2>1, Past DEF RunState
  <2>3. run' = [run EXCEPT ![r] = x]
    BY <1>3, <2>1 DEF Goto
  <2>4. Fine(x)'
    <3>1. HasPass(x)' /\ x.merge <= Len(trunk)
      BY <1>1, <2>2, Past DEF Fine, HasPass
    <3>2. x.merge # 0 => Names(x.card, x.merge)'
      BY <1>1, <2>2, Past DEF Fine, Names
    <3> QED
      BY <1>1, <1>3, <2>2, <3>1, <3>2 DEF Fine
  <2>5. RunInv'
    BY <1>1, <1>3, <2>2, <2>3, <2>4, RunKept
  <2>6. RecordedIsPushed'
    BY <1>1, <1>3, Deliveries DEF RecordedIsPushed
  <2>7. /\ Bounded' /\ MergedOnce'
        /\ RecordNamesDelivery'
    <3>1. Bounded' /\ MergedOnce'
      BY <1>1 DEF WorldInv, Bounded, MergedOnce
    <3>2. RecordNamesDelivery'
      <4>1. trunk' = trunk /\ records' = records
        BY <1>1
      <4>2. RecordNamesDelivery
        BY <1>1 DEF WorldInv
      <4> QED
        BY <4>1, <4>2 DEF RecordNamesDelivery
    <3> QED
      BY <3>1, <3>2
  <2>8. DeployedWasAudited'
    <3>1. \A i : Deployed(i)' <=> Deployed(i)
      BY <1>1 DEF Deployed, Latest
    <3> QED
      BY <1>1, <3>1 DEF WorldInv, DeployedWasAudited
  <2> QED
    BY <1>1, <1>3, <2>5, <2>6, <2>7, <2>8 DEF WorldInv
<1> QED
  BY <1>2, <1>3 DEF Push, PushAgain

(* What is deployed goes up to the head of the base branch, and all that   *)
(* this adds was looked at before, but for what people committed since.    *)
LEMMA DeployKept ==
    ASSUME IInv, NEW r \in Runs, Deploy(r)
    PROVE  RunInv' /\ WorldInv'
<1>1. /\ UNCHANGED <<tip, verdicts, trunk, origin, records, lock>> /\ run[r].pc = "build"
      /\ run[r] \in RunState /\ WorldInv /\ Len(trunk) \in Nat
      /\ versions \in Seq(0..Len(trunk)) /\ Len(versions) \in Nat
  BY Typed, Past DEF Deploy, At, IInv
<1>2. PICK s \in Statuses : run' = [run EXCEPT ![r].pc = "record", ![r].status = s]
  BY DEF Deploy, Statuses
<1>3. PICK x : x = [run[r] EXCEPT !.pc = "record", !.status = s]
  OBVIOUS
<1>4. /\ x \in RunState /\ x.pc = "record" /\ x.merge = run[r].merge /\ x.card = run[r].card
      /\ x.verdict = run[r].verdict
  BY <1>1, <1>3 DEF RunState
<1>5. run' = [run EXCEPT ![r] = x]
  BY <1>1, <1>2, <1>3 DEF RunState
<1>6. Fine(x)'
  <2>1. HasPass(x)' /\ x.merge <= Len(trunk) /\ (Remote => x.merge <= origin)
    BY <1>1, <1>4, Past DEF Fine, HasPass
  <2>2. x.merge # 0 => Names(x.card, x.merge)'
    BY <1>1, <1>4, Past DEF Fine, Names
  <2> QED
    BY <1>1, <1>4, <2>1, <2>2 DEF Fine
<1>7. RunInv'
  BY <1>1, <1>4, <1>5, <1>6, RunKept
<1>8. PICK n \in 0..Len(trunk) : n = Len(trunk)
  BY <1>1
<1>9. versions' = Append(versions, n)
  BY <1>8 DEF Deploy
<1>10. /\ versions' \in Seq(0..Len(trunk)) /\ versions' # <<>> /\ Latest(versions') = n
       /\ versions'[1] = IF versions = <<>> THEN n ELSE versions[1]
  BY <1>1, <1>9 DEF Latest
<1>11. DeployedWasAudited'
  <2> SUFFICES ASSUME NEW i \in 1..Len(trunk), versions'[1] <= i, trunk[i].card # NoCard
               PROVE  Audited(i)
    BY <1>1 DEF DeployedWasAudited, Audited
  <2>1. Clear
    BY <1>1, Past DEF Fine
  <2>2. CASE versions = <<>>
    <3>1. i = Len(trunk)
      BY <1>1, <1>8, <1>10, <2>2
    <3>2. i \in ToDeploy
      BY <1>1, <2>2, <3>1 DEF ToDeploy
    <3> QED
      BY <2>1, <3>2 DEF Clear
  <2>3. CASE versions # <<>> /\ i <= Latest(versions)
    BY <1>1, <1>10, <2>3 DEF WorldInv, DeployedWasAudited, Deployed, Audited
  <2>4. CASE versions # <<>> /\ i > Latest(versions)
    <3>1. i \in ToDeploy
      BY <1>1, <2>4, LatestVersion DEF ToDeploy, Since
    <3> QED
      BY <2>1, <3>1 DEF Clear
  <2> QED
    BY <2>2, <2>3, <2>4, LatestVersion
<1>12. Bounded' /\ MergedOnce' /\ RecordNamesDelivery' /\ RecordedIsPushed'
  BY <1>1 DEF WorldInv, Bounded, MergedOnce, RecordNamesDelivery, RecordedIsPushed
<1> QED
  BY <1>1, <1>7, <1>10, <1>11, <1>12 DEF WorldInv

(* The record a run writes comes after those its card has.                 *)
LEMMA RecordAppends ==
    ASSUME IInv, NEW r \in Runs, Record(r), run[r].merge # 0
    PROVE  /\ records' \in [Cards -> Seq(Records)]
           /\ \A d \in Cards : \A k \in 1..Len(records'[d]) :
                 \/ d = run[r].card /\ records'[d][k].merge = run[r].merge
                 \/ k \in 1..Len(records[d]) /\ records'[d][k] = records[d][k]
<1>0. /\ run[r] \in RunState /\ HasPass(run[r]) /\ Bounded
      /\ records \in [Cards -> Seq(Records)]
  BY Typed, Past DEF Record, At, IInv, WorldInv
<1> DEFINE c == run[r].card
           rec == [merge |-> run[r].merge, verdict |-> run[r].verdict, status |-> run[r].status]
<1>1. c \in Cards /\ run[r].verdict \in 1..MaxVerdicts
  <2>1. c \in Cards /\ run[r].verdict \in 1..Len(verdicts[c]) /\ Len(verdicts[c]) <= MaxVerdicts
    BY <1>0 DEF HasPass, Bounded
  <2>2. verdicts[c] \in Seq(Verdicts)
    BY <2>1, Typed
  <2>3. Len(verdicts[c]) \in Nat
    BY <2>2
  <2> QED
    BY <2>1, <2>3, FinalizeAssumption
<1>2. rec \in Records /\ rec.merge = run[r].merge
  BY <1>0, <1>1 DEF RunState, Records
<1>3. records' = [records EXCEPT ![c] = Append(@, rec)]
  BY DEF Record
<1> HIDE DEF rec
<1>4. PICK s \in Seq(Records) : s = records[c]
  BY <1>0, <1>1
<1>5. PICK t : t = Append(s, rec)
  OBVIOUS
<1>6. /\ t \in Seq(Records)
      /\ \A k \in 1..Len(t) : t[k] = rec \/ (k \in 1..Len(s) /\ t[k] = s[k])
  BY <1>2, <1>4, <1>5
<1>7. records' = [records EXCEPT ![c] = t]
  BY <1>3, <1>4, <1>5
<1> QED
  BY <1>0, <1>1, <1>2, <1>4, <1>6, <1>7

LEMMA RecordKept ==
    ASSUME IInv, NEW r \in Runs, Record(r)
    PROVE  RunInv' /\ WorldInv'
<1>1. /\ UNCHANGED <<tip, verdicts, trunk, origin, versions>> /\ run[r].pc = "record"
      /\ Return(r) /\ WorldInv /\ Len(trunk) \in Nat
  BY Typed DEF Record, At, IInv
<1>2. CASE run[r].merge = 0
  BY <1>1, <1>2, QuietReturn DEF Record, world
<1>3. CASE run[r].merge # 0
  <2>1. /\ Names(run[r].card, run[r].merge) /\ run[r].card \in Cards
        /\ Remote => run[r].merge <= origin
    BY <1>1, <1>3, Past DEF Fine, HasPass
  <2>2. RecordNamesDelivery'
    <3> SUFFICES ASSUME NEW d \in Cards, NEW k \in 1..Len(records'[d])
                 PROVE  Names(d, records'[d][k].merge)
      BY <1>1 DEF RecordNamesDelivery, Names
    <3> QED
      BY <1>3, <2>1, RecordAppends, Deliveries
  <2>3. RecordedIsPushed'
    <3> SUFFICES ASSUME Remote, NEW d \in Cards, NEW k \in 1..Len(records'[d])
                 PROVE  records'[d][k].merge <= origin
      BY <1>1 DEF RecordedIsPushed
    <3> QED
      BY <1>1, <1>3, <2>1, RecordAppends DEF WorldInv, RecordedIsPushed
  <2>4. Bounded' /\ MergedOnce' /\ DeployedWasAudited'
    <3>1. \A i : Deployed(i)' <=> Deployed(i)
      BY <1>1 DEF Deployed, Latest
    <3>2. DeployedWasAudited'
      BY <1>1, <3>1 DEF WorldInv, DeployedWasAudited
    <3> QED
      BY <1>1, <3>2 DEF WorldInv, Bounded, MergedOnce
  <2>5. RunInv'
    <3>1. Fine(Idle)'
      BY <1>1, IdleRun DEF Fine
    <3>2. \A q \in Runs : Fine(run[q])'
      <4> SUFFICES ASSUME NEW q \in Runs PROVE Fine(run[q])'
        OBVIOUS
      <4>1. CASE q = r
        <5>1. run'[q] = Idle
          BY <1>1, <4>1, ReturnRun
        <5> QED
          BY <3>1, <5>1 DEF Fine, HasPass, OnTop, Names
      <4>2. CASE q # r
        BY <1>1, <4>2, ReturnRun, OthersFine
      <4> QED
        BY <4>1, <4>2
    <3> QED
      BY <1>1, <3>2, ReturnRun DEF RunInv
  <2> QED
    BY <1>1, <1>3, <2>2, <2>3, <2>4, <2>5, RecordAppends DEF WorldInv
<1> QED
  BY <1>2, <1>3

(* Verdicts are only added to, and so what was passed stays so.            *)
LEMMA VerdictsGrow ==
    ASSUME IInv, NEW d \in Cards, NEW value \in {"PASS", "FAIL"}, NEW commit \in 0..MaxTip,
           Verdict(d, value, commit)
    PROVE  /\ verdicts' \in [Cards -> Seq(Verdicts)]
           /\ \A c \in Cards :
                 /\ Len(verdicts[c]) \in Nat /\ Len(verdicts'[c]) \in Nat
                 /\ Len(verdicts[c]) <= Len(verdicts'[c])
                 /\ \A v \in 1..Len(verdicts[c]) : verdicts'[c][v] = verdicts[c][v]
                 /\ Len(verdicts'[c]) # Len(verdicts[c]) =>
                      /\ c = d /\ Len(verdicts[c]) < MaxVerdicts
                      /\ Len(verdicts'[c]) = Len(verdicts[c]) + 1
                      /\ verdicts'[c][Len(verdicts'[c])] = [value |-> value, commit |-> commit]
<1>1. verdicts \in [Cards -> Seq(Verdicts)] /\ Len(verdicts[d]) < MaxVerdicts
  BY Typed DEF Verdict
<1>0. [value |-> value, commit |-> commit] \in Verdicts
  <2>1. commit \in 0..Unbound
    BY FinalizeAssumption DEF Unbound
  <2> QED
    BY <2>1 DEF Verdicts
<1>2. PICK w \in Verdicts : /\ w = [value |-> value, commit |-> commit]
                            /\ verdicts' = [verdicts EXCEPT ![d] = Append(verdicts[d], w)]
  BY <1>0, <1>1 DEF Verdict
<1>3. PICK s \in Seq(Verdicts) : s = verdicts[d]
  BY <1>1
<1>4. PICK t : t = Append(s, w)
  OBVIOUS
<1>5. /\ t \in Seq(Verdicts) /\ Len(t) = Len(s) + 1 /\ t[Len(t)] = w /\ Len(s) \in Nat
      /\ \A v \in 1..Len(s) : t[v] = s[v]
  BY <1>2, <1>3, <1>4
<1>6. verdicts' = [verdicts EXCEPT ![d] = t]
  BY <1>2, <1>3, <1>4
<1>7. /\ verdicts' \in [Cards -> Seq(Verdicts)] /\ verdicts'[d] = t
      /\ \A c \in Cards \ {d} : verdicts'[c] = verdicts[c]
  BY <1>1, <1>5, <1>6
<1>8. \A c \in Cards \ {d} : Len(verdicts[c]) \in Nat
  BY <1>1
<1> QED
  BY <1>1, <1>2, <1>3, <1>5, <1>7, <1>8

LEMMA VerdictKept ==
    ASSUME IInv, NEW c \in Cards, NEW value \in {"PASS", "FAIL"}, NEW commit \in 0..MaxTip,
           commit <= tip[c], Verdict(c, value, commit)
    PROVE  RunInv' /\ WorldInv'
<1>0. \A k \in Cards :
         /\ Len(verdicts[k]) \in Nat /\ Len(verdicts'[k]) \in Nat
         /\ Len(verdicts[k]) <= Len(verdicts'[k])
         /\ \A u \in 1..Len(verdicts[k]) : verdicts'[k][u] = verdicts[k][u]
  BY VerdictsGrow, ZenonT(40)
<1>1. UNCHANGED <<tip, trunk, origin, versions, records, lock, run>> /\ WorldInv /\ RunInv
  BY DEF Verdict, IInv
<1>2. Bounded'
  <2> SUFFICES ASSUME NEW d \in Cards
               PROVE  /\ Len(verdicts'[d]) <= MaxVerdicts
                      /\ \A v \in 1..Len(verdicts'[d]) :
                            verdicts'[d][v].commit <= tip[d] \/ verdicts'[d][v].commit = Unbound
    BY <1>1 DEF Bounded
  <2>1. /\ Len(verdicts[d]) <= MaxVerdicts
        /\ \A v \in 1..Len(verdicts[d]) :
              verdicts[d][v].commit <= tip[d] \/ verdicts[d][v].commit = Unbound
    BY <1>1 DEF WorldInv, Bounded
  <2>2. CASE Len(verdicts'[d]) = Len(verdicts[d])
    <3>1. \A v \in 1..Len(verdicts[d]) : verdicts'[d][v] = verdicts[d][v]
      BY <1>0
    <3> QED
      BY <2>1, <2>2, <3>1
  <2>3. CASE Len(verdicts'[d]) # Len(verdicts[d])
    <3>1. /\ d = c /\ Len(verdicts[d]) < MaxVerdicts /\ Len(verdicts[d]) \in Nat
          /\ Len(verdicts'[d]) = Len(verdicts[d]) + 1
          /\ verdicts'[d][Len(verdicts'[d])] = [value |-> value, commit |-> commit]
          /\ \A v \in 1..Len(verdicts[d]) : verdicts'[d][v] = verdicts[d][v]
      BY <2>3, VerdictsGrow
    <3>2. verdicts'[d][Len(verdicts'[d])].commit <= tip[d]
      BY <3>1
    <3>3. \A v \in 1..Len(verdicts'[d]) : v \in 1..Len(verdicts[d]) \/ v = Len(verdicts'[d])
      BY <3>1
    <3>4. Len(verdicts'[d]) <= MaxVerdicts
      BY <3>1, FinalizeAssumption
    <3> QED
      BY <2>1, <3>1, <3>2, <3>3, <3>4
  <2> QED
    BY <2>2, <2>3
<1>3. \A i \in 1..Len(trunk) : trunk[i].card # NoCard /\ Audited(i) => Audited(i)'
  <2> SUFFICES ASSUME NEW i \in 1..Len(trunk), trunk[i].card # NoCard, Audited(i) PROVE Audited(i)'
    OBVIOUS
  <2>1. trunk[i].card \in Cards
    <3>1. trunk[i] \in Trunk
      BY Typed
    <3> QED
      BY <3>1 DEF Trunk
  <2>2. PICK v \in 1..Len(verdicts[trunk[i].card]) :
             /\ verdicts[trunk[i].card][v].value = "PASS"
             /\ For(verdicts[trunk[i].card][v], trunk[i].commit)
    BY DEF Audited
  <2>3. v \in 1..Len(verdicts'[trunk[i].card]) /\ verdicts'[trunk[i].card][v] = verdicts[trunk[i].card][v]
    <3>1. PICK k \in Cards : k = trunk[i].card
      BY <2>1
    <3>2. /\ Len(verdicts[k]) \in Nat /\ Len(verdicts'[k]) \in Nat
          /\ Len(verdicts[k]) <= Len(verdicts'[k])
          /\ \A u \in 1..Len(verdicts[k]) : verdicts'[k][u] = verdicts[k][u]
      BY <1>0, Zenon
    <3>3. v \in 1..Len(verdicts[k])
      BY <3>1
    <3>4. v \in 1..Len(verdicts'[k]) /\ verdicts'[k][v] = verdicts[k][v]
      BY <3>2, <3>3
    <3> QED
      BY <3>1, <3>4
  <2> QED
    BY <1>1, <2>2, <2>3 DEF Audited, For
<1>4. MergedOnce' /\ RecordNamesDelivery' /\ RecordedIsPushed'
  <2>1. RecordNamesDelivery'
    BY <1>1 DEF WorldInv, RecordNamesDelivery
  <2> QED
    BY <1>1, <2>1 DEF WorldInv, MergedOnce, RecordedIsPushed
<1>5. DeployedWasAudited'
  <2>1. \A i : Deployed(i)' <=> Deployed(i)
    BY <1>1 DEF Deployed, Latest
  <2>2. \A i \in 1..Len(trunk) :
           Deployed(i) /\ versions[1] <= i /\ trunk[i].card # NoCard => Audited(i)'
    BY <1>1, <1>3 DEF WorldInv, DeployedWasAudited, Audited
  <2> QED
    BY <1>1, <2>1, <2>2 DEF DeployedWasAudited, Audited
<1>6. Clear => Clear'
  <2>1. ToDeploy' = ToDeploy
    BY <1>1 DEF ToDeploy, Since, Latest
  <2>2. ToDeploy \subseteq 1..Len(trunk)
    BY Typed, LatestVersion DEF ToDeploy, Since
  <2> QED
    BY <1>1, <1>3, <2>1, <2>2 DEF Clear
<1>7. \A q \in Runs : Fine(run[q])'
  <2> SUFFICES ASSUME NEW q \in Runs PROVE Fine(run[q])'
    OBVIOUS
  <2>1. Fine(run[q])
    BY <1>1 DEF RunInv
  <2>2. HasPass(run[q]) => HasPass(run[q])'
    <3> SUFFICES ASSUME HasPass(run[q]) PROVE HasPass(run[q])'
      OBVIOUS
    <3>1. PICK k \in Cards : k = run[q].card
      BY DEF HasPass
    <3>2. /\ Len(verdicts[k]) \in Nat /\ Len(verdicts'[k]) \in Nat
          /\ Len(verdicts[k]) <= Len(verdicts'[k])
          /\ \A u \in 1..Len(verdicts[k]) : verdicts'[k][u] = verdicts[k][u]
      BY <1>0, Zenon
    <3>3. run[q].verdict \in 1..Len(verdicts[k]) /\ verdicts[k][run[q].verdict].value = "PASS"
      BY <3>1 DEF HasPass
    <3>4. run[q].verdict \in 1..Len(verdicts'[k]) /\ verdicts'[k][run[q].verdict].value = "PASS"
      BY <3>2, <3>3
    <3> QED
      BY <1>1, <3>1, <3>4 DEF HasPass
  <2>3. /\ OnTop(run[q])' <=> OnTop(run[q])
        /\ Names(run[q].card, Len(trunk))' <=> Names(run[q].card, Len(trunk))
        /\ Names(run[q].card, run[q].merge)' <=> Names(run[q].card, run[q].merge)
    BY <1>1 DEF OnTop, Fresh, Names
  <2> QED
    BY <1>1, <1>6, <2>1, <2>2, <2>3 DEF Fine
<1> QED
  BY <1>1, <1>2, <1>4, <1>5, <1>7, VerdictsGrow DEF RunInv, Held, WorldInv

LEMMA CommitKept ==
    ASSUME IInv, NEW c \in Cards, Commit(c)
    PROVE  RunInv' /\ WorldInv'
<1>1. UNCHANGED <<verdicts, trunk, origin, versions, records, lock, run>> /\ WorldInv /\ RunInv
  BY DEF Commit, IInv
<1>2. tip \in [Cards -> 0..MaxTip] /\ tip[c] < MaxTip /\ tip' = [tip EXCEPT ![c] = tip[c] + 1]
  BY <1>1 DEF Commit, WorldInv
<1>3. tip' \in [Cards -> 0..MaxTip] /\ \A d \in Cards : tip[d] \in Nat /\ tip[d] <= tip'[d] /\ tip'[d] \in Nat
  BY <1>2, FinalizeAssumption
<1>4. Bounded'
  <2>1. \A d \in Cards : \A v \in 1..Len(verdicts[d]) : verdicts[d][v].commit \in Nat
    <3> SUFFICES ASSUME NEW d \in Cards, NEW v \in 1..Len(verdicts[d]) PROVE verdicts[d][v].commit \in Nat
      OBVIOUS
    <3>1. verdicts[d][v] \in Verdicts
      BY Typed
    <3> QED
      BY <3>1, FinalizeAssumption DEF Verdicts, Unbound
  <2> QED
    BY <1>1, <1>3, <2>1 DEF WorldInv, Bounded
<1>5. MergedOnce' /\ RecordNamesDelivery' /\ RecordedIsPushed' /\ DeployedWasAudited'
  <2>1. \A i : Deployed(i)' <=> Deployed(i)
    BY <1>1 DEF Deployed, Latest
  <2>2. DeployedWasAudited'
    BY <1>1, <2>1 DEF WorldInv, DeployedWasAudited
  <2> QED
    BY <1>1, <2>2 DEF WorldInv, MergedOnce, RecordNamesDelivery, RecordedIsPushed
<1>6. \A q \in Runs : Fine(run[q])'
  <2>1. Clear' <=> Clear
    BY <1>1 DEF Clear, ToDeploy, Since, Latest, Audited
  <2>2. \A x : HasPass(x)' <=> HasPass(x)
    BY <1>1 DEF HasPass
  <2>3. \A x : OnTop(x)' <=> OnTop(x)
    BY <1>1 DEF OnTop, Fresh
  <2>4. \A d, m : Names(d, m)' <=> Names(d, m)
    BY <1>1 DEF Names
  <2>5. \A x : Fine(x)' <=> Fine(x)
    BY <1>1, <2>1, <2>2, <2>3, <2>4 DEF Fine
  <2> QED
    BY <1>1, <2>5 DEF RunInv
<1> QED
  BY <1>1, <1>3, <1>4, <1>5, <1>6 DEF RunInv, Held, WorldInv
-----------------------------------------------------------------------------
LEMMA CountsKept ==
    ASSUME IInv, Next
    PROVE  faults' \in 0..MaxFaults /\ reruns' \in 0..MaxReruns
<1>0. /\ faults \in 0..MaxFaults /\ reruns \in 0..MaxReruns
      /\ MaxFaults \in Nat /\ MaxReruns \in Nat
  BY FinalizeAssumption DEF IInv
<1>1. UNCHANGED faults \/ Fault
  BY ZenonT(60) DEF Next, world, Commit, Verdict, OutsideCommit, Start, TakeLock, CheckInterval,
     Merge, MergeConflict, ReadMerge, RegressionPasses, RegressionFails, Undo, Settle, LeaveUnpushed,
     Push, PushFails, CheckDeploy, Deploy, DeployFails, SkipDeploy, Record, Resume, RefuseResume,
     RefuseUnpushed, PushAgain, Stop
<1>2. UNCHANGED reruns \/ (reruns < MaxReruns /\ reruns' = reruns + 1)
  BY ZenonT(60) DEF Next, world, Commit, Verdict, OutsideCommit, Start, TakeLock, CheckInterval,
     Merge, MergeConflict, ReadMerge, RegressionPasses, RegressionFails, Undo, Settle, LeaveUnpushed,
     Push, PushFails, CheckDeploy, Deploy, DeployFails, SkipDeploy, Record, Resume, RefuseResume,
     RefuseUnpushed, PushAgain, Stop
<1>3. faults' \in 0..MaxFaults
  BY <1>0, <1>1 DEF Fault
<1>4. reruns' \in 0..MaxReruns
  BY <1>0, <1>2
<1> QED
  BY <1>3, <1>4

LEMMA InvStep == IInv /\ [Next]_vars => IInv'
<1> SUFFICES ASSUME IInv, [Next]_vars PROVE IInv'
  OBVIOUS
<1>1. CASE UNCHANGED vars
  <2>1. UNCHANGED world /\ UNCHANGED <<lock, run, faults, reruns>>
    BY <1>1 DEF vars, world
  <2> QED
    BY <2>1, WorldKept DEF IInv, RunInv, Held
<1>2. ASSUME NEW r \in Runs,
             \/ MergeConflict(r) \/ LeaveUnpushed(r) \/ PushFails(r)
             \/ RefuseResume(r) \/ RefuseUnpushed(r) \/ Stop(r)
      PROVE  RunInv' /\ WorldInv'
  BY <1>2, QuietReturn DEF MergeConflict, LeaveUnpushed, PushFails, PushStops, RefuseResume,
     RefuseUnpushed, Stop
<1>3. CASE Next
  <2>1. RunInv' /\ WorldInv'
    BY <1>2, <1>3, CommitKept, VerdictKept, OutsideKept, StartKept, TakeLockKept, CheckIntervalKept,
       MergeKept, ReadMergeKept, RegressionKept, UndoKept, SettleKept, PushKept, CheckDeployKept,
       DeployKept, NotDeployedKept, RecordKept, ResumeKept DEF Next
  <2> QED
    BY <1>3, <2>1, CountsKept DEF IInv
<1> QED
  BY <1>1, <1>3

LEMMA Invariance == Spec => []IInv
<1>1. Init => IInv
  BY InitInv
<1>2. IInv /\ [Next]_vars => IInv'
  BY InvStep
<1> QED
  BY <1>1, <1>2, PTL DEF Spec

(* The state keeps its types, whatever the bounds.                         *)
THEOREM TypeCorrect == Spec => []TypeOK
<1>1. IInv => TypeOK
  BY DEF IInv, RunInv, WorldInv, Fine, TypeOK
<1> QED
  BY <1>1, Invariance, PTL

(* A commit of a card comes into the base branch by one merge only.        *)
THEOREM CommitMergedOnce == Spec => []MergedOnce
<1>1. IInv => MergedOnce
  BY DEF IInv, WorldInv
<1> QED
  BY <1>1, Invariance, PTL

(* Whatever merge of a card a deployment adds to the deployed version, the *)
(* card was given a PASS for it, or one for no commit, although the check  *)
(* of the interval, the build and what people commit meanwhile are steps   *)
(* of their own.                                                           *)
THEOREM DeployedIsAudited == Spec => []DeployedWasAudited
<1>1. IInv => DeployedWasAudited
  BY DEF IInv, WorldInv
<1> QED
  BY <1>1, Invariance, PTL

(* What a finalization record names has been pushed.                       *)
THEOREM RecordsArePushed == Spec => []RecordedIsPushed
<1>1. IInv => RecordedIsPushed
  BY DEF IInv, WorldInv
<1> QED
  BY <1>1, Invariance, PTL

(* A finalization record names a merge of its card, or what people have    *)
(* committed upon it, and never what another card has merged.              *)
THEOREM RecordsNameDelivery == Spec => []RecordNamesDelivery
<1>1. IInv => RecordNamesDelivery
  BY DEF IInv, WorldInv
<1> QED
  BY <1>1, Invariance, PTL
-----------------------------------------------------------------------------
(* How the base branch changes.                                            *)
LEMMA TrunkSteps ==
    ASSUME [Next]_vars
    PROVE  \/ UNCHANGED trunk
           \/ \E r \in Runs : Merge(r)
           \/ OutsideCommit
           \/ \E r \in Runs : Undo(r)
  BY ZenonT(60) DEF Next, vars, world, Commit, Verdict, Start, TakeLock, CheckInterval, MergeConflict,
     ReadMerge, RegressionPasses, RegressionFails, Settle, LeaveUnpushed, Push, PushFails, CheckDeploy,
     Deploy, DeployFails, SkipDeploy, Record, Resume, RefuseResume, RefuseUnpushed, PushAgain, Stop

LEMMA OnlyUndoStrikes ==
    ASSUME IInv, [Next]_vars, NEW i \in 1..Len(trunk), i \notin 1..Len(trunk') \/ trunk'[i] # trunk[i]
    PROVE  \E r \in Runs : Undo(r)
<1>0. trunk \in Seq(Trunk) /\ Len(trunk) \in Nat
  BY Typed
<1>1. ~UNCHANGED trunk
  BY <1>0
<1>2. ASSUME NEW e \in Trunk, trunk' = Append(trunk, e) PROVE FALSE
  BY <1>0, <1>2, Longer
<1>3. ~OutsideCommit
  <2>1. [card |-> NoCard, commit |-> 0, verdict |-> 0] \in Trunk
    BY FinalizeAssumption DEF Trunk
  <2> QED
    BY <1>2, <2>1 DEF OutsideCommit
<1>4. ~\E r \in Runs : Merge(r)
  BY <1>2, MergeFacts
<1> QED
  BY <1>1, <1>3, <1>4, TrunkSteps

(* A failed regression takes back no merge but that of its own card, and   *)
(* only under the lock: between the look at the head and the reset no      *)
(* other run can merge.                                                    *)
THEOREM UndoTakesOwn == Spec => UndoTakesOwnMerge
<1>1. IInv /\ [Next]_vars =>
        [\A i \in 1..Len(trunk) : i > Len(trunk') =>
           \/ trunk[i].card = NoCard
           \/ \E r \in Runs : At(r, "undo") /\ lock = r /\ run[r].card = trunk[i].card]_vars
  <2> SUFFICES ASSUME IInv, [Next]_vars, NEW i \in 1..Len(trunk), i > Len(trunk'), trunk[i].card # NoCard
               PROVE  \E r \in Runs : At(r, "undo") /\ lock = r /\ run[r].card = trunk[i].card
    OBVIOUS
  <2>1. i \notin 1..Len(trunk')
    OBVIOUS
  <2>2. PICK r \in Runs : Undo(r)
    BY <2>1, OnlyUndoStrikes
  <2>3. /\ run[r].merge \in 1..Len(trunk) /\ Len(trunk') = run[r].merge - 1 /\ lock = r
        /\ trunk[run[r].merge].card \in {run[r].card, NoCard}
        /\ \A j \in (run[r].merge + 1)..Len(trunk) : trunk[j].card = NoCard
    BY <2>2, UndoFacts
  <2>4. i = run[r].merge
    BY <2>3
  <2> QED
    BY <2>2, <2>3, <2>4 DEF Undo
<1> QED
  BY <1>1, Invariance, PTL DEF Spec, UndoTakesOwnMerge

(* Nothing is lost again that anybody relies on: what was pushed, what is  *)
(* deployed and what a record names stays where it is on the base branch.  *)
SettledIsKept ==
    [][\A i \in 1..Len(trunk) : i <= origin \/ Deployed(i) \/ i \in Named
         => i \in 1..Len(trunk') /\ trunk'[i] = trunk[i]]_vars

(* No step of any run, killed or not, takes back what is relied on.        *)
THEOREM SettledStays == Spec => SettledIsKept
<1>1. IInv /\ [Next]_vars =>
        [\A i \in 1..Len(trunk) : i <= origin \/ Deployed(i) \/ i \in Named
           => i \in 1..Len(trunk') /\ trunk'[i] = trunk[i]]_vars
  <2> SUFFICES ASSUME IInv, [Next]_vars, NEW i \in 1..Len(trunk),
                      i <= origin \/ Deployed(i) \/ i \in Named,
                      i \notin 1..Len(trunk') \/ trunk'[i] # trunk[i]
               PROVE  FALSE
    OBVIOUS
  <2>1. PICK r \in Runs : Undo(r)
    BY OnlyUndoStrikes
  <2>2. PICK m \in 1..Len(trunk) : m = run[r].merge /\ Fresh(m) /\ Len(trunk) \in Nat
                                   /\ Len(trunk') = m - 1 /\ \A j \in 1..(m - 1) : trunk'[j] = trunk[j]
    BY <2>1, UndoFacts
  <2>3. i >= m
    BY <2>2
  <2>4. CASE i <= origin
    BY <2>2, <2>3, <2>4, Typed DEF Fresh
  <2>5. CASE Deployed(i)
    <3>1. versions # <<>> /\ i <= Latest(versions)
      BY <2>5 DEF Deployed
    <3>2. Latest(versions) < m /\ Latest(versions) \in Nat
      BY <2>2, <3>1, LatestVersion DEF Fresh
    <3> QED
      BY <2>3, <3>1, <3>2
  <2>6. CASE i \in Named
    <3>1. PICK c \in Cards : \E k \in 1..Len(records[c]) : i = records[c][k].merge
      BY <2>6 DEF Named
    <3>2. PICK k \in 1..Len(records[c]) : i = records[c][k].merge
      BY <3>1
    <3> QED
      BY <2>2, <2>3, <3>2 DEF Fresh
  <2> QED
    BY <2>4, <2>5, <2>6
<1> QED
  BY <1>1, Invariance, PTL DEF Spec, SettledIsKept
-----------------------------------------------------------------------------
(* Finalize implements BaseLedger.                                         *)

(* How the ledger changes when the base branch, the verdicts or the        *)
(* records do.                                                             *)
LEMMA CommitsFacts ==
    ASSUME IInv
    PROVE  /\ Commits \in Seq([card : Cards \cup {NoCard}, commit : 0..MaxTip])
           /\ Len(Commits) = Len(trunk) /\ Len(trunk) \in Nat
           /\ \A i \in 1..Len(trunk) :
                 /\ Commits[i] = [card |-> trunk[i].card, commit |-> trunk[i].commit]
                 /\ Commits[i].card = trunk[i].card /\ Commits[i].commit = trunk[i].commit
<1>1. trunk \in Seq(Trunk) /\ Len(trunk) \in Nat /\ \A i \in 1..Len(trunk) : trunk[i] \in Trunk
  BY Typed
<1>2. /\ Commits \in Seq([card : Cards \cup {NoCard}, commit : 0..MaxTip])
      /\ Len(Commits) = Len(trunk)
  BY <1>1 DEF Commits, Trunk
<1>3. \A i \in 1..Len(trunk) : Commits[i] = [card |-> trunk[i].card, commit |-> trunk[i].commit]
  BY <1>1 DEF Commits
<1> QED
  BY <1>1, <1>2, <1>3

LEMMA CommitsAppend ==
    ASSUME IInv, NEW e \in Trunk, trunk' = Append(trunk, e)
    PROVE  Commits' = Append(Commits, [card |-> e.card, commit |-> e.commit])
<1> DEFINE f == [card |-> e.card, commit |-> e.commit]
<1>1. PICK n \in Nat : n = Len(trunk)
  BY Typed
<1>2. /\ Len(trunk') = n + 1 /\ trunk'[n + 1] = e
      /\ \A i \in 1..n : trunk'[i] = trunk[i]
  BY <1>1, Longer
<1>3. Commits' = [i \in 1..(n + 1) |-> [card |-> trunk'[i].card, commit |-> trunk'[i].commit]]
  BY <1>2 DEF Commits
<1>4. Append(Commits, f) = [i \in 1..(n + 1) |-> IF i = n + 1 THEN f ELSE Commits[i]]
  <2>1. Commits \in Seq([card : Cards \cup {NoCard}, commit : 0..MaxTip]) /\ Len(Commits) = n
    BY <1>1, CommitsFacts
  <2> QED
    BY <2>1 DEF Append
<1>5. \A i \in 1..(n + 1) :
         [card |-> trunk'[i].card, commit |-> trunk'[i].commit] = IF i = n + 1 THEN f ELSE Commits[i]
  BY <1>1, <1>2, CommitsFacts
<1> QED
  BY <1>3, <1>4, <1>5

LEMMA CommitsCut ==
    ASSUME IInv, NEW r \in Runs, Undo(r)
    PROVE  Commits' = SubSeq(Commits, 1, run[r].merge - 1)
<1>1. PICK n \in Nat : n = run[r].merge - 1
  BY UndoFacts
<1>2. /\ Len(trunk) > n /\ Len(trunk') = n /\ Len(trunk) \in Nat
      /\ \A i \in 1..n : trunk'[i] = trunk[i]
  BY <1>1, UndoFacts
<1>3. Commits' = [i \in 1..n |-> [card |-> trunk'[i].card, commit |-> trunk'[i].commit]]
  BY <1>2 DEF Commits
<1>4. \A i \in 1..n : Commits[i] = [card |-> trunk'[i].card, commit |-> trunk'[i].commit]
  BY <1>2, CommitsFacts
<1>5. SubSeq(Commits, 1, n) = [i \in 1..n |-> Commits[i]]
  BY DEF SubSeq
<1> QED
  BY <1>1, <1>3, <1>4, <1>5

(* A verdict adds the commit it passes, and a failing one nothing.         *)
LEMMA PassedGrows ==
    ASSUME IInv, NEW c \in Cards, NEW value \in {"PASS", "FAIL"}, NEW commit \in 0..MaxTip,
           Verdict(c, value, commit)
    PROVE  Passed' = IF value = "PASS" THEN Passed \cup {[card |-> c, commit |-> commit]}
                                       ELSE Passed
<1> DEFINE w == [value |-> value, commit |-> commit]
           Hit(s, k) == \E v \in 1..Len(s) : s[v] = [value |-> "PASS", commit |-> k]
<1>0. commit \in 0..Unbound
  BY FinalizeAssumption DEF Unbound
<1>1. /\ verdicts \in [Cards -> Seq(Verdicts)] /\ w \in Verdicts
      /\ verdicts' = [verdicts EXCEPT ![c] = Append(verdicts[c], w)]
  BY <1>0, Typed DEF Verdict, Verdicts
<1>2. verdicts'[c] = Append(verdicts[c], w) /\ \A d \in Cards \ {c} : verdicts'[d] = verdicts[d]
  BY <1>1
<1>3. \A k \in 0..Unbound : Hit(verdicts'[c], k) <=> Hit(verdicts[c], k) \/ (value = "PASS" /\ k = commit)
  <2> TAKE k \in 0..Unbound
  <2>1. PICK n \in Nat : n = Len(verdicts[c])
    BY <1>1
  <2>2. /\ Len(verdicts'[c]) = n + 1 /\ verdicts'[c][n + 1] = w
        /\ \A v \in 1..n : verdicts'[c][v] = verdicts[c][v]
    BY <1>1, <1>2, <2>1
  <2>3. \A v \in 1..(n + 1) : v = n + 1 \/ v \in 1..n
    OBVIOUS
  <2>4. w = [value |-> "PASS", commit |-> k] <=> value = "PASS" /\ k = commit
    OBVIOUS
  <2>5. n + 1 \in 1..(n + 1) /\ \A v \in 1..n : v \in 1..(n + 1)
    OBVIOUS
  <2> HIDE DEF w
  <2> QED
    BY <2>1, <2>2, <2>3, <2>4, <2>5
<1>4. \A e \in [card : Cards, commit : 0..Unbound] :
         Hit(verdicts'[e.card], e.commit)
           <=> Hit(verdicts[e.card], e.commit) \/ (value = "PASS" /\ e = [card |-> c, commit |-> commit])
  <2> TAKE e \in [card : Cards, commit : 0..Unbound]
  <2>1. e = [card |-> c, commit |-> commit] <=> e.card = c /\ e.commit = commit
    OBVIOUS
  <2> HIDE DEF Hit
  <2> QED
    BY <1>2, <1>3, <2>1
<1>5. Passed = {e \in [card : Cards, commit : 0..Unbound] : Hit(verdicts[e.card], e.commit)}
  BY DEF Passed
<1>6. Passed' = {e \in [card : Cards, commit : 0..Unbound] : Hit(verdicts'[e.card], e.commit)}
  BY DEF Passed
<1>7. [card |-> c, commit |-> commit] \in [card : Cards, commit : 0..Unbound]
  BY <1>0
<1> HIDE DEF Hit
<1> QED
  BY <1>4, <1>5, <1>6, <1>7

(* A record adds the merge it names.                                       *)
LEMMA NamedGrows ==
    ASSUME IInv, NEW r \in Runs, Record(r), run[r].merge # 0
    PROVE  Named' = Named \cup {run[r].merge}
<1> DEFINE c == run[r].card
           w == [merge |-> run[r].merge, verdict |-> run[r].verdict, status |-> run[r].status]
<1>0. records \in [Cards -> Seq(Records)]
  BY Typed
<1>1. c \in Cards
  BY Past DEF Record, At, HasPass
<1>2. records' = [records EXCEPT ![c] = Append(records[c], w)] /\ w.merge = run[r].merge
  BY DEF Record
<1> HIDE DEF w
<1>3. PICK n \in Nat : n = Len(records[c])
  BY <1>0, <1>1
<1>4. /\ Len(records'[c]) = n + 1 /\ records'[c][n + 1] = w
      /\ \A k \in 1..n : records'[c][k] = records[c][k]
      /\ \A d \in Cards \ {c} : records'[d] = records[d]
  <2>1. records'[c] = Append(records[c], w) /\ \A d \in Cards \ {c} : records'[d] = records[d]
    BY <1>0, <1>1, <1>2
  <2>2. records[c] \in Seq(Records)
    BY <1>0, <1>1
  <2> QED
    BY <1>3, <2>1, <2>2
<1>5. \A m : m \in Named' <=> \E d \in Cards : \E k \in 1..Len(records'[d]) : m = records'[d][k].merge
  BY DEF Named
<1>6. \A m : m \in Named <=> \E d \in Cards : \E k \in 1..Len(records[d]) : m = records[d][k].merge
  BY DEF Named
<1>7. Named' \subseteq Named \cup {run[r].merge}
  <2> SUFFICES ASSUME NEW d \in Cards, NEW k \in 1..Len(records'[d])
               PROVE  records'[d][k].merge \in Named \cup {run[r].merge}
    BY <1>5
  <2> QED
    BY <1>6, RecordAppends
<1>8. run[r].merge \in Named'
  <2>1. n + 1 \in 1..Len(records'[c])
    BY <1>3, <1>4
  <2> QED
    BY <1>1, <1>2, <1>4, <1>5, <2>1
<1>9. Named \subseteq Named'
  <2> SUFFICES ASSUME NEW d \in Cards, NEW k \in 1..Len(records[d])
               PROVE  records[d][k].merge \in Named'
    BY <1>6
  <2>1. k \in 1..Len(records'[d]) /\ records'[d][k] = records[d][k]
    <3>1. CASE d = c
      BY <1>3, <1>4, <3>1
    <3>2. CASE d # c
      BY <1>4, <3>2
    <3> QED
      BY <3>1, <3>2
  <2> QED
    BY <1>5, <2>1
<1> QED
  BY <1>7, <1>8, <1>9
-----------------------------------------------------------------------------
LEMMA LedgerInit == Init => Ledger!Init
<1> SUFFICES ASSUME Init PROVE Ledger!Init
  OBVIOUS
<1>1. Commits = <<>> /\ Named = {}
  BY DEF Init, Commits, Named
<1>2. Passed \in SUBSET [card : Cards, commit : {Unbound}]
  <2> SUFFICES ASSUME NEW e \in Passed PROVE e \in [card : Cards, commit : {Unbound}]
    OBVIOUS
  <2>1. e \in [card : Cards, commit : 0..Unbound]
    BY DEF Passed
  <2>2. PICK v \in 1..Len(verdicts[e.card]) :
             verdicts[e.card][v] = [value |-> "PASS", commit |-> e.commit]
    BY DEF Passed
  <2>3. verdicts[e.card] = <<LegacyPass>>
    <3>1. verdicts[e.card] = <<>> \/ verdicts[e.card] = <<LegacyPass>>
      BY <2>1 DEF Init
    <3>2. verdicts[e.card] # <<>>
      BY <2>2
    <3> QED
      BY <3>1, <3>2
  <2>4. LegacyPass = [value |-> "PASS", commit |-> e.commit]
    BY <2>2, <2>3
  <2>5. e.commit = Unbound
    BY <2>4 DEF LegacyPass
  <2> QED
    BY <2>1, <2>5
<1>3. origin = 0 /\ versions \in {<<>>, <<0>>}
  BY DEF Init
<1> QED
  BY <1>1, <1>2, <1>3 DEF Ledger!Init, Ledger!Unbound, Unbound

(* What was given a PASS is vouched for in the ledger.                     *)
LEMMA AuditedVouched ==
    ASSUME IInv, NEW i \in 1..Len(trunk), trunk[i].card # NoCard, Audited(i)
    PROVE  Ledger!Vouched(Commits[i])
<1>1. trunk[i] \in Trunk /\ trunk[i].card \in Cards /\ trunk[i].commit \in 0..MaxTip
  <2>1. trunk[i] \in Trunk
    BY Typed
  <2> QED
    BY <2>1 DEF Trunk
<1>2. Commits[i] = [card |-> trunk[i].card, commit |-> trunk[i].commit]
  BY CommitsFacts
<1>3. PICK v \in 1..Len(verdicts[trunk[i].card]) :
           /\ verdicts[trunk[i].card][v].value = "PASS"
           /\ verdicts[trunk[i].card][v].commit \in {trunk[i].commit, Unbound}
  BY DEF Audited, For
<1>4. verdicts[trunk[i].card][v] \in Verdicts
  BY <1>1, Typed
<1>5. PICK k \in 0..Unbound : /\ verdicts[trunk[i].card][v] = [value |-> "PASS", commit |-> k]
                              /\ k \in {trunk[i].commit, Unbound}
  BY <1>3, <1>4 DEF Verdicts
<1>6. [card |-> trunk[i].card, commit |-> k] \in Passed
  BY <1>1, <1>5 DEF Passed
<1> QED
  BY <1>2, <1>5, <1>6 DEF Ledger!Vouched, Ledger!Unbound, Unbound

(* A merge brings in a commit above all of its card: the branch is looked  *)
(* at again under the lock, and nothing is merged that is in already.  The *)
(* run has seen a PASS, for that commit or for less, or of the old kind.   *)
LEMMA MergeIsLedgerMerge ==
    ASSUME IInv, NEW r \in Runs, Merge(r)
    PROVE  Ledger!Next
<1>1. PICK e \in Trunk :
         /\ e.card = run[r].card /\ e.card \in Cards
         /\ e.commit = tip[run[r].card] /\ e.commit \in 0..MaxTip
         /\ trunk' = Append(trunk, e)
         /\ \A i \in 1..Len(trunk) : trunk[i].card = e.card => trunk[i].commit < e.commit
  BY MergeFacts
<1>2. Commits' = Append(Commits, [card |-> e.card, commit |-> e.commit])
  BY <1>1, CommitsAppend
<1>3. \A i \in 1..Len(Commits) : Commits[i].card = e.card => Commits[i].commit < e.commit
  BY <1>1, CommitsFacts
<1>4. \E j \in 0..e.commit : Ledger!Vouched([card |-> e.card, commit |-> j])
  <2>1. HasPass(run[r]) /\ Bounded
    BY Past DEF Merge, At, IInv, WorldInv
  <2>2. PICK v \in 1..Len(verdicts[e.card]) :
             /\ verdicts[e.card][v].value = "PASS"
             /\ verdicts[e.card][v].commit <= e.commit \/ verdicts[e.card][v].commit = Unbound
    BY <1>1, <2>1 DEF HasPass, Bounded
  <2>3. verdicts[e.card][v] \in Verdicts
    BY <1>1, Typed
  <2>4. PICK k \in 0..Unbound : /\ verdicts[e.card][v] = [value |-> "PASS", commit |-> k]
                                /\ k <= e.commit \/ k = Unbound
    BY <2>2, <2>3 DEF Verdicts
  <2>5. [card |-> e.card, commit |-> k] \in Passed
    BY <1>1, <2>4 DEF Passed
  <2>6. CASE k = Unbound
    <3>1. 0 \in 0..e.commit
      BY <1>1
    <3>2. Ledger!Vouched([card |-> e.card, commit |-> 0])
      BY <2>5, <2>6 DEF Ledger!Vouched, Ledger!Unbound, Unbound
    <3> QED
      BY <3>1, <3>2
  <2>7. CASE k <= e.commit
    <3>1. k \in 0..e.commit
      BY <1>1, <2>7
    <3>2. Ledger!Vouched([card |-> e.card, commit |-> k])
      BY <2>5 DEF Ledger!Vouched
    <3> QED
      BY <3>1, <3>2
  <2> QED
    BY <2>4, <2>6, <2>7
<1>5. UNCHANGED <<Passed, origin, versions, Named>>
  BY DEF Merge, Passed, Named
<1>6. Ledger!Merge(e.card, e.commit)
  BY <1>2, <1>3, <1>4, <1>5 DEF Ledger!Merge
<1> QED
  BY <1>1, <1>6 DEF Ledger!Next

(* What a failed regression takes back is the last merge and what people   *)
(* committed upon it, none of it pushed, deployed or named in a record.    *)
LEMMA UndoIsLedgerUndo ==
    ASSUME IInv, NEW r \in Runs, Undo(r)
    PROVE  Ledger!Undo
<1>1. PICK m \in 1..Len(trunk) :
         /\ m = run[r].merge /\ Len(trunk) \in Nat /\ Fresh(m)
         /\ \A i \in (m + 1)..Len(trunk) : trunk[i].card = NoCard
         /\ UNCHANGED <<verdicts, origin, versions, records>>
  BY UndoFacts
<1>2. Len(Commits) = Len(trunk) /\ \A i \in 1..Len(trunk) : Commits[i].card = trunk[i].card
  BY CommitsFacts
<1>3. Commits' = SubSeq(Commits, 1, m - 1)
  BY <1>1, CommitsCut
<1>4. \A i \in m..Len(trunk) : i > origin /\ (versions # <<>> => i > Ledger!Current)
  <2>1. versions # <<>> => versions[Len(versions)] < m /\ versions[Len(versions)] \in Nat
    BY <1>1, LatestVersion DEF Fresh
  <2> QED
    BY <1>1, <2>1, Typed DEF Fresh, Ledger!Current
<1>5. \A i \in m..Len(trunk) : i \notin Named
  <2>1. \A c \in Cards : \A k \in 1..Len(records[c]) : records[c][k].merge \in Nat /\ records[c][k].merge < m
    BY <1>1, Deliveries DEF Fresh
  <2> QED
    BY <1>1, <2>1 DEF Named
<1>6. \A i \in m..Len(Commits) : Ledger!Open(i)
  BY <1>2, <1>4, <1>5 DEF Ledger!Open
<1>7. \A i \in (m + 1)..Len(Commits) : Commits[i].card = Ledger!NoCard
  BY <1>1, <1>2 DEF NoCard, Ledger!NoCard
<1>8. UNCHANGED <<Passed, origin, versions, Named>>
  BY <1>1 DEF Passed, Named
<1> QED
  BY <1>1, <1>2, <1>3, <1>6, <1>7, <1>8 DEF Ledger!Undo

(* Every merge of a card that a deployment adds was passed.                *)
LEMMA DeployIsLedgerDeploy ==
    ASSUME IInv, NEW r \in Runs, Deploy(r)
    PROVE  Ledger!Deploy
<1>1. versions' = Append(versions, Len(trunk)) /\ UNCHANGED <<trunk, verdicts, origin, records>>
  BY DEF Deploy
<1>2. Len(Commits) = Len(trunk) /\ Len(trunk) \in Nat
  BY CommitsFacts
<1>3. Clear
  BY Past DEF Deploy, At, Fine
<1>4. ASSUME NEW i \in 1..Len(Commits),
             IF versions = <<>> THEN i = Len(Commits) ELSE i > Ledger!Current
      PROVE  Commits[i].card = Ledger!NoCard \/ Ledger!Vouched(Commits[i])
  <2>1. i \in 1..Len(trunk) /\ Commits[i].card = trunk[i].card
    BY <1>2, CommitsFacts
  <2>2. i \in ToDeploy
    <3>1. CASE versions = <<>>
      BY <1>2, <1>4, <2>1, <3>1 DEF ToDeploy
    <3>2. CASE versions # <<>>
      BY <1>2, <1>4, <2>1, <3>2, LatestVersion DEF ToDeploy, Since, Ledger!Current
    <3> QED
      BY <3>1, <3>2
  <2>3. CASE trunk[i].card = NoCard
    BY <2>1, <2>3 DEF NoCard, Ledger!NoCard
  <2>4. CASE trunk[i].card # NoCard
    BY <1>3, <2>1, <2>2, <2>4, AuditedVouched DEF Clear
  <2> QED
    BY <2>3, <2>4
<1>5. UNCHANGED <<Commits, Passed, origin, Named>>
  BY <1>1 DEF Commits, Passed, Named
<1> QED
  BY <1>1, <1>2, <1>4, <1>5 DEF Ledger!Deploy

(* A run writes a record only of what is on the base branch, and pushed.   *)
LEMMA RecordIsLedgerRecord ==
    ASSUME IInv, NEW r \in Runs, Record(r), run[r].merge # 0
    PROVE  run[r].merge \in 1..Len(Commits) /\ Ledger!Record(run[r].merge)
<1>1. /\ run[r].merge \in Nat /\ run[r].merge <= Len(trunk) /\ Len(trunk) \in Nat
      /\ Remote => run[r].merge <= origin
  BY Typed, Past DEF Record, At, Fine
<1>2. run[r].merge \in 1..Len(Commits)
  BY <1>1, CommitsFacts
<1>3. UNCHANGED <<Commits, Passed, origin, versions>>
  BY DEF Record, Commits, Passed
<1> QED
  BY <1>1, <1>2, <1>3, NamedGrows DEF Ledger!Record

(* Every step of Finalize is a step of the ledger, or leaves it alone.     *)
LEMMA LedgerStep == IInv /\ [Next]_vars => [Ledger!Next]_(Ledger!vars)
<1> SUFFICES ASSUME IInv, [Next]_vars PROVE [Ledger!Next]_(Ledger!vars)
  OBVIOUS
<1> USE DEF Ledger!vars
<1>1. CASE UNCHANGED world
  BY <1>1 DEF world, Commits, Passed, Named
<1>2. ASSUME NEW c \in Cards, NEW value \in {"PASS", "FAIL"}, NEW commit \in 0..MaxTip,
             Verdict(c, value, commit)
      PROVE  [Ledger!Next]_(Ledger!vars)
  <2>1. UNCHANGED <<Commits, origin, versions, Named>>
    BY <1>2 DEF Verdict, Commits, Named
  <2>2. CASE value = "PASS"
    <3>1. Passed' = Passed \cup {[card |-> c, commit |-> commit]}
      BY <1>2, <2>2, PassedGrows
    <3> QED
      BY <2>1, <3>1 DEF Ledger!Pass, Ledger!Next
  <2>3. CASE value # "PASS"
    BY <1>2, <2>1, <2>3, PassedGrows
  <2> QED
    BY <2>2, <2>3
<1>3. CASE \E c \in Cards : Commit(c)
  BY <1>3 DEF Commit, Commits, Passed, Named
<1>4. CASE OutsideCommit
  <2> DEFINE e == [card |-> NoCard, commit |-> 0, verdict |-> 0]
  <2>1. e \in Trunk
    BY FinalizeAssumption DEF Trunk
  <2>2. trunk' = Append(trunk, e) /\ UNCHANGED <<verdicts, origin, versions, records>>
    BY <1>4 DEF OutsideCommit
  <2>3. Commits' = Append(Commits, [card |-> NoCard, commit |-> 0])
    BY <2>1, <2>2, CommitsAppend
  <2> QED
    BY <2>2, <2>3 DEF Ledger!Foreign, Ledger!NoCard, NoCard, Passed, Named, Ledger!Next
<1>5. ASSUME NEW r \in Runs, Merge(r) PROVE Ledger!Next
  BY <1>5, MergeIsLedgerMerge
<1>6. ASSUME NEW r \in Runs, Undo(r) PROVE Ledger!Next
  BY <1>6, UndoIsLedgerUndo DEF Ledger!Next
<1>7. ASSUME NEW r \in Runs, Push(r) \/ PushAgain(r) PROVE [Ledger!Next]_(Ledger!vars)
  <2>1. UNCHANGED <<Commits, Passed, versions, Named>> /\ (origin' = Len(trunk) \/ origin' = origin)
    BY <1>7 DEF Push, PushAgain, Commits, Passed, Named
  <2> QED
    BY <2>1, CommitsFacts DEF Ledger!Push, Ledger!Next
<1>8. ASSUME NEW r \in Runs, Deploy(r) PROVE Ledger!Next
  BY <1>8, DeployIsLedgerDeploy DEF Ledger!Next
<1>9. ASSUME NEW r \in Runs, Record(r) PROVE [Ledger!Next]_(Ledger!vars)
  <2>1. CASE run[r].merge = 0
    BY <1>9, <2>1 DEF Record, Commits, Passed, Named
  <2>2. CASE run[r].merge # 0
    BY <1>9, <2>2, RecordIsLedgerRecord DEF Ledger!Next
  <2> QED
    BY <2>1, <2>2
<1>10. ASSUME NEW r \in Runs,
              \/ \E c \in Cards, push, deploy \in BOOLEAN : Start(r, c, push, deploy)
              \/ TakeLock(r) \/ CheckInterval(r) \/ MergeConflict(r) \/ ReadMerge(r) \/ RegressionPasses(r)
              \/ RegressionFails(r) \/ Settle(r) \/ LeaveUnpushed(r) \/ PushFails(r) \/ CheckDeploy(r)
              \/ DeployFails(r) \/ SkipDeploy(r) \/ Resume(r) \/ RefuseResume(r) \/ RefuseUnpushed(r)
              \/ Stop(r)
       PROVE  UNCHANGED world
  BY <1>10 DEF Start, TakeLock, CheckInterval, MergeConflict, ReadMerge, RegressionPasses, RegressionFails,
     Settle, LeaveUnpushed, PushFails, CheckDeploy, DeployFails, SkipDeploy, Resume, RefuseResume,
     RefuseUnpushed, Stop
<1>11. UNCHANGED vars => UNCHANGED world
  BY DEF vars, world
<1> QED
  BY <1>1, <1>2, <1>3, <1>4, <1>5, <1>6, <1>7, <1>8, <1>9, <1>10, <1>11 DEF Next

(* However runs are killed, refused, undone and resumed, and whatever      *)
(* people commit meanwhile, the base branch is a ledger.                   *)
THEOREM FinalizeImplementsLedger == Spec => LedgerSpec
<1>1. IInv /\ [Next]_vars => [Ledger!Next]_(Ledger!vars)
  BY LedgerStep
<1> QED
  BY <1>1, LedgerInit, Invariance, PTL DEF Spec, LedgerSpec, Ledger!Spec
=============================================================================
