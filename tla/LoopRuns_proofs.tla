-------------------------- MODULE LoopRuns_proofs --------------------------
(***************************************************************************)
(* Proofs about LoopRuns for any number of runs, cards, seconds, kills,    *)
(* stops and new deployments.                                              *)
(*                                                                         *)
(* Effects says what a step does to one run, whichever action takes it;    *)
(* the invariants of one run follow from it alone.  Those of two runs look *)
(* only at the judgement of the one that is admitted (OnlyRun, Judge),     *)
(* which reads the record of the other.                                    *)
(***************************************************************************)
EXTENDS LoopRuns, WellFoundedInduction, TLAPS

Same(p) == /\ pc'[p] = pc[p] /\ card'[p] = card[p] /\ started'[p] = started[p]
           /\ record'[p] = record[p] /\ written'[p] = written[p]
           /\ (p \in body') = (p \in body) /\ told'[p] = told[p]

Others(p) == \A q \in Runs \ {p} : Same(q)

(* The run p alone takes the step, and keeps its card and its start.       *)
Alone(p) == /\ Others(p)
            /\ card'[p] = card[p] /\ started'[p] = started[p]

KeepsRecord(p) == record'[p] = record[p] /\ written'[p] = written[p]

KeepsRest(p) == (p \in body') = (p \in body) /\ told'[p] = told[p]

(* A step in which p only goes on to another line. *)
Moves(p, from, to) == /\ Alone(p) /\ KeepsRecord(p) /\ KeepsRest(p)
                      /\ pc[p] = from /\ pc'[p] = to

Starts(p) == /\ pc[p] = "off" /\ pc'[p] = "stamped"
             /\ KeepsRecord(p) /\ KeepsRest(p) /\ started'[p] = now

Records(p) ==
    /\ Alone(p) /\ KeepsRest(p) /\ pc[p] = "stamped" /\ pc'[p] = "recorded"
    /\ record'[p].status = "running" /\ record'[p].lock = record[p].lock
    /\ record'[p].requested = record[p].requested
    /\ written'[p].record = now /\ written'[p].request = written[p].request
    /\ written'[p].hold = written[p].hold

Asks(p) ==
    /\ Alone(p) /\ KeepsRest(p) /\ pc[p] = "driving" /\ pc'[p] = "asking"
    /\ record'[p].status = record[p].status /\ record'[p].lock = record[p].lock
    /\ record'[p].requested = now /\ written'[p] = written[p]

Requests(p) ==
    /\ Alone(p) /\ KeepsRest(p) /\ pc[p] = "asking" /\ pc'[p] = "queued"
    /\ record'[p].status = record[p].status /\ record'[p].lock = "waiting"
    /\ record'[p].requested = record[p].requested
    /\ written'[p].record = written[p].record /\ written'[p].request = now
    /\ written'[p].hold = written[p].hold

Takes(p) ==
    /\ Alone(p) /\ KeepsRest(p) /\ pc[p] = "judged" /\ pc'[p] \in {"holding", "working"}
    /\ record'[p].status = record[p].status /\ record'[p].lock = "held"
    /\ record'[p].requested = record[p].requested
    /\ written'[p].record = written[p].record /\ written'[p].request = written[p].request
    /\ written'[p].hold = now

StandsBack(p) ==
    /\ Alone(p) /\ KeepsRest(p) /\ pc[p] = "holding" /\ pc'[p] = "queued"
    /\ record'[p].status = record[p].status /\ record'[p].lock = "waiting"
    /\ record'[p].requested = record[p].requested /\ written'[p] = written[p]

Launches(p) ==
    /\ Alone(p) /\ KeepsRecord(p) /\ told'[p] = told[p]
    /\ pc[p] = "working" /\ pc'[p] = "waiting" /\ p \in body'

Collects(p) ==
    /\ Alone(p) /\ KeepsRecord(p) /\ told'[p] = told[p]
    /\ pc[p] = "waiting" /\ pc'[p] = "working" /\ p \notin body'

Ends(p) ==
    /\ KeepsRest(p) /\ pc[p] \in {"recorded", "driving", "queued", "working"}
    /\ pc'[p] \in {"refused", "ended", "replaced"} /\ card'[p] = card[p] /\ started'[p] = started[p]
    /\ record'[p].status = "ended" /\ record'[p].requested = record[p].requested
    /\ written'[p] = written[p]
    /\ \A q \in Runs \ {p} : Same(q) \/ Starts(q)

Dies(p) == /\ Alone(p) /\ KeepsRecord(p) /\ KeepsRest(p)
           /\ Goes(p) /\ pc'[p] = "dead"

(* What is left of the body of p, and of its hold on the resource, after a *)
(* cleaning up.                                                            *)
CleansUp(p) ==
    /\ record'[p].status = "ended" /\ record'[p].requested = record[p].requested
    /\ written'[p] = written[p]
    /\ \/ p \notin body' /\ told'[p] \in {told[p], "stopped"}
       \/ /\ p \in body' => p \in body
          /\ told'[p] \in {told[p], "incomplete"}
          /\ record[p].lock \in {"waiting", "held", "residual"} => record'[p].lock = "residual"

HeedsStop(p) ==
    /\ Alone(p) /\ CleansUp(p) /\ Heeds(p) /\ pc'[p] = "ended"
    /\ stopper' # [pc |-> "waiting", run |-> p]

IsStopped(p) ==
    /\ Alone(p) /\ CleansUp(p) /\ pc'[p] = pc[p] /\ told'[p] \in {"stopped", "incomplete"}
    /\ \/ record[p].status = "running" /\ ~Goes(p) /\ stopper' = Nobody
       \/ record[p].status = "ended" /\ record[p].lock = "residual" /\ stopper' = stopper

IsOverrun(p) ==
    /\ Alone(p) /\ KeepsRecord(p) /\ (p \in body') = (p \in body) /\ pc'[p] = pc[p]
    /\ stopper = [pc |-> "waiting", run |-> p] /\ record[p].status = "ended"
    /\ told'[p] = "stopped"

Step(p) ==
    \/ Starts(p) /\ Others(p)
    \/ Records(p) \/ Asks(p) \/ Requests(p) \/ Takes(p) \/ StandsBack(p)
    \/ Launches(p) \/ Collects(p) \/ Ends(p) \/ Dies(p)
    \/ HeedsStop(p) \/ IsStopped(p) \/ IsOverrun(p)
    \/ OnlyRun(p) /\ Moves(p, "recorded", "driving")
    \/ Judge(p) /\ Moves(p, "queued", "judged")
    \/ Moves(p, "holding", "working")

(* The parts of the type invariant that the effects of a step rest on.     *)
LEMMA Parts ==
    ASSUME TypeOK
    PROVE  /\ pc \in [Runs -> Lines] /\ DOMAIN card = Runs /\ DOMAIN started = Runs
           /\ DOMAIN record = Runs /\ DOMAIN written = Runs /\ DOMAIN told = Runs
           /\ body \subseteq Runs
           /\ \A p \in Runs :
                 /\ record[p] \in [status: {"none", "running", "ended"},
                                   lock: {"none", "waiting", "held", "released", "residual"},
                                   requested: 0..MaxTime]
                 /\ written[p] \in [record: 0..MaxTime, request: 0..MaxTime, hold: 0..MaxTime]
  BY DEF TypeOK

(* A run that goes on has a process. *)
LEMMA GoingHasProcess ==
    ASSUME NEW p \in Runs, Goes(p) PROVE Alive(p)
  BY DEF Alive

LEMMA StartEffect ==
    ASSUME TypeOK, NEW p \in Runs, NEW c \in Cards, Start(p, c) PROVE Starts(p) /\ Others(p)
  BY Parts DEF Start, Goto, Starts, Others, Same, KeepsRecord, KeepsRest, stopping, bounds

LEMMA AdvanceEffect ==
    ASSUME TypeOK, NEW p \in Runs
    PROVE  /\ WriteRecord(p) => Records(p)
           /\ OnlyRun(p) => Moves(p, "recorded", "driving")
           /\ Ask(p) => Asks(p)
           /\ WriteRequest(p) => Requests(p)
           /\ Judge(p) => Moves(p, "queued", "judged")
           /\ Hold(p) \/ HoldAtBound(p) => Takes(p)
           /\ Acquire(p) => Moves(p, "holding", "working")
           /\ StandBack(p) => StandsBack(p)
           /\ Launch(p) => Launches(p)
           /\ Collect(p) => Collects(p)
           /\ Kill(p) => Dies(p)
<1> USE Parts DEF Goto, Alone, Others, Same, KeepsRecord, KeepsRest, Moves, stopping, bounds
<1>1. WriteRecord(p) => Records(p)
  BY DEF WriteRecord, Records
<1>2. OnlyRun(p) => Moves(p, "recorded", "driving")
  BY DEF OnlyRun
<1>3. Ask(p) => Asks(p)
  BY DEF Ask, Asks
<1>4. WriteRequest(p) => Requests(p)
  BY DEF WriteRequest, Requests
<1>5. Judge(p) => Moves(p, "queued", "judged")
  BY DEF Judge
<1>6. Hold(p) \/ HoldAtBound(p) => Takes(p)
  BY DEF Hold, HoldAtBound, Takes
<1>7. Acquire(p) => Moves(p, "holding", "working")
  BY DEF Acquire
<1>8. StandBack(p) => StandsBack(p)
  BY DEF StandBack, StandsBack
<1>9. Launch(p) => Launches(p)
  BY DEF Launch, Launches
<1>10. Collect(p) => Collects(p)
  BY DEF Collect, Collects
<1>11. Kill(p) => Dies(p)
  BY DEF Kill, Dies
<1> QED
  BY <1>1, <1>2, <1>3, <1>4, <1>5, <1>6, <1>7, <1>8, <1>9, <1>10, <1>11

LEMMA EndEffect ==
    ASSUME TypeOK, NEW p \in Runs
    PROVE  /\ AlreadyRunning(p) \/ ResourceBusy(p) \/ End(p) => Ends(p)
           /\ \A q \in Runs : Reexec(p, q) => Ends(p)
<1> USE Parts DEF Goto, Same, KeepsRecord, KeepsRest, Ended, Ends, stopping, bounds
<1>1. AlreadyRunning(p) => Ends(p)
  BY DEF AlreadyRunning
<1>2. ResourceBusy(p) => Ends(p)
  BY DEF ResourceBusy
<1>3. End(p) => Ends(p)
  BY DEF End
<1>4. ASSUME NEW q \in Runs, Reexec(p, q) PROVE Ends(p)
  <2>1. p # q
    BY <1>4 DEF Reexec
  <2>2. Starts(q)
    BY <1>4, <2>1 DEF Reexec, Starts
  <2>3. \A r \in Runs \ {p, q} : Same(r)
    BY <1>4 DEF Reexec
  <2> QED
    BY <1>4, <2>1, <2>2, <2>3 DEF Reexec
<1> QED
  BY <1>1, <1>2, <1>3, <1>4

LEMMA StopEffect ==
    ASSUME TypeOK, NEW p \in Runs, NEW clean \in BOOLEAN
    PROVE  /\ Heed(p, clean) => HeedsStop(p)
           /\ Stop(p, clean) => IsStopped(p) \/ \A q \in Runs : Same(q)
           /\ StopOverrun(p, clean) => IsStopped(p) \/ IsOverrun(p)
<1> USE Parts DEF Alone, Others, Same, KeepsRecord, KeepsRest, CleanUp, CleansUp, stopping, bounds,
        StopOutcome, Nobody
<1>1. Heed(p, clean) => HeedsStop(p)
  BY DEF Heed, HeedsStop, LockAfter, Released
<1>2. /\ StopDead(p, clean) \/ Recheck(p, clean)
      /\ UNCHANGED <<pc, card, proc, started, written>>
      => IsStopped(p)
  BY GoingHasProcess DEF StopDead, Recheck, IsStopped
<1>3. Stop(p, clean) => IsStopped(p) \/ \A q \in Runs : Same(q)
  BY <1>2 DEF Stop, RequestStop
<1>4. StopOverrun(p, clean) => IsStopped(p) \/ IsOverrun(p)
  BY <1>2 DEF StopOverrun, IsOverrun
<1> QED
  BY <1>1, <1>3, <1>4

(* A step is the step of one run or does nothing to any. *)
LEMMA Effects ==
    ASSUME TypeOK, [Next]_vars
    PROVE  (\E p \in Runs : Step(p)) \/ (\A p \in Runs : Same(p))
<1>1. CASE Tick \/ StopTimesOut \/ UNCHANGED vars
  BY <1>1 DEF Tick, StopTimesOut, vars, Same, stopping, bounds
<1>2. ASSUME NEW p \in Runs,
             \/ \E c \in Cards : Start(p, c)
             \/ WriteRecord(p) \/ OnlyRun(p) \/ AlreadyRunning(p)
             \/ Ask(p) \/ WriteRequest(p) \/ Judge(p)
             \/ Hold(p) \/ HoldAtBound(p) \/ Acquire(p) \/ StandBack(p) \/ ResourceBusy(p)
             \/ Launch(p) \/ Collect(p) \/ End(p)
             \/ \E q \in Runs : Reexec(p, q)
             \/ Kill(p)
             \/ \E clean \in BOOLEAN : Heed(p, clean) \/ Stop(p, clean) \/ StopOverrun(p, clean)
      PROVE  Step(p) \/ \A q \in Runs : Same(q)
  BY <1>2, StartEffect, AdvanceEffect, EndEffect, StopEffect, Zenon DEF Step
<1> QED
  BY <1>1, <1>2 DEF Next
-----------------------------------------------------------------------------
RecordType == [status: {"none", "running", "ended"},
               lock: {"none", "waiting", "held", "released", "residual"},
               requested: 0..MaxTime]
WrittenType == [record: 0..MaxTime, request: 0..MaxTime, hold: 0..MaxTime]
StopperType == [pc: {"off", "waiting"}, run: Runs \cup {0}]

Types == /\ now \in 1..MaxTime
         /\ pc \in [Runs -> Lines]
         /\ card \in [Runs -> Cards \cup {NoCard}]
         /\ proc \in [Runs -> Runs]
         /\ started \in [Runs -> 0..MaxTime]
         /\ record \in [Runs -> RecordType]
         /\ written \in [Runs -> WrittenType]
         /\ body \subseteq Runs /\ request \subseteq Runs
         /\ stopper \in StopperType
         /\ told \in [Runs -> {"nothing", "stopped", "incomplete"}]
         /\ kills \in 0..MaxKills /\ stops \in 0..MaxStops /\ reexecs \in 0..MaxReexecs

(* A run past its request has a request that waits or is held. *)
LockInv == \A p \in Runs : pc[p] \in {"queued", "judged", "holding", "working", "waiting"}
              => record[p].lock = IF pc[p] \in {"queued", "judged"} THEN "waiting" ELSE "held"

LEMMA TypeParts == TypeOK <=> Types /\ LockInv
  BY Zenon DEF TypeOK, Types, LockInv, RecordType, WrittenType, StopperType

LEMMA TypeInit == Init => TypeOK
<1> SUFFICES ASSUME Init PROVE Types /\ LockInv
  BY TypeParts
<1>1. Types
  BY LoopRunsAssumption DEF Init, Types, RecordType, WrittenType, StopperType, Lines, NoRecord, Nobody
<1>2. LockInv
  BY DEF Init, LockInv
<1> QED
  BY <1>1, <1>2

LEMMA LockStep == TypeOK /\ [Next]_vars => LockInv'
<1> SUFFICES ASSUME TypeOK, [Next]_vars PROVE LockInv'
  OBVIOUS
<1>1. LockInv
  BY TypeParts
<1>2. CASE \A p \in Runs : Same(p)
  BY <1>1, <1>2 DEF LockInv, Same
<1>3. ASSUME NEW p \in Runs, Step(p), NEW q \in Runs,
             pc'[q] \in {"queued", "judged", "holding", "working", "waiting"}
      PROVE  record'[q].lock = IF pc'[q] \in {"queued", "judged"} THEN "waiting" ELSE "held"
  <2>1. CASE p # q
    <3>1. Same(q)
      BY <1>3, <2>1 DEF Step, Moves, Starts, Records, Asks, Requests, Takes, StandsBack,
         Launches, Collects, Ends, Dies, HeedsStop, IsStopped, IsOverrun, Alone, Others
    <3> QED
      BY <1>1, <1>3, <3>1 DEF LockInv, Same
  <2>2. CASE p = q
    <3>1. pc[p] \in Lines
      BY Parts
    <3> QED
      BY <1>1, <1>3, <2>2, <3>1 DEF LockInv, Step, Moves, Starts, Records, Asks, Requests,
         Takes, StandsBack, Launches, Collects, Ends, Dies, HeedsStop, IsStopped, IsOverrun,
         KeepsRecord, Heeds, Goes, Lines
  <2> QED
    BY <2>1, <2>2
<1> QED
  BY <1>2, <1>3, Effects DEF LockInv

LEMMA TypesStep == TypeOK /\ [Next]_vars => Types'
<1> SUFFICES ASSUME Types, [Next]_vars PROVE Types'
  BY TypeParts
<1> USE LoopRunsAssumption
<1>0. MaxTime \in Nat /\ MaxKills \in Nat /\ MaxStops \in Nat /\ MaxReexecs \in Nat
  BY LoopRunsAssumption
<1> DEFINE Locks == {"none", "waiting", "held", "released", "residual"}
<1>1. now \in 0..MaxTime
  BY <1>0 DEF Types
<1>2. ASSUME NEW p \in Runs, NEW l \in Locks
      PROVE  /\ [record EXCEPT ![p].status = "ended", ![p].lock = l] \in [Runs -> RecordType]
             /\ [record EXCEPT ![p].lock = l] \in [Runs -> RecordType]
  <2>1. record \in [Runs -> RecordType]
    BY DEF Types
  <2>2. [record EXCEPT ![p].status = "ended", ![p].lock = l] \in [Runs -> RecordType]
    <3> DEFINE r == [record[p] EXCEPT !.status = "ended", !.lock = l]
    <3>1. r \in RecordType
      BY <2>1 DEF RecordType
    <3>2. [record EXCEPT ![p].status = "ended", ![p].lock = l] = [record EXCEPT ![p] = r]
      BY <2>1 DEF RecordType
    <3> HIDE DEF r
    <3> QED
      BY <2>1, <3>1, <3>2
  <2>3. [record EXCEPT ![p].lock = l] \in [Runs -> RecordType]
    BY <2>1, SMTT(20) DEF RecordType
  <2> QED
    BY <2>2, <2>3
<1>3. ASSUME NEW p \in Runs
      PROVE  /\ [record EXCEPT ![p].status = "running"] \in [Runs -> RecordType]
             /\ [record EXCEPT ![p].requested = now] \in [Runs -> RecordType]
             /\ [written EXCEPT ![p].record = now] \in [Runs -> WrittenType]
             /\ [written EXCEPT ![p].request = now] \in [Runs -> WrittenType]
             /\ [written EXCEPT ![p].hold = now] \in [Runs -> WrittenType]
  <2>1. record \in [Runs -> RecordType] /\ written \in [Runs -> WrittenType]
    BY DEF Types
  <2>2. /\ [record EXCEPT ![p].status = "running"] \in [Runs -> RecordType]
        /\ [record EXCEPT ![p].requested = now] \in [Runs -> RecordType]
    BY <1>1, <2>1, SMTT(20) DEF RecordType
  <2>3. /\ [written EXCEPT ![p].record = now] \in [Runs -> WrittenType]
        /\ [written EXCEPT ![p].request = now] \in [Runs -> WrittenType]
        /\ [written EXCEPT ![p].hold = now] \in [Runs -> WrittenType]
    BY <1>1, <2>1, SMTT(20) DEF WrittenType
  <2> QED
    BY <2>2, <2>3
<1>stop. /\ Nobody \in StopperType
      /\ \A p \in Runs : [pc |-> "waiting", run |-> p] \in StopperType
      /\ \A clean \in BOOLEAN : StopOutcome(clean) \in {"stopped", "incomplete"}
  BY DEF Nobody, StopperType, StopOutcome
<1>locks. /\ \A p \in Runs : record[p].lock \in Locks /\ Released(record[p].lock) \in Locks
      /\ \A p \in Runs, clean \in BOOLEAN : LockAfter(record[p].lock, clean) \in Locks
      /\ "waiting" \in Locks /\ "held" \in Locks
  BY DEF Types, RecordType, Released, LockAfter
<1>lines. ASSUME NEW p \in Runs,
             \E l \in {"recorded", "refused", "asking", "queued", "holding", "working", "ended"} :
                Goto(p, l)
      PROVE  pc' \in [Runs -> Lines]
  BY <1>lines DEF Goto, Types, Lines
<1> HIDE DEF Locks
<1>4. CASE Tick
  BY <1>0, <1>4 DEF Tick, Types, stopping, bounds
<1>5. ASSUME NEW p \in Runs, NEW c \in Cards, Start(p, c) PROVE Types'
  BY <1>1, <1>5 DEF Start, Goto, Types, Lines, stopping, bounds
<1>6. ASSUME NEW p \in Runs, WriteRecord(p) PROVE Types'
  <2>1. pc' \in [Runs -> Lines]
    BY <1>6, <1>lines DEF WriteRecord
  <2>2. record' \in [Runs -> RecordType] /\ written' \in [Runs -> WrittenType]
    BY <1>3, <1>6, Zenon DEF WriteRecord
  <2> QED
    BY <1>6, <2>1, <2>2 DEF WriteRecord, Types, stopping, bounds
<1>7. ASSUME NEW p \in Runs PROVE OnlyRun(p) \/ Judge(p) \/ Acquire(p) => Types'
  BY DEF OnlyRun, Judge, Acquire, Goto, Types, Lines, stopping, bounds
<1>8. ASSUME NEW p \in Runs, AlreadyRunning(p) \/ ResourceBusy(p) \/ End(p) PROVE Types'
  <2>1. pc' \in [Runs -> Lines]
    BY <1>8, <1>lines DEF AlreadyRunning, ResourceBusy, End
  <2>2. record' \in [Runs -> RecordType]
    <3>1. Ended(p)
      BY <1>8 DEF AlreadyRunning, ResourceBusy, End
    <3> QED
      BY <1>2, <3>1, <1>locks, Zenon DEF Ended
  <2> QED
    BY <1>8, <2>1, <2>2 DEF AlreadyRunning, ResourceBusy, End, Types, stopping, bounds
<1>9. ASSUME NEW p \in Runs, Ask(p) \/ StandBack(p) PROVE Types'
  <2>1. pc' \in [Runs -> Lines]
    BY <1>9, <1>lines DEF Ask, StandBack
  <2>2. record' \in [Runs -> RecordType]
    <3>1. CASE Ask(p)
      BY <1>3, <3>1, Zenon DEF Ask
    <3>2. CASE StandBack(p)
      BY <1>2, <3>2, <1>locks, Zenon DEF StandBack
    <3> QED
      BY <1>9, <3>1, <3>2
  <2> QED
    BY <1>9, <2>1, <2>2 DEF Ask, StandBack, Types, stopping, bounds
<1>10. ASSUME NEW p \in Runs, WriteRequest(p) \/ Hold(p) \/ HoldAtBound(p) PROVE Types'
  <2>1. pc' \in [Runs -> Lines]
    BY <1>10, <1>lines DEF WriteRequest, Hold, HoldAtBound
  <2>2. record' \in [Runs -> RecordType] /\ written' \in [Runs -> WrittenType]
    <3>1. CASE WriteRequest(p)
      BY <1>2, <1>3, <3>1, <1>locks, Zenon DEF WriteRequest
    <3>2. CASE Hold(p) \/ HoldAtBound(p)
      <4>1. /\ record' = [record EXCEPT ![p].lock = "held"]
            /\ written' = [written EXCEPT ![p].hold = now]
        BY <3>2 DEF Hold, HoldAtBound
      <4> QED
        BY <1>2, <1>3, <4>1, <1>locks, Zenon
    <3> QED
      BY <1>10, <3>1, <3>2
  <2> QED
    BY <1>10, <2>1, <2>2 DEF WriteRequest, Hold, HoldAtBound, Types, stopping, bounds
<1>11. ASSUME NEW p \in Runs PROVE Launch(p) \/ Collect(p) => Types'
  <2>1. Launch(p) => Types'
    BY DEF Launch, Goto, Types, Lines, stopping, bounds
  <2>2. Collect(p) => Types'
    BY DEF Collect, Goto, Types, Lines, stopping, bounds
  <2> QED
    BY <2>1, <2>2
<1>12. ASSUME NEW p \in Runs, NEW q \in Runs, Reexec(p, q) PROVE Types'
  <2>1. record' \in [Runs -> RecordType]
    <3>1. record' = [record EXCEPT ![p].status = "ended"]
      BY <1>12 DEF Reexec
    <3> QED
      BY <3>1, SMTT(20) DEF Types, RecordType
  <2>2. pc' \in [Runs -> Lines]
    BY <1>12 DEF Reexec, Types, Lines
  <2>3. /\ card' \in [Runs -> Cards \cup {NoCard}] /\ started' \in [Runs -> 0..MaxTime]
        /\ proc' \in [Runs -> Runs] /\ reexecs' \in 0..MaxReexecs
    BY <1>0, <1>1, <1>12 DEF Reexec, Types
  <2> QED
    BY <1>12, <2>1, <2>2, <2>3 DEF Reexec, Types, stopping
<1>13. ASSUME NEW p \in Runs PROVE Kill(p) => Types'
  BY <1>0 DEF Kill, Goto, Types, Lines, stopping, bounds
<1>14. ASSUME NEW p \in Runs, NEW clean \in BOOLEAN, Heed(p, clean) PROVE Types'
  <2>1. record' \in [Runs -> RecordType]
    BY <1>2, <1>14, <1>locks, Zenon DEF Heed
  <2>2. pc' \in [Runs -> Lines] /\ body' \subseteq Runs
    BY <1>14 DEF Heed, CleanUp, Types, Lines
  <2>3. told' \in [Runs -> {"nothing", "stopped", "incomplete"}]
    BY <1>14, <1>stop DEF Heed, Types
  <2>4. stopper' \in StopperType
    BY <1>14, <1>stop, Zenon DEF Heed, Types
  <2> QED
    BY <1>14, <2>1, <2>2, <2>3, <2>4 DEF Heed, Types, bounds
<1>15. ASSUME NEW p \in Runs, NEW clean \in BOOLEAN,
              \/ StopDead(p, clean) \/ Recheck(p, clean) \/ RequestStop(p)
              \/ /\ told' = [told EXCEPT ![p] = "stopped"] /\ stopper' = Nobody
                 /\ UNCHANGED <<record, body, request>>
       PROVE  /\ record' \in [Runs -> RecordType] /\ body' \subseteq Runs
              /\ request' \subseteq Runs /\ stopper' \in StopperType
              /\ told' \in [Runs -> {"nothing", "stopped", "incomplete"}]
  <2>1. record' \in [Runs -> RecordType]
    <3>1. CASE StopDead(p, clean)
      <4> DEFINE l == IF record[p].lock = "none" THEN record[p].lock
                      ELSE IF clean THEN "released" ELSE "residual"
      <4>1. l \in Locks
        BY DEF Locks
      <4>2. record' = [record EXCEPT ![p].status = "ended", ![p].lock = l]
        BY <3>1 DEF StopDead
      <4> HIDE DEF l
      <4> QED
        BY <1>2, <4>1, <4>2, Zenon
    <3>2. CASE Recheck(p, clean)
      <4> DEFINE l == IF clean THEN "released" ELSE record[p].lock
      <4>1. l \in Locks
        BY <1>locks DEF Locks
      <4>2. record' = [record EXCEPT ![p].lock = l]
        BY <3>2 DEF Recheck
      <4> HIDE DEF l
      <4> QED
        BY <1>2, <4>1, <4>2, Zenon
    <3> QED
      BY <1>15, <3>1, <3>2 DEF RequestStop, Types
  <2>2. body' \subseteq Runs /\ request' \subseteq Runs
    BY <1>15 DEF StopDead, Recheck, RequestStop, CleanUp, Types
  <2>3. stopper' \in StopperType
    BY <1>15, <1>stop DEF StopDead, Recheck, RequestStop, Types
  <2>4. told' \in [Runs -> {"nothing", "stopped", "incomplete"}]
    BY <1>15, <1>stop DEF StopDead, Recheck, RequestStop, Types
  <2> QED
    BY <2>1, <2>2, <2>3, <2>4
<1>16. ASSUME NEW p \in Runs, NEW clean \in BOOLEAN, Stop(p, clean) PROVE Types'
  <2>1. stops' \in 0..MaxStops /\ UNCHANGED <<now, pc, card, proc, started, written, kills, reexecs>>
    BY <1>0, <1>16 DEF Stop, Types
  <2>2. StopDead(p, clean) \/ Recheck(p, clean) \/ RequestStop(p)
    BY <1>16 DEF Stop
  <2> QED
    BY <1>15, <2>1, <2>2 DEF Types
<1>17. ASSUME NEW p \in Runs, NEW clean \in BOOLEAN, StopOverrun(p, clean) PROVE Types'
  <2>1. UNCHANGED <<now, pc, card, proc, started, written, bounds>>
    BY <1>17 DEF StopOverrun
  <2>2. \/ StopDead(p, clean)
        \/ /\ told' = [told EXCEPT ![p] = "stopped"] /\ stopper' = Nobody
           /\ UNCHANGED <<record, body, request>>
    BY <1>17 DEF StopOverrun
  <2> QED
    BY <1>15, <2>1, <2>2 DEF Types, bounds
<1>18. CASE StopTimesOut \/ UNCHANGED vars
  BY <1>18, <1>stop DEF StopTimesOut, vars, Types, stopping, bounds
<1> QED
  BY <1>4, <1>5, <1>6, <1>7, <1>8, <1>9, <1>10, <1>11, <1>12, <1>13, <1>14, <1>16, <1>17, <1>18
     DEF Next

(* Every variable of the runs keeps its type, and a run past its request   *)
(* has a request that waits or is held.                                    *)
THEOREM TypeCorrect == Spec => []TypeOK
<1>1. TypeOK /\ [Next]_vars => TypeOK'
  BY LockStep, TypesStep, TypeParts DEF TypeOK, Types, LockInv, RecordType, WrittenType, StopperType
<1> QED
  BY <1>1, TypeInit, PTL DEF Spec

LEMMA TypeStep == TypeOK /\ [Next]_vars => TypeOK'
  BY LockStep, TypesStep, TypeParts DEF TypeOK, Types, LockInv, RecordType, WrittenType, StopperType
-----------------------------------------------------------------------------
(* What holds of every run by itself.  Its record says running from its    *)
(* first writing to its end, so that only a run that was killed leaves a   *)
(* running record behind; a body outlives its run only as a residue or     *)
(* after a kill; a stop command that waits for a run has it ended without  *)
(* a body.                                                                 *)
RunInv(p) ==
    /\ pc[p] = "off" => told[p] = "nothing"
    /\ pc[p] \in {"off", "stamped"} => record[p].status = "none" /\ written[p].record = 0
    /\ pc[p] \in {"off", "stamped", "recorded", "driving", "asking"} =>
          written[p].request = 0 /\ written[p].hold = 0
    /\ Goes(p) /\ pc[p] # "stamped" => record[p].status = "running"
    /\ record[p].status = "running" => pc[p] \notin {"off", "refused", "ended", "replaced"}
    /\ record[p].status = "ended" => pc[p] \in {"refused", "ended", "replaced", "dead"}
    /\ p \in body => pc[p] \in {"waiting", "ended", "dead"}
    /\ p \in body /\ pc[p] = "ended" => record[p].lock = "residual"
    /\ p \in body /\ stopper = [pc |-> "waiting", run |-> p] => record[p].status # "ended"
    /\ told[p] = "stopped" => ~Goes(p) /\ p \notin body

RunsInv == \A p \in Runs : RunInv(p)

(* A stop command starts to wait only for a run whose record says running. *)
LEMMA StopperStep ==
    ASSUME TypeOK, [Next]_vars, NEW p \in Runs, stopper' = [pc |-> "waiting", run |-> p]
    PROVE  \/ stopper = [pc |-> "waiting", run |-> p]
           \/ record'[p].status = "running"
<1> DEFINE Waits(s) == s = [pc |-> "waiting", run |-> p]
<1>1. ~Waits(Nobody)
  BY DEF Nobody
<1>2. stopper' = stopper => Waits(stopper)
  OBVIOUS
<1>3. ASSUME NEW q \in Runs, NEW clean \in BOOLEAN, Heed(q, clean) PROVE Waits(stopper)
  BY <1>1, <1>3 DEF Heed
<1>4. ASSUME NEW q \in Runs, NEW clean \in BOOLEAN,
             StopDead(q, clean) \/ Recheck(q, clean) \/ StopOverrun(q, clean)
      PROVE  Waits(stopper)
  BY <1>1, <1>4 DEF StopDead, Recheck, StopOverrun
<1>5. ASSUME NEW q \in Runs, RequestStop(q) PROVE record'[p].status = "running"
  <2>1. stopper' = [pc |-> "waiting", run |-> q] /\ Live(q) /\ record' = record
    BY <1>5 DEF RequestStop
  <2>2. [pc |-> "waiting", run |-> q].run = [pc |-> "waiting", run |-> p].run
    BY <2>1
  <2> QED
    BY <2>1, <2>2 DEF Live
<1>6. StopTimesOut => Waits(stopper)
  BY <1>1 DEF StopTimesOut
<1> QED
  BY <1>2, <1>3, <1>4, <1>5, <1>6 DEF Next, vars, Tick, Start, WriteRecord, OnlyRun,
     AlreadyRunning, Ask, WriteRequest, Judge, Hold, HoldAtBound, Acquire, StandBack,
     ResourceBusy, Launch, Collect, End, Reexec, Kill, Stop, stopping

LEMMA RunStep ==
    ASSUME TypeOK, RunsInv, [Next]_vars, NEW p \in Runs
    PROVE  RunInv(p)'
<1>1. /\ pc[p] \in Lines /\ RunInv(p)
      /\ record[p].status \in {"none", "running", "ended"}
  BY Parts DEF RunsInv
<1>2. stopper' = [pc |-> "waiting", run |-> p] =>
         stopper = [pc |-> "waiting", run |-> p] \/ record'[p].status = "running"
  BY StopperStep
<1>3. pc[p] \in {"queued", "judged"} => record[p].lock = "waiting"
  BY TypeParts DEF LockInv
<1>4. pc[p] \in {"holding", "working", "waiting"} => record[p].lock = "held"
  BY TypeParts DEF LockInv
<1>5. CASE Same(p)
  BY <1>1, <1>2, <1>5 DEF Same, RunInv, Goes
<1>6. CASE Starts(p) \/ Records(p) \/ Asks(p) \/ Requests(p) \/ Takes(p) \/ StandsBack(p)
  BY <1>1, <1>2, <1>6 DEF Starts, Records, Asks, Requests, Takes, StandsBack, KeepsRecord,
     KeepsRest, Alone, RunInv, Goes
<1>7. CASE Launches(p) \/ Collects(p) \/ Ends(p) \/ Dies(p)
  BY <1>1, <1>2, <1>7 DEF Launches, Collects, Ends, Dies, KeepsRecord, KeepsRest, RunInv, Goes
<1>8. CASE HeedsStop(p)
  BY <1>1, <1>3, <1>4, <1>8 DEF HeedsStop, CleansUp, Heeds, RunInv, Goes
<1>9. CASE IsStopped(p) \/ IsOverrun(p)
  BY <1>1, <1>2, <1>9 DEF IsStopped, IsOverrun, CleansUp, Nobody, KeepsRecord, RunInv, Goes
<1>10. CASE \/ Moves(p, "recorded", "driving") \/ Moves(p, "queued", "judged")
            \/ Moves(p, "holding", "working")
  BY <1>1, <1>2, <1>10 DEF Moves, KeepsRecord, KeepsRest, RunInv, Goes
<1>11. ASSUME NEW q \in Runs \ {p}, Step(q) PROVE Same(p) \/ Starts(p) \/ Ends(p)
  BY <1>11 DEF Step, Moves, Starts, Records, Asks, Requests, Takes, StandsBack,
     Launches, Collects, Ends, Dies, HeedsStop, IsStopped, IsOverrun, Alone, Others
<1> QED
  BY <1>5, <1>6, <1>7, <1>8, <1>9, <1>10, <1>11, Effects DEF Step

(* The seconds of a run: none is later than now, and what the code writes  *)
(* first has the earlier second.                                           *)
TimeInv(p) ==
    /\ started[p] <= now /\ record[p].requested <= now
    /\ written[p].record <= now /\ written[p].request <= now /\ written[p].hold <= now
    /\ written[p].record > 0 => started[p] <= written[p].record
    /\ written[p].request > 0 => record[p].requested <= written[p].request
    /\ written[p].hold > 0 => written[p].request <= written[p].hold

TimesInv == \A p \in Runs : TimeInv(p)

LEMMA Times ==
    ASSUME TypeOK
    PROVE  /\ now \in Nat
           /\ \A p \in Runs : /\ started[p] \in Nat /\ record[p].requested \in Nat
                               /\ written[p].record \in Nat /\ written[p].request \in Nat
                               /\ written[p].hold \in Nat
<1>1. now \in Nat
  BY LoopRunsAssumption DEF TypeOK
<1>2. ASSUME NEW p \in Runs
      PROVE  /\ started[p] \in Nat /\ record[p].requested \in Nat
             /\ written[p].record \in Nat /\ written[p].request \in Nat
             /\ written[p].hold \in Nat
  <2>1. started[p] \in 0..MaxTime
    BY DEF TypeOK
  <2> QED
    BY <2>1, Parts, LoopRunsAssumption
<1> QED
  BY <1>1, <1>2

LEMMA NowGrows == TypeOK /\ [Next]_vars => now' \in {now, now + 1}
<1>1. CASE Tick \/ StopTimesOut \/ UNCHANGED vars
  BY <1>1 DEF Tick, StopTimesOut, vars
<1>2. ASSUME NEW p \in Runs,
             \/ \E c \in Cards : Start(p, c)
             \/ WriteRecord(p) \/ OnlyRun(p) \/ AlreadyRunning(p)
             \/ Ask(p) \/ WriteRequest(p) \/ Judge(p)
             \/ Hold(p) \/ HoldAtBound(p) \/ Acquire(p) \/ StandBack(p) \/ ResourceBusy(p)
      PROVE  now' = now
  BY <1>2 DEF Start, WriteRecord, OnlyRun, AlreadyRunning, Ask, WriteRequest, Judge, Hold,
     HoldAtBound, Acquire, StandBack, ResourceBusy
<1>3. ASSUME NEW p \in Runs,
             \/ Launch(p) \/ Collect(p) \/ End(p) \/ Kill(p)
             \/ \E q \in Runs : Reexec(p, q)
             \/ \E clean \in BOOLEAN : Heed(p, clean) \/ Stop(p, clean) \/ StopOverrun(p, clean)
      PROVE  now' = now
  BY <1>3 DEF Launch, Collect, End, Kill, Reexec, Heed, Stop, StopOverrun
<1> QED
  BY <1>1, <1>2, <1>3 DEF Next

(* What one run may see of another between two of its steps.               *)
LEMMA OtherRuns ==
    ASSUME NEW p \in Runs, NEW q \in Runs \ {p}, Step(q)
    PROVE  \/ Same(p) \/ Starts(p) \/ Ends(p)
  BY DEF Step, Moves, Starts, Records, Asks, Requests, Takes, StandsBack,
     Launches, Collects, Ends, Dies, HeedsStop, IsStopped, IsOverrun, Alone, Others

LEMMA TimeStep ==
    ASSUME TypeOK, RunsInv, TimesInv, [Next]_vars, NEW p \in Runs
    PROVE  TimeInv(p)'
<1>1. /\ TimeInv(p) /\ now \in Nat /\ now' \in {now, now + 1}
      /\ started[p] \in Nat /\ record[p].requested \in Nat
      /\ written[p].record \in Nat /\ written[p].request \in Nat /\ written[p].hold \in Nat
  BY Times, NowGrows DEF TimesInv
<1>2. /\ pc[p] \in {"off", "stamped"} => written[p].record = 0
      /\ pc[p] \in {"off", "stamped", "recorded", "driving", "asking"} =>
            written[p].request = 0 /\ written[p].hold = 0
  BY DEF RunsInv, RunInv
<1>3. CASE \/ Same(p) \/ Launches(p) \/ Collects(p) \/ Ends(p) \/ Dies(p)
           \/ HeedsStop(p) \/ IsStopped(p) \/ IsOverrun(p) \/ StandsBack(p)
           \/ \E from, to \in Lines : Moves(p, from, to)
  <2>1. /\ written'[p] = written[p] /\ started'[p] = started[p]
        /\ record'[p].requested = record[p].requested
    BY <1>3 DEF Same, Launches, Collects, Ends, Dies, HeedsStop, IsStopped, IsOverrun,
       StandsBack, Moves, CleansUp, KeepsRecord, Alone
  <2> QED
    BY <1>1, <2>1 DEF TimeInv
<1>4. CASE Starts(p)
  BY <1>1, <1>2, <1>4 DEF TimeInv, Starts, KeepsRecord
<1>5. CASE Records(p) \/ Asks(p)
  BY <1>1, <1>2, <1>5 DEF TimeInv, Records, Asks, Alone
<1>6. CASE Requests(p) \/ Takes(p)
  BY <1>1, <1>2, <1>6 DEF TimeInv, Requests, Takes, Alone
<1> QED
  BY <1>3, <1>4, <1>5, <1>6, Effects, OtherRuns DEF Step, Lines

BaseInv == TypeOK /\ RunsInv /\ TimesInv

LEMMA BaseInvariant == Spec => []BaseInv
<1>1. Init => RunsInv /\ TimesInv
  <2> SUFFICES ASSUME Init, NEW p \in Runs PROVE RunInv(p) /\ TimeInv(p)
    BY DEF RunsInv, TimesInv
  <2>1. /\ now = 1 /\ pc[p] = "off" /\ started[p] = 0 /\ record[p] = NoRecord
        /\ written[p] = [record |-> 0, request |-> 0, hold |-> 0]
        /\ body = {} /\ told[p] = "nothing"
    BY DEF Init
  <2> QED
    BY <2>1 DEF RunInv, TimeInv, NoRecord, Goes
<1>2. TypeOK /\ RunsInv /\ [Next]_vars => RunsInv'
  BY RunStep DEF RunsInv
<1>3. TypeOK /\ RunsInv /\ TimesInv /\ [Next]_vars => TimesInv'
  BY TimeStep DEF TimesInv
<1> QED
  BY <1>1, <1>2, <1>3, TypeInit, TypeStep, PTL DEF Spec, BaseInv

-----------------------------------------------------------------------------
(* A run that lives after a step has just started, or lived before it and  *)
(* what it wrote in the step has the second of the step.                   *)
LEMMA GoesStep ==
    ASSUME TypeOK, [Next]_vars, NEW p \in Runs, Goes(p)'
    PROVE  \/ Starts(p)
           \/ /\ Goes(p) /\ card'[p] = card[p]
              /\ written'[p].record \in {written[p].record, now}
              /\ written'[p].request \in {written[p].request, now}
<1>1. CASE Same(p) \/ Ends(p)
  BY <1>1 DEF Same, Ends, Goes
<1>2. CASE Step(p)
  BY <1>2 DEF Step, Moves, Starts, Records, Asks, Requests, Takes, StandsBack,
     Launches, Collects, Ends, Dies, HeedsStop, IsStopped, IsOverrun, CleansUp, KeepsRecord,
     Alone, Goes
<1> QED
  BY <1>1, <1>2, Effects, OtherRuns

LEMMA NeverOff ==
    ASSUME TypeOK, [Next]_vars, NEW p \in Runs, pc[p] # "off"
    PROVE  pc'[p] # "off"
<1>1. CASE Same(p) \/ Starts(p) \/ Ends(p)
  BY <1>1 DEF Same, Starts, Ends
<1>2. CASE Step(p)
  BY <1>2 DEF Step, Moves, Starts, Records, Asks, Requests, Takes, StandsBack,
     Launches, Collects, Ends, Dies, HeedsStop, IsStopped, IsOverrun
<1> QED
  BY <1>1, <1>2, Effects, OtherRuns
-----------------------------------------------------------------------------
(* Runs of one process: the one that goes on has replaced all the others,  *)
(* and a process is numbered by a run that has started.                    *)
ProcInv ==
    /\ \A p, q \in Runs : p # q /\ proc[q] = proc[p] /\ Goes(q) => pc[p] = "replaced"
    /\ \A p \in Runs : proc[p] # p => pc[p] # "off" /\ pc[proc[p]] = "replaced"

LEMMA ProcKept ==
    ASSUME [Next]_vars
    PROVE  proc' = proc \/ \E p, q \in Runs : Reexec(p, q)
<1>1. CASE Tick \/ StopTimesOut \/ UNCHANGED vars
  BY <1>1 DEF Tick, StopTimesOut, vars
<1>2. ASSUME NEW p \in Runs,
             \/ \E c \in Cards : Start(p, c)
             \/ WriteRecord(p) \/ OnlyRun(p) \/ AlreadyRunning(p)
             \/ Ask(p) \/ WriteRequest(p) \/ Judge(p)
             \/ Hold(p) \/ HoldAtBound(p) \/ Acquire(p) \/ StandBack(p) \/ ResourceBusy(p)
      PROVE  proc' = proc
  BY <1>2 DEF Start, WriteRecord, OnlyRun, AlreadyRunning, Ask, WriteRequest, Judge, Hold,
     HoldAtBound, Acquire, StandBack, ResourceBusy
<1>3. ASSUME NEW p \in Runs,
             \/ Launch(p) \/ Collect(p) \/ End(p) \/ Kill(p)
             \/ \E clean \in BOOLEAN : Heed(p, clean) \/ Stop(p, clean) \/ StopOverrun(p, clean)
      PROVE  proc' = proc
  BY <1>3 DEF Launch, Collect, End, Kill, Heed, Stop, StopOverrun
<1> QED
  BY <1>1, <1>2, <1>3 DEF Next

LEMMA ReplacedStays ==
    ASSUME TypeOK, [Next]_vars, NEW p \in Runs, pc[p] = "replaced"
    PROVE  pc'[p] = "replaced"
<1>1. CASE Same(p) \/ Starts(p) \/ Ends(p)
  BY <1>1 DEF Same, Starts, Ends
<1>2. CASE Step(p)
  BY <1>2 DEF Step, Moves, Starts, Records, Asks, Requests, Takes, StandsBack,
     Launches, Collects, Ends, Dies, HeedsStop, IsStopped, IsOverrun, Goes, Heeds
<1> QED
  BY <1>1, <1>2, Effects, OtherRuns

LEMMA ProcStep == TypeOK /\ ProcInv /\ [Next]_vars => ProcInv'
<1> SUFFICES ASSUME TypeOK, ProcInv, [Next]_vars PROVE ProcInv'
  OBVIOUS
<1>0. /\ proc \in [Runs -> Runs]
      /\ \A p, q \in Runs : p # q /\ proc[q] = proc[p] /\ Goes(q) => pc[p] = "replaced"
      /\ \A p \in Runs : proc[p] # p => pc[p] # "off" /\ pc[proc[p]] = "replaced"
      /\ \A p \in Runs : pc[p] = "replaced" => pc'[p] = "replaced"
  BY ReplacedStays DEF TypeOK, ProcInv
<1>1. CASE proc' = proc
  <2>1. ASSUME NEW p \in Runs, NEW q \in Runs, p # q, proc[q] = proc[p], Goes(q)'
        PROVE  pc'[p] = "replaced"
    <3>1. CASE Goes(q)
      BY <1>0, <2>1, <3>1
    <3>2. CASE Starts(q)
      <4>1. pc[q] = "off" /\ proc[q] = q
        BY <1>0, <3>2 DEF Starts
      <4> QED
        BY <1>0, <2>1, <4>1
    <3> QED
      BY <2>1, <3>1, <3>2, GoesStep
  <2>2. ASSUME NEW p \in Runs, proc[p] # p
        PROVE  pc'[p] # "off" /\ pc'[proc[p]] = "replaced"
    <3>1. pc'[proc[p]] = "replaced" /\ pc[p] # "off"
      BY <1>0, <2>2
    <3> QED
      BY <3>1, NeverOff
  <2> QED
    BY <1>1, <2>1, <2>2 DEF ProcInv, Goes
<1>2. ASSUME NEW o \in Runs, NEW n \in Runs, Reexec(o, n) PROVE ProcInv'
  <2>1. /\ o # n /\ Goes(o) /\ pc[n] = "off" /\ pc'[o] = "replaced" /\ pc'[n] = "stamped"
        /\ proc'[n] = proc[o]
        /\ \A p \in Runs \ {n} : proc'[p] = proc[p]
        /\ \A p \in Runs \ {o, n} : pc'[p] = pc[p]
    BY <1>0, <1>2 DEF Reexec, Goes, TypeOK
  <2>2. ASSUME NEW p \in Runs, NEW q \in Runs, p # q, proc'[q] = proc'[p], Goes(q)'
        PROVE  pc'[p] = "replaced"
    <3>1. CASE q = n
      BY <1>0, <2>1, <2>2, <3>1
    <3>2. CASE q # n
      <4>1. q # o /\ Goes(q) /\ proc'[q] = proc[q]
        BY <2>1, <2>2, <3>2 DEF Goes
      <4>2. p # n
        BY <1>0, <2>1, <2>2, <4>1 DEF Goes
      <4> QED
        BY <1>0, <2>1, <2>2, <4>1, <4>2
    <3> QED
      BY <3>1, <3>2
  <2>3. ASSUME NEW p \in Runs, proc'[p] # p
        PROVE  pc'[p] # "off" /\ pc'[proc'[p]] = "replaced"
    <3>1. CASE p = n
      BY <1>0, <2>1, <3>1
    <3>2. CASE p # n
      BY <1>0, <2>1, <2>3, <3>2
    <3> QED
      BY <3>1, <3>2
  <2> QED
    BY <2>2, <2>3 DEF ProcInv, Goes
<1> QED
  BY <1>1, <1>2, ProcKept

(* What is reported stopped has neither a process nor a body, unless a new *)
(* deployment had replaced it: then its process may go on as another run.  *)
THEOREM StoppedRunsAreGone == Spec => []StoppedIsGone
<1>1. Init => ProcInv
  BY DEF Init, ProcInv, Goes
<1>2. BaseInv /\ ProcInv => StoppedIsGone
  BY DEF BaseInv, RunsInv, RunInv, ProcInv, StoppedIsGone, Alive
<1> QED
  BY <1>1, <1>2, ProcStep, BaseInvariant, PTL DEF Spec, BaseInv
-----------------------------------------------------------------------------
(* Only its own check lets a run drive its card.                           *)
LEMMA DrivesStep ==
    ASSUME TypeOK, [Next]_vars, NEW p \in Runs, Drives(p)'
    PROVE  /\ card'[p] = card[p] /\ started'[p] = started[p]
           /\ Drives(p) \/ OnlyRun(p)
<1>0. pc[p] \in Lines
  BY Parts
<1>1. CASE Same(p) \/ Starts(p) \/ Ends(p)
  BY <1>1 DEF Same, Starts, Ends, Drives, Goes
<1>2. CASE Step(p)
  BY <1>0, <1>2 DEF Step, Moves, Starts, Records, Asks, Requests, Takes, StandsBack,
     Launches, Collects, Ends, Dies, HeedsStop, IsStopped, IsOverrun, Alone, Drives, Goes, Lines
<1> QED
  BY <1>1, <1>2, Effects, OtherRuns

(* Once a run drives its card, no run of the card lives whose record was   *)
(* written in a second before it started.                                  *)
ElderInv ==
    \A p, q \in Runs :
       /\ card[p] = card[q] /\ Drives(q)
       /\ written[p].record \in 1..(started[q] - 1)
       => ~Goes(p)

LEMMA ElderStep == BaseInv /\ ElderInv /\ [Next]_vars => ElderInv'
<1> SUFFICES ASSUME BaseInv, ElderInv, [Next]_vars, NEW p \in Runs, NEW q \in Runs,
                    card'[p] = card'[q], Drives(q)', Goes(p)',
                    written'[p].record \in 1..(started'[q] - 1)
             PROVE  FALSE
  BY DEF ElderInv
<1>0. TypeOK /\ RunInv(p) /\ TimeInv(p) /\ TimeInv(q)
  BY DEF BaseInv, RunsInv, TimesInv
<1>1. /\ started[q] \in Nat /\ started[p] \in Nat /\ written[p].record \in Nat /\ now \in Nat
      /\ p \in Nat /\ q \in Nat
  BY <1>0, Times, LoopRunsAssumption
<1>2. card'[q] = card[q] /\ started'[q] = started[q] /\ (Drives(q) \/ OnlyRun(q))
  BY <1>0, DrivesStep
<1>3. ~Starts(p)
  BY <1>0, <1>1, <1>2 DEF Starts, KeepsRecord, RunInv
<1>4. Goes(p) /\ card[p] = card[q] /\ written'[p].record \in {written[p].record, now}
  BY <1>0, <1>2, <1>3, GoesStep
<1>5. written[p].record \in 1..(started[q] - 1)
  BY <1>0, <1>1, <1>2, <1>4 DEF TimeInv
<1>6. CASE Drives(q)
  BY <1>4, <1>5, <1>6 DEF ElderInv
<1>7. CASE OnlyRun(q)
  <2>1. started[p] < started[q] /\ p # q
    BY <1>0, <1>1, <1>5 DEF TimeInv
  <2>2. Live(p)
    BY <1>0, <1>1, <1>4, <1>5, GoingHasProcess DEF RunInv, Live
  <2>3. p \in Elders(q)
    BY <1>4, <2>1, <2>2 DEF Elders, Before
  <2> QED
    BY <1>7, <2>3 DEF OnlyRun
<1> QED
  BY <1>2, <1>6, <1>7

(* Two loops never drive one card when the record of one was on disk in a  *)
(* second before the other started.                                        *)
THEOREM OlderRunsWin == Spec => []OlderRunWins
<1>1. Init => ElderInv
  BY DEF Init, ElderInv, Drives, Goes
<1>2. ElderInv => OlderRunWins
  BY DEF ElderInv, OlderRunWins, Drives
<1> QED
  BY <1>1, <1>2, ElderStep, BaseInvariant, PTL DEF Spec
-----------------------------------------------------------------------------
(* A run that was judged not to be in conflict, and all that follows.      *)
Admitted(p) == pc[p] \in {"judged", "holding", "working", "waiting"}

LEMMA AdmittedStep ==
    ASSUME TypeOK, [Next]_vars, NEW p \in Runs, Admitted(p)'
    PROVE  /\ record'[p].requested = record[p].requested
           /\ written'[p].request = written[p].request
           /\ Admitted(p) \/ Judge(p)
<1>0. pc[p] \in Lines
  BY Parts
<1>1. CASE Same(p) \/ Starts(p) \/ Ends(p)
  BY <1>1 DEF Same, Starts, Ends, Admitted
<1>2. CASE Step(p)
  BY <1>0, <1>2 DEF Step, Moves, Starts, Records, Asks, Requests, Takes, StandsBack,
     Launches, Collects, Ends, Dies, HeedsStop, IsStopped, IsOverrun, CleansUp, KeepsRecord,
     Alone, Admitted, Goes, Lines
<1> QED
  BY <1>1, <1>2, Effects, OtherRuns

(* Once a run is admitted, nobody lives whose request was written in a     *)
(* second before its own was stamped.                                      *)
QueueInv ==
    \A p, q \in Runs :
       Admitted(q) /\ written[p].request \in 1..(record[q].requested - 1) => ~Goes(p)

LEMMA QueueStep == BaseInv /\ QueueInv /\ [Next]_vars => QueueInv'
<1> SUFFICES ASSUME BaseInv, QueueInv, [Next]_vars, NEW p \in Runs, NEW q \in Runs,
                    Admitted(q)', Goes(p)',
                    written'[p].request \in 1..(record'[q].requested - 1)
             PROVE  FALSE
  BY DEF QueueInv
<1>0. TypeOK /\ LockInv /\ RunInv(p) /\ TimeInv(p) /\ TimeInv(q)
  BY TypeParts DEF BaseInv, RunsInv, TimesInv
<1>1. /\ record[p].requested \in Nat /\ record[q].requested \in Nat
      /\ written[p].request \in Nat /\ now \in Nat /\ p \in Nat /\ q \in Nat
  BY <1>0, Times, LoopRunsAssumption
<1>2. record'[q].requested = record[q].requested /\ (Admitted(q) \/ Judge(q))
  BY <1>0, AdmittedStep
<1>3. ~Starts(p)
  BY <1>0, <1>1, <1>2 DEF Starts, KeepsRecord, RunInv
<1>4. Goes(p) /\ written'[p].request \in {written[p].request, now}
  BY <1>0, <1>3, GoesStep
<1>5. written[p].request \in 1..(record[q].requested - 1)
  BY <1>0, <1>1, <1>2, <1>4 DEF TimeInv
<1>6. CASE Admitted(q)
  BY <1>4, <1>5, <1>6 DEF QueueInv
<1>7. CASE Judge(q)
  <2>1. record[p].requested < record[q].requested /\ p # q
    BY <1>0, <1>1, <1>5 DEF TimeInv
  <2>2. pc[p] \in {"queued", "judged", "holding", "working", "waiting"}
    <3>1. pc[p] \in Lines
      BY <1>0, Parts
    <3> QED
      BY <1>0, <1>1, <1>4, <1>5, <3>1 DEF RunInv, Goes, Lines
  <2>3. Live(p) /\ record[p].lock \in {"held", "waiting"}
    BY <1>0, <1>4, <2>2, GoingHasProcess DEF RunInv, Live, LockInv
  <2>4. record[q].lock = "waiting" /\ ~Conflict(q)
    BY <1>0, <1>7 DEF Judge, LockInv
  <2>5. Blocks(q, p)
    BY <2>1, <2>3, <2>4 DEF Blocks, Before
  <2> QED
    BY <2>1, <2>4, <2>5 DEF Conflict
<1> QED
  BY <1>2, <1>6, <1>7

(* A run never has the resource while a living one waits for it that has   *)
(* asked for it in a second before.                                        *)
THEOREM NobodyIsOvertaken == Spec => []NoOvertaking
<1>1. Init => QueueInv
  BY DEF Init, QueueInv, Admitted
<1>2. QueueInv => NoOvertaking
  BY DEF QueueInv, NoOvertaking, Admitted, Works
<1> QED
  BY <1>1, <1>2, QueueStep, BaseInvariant, PTL DEF Spec
-----------------------------------------------------------------------------
(* A run has the resource from its hold to its end, and beyond that while  *)
(* a body of it is left that its stop could not end.                       *)
Owns(p) == pc[p] \in {"holding", "working", "waiting"} \/ (p \in body /\ pc[p] = "ended")

LEMMA OwnsStep ==
    ASSUME TypeOK, RunsInv, [Next]_vars, NEW p \in Runs, Owns(p)'
    PROVE  \/ Owns(p) /\ written'[p].hold = written[p].hold
           \/ written'[p].hold = now
<1>0. pc[p] \in Lines /\ (p \in body => pc[p] \in {"waiting", "ended", "dead"})
  BY Parts DEF RunsInv, RunInv
<1>1. CASE Same(p) \/ Starts(p) \/ Ends(p)
  BY <1>0, <1>1 DEF Same, Starts, Ends, KeepsRest, Owns
<1>2. CASE Step(p)
  BY <1>0, <1>2 DEF Step, Moves, Starts, Records, Asks, Requests, Takes, StandsBack,
     Launches, Collects, Ends, Dies, HeedsStop, IsStopped, IsOverrun, CleansUp, KeepsRecord,
     KeepsRest, Alone, Owns, Goes, Heeds, Lines
<1> QED
  BY <1>1, <1>2, Effects, OtherRuns

LEMMA EntersStep ==
    ASSUME TypeOK, RunsInv, [Next]_vars, NEW p \in Runs, Admitted(p)' \/ p \in body'
    PROVE  /\ written'[p].request = written[p].request
           /\ Admitted(p) \/ p \in body \/ Judge(p)
<1>0. p \in body => pc[p] \in {"waiting", "ended", "dead"}
  BY DEF RunsInv, RunInv
<1>1. CASE Admitted(p)'
  BY <1>1, AdmittedStep
<1>2. CASE p \in body' /\ (Same(p) \/ Starts(p) \/ Ends(p))
  BY <1>0, <1>2 DEF Same, Starts, Ends, KeepsRecord, KeepsRest
<1>3. CASE p \in body' /\ Step(p)
  BY <1>0, <1>3 DEF Step, Moves, Starts, Records, Asks, Requests, Takes, StandsBack,
     Launches, Collects, Ends, Dies, HeedsStop, IsStopped, IsOverrun, CleansUp, KeepsRecord,
     KeepsRest, Alone, Admitted
<1> QED
  BY <1>1, <1>2, <1>3, Effects, OtherRuns

(* Whoever has the resource has it to the exclusion of every run whose     *)
(* request was written in a later second than the hold.                    *)
OwnerInv ==
    \A p, q \in Runs :
       Owns(p) /\ written[p].hold \in 1..(written[q].request - 1)
       => ~Admitted(q) /\ q \notin body

LEMMA OwnerStep == BaseInv /\ OwnerInv /\ [Next]_vars => OwnerInv'
<1> SUFFICES ASSUME BaseInv, OwnerInv, [Next]_vars, NEW p \in Runs, NEW q \in Runs,
                    Owns(p)', Admitted(q)' \/ q \in body',
                    written'[p].hold \in 1..(written'[q].request - 1)
             PROVE  FALSE
  BY DEF OwnerInv
<1>0. TypeOK /\ RunsInv /\ LockInv /\ RunInv(p) /\ TimeInv(p) /\ TimeInv(q)
  BY TypeParts DEF BaseInv, RunsInv, TimesInv
<1>1. /\ written[p].hold \in Nat /\ written[p].request \in Nat /\ written[q].request \in Nat
      /\ now \in Nat
  BY <1>0, Times
<1>2. written'[q].request = written[q].request /\ (Admitted(q) \/ q \in body \/ Judge(q))
  BY <1>0, EntersStep
<1>3. Owns(p) /\ written'[p].hold = written[p].hold
  BY <1>0, <1>1, <1>2, OwnsStep DEF TimeInv
<1>4. written[p].hold \in 1..(written[q].request - 1)
  BY <1>2, <1>3
<1>5. CASE Admitted(q) \/ q \in body
  BY <1>3, <1>4, <1>5 DEF OwnerInv
<1>6. CASE Judge(q)
  <2>1. p # q
    BY <1>0, <1>1, <1>4 DEF TimeInv
  <2>2. record[q].lock = "waiting" /\ ~Conflict(q)
    BY <1>0, <1>6 DEF Judge, LockInv
  <2>3. CASE pc[p] \in {"holding", "working", "waiting"}
    <3>1. Live(p) /\ record[p].lock = "held"
      BY <1>0, <2>3, GoingHasProcess DEF RunInv, Live, Goes, LockInv
    <3> QED
      BY <2>1, <2>2, <3>1 DEF Conflict, Blocks
  <2>4. CASE p \in body /\ pc[p] = "ended"
    <3>1. record[p].lock = "residual"
      BY <1>0, <2>4 DEF RunInv
    <3> QED
      BY <2>1, <2>2, <3>1 DEF Conflict, Blocks
  <2> QED
    BY <1>3, <2>3, <2>4 DEF Owns
<1> QED
  BY <1>2, <1>5, <1>6

LEMMA OwnerInvariant == Spec => []OwnerInv
<1>1. Init => OwnerInv
  BY DEF Init, OwnerInv, Owns
<1> QED
  BY <1>1, OwnerStep, BaseInvariant, PTL DEF Spec

(* No later request joins a run that has the resource. *)
THEOREM HoldersAreUndisturbed == Spec => []HolderIsUndisturbed
<1>1. OwnerInv => HolderIsUndisturbed
  BY DEF OwnerInv, HolderIsUndisturbed, Owns, Admitted, Works
<1> QED
  BY <1>1, OwnerInvariant, PTL

(* A body that a stop could not end keeps every later run out. *)
THEOREM ResiduesKeepOut == Spec => []ResidueKeepsOut
<1>1. BaseInv /\ OwnerInv => ResidueKeepsOut
  <2> SUFFICES ASSUME BaseInv, OwnerInv, NEW p \in body, NEW q \in body,
                      written[p].hold \in 1..(written[q].request - 1)
               PROVE  pc[p] = "dead"
    BY DEF ResidueKeepsOut
  <2>1. p \in Runs /\ q \in Runs
    BY Parts DEF BaseInv
  <2>2. pc[p] \in {"waiting", "ended", "dead"} /\ ~Owns(p)
    BY <2>1 DEF BaseInv, RunsInv, RunInv, OwnerInv
  <2> QED
    BY <2>2 DEF Owns
<1> QED
  BY <1>1, BaseInvariant, OwnerInvariant, PTL
-----------------------------------------------------------------------------
(* The order in which the runs get the resource.                           *)

(* A living run that asks for the resource or has it. *)
Contends(p) == Live(p) /\ record[p].lock \in {"waiting", "held"}

(* The rule of resource_conflict is an order with a first: as long as a    *)
(* living run asks for the resource or has it, and no stopped run has left *)
(* a residue, exactly one of those runs is in conflict with nobody.  So it *)
(* never happens that all of them wait for one another, and no two of them *)
(* find the resource free in one and the same state of the records.        *)
OneIsNext ==
    (\E p \in Runs : Contends(p)) /\ (\A q \in Runs : record[q].lock # "residual") =>
        \E p \in Runs : /\ Contends(p) /\ ~Conflict(p)
                         /\ \A q \in Runs : Contends(q) /\ ~Conflict(q) => q = p

LEMMA Least ==
    ASSUME NEW S \in SUBSET Nat, S # {}
    PROVE  \E m \in S : \A j \in S : m <= j
<1>1. PICK m \in S : \A j \in S : ~(<<j, m>> \in OpToRel(<, Nat))
  BY NatLessThanWellFounded, WFMin
<1>2. ASSUME NEW j \in S PROVE m <= j
  <2>1. m \in Nat /\ j \in Nat
    OBVIOUS
  <2>2. <<j, m>> \notin OpToRel(<, Nat)
    BY <1>1
  <2> QED
    BY <2>1, <2>2 DEF OpToRel
<1> QED
  BY <1>2

(* Some run of any set is before all the others. *)
LEMMA FirstOf ==
    ASSUME TypeOK, NEW S \in SUBSET Runs, S # {}
    PROVE  \E p \in S : \A q \in S \ {p} : Before(record[p].requested, p, record[q].requested, q)
<1> DEFINE T == {record[p].requested : p \in S}
<1>0. \A p \in S : p \in Nat /\ record[p].requested \in Nat
  BY Times, LoopRunsAssumption
<1>1. T \in SUBSET Nat /\ T # {}
  BY <1>0
<1>2. PICK t \in T : \A u \in T : t <= u
  <2> HIDE DEF T
  <2> QED
    BY <1>1, Least
<1> DEFINE R == {p \in S : record[p].requested = t}
<1>3. R \in SUBSET Nat /\ R # {}
  BY <1>0
<1>4. PICK p \in R : \A q \in R : p <= q
  <2> HIDE DEF R
  <2> QED
    BY <1>3, Least
<1>5. ASSUME NEW q \in S \ {p}
      PROVE  Before(record[p].requested, p, record[q].requested, q)
  <2>1. record[p].requested = t /\ t <= record[q].requested
    BY <1>2, <1>4
  <2>2. t \in Nat /\ record[q].requested \in Nat /\ p \in Nat /\ q \in Nat
    BY <1>0, <1>1, <1>2, <1>4
  <2>3. CASE q \in R
    BY <1>4, <2>1, <2>2, <2>3 DEF Before
  <2>4. CASE q \notin R
    BY <2>1, <2>2, <2>4 DEF Before
  <2> QED
    BY <2>3, <2>4
<1> QED
  BY <1>4, <1>5

LEMMA FirstIsNext == TypeOK => OneIsNext
<1> SUFFICES ASSUME TypeOK, \E p \in Runs : Contends(p),
                    \A q \in Runs : record[q].lock # "residual"
             PROVE  \E p \in Runs : /\ Contends(p) /\ ~Conflict(p)
                                     /\ \A q \in Runs : Contends(q) /\ ~Conflict(q) => q = p
  BY DEF OneIsNext
<1> DEFINE C == {p \in Runs : Contends(p)}
           H == {p \in C : record[p].lock = "held"}
           S == IF H # {} THEN H ELSE C
<1>0. \A p \in Runs : p \in Nat /\ record[p].requested \in Nat
  BY Times, LoopRunsAssumption
<1>1. S \in SUBSET Runs /\ S # {}
  OBVIOUS
<1>2. PICK p \in S : \A q \in S \ {p} : Before(record[p].requested, p, record[q].requested, q)
  <2> HIDE DEF S
  <2> QED
    BY <1>1, FirstOf
<1>3. p \in C /\ (H # {} => p \in H)
  OBVIOUS
(* Those before p would have been taken for p. *)
<1>4. ASSUME NEW q \in Runs \ {p}, Blocks(p, q) PROVE FALSE
  <2>1. /\ Live(q)
        /\ \/ record[q].lock = "held" /\ record[p].lock # "held"
           \/ /\ record[q].lock \in {"held", "waiting"}
              /\ (record[p].lock = "held") = (record[q].lock = "held")
              /\ Before(record[q].requested, q, record[p].requested, p)
    BY <1>4 DEF Blocks
  <2>2. q \in C
    BY <2>1 DEF Contends
  <2>3. CASE record[q].lock = "held" /\ record[p].lock # "held"
    BY <1>3, <2>2, <2>3
  <2>4. CASE /\ (record[p].lock = "held") = (record[q].lock = "held")
             /\ Before(record[q].requested, q, record[p].requested, p)
    <3>1. q \in S
      BY <1>3, <2>2, <2>4
    <3>2. Before(record[p].requested, p, record[q].requested, q)
      BY <1>2, <3>1
    <3> HIDE DEF S
    <3> QED
      BY <1>0, <1>1, <2>4, <3>2 DEF Before
  <2> QED
    BY <2>1, <2>3, <2>4
<1>5. ~Conflict(p)
  BY <1>4 DEF Conflict
(* Everybody else is behind p. *)
<1>6. ASSUME NEW q \in C, q # p PROVE Conflict(q)
  <2>1. Live(p) /\ record[p].lock \in {"waiting", "held"} /\ record[q].lock \in {"waiting", "held"}
    BY <1>3 DEF Contends
  <2>2. CASE q \in S
    <3>1. Before(record[p].requested, p, record[q].requested, q)
      BY <1>2, <1>6, <2>2
    <3>2. (record[p].lock = "held") = (record[q].lock = "held")
      BY <1>3, <2>1, <2>2
    <3>3. Blocks(q, p)
      BY <2>1, <3>1, <3>2 DEF Blocks
    <3> QED
      BY <1>3, <1>6, <3>3 DEF Conflict
  <2>3. CASE q \notin S
    <3>1. record[p].lock = "held" /\ record[q].lock # "held"
      BY <1>3, <2>3
    <3>2. Blocks(q, p)
      BY <2>1, <3>1 DEF Blocks
    <3> QED
      BY <1>3, <1>6, <3>2 DEF Conflict
  <2> QED
    BY <2>2, <2>3
<1> QED
  BY <1>3, <1>5, <1>6

(* Exactly one run is next for the resource. *)
THEOREM OneRunIsNext == Spec => []OneIsNext
  BY FirstIsNext, BaseInvariant, PTL DEF BaseInv
=============================================================================
