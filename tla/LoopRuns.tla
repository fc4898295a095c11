------------------------------ MODULE LoopRuns ------------------------------
(***************************************************************************)
(* Loop runs of one project: each run of "lybra loop" keeps one run        *)
(* record, a file only it writes while its process lives.  The records are *)
(* all the runs know of one another.  From them a run decides whether it   *)
(* is the only one of its card and whether it may take the resource that   *)
(* its card declares exclusive; there is no lock file.  A record is judged *)
(* by whether the process it names is alive.                               *)
(*                                                                         *)
(* A run may be killed anywhere, which leaves its record as it was and the *)
(* body it launched (an executor or an auditor, in a process group of its  *)
(* own) alive.  The stop command asks a living run to stop, or cleans up   *)
(* after a dead one.                                                       *)
(*                                                                         *)
(* A run that finds a new deployment ends its record and replaces its      *)
(* program: the same process goes on as another run, with a record of its  *)
(* own.  The start of the new program is one step with that end.           *)
(*                                                                         *)
(* Time is in seconds, as in the records; runs of the same second are      *)
(* ordered by their number, which stands for the run id.  Left out: runs   *)
(* on other hosts, which are judged by the age of their record, and the    *)
(* steps of a card, which are CardLoop's.                                  *)
(***************************************************************************)
EXTENDS Naturals, FiniteSets

CONSTANTS Cards,       \* cards; all declare the same exclusive resource
          Runs,        \* run numbers, each started once at most
          MaxTime,     \* bound on the seconds
          MaxKills,    \* bound on runs that are killed
          MaxStops,    \* bound on stop commands
          MaxReexecs   \* bound on runs that continue in a new deployment

ASSUME LoopRunsAssumption ==
    /\ Runs \subseteq Nat
    /\ MaxTime \in Nat \ {0} /\ MaxKills \in Nat /\ MaxStops \in Nat /\ MaxReexecs \in Nat

VARIABLES
    now,       \* seconds
    pc,        \* where each run is
    card,      \* the card it was started for
    proc,      \* its process, numbered by the first run of it
    started,   \* started_at
    record,    \* its run record: status, resource_lock state, requested_at
    written,   \* seconds in which the record, the request and the hold were written
    body,      \* runs whose launched body is alive
    request,   \* runs with a stop request beside their record
    stopper,   \* the stop command
    told,      \* what a stop command has said of a run
    kills, stops, reexecs

vars == <<now, pc, card, proc, started, record, written, body, request, stopper, told,
          kills, stops, reexecs>>
bounds == <<kills, stops, reexecs>>
stopping == <<request, stopper, told>>

NoCard == "no card"
NoRecord == [status |-> "none", lock |-> "none", requested |-> 0]
Nobody == [pc |-> "off", run |-> 0]

Init == /\ now = 1
        /\ pc = [p \in Runs |-> "off"]
        /\ card = [p \in Runs |-> NoCard]
        /\ proc = [p \in Runs |-> p]
        /\ started = [p \in Runs |-> 0]
        /\ record = [p \in Runs |-> NoRecord]
        /\ written = [p \in Runs |-> [record |-> 0, request |-> 0, hold |-> 0]]
        /\ body = {}
        /\ request = {}
        /\ stopper = Nobody
        /\ told = [p \in Runs |-> "nothing"]
        /\ kills = 0 /\ stops = 0 /\ reexecs = 0
-----------------------------------------------------------------------------
Goes(p) == pc[p] \notin {"off", "refused", "ended", "replaced", "dead"}

(* The process that the record of p names is there, as this run or as one  *)
(* that it goes on as.                                                     *)
Alive(p) == \E q \in Runs : proc[q] = proc[p] /\ Goes(q)

Goto(p, l) == pc' = [pc EXCEPT ![p] = l]

AnyRecord(q) == record[q].status = "running"   \* mutant of Live: the process is not looked at

(* A record that has not ended and whose process is still the one it names *)
(* is live.                                                                *)
Live(q) == record[q].status = "running" /\ Alive(q)

Before(s, p, t, q) == s < t \/ (s = t /\ p < q)

AnyOther(p) == {}   \* mutant of Elders: other runs of the card are not looked for

(* The live runs of the card that are before this one.                     *)
Elders(p) == {q \in Runs \ {p} : /\ card[q] = card[p]
                                  /\ Live(q)
                                  /\ Before(started[q], q, started[p], p)}

WaitersOnly(p, q) ==   \* mutant of Blocks: a holder is a request like any other
    /\ record[q].lock \in {"waiting", "held"}
    /\ Live(q)
    /\ Before(record[q].requested, q, record[p].requested, p)

ResidueIgnored(p, q) ==   \* mutant of Blocks: what a stopped run left is forgotten
    /\ Live(q)
    /\ \/ record[q].lock = "held" /\ record[p].lock # "held"
       \/ /\ record[q].lock \in {"held", "waiting"}
          /\ (record[p].lock = "held") = (record[q].lock = "held")
          /\ Before(record[q].requested, q, record[p].requested, p)

HoldersOnly(p, q) ==   \* mutant of Blocks: the requests that wait are not looked at
    \/ record[q].lock = "residual"
    \/ /\ Live(q)
       /\ record[q].lock = "held"
       /\ record[p].lock = "held" => Before(record[q].requested, q, record[p].requested, p)

(* A live holder keeps the resource from a run that does not hold it, an   *)
(* earlier holder from a later one and an earlier request from a later     *)
(* one.  What an incomplete stop left behind keeps it from everybody.      *)
Blocks(p, q) ==
    \/ record[q].lock = "residual" /\ record[p].lock # "held"
    \/ /\ record[q].lock = "residual"
       /\ Before(record[q].requested, q, record[p].requested, p)
    \/ /\ Live(q)
       /\ \/ record[q].lock = "held" /\ record[p].lock # "held"
          \/ /\ record[q].lock \in {"held", "waiting"}
             /\ (record[p].lock = "held") = (record[q].lock = "held")
             /\ Before(record[q].requested, q, record[p].requested, p)

Conflict(p) == \E q \in Runs \ {p} : Blocks(p, q)

Released(l) == IF l \in {"waiting", "held"} THEN "released" ELSE l

(* The run writes the end of its record. *)
Ended(p) == record' = [record EXCEPT ![p].status = "ended", ![p].lock = Released(@)]

Tick == /\ now < MaxTime
        /\ now' = now + 1
        /\ UNCHANGED <<pc, card, proc, started, record, written, body, stopping, bounds>>
-----------------------------------------------------------------------------
(* A run from its start to its first step. *)

Start(p, c) ==
    /\ pc[p] = "off"
    /\ card' = [card EXCEPT ![p] = c]
    /\ started' = [started EXCEPT ![p] = now]
    /\ Goto(p, "stamped")
    /\ UNCHANGED <<now, proc, record, written, body, stopping, bounds>>

WriteRecord(p) ==
    /\ pc[p] = "stamped"
    /\ record' = [record EXCEPT ![p].status = "running"]
    /\ written' = [written EXCEPT ![p].record = now]
    /\ Goto(p, "recorded")
    /\ UNCHANGED <<now, card, proc, started, body, stopping, bounds>>

OnlyRun(p) ==
    /\ pc[p] = "recorded"
    /\ Elders(p) = {}
    /\ Goto(p, "driving")
    /\ UNCHANGED <<now, card, proc, started, record, written, body, stopping, bounds>>

AlreadyRunning(p) ==
    /\ pc[p] = "recorded"
    /\ Elders(p) # {}
    /\ Ended(p)
    /\ Goto(p, "refused")
    /\ UNCHANGED <<now, card, proc, started, written, body, stopping, bounds>>
-----------------------------------------------------------------------------
(* The resource: the request is written before it is judged, and judged    *)
(* again after the resource is marked held.                                *)

Ask(p) ==
    /\ pc[p] = "driving"
    /\ record' = [record EXCEPT ![p].requested = now]
    /\ Goto(p, "asking")
    /\ UNCHANGED <<now, card, proc, started, written, body, stopping, bounds>>

WriteRequest(p) ==
    /\ pc[p] = "asking"
    /\ record' = [record EXCEPT ![p].lock = "waiting"]
    /\ written' = [written EXCEPT ![p].request = now]
    /\ Goto(p, "queued")
    /\ UNCHANGED <<now, card, proc, started, body, stopping, bounds>>

Judge(p) ==
    /\ pc[p] = "queued"
    /\ ~Conflict(p)
    /\ Goto(p, "judged")
    /\ UNCHANGED <<now, card, proc, started, record, written, body, stopping, bounds>>

Hold(p) ==
    /\ pc[p] = "judged"
    /\ record' = [record EXCEPT ![p].lock = "held"]
    /\ written' = [written EXCEPT ![p].hold = now]
    /\ Goto(p, "holding")
    /\ UNCHANGED <<now, card, proc, started, body, stopping, bounds>>

(* When the bound of the wait is reached the last judgement is not repeated. *)
HoldAtBound(p) ==
    /\ pc[p] = "judged"
    /\ record' = [record EXCEPT ![p].lock = "held"]
    /\ written' = [written EXCEPT ![p].hold = now]
    /\ Goto(p, "working")
    /\ UNCHANGED <<now, card, proc, started, body, stopping, bounds>>

Acquire(p) ==
    /\ pc[p] = "holding"
    /\ ~Conflict(p)
    /\ Goto(p, "working")
    /\ UNCHANGED <<now, card, proc, started, record, written, body, stopping, bounds>>

StandBackHeld(p) ==   \* mutant of StandBack: the resource stays marked held
    /\ pc[p] = "holding" /\ Conflict(p)
    /\ Goto(p, "queued")
    /\ UNCHANGED <<now, card, proc, started, record, written, body, stopping, bounds>>

StandBack(p) ==
    /\ pc[p] = "holding"
    /\ Conflict(p)
    /\ record' = [record EXCEPT ![p].lock = "waiting"]
    /\ Goto(p, "queued")
    /\ UNCHANGED <<now, card, proc, started, written, body, stopping, bounds>>

(* The wait for the resource is bounded. *)
ResourceBusy(p) ==
    /\ pc[p] = "queued"
    /\ Conflict(p)
    /\ Ended(p)
    /\ Goto(p, "ended")
    /\ UNCHANGED <<now, card, proc, started, written, body, stopping, bounds>>
-----------------------------------------------------------------------------
Launch(p) ==
    /\ pc[p] = "working"
    /\ p \notin request
    /\ body' = body \cup {p}
    /\ Goto(p, "waiting")
    /\ UNCHANGED <<now, card, proc, started, record, written, stopping, bounds>>

(* The body delivered or gave up: its process group is ended. *)
Collect(p) ==
    /\ pc[p] = "waiting"
    /\ p \notin request
    /\ body' = body \ {p}
    /\ Goto(p, "working")
    /\ UNCHANGED <<now, card, proc, started, record, written, stopping, bounds>>

End(p) ==
    /\ pc[p] \in {"driving", "working"}
    /\ Ended(p)
    /\ Goto(p, "ended")
    /\ UNCHANGED <<now, card, proc, started, written, body, stopping, bounds>>

(* A new deployment, found between two steps or while the run waits for    *)
(* others: the record is ended, whether a stop is requested or not, and    *)
(* the process goes on as a new run of the card.                           *)
Reexec(p, q) ==
    /\ pc[p] \in {"driving", "working"} /\ pc[q] = "off"
    /\ reexecs < MaxReexecs
    /\ reexecs' = reexecs + 1
    /\ record' = [record EXCEPT ![p].status = "ended"]
    /\ pc' = [pc EXCEPT ![p] = "replaced", ![q] = "stamped"]
    /\ card' = [card EXCEPT ![q] = card[p]]
    /\ proc' = [proc EXCEPT ![q] = proc[p]]
    /\ started' = [started EXCEPT ![q] = now]
    /\ UNCHANGED <<now, written, body, stopping, kills, stops>>

Kill(p) ==
    /\ Goes(p)
    /\ kills < MaxKills
    /\ kills' = kills + 1
    /\ Goto(p, "dead")
    /\ UNCHANGED <<now, card, proc, started, record, written, body, stopping, stops, reexecs>>
-----------------------------------------------------------------------------
(* Stopping.  Cleaning up kills the bodies of the run; one that does not   *)
(* go, or cannot be told to be gone, is a residue, and so is a process of  *)
(* the card's validation runs that cannot be looked at.                    *)

BlindCleanUp(p, clean) ==   \* mutant of CleanUp: nothing is looked at after the signals
    clean /\ body' \in {body, body \ {p}}

CleanUp(p, clean) == /\ body' \in {body, body \ {p}}
                     /\ clean => p \notin body'

StopOutcome(clean) == IF clean THEN "stopped" ELSE "incomplete"

LockAfter(l, clean) == IF clean THEN Released(l)
                       ELSE IF l \in {"waiting", "held"} THEN "residual" ELSE l

HeededBetweenSteps(p) ==   \* mutant of Heeds: the queue for the resource does not look
    pc[p] \in {"driving", "working", "waiting"}

(* Where a run looks for a stop request. *)
Heeds(p) == pc[p] \in {"driving", "queued", "working", "waiting"}

Heed(p, clean) ==
    /\ p \in request
    /\ Heeds(p)
    /\ CleanUp(p, clean)
    /\ record' = [record EXCEPT ![p].status = "ended", ![p].lock = LockAfter(@, clean)]
    /\ pc' = [pc EXCEPT ![p] = "ended"]
    /\ told' = [told EXCEPT ![p] = IF stopper.run = p /\ stopper.pc = "waiting"
                                   THEN StopOutcome(clean) ELSE @]
    /\ stopper' = IF stopper.run = p THEN Nobody ELSE stopper
    /\ UNCHANGED <<now, card, proc, started, written, request, bounds>>

(* The run a stop command is about: the last one of the card that was not  *)
(* refused.                                                                *)
Latest(c, p) ==
    LET runs == {q \in Runs : card[q] = c /\ record[q].status # "none" /\ pc[q] # "refused"}
    IN p \in runs /\ \A q \in runs \ {p} : Before(started[q], q, started[p], p)

StopDead(p, clean) ==
    /\ record[p].status = "running" /\ ~Alive(p)
    /\ CleanUp(p, clean)
    /\ record' = [record EXCEPT ![p].status = "ended",
                    ![p].lock = IF @ = "none" THEN @ ELSE IF clean THEN "released" ELSE "residual"]
    /\ told' = [told EXCEPT ![p] = StopOutcome(clean)]
    /\ stopper' = Nobody
    /\ UNCHANGED request

Recheck(p, clean) ==
    /\ record[p].status = "ended" /\ record[p].lock = "residual"
    /\ CleanUp(p, clean)
    /\ record' = [record EXCEPT ![p].lock = IF clean THEN "released" ELSE @]
    /\ told' = [told EXCEPT ![p] = StopOutcome(clean)]
    /\ UNCHANGED <<request, stopper>>

RequestStop(p) ==
    /\ Live(p)
    /\ request' = request \cup {p}
    /\ stopper' = [pc |-> "waiting", run |-> p]
    /\ UNCHANGED <<record, body, told>>

Stop(p, clean) ==
    /\ stopper = Nobody
    /\ stops < MaxStops
    /\ stops' = stops + 1
    /\ \E c \in Cards : Latest(c, p)
    /\ StopDead(p, clean) \/ Recheck(p, clean) \/ (clean /\ RequestStop(p))
    /\ UNCHANGED <<now, pc, card, proc, started, written, kills, reexecs>>

(* The run ended of itself, or died, while the command waited for it. *)
StopOverrun(p, clean) ==
    /\ stopper = [pc |-> "waiting", run |-> p]
    /\ \/ /\ record[p].status = "ended" /\ clean
          /\ told' = [told EXCEPT ![p] = "stopped"]
          /\ stopper' = Nobody
          /\ UNCHANGED <<record, body, request>>
       \/ StopDead(p, clean)
    /\ UNCHANGED <<now, pc, card, proc, started, written, bounds>>

(* The command does not wait for ever; the request stays. *)
StopTimesOut ==
    /\ stopper # Nobody
    /\ stopper' = Nobody
    /\ UNCHANGED <<now, pc, card, proc, started, record, written, body, request, told, bounds>>
-----------------------------------------------------------------------------
Advance(p) ==
    \/ WriteRecord(p) \/ OnlyRun(p) \/ AlreadyRunning(p)
    \/ Ask(p) \/ WriteRequest(p) \/ Judge(p) \/ Hold(p) \/ Acquire(p) \/ StandBack(p)
    \/ Launch(p) \/ Collect(p) \/ \E clean \in BOOLEAN : Heed(p, clean)

Next ==
    \/ Tick
    \/ \E p \in Runs :
          \/ \E c \in Cards : Start(p, c)
          \/ WriteRecord(p)
          \/ OnlyRun(p)
          \/ AlreadyRunning(p)
          \/ Ask(p)
          \/ WriteRequest(p)
          \/ Judge(p)
          \/ Hold(p)
          \/ HoldAtBound(p)
          \/ Acquire(p)
          \/ StandBack(p)
          \/ ResourceBusy(p)
          \/ Launch(p)
          \/ Collect(p)
          \/ End(p)
          \/ \E q \in Runs : Reexec(p, q)
          \/ Kill(p)
          \/ \E clean \in BOOLEAN : Heed(p, clean) \/ Stop(p, clean) \/ StopOverrun(p, clean)
    \/ StopTimesOut

Spec == Init /\ [][Next]_vars

(* A run that is not killed goes on, and the work of a card ends.          *)
Fairness == \A p \in Runs : WF_vars(Advance(p)) /\ SF_vars(End(p))

FairSpec == Spec /\ Fairness
-----------------------------------------------------------------------------
Lines == {"off", "stamped", "recorded", "refused", "driving", "asking", "queued", "judged",
          "holding", "working", "waiting", "ended", "replaced", "dead"}

(* Every variable has the values the code gives it; a run past its request *)
(* has a request that waits or is held.                                    *)
TypeOK == /\ now \in 1..MaxTime
          /\ pc \in [Runs -> Lines]
          /\ card \in [Runs -> Cards \cup {NoCard}]
          /\ proc \in [Runs -> Runs]
          /\ started \in [Runs -> 0..MaxTime]
          /\ record \in [Runs -> [status: {"none", "running", "ended"},
                                   lock: {"none", "waiting", "held", "released", "residual"},
                                   requested: 0..MaxTime]]
          /\ written \in [Runs -> [record: 0..MaxTime, request: 0..MaxTime, hold: 0..MaxTime]]
          /\ body \subseteq Runs /\ request \subseteq Runs
          /\ stopper \in [pc: {"off", "waiting"}, run: Runs \cup {0}]
          /\ told \in [Runs -> {"nothing", "stopped", "incomplete"}]
          /\ kills \in 0..MaxKills /\ stops \in 0..MaxStops /\ reexecs \in 0..MaxReexecs
          /\ \A p \in Runs : pc[p] \in {"queued", "judged", "holding", "working", "waiting"}
                => record[p].lock = IF pc[p] \in {"queued", "judged"} THEN "waiting" ELSE "held"

Drives(p) == Goes(p) /\ pc[p] \notin {"stamped", "recorded"}
Works(p) == pc[p] \in {"working", "waiting"}

(* Two loops of one card never both drive it when the record of one was    *)
(* written in a second before the other started (live_run_conflict, and    *)
(* the rule of run_loop that the record precedes the check).               *)
OlderRunWins ==
    \A p, q \in Runs : /\ card[p] = card[q]
                        /\ written[p].record \in 1..(started[q] - 1)
                        => ~(Drives(p) /\ Drives(q))

(* A run never has the resource while a run that asked for it in a second  *)
(* before it still waits for it: a slow or repeated judgement overtakes    *)
(* nobody (resource_conflict, called again and again by                    *)
(* _acquire_resources).                                                    *)
NoOvertaking ==
    \A p, q \in Runs : /\ written[p].request \in 1..(record[q].requested - 1)
                        /\ Works(q)
                        => ~Goes(p)

(* Whoever holds the resource is not joined by a run whose request was     *)
(* written later, even one that stamped its request earlier and was held   *)
(* up before it wrote it.                                                  *)
HolderIsUndisturbed ==
    \A p, q \in Runs : /\ written[p].hold \in 1..(written[q].request - 1)
                        /\ Works(p)
                        => ~Works(q)

(* A body that a stop could not end keeps every later run from launching   *)
(* another on the resource, until a recheck finds it gone.  Only a run     *)
(* that was killed leaves a body that keeps nobody out.                    *)
ResidueKeepsOut ==
    \A p, q \in body : written[p].hold \in 1..(written[q].request - 1) => pc[p] = "dead"

(* What the stop command reports stopped has no process left, neither its  *)
(* own, however the run ended meanwhile, nor its body, and it stays so.    *)
(* Only a run that a new deployment replaced may be reported stopped while *)
(* its process drives the card under another run.                          *)
StoppedIsGone ==
    \A p \in Runs : told[p] = "stopped" =>
        p \notin body /\ (pc[p] = "replaced" \/ ~Alive(p))

(* Nobody waits for ever for the resource: not behind a run that was       *)
(* killed, and no two runs stand back for one another for ever.  A residue *)
(* is the exception, until somebody stops its run again.                   *)
QueueMoves ==
    \A p \in Runs : pc[p] = "queued" ~>
        (pc[p] # "queued" \/ \E q \in Runs : record[q].lock = "residual")

(* A run that is asked to stop ends, wherever the request reaches it: its  *)
(* process is gone, or was replaced and goes on as another run, which the  *)
(* request does not reach.                                                 *)
RequestIsHeeded == \A p \in Runs : p \in request ~> (~Alive(p) \/ pc[p] = "replaced")
-----------------------------------------------------------------------------
(* What the documents say and the code does not do.                        *)

(* The docstring of _acquire_resources: of two simultaneous requests never *)
(* do both hold.                                                           *)
NeverBothHold == \A p, q \in Runs : Works(p) /\ Works(q) => p = q

(* The declaration of the stop verb: a loop that finds a request before a  *)
(* step stops, and what is reported stopped has been cleaned up.           *)
StoppedHasNoProcess == \A p \in Runs : told[p] = "stopped" => ~Alive(p)
=============================================================================
