----------------------------- MODULE GateSteps -----------------------------
(***************************************************************************)
(* The gate verbs of one card - return, hand-made audit dispatch, audit    *)
(* verdict, close, reopen - file by file, in the order the code writes     *)
(* them.  A verb is planned from what the files hold, and then executed;   *)
(* its process may stop between any two writes, and nothing takes the      *)
(* writes back.  What it leaves is what the next verb is planned from.     *)
(* The report of a return lies at its place before the return is filed.    *)
(*                                                                         *)
(* CardLoop takes every verb as one step.  Abstractions: one verb runs at  *)
(* a time and a move of a card is one write (QueueMove has races and split *)
(* moves); whether the card branch moved, which makes a verdict or a       *)
(* return stale, is left open (CardLoop has the commits); identities,      *)
(* session records and the card fields that are not read again are left    *)
(* out; the audit is required.                                             *)
(***************************************************************************)
EXTENDS Naturals, Sequences, FiniteSets

CONSTANTS MaxReturns,    \* bound on the returns planned
          MaxAudits,     \* bound on the audit rounds R, R2, ...
          MaxDispatches, \* bound on the dispatches made by hand
          MaxRounds,     \* bound on the rounds reopening creates
          MaxReopens,    \* bound on the reopens planned
          MaxStops       \* bound on the verbs that are cut short

ASSUME GateStepsAssumption ==
    /\ {MaxReturns, MaxDispatches, MaxReopens, MaxStops} \subseteq Nat
    /\ {MaxAudits, MaxRounds} \subseteq Nat \ {0}

VARIABLES
    card,       \* directory and the fields of the card that later verbs read
    round,      \* 1 + the round boundaries in records/events
    report,     \* round in which the report at the return location was written, or 0
    returns,    \* return records: id -> the round, and the report it delivers
    audits,     \* audit cards: the directories with a copy, and what a copy says
    published,  \* audit rounds with the publish record of a derivation
    dispatched, \* audit rounds with the dispatch record of a derivation
    handed,     \* ids of hand-made dispatches that have their record
    verdicts,   \* verdict records, oldest first
    closures,   \* rounds of the closure records, oldest first
    count,      \* returns, dispatches and reopens planned, and stops, so far
    job,        \* the verb in execution and the writes it has left
    cut         \* the verbs that were cut short

vars == <<card, round, report, returns, audits, published, dispatched, handed,
          verdicts, closures, count, job, cut>>

Places == {"pending", "claimed", "blocked", "completed", "withdrawn"}
Verbs == {"return", "dispatch", "verdict", "close", "reopen"}

(* The writes of each verb. *)
ReturnSteps == <<"mark", "record", "card", "publish", "dispatch", "link">>
DispatchSteps == <<"link", "card", "handed">>
VerdictSteps == <<"mark", "verdict", "audit">>
CloseSteps == <<"complete", "closure", "audit">>
BoundaryOnly == <<"boundary", "reopen">>   \* mutant of BoundarySteps: the report stays
BoundarySteps == <<"boundary", "archive", "reopen">>

AllSteps == {"mark", "record", "card", "publish", "dispatch", "link", "handed", "verdict",
             "audit", "complete", "closure", "boundary", "archive", "reopen"}

Idle == [verb |-> "close", todo |-> <<>>, ret |-> 0, audit |-> 0, disp |-> 0, value |-> "FAIL"]

NoAudit == [at |-> {}, by |-> "return", ret |-> 0, disp |-> 0]

Init == /\ card = [place |-> "pending", ready |-> FALSE, passed |-> FALSE, ret |-> 0, link |-> 0,
                  disp |-> 0]
        /\ round = 1
        /\ report = 0
        /\ returns = <<>>
        /\ audits = [k \in 1..MaxAudits |-> NoAudit]
        /\ published = {}
        /\ dispatched = {}
        /\ handed = {}
        /\ verdicts = <<>>
        /\ closures = <<>>
        /\ count = [returns |-> 0, dispatches |-> 0, reopens |-> 0, stops |-> 0]
        /\ job = Idle
        /\ cut = {}
-----------------------------------------------------------------------------
(* What the gate reads. *)

AtRest == job.todo = <<>>

Last(s) == s[Len(s)]

(* An audit card is found by its id only if it has one copy. *)
SoleCopy(k, places) == \E d \in places : audits[k].at = {d}

Exists(k) == audits[k].at # {}

Rounds == {k \in 1..MaxAudits : Exists(k)}

(* The current audit round: the latest of those that have a card. *)
Current == CHOOSE k \in 0..MaxAudits : k = Cardinality(Rounds)

Judged(k) == \E i \in 1..Len(verdicts) : verdicts[i].audit = k

LatestPasses == verdicts # <<>> /\ Last(verdicts).value = "PASS"

DeliveredEver == DOMAIN returns # {}   \* mutant of DeliveredThisRound

DeliveredThisRound == \E r \in DOMAIN returns : returns[r].round = round

ClosedOnTop == closures # <<>> /\ card.place = "completed"   \* mutant of ClosedThisRound

ClosedThisRound == \E i \in 1..Len(closures) : closures[i] = round

ChainOfWithdrawn ==   \* mutant of ChainValid: a withdrawn audit card is not concluded
    card.link # 0 /\ (verdicts # <<>> \/ ~SoleCopy(card.link, {"completed"}))

(* The dispatch chain of the card blocks: it has a verdict, or the audit    *)
(* card it links is not known to be concluded - in flight, or not found.   *)
ChainValid ==
    /\ card.link # 0
    /\ verdicts # <<>> \/ ~SoleCopy(card.link, {"completed", "withdrawn"})

(* A round dispatched by hand needs its dispatch record, a derived one its *)
(* publish record - unless the card carries a dispatch reference.          *)
Provenance(k) ==
    IF audits[k].by = "dispatch" THEN audits[k].disp \in handed
                                 ELSE card.disp = 0 /\ k \in published

RecordUnread(r) == r # 0   \* mutant of Recorded: the reference is enough

Recorded(r) == r \in DOMAIN returns

FirstAgain(stale) == IF ChainValid THEN 0 ELSE 1   \* mutant of DerivedRound

(* The audit round a return derives; 0 if none.  A stale verdict of the    *)
(* current round, or a stale return under review in it, is replaced by the *)
(* next round; otherwise only the first round is ever derived.             *)
DerivedRound(stale) ==
    LET judged == verdicts # <<>> /\ Last(verdicts).audit = Current
    IN  CASE "verdict" \in stale /\ judged                              -> Current + 1
          [] "return" \in stale /\ Current \in dispatched /\ ~judged    -> Current + 1
          [] "verdict" \in stale /\ verdicts # <<>> /\ ~judged
               /\ ~("return" \in stale /\ Current \in dispatched)       -> 0
          [] OTHER -> IF ~ChainValid /\ Current = 0 THEN 1 ELSE 0
-----------------------------------------------------------------------------
(* The writes.  Each does the first of the writes left to the job. *)

Doing(verbs, step) == ~AtRest /\ job.verb \in verbs /\ Head(job.todo) = step

Done == job' = [job EXCEPT !.todo = Tail(@)]

MarkReturned == /\ Doing({"return"}, "mark")
                /\ card' = [card EXCEPT !.ready = TRUE, !.ret = job.ret]
                /\ Done
                /\ UNCHANGED <<round, report, returns, audits, published, dispatched,
                               handed, verdicts, closures, count, cut>>

RecordReturn ==
    /\ Doing({"return"}, "record")
    /\ returns' = [r \in DOMAIN returns \cup {job.ret} |->
                     IF r = job.ret THEN [round |-> round, report |-> report] ELSE returns[r]]
    /\ Done
    /\ UNCHANGED <<card, round, report, audits, published, dispatched, handed, verdicts,
                   closures, count, cut>>

(* The audit card of a return, or nothing more if the return derives none. *)
DeriveCard ==
    /\ Doing({"return"}, "card")
    /\ \E stale \in SUBSET {"verdict", "return"} :
          LET k == DerivedRound(stale)
          IN  IF k = 0
              THEN job' = Idle /\ UNCHANGED audits
              ELSE /\ k <= MaxAudits
                   /\ audits' = [audits EXCEPT ![k] = [at |-> @.at \cup {"pending"}, by |-> "return",
                                                       ret |-> job.ret, disp |-> 0]]
                   /\ job' = [job EXCEPT !.todo = Tail(@), !.audit = k]
    /\ UNCHANGED <<card, round, report, returns, published, dispatched, handed, verdicts,
                   closures, count, cut>>

RecordDerivation ==
    /\ \/ /\ Doing({"return"}, "publish")
          /\ published' = published \cup {job.audit}
          /\ UNCHANGED dispatched
       \/ /\ Doing({"return"}, "dispatch")
          /\ dispatched' = dispatched \cup {job.audit}
          /\ UNCHANGED published
    /\ Done
    /\ UNCHANGED <<card, round, report, returns, audits, handed, verdicts, closures, count, cut>>

LinkAudit == /\ Doing({"return", "dispatch"}, "link")
             /\ card' = [card EXCEPT !.link = job.audit,
                                     !.disp = IF job.verb = "dispatch" THEN job.disp ELSE @]
             /\ Done
             /\ UNCHANGED <<round, report, returns, audits, published, dispatched, handed,
                            verdicts, closures, count, cut>>

(* The card is written in pending/, wherever the audit card is by then. *)
DispatchCard ==
    /\ Doing({"dispatch"}, "card")
    /\ audits' = [audits EXCEPT ![job.audit] = [at |-> @.at \cup {"pending"}, by |-> "dispatch",
                                                ret |-> card.ret, disp |-> job.disp]]
    /\ Done
    /\ UNCHANGED <<card, round, report, returns, published, dispatched, handed, verdicts,
                   closures, count, cut>>

RecordDispatch == /\ Doing({"dispatch"}, "handed")
                  /\ handed' = handed \cup {job.disp}
                  /\ Done
                  /\ UNCHANGED <<card, round, report, returns, audits, published, dispatched,
                                 verdicts, closures, count, cut>>

MarkJudged == /\ Doing({"verdict"}, "mark")
              /\ card' = [card EXCEPT !.passed = (job.value = "PASS")]
              /\ Done
              /\ UNCHANGED <<round, report, returns, audits, published, dispatched, handed,
                             verdicts, closures, count, cut>>

RecordVerdict == /\ Doing({"verdict"}, "verdict")
                 /\ verdicts' = Append(verdicts, [audit |-> job.audit, value |-> job.value])
                 /\ Done
                 /\ UNCHANGED <<card, round, report, returns, audits, published, dispatched,
                                handed, closures, count, cut>>

(* A verdict closes its audit card, a closure the first one; if claimed. *)
CloseAudit ==
    /\ Doing({"verdict", "close"}, "audit")
    /\ audits' = [audits EXCEPT ![job.audit].at = IF @ = {"claimed"} THEN {"completed"} ELSE @]
    /\ Done
    /\ UNCHANGED <<card, round, report, returns, published, dispatched, handed, verdicts,
                   closures, count, cut>>

CompleteCard == /\ Doing({"close"}, "complete")
                /\ card' = [card EXCEPT !.place = "completed"]
                /\ Done
                /\ UNCHANGED <<round, report, returns, audits, published, dispatched, handed,
                               verdicts, closures, count, cut>>

RecordClosure == /\ Doing({"close"}, "closure")
                 /\ closures' = Append(closures, round)
                 /\ Done
                 /\ UNCHANGED <<card, round, report, returns, audits, published, dispatched,
                                handed, verdicts, count, cut>>

RecordBoundary == /\ Doing({"reopen"}, "boundary")
                  /\ round' = round + 1
                  /\ Done
                  /\ UNCHANGED <<card, report, returns, audits, published, dispatched, handed,
                                 verdicts, closures, count, cut>>

ArchiveReport == /\ Doing({"reopen"}, "archive")
                 /\ report' = 0
                 /\ Done
                 /\ UNCHANGED <<card, round, returns, audits, published, dispatched, handed,
                                verdicts, closures, count, cut>>

ReopenCard == /\ Doing({"reopen"}, "reopen")
              /\ card' = [card EXCEPT !.place = "pending"]
              /\ Done
              /\ UNCHANGED <<round, report, returns, audits, published, dispatched, handed,
                             verdicts, closures, count, cut>>

(* The process is killed, or a write raises: the rest is not done. *)
Stop == /\ ~AtRest
        /\ count.stops < MaxStops
        /\ count' = [count EXCEPT !.stops = @ + 1]
        /\ cut' = cut \cup {job.verb}
        /\ job' = Idle
        /\ UNCHANGED <<card, round, report, returns, audits, published, dispatched, handed,
                       verdicts, closures>>
-----------------------------------------------------------------------------
(* The verbs: what each is planned from.  Planning writes nothing. *)

Start(verb, todo, ret, audit, disp, value) ==
    /\ AtRest
    /\ job' = [verb |-> verb, todo |-> todo, ret |-> ret, audit |-> audit, disp |-> disp,
               value |-> value]
    /\ UNCHANGED <<card, round, report, returns, audits, published, dispatched, handed,
                   verdicts, closures, cut>>

ReportUnread == TRUE   \* mutant of ReportFound: the return location is not looked at

ReportFound == report # 0

(* A return may be filed again at any time. *)
FileReturn ==
    /\ card.place = "claimed"
    /\ ReportFound
    /\ count.returns < MaxReturns
    /\ count' = [count EXCEPT !.returns = @ + 1]
    /\ Start("return", ReturnSteps, count.returns + 1, 0, 0, "FAIL")

DispatchReleased ==
    /\ card.place = "claimed"
    /\ card.ready
    /\ Recorded(card.ret)
    /\ ChainValid => verdicts # <<>> /\ ~LatestPasses
    /\ verdicts = <<>> => ~card.passed

(* The dispatcher names the audit card.  If it names one that exists, the  *)
(* code warns and goes on; if a new one, then the next.                    *)
AuditDispatch(k) ==
    /\ DispatchReleased
    /\ k <= Current + 1
    /\ count.dispatches < MaxDispatches
    /\ count' = [count EXCEPT !.dispatches = @ + 1]
    /\ Start("dispatch", DispatchSteps, 0, k, count.dispatches + 1, "FAIL")

VerdictReleased(k) ==
    /\ SoleCopy(k, {"claimed", "completed"})
    /\ ~Judged(k)
    /\ Provenance(k)
    /\ Recorded(audits[k].ret)

AuditVerdict(k, value) ==
    /\ VerdictReleased(k)
    /\ Start("verdict", VerdictSteps, 0, k, 0, value)
    /\ UNCHANGED count

Close ==
    /\ card.place = "claimed"
    /\ DOMAIN returns # {}
    /\ ~ClosedThisRound
    /\ LatestPasses
    /\ Start("close", CloseSteps, 0, 1, 0, "FAIL")
    /\ UNCHANGED count

(* A boundary is planned only if this round has a return, and a report is  *)
(* moved away only with a boundary.                                        *)
Reopen ==
    /\ card.place \in {"blocked", "completed"}
    /\ count.reopens < MaxReopens
    /\ DeliveredThisRound => round < MaxRounds
    /\ count' = [count EXCEPT !.reopens = @ + 1]
    /\ Start("reopen", IF DeliveredThisRound THEN BoundarySteps ELSE <<"reopen">>,
             0, 0, 0, "FAIL")

(* Claiming and blocking the card, and the executor's writing. *)
MoveCard(from, to) ==
    /\ AtRest
    /\ card.place = from
    /\ card' = [card EXCEPT !.place = to]
    /\ UNCHANGED <<round, report, returns, audits, published, dispatched, handed, verdicts,
                   closures, count, job, cut>>

WriteReport == /\ AtRest
               /\ card.place = "claimed"
               /\ report' = round
               /\ UNCHANGED <<card, round, returns, audits, published, dispatched, handed,
                              verdicts, closures, count, job, cut>>

MoveAudit(k, from, to) ==
    /\ AtRest
    /\ SoleCopy(k, from)
    /\ audits' = [audits EXCEPT ![k].at = {to}]
    /\ UNCHANGED <<card, round, report, returns, published, dispatched, handed, verdicts,
                   closures, count, job, cut>>

Claim == MoveCard("pending", "claimed")
Block == MoveCard("claimed", "blocked")
ClaimAudit(k) == MoveAudit(k, {"pending"}, "claimed")
WithdrawAudit(k) == MoveAudit(k, {"pending", "claimed"}, "withdrawn")

Next ==
    \/ MarkReturned \/ RecordReturn \/ DeriveCard \/ RecordDerivation \/ LinkAudit
    \/ DispatchCard \/ RecordDispatch
    \/ MarkJudged \/ RecordVerdict \/ CloseAudit
    \/ CompleteCard \/ RecordClosure
    \/ RecordBoundary \/ ArchiveReport \/ ReopenCard
    \/ Stop
    \/ FileReturn \/ Close \/ Reopen
    \/ Claim \/ Block \/ WriteReport
    \/ \E k \in 1..MaxAudits :
          \/ AuditDispatch(k)
          \/ ClaimAudit(k)
          \/ WithdrawAudit(k)
          \/ \E value \in {"PASS", "FAIL"} : AuditVerdict(k, value)

Spec == Init /\ [][Next]_vars
-----------------------------------------------------------------------------
(* The types of the variables. *)
TypeOK ==
    /\ card \in [place : Places, ready : BOOLEAN, passed : BOOLEAN, ret : 0..MaxReturns,
                 link : 0..MaxAudits, disp : 0..MaxDispatches]
    /\ round \in 1..MaxRounds
    /\ report \in 0..round
    /\ DOMAIN returns \subseteq 1..count.returns
    /\ \A r \in DOMAIN returns : returns[r] \in [round : 1..round, report : 1..round]
    /\ audits \in [1..MaxAudits -> [at : SUBSET Places, by : {"return", "dispatch"},
                                    ret : 0..MaxReturns, disp : 0..MaxDispatches]]
    /\ Rounds = 1..Current
    /\ dispatched \subseteq published /\ published \subseteq Rounds
    /\ handed \subseteq 1..count.dispatches
    /\ verdicts \in Seq([audit : Rounds, value : {"PASS", "FAIL"}])
    /\ closures \in Seq(1..round)
    /\ count \in [returns : 0..MaxReturns, dispatches : 0..MaxDispatches,
                  reopens : 0..MaxReopens, stops : 0..MaxStops]
    /\ job \in [verb : Verbs, todo : Seq(AllSteps), ret : 0..MaxReturns, audit : 0..MaxAudits,
                disp : 0..MaxDispatches, value : {"PASS", "FAIL"}]
    /\ cut \subseteq Verbs

(* A round boundary closes off a round that was delivered, however often a *)
(* reopen is cut short after its boundary and made again.                  *)
EveryRoundDelivered ==
    \A q \in 1..(round - 1) : \E r \in DOMAIN returns : returns[r].round = q

(* A round is closed at most once, also when a closure is cut short and    *)
(* the completed card without closure record is reopened.                  *)
OneClosurePerRound ==
    \A i, j \in 1..Len(closures) : closures[i] = closures[j] => i = j

(* Every audit card, and so every verdict, is about a return that has its  *)
(* record; a return cut short before its record is never audited.          *)
ReviewedReturnExists ==
    \A k \in Rounds : audits[k].ret \in DOMAIN returns

(* The audit of a delivered card is passed, or it can go on: an audit card *)
(* is in flight, which can be judged or withdrawn, or another dispatch is  *)
(* released.                                                               *)
CanGoOn ==
    \/ LatestPasses
    \/ \E k \in Rounds : SoleCopy(k, {"pending", "claimed"})
    \/ DispatchReleased

(* The audit of a delivered card comes to a standstill in three ways only: *)
(* a dispatch was cut short behind its link, which names no card; a        *)
(* verdict was cut short behind its mark, and its audit card is gone; the  *)
(* linked audit card was dispatched a second time.  No return, closure or  *)
(* reopen cut short anywhere does it, nor a round that is withdrawn.       *)
StandstillHasCause ==
    AtRest /\ card.place = "claimed" /\ card.ready /\ Recorded(card.ret) /\ ~CanGoOn
      => \/ "dispatch" \in cut /\ card.link \notin Rounds
         \/ "verdict" \in cut /\ card.passed /\ verdicts = <<>>
         \/ /\ Cardinality(audits[card.link].at) > 1
            /\ audits[card.link].by = "dispatch"

(* However often a return is filed again, and wherever one was cut short,  *)
(* the audit card it derives gets no second copy.  (A card that a dispatch *)
(* names once more may: AuditCardOnce below.)                              *)
DerivedCardOnce ==
    \A k \in Rounds : audits[k].by = "return" => Cardinality(audits[k].at) = 1

(* schema/transitions.schema.json, round boundary: the old report is not   *)
(* taken for a new delivery.  It holds while no reopen is cut short.       *)
FreshReport ==
    "reopen" \notin cut => \A r \in DOMAIN returns : returns[r].report = returns[r].round
-----------------------------------------------------------------------------
(* What the documents say and the code does not do.  Each of these is the  *)
(* property of a run that finds it violated.                               *)

(* board_adapter, verdict of a derived round: its origin is the publish    *)
(* record of its derivation, which can always be resolved; so the current  *)
(* round can be judged if it is claimed and has that record.               *)
DerivedCanBeJudged ==
    \A k \in published \cap {Current} :
       AtRest /\ audits[k].by = "return" /\ audits[k].at = {"claimed"} /\ ~Judged(k)
         => VerdictReleased(k)

(* board_adapter, audit dispatch: if the audit card already exists, the    *)
(* dispatch supplements the record; so no audit card gets a second copy.   *)
AuditCardOnce == \A k \in Rounds : Cardinality(audits[k].at) = 1

(* board_adapter, audit dispatch: a repeated dispatch supplements what is  *)
(* missing instead of deadlocking; so a dispatch that was cut short before *)
(* it wrote the audit card can be made again.                              *)
DispatchSupplements ==
    AtRest /\ card.place = "claimed" /\ card.link # 0 /\ ~Exists(card.link) /\ ~LatestPasses
      => DispatchReleased
=============================================================================
