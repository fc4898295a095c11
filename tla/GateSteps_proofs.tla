-------------------------- MODULE GateSteps_proofs --------------------------
(***************************************************************************)
(* Proofs about GateSteps for all values of its constants.                 *)
(*                                                                         *)
(* One verb runs at a time.  What has been checked when it was planned     *)
(* still holds when its writes are made; JobInv says, by the number of     *)
(* writes it has left, what that is.  A verb that is cut short leaves      *)
(* nothing that JobInv is about.  Which report a card was delivered with   *)
(* (NowFresh) and which audit card its link names (LinkFound) are kept     *)
(* apart, each with the exceptions of its theorem.                         *)
(***************************************************************************)
EXTENDS GateSteps, SequenceTheorems, FiniteSetTheorems, TLAPS

Plan == [v \in Verbs |-> CASE v = "return"   -> ReturnSteps
                           [] v = "dispatch" -> DispatchSteps
                           [] v = "verdict"  -> VerdictSteps
                           [] v = "close"    -> CloseSteps
                           [] v = "reopen"   -> BoundarySteps]

(* What is left of a plan: its last n writes. *)
Suffix(s, t) ==
    /\ Len(s) <= Len(t)
    /\ \A i \in 1..Len(s) : s[i] = t[Len(t) - Len(s) + i]

Left == Len(job.todo)

JobInv ==
    /\ Suffix(job.todo, Plan[job.verb])
    /\ job.verb = "return" =>
          /\ Left > 0 => job.ret \in 1..count.returns /\ report # 0
          /\ Left >= 5 => job.ret \notin DOMAIN returns
          /\ Left \in 1..4 => job.ret \in DOMAIN returns
          /\ Left \in 1..3 => job.audit \in Rounds
          /\ Left \in 1..2 => job.audit \in published
    /\ job.verb = "dispatch" /\ Left > 0 =>
          /\ job.audit \in 1..MaxAudits /\ job.audit - 1 \in Rounds \cup {0}
          /\ job.disp \in 1..count.dispatches
          /\ Recorded(card.ret)
    /\ job.verb = "verdict" /\ Left > 0 => job.audit \in Rounds
    /\ job.verb = "close" /\ Left > 0 =>
          /\ job.audit = 1
          /\ Left >= 2 => ~ClosedThisRound
    /\ job.verb = "reopen" /\ Left = 3 => DeliveredThisRound /\ round < MaxRounds

OnlyMoves == \A k \in 1..MaxAudits : audits[k].at \subseteq {"pending", "claimed", "completed", "withdrawn"}

IInv == TypeOK /\ JobInv /\ EveryRoundDelivered /\ OneClosurePerRound /\ ReviewedReturnExists
          /\ OnlyMoves /\ DerivedCardOnce
-----------------------------------------------------------------------------
LEMMA PlanFacts ==
    /\ Plan["return"] = ReturnSteps /\ Plan["dispatch"] = DispatchSteps
    /\ Plan["verdict"] = VerdictSteps /\ Plan["close"] = CloseSteps
    /\ Plan["reopen"] = BoundarySteps
  BY DEF Plan, Verbs

LEMMA PlanLengths ==
    /\ \A v \in Verbs : Plan[v] \in Seq(AllSteps)
    /\ Len(ReturnSteps) = 6 /\ Len(DispatchSteps) = 3 /\ Len(VerdictSteps) = 3
    /\ Len(CloseSteps) = 3 /\ Len(BoundarySteps) = 3
<1>1. /\ ReturnSteps \in Seq(AllSteps) /\ DispatchSteps \in Seq(AllSteps)
      /\ VerdictSteps \in Seq(AllSteps) /\ CloseSteps \in Seq(AllSteps)
      /\ BoundarySteps \in Seq(AllSteps)
  BY DEF ReturnSteps, DispatchSteps, VerdictSteps, CloseSteps, BoundarySteps, AllSteps
<1> QED
  BY <1>1, PlanFacts DEF Verbs, ReturnSteps, DispatchSteps, VerdictSteps, CloseSteps, BoundarySteps

(* The rest of a plan after its first write is the rest of it.             *)
LEMMA TailOfSuffix ==
    ASSUME NEW S, NEW s \in Seq(S), NEW t \in Seq(S), s # <<>>, Suffix(s, t)
    PROVE  /\ Tail(s) \in Seq(S) /\ Len(Tail(s)) = Len(s) - 1 /\ Len(s) \in Nat \ {0}
           /\ Suffix(Tail(s), t)
           /\ Head(s) = t[Len(t) - Len(s) + 1]
<1>1. PICK n \in Nat \ {0} : n = Len(s)
  OBVIOUS
<1>2. PICK m \in Nat : m = Len(t) /\ n <= m
  BY <1>1 DEF Suffix
<1>3. /\ Tail(s) \in Seq(S) /\ Len(Tail(s)) = n - 1
      /\ \A i \in 1..(n - 1) : Tail(s)[i] = s[i + 1]
      /\ Head(s) = s[1]
  BY <1>1, HeadTailProperties
<1>4. \A i \in 1..n : s[i] = t[m - n + i]
  BY <1>1, <1>2 DEF Suffix
<1>5. \A i \in 1..(n - 1) : i + 1 \in 1..n /\ m - n + (i + 1) = m - (n - 1) + i
  BY <1>1, <1>2
<1>6. \A i \in 1..(n - 1) : Tail(s)[i] = t[m - (n - 1) + i]
  BY <1>3, <1>4, <1>5
<1>7. Suffix(Tail(s), t)
  BY <1>1, <1>2, <1>3, <1>6 DEF Suffix
<1> QED
  BY <1>1, <1>2, <1>3, <1>4, <1>7

JobType == [verb : Verbs, todo : Seq(AllSteps), ret : 0..MaxReturns, audit : 0..MaxAudits,
            disp : 0..MaxDispatches, value : {"PASS", "FAIL"}]

(* A write of a verb leaves one write less, and the rest of its job as is. *)
LEMMA DoingFacts ==
    ASSUME IInv, NEW V, NEW s, Doing(V, s)
    PROVE  /\ job \in JobType /\ job.verb \in V /\ job.verb \in Verbs
           /\ Left \in Nat \ {0}
           /\ s = Plan[job.verb][Len(Plan[job.verb]) - Left + 1]
           /\ Left <= Len(Plan[job.verb])
           /\ Done => /\ job' \in JobType /\ Left' = Left - 1
                      /\ Suffix(job.todo, Plan[job.verb])'
                      /\ job'.verb = job.verb /\ job'.ret = job.ret /\ job'.audit = job.audit
                      /\ job'.disp = job.disp /\ job'.value = job.value
<1>1. job \in JobType /\ job.verb \in Verbs /\ job.todo \in Seq(AllSteps)
      /\ job.todo # <<>> /\ Head(job.todo) = s /\ job.verb \in V
  BY DEF IInv, TypeOK, JobType, Doing, AtRest
<1>2. Plan[job.verb] \in Seq(AllSteps) /\ Suffix(job.todo, Plan[job.verb])
  BY <1>1, PlanLengths DEF IInv, JobInv
<1> DEFINE rest == Tail(job.todo)
<1>3. /\ rest \in Seq(AllSteps) /\ Len(rest) = Left - 1 /\ Left \in Nat \ {0}
      /\ Suffix(rest, Plan[job.verb])
      /\ s = Plan[job.verb][Len(Plan[job.verb]) - Left + 1]
  BY <1>1, <1>2, TailOfSuffix DEF Left
<1>4. Left <= Len(Plan[job.verb])
  BY <1>2 DEF Suffix, Left
<1>5. ASSUME Done
      PROVE  /\ job' \in JobType /\ job'.todo = rest
             /\ job'.verb = job.verb /\ job'.ret = job.ret /\ job'.audit = job.audit
             /\ job'.disp = job.disp /\ job'.value = job.value
  <2>1. job' = [job EXCEPT !.todo = rest]
    BY <1>5 DEF Done
  <2> HIDE DEF rest
  <2> QED
    BY <1>1, <1>3, <2>1 DEF JobType
<1>6. Done => Left' = Left - 1 /\ Suffix(job.todo, Plan[job.verb])'
  BY <1>3, <1>5 DEF Left, Suffix
<1> QED
  BY <1>1, <1>3, <1>4, <1>5, <1>6

(* How many writes are left when a write is due.                           *)
LEMMA WritesLeft ==
    ASSUME IInv, NEW V, NEW s, Doing(V, s)
    PROVE  /\ job.verb = "return" => Left = CASE s = "mark" -> 6 [] s = "record" -> 5 [] s = "card" -> 4
                 [] s = "publish" -> 3 [] s = "dispatch" -> 2 [] s = "link" -> 1 [] OTHER -> 0
           /\ job.verb = "dispatch" => Left = CASE s = "link" -> 3 [] s = "card" -> 2
                 [] s = "handed" -> 1 [] OTHER -> 0
           /\ job.verb = "verdict" => Left = CASE s = "mark" -> 3 [] s = "verdict" -> 2
                 [] s = "audit" -> 1 [] OTHER -> 0
           /\ job.verb = "close" => Left = CASE s = "complete" -> 3 [] s = "closure" -> 2
                 [] s = "audit" -> 1 [] OTHER -> 0
           /\ job.verb = "reopen" => Left = CASE s = "boundary" -> 3 [] s = "archive" -> 2
                 [] s = "reopen" -> 1 [] OTHER -> 0
<1>1. /\ job.verb \in Verbs /\ Left \in Nat \ {0} /\ Left <= Len(Plan[job.verb])
      /\ s = Plan[job.verb][Len(Plan[job.verb]) - Left + 1]
  BY DoingFacts
<1>2. CASE job.verb = "return"
  <2>1. Left \in {1, 2, 3, 4, 5, 6} /\ s = ReturnSteps[6 - Left + 1]
    BY <1>1, <1>2, PlanFacts, PlanLengths
  <2> QED
    BY <1>2, <2>1 DEF ReturnSteps
<1>3. CASE job.verb = "dispatch"
  <2>1. Left \in {1, 2, 3} /\ s = DispatchSteps[3 - Left + 1]
    BY <1>1, <1>3, PlanFacts, PlanLengths
  <2> QED
    BY <1>3, <2>1 DEF DispatchSteps
<1>4. CASE job.verb = "verdict"
  <2>1. Left \in {1, 2, 3} /\ s = VerdictSteps[3 - Left + 1]
    BY <1>1, <1>4, PlanFacts, PlanLengths
  <2> QED
    BY <1>4, <2>1 DEF VerdictSteps
<1>5. CASE job.verb = "close"
  <2>1. Left \in {1, 2, 3} /\ s = CloseSteps[3 - Left + 1]
    BY <1>1, <1>5, PlanFacts, PlanLengths
  <2> QED
    BY <1>5, <2>1 DEF CloseSteps
<1>6. CASE job.verb = "reopen"
  <2>1. Left \in {1, 2, 3} /\ s = BoundarySteps[3 - Left + 1]
    BY <1>1, <1>6, PlanFacts, PlanLengths
  <2> QED
    BY <1>6, <2>1 DEF BoundarySteps
<1> QED
  BY <1>1, <1>2, <1>3, <1>4, <1>5, <1>6 DEF Verbs
-----------------------------------------------------------------------------
LEMMA CountOf ==
    ASSUME NEW n \in 0..MaxAudits
    PROVE  (CHOOSE k \in 0..MaxAudits : k = Cardinality(1..n)) = n
<1>1. n \in Int /\ 1 \in Int /\ n >= 0
  BY GateStepsAssumption
<1>2. Cardinality(1..n) = n
  BY <1>1, FS_Interval
<1> QED
  BY <1>2

(* The audit rounds are those up to the current one. *)
LEMMA CurrentIs ==
    ASSUME NEW n \in 0..MaxAudits, Rounds = 1..n
    PROVE  Current = n
  BY CountOf DEF Current

LEMMA CurrentType == Current \in 0..MaxAudits
<1>1. IsFiniteSet(1..MaxAudits) /\ Cardinality(1..MaxAudits) = MaxAudits
  <2>1. 1 \in Int /\ MaxAudits \in Int /\ MaxAudits >= 1
    BY GateStepsAssumption
  <2> QED
    BY <2>1, FS_Interval
<1>2. IsFiniteSet(Rounds) /\ Cardinality(Rounds) <= MaxAudits
  BY <1>1, FS_Subset DEF Rounds
<1>3. Cardinality(Rounds) \in Nat
  BY <1>2, FS_CardinalityType
<1>4. \E k \in 0..MaxAudits : k = Cardinality(Rounds)
  BY <1>2, <1>3, GateStepsAssumption
<1> QED
  BY <1>4 DEF Current

LEMMA RoundsUnchanged == UNCHANGED audits => Rounds' = Rounds /\ Current' = Current
  BY DEF Rounds, Exists, Current

LEMMA InitInv == Init => IInv
<1> SUFFICES ASSUME Init PROVE IInv
  OBVIOUS
<1>1. \A S : <<>> \in Seq(S) /\ Len(<<>>) = 0
  OBVIOUS
<1>2. Rounds = {} /\ \A k \in 1..MaxAudits : ~Exists(k)
  BY DEF Init, Rounds, Exists, NoAudit
<1>3. Rounds = 1..0
  BY <1>2
<1>4. 0 \in 0..MaxAudits /\ Current = 0
  BY <1>3, CurrentIs, GateStepsAssumption
<1>5. job.todo = <<>> /\ job.verb = "close" /\ Left = 0
  BY <1>1 DEF Init, Idle, Left
<1>6. TypeOK
  <2>1. job \in JobType
    BY <1>1, GateStepsAssumption DEF Init, Idle, JobType, Verbs
  <2>2. card \in [place : Places, ready : BOOLEAN, passed : BOOLEAN, ret : 0..MaxReturns,
                  link : 0..MaxAudits, disp : 0..MaxDispatches]
    BY GateStepsAssumption DEF Init, Places
  <2>3. audits \in [1..MaxAudits -> [at : SUBSET Places, by : {"return", "dispatch"},
                                     ret : 0..MaxReturns, disp : 0..MaxDispatches]]
    BY GateStepsAssumption DEF Init, NoAudit
  <2>4. count \in [returns : 0..MaxReturns, dispatches : 0..MaxDispatches,
                   reopens : 0..MaxReopens, stops : 0..MaxStops]
    BY GateStepsAssumption DEF Init
  <2>5. DOMAIN returns = {}
    BY DEF Init
  <2>6. round \in 1..MaxRounds /\ report \in 0..round
    BY GateStepsAssumption DEF Init
  <2>7. Rounds = 1..Current /\ dispatched \subseteq published /\ published \subseteq Rounds
        /\ handed \subseteq 1..count.dispatches /\ cut \subseteq Verbs
    BY <1>3, <1>4 DEF Init
  <2>8. verdicts \in Seq([audit : Rounds, value : {"PASS", "FAIL"}]) /\ closures \in Seq(1..round)
    BY <1>1 DEF Init
  <2> QED
    BY <2>1, <2>2, <2>3, <2>4, <2>5, <2>6, <2>7, <2>8 DEF TypeOK, JobType
<1>7. JobInv
  <2>1. Suffix(job.todo, Plan[job.verb])
    BY <1>1, <1>5, PlanFacts, PlanLengths DEF Suffix
  <2> QED
    BY <1>5, <2>1 DEF JobInv
<1>8. EveryRoundDelivered /\ OneClosurePerRound
  BY <1>1 DEF Init, EveryRoundDelivered, OneClosurePerRound
<1>9. ReviewedReturnExists /\ OnlyMoves /\ DerivedCardOnce
  BY <1>2 DEF Init, NoAudit, ReviewedReturnExists, OnlyMoves, DerivedCardOnce
<1> QED
  BY <1>6, <1>7, <1>8, <1>9 DEF IInv
-----------------------------------------------------------------------------
(* The writes.  The invariant by its parts: FilesInv is what TypeOK says   *)
(* of the files without the audit cards, RoundsInv what is about them.     *)
FilesInv ==
    /\ card \in [place : Places, ready : BOOLEAN, passed : BOOLEAN, ret : 0..MaxReturns,
                 link : 0..MaxAudits, disp : 0..MaxDispatches]
    /\ round \in 1..MaxRounds
    /\ report \in 0..round
    /\ DOMAIN returns \subseteq 1..count.returns
    /\ \A r \in DOMAIN returns : returns[r] \in [round : 1..round, report : 1..round]
    /\ handed \subseteq 1..count.dispatches
    /\ closures \in Seq(1..round)
    /\ count \in [returns : 0..MaxReturns, dispatches : 0..MaxDispatches,
                  reopens : 0..MaxReopens, stops : 0..MaxStops]
    /\ cut \subseteq Verbs
    /\ EveryRoundDelivered
    /\ OneClosurePerRound

RoundsInv ==
    /\ audits \in [1..MaxAudits -> [at : SUBSET Places, by : {"return", "dispatch"},
                                    ret : 0..MaxReturns, disp : 0..MaxDispatches]]
    /\ Rounds = 1..Current
    /\ dispatched \subseteq published /\ published \subseteq Rounds
    /\ verdicts \in Seq([audit : Rounds, value : {"PASS", "FAIL"}])
    /\ ReviewedReturnExists
    /\ OnlyMoves
    /\ DerivedCardOnce

LEMMA Parts == IInv <=> FilesInv /\ RoundsInv /\ job \in JobType /\ JobInv
  BY DEF IInv, TypeOK, JobType, FilesInv, RoundsInv

LEMMA RoundsKept ==
    ASSUME RoundsInv, UNCHANGED <<audits, published, dispatched, verdicts>>,
           DOMAIN returns \subseteq DOMAIN returns'
    PROVE  RoundsInv'
<1>1. Rounds' = Rounds /\ Current' = Current
  BY RoundsUnchanged
<1>2. ReviewedReturnExists'
  BY <1>1 DEF RoundsInv, ReviewedReturnExists
<1>3. DerivedCardOnce'
  BY <1>1 DEF RoundsInv, DerivedCardOnce
<1> QED
  BY <1>1, <1>2, <1>3 DEF RoundsInv, OnlyMoves

LEMMA FilesKept ==
    ASSUME FilesInv, UNCHANGED <<card, round, report, returns, handed, closures, count, cut>>
    PROVE  FilesInv'
  BY DEF FilesInv, EveryRoundDelivered, OneClosurePerRound

(* A card for the round k, which is current or the next one, about a       *)
(* return that has its record.                                             *)
LEMMA NewRound ==
    ASSUME RoundsInv, NEW k \in 1..MaxAudits, k - 1 \in Rounds \cup {0},
           NEW by \in {"return", "dispatch"}, NEW r \in 0..MaxReturns, r \in DOMAIN returns,
           NEW d \in 0..MaxDispatches,
           audits' = [audits EXCEPT ![k] = [at |-> @.at \cup {"pending"}, by |-> by, ret |-> r, disp |-> d]],
           by = "return" => ~Exists(k),
           UNCHANGED <<returns, published, dispatched, verdicts>>
    PROVE  RoundsInv' /\ k \in Rounds' /\ Rounds \subseteq Rounds'
<1>0. PICK c \in 0..MaxAudits : c = Current /\ Rounds = 1..c
  BY CurrentType DEF RoundsInv
<1>1. audits \in [1..MaxAudits -> [at : SUBSET Places, by : {"return", "dispatch"},
                                   ret : 0..MaxReturns, disp : 0..MaxDispatches]]
  BY DEF RoundsInv
<1>2. audits'[k] = [at |-> audits[k].at \cup {"pending"}, by |-> by, ret |-> r, disp |-> d]
  BY <1>1
<1>3. \A j \in 1..MaxAudits : j # k => audits'[j] = audits[j]
  BY <1>1
<1>4. audits' \in [1..MaxAudits -> [at : SUBSET Places, by : {"return", "dispatch"},
                                    ret : 0..MaxReturns, disp : 0..MaxDispatches]]
  <2>1. audits[k].at \subseteq Places
    BY <1>1
  <2>2. audits[k].at \cup {"pending"} \in SUBSET Places
    BY <2>1 DEF Places
  <2> QED
    BY <1>1, <2>2
<1>5. audits'[k].at # {}
  BY <1>2
<1>6. Rounds' = Rounds \cup {k}
  BY <1>3, <1>5 DEF Rounds, Exists
<1>7. \E m \in 0..MaxAudits : Rounds' = 1..m
  <2>1. CASE k <= c
    BY <1>0, <1>6, <2>1, GateStepsAssumption
  <2>2. CASE k > c
    <3>1. k = c + 1
      BY <1>0, <2>2, GateStepsAssumption
    <3> QED
      BY <1>0, <1>6, <3>1, GateStepsAssumption
  <2> QED
    BY <1>0, <2>1, <2>2, GateStepsAssumption
<1>8. Rounds' = 1..Current'
  <2>1. PICK m \in 0..MaxAudits : Rounds' = 1..m
    BY <1>7
  <2>2. Current' = m
    BY <2>1, CountOf DEF Current
  <2> QED
    BY <2>1, <2>2
<1>9. verdicts' \in Seq([audit : Rounds', value : {"PASS", "FAIL"}])
  <2>1. verdicts \in Seq([audit : Rounds, value : {"PASS", "FAIL"}]) /\ verdicts' = verdicts
    BY DEF RoundsInv
  <2>2. [audit : Rounds, value : {"PASS", "FAIL"}] \subseteq [audit : Rounds', value : {"PASS", "FAIL"}]
    BY <1>6
  <2> QED
    BY <2>1, <2>2, SeqMonotonic
<1>10. ReviewedReturnExists'
  BY <1>2, <1>3, <1>6 DEF RoundsInv, ReviewedReturnExists, Rounds
<1>11. OnlyMoves'
  BY <1>2, <1>3 DEF RoundsInv, OnlyMoves
<1>12. DerivedCardOnce'
  <2> SUFFICES ASSUME NEW j \in Rounds', audits'[j].by = "return"
               PROVE  Cardinality(audits'[j].at) = 1
    BY DEF DerivedCardOnce
  <2>1. CASE j = k
    <3>1. audits'[j].at = {"pending"}
      BY <1>2, <2>1 DEF Exists
    <3> QED
      BY <3>1, FS_Singleton
  <2>2. CASE j # k
    BY <1>3, <1>6, <2>2 DEF RoundsInv, DerivedCardOnce, Rounds
  <2> QED
    BY <2>1, <2>2
<1> QED
  BY <1>4, <1>6, <1>8, <1>9, <1>10, <1>11, <1>12 DEF RoundsInv

(* An audit card that is moved stays one card, and remains the same round. *)
LEMMA AuditMoved ==
    ASSUME RoundsInv, NEW k \in 1..MaxAudits, NEW A,
           A \in {audits[k].at} \cup (IF Exists(k) THEN {{"claimed"}, {"completed"}, {"withdrawn"}} ELSE {}),
           audits' = [audits EXCEPT ![k].at = A],
           UNCHANGED <<returns, published, dispatched, verdicts>>
    PROVE  RoundsInv' /\ Rounds' = Rounds
<1>1. audits \in [1..MaxAudits -> [at : SUBSET Places, by : {"return", "dispatch"},
                                   ret : 0..MaxReturns, disp : 0..MaxDispatches]]
  BY DEF RoundsInv
<1>2. audits'[k] = [audits[k] EXCEPT !.at = A] /\ audits'[k].at = A
      /\ audits'[k].ret = audits[k].ret /\ audits'[k].by = audits[k].by
  BY <1>1
<1>3. \A j \in 1..MaxAudits : j # k => audits'[j] = audits[j]
  BY <1>1
<1>4. A \in SUBSET Places /\ A \subseteq {"pending", "claimed", "completed", "withdrawn"}
  BY <1>1 DEF Places, RoundsInv, OnlyMoves
<1>5. audits' \in [1..MaxAudits -> [at : SUBSET Places, by : {"return", "dispatch"},
                                    ret : 0..MaxReturns, disp : 0..MaxDispatches]]
  BY <1>1, <1>4
<1>6. A # {} <=> Exists(k)
  BY DEF Exists
<1>7. Rounds' = Rounds
  BY <1>2, <1>3, <1>6 DEF Rounds, Exists
<1>8. Current' = Current
  BY <1>7 DEF Current
<1>9. ReviewedReturnExists'
  BY <1>2, <1>3, <1>7 DEF RoundsInv, ReviewedReturnExists, Rounds
<1>10. OnlyMoves'
  BY <1>2, <1>3, <1>4 DEF RoundsInv, OnlyMoves
<1>11. DerivedCardOnce'
  <2> SUFFICES ASSUME NEW j \in Rounds, audits'[j].by = "return"
               PROVE  Cardinality(audits'[j].at) = 1
    BY <1>7 DEF DerivedCardOnce
  <2>0. j \in 1..MaxAudits /\ audits[j].by = "return"
    BY <1>2, <1>3 DEF Rounds
  <2>1. Cardinality(audits[j].at) = 1 /\ j \in 1..MaxAudits
    BY <2>0 DEF RoundsInv, DerivedCardOnce
  <2>2. CASE j = k
    <3>1. A = audits[k].at \/ A = {"claimed"} \/ A = {"completed"} \/ A = {"withdrawn"}
      OBVIOUS
    <3>2. /\ Cardinality({"claimed"}) = 1 /\ Cardinality({"completed"}) = 1
          /\ Cardinality({"withdrawn"}) = 1
      BY FS_Singleton
    <3> QED
      BY <1>2, <2>1, <2>2, <3>1, <3>2
  <2>3. CASE j # k
    BY <1>3, <2>1, <2>3
  <2> QED
    BY <2>2, <2>3
<1> QED
  BY <1>5, <1>7, <1>8, <1>9, <1>10, <1>11 DEF RoundsInv

LEMMA IdleInv == job' = Idle => job' \in JobType /\ JobInv'
<1> SUFFICES ASSUME job' = Idle PROVE job' \in JobType /\ JobInv'
  OBVIOUS
<1>1. <<>> \in Seq(AllSteps) /\ Len(<<>>) = 0
  OBVIOUS
<1>2. job'.todo = <<>> /\ job'.verb = "close" /\ Left' = 0
  BY <1>1 DEF Idle, Left
<1>3. job' \in JobType
  BY <1>1, GateStepsAssumption DEF Idle, JobType, Verbs
<1>4. Suffix(job.todo, Plan[job.verb])'
  BY <1>1, <1>2, PlanFacts, PlanLengths DEF Suffix
<1> QED
  BY <1>2, <1>3, <1>4 DEF JobInv

(* The writes of a return. *)
LEMMA ReturnWrites ==
    ASSUME IInv, MarkReturned \/ RecordReturn \/ RecordDerivation
    PROVE  IInv'
<1>0. FilesInv /\ RoundsInv /\ job \in JobType /\ JobInv
  BY Parts
<1>1. CASE MarkReturned
  <2>1. /\ job.verb = "return" /\ Left = 6 /\ job' \in JobType /\ Left' = 5
        /\ Suffix(job.todo, Plan[job.verb])' /\ job'.verb = "return" /\ job'.ret = job.ret
    BY <1>1, DoingFacts, WritesLeft DEF MarkReturned
  <2>2. job.ret \in 1..count.returns /\ report # 0 /\ job.ret \notin DOMAIN returns
    BY <1>0, <2>1 DEF JobInv
  <2>3. JobInv'
    BY <1>1, <2>1, <2>2 DEF MarkReturned, JobInv
  <2>4. FilesInv'
    <3>1. card' \in [place : Places, ready : BOOLEAN, passed : BOOLEAN, ret : 0..MaxReturns,
                     link : 0..MaxAudits, disp : 0..MaxDispatches]
      BY <1>0, <1>1 DEF MarkReturned, FilesInv, JobType
    <3> QED
      BY <1>0, <1>1, <3>1 DEF MarkReturned, FilesInv, EveryRoundDelivered, OneClosurePerRound
  <2>5. RoundsInv'
    BY <1>0, <1>1, RoundsKept DEF MarkReturned
  <2> QED
    BY <2>1, <2>3, <2>4, <2>5 DEF IInv, TypeOK, JobType, FilesInv, RoundsInv
<1>2. CASE RecordReturn
  <2>1. /\ job.verb = "return" /\ Left = 5 /\ job' \in JobType /\ Left' = 4
        /\ Suffix(job.todo, Plan[job.verb])' /\ job'.verb = "return" /\ job'.ret = job.ret
    BY <1>2, DoingFacts, WritesLeft DEF RecordReturn
  <2>2. job.ret \in 1..count.returns /\ report # 0
    BY <1>0, <2>1 DEF JobInv
  <2>3. /\ DOMAIN returns' = DOMAIN returns \cup {job.ret}
        /\ \A r \in DOMAIN returns' : returns'[r] = IF r = job.ret THEN [round |-> round, report |-> report]
                                                   ELSE returns[r]
    BY <1>2 DEF RecordReturn
  <2>4. JobInv'
    BY <1>2, <2>1, <2>2, <2>3 DEF RecordReturn, JobInv
  <2>5. FilesInv'
    <3>1. [round |-> round, report |-> report] \in [round : 1..round, report : 1..round]
      BY SMTT(30), <1>0, <2>2, GateStepsAssumption DEF FilesInv
    <3>2. \A r \in DOMAIN returns' : returns'[r] \in [round : 1..round, report : 1..round]
      BY <1>0, <2>3, <3>1 DEF FilesInv
    <3>3. DOMAIN returns' \subseteq 1..count.returns
      BY <1>0, <2>2, <2>3 DEF FilesInv
    <3>4. EveryRoundDelivered'
      <4> SUFFICES ASSUME NEW q \in 1..(round - 1)
                   PROVE  \E r \in DOMAIN returns' : returns'[r].round = q
        BY <1>2 DEF RecordReturn, EveryRoundDelivered
      <4>1. PICK r \in DOMAIN returns : returns[r].round = q
        BY <1>0 DEF FilesInv, EveryRoundDelivered
      <4>2. CASE r # job.ret
        BY <2>3, <4>1, <4>2
      <4>3. CASE r = job.ret
        BY <1>0, <2>1, <4>3 DEF JobInv
      <4> QED
        BY <4>2, <4>3
    <3> QED
      BY <1>0, <1>2, <3>2, <3>3, <3>4 DEF RecordReturn, FilesInv, OneClosurePerRound
  <2>6. RoundsInv'
    BY <1>0, <1>2, <2>3, RoundsKept DEF RecordReturn
  <2> QED
    BY <2>1, <2>4, <2>5, <2>6 DEF IInv, TypeOK, JobType, FilesInv, RoundsInv
<1>3. CASE RecordDerivation
  <2>1. PICK s \in {"publish", "dispatch"} : Doing({"return"}, s)
    BY <1>3 DEF RecordDerivation
  <2>2. Done /\ UNCHANGED <<card, round, report, returns, audits, handed, verdicts, closures, count, cut>>
    BY <1>3 DEF RecordDerivation
  <2>3. /\ job.verb = "return" /\ job' \in JobType /\ Left' = Left - 1
        /\ Suffix(job.todo, Plan[job.verb])' /\ job'.verb = "return" /\ job'.ret = job.ret
        /\ job'.audit = job.audit
    BY <2>1, <2>2, DoingFacts
  <2>4. Left = IF s = "publish" THEN 3 ELSE 2
    BY <2>1, <2>3, WritesLeft
  <2>5. /\ job.ret \in 1..count.returns /\ report # 0 /\ job.ret \in DOMAIN returns
        /\ job.audit \in Rounds /\ (Left = 2 => job.audit \in published)
    BY <1>0, <2>3, <2>4 DEF JobInv
  <2>6. Rounds' = Rounds /\ Current' = Current
    BY <2>2, RoundsUnchanged
  <2>7. /\ dispatched' \subseteq published' /\ published' \subseteq Rounds
        /\ Left = 3 => job.audit \in published'
        /\ published \subseteq published'
    <3>1. CASE s = "publish"
      <4>1. Left = 3
        BY <2>4, <3>1
      <4>2. ~Doing({"return"}, "dispatch")
        BY <2>1, <3>1 DEF Doing
      <4>3. published' = published \cup {job.audit} /\ dispatched' = dispatched
        BY <1>3, <4>2 DEF RecordDerivation
      <4> QED
        BY <1>0, <2>5, <4>3 DEF RoundsInv
    <3>2. CASE s = "dispatch"
      <4>1. Left = 2
        BY <2>4, <3>2
      <4>2. ~Doing({"return"}, "publish")
        BY <2>1, <3>2 DEF Doing
      <4>3. published' = published /\ dispatched' = dispatched \cup {job.audit}
        BY <1>3, <4>2 DEF RecordDerivation
      <4> QED
        BY <1>0, <2>5, <4>1, <4>3 DEF RoundsInv
    <3> QED
      BY <3>1, <3>2
  <2>8. RoundsInv'
    BY <1>0, <2>2, <2>6, <2>7 DEF RoundsInv, ReviewedReturnExists, OnlyMoves, DerivedCardOnce
  <2>9. JobInv'
    BY <2>2, <2>3, <2>4, <2>5, <2>6, <2>7 DEF JobInv
  <2>10. FilesInv'
    BY <1>0, <2>2, FilesKept
  <2> QED
    BY <2>3, <2>8, <2>9, <2>10 DEF IInv, TypeOK, JobType, FilesInv, RoundsInv
<1> QED
  BY <1>1, <1>2, <1>3

LEMMA DeriveWrites ==
    ASSUME IInv, DeriveCard
    PROVE  IInv'
<1>0. FilesInv /\ RoundsInv /\ job \in JobType /\ JobInv
  BY Parts
<1>1. /\ job.verb = "return" /\ Left = 4
      /\ Plan[job.verb] \in Seq(AllSteps) /\ job.todo \in Seq(AllSteps) /\ job.todo # <<>>
  <2>1. Doing({"return"}, "card")
    BY DEF DeriveCard
  <2> QED
    BY <1>0, <2>1, DoingFacts, WritesLeft, PlanLengths DEF JobType, Doing, AtRest
<1>2. job.ret \in 1..count.returns /\ report # 0 /\ job.ret \in DOMAIN returns
  BY <1>0, <1>1 DEF JobInv
<1>3. UNCHANGED <<card, round, report, returns, published, dispatched, handed, verdicts, closures, count, cut>>
  BY DEF DeriveCard
<1>4. FilesInv'
  BY <1>0, <1>3, FilesKept
<1>5. PICK stale \in SUBSET {"verdict", "return"} :
         LET k == DerivedRound(stale)
         IN  IF k = 0
             THEN job' = Idle /\ UNCHANGED audits
             ELSE /\ k <= MaxAudits
                  /\ audits' = [audits EXCEPT ![k] = [at |-> @.at \cup {"pending"}, by |-> "return",
                                                      ret |-> job.ret, disp |-> 0]]
                  /\ job' = [job EXCEPT !.todo = Tail(@), !.audit = k]
  BY DEF DeriveCard
<1>6. PICK k : k = DerivedRound(stale)
  OBVIOUS
<1>7. k = 0 \/ k = Current + 1
  BY <1>6, CurrentType DEF DerivedRound
<1>8. CASE k = 0
  <2>1. job' = Idle /\ UNCHANGED audits
    BY <1>5, <1>6, <1>8
  <2>2. RoundsInv'
    BY <1>0, <1>3, <2>1, RoundsKept
  <2> QED
    BY <1>4, <2>1, <2>2, IdleInv DEF IInv, TypeOK, JobType, FilesInv, RoundsInv
<1>9. CASE k # 0
  <2>1. /\ k <= MaxAudits
        /\ audits' = [audits EXCEPT ![k] = [at |-> @.at \cup {"pending"}, by |-> "return",
                                            ret |-> job.ret, disp |-> 0]]
        /\ job' = [job EXCEPT !.todo = Tail(@), !.audit = k]
    BY <1>5, <1>6, <1>9
  <2>2. k \in 1..MaxAudits /\ k - 1 \in Rounds \cup {0} /\ k \notin Rounds
    <3>1. PICK c \in 0..MaxAudits : c = Current /\ Rounds = 1..c
      BY <1>0, CurrentType DEF RoundsInv
    <3> QED
      BY <1>7, <1>9, <2>1, <3>1, GateStepsAssumption
  <2>3. ~Exists(k)
    BY <2>2 DEF Rounds
  <2>4. job.ret \in 0..MaxReturns /\ 0 \in 0..MaxDispatches
    BY <1>0, GateStepsAssumption DEF JobType
  <2>5. RoundsInv' /\ k \in Rounds' /\ Rounds \subseteq Rounds'
    BY <1>0, <1>2, <1>3, <2>1, <2>2, <2>3, <2>4, NewRound
  <2>6. Suffix(job.todo, Plan[job.verb])
    BY <1>0 DEF JobInv
  <2> DEFINE rest == Tail(job.todo)
  <2>7. rest \in Seq(AllSteps) /\ Len(rest) = 3 /\ Suffix(rest, Plan[job.verb])
    BY <1>1, <2>6, TailOfSuffix DEF Left
  <2>8. job' = [job EXCEPT !.todo = rest, !.audit = k]
    BY <2>1
  <2> HIDE DEF rest
  <2>9. /\ job' \in JobType /\ job'.todo = rest /\ job'.verb = "return" /\ job'.ret = job.ret
        /\ job'.audit = k
    <3>1. job' = [verb |-> job.verb, todo |-> rest, ret |-> job.ret, audit |-> k,
                  disp |-> job.disp, value |-> job.value]
      BY <1>0, <2>8 DEF JobType
    <3>2. k \in 0..MaxAudits
      BY <2>2, GateStepsAssumption
    <3> QED
      BY <1>0, <1>1, <2>7, <3>1, <3>2 DEF JobType
  <2>10. Left' = 3 /\ Suffix(job.todo, Plan[job.verb])'
    BY <1>1, <2>7, <2>9 DEF Left, Suffix
  <2>11. JobInv'
    BY <1>2, <1>3, <2>5, <2>9, <2>10 DEF JobInv
  <2> QED
    BY <1>4, <2>5, <2>9, <2>11 DEF IInv, TypeOK, JobType, FilesInv, RoundsInv
<1> QED
  BY <1>8, <1>9

(* Linking the audit card, by a return or by a dispatch. *)
LEMMA LinkWrites ==
    ASSUME IInv, LinkAudit
    PROVE  IInv'
<1>0. FilesInv /\ RoundsInv /\ job \in JobType /\ JobInv
  BY Parts
<1>1. Doing({"return", "dispatch"}, "link") /\ Done
  BY DEF LinkAudit
<1>2. /\ job.verb \in {"return", "dispatch"} /\ job' \in JobType /\ Left' = Left - 1
      /\ Suffix(job.todo, Plan[job.verb])' /\ job'.verb = job.verb /\ job'.ret = job.ret
      /\ job'.audit = job.audit /\ job'.disp = job.disp
  BY <1>1, DoingFacts
<1>3. Left = IF job.verb = "return" THEN 1 ELSE 3
  BY <1>1, <1>2, WritesLeft
<1>4. UNCHANGED <<round, report, returns, audits, published, dispatched, handed, verdicts,
                  closures, count, cut>>
  BY DEF LinkAudit
<1>5. /\ card' \in [place : Places, ready : BOOLEAN, passed : BOOLEAN, ret : 0..MaxReturns,
                     link : 0..MaxAudits, disp : 0..MaxDispatches]
      /\ card'.ret = card.ret
  <2>1. PICK d : d = IF job.verb = "dispatch" THEN job.disp ELSE card.disp
    OBVIOUS
  <2>2. d \in 0..MaxDispatches
    BY <1>0, <2>1 DEF FilesInv, JobType
  <2>3. card' = [card EXCEPT !.link = job.audit, !.disp = d]
    BY <2>1 DEF LinkAudit
  <2>4. job.audit \in 0..MaxAudits
    BY <1>0 DEF JobType
  <2> QED
    BY <1>0, <2>2, <2>3, <2>4 DEF FilesInv
<1>6. FilesInv'
  BY <1>0, <1>4, <1>5 DEF FilesInv, EveryRoundDelivered, OneClosurePerRound
<1>7. RoundsInv'
  BY <1>0, <1>4, RoundsKept
<1>8. Rounds' = Rounds /\ \A k \in 1..MaxAudits : Exists(k)' = Exists(k)
  BY <1>4, RoundsUnchanged DEF Exists
<1>9. JobInv'
  <2>1. CASE job.verb = "return"
    BY <1>2, <1>3, <2>1 DEF JobInv
  <2>2. CASE job.verb = "dispatch"
    <3>1. /\ job.audit \in 1..MaxAudits /\ job.audit - 1 \in Rounds \cup {0}
          /\ job.disp \in 1..count.dispatches /\ Recorded(card.ret)
      BY <1>0, <1>3, <2>2 DEF JobInv
    <3>2. Recorded(card.ret)'
      BY <1>4, <1>5, <3>1 DEF Recorded
    <3> QED
      BY <1>2, <1>3, <1>4, <1>8, <2>2, <3>1, <3>2 DEF JobInv
  <2> QED
    BY <1>2, <2>1, <2>2
<1> QED
  BY <1>2, <1>6, <1>7, <1>9 DEF IInv, TypeOK, JobType, FilesInv, RoundsInv

(* The other writes of a dispatch. *)
LEMMA DispatchWrites ==
    ASSUME IInv, DispatchCard \/ RecordDispatch
    PROVE  IInv'
<1>0. FilesInv /\ RoundsInv /\ job \in JobType /\ JobInv
  BY Parts
<1>1. CASE DispatchCard
  <2>1. /\ job.verb = "dispatch" /\ Left = 2 /\ job' \in JobType /\ Left' = 1
        /\ Suffix(job.todo, Plan[job.verb])' /\ job'.verb = "dispatch"
        /\ job'.audit = job.audit /\ job'.disp = job.disp
    BY <1>1, DoingFacts, WritesLeft DEF DispatchCard
  <2>2. /\ job.audit \in 1..MaxAudits /\ job.audit - 1 \in Rounds \cup {0}
        /\ job.disp \in 1..count.dispatches /\ Recorded(card.ret)
    BY <1>0, <2>1 DEF JobInv
  <2>3. /\ UNCHANGED <<card, round, report, returns, published, dispatched, handed, verdicts,
                       closures, count, cut>>
        /\ audits' = [audits EXCEPT ![job.audit] = [at |-> @.at \cup {"pending"}, by |-> "dispatch",
                                                    ret |-> card.ret, disp |-> job.disp]]
    BY <1>1 DEF DispatchCard
  <2>4. card.ret \in 0..MaxReturns /\ card.ret \in DOMAIN returns /\ job.disp \in 0..MaxDispatches
    BY <1>0, <2>2 DEF FilesInv, Recorded, JobType
  <2>5. PICK k \in 1..MaxAudits, r \in 0..MaxReturns, d \in 0..MaxDispatches :
           k = job.audit /\ r = card.ret /\ d = job.disp
    BY <2>2, <2>4
  <2>6. RoundsInv' /\ k \in Rounds' /\ Rounds \subseteq Rounds'
    <3>1. audits' = [audits EXCEPT ![k] = [at |-> @.at \cup {"pending"}, by |-> "dispatch",
                                          ret |-> r, disp |-> d]]
      BY <2>3, <2>5
    <3>2. k - 1 \in Rounds \cup {0} /\ r \in DOMAIN returns
      BY <2>2, <2>4, <2>5
    <3> QED
      BY <1>0, <2>3, <3>1, <3>2, NewRound
  <2>7. FilesInv'
    BY <1>0, <2>3, FilesKept
  <2>8. JobInv'
    BY <2>1, <2>2, <2>3, <2>5, <2>6 DEF JobInv, Recorded
  <2> QED
    BY <2>1, <2>6, <2>7, <2>8 DEF IInv, TypeOK, JobType, FilesInv, RoundsInv
<1>2. CASE RecordDispatch
  <2>1. /\ job.verb = "dispatch" /\ Left = 1 /\ job' \in JobType /\ Left' = 0
        /\ Suffix(job.todo, Plan[job.verb])' /\ job'.verb = "dispatch"
    BY <1>2, DoingFacts, WritesLeft DEF RecordDispatch
  <2>2. job.disp \in 1..count.dispatches
    BY <1>0, <2>1 DEF JobInv
  <2>3. JobInv'
    BY <2>1 DEF JobInv
  <2>4. FilesInv'
    BY <1>0, <1>2, <2>2 DEF RecordDispatch, FilesInv, EveryRoundDelivered, OneClosurePerRound
  <2>5. RoundsInv'
    BY <1>0, <1>2, RoundsKept DEF RecordDispatch
  <2> QED
    BY <2>1, <2>3, <2>4, <2>5 DEF IInv, TypeOK, JobType, FilesInv, RoundsInv
<1> QED
  BY <1>1, <1>2

(* The writes of a verdict, and the audit card a verdict or a closure      *)
(* moves.                                                                  *)
LEMMA VerdictWrites ==
    ASSUME IInv, MarkJudged \/ RecordVerdict \/ CloseAudit
    PROVE  IInv'
<1>0. FilesInv /\ RoundsInv /\ job \in JobType /\ JobInv
  BY Parts
<1>1. CASE MarkJudged
  <2>1. /\ job.verb = "verdict" /\ Left = 3 /\ job' \in JobType /\ Left' = 2
        /\ Suffix(job.todo, Plan[job.verb])' /\ job'.verb = "verdict" /\ job'.audit = job.audit
    BY <1>1, DoingFacts, WritesLeft DEF MarkJudged
  <2>2. job.audit \in Rounds
    BY <1>0, <2>1 DEF JobInv
  <2>3. Rounds' = Rounds
    BY <1>1, RoundsUnchanged DEF MarkJudged
  <2>4. JobInv'
    BY <2>1, <2>2, <2>3 DEF JobInv
  <2>5. FilesInv'
    <3>1. PICK b \in BOOLEAN : b = (job.value = "PASS")
      OBVIOUS
    <3>2. card' = [card EXCEPT !.passed = b]
      BY <1>1, <3>1 DEF MarkJudged
    <3>3. card' \in [place : Places, ready : BOOLEAN, passed : BOOLEAN, ret : 0..MaxReturns,
                     link : 0..MaxAudits, disp : 0..MaxDispatches]
      BY <1>0, <3>2 DEF FilesInv
    <3> QED
      BY <1>0, <1>1, <3>3 DEF MarkJudged, FilesInv, EveryRoundDelivered, OneClosurePerRound
  <2>6. RoundsInv'
    BY <1>0, <1>1, RoundsKept DEF MarkJudged
  <2> QED
    BY <2>1, <2>4, <2>5, <2>6 DEF IInv, TypeOK, JobType, FilesInv, RoundsInv
<1>2. CASE RecordVerdict
  <2>1. /\ job.verb = "verdict" /\ Left = 2 /\ job' \in JobType /\ Left' = 1
        /\ Suffix(job.todo, Plan[job.verb])' /\ job'.verb = "verdict" /\ job'.audit = job.audit
    BY <1>2, DoingFacts, WritesLeft DEF RecordVerdict
  <2>2. job.audit \in Rounds
    BY <1>0, <2>1 DEF JobInv
  <2>3. Rounds' = Rounds /\ Current' = Current
    BY <1>2, RoundsUnchanged DEF RecordVerdict
  <2>4. JobInv'
    BY <2>1, <2>2, <2>3 DEF JobInv
  <2>5. FilesInv'
    BY <1>0, <1>2, FilesKept DEF RecordVerdict
  <2>6. verdicts' \in Seq([audit : Rounds, value : {"PASS", "FAIL"}])
    <3>1. [audit |-> job.audit, value |-> job.value] \in [audit : Rounds, value : {"PASS", "FAIL"}]
      BY <1>0, <2>2 DEF JobType
    <3>2. verdicts' = Append(verdicts, [audit |-> job.audit, value |-> job.value])
      BY <1>2 DEF RecordVerdict
    <3> QED
      BY <1>0, <3>1, <3>2, AppendProperties DEF RoundsInv
  <2>7. RoundsInv'
    BY <1>0, <1>2, <2>3, <2>6 DEF RecordVerdict, RoundsInv, ReviewedReturnExists, OnlyMoves, DerivedCardOnce
  <2> QED
    BY <2>1, <2>4, <2>5, <2>7 DEF IInv, TypeOK, JobType, FilesInv, RoundsInv
<1>3. CASE CloseAudit
  <2>1. /\ job.verb \in {"verdict", "close"} /\ Left = 1 /\ job' \in JobType /\ Left' = 0
        /\ Suffix(job.todo, Plan[job.verb])' /\ job'.verb = job.verb
    BY <1>3, DoingFacts, WritesLeft DEF CloseAudit
  <2>2. job.audit \in 1..MaxAudits
    BY <1>0, <2>1, GateStepsAssumption DEF JobInv, Rounds
  <2>3. PICK k \in 1..MaxAudits : k = job.audit
    BY <2>2
  <2>4. PICK A : A = IF audits[k].at = {"claimed"} THEN {"completed"} ELSE audits[k].at
    OBVIOUS
  <2>5. audits' = [audits EXCEPT ![k].at = A]
    BY <1>3, <2>3, <2>4 DEF CloseAudit
  <2>6. A \in {audits[k].at} \cup (IF Exists(k) THEN {{"claimed"}, {"completed"}, {"withdrawn"}} ELSE {})
    BY <2>4 DEF Exists
  <2>7. UNCHANGED <<card, round, report, returns, published, dispatched, handed, verdicts,
                    closures, count, cut>>
    BY <1>3 DEF CloseAudit
  <2>8. RoundsInv'
    BY <1>0, <2>5, <2>6, <2>7, AuditMoved
  <2>9. FilesInv'
    BY <1>0, <2>7, FilesKept
  <2>10. JobInv'
    BY <2>1 DEF JobInv
  <2> QED
    BY <2>1, <2>8, <2>9, <2>10 DEF IInv, TypeOK, JobType, FilesInv, RoundsInv
<1> QED
  BY <1>1, <1>2, <1>3

(* The writes of a closure. *)
LEMMA CloseWrites ==
    ASSUME IInv, CompleteCard \/ RecordClosure
    PROVE  IInv'
<1>0. FilesInv /\ RoundsInv /\ job \in JobType /\ JobInv
  BY Parts
<1>1. CASE CompleteCard
  <2>1. /\ job.verb = "close" /\ Left = 3 /\ job' \in JobType /\ Left' = 2
        /\ Suffix(job.todo, Plan[job.verb])' /\ job'.verb = "close" /\ job'.audit = job.audit
    BY <1>1, DoingFacts, WritesLeft DEF CompleteCard
  <2>2. job.audit = 1 /\ ~ClosedThisRound
    BY <1>0, <2>1 DEF JobInv
  <2>3. ~ClosedThisRound'
    BY <1>1, <2>2 DEF CompleteCard, ClosedThisRound
  <2>4. JobInv'
    BY <2>1, <2>2, <2>3 DEF JobInv
  <2>5. FilesInv'
    BY <1>0, <1>1 DEF CompleteCard, FilesInv, EveryRoundDelivered, OneClosurePerRound, Places
  <2>6. RoundsInv'
    BY <1>0, <1>1, RoundsKept DEF CompleteCard
  <2> QED
    BY <2>1, <2>4, <2>5, <2>6 DEF IInv, TypeOK, JobType, FilesInv, RoundsInv
<1>2. CASE RecordClosure
  <2>1. /\ job.verb = "close" /\ Left = 2 /\ job' \in JobType /\ Left' = 1
        /\ Suffix(job.todo, Plan[job.verb])' /\ job'.verb = "close" /\ job'.audit = job.audit
    BY <1>2, DoingFacts, WritesLeft DEF RecordClosure
  <2>2. job.audit = 1 /\ ~ClosedThisRound
    BY <1>0, <2>1 DEF JobInv
  <2>3. JobInv'
    BY <2>1, <2>2 DEF JobInv
  <2>4. PICK n \in Nat : n = Len(closures)
    BY <1>0, LenProperties DEF FilesInv
  <2>5. /\ closures' \in Seq(1..round) /\ Len(closures') = n + 1
        /\ \A i \in 1..n : closures'[i] = closures[i]
        /\ closures'[n + 1] = round
    <3>1. closures \in Seq(1..round) /\ round \in 1..round /\ closures' = Append(closures, round)
      BY SMTT(30), <1>0, <1>2, GateStepsAssumption DEF RecordClosure, FilesInv
    <3> QED
      BY <2>4, <3>1, AppendProperties
  <2>6. \A i \in 1..n : closures[i] # round
    BY <2>2, <2>4 DEF ClosedThisRound
  <2>7. OneClosurePerRound'
    <3> SUFFICES ASSUME NEW i \in 1..(n + 1), NEW j \in 1..(n + 1), closures'[i] = closures'[j]
                 PROVE  i = j
      BY <2>5 DEF OneClosurePerRound
    <3>1. (i \in 1..n \/ i = n + 1) /\ (j \in 1..n \/ j = n + 1)
      BY <2>4
    <3>2. CASE i \in 1..n /\ j \in 1..n
      BY <1>0, <2>4, <2>5, <3>2 DEF FilesInv, OneClosurePerRound
    <3> QED
      BY <2>5, <2>6, <3>1, <3>2
  <2>8. FilesInv'
    BY <1>0, <1>2, <2>5, <2>7 DEF RecordClosure, FilesInv, EveryRoundDelivered
  <2>9. RoundsInv'
    BY <1>0, <1>2, RoundsKept DEF RecordClosure
  <2> QED
    BY <2>1, <2>3, <2>8, <2>9 DEF IInv, TypeOK, JobType, FilesInv, RoundsInv
<1> QED
  BY <1>1, <1>2

(* The writes of a reopen. *)
LEMMA ReopenWrites ==
    ASSUME IInv, RecordBoundary \/ ArchiveReport \/ ReopenCard
    PROVE  IInv'
<1>0. FilesInv /\ RoundsInv /\ job \in JobType /\ JobInv
  BY Parts
<1>1. RoundsInv'
  BY <1>0, RoundsKept DEF RecordBoundary, ArchiveReport, ReopenCard
<1>2. CASE RecordBoundary
  <2>1. /\ job.verb = "reopen" /\ Left = 3 /\ job' \in JobType /\ Left' = 2
        /\ Suffix(job.todo, Plan[job.verb])' /\ job'.verb = "reopen"
    BY <1>2, DoingFacts, WritesLeft DEF RecordBoundary
  <2>2. DeliveredThisRound /\ round < MaxRounds
    BY <1>0, <2>1 DEF JobInv
  <2>3. JobInv'
    BY <2>1 DEF JobInv
  <2>4. round \in 1..MaxRounds /\ round' = round + 1 /\ round' \in 1..MaxRounds
    BY <1>0, <1>2, <2>2, GateStepsAssumption DEF RecordBoundary, FilesInv
  <2>5. 1..round \subseteq 1..round' /\ 0..round \subseteq 0..round'
    BY <2>4, GateStepsAssumption
  <2>6. closures' \in Seq(1..round')
    <3>1. closures \in Seq(1..round) /\ closures' = closures
      BY <1>0, <1>2 DEF RecordBoundary, FilesInv
    <3> QED
      BY <2>5, <3>1, SeqMonotonic
  <2>7. EveryRoundDelivered'
    <3> SUFFICES ASSUME NEW q \in 1..(round' - 1)
                 PROVE  \E r \in DOMAIN returns : returns[r].round = q
      BY <1>2 DEF RecordBoundary, EveryRoundDelivered
    <3>1. q \in 1..(round - 1) \/ q = round
      BY <2>4, GateStepsAssumption
    <3> QED
      BY <1>0, <2>2, <3>1 DEF FilesInv, EveryRoundDelivered, DeliveredThisRound
  <2>8. report' \in 0..round'
    BY <1>0, <1>2, <2>5 DEF RecordBoundary, FilesInv
  <2>9. \A r \in DOMAIN returns' : returns'[r] \in [round : 1..round', report : 1..round']
    BY <1>0, <1>2, <2>5 DEF RecordBoundary, FilesInv
  <2>10. FilesInv'
    BY <1>0, <1>2, <2>4, <2>6, <2>7, <2>8, <2>9 DEF RecordBoundary, FilesInv, OneClosurePerRound
  <2> QED
    BY <1>1, <2>1, <2>3, <2>10 DEF IInv, TypeOK, JobType, FilesInv, RoundsInv
<1>3. CASE ArchiveReport
  <2>1. /\ job.verb = "reopen" /\ Left = 2 /\ job' \in JobType /\ Left' = 1
        /\ Suffix(job.todo, Plan[job.verb])' /\ job'.verb = "reopen"
    BY <1>3, DoingFacts, WritesLeft DEF ArchiveReport
  <2>2. JobInv'
    BY <2>1 DEF JobInv
  <2>3. report' \in 0..round
    BY <1>0, <1>3, GateStepsAssumption DEF ArchiveReport, FilesInv
  <2>4. FilesInv'
    BY <1>0, <1>3, <2>3 DEF ArchiveReport, FilesInv, EveryRoundDelivered, OneClosurePerRound
  <2> QED
    BY <1>1, <2>1, <2>2, <2>4 DEF IInv, TypeOK, JobType, FilesInv, RoundsInv
<1>4. CASE ReopenCard
  <2>1. /\ job.verb = "reopen" /\ Left = 1 /\ job' \in JobType /\ Left' = 0
        /\ Suffix(job.todo, Plan[job.verb])' /\ job'.verb = "reopen"
    BY <1>4, DoingFacts, WritesLeft DEF ReopenCard
  <2>2. JobInv'
    BY <2>1 DEF JobInv
  <2>3. FilesInv'
    BY ZenonT(60), <1>0, <1>4 DEF ReopenCard, FilesInv, EveryRoundDelivered, OneClosurePerRound, Places
  <2> QED
    BY <1>1, <2>1, <2>2, <2>3 DEF IInv, TypeOK, JobType, FilesInv, RoundsInv
<1> QED
  BY <1>2, <1>3, <1>4

(* A verb that is cut short leaves no job. *)
LEMMA StopStep ==
    ASSUME IInv, Stop
    PROVE  IInv'
<1>0. FilesInv /\ RoundsInv /\ job \in JobType /\ JobInv
  BY Parts
<1>1. job' \in JobType /\ JobInv'
  BY IdleInv DEF Stop
<1>2. RoundsInv'
  BY <1>0, RoundsKept DEF Stop
<1>3. /\ count' \in [returns : 0..MaxReturns, dispatches : 0..MaxDispatches,
                     reopens : 0..MaxReopens, stops : 0..MaxStops]
      /\ count'.returns = count.returns /\ count'.dispatches = count.dispatches
  <2>1. PICK n \in Nat : n = count.stops + 1 /\ n \in 0..MaxStops
    BY SMTT(30), <1>0, GateStepsAssumption DEF Stop, FilesInv
  <2>2. count' = [count EXCEPT !.stops = n]
    BY <2>1 DEF Stop
  <2> QED
    BY <1>0, <2>1, <2>2 DEF FilesInv
<1>4. cut' \subseteq Verbs
  BY <1>0 DEF Stop, FilesInv, JobType
<1>5. FilesInv'
  BY <1>0, <1>3, <1>4 DEF Stop, FilesInv, EveryRoundDelivered, OneClosurePerRound
<1> QED
  BY <1>1, <1>2, <1>5 DEF IInv, TypeOK, JobType, FilesInv, RoundsInv
-----------------------------------------------------------------------------
(* The verbs.  Planning one changes its job, and a count at most.          *)
Counts == [returns : 0..MaxReturns, dispatches : 0..MaxDispatches,
           reopens : 0..MaxReopens, stops : 0..MaxStops]

LEMMA CountFacts ==
    ASSUME NEW c \in Counts
    PROVE  /\ c.returns \in Nat /\ c.dispatches \in Nat /\ c.reopens \in Nat
           /\ \A n \in 0..MaxReturns : /\ [c EXCEPT !.returns = n] \in Counts
                                       /\ [c EXCEPT !.returns = n].returns = n
                                       /\ [c EXCEPT !.returns = n].dispatches = c.dispatches
           /\ \A n \in 0..MaxDispatches : /\ [c EXCEPT !.dispatches = n] \in Counts
                                          /\ [c EXCEPT !.dispatches = n].dispatches = n
                                          /\ [c EXCEPT !.dispatches = n].returns = c.returns
           /\ \A n \in 0..MaxReopens : /\ [c EXCEPT !.reopens = n] \in Counts
                                       /\ [c EXCEPT !.reopens = n].returns = c.returns
                                       /\ [c EXCEPT !.reopens = n].dispatches = c.dispatches
<1>1. c.returns \in Nat /\ c.dispatches \in Nat /\ c.reopens \in Nat
  BY GateStepsAssumption DEF Counts
<1> QED
  BY <1>1 DEF Counts

LEMMA Started ==
    ASSUME IInv, NEW verb \in Verbs, NEW todo \in Seq(AllSteps), Suffix(todo, Plan[verb]),
           NEW ret \in 0..MaxReturns, NEW audit \in 0..MaxAudits, NEW disp \in 0..MaxDispatches,
           NEW value \in {"PASS", "FAIL"}, Start(verb, todo, ret, audit, disp, value),
           count' \in Counts,
           count'.returns >= count.returns, count'.dispatches >= count.dispatches
    PROVE  /\ FilesInv' /\ RoundsInv' /\ job' \in JobType /\ Suffix(job.todo, Plan[job.verb])'
           /\ job'.verb = verb /\ job'.ret = ret /\ job'.audit = audit /\ job'.disp = disp
           /\ Left' = Len(todo)
           /\ Rounds' = Rounds
<1>0. FilesInv /\ RoundsInv /\ job \in JobType /\ JobInv
  BY Parts
<1>1. /\ job' = [verb |-> verb, todo |-> todo, ret |-> ret, audit |-> audit, disp |-> disp,
                 value |-> value]
      /\ UNCHANGED <<card, round, report, returns, audits, published, dispatched, handed,
                     verdicts, closures, cut>>
  BY DEF Start
<1>2. job' \in JobType /\ job'.todo = todo /\ job'.verb = verb
  BY <1>1 DEF JobType
<1>3. Suffix(job.todo, Plan[job.verb])' /\ Left' = Len(todo)
  BY <1>2 DEF Suffix, Left
<1>4. RoundsInv'
  BY <1>0, <1>1, RoundsKept
<1>5. 1..count.returns \subseteq 1..count'.returns /\ 1..count.dispatches \subseteq 1..count'.dispatches
  <2>1. PICK a \in Nat, b \in Nat, c \in Nat, d \in Nat :
           a = count.returns /\ b = count'.returns /\ c = count.dispatches /\ d = count'.dispatches
    BY <1>0, CountFacts DEF FilesInv, Counts
  <2> QED
    BY SMTT(30), <2>1
<1>6. FilesInv'
  BY <1>0, <1>1, <1>5 DEF FilesInv, Counts, EveryRoundDelivered, OneClosurePerRound
<1>7. Rounds' = Rounds
  BY <1>1, RoundsUnchanged
<1> QED
  BY <1>1, <1>2, <1>3, <1>4, <1>6, <1>7

LEMMA WholePlan == \A v \in Verbs : Plan[v] \in Seq(AllSteps) /\ Suffix(Plan[v], Plan[v])
<1> TAKE v \in Verbs
<1>1. PICK n \in Nat : n = Len(Plan[v])
  BY PlanLengths, LenProperties
<1>2. Suffix(Plan[v], Plan[v])
  BY <1>1 DEF Suffix
<1> QED
  BY <1>2, PlanLengths

LEMMA ReturnStart ==
    ASSUME IInv, FileReturn
    PROVE  IInv'
<1>0. FilesInv /\ RoundsInv /\ job \in JobType /\ JobInv
  BY Parts
<1>1. PICK n \in 0..MaxReturns : n = count.returns + 1
  BY SMTT(30), <1>0, GateStepsAssumption DEF FileReturn, FilesInv
<1>2. count' = [count EXCEPT !.returns = n] /\ Start("return", ReturnSteps, n, 0, 0, "FAIL")
  BY <1>1 DEF FileReturn
<1>3. /\ count' \in Counts
      /\ count'.returns = n /\ count'.dispatches = count.dispatches
      /\ count.returns \in Nat /\ count.dispatches \in Nat
  BY <1>0, <1>2, CountFacts DEF FilesInv, Counts
<1>4. count'.returns >= count.returns /\ count'.dispatches >= count.dispatches
  BY <1>1, <1>3
<1>5. "return" \in Verbs /\ ReturnSteps \in Seq(AllSteps) /\ Suffix(ReturnSteps, Plan["return"])
      /\ Len(ReturnSteps) = 6
  BY WholePlan, PlanFacts, PlanLengths DEF Verbs
<1>6. 0 \in 0..MaxAudits /\ 0 \in 0..MaxDispatches
  BY GateStepsAssumption
<1>7. /\ FilesInv' /\ RoundsInv' /\ job' \in JobType /\ Suffix(job.todo, Plan[job.verb])'
      /\ job'.verb = "return" /\ job'.ret = n /\ Left' = 6
  BY ZenonT(60), <1>1, <1>2, <1>3, <1>4, <1>5, <1>6, Started
<1>8. n \in 1..count'.returns /\ n \notin DOMAIN returns
  BY <1>0, <1>1, <1>3 DEF FilesInv
<1>9. report' # 0 /\ returns' = returns
  BY <1>2 DEF FileReturn, ReportFound, Start
<1>10. JobInv'
  BY <1>7, <1>8, <1>9 DEF JobInv
<1> QED
  BY <1>7, <1>10 DEF IInv, TypeOK, JobType, FilesInv, RoundsInv

LEMMA DispatchStart ==
    ASSUME IInv, NEW k \in 1..MaxAudits, AuditDispatch(k)
    PROVE  IInv'
<1>0. FilesInv /\ RoundsInv /\ job \in JobType /\ JobInv
  BY Parts
<1>1. PICK n \in 0..MaxDispatches : n = count.dispatches + 1
  BY SMTT(30), <1>0, GateStepsAssumption DEF AuditDispatch, FilesInv
<1>2. /\ count' = [count EXCEPT !.dispatches = n]
      /\ Start("dispatch", DispatchSteps, 0, k, n, "FAIL")
  BY <1>1 DEF AuditDispatch
<1>3. /\ count' \in Counts
      /\ count'.dispatches = n /\ count'.returns = count.returns
      /\ count.returns \in Nat /\ count.dispatches \in Nat
  BY <1>0, <1>2, CountFacts DEF FilesInv, Counts
<1>4. count'.returns >= count.returns /\ count'.dispatches >= count.dispatches
  BY <1>1, <1>3
<1>5. "dispatch" \in Verbs /\ DispatchSteps \in Seq(AllSteps) /\ Suffix(DispatchSteps, Plan["dispatch"])
      /\ Len(DispatchSteps) = 3
  BY WholePlan, PlanFacts, PlanLengths DEF Verbs
<1>6. 0 \in 0..MaxReturns /\ k \in 0..MaxAudits
  BY GateStepsAssumption
<1>7. /\ FilesInv' /\ RoundsInv' /\ job' \in JobType /\ Suffix(job.todo, Plan[job.verb])'
      /\ job'.verb = "dispatch" /\ job'.audit = k /\ job'.disp = n /\ Left' = 3 /\ Rounds' = Rounds
  <2>1. PICK todo \in Seq(AllSteps) : todo = DispatchSteps
    BY <1>5
  <2>2. Start("dispatch", todo, 0, k, n, "FAIL") /\ Suffix(todo, Plan["dispatch"]) /\ Len(todo) = 3
    BY <1>2, <1>5, <2>1
  <2>3. n \in 0..MaxDispatches /\ "FAIL" \in {"PASS", "FAIL"}
    BY <1>1
  <2>4. "dispatch" \in Verbs /\ 0 \in 0..MaxReturns /\ k \in 0..MaxAudits /\ count' \in Counts
    BY <1>3, <1>5, <1>6
  <2>5. /\ FilesInv' /\ RoundsInv' /\ job' \in JobType /\ Suffix(job.todo, Plan[job.verb])'
        /\ job'.verb = "dispatch" /\ job'.audit = k /\ job'.disp = n
        /\ Left' = Len(todo) /\ Rounds' = Rounds
    BY <1>4, <2>1, <2>2, <2>3, <2>4, Started
  <2> QED
    BY <2>2, <2>5
<1>8. PICK c \in 0..MaxAudits : c = Current /\ Rounds = 1..c
  BY <1>0, CurrentType DEF RoundsInv
<1>9. k - 1 \in Rounds \cup {0}
  <2>1. k <= c + 1
    BY <1>8 DEF AuditDispatch
  <2> QED
    BY <1>8, <2>1, GateStepsAssumption
<1>11. Recorded(card.ret)'
  BY <1>2 DEF AuditDispatch, DispatchReleased, Recorded, Start
<1>10. n \in 1..count'.dispatches
  BY <1>1, <1>3
<1>12. JobInv'
  BY <1>7, <1>9, <1>10, <1>11 DEF JobInv
<1> QED
  BY <1>7, <1>12 DEF IInv, TypeOK, JobType, FilesInv, RoundsInv

LEMMA VerdictStart ==
    ASSUME IInv, NEW k \in 1..MaxAudits, NEW value \in {"PASS", "FAIL"}, AuditVerdict(k, value)
    PROVE  IInv'
<1>0. FilesInv /\ RoundsInv /\ job \in JobType /\ JobInv
  BY Parts
<1>1. Start("verdict", VerdictSteps, 0, k, 0, value) /\ count' = count
  BY DEF AuditVerdict
<1>2. /\ count' \in Counts
      /\ count'.returns >= count.returns /\ count'.dispatches >= count.dispatches
  BY <1>0, <1>1, CountFacts DEF FilesInv, Counts
<1>3. "verdict" \in Verbs /\ VerdictSteps \in Seq(AllSteps) /\ Suffix(VerdictSteps, Plan["verdict"])
  BY WholePlan, PlanFacts, PlanLengths DEF Verbs
<1>4. 0 \in 0..MaxReturns /\ 0 \in 0..MaxDispatches /\ k \in 0..MaxAudits
  BY GateStepsAssumption
<1>5. /\ FilesInv' /\ RoundsInv' /\ job' \in JobType /\ Suffix(job.todo, Plan[job.verb])'
      /\ job'.verb = "verdict" /\ job'.audit = k /\ Rounds' = Rounds
  BY <1>1, <1>2, <1>3, <1>4, Started
<1>6. k \in Rounds
  BY DEF AuditVerdict, VerdictReleased, SoleCopy, Rounds, Exists
<1>7. JobInv'
  BY <1>5, <1>6 DEF JobInv
<1> QED
  BY <1>5, <1>7 DEF IInv, TypeOK, JobType, FilesInv, RoundsInv

LEMMA CloseStart ==
    ASSUME IInv, Close
    PROVE  IInv'
<1>0. FilesInv /\ RoundsInv /\ job \in JobType /\ JobInv
  BY Parts
<1>1. Start("close", CloseSteps, 0, 1, 0, "FAIL") /\ count' = count
  BY DEF Close
<1>2. /\ count' \in Counts
      /\ count'.returns >= count.returns /\ count'.dispatches >= count.dispatches
  BY <1>0, <1>1, CountFacts DEF FilesInv, Counts
<1>3. "close" \in Verbs /\ CloseSteps \in Seq(AllSteps) /\ Suffix(CloseSteps, Plan["close"])
  BY WholePlan, PlanFacts, PlanLengths DEF Verbs
<1>4. 0 \in 0..MaxReturns /\ 0 \in 0..MaxDispatches /\ 1 \in 0..MaxAudits
  BY GateStepsAssumption
<1>5. /\ FilesInv' /\ RoundsInv' /\ job' \in JobType /\ Suffix(job.todo, Plan[job.verb])'
      /\ job'.verb = "close" /\ job'.audit = 1
  BY <1>1, <1>2, <1>3, <1>4, Started
<1>6. ~ClosedThisRound'
  BY <1>1 DEF Close, Start, ClosedThisRound
<1>7. JobInv'
  BY <1>5, <1>6 DEF JobInv
<1> QED
  BY <1>5, <1>7 DEF IInv, TypeOK, JobType, FilesInv, RoundsInv

LEMMA ReopenStart ==
    ASSUME IInv, Reopen
    PROVE  IInv'
<1>0. FilesInv /\ RoundsInv /\ job \in JobType /\ JobInv
  BY Parts
<1>1. PICK todo : todo = IF DeliveredThisRound THEN BoundarySteps ELSE <<"reopen">>
  OBVIOUS
<1>2. PICK n \in 0..MaxReopens : n = count.reopens + 1
  BY SMTT(30), <1>0, GateStepsAssumption DEF Reopen, FilesInv
<1>3. Start("reopen", todo, 0, 0, 0, "FAIL") /\ count' = [count EXCEPT !.reopens = n]
  BY <1>1, <1>2 DEF Reopen
<1>4. /\ count' \in Counts
      /\ count'.returns = count.returns /\ count'.dispatches = count.dispatches
      /\ count.returns \in Nat /\ count.dispatches \in Nat
  BY <1>0, <1>3, CountFacts DEF FilesInv, Counts
<1>5. count'.returns >= count.returns /\ count'.dispatches >= count.dispatches
  BY <1>4
<1>6. /\ "reopen" \in Verbs /\ todo \in Seq(AllSteps) /\ Suffix(todo, Plan["reopen"])
      /\ Len(todo) = 3 => DeliveredThisRound
  <2>1. CASE DeliveredThisRound
    BY <1>1, <2>1, WholePlan, PlanFacts, PlanLengths DEF Verbs
  <2>2. CASE ~DeliveredThisRound
    <3>1. todo = <<"reopen">>
      BY <1>1, <2>2
    <3>2. todo \in Seq(AllSteps) /\ Len(todo) = 1 /\ todo[1] = "reopen"
      BY <3>1 DEF AllSteps
    <3>3. Len(BoundarySteps) = 3 /\ BoundarySteps[3] = "reopen"
      BY DEF BoundarySteps
    <3>4. Suffix(todo, Plan["reopen"])
      <4>1. PICK b : b = BoundarySteps /\ Len(b) = 3 /\ b[3] = "reopen"
        BY <3>3
      <4>2. Suffix(todo, b)
        BY <3>2, <4>1 DEF Suffix
      <4> QED
        BY <4>1, <4>2, PlanFacts
    <3> QED
      BY <2>2, <3>2, <3>4 DEF Verbs
  <2> QED
    BY <2>1, <2>2
<1>7. 0 \in 0..MaxReturns /\ 0 \in 0..MaxDispatches /\ 0 \in 0..MaxAudits
  BY GateStepsAssumption
<1>8. /\ FilesInv' /\ RoundsInv' /\ job' \in JobType /\ Suffix(job.todo, Plan[job.verb])'
      /\ job'.verb = "reopen" /\ Left' = Len(todo)
  BY <1>3, <1>4, <1>5, <1>6, <1>7, Started
<1>9. (Left = 3 => DeliveredThisRound /\ round < MaxRounds)'
  BY <1>3, <1>6, <1>8 DEF Reopen, Start, DeliveredThisRound
<1>10. JobInv'
  BY <1>8, <1>9 DEF JobInv
<1> QED
  BY <1>8, <1>10 DEF IInv, TypeOK, JobType, FilesInv, RoundsInv
-----------------------------------------------------------------------------
(* What happens between the verbs. *)
LEMMA AtRestInv ==
    ASSUME IInv, AtRest, UNCHANGED job
    PROVE  job' \in JobType /\ JobInv'
<1>0. job \in JobType /\ JobInv
  BY Parts
<1>1. Left = 0
  BY DEF AtRest, Left
<1>2. job' = job /\ Left' = 0 /\ Suffix(job.todo, Plan[job.verb])'
  BY <1>0, <1>1 DEF JobInv, Left, Suffix
<1> QED
  BY <1>0, <1>2 DEF JobInv

LEMMA CardSteps ==
    ASSUME IInv, Claim \/ Block \/ WriteReport
    PROVE  IInv'
<1>0. FilesInv /\ RoundsInv
  BY Parts
<1>1. job' \in JobType /\ JobInv'
  BY AtRestInv DEF Claim, Block, MoveCard, WriteReport
<1>2. RoundsInv'
  BY <1>0, RoundsKept DEF Claim, Block, MoveCard, WriteReport
<1>3. CASE Claim \/ Block
  <2>1. PICK to \in Places : card' = [card EXCEPT !.place = to]
    BY <1>3 DEF Claim, Block, MoveCard, Places
  <2>2. FilesInv'
    BY <1>0, <1>3, <2>1 DEF Claim, Block, MoveCard, FilesInv, EveryRoundDelivered, OneClosurePerRound
  <2> QED
    BY <1>1, <1>2, <2>2 DEF IInv, TypeOK, JobType, FilesInv, RoundsInv
<1>4. CASE WriteReport
  <2>1. report' \in 0..round
    BY SMTT(30), <1>0, <1>4, GateStepsAssumption DEF WriteReport, FilesInv
  <2>2. FilesInv'
    BY <1>0, <1>4, <2>1 DEF WriteReport, FilesInv, EveryRoundDelivered, OneClosurePerRound
  <2> QED
    BY <1>1, <1>2, <2>2 DEF IInv, TypeOK, JobType, FilesInv, RoundsInv
<1> QED
  BY <1>3, <1>4

LEMMA AuditSteps ==
    ASSUME IInv, NEW k \in 1..MaxAudits, ClaimAudit(k) \/ WithdrawAudit(k)
    PROVE  IInv'
<1>0. FilesInv /\ RoundsInv
  BY Parts
<1>1. job' \in JobType /\ JobInv'
  BY AtRestInv DEF ClaimAudit, WithdrawAudit, MoveAudit
<1>2. UNCHANGED <<card, round, report, returns, published, dispatched, handed, verdicts,
                  closures, count, cut>>
  BY DEF ClaimAudit, WithdrawAudit, MoveAudit
<1>3. FilesInv'
  BY <1>0, <1>2, FilesKept
<1>4. PICK to \in {"claimed", "withdrawn"} : audits' = [audits EXCEPT ![k].at = {to}]
  BY DEF ClaimAudit, WithdrawAudit, MoveAudit
<1>5. Exists(k)
  BY DEF ClaimAudit, WithdrawAudit, MoveAudit, SoleCopy, Exists
<1>6. PICK A : A = {to}
  OBVIOUS
<1>7. A \in {audits[k].at} \cup (IF Exists(k) THEN {{"claimed"}, {"completed"}, {"withdrawn"}} ELSE {})
  BY <1>5, <1>6
<1>8. audits' = [audits EXCEPT ![k].at = A]
  BY <1>4, <1>6
<1>9. RoundsInv'
  BY <1>0, <1>2, <1>7, <1>8, AuditMoved
<1> QED
  BY <1>1, <1>3, <1>9 DEF IInv, TypeOK, JobType, FilesInv, RoundsInv
-----------------------------------------------------------------------------
LEMMA InvStep == IInv /\ [Next]_vars => IInv'
<1> SUFFICES ASSUME IInv, [Next]_vars PROVE IInv'
  OBVIOUS
<1>1. CASE MarkReturned \/ RecordReturn \/ RecordDerivation
  BY <1>1, ReturnWrites
<1>2. CASE DeriveCard
  BY <1>2, DeriveWrites
<1>3. CASE LinkAudit
  BY <1>3, LinkWrites
<1>4. CASE DispatchCard \/ RecordDispatch
  BY <1>4, DispatchWrites
<1>5. CASE MarkJudged \/ RecordVerdict \/ CloseAudit
  BY <1>5, VerdictWrites
<1>6. CASE CompleteCard \/ RecordClosure
  BY <1>6, CloseWrites
<1>7. CASE RecordBoundary \/ ArchiveReport \/ ReopenCard
  BY <1>7, ReopenWrites
<1>8. CASE Stop
  BY <1>8, StopStep
<1>9. CASE FileReturn
  BY <1>9, ReturnStart
<1>10. CASE Close
  BY <1>10, CloseStart
<1>11. CASE Reopen
  BY <1>11, ReopenStart
<1>12. CASE Claim \/ Block \/ WriteReport
  BY <1>12, CardSteps
<1>13. ASSUME NEW k \in 1..MaxAudits, AuditDispatch(k)
       PROVE  IInv'
  BY <1>13, DispatchStart
<1>14. ASSUME NEW k \in 1..MaxAudits, ClaimAudit(k) \/ WithdrawAudit(k)
       PROVE  IInv'
  BY <1>14, AuditSteps
<1>15. ASSUME NEW k \in 1..MaxAudits, NEW value \in {"PASS", "FAIL"}, AuditVerdict(k, value)
       PROVE  IInv'
  BY <1>15, VerdictStart
<1>16. CASE UNCHANGED vars
  <2>1. FilesInv /\ RoundsInv /\ job \in JobType /\ JobInv
    BY Parts
  <2>2. FilesInv'
    BY <1>16, <2>1, FilesKept DEF vars
  <2>3. RoundsInv'
    BY <1>16, <2>1, RoundsKept DEF vars
  <2>4. job' \in JobType /\ JobInv'
    BY <1>16, <2>1 DEF vars, JobInv, Suffix, Left, Rounds, Exists, Recorded, ClosedThisRound,
                       DeliveredThisRound
  <2> QED
    BY <2>2, <2>3, <2>4 DEF IInv, TypeOK, JobType, FilesInv, RoundsInv
<1> QED
  BY <1>1, <1>2, <1>3, <1>4, <1>5, <1>6, <1>7, <1>8, <1>9, <1>10, <1>11, <1>12, <1>13, <1>14,
     <1>15, <1>16 DEF Next

LEMMA Invariance == Spec => []IInv
<1>1. Init => IInv
  BY InitInv
<1>2. IInv /\ [Next]_vars => IInv'
  BY InvStep
<1> QED
  BY <1>1, <1>2, PTL DEF Spec
-----------------------------------------------------------------------------
(* The files keep their types: the audit rounds have no gap, and every     *)
(* record is about a round and a return that were planned.                 *)
THEOREM TypeCorrect == Spec => []TypeOK
<1>1. IInv => TypeOK
  BY DEF IInv
<1> QED
  BY <1>1, Invariance, PTL

(* Wherever verbs are cut short, a boundary closes off a round that was    *)
(* delivered (queue_mutation, reopen).                                     *)
THEOREM RoundsAreDelivered == Spec => []EveryRoundDelivered
<1>1. IInv => EveryRoundDelivered
  BY DEF IInv
<1> QED
  BY <1>1, Invariance, PTL

(* No round gets a second closure record, also when a closure is cut short *)
(* and the completed card is reopened (board_adapter, close).              *)
THEOREM ClosedOnce == Spec => []OneClosurePerRound
<1>1. IInv => OneClosurePerRound
  BY DEF IInv
<1> QED
  BY <1>1, Invariance, PTL

(* Every audit card, derived or made by hand, and so every verdict, is     *)
(* about a return that has its record (board_adapter, return, dispatch).   *)
THEOREM ReviewsAreOfRecords == Spec => []ReviewedReturnExists
<1>1. IInv => ReviewedReturnExists
  BY DEF IInv
<1> QED
  BY <1>1, Invariance, PTL

(* The audit card a return derives has one copy, however returns and       *)
(* dispatches are repeated or cut short.                                   *)
THEOREM OneCopyPerDerivation == Spec => []DerivedCardOnce
<1>1. IInv => DerivedCardOnce
  BY DEF IInv
<1> QED
  BY <1>1, Invariance, PTL
-----------------------------------------------------------------------------
(* While no reopen has been cut short, a report at the return location is  *)
(* of this round, except between the boundary and the archiving.           *)
NowFresh ==
    "reopen" \notin cut =>
      /\ \A r \in DOMAIN returns : returns[r].report = returns[r].round
      /\ report # 0 /\ ~(job.verb = "reopen" /\ Left = 2) => report = round

LEMMA FreshStep == IInv /\ NowFresh /\ [Next]_vars => NowFresh'
<1> SUFFICES ASSUME IInv, NowFresh, [Next]_vars, "reopen" \notin cut'
             PROVE  /\ \A r \in DOMAIN returns' : returns'[r].report = returns'[r].round
                    /\ (report # 0 /\ ~(job.verb = "reopen" /\ Left = 2) => report = round)'
  BY DEF NowFresh
<1>0. /\ "reopen" \notin cut
      /\ \A r \in DOMAIN returns : returns[r].report = returns[r].round
      /\ report # 0 /\ ~(job.verb = "reopen" /\ Left = 2) => report = round
  <2>1. cut \subseteq cut'
    BY DEF Next, MarkReturned, RecordReturn, DeriveCard, RecordDerivation, LinkAudit, DispatchCard,
           RecordDispatch, MarkJudged, RecordVerdict, CloseAudit, CompleteCard, RecordClosure,
           RecordBoundary, ArchiveReport, ReopenCard, Stop, FileReturn, Close, Reopen, Claim, Block,
           MoveCard, WriteReport, AuditDispatch, ClaimAudit, WithdrawAudit, MoveAudit, AuditVerdict,
           Start, vars
  <2> QED
    BY <2>1 DEF NowFresh
<1>1. CASE RecordReturn
  <2>1. job.verb = "return" /\ Left = 5
    BY <1>1, DoingFacts, WritesLeft DEF RecordReturn
  <2>2. report # 0
    BY <2>1 DEF IInv, JobInv
  <2>3. report = round
    BY <1>0, <2>1, <2>2
  <2> QED
    BY <1>0, <1>1, <2>3 DEF RecordReturn
<1>2. CASE RecordBoundary
  <2>1. job.verb = "reopen" /\ job'.verb = "reopen" /\ Left' = 2
    BY <1>2, DoingFacts, WritesLeft DEF RecordBoundary
  <2> QED
    BY <1>0, <1>2, <2>1 DEF RecordBoundary
<1>3. CASE ArchiveReport
  BY <1>0, <1>3 DEF ArchiveReport
<1>4. CASE ReopenCard
  <2>1. Left = 1
    BY <1>4, DoingFacts, WritesLeft DEF ReopenCard
  <2> QED
    BY <1>0, <1>4, <2>1 DEF ReopenCard
<1>5. CASE Stop
  <2>1. job.verb # "reopen"
    BY <1>5 DEF Stop
  <2> QED
    BY <1>0, <1>5, <2>1 DEF Stop
<1>6. CASE WriteReport
  BY <1>0, <1>6 DEF WriteReport
<1>7. CASE AtRest /\ UNCHANGED <<round, report, returns>>
  <2>1. Left = 0
    BY <1>7 DEF AtRest, Left
  <2> QED
    BY <1>0, <1>7, <2>1
<1>8. CASE job.verb # "reopen" /\ UNCHANGED <<round, report, returns>>
  BY <1>0, <1>8
<1>9. CASE UNCHANGED vars
  BY <1>0, <1>9 DEF vars, Left
<1>10. ASSUME NEW k \in 1..MaxAudits, NEW value \in {"PASS", "FAIL"},
              AuditDispatch(k) \/ ClaimAudit(k) \/ WithdrawAudit(k) \/ AuditVerdict(k, value)
       PROVE  AtRest /\ UNCHANGED <<round, report, returns>>
  BY <1>10 DEF AuditDispatch, ClaimAudit, WithdrawAudit, MoveAudit, AuditVerdict, Start
<1>11. ASSUME FileReturn \/ Close \/ Reopen \/ Claim \/ Block
       PROVE  AtRest /\ UNCHANGED <<round, report, returns>>
  BY <1>11 DEF FileReturn, Close, Reopen, Claim, Block, MoveCard, Start
<1>12. ASSUME \/ MarkReturned \/ DeriveCard \/ RecordDerivation \/ LinkAudit \/ DispatchCard
              \/ RecordDispatch \/ MarkJudged \/ RecordVerdict \/ CloseAudit \/ CompleteCard
              \/ RecordClosure
       PROVE  job.verb # "reopen" /\ UNCHANGED <<round, report, returns>>
  BY <1>12 DEF MarkReturned, DeriveCard, RecordDerivation, LinkAudit, DispatchCard,
               RecordDispatch, MarkJudged, RecordVerdict, CloseAudit, CompleteCard, RecordClosure, Doing
<1> QED
  BY <1>1, <1>2, <1>3, <1>4, <1>5, <1>6, <1>7, <1>8, <1>9, <1>10, <1>11, <1>12 DEF Next

(* The report that an earlier round left at its place is never delivered   *)
(* again, while no reopen has been cut short after its boundary            *)
(* (queue_mutation, reopen; schema/transitions.schema.json).               *)
THEOREM ReportsAreFresh == Spec => []FreshReport
<1>1. Init => NowFresh
  BY DEF Init, NowFresh
<1>2. IInv /\ NowFresh /\ [Next]_vars => NowFresh'
  BY FreshStep
<1>3. NowFresh => FreshReport
  BY DEF NowFresh, FreshReport
<1> QED
  BY <1>1, <1>2, <1>3, Invariance, PTL DEF Spec
-----------------------------------------------------------------------------
(* While no dispatch has been cut short, the audit card that the card      *)
(* links exists, or is the next write of the dispatch in execution.        *)
LinkFound ==
    "dispatch" \notin cut /\ card.link # 0 =>
       \/ card.link \in Rounds
       \/ job.verb = "dispatch" /\ Left = 2 /\ card.link = job.audit

LEMMA LinkStep == IInv /\ LinkFound /\ [Next]_vars => LinkFound'
<1> SUFFICES ASSUME IInv, LinkFound, [Next]_vars, "dispatch" \notin cut', card'.link # 0
             PROVE  \/ card'.link \in Rounds'
                    \/ job'.verb = "dispatch" /\ Left' = 2 /\ card'.link = job'.audit
  BY DEF LinkFound
<1>1. "dispatch" \notin cut
  <2>1. cut \subseteq cut'
    BY DEF Next, MarkReturned, RecordReturn, DeriveCard, RecordDerivation, LinkAudit, DispatchCard,
           RecordDispatch, MarkJudged, RecordVerdict, CloseAudit, CompleteCard, RecordClosure,
           RecordBoundary, ArchiveReport, ReopenCard, Stop, FileReturn, Close, Reopen, Claim, Block,
           MoveCard, WriteReport, AuditDispatch, ClaimAudit, WithdrawAudit, MoveAudit, AuditVerdict,
           Start, vars
  <2> QED
    BY <2>1
<1>2. FilesInv /\ RoundsInv /\ job \in JobType /\ JobInv
  BY Parts
<1>3. CASE LinkAudit
  <2>1. /\ job.verb \in {"return", "dispatch"} /\ Left' = Left - 1 /\ job'.verb = job.verb
        /\ job'.audit = job.audit
    BY <1>3, DoingFacts DEF LinkAudit
  <2>2. Left = IF job.verb = "return" THEN 1 ELSE 3
    BY <1>3, <2>1, WritesLeft DEF LinkAudit
  <2>3. card'.link = job.audit /\ Rounds' = Rounds
    BY <1>2, <1>3, RoundsUnchanged DEF LinkAudit, FilesInv
  <2>4. CASE job.verb = "return"
    BY <1>2, <2>2, <2>3, <2>4 DEF JobInv
  <2>5. CASE job.verb = "dispatch"
    BY <2>1, <2>2, <2>3, <2>5
  <2> QED
    BY <2>1, <2>4, <2>5
<1>4. ASSUME ~LinkAudit PROVE card'.link = card.link
  BY <1>2, <1>4 DEF FilesInv, Next, MarkReturned, RecordReturn, DeriveCard, RecordDerivation, DispatchCard,
           RecordDispatch, MarkJudged, RecordVerdict, CloseAudit, CompleteCard, RecordClosure,
           RecordBoundary, ArchiveReport, ReopenCard, Stop, FileReturn, Close, Reopen, Claim, Block,
           MoveCard, WriteReport, AuditDispatch, ClaimAudit, WithdrawAudit, MoveAudit, AuditVerdict,
           Start, vars
<1>5. Rounds \subseteq Rounds'
  <2>1. \A k \in 1..MaxAudits : audits[k].at # {} => audits'[k].at # {}
    <3> SUFFICES ASSUME NEW k \in 1..MaxAudits, audits[k].at # {} PROVE audits'[k].at # {}
      OBVIOUS
    <3>1. audits \in [1..MaxAudits -> [at : SUBSET Places, by : {"return", "dispatch"},
                                       ret : 0..MaxReturns, disp : 0..MaxDispatches]]
      BY <1>2 DEF RoundsInv
    <3>2. CASE DeriveCard
      <4>1. PICK stale \in SUBSET {"verdict", "return"} :
               \/ UNCHANGED audits
               \/ audits' = [audits EXCEPT ![DerivedRound(stale)] =
                               [at |-> @.at \cup {"pending"}, by |-> "return", ret |-> job.ret, disp |-> 0]]
        BY <3>2 DEF DeriveCard
      <4>2. PICK j, rec : /\ j = DerivedRound(stale)
                          /\ rec = [at |-> audits[j].at \cup {"pending"}, by |-> "return",
                                    ret |-> job.ret, disp |-> 0]
        OBVIOUS
      <4>3. rec.at # {} /\ (UNCHANGED audits \/ audits' = [audits EXCEPT ![j] = rec])
        BY <4>1, <4>2
      <4> QED
        BY <3>1, <4>3
    <3>3. CASE DispatchCard
      BY <3>1, <3>3 DEF DispatchCard
    <3>4. CASE CloseAudit
      BY <3>1, <3>4 DEF CloseAudit
    <3>5. ASSUME NEW j \in 1..MaxAudits, ClaimAudit(j) \/ WithdrawAudit(j) PROVE audits'[k].at # {}
      <4>1. PICK to \in {"claimed", "withdrawn"} : audits' = [audits EXCEPT ![j].at = {to}]
        BY <3>5 DEF ClaimAudit, WithdrawAudit, MoveAudit
      <4> QED
        BY <3>1, <4>1
    <3>6. ASSUME \/ MarkReturned \/ RecordReturn \/ RecordDerivation \/ LinkAudit \/ RecordDispatch
                 \/ MarkJudged \/ RecordVerdict \/ CompleteCard \/ RecordClosure \/ RecordBoundary
                 \/ ArchiveReport \/ ReopenCard \/ Stop \/ FileReturn \/ Close \/ Reopen \/ Claim
                 \/ Block \/ WriteReport \/ UNCHANGED vars
          PROVE  UNCHANGED audits
      BY <3>6 DEF MarkReturned, RecordReturn, RecordDerivation, LinkAudit, RecordDispatch, MarkJudged,
           RecordVerdict, CompleteCard, RecordClosure, RecordBoundary, ArchiveReport, ReopenCard, Stop,
           FileReturn, Close, Reopen, Claim, Block, MoveCard, WriteReport, Start, vars
    <3>7. ASSUME NEW j \in 1..MaxAudits, NEW value \in {"PASS", "FAIL"},
                 AuditDispatch(j) \/ AuditVerdict(j, value)
          PROVE  UNCHANGED audits
      BY <3>7 DEF AuditDispatch, AuditVerdict, Start
    <3> QED
      BY <3>2, <3>3, <3>4, <3>5, <3>6, <3>7 DEF Next
  <2> QED
    BY <2>1 DEF Rounds, Exists
<1>6. CASE ~LinkAudit /\ card.link \in Rounds
  BY <1>4, <1>5, <1>6
<1>7. CASE ~LinkAudit /\ card.link \notin Rounds
  <2>1. card'.link = card.link /\ job.verb = "dispatch" /\ Left = 2 /\ card.link = job.audit
    BY <1>1, <1>4, <1>7 DEF LinkFound
  <2>2. CASE DispatchCard
    <3>1. job.audit \in 1..MaxAudits
      BY <1>2, <2>1 DEF JobInv
    <3>2. audits'[job.audit].at # {}
      BY <1>2, <2>2, <3>1 DEF DispatchCard, RoundsInv
    <3> QED
      BY <2>1, <3>1, <3>2 DEF Rounds, Exists
  <2>3. CASE UNCHANGED vars
    BY <2>1, <2>3 DEF vars, Left
  <2>4. ~RecordDispatch
    BY <2>1, DoingFacts, WritesLeft DEF RecordDispatch
  <2>5. ~Stop
    BY <2>1 DEF Stop
  <2>6. ~AtRest
    <3>1. AtRest => Left = 0
      BY DEF AtRest, Left
    <3> QED
      BY <2>1, <3>1
  <2> QED
    BY <1>7, <2>1, <2>2, <2>3, <2>4, <2>5, <2>6
       DEF Next, MarkReturned, RecordReturn, DeriveCard, RecordDerivation, MarkJudged, RecordVerdict,
           CloseAudit, CompleteCard, RecordClosure, RecordBoundary, ArchiveReport, ReopenCard, Doing,
           FileReturn, Close, Reopen, Claim, Block, MoveCard, WriteReport, AuditDispatch, ClaimAudit,
           WithdrawAudit, MoveAudit, AuditVerdict, Start
<1> QED
  BY <1>3, <1>6, <1>7

(* A card that is marked as passed has a verdict, or is about to get one;  *)
(* otherwise a verdict was cut short.                                      *)
MarkFound ==
    card.passed /\ verdicts = <<>> =>
       \/ "verdict" \in cut
       \/ job.verb = "verdict" /\ Left = 2

LEMMA MarkStep == IInv /\ MarkFound /\ [Next]_vars => MarkFound'
<1> SUFFICES ASSUME IInv, MarkFound, [Next]_vars, card'.passed, verdicts' = <<>>, "verdict" \notin cut'
             PROVE  job'.verb = "verdict" /\ Left' = 2
  BY DEF MarkFound
<1>1. cut \subseteq cut'
  BY DEF Next, MarkReturned, RecordReturn, DeriveCard, RecordDerivation, LinkAudit, DispatchCard,
         RecordDispatch, MarkJudged, RecordVerdict, CloseAudit, CompleteCard, RecordClosure,
         RecordBoundary, ArchiveReport, ReopenCard, Stop, FileReturn, Close, Reopen, Claim, Block,
         MoveCard, WriteReport, AuditDispatch, ClaimAudit, WithdrawAudit, MoveAudit, AuditVerdict,
         Start, vars
<1>2. FilesInv /\ RoundsInv /\ job \in JobType /\ JobInv
  BY Parts
<1>3. CASE MarkJudged
  BY <1>3, DoingFacts, WritesLeft DEF MarkJudged
<1>4. ~RecordVerdict
  <2>1. ASSUME RecordVerdict PROVE FALSE
    <3>1. /\ verdicts' = Append(verdicts, [audit |-> job.audit, value |-> job.value])
          /\ job.verb = "verdict" /\ Left = 2
      BY <2>1, DoingFacts, WritesLeft DEF RecordVerdict
    <3>2. verdicts \in Seq([audit : Rounds, value : {"PASS", "FAIL"}])
      BY <1>2 DEF RoundsInv
    <3>3. job.audit \in Rounds /\ job.value \in {"PASS", "FAIL"}
      BY <1>2, <3>1 DEF JobInv, JobType
    <3>4. PICK v \in [audit : Rounds, value : {"PASS", "FAIL"}] : verdicts' = Append(verdicts, v)
      BY <3>1, <3>3
    <3>5. verdicts' # <<>>
      BY <3>2, <3>4, AppendProperties
    <3> QED
      BY <3>5
  <2> QED
    BY <2>1
<1>5. ASSUME ~MarkJudged PROVE card'.passed = card.passed /\ verdicts' = verdicts
  BY <1>2, <1>4, <1>5 DEF FilesInv, Next, MarkReturned, RecordReturn, DeriveCard, RecordDerivation,
         LinkAudit, DispatchCard, RecordDispatch, CloseAudit, CompleteCard, RecordClosure,
         RecordBoundary, ArchiveReport, ReopenCard, Stop, FileReturn, Close, Reopen, Claim, Block,
         MoveCard, WriteReport, AuditDispatch, ClaimAudit, WithdrawAudit, MoveAudit, AuditVerdict,
         Start, vars
<1>6. CASE ~MarkJudged
  <2>1. job.verb = "verdict" /\ Left = 2
    BY <1>1, <1>5, <1>6 DEF MarkFound
  <2>2. ~Stop
    BY <2>1 DEF Stop
  <2>3. ~AtRest
    <3>1. AtRest => Left = 0
      BY DEF AtRest, Left
    <3> QED
      BY <2>1, <3>1
  <2>4. ~CloseAudit
    BY <2>1, DoingFacts, WritesLeft DEF CloseAudit
  <2>5. CASE UNCHANGED vars
    BY <2>1, <2>5 DEF vars, Left
  <2> QED
    BY <1>4, <1>6, <2>1, <2>2, <2>3, <2>4, <2>5
       DEF Next, MarkReturned, RecordReturn, DeriveCard, RecordDerivation, LinkAudit, DispatchCard,
           RecordDispatch, CompleteCard, RecordClosure, RecordBoundary, ArchiveReport, ReopenCard,
           Doing, FileReturn, Close, Reopen, Claim, Block, MoveCard, WriteReport, AuditDispatch,
           ClaimAudit, WithdrawAudit, MoveAudit, AuditVerdict, Start
<1> QED
  BY <1>3, <1>6

(* A set with exactly one member, if it has one and is finite. *)
LEMMA OneMember ==
    ASSUME NEW S, S \subseteq {"pending", "claimed", "completed", "withdrawn"}, S # {},
           ~(Cardinality(S) > 1)
    PROVE  \E d : S = {d}
<1>1. IsFiniteSet({"pending", "claimed", "completed", "withdrawn"})
  <2>1. /\ IsFiniteSet({"pending"}) /\ IsFiniteSet({"claimed"})
        /\ IsFiniteSet({"completed"}) /\ IsFiniteSet({"withdrawn"})
    BY FS_Singleton
  <2>2. IsFiniteSet({"pending"} \cup {"claimed"}) /\ IsFiniteSet({"completed"} \cup {"withdrawn"})
    BY <2>1, FS_Union
  <2>3. IsFiniteSet(({"pending"} \cup {"claimed"}) \cup ({"completed"} \cup {"withdrawn"}))
    BY <2>2, FS_Union
  <2>4. {"pending", "claimed", "completed", "withdrawn"}
           = ({"pending"} \cup {"claimed"}) \cup ({"completed"} \cup {"withdrawn"})
    OBVIOUS
  <2> QED
    BY <2>3, <2>4
<1>2. IsFiniteSet(S)
  BY <1>1, FS_Subset
<1>3. Cardinality(S) \in Nat /\ Cardinality(S) # 0
  BY <1>2, FS_CardinalityType, FS_EmptySet
<1>4. Cardinality(S) = 1
  BY <1>3
<1> QED
  BY <1>2, <1>4, FS_Singleton

(* The audit of a delivered card comes to a standstill only by a dispatch  *)
(* or a verdict that was cut short, or by a dispatch of a card that was    *)
(* there already (board_adapter, audit dispatch and verdict).              *)
THEOREM StandstillsHaveCauses == Spec => []StandstillHasCause
<1>1. Init => LinkFound /\ MarkFound
  BY DEF Init, LinkFound, MarkFound
<1>2. IInv /\ LinkFound /\ MarkFound /\ [Next]_vars => LinkFound' /\ MarkFound'
  BY LinkStep, MarkStep
<1>3. IInv /\ LinkFound /\ MarkFound => StandstillHasCause
  <2> SUFFICES ASSUME IInv, LinkFound, MarkFound, AtRest, card.place = "claimed", card.ready,
                      Recorded(card.ret), ~CanGoOn,
                      ~("dispatch" \in cut /\ card.link \notin Rounds),
                      ~("verdict" \in cut /\ card.passed /\ verdicts = <<>>)
               PROVE  Cardinality(audits[card.link].at) > 1 /\ audits[card.link].by = "dispatch"
    BY DEF StandstillHasCause
  <2>1. Left = 0
    BY DEF AtRest, Left
  <2>2. ~(card.passed /\ verdicts = <<>>)
    BY <2>1 DEF MarkFound
  <2>3. ChainValid /\ verdicts = <<>>
    BY <2>2 DEF CanGoOn, DispatchReleased, LatestPasses
  <2>4. card.link # 0 /\ ~SoleCopy(card.link, {"completed", "withdrawn"})
    BY <2>3 DEF ChainValid
  <2>5. card.link \in Rounds
    BY <2>1, <2>4 DEF LinkFound
  <2>6. PICK k \in Rounds : k = card.link
    BY <2>5
  <2>7. audits[k].at \subseteq {"pending", "claimed", "completed", "withdrawn"} /\ audits[k].at # {}
    BY DEF IInv, OnlyMoves, Rounds, Exists
  <2>8. ASSUME ~(Cardinality(audits[k].at) > 1) PROVE FALSE
    <3>1. PICK d : audits[k].at = {d}
      BY <2>7, <2>8, OneMember
    <3>2. d \in {"pending", "claimed"}
      BY <2>4, <2>6, <2>7, <3>1 DEF SoleCopy
    <3> QED
      BY <3>1, <3>2 DEF CanGoOn, SoleCopy
  <2>9. audits[k].by = "dispatch"
    <3>1. audits[k].by \in {"return", "dispatch"}
      BY DEF IInv, TypeOK, Rounds
    <3>2. audits[k].by = "return" => Cardinality(audits[k].at) = 1
      BY DEF IInv, DerivedCardOnce
    <3> QED
      BY <2>8, <3>1, <3>2
  <2> QED
    BY <2>6, <2>8, <2>9
<1> QED
  BY <1>1, <1>2, <1>3, Invariance, PTL DEF Spec
=============================================================================
