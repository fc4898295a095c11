-------------------------- MODULE CardLoop_proofs --------------------------
(***************************************************************************)
(* Proofs about CardLoop for all values of its constants.                  *)
(*                                                                         *)
(* The type invariant is inductive only together with VerdictsDistinct:    *)
(* that there are no more verdicts than audit rounds follows from the      *)
(* verdicts being about different rounds, by counting.                     *)
(***************************************************************************)
EXTENDS CardLoop, SequenceTheorems, FiniteSetTheorems, TLAPS

(* Every verdict is about an existing audit round, and no two about one.   *)
VerdictsDistinct ==
    /\ \A i \in 1..Len(verdicts) : verdicts[i].audit \in 1..Len(audits)
    /\ \A i, j \in 1..Len(verdicts) : verdicts[i].audit = verdicts[j].audit => i = j

TypeInv == TypeOK /\ VerdictsDistinct
-----------------------------------------------------------------------------
(* Appending to a sequence: what the result is at each place.              *)
LEMMA AppendFacts ==
    ASSUME NEW S, NEW s \in Seq(S), NEW e \in S
    PROVE  /\ Append(s, e) \in Seq(S)
           /\ Len(Append(s, e)) = Len(s) + 1
           /\ Append(s, e) # <<>>
           /\ \A i \in 1..Len(s) : Append(s, e)[i] = s[i]
           /\ Append(s, e)[Len(s) + 1] = e
  OBVIOUS

(* An interval from 1 determines its upper bound. *)
LEMMA SameBound ==
    ASSUME NEW m \in Nat, NEW n \in Nat, 1..m = 1..n
    PROVE  m = n
<1>1. m >= 1 => m \in 1..n
  OBVIOUS
<1>2. n >= 1 => n \in 1..m
  OBVIOUS
<1> QED
  BY <1>1, <1>2

(* Changing the entries of a sequence in place. *)
LEMMA SameLength ==
    ASSUME NEW S, NEW n \in Nat, NEW t, t = [k \in 1..n |-> t[k]],
           \A k \in 1..n : t[k] \in S
    PROVE  t \in Seq(S) /\ Len(t) = n
<1>1. t \in [1..n -> S]
  OBVIOUS
<1> QED
  BY <1>1

(* A sequence is the function of its entries. *)
LEMMA SeqIsFunction ==
    ASSUME NEW S, NEW s \in Seq(S)
    PROVE  s = [i \in 1..Len(s) |-> s[i]]
  OBVIOUS

(* The verdicts cannot outnumber the audit rounds they are about.          *)
LEMMA DistinctBound ==
    ASSUME NEW n \in Nat, NEW m \in Nat, NEW f \in [1..n -> 1..m],
           \A i, j \in 1..n : f[i] = f[j] => i = j
    PROVE  n <= m
<1>1. f \in Injection(1..n, 1..m)
  BY DEF Injection, IsInjective
<1>2. IsFiniteSet(1..m) /\ Cardinality(1..m) = m /\ Cardinality(1..n) = n
  BY FS_Interval
<1>3. Cardinality(1..n) <= Cardinality(1..m)
  BY <1>1, <1>2, FS_Injection
<1> QED
  BY <1>2, <1>3
-----------------------------------------------------------------------------
LEMMA TypeInit == Init => TypeInv
<1> SUFFICES ASSUME Init PROVE TypeInv
  OBVIOUS
<1>1. /\ returns \in Seq(Return) /\ audits \in Seq(AuditRound)
      /\ verdicts \in Seq(Verdict) /\ reworks \in Seq(Rework)
      /\ Len(returns) = 0 /\ Len(audits) = 0 /\ Len(verdicts) = 0 /\ Len(reworks) = 0
  BY EmptySeq DEF Init
<1>2. /\ place = "pending" /\ round = 1 /\ ready = FALSE /\ auditRef = 0
      /\ tip = 0 /\ checked = FALSE /\ merged = 0 /\ closures = {} /\ reported = {}
  BY DEF Init
<1>3. TypeOK
  <2>1. /\ round \in 1..MaxRounds /\ auditRef \in 0..Len(audits) /\ tip \in 0..MaxTip
        /\ merged \in 0..tip /\ Len(returns) <= MaxReturns /\ Len(audits) <= MaxAudits
        /\ Len(verdicts) <= Len(audits) /\ Len(reworks) <= MaxReworks
    BY <1>1, <1>2, BoundsAssumption
  <2>2. /\ place \in Places /\ ready \in BOOLEAN /\ checked \in BOOLEAN
        /\ closures \subseteq Closure /\ reported \subseteq 1..Len(audits)
    BY <1>2 DEF Places
  <2> QED
    BY <1>1, <2>1, <2>2, Zenon DEF TypeOK
<1>4. VerdictsDistinct
  BY <1>1 DEF VerdictsDistinct
<1> QED
  BY <1>3, <1>4 DEF TypeInv

(* The lengths as numbers, which is all most steps need of the types.      *)
LEMMA Lengths ==
    ASSUME TypeOK
    PROVE  /\ Len(returns) \in Nat /\ Len(returns) <= MaxReturns
           /\ Len(audits) \in Nat /\ Len(audits) <= MaxAudits
           /\ Len(verdicts) \in Nat /\ Len(verdicts) <= MaxAudits
           /\ Len(reworks) \in Nat /\ Len(reworks) <= MaxReworks
           /\ tip \in Nat /\ tip <= MaxTip /\ round \in Nat
  BY BoundsAssumption DEF TypeOK

(* Moving an audit card keeps the rest of its record.                      *)
LEMMA MovedAudit ==
    ASSUME NEW a \in AuditRound, NEW p \in Places
    PROVE  /\ [a EXCEPT !.place = p] \in AuditRound
           /\ \A c \in 0..MaxTip : [a EXCEPT !.place = p, !.seen = c] \in AuditRound
  BY DEF AuditRound

LEMMA AuditEntries ==
    ASSUME TypeOK
    PROVE  /\ \A k \in 1..Len(audits) : audits[k] \in AuditRound
           /\ audits = [k \in 1..Len(audits) |-> audits[k]]
<1>1. audits \in Seq(AuditRound)
  BY DEF TypeOK
<1> QED
  BY <1>1, ElementOfSeq, SeqIsFunction

LEMMA TypeStep == TypeInv /\ [Next]_vars => TypeInv'
<1> SUFFICES ASSUME TypeInv, [Next]_vars PROVE TypeInv'
  OBVIOUS
<1> USE BoundsAssumption DEF TypeInv
<1>0. /\ Len(returns) \in Nat /\ Len(audits) \in Nat
      /\ Len(verdicts) \in Nat /\ Len(verdicts) <= MaxAudits /\ Len(reworks) \in Nat
      /\ tip \in Nat /\ tip <= MaxTip
  BY Lengths
<1>1. CASE Claim
  BY <1>1 DEF Claim, TypeOK, VerdictsDistinct, Places
<1>2. CASE Commit
  BY <1>0, <1>2 DEF Commit, TypeOK, VerdictsDistinct
<1>3. ASSUME NEW outcome \in {"done", "blocked"}, FileReturn(outcome) PROVE TypeInv'
  <2> DEFINE ret == [round |-> round, tip |-> tip, outcome |-> outcome]
             aud == [place |-> "pending", ret |-> Len(returns) + 1,
                     sup |-> IF Supersedes(Len(audits)) THEN Len(audits) ELSE 0,
                     round |-> round, by |-> "return", seen |-> 0]
  <2>1. returns' \in Seq(Return) /\ Len(returns') <= MaxReturns
    <3>1. ret \in Return /\ returns' = Append(returns, ret) /\ Len(returns) < MaxReturns
      BY <1>0, <1>3 DEF FileReturn, Return, TypeOK
    <3> QED
      BY <1>0, <3>1, AppendFacts DEF TypeOK
  <2>2. CASE Derives(outcome)
    <3>1. aud \in AuditRound
      BY <1>0, <1>3, <2>2 DEF FileReturn, AuditRound, Places, TypeOK
    <3>2. audits' = Append(audits, aud) /\ Len(audits) < MaxAudits /\ auditRef' = Len(audits) + 1
      BY <1>3, <2>2 DEF FileReturn
    <3>3. audits' \in Seq(AuditRound) /\ Len(audits') = Len(audits) + 1
      BY <3>1, <3>2, AppendFacts DEF TypeOK
    <3> HIDE DEF aud
    <3>4. UNCHANGED <<place, round, tip, checked, merged, verdicts, reworks, closures, reported>>
            /\ ready' = TRUE
      BY <1>3 DEF FileReturn
    <3>5. auditRef' \in 0..Len(audits') /\ Len(audits') <= MaxAudits
      BY <1>0, <3>2, <3>3
    <3>6. Len(verdicts') <= Len(audits') /\ reported' \subseteq 1..Len(audits')
      BY <1>0, <3>3, <3>4 DEF TypeOK
    <3>7. TypeOK'
      BY <2>1, <3>3, <3>4, <3>5, <3>6 DEF TypeOK
    <3>8. VerdictsDistinct'
      BY <1>0, <3>3, <3>4, SMTT(30) DEF VerdictsDistinct
    <3> QED
      BY <3>7, <3>8
  <2>3. CASE ~Derives(outcome)
    BY <1>0, <1>3, <2>1, <2>3 DEF FileReturn, TypeOK, VerdictsDistinct
  <2> QED
    BY <2>2, <2>3
<1>4. CASE RegisterRework
  <2> DEFINE rw == [verdict |-> Len(verdicts), tip |-> tip]
  <2>1. rw \in Rework /\ reworks' = Append(reworks, rw) /\ Len(reworks) < MaxReworks
    BY <1>0, <1>4 DEF RegisterRework, Rework
  <2>2. reworks' \in Seq(Rework) /\ Len(reworks') <= MaxReworks
    BY <1>0, <2>1, AppendFacts DEF TypeOK
  <2> QED
    BY <1>4, <2>2 DEF RegisterRework, TypeOK, VerdictsDistinct
<1>5. CASE AuditDispatch
  <2> DEFINE aud == [place |-> "pending", ret |-> Len(returns), sup |-> 0,
                     round |-> round, by |-> "dispatch", seen |-> 0]
  <2>1. aud \in AuditRound
    <3>1. Len(returns) \in 1..MaxReturns
      BY <1>0, <1>5, EmptySeq DEF AuditDispatch, TypeOK
    <3> QED
      BY <1>0, <3>1 DEF AuditRound, Places, TypeOK
  <2>2. audits' = Append(audits, aud) /\ Len(audits) < MaxAudits /\ auditRef' = Len(audits) + 1
    BY <1>5 DEF AuditDispatch
  <2>3. audits' \in Seq(AuditRound) /\ Len(audits') = Len(audits) + 1
    BY <2>1, <2>2, AppendFacts DEF TypeOK
  <2>4. UNCHANGED <<place, round, ready, tip, checked, merged, returns, verdicts, reworks,
                    closures, reported>>
    BY <1>5 DEF AuditDispatch
  <2> HIDE DEF aud
  <2>5. auditRef' \in 0..Len(audits') /\ Len(audits') <= MaxAudits
    BY <1>0, <2>2, <2>3
  <2>6. Len(verdicts') <= Len(audits') /\ reported' \subseteq 1..Len(audits')
    BY <1>0, <2>3, <2>4 DEF TypeOK
  <2>7. TypeOK'
    BY <2>3, <2>4, <2>5, <2>6 DEF TypeOK
  <2>8. VerdictsDistinct'
    BY <1>0, <2>3, <2>4 DEF VerdictsDistinct
  <2> QED
    BY <2>7, <2>8
<1>6. ASSUME NEW k \in 1..Len(audits), ClaimAudit(k) \/ WithdrawAudit(k) PROVE TypeInv'
  <2>1. /\ audits' = [j \in 1..Len(audits) |-> audits'[j]]
        /\ \A j \in 1..Len(audits) : audits'[j] \in AuditRound
    <3>1. tip \in 0..MaxTip /\ "claimed" \in Places /\ "withdrawn" \in Places
      BY DEF TypeOK, Places
    <3>2. audits[k] \in AuditRound /\ audits = [j \in 1..Len(audits) |-> audits[j]]
      BY AuditEntries
    <3>3. /\ audits' = [j \in 1..Len(audits) |-> audits'[j]]
          /\ \A j \in 1..Len(audits) : j # k => audits'[j] = audits[j]
          /\ \/ audits'[k] = [audits[k] EXCEPT !.place = "claimed", !.seen = tip]
             \/ audits'[k] = [audits[k] EXCEPT !.place = "withdrawn"]
      BY <1>6, <3>2, Zenon DEF ClaimAudit, WithdrawAudit
    <3>4. /\ [audits[k] EXCEPT !.place = "claimed", !.seen = tip] \in AuditRound
          /\ [audits[k] EXCEPT !.place = "withdrawn"] \in AuditRound
      BY <3>1, <3>2, MovedAudit
    <3>5. audits'[k] \in AuditRound
      BY <3>3, <3>4, Zenon
    <3> QED
      BY <3>3, <3>5, AuditEntries
  <2>2. audits' \in Seq(AuditRound) /\ Len(audits') = Len(audits)
    BY <1>0, <2>1, SameLength
  <2> QED
    BY <1>0, <1>6, <2>2 DEF ClaimAudit, WithdrawAudit, TypeOK, VerdictsDistinct
<1>7. ASSUME NEW k \in 1..Len(audits), NEW value \in {"PASS", "FAIL"}, NEW commit \in 0..tip,
             AuditVerdict(k, value, commit)
      PROVE  TypeInv'
  <2> DEFINE v == [audit |-> k, round |-> round, value |-> value, commit |-> commit]
  <2>1. v \in Verdict /\ verdicts' = Append(verdicts, v)
    <3>1. k \in 1..MaxAudits /\ round \in 1..MaxRounds /\ commit \in 0..MaxTip
      BY <1>0, Lengths DEF TypeOK
    <3>2. verdicts' = Append(verdicts, v)
      BY <1>7 DEF AuditVerdict
    <3> QED
      BY <3>1, <3>2 DEF Verdict
  <2>2. /\ verdicts' \in Seq(Verdict) /\ Len(verdicts') = Len(verdicts) + 1
        /\ \A i \in 1..Len(verdicts) : verdicts'[i] = verdicts[i]
        /\ verdicts'[Len(verdicts) + 1] = v
    BY <2>1, AppendFacts DEF TypeOK
  <2>3. /\ audits' = [j \in 1..Len(audits) |-> audits'[j]]
        /\ \A j \in 1..Len(audits) : audits'[j] \in AuditRound
    <3>1. audits[k] \in AuditRound /\ audits = [j \in 1..Len(audits) |-> audits[j]]
      BY AuditEntries
    <3>2. audits' = [audits EXCEPT ![k].place = "completed"]
      BY <1>7 DEF AuditVerdict
    <3>3. /\ audits' = [j \in 1..Len(audits) |-> audits'[j]]
          /\ \A j \in 1..Len(audits) : j # k => audits'[j] = audits[j]
          /\ audits'[k] = [audits[k] EXCEPT !.place = "completed"]
      BY <3>1, <3>2, Zenon
    <3>4. audits'[k] \in AuditRound
      BY <3>1, <3>3, MovedAudit DEF Places
    <3> QED
      BY <3>3, <3>4, AuditEntries
  <2>4. audits' \in Seq(AuditRound) /\ Len(audits') = Len(audits)
    BY <1>0, <2>3, SameLength
  <2>5. v.audit = k /\ \A i \in 1..Len(verdicts) : verdicts[i].audit # k
    BY <1>7 DEF AuditVerdict, Judged
  <2>6. VerdictsDistinct'
    <3> HIDE DEF v
    <3> DEFINE n == Len(verdicts) + 1
    <3>1. \A i \in 1..n : i \in 1..Len(verdicts) \/ i = n
      BY <1>0
    <3>2. /\ \A i \in 1..Len(verdicts) : /\ verdicts'[i].audit = verdicts[i].audit
                                         /\ verdicts[i].audit # k
          /\ verdicts'[n].audit = k
      BY <2>2, <2>5
    <3>3. \A i \in 1..n : verdicts'[i].audit \in 1..Len(audits)
      BY <3>1, <3>2 DEF VerdictsDistinct
    <3>4. \A i, j \in 1..n : verdicts'[i].audit = verdicts'[j].audit => i = j
      BY <3>1, <3>2 DEF VerdictsDistinct
    <3> QED
      BY <2>2, <2>4, <3>3, <3>4 DEF VerdictsDistinct
  <2>7. Len(verdicts') <= Len(audits')
    <3> DEFINE f == [i \in 1..Len(verdicts') |-> verdicts'[i].audit]
    <3>1. f \in [1..Len(verdicts') -> 1..Len(audits')]
      BY <2>6 DEF VerdictsDistinct
    <3>2. \A i, j \in 1..Len(verdicts') : f[i] = f[j] => i = j
      BY <2>6 DEF VerdictsDistinct
    <3>3. Len(verdicts') \in Nat /\ Len(audits') \in Nat
      BY <1>0, <2>2, <2>4
    <3> HIDE DEF f
    <3> QED
      BY <3>1, <3>2, <3>3, DistinctBound
  <2>8. UNCHANGED <<place, round, ready, auditRef, tip, checked, merged, returns, reworks,
                    closures, reported>>
    BY <1>7 DEF AuditVerdict
  <2>9. TypeOK'
    BY <2>2, <2>4, <2>7, <2>8 DEF TypeOK
  <2> QED
    BY <2>6, <2>9
<1>8. CASE CheckBranch \/ Finalize
  <2>1. /\ merged' \in {merged, tip}
        /\ UNCHANGED <<place, round, ready, auditRef, tip, returns, audits, verdicts,
                       reworks, closures, reported>>
    BY <1>8 DEF CheckBranch, Finalize
  <2>2. checked' \in BOOLEAN
    BY <1>8, Zenon DEF CheckBranch, Finalize
  <2>3. merged' \in 0..tip
    BY <1>0, <2>1 DEF TypeOK
  <2> QED
    BY <2>1, <2>2, <2>3 DEF TypeOK, VerdictsDistinct
<1>9. CASE Block
  BY <1>9 DEF Block, TypeOK, VerdictsDistinct, Places
<1>10. CASE Reopen
  <2>1. /\ place' = "pending" /\ round' \in {round, round + 1} /\ (round' # round => round < MaxRounds)
        /\ UNCHANGED <<ready, auditRef, tip, checked, merged, returns, audits, verdicts,
                       reworks, closures, reported>>
    BY <1>10 DEF Reopen
  <2>2. round' \in 1..MaxRounds
    BY <2>1 DEF TypeOK
  <2> QED
    BY <2>1, <2>2 DEF TypeOK, VerdictsDistinct, Places
<1>11. CASE Close
  <2>1. Len(returns) \in 1..MaxReturns
    BY <1>0, <1>11, EmptySeq DEF Close, TypeOK
  <2>2. closures' \subseteq Closure
    BY <1>0, <1>11, <2>1 DEF Close, Closure, TypeOK
  <2>3. /\ audits' = [j \in 1..Len(audits) |-> audits'[j]]
        /\ \A j \in 1..Len(audits) : audits'[j] \in AuditRound
    <3>1. \A j \in 1..Len(audits) : /\ audits[j] \in AuditRound
                                    /\ [audits[j] EXCEPT !.place = "completed"] \in AuditRound
      BY AuditEntries, MovedAudit DEF Places
    <3>2. audits' = [j \in 1..Len(audits) |->
                       IF j = 1 /\ audits[j].place = "claimed"
                       THEN [audits[j] EXCEPT !.place = "completed"] ELSE audits[j]]
      BY <1>11 DEF Close
    <3> QED
      BY <3>1, <3>2, Zenon
  <2>4. audits' \in Seq(AuditRound) /\ Len(audits') = Len(audits)
    BY <1>0, <2>3, SameLength
  <2> QED
    BY <1>0, <1>11, <2>2, <2>4 DEF Close, TypeOK, VerdictsDistinct, Places
<1>12. CASE Withdraw
  <2>1. /\ audits' = [j \in 1..Len(audits) |-> audits'[j]]
        /\ \A j \in 1..Len(audits) : audits'[j] \in AuditRound
    <3>1. \A j \in 1..Len(audits) : /\ audits[j] \in AuditRound
                                    /\ [audits[j] EXCEPT !.place = "withdrawn"] \in AuditRound
      BY AuditEntries, MovedAudit DEF Places
    <3>2. PICK failed : audits' = [j \in 1..Len(audits) |->
                                    IF InFlight(j) /\ j \notin failed
                                    THEN [audits[j] EXCEPT !.place = "withdrawn"] ELSE audits[j]]
      BY <1>12 DEF Withdraw
    <3> QED
      BY <3>1, <3>2, Zenon
  <2>2. audits' \in Seq(AuditRound) /\ Len(audits') = Len(audits)
    BY <1>0, <2>1, SameLength
  <2>3. reported' \subseteq 1..Len(audits)
    BY <1>12 DEF Withdraw, TypeOK
  <2> QED
    BY <1>0, <1>12, <2>2, <2>3 DEF Withdraw, TypeOK, VerdictsDistinct, Places
<1>13. CASE UNCHANGED vars
  BY <1>13 DEF vars, TypeOK, VerdictsDistinct
<1> QED
  BY <1>1, <1>2, <1>3, <1>4, <1>5, <1>6, <1>7, <1>8, <1>9, <1>10, <1>11, <1>12, <1>13
     DEF Next

LEMMA TypeInvariant == Spec => []TypeInv
<1> QED
  BY TypeInit, TypeStep, PTL DEF Spec

(* The variables of the loop always have their types; in particular there  *)
(* is at most one verdict for each audit round.                            *)
THEOREM TypeCorrect == Spec => []TypeOK
<1>1. TypeInv => TypeOK
  BY DEF TypeInv
<1> QED
  BY <1>1, TypeInvariant, PTL
-----------------------------------------------------------------------------
(* Verdicts are only ever added at the end.                                *)
LEMMA VerdictsGrow ==
    ASSUME TypeInv, [Next]_vars
    PROVE  /\ Len(verdicts) \in Nat
           /\ Len(verdicts) <= Len(verdicts') /\ Len(verdicts') \in Nat
           /\ \A i \in 1..Len(verdicts) : verdicts'[i] = verdicts[i]
<1>1. CASE UNCHANGED verdicts
  BY <1>1, Lengths DEF TypeInv
<1>2. ASSUME NEW k \in 1..Len(audits), NEW value \in {"PASS", "FAIL"}, NEW commit \in 0..tip,
             AuditVerdict(k, value, commit)
      PROVE  \E v \in Verdict : verdicts' = Append(verdicts, v)
  <2> DEFINE v == [audit |-> k, round |-> round, value |-> value, commit |-> commit]
  <2>1. verdicts' = Append(verdicts, v)
    BY <1>2 DEF AuditVerdict
  <2>2. k \in 1..MaxAudits /\ round \in 1..MaxRounds /\ commit \in 0..MaxTip
    BY Lengths, BoundsAssumption DEF TypeInv, TypeOK
  <2>3. v \in Verdict
    BY <2>2 DEF Verdict
  <2> QED
    BY <2>1, <2>3
<1>3. CASE \E v \in Verdict : verdicts' = Append(verdicts, v)
  <2>1. verdicts \in Seq(Verdict)
    BY DEF TypeInv, TypeOK
  <2> QED
    BY <1>3, <2>1, AppendFacts
<1> QED
  BY <1>1, <1>2, <1>3 DEF Next, vars, Claim, Commit, FileReturn, RegisterRework, AuditDispatch,
     ClaimAudit, WithdrawAudit, CheckBranch, Finalize, Block, Reopen, Close, Withdraw

(* A commit of the branch up to n was passed. *)
PassedUpTo(n) == \E i \in 1..Len(verdicts) :
                    verdicts[i].value = "PASS" /\ verdicts[i].commit \in 1..n

(* A finalize that has looked at the branch has seen a PASS for a commit of *)
(* it.  Verdicts are never taken back and the branch only grows, so that is *)
(* still so at the merge, whatever was committed in between.                *)
CheckedWasPassed == checked => PassedUpTo(tip)

PassInv == CheckedWasPassed /\ MergedHoldsPassed

LEMMA PassedStays ==
    ASSUME TypeInv, [Next]_vars, NEW m \in Nat, NEW n \in Nat, m <= n, PassedUpTo(m)
    PROVE  PassedUpTo(n)'
<1>1. PICK i \in 1..Len(verdicts) : verdicts[i].value = "PASS" /\ verdicts[i].commit \in 1..m
  BY DEF PassedUpTo
<1>2. i \in 1..Len(verdicts') /\ verdicts'[i] = verdicts[i]
  BY <1>1, VerdictsGrow
<1>3. verdicts[i].commit \in 1..n
  BY <1>1
<1> QED
  BY <1>1, <1>2, <1>3 DEF PassedUpTo

LEMMA PassStep == TypeInv /\ PassInv /\ [Next]_vars => PassInv'
<1> SUFFICES ASSUME TypeInv, PassInv, [Next]_vars PROVE PassInv'
  OBVIOUS
<1>0. /\ tip \in Nat /\ merged \in Nat /\ merged <= tip
      /\ tip' \in Nat /\ merged' \in Nat /\ checked \in BOOLEAN
  BY TypeStep, BoundsAssumption DEF TypeInv, TypeOK
<1>1. tip <= tip'
  <2>1. tip' \in {tip, tip + 1}
    BY DEF Next, vars, Claim, Commit, FileReturn, RegisterRework, AuditDispatch,
       ClaimAudit, WithdrawAudit, AuditVerdict, CheckBranch, Finalize, Block, Reopen,
       Close, Withdraw
  <2> QED
    BY <1>0, <2>1
<1>2. CASE CheckBranch
  <2>1. /\ Len(verdicts) \in 1..Len(verdicts) /\ verdicts[Len(verdicts)].value = "PASS"
        /\ verdicts[Len(verdicts)].commit = tip /\ tip >= 1
    BY <1>0, <1>2, VerdictsGrow, EmptySeq
       DEF CheckBranch, LatestPasses, CoversTip, Latest, Live, TypeInv, TypeOK
  <2>2. PassedUpTo(tip)
    BY <1>0, <2>1 DEF PassedUpTo
  <2>3. CheckedWasPassed'
    BY <1>0, <1>1, <2>2, PassedStays DEF CheckedWasPassed, PassedUpTo
  <2>4. MergedHoldsPassed'
    BY <1>2 DEF CheckBranch, PassInv, MergedHoldsPassed
  <2> QED
    BY <2>3, <2>4 DEF PassInv
<1>3. CASE Finalize
  <2>1. PassedUpTo(tip) /\ verdicts' = verdicts /\ tip' = tip /\ merged' = tip
    BY <1>3 DEF Finalize, PassInv, CheckedWasPassed
  <2> QED
    BY <2>1 DEF PassInv, CheckedWasPassed, MergedHoldsPassed, PassedUpTo
<1>4. CASE checked' = checked /\ merged' = merged
  <2>1. CheckedWasPassed'
    BY <1>0, <1>1, <1>4, PassedStays DEF PassInv, CheckedWasPassed, PassedUpTo
  <2>2. merged > 0 => PassedUpTo(merged)'
    <3>1. merged > 0 => PassedUpTo(merged)
      BY DEF PassInv, MergedHoldsPassed, PassedUpTo
    <3>2. PICK m \in Nat : m = merged
      BY <1>0
    <3>3. merged > 0 => PassedUpTo(m)'
      BY <3>1, <3>2, PassedStays DEF PassedUpTo
    <3> QED
      BY <1>4, <3>2, <3>3 DEF PassedUpTo
  <2>3. MergedHoldsPassed'
    BY <1>4, <2>2 DEF MergedHoldsPassed, PassedUpTo
  <2> QED
    BY <2>1, <2>3 DEF PassInv
<1> QED
  BY <1>2, <1>3, <1>4 DEF Next, vars, Claim, Commit, FileReturn, RegisterRework, AuditDispatch,
     ClaimAudit, WithdrawAudit, AuditVerdict, Block, Reopen, Close, Withdraw

(* No card reaches the base branch before an audit round has passed it.    *)
THEOREM MergedIsAudited == Spec => []MergedHoldsPassed
<1>1. Init => PassInv
  BY DEF Init, PassInv, CheckedWasPassed, MergedHoldsPassed
<1>2. PassInv => MergedHoldsPassed
  BY DEF PassInv
<1> QED
  BY <1>1, <1>2, PassStep, TypeInvariant, PTL DEF Spec
-----------------------------------------------------------------------------
(* A card comes to completed/ only by a closing, which writes the closure  *)
(* it needs; leaving completed/ is what opens a new round.                 *)
LEMMA CompletedStep == TypeInv /\ CompletedWasAudited /\ [Next]_vars => CompletedWasAudited'
<1> SUFFICES ASSUME TypeInv, CompletedWasAudited, [Next]_vars, place' = "completed"
             PROVE  \E c \in closures' :
                       /\ c.round = round'
                       /\ Audit = "required" => /\ c.verdict \in 1..Len(verdicts')
                                                /\ verdicts'[c.verdict].value = "PASS"
  BY DEF CompletedWasAudited
<1>1. CASE place = "completed" /\ round' = round /\ closures' = closures
  <2>1. PICK c \in closures :
          /\ c.round = round
          /\ Audit = "required" => /\ c.verdict \in 1..Len(verdicts)
                                   /\ verdicts[c.verdict].value = "PASS"
    BY <1>1 DEF CompletedWasAudited
  <2>2. Audit = "required" => /\ c.verdict \in 1..Len(verdicts')
                              /\ verdicts'[c.verdict] = verdicts[c.verdict]
    BY <2>1, VerdictsGrow
  <2> QED
    BY <1>1, <2>1, <2>2
<1>2. CASE Close
  <2> DEFINE c == [round |-> round, ret |-> Len(returns), verdict |-> Len(verdicts)]
  <2>1. c \in closures' /\ c.round = round' /\ c.verdict = Len(verdicts) /\ verdicts' = verdicts
    BY <1>2 DEF Close
  <2>2. Audit = "required" => /\ Len(verdicts) \in 1..Len(verdicts)
                              /\ verdicts[Len(verdicts)].value = "PASS"
    BY <1>2, VerdictsGrow, EmptySeq DEF Close, LatestPasses, Latest, TypeInv, TypeOK
  <2> HIDE DEF c
  <2> QED
    BY <2>1, <2>2
<1> QED
  BY <1>1, <1>2 DEF Next, vars, Claim, Commit, FileReturn, RegisterRework, AuditDispatch,
     ClaimAudit, WithdrawAudit, AuditVerdict, CheckBranch, Finalize, Block, Reopen, Withdraw

(* A completed card was closed in its current round, after a PASS if its   *)
(* audit is required.                                                      *)
THEOREM CompletedIsAudited == Spec => []CompletedWasAudited
<1>1. Init => CompletedWasAudited
  BY DEF Init, CompletedWasAudited
<1> QED
  BY <1>1, CompletedStep, TypeInvariant, PTL DEF Spec
-----------------------------------------------------------------------------
(* A closed audit round stays closed.  What is open after the withdrawal   *)
(* was reported, and once the card is withdrawn no round is added.         *)
LEMMA OrphanStep == TypeInv /\ NoSilentOrphan /\ [Next]_vars => NoSilentOrphan'
<1> SUFFICES ASSUME TypeInv, NoSilentOrphan, [Next]_vars, place' = "withdrawn",
                    NEW k \in 1..Len(audits'), Open(k)'
             PROVE  k \in reported'
  BY DEF NoSilentOrphan
<1>0. Len(audits) \in Nat /\ audits = [j \in 1..Len(audits) |-> audits[j]]
  BY Lengths DEF TypeInv, TypeOK
<1>1. CASE place = "withdrawn" /\ audits' = audits /\ reported' = reported
  BY <1>1 DEF NoSilentOrphan, Open
<1>2. ASSUME NEW i \in 1..Len(audits), place = "withdrawn", reported' = reported,
             \/ ClaimAudit(i)
             \/ WithdrawAudit(i)
             \/ \E value \in {"PASS", "FAIL"}, commit \in 0..tip : AuditVerdict(i, value, commit)
      PROVE  k \in reported'
  <2>1. /\ Len(audits') = Len(audits)
        /\ \A j \in 1..Len(audits) : j # i => audits'[j] = audits[j]
    <3>1. /\ audits' = [j \in 1..Len(audits) |-> audits'[j]]
          /\ \A j \in 1..Len(audits) : j # i => audits'[j] = audits[j]
      BY <1>0, <1>2, Zenon DEF ClaimAudit, WithdrawAudit, AuditVerdict
    <3>2. DOMAIN audits' = 1..Len(audits') /\ Len(audits') \in Nat
      BY TypeStep, LenProperties DEF TypeInv, TypeOK
    <3>3. DOMAIN audits' = 1..Len(audits)
      BY <3>1
    <3>4. 1..Len(audits') = 1..Len(audits)
      BY <3>2, <3>3, Zenon
    <3>5. Len(audits') = Len(audits)
      BY <1>0, <3>2, <3>4, SameBound
    <3> QED
      BY <3>1, <3>5
  <2>2. audits[i] \in AuditRound
    BY AuditEntries DEF TypeInv
  <2>3. Open(i)' => Open(i)
    BY <1>0, <1>2, <2>2 DEF ClaimAudit, WithdrawAudit, AuditVerdict, Open, AuditRound
  <2>4. Open(k)
    BY <2>1, <2>3 DEF Open
  <2> QED
    BY <1>2, <2>1, <2>4 DEF NoSilentOrphan
<1>3. CASE Withdraw
  <2>1. PICK failed \in SUBSET {j \in 1..Len(audits) : InFlight(j)} :
          /\ reported' = reported \cup failed
          /\ audits' = [j \in 1..Len(audits) |->
                          IF InFlight(j) /\ j \notin failed
                          THEN [audits[j] EXCEPT !.place = "withdrawn"] ELSE audits[j]]
    BY <1>3 DEF Withdraw
  <2>2. Len(audits') = Len(audits)
    BY <1>0, <2>1
  <2>3. InFlight(k) /\ k \notin failed => audits'[k].place = "withdrawn"
    <3>1. audits[k] \in AuditRound
      BY <2>2, AuditEntries DEF TypeInv
    <3>2. InFlight(k) /\ k \notin failed => audits'[k] = [audits[k] EXCEPT !.place = "withdrawn"]
      BY <2>1, <2>2
    <3> QED
      BY <3>1, <3>2 DEF AuditRound
  <2>4. ~InFlight(k) => audits'[k] = audits[k]
    BY <2>1, <2>2
  <2> QED
    BY <2>1, <2>3, <2>4 DEF InFlight, Open
<1>4. CASE Claim \/ Commit \/ RegisterRework \/ AuditDispatch \/ Block \/ Reopen \/ Close
  BY <1>4 DEF Claim, Commit, RegisterRework, AuditDispatch, Block, Reopen, Close
<1>5. ASSUME NEW outcome \in {"done", "blocked"} PROVE ~FileReturn(outcome)
  BY DEF FileReturn
<1>6. ASSUME NEW i \in 1..Len(audits),
             \/ ClaimAudit(i)
             \/ WithdrawAudit(i)
             \/ \E value \in {"PASS", "FAIL"}, commit \in 0..tip : AuditVerdict(i, value, commit)
      PROVE  place = "withdrawn" /\ reported' = reported
  BY <1>6 DEF ClaimAudit, WithdrawAudit, AuditVerdict
<1>7. CASE CheckBranch \/ Finalize \/ UNCHANGED vars
  BY <1>1, <1>7 DEF CheckBranch, Finalize, vars
<1> QED
  BY <1>2, <1>3, <1>4, <1>5, <1>6, <1>7 DEF Next

(* A withdrawal leaves no audit round waiting without having said so.      *)
THEOREM OrphansAreReported == Spec => []NoSilentOrphan
<1>1. Init => NoSilentOrphan
  BY DEF Init, NoSilentOrphan
<1> QED
  BY <1>1, OrphanStep, TypeInvariant, PTL DEF Spec
-----------------------------------------------------------------------------
(* No return is of a later round than the current one: a new round starts  *)
(* without a return.                                                       *)
ReturnsOfPast == \A i \in 1..Len(returns) : returns[i].round <= round

LifeInv == TypeInv /\ ReturnsOfPast

LEMMA ReturnsStep == LifeInv /\ [Next]_vars => ReturnsOfPast'
<1> SUFFICES ASSUME LifeInv, [Next]_vars PROVE ReturnsOfPast'
  OBVIOUS
<1>1. CASE UNCHANGED <<returns, round>>
  BY <1>1 DEF LifeInv, ReturnsOfPast
<1>2. ASSUME NEW outcome \in {"done", "blocked"}, FileReturn(outcome) PROVE ReturnsOfPast'
  <2> DEFINE ret == [round |-> round, tip |-> tip, outcome |-> outcome]
  <2>1. ret \in Return /\ returns \in Seq(Return) /\ round \in Nat
    BY <1>2, BoundsAssumption DEF LifeInv, TypeInv, TypeOK, Return
  <2>2. returns' = Append(returns, ret) /\ round' = round
    BY <1>2 DEF FileReturn
  <2>3. ret.round = round
    OBVIOUS
  <2> HIDE DEF ret
  <2> QED
    BY <2>1, <2>2, <2>3, AppendFacts DEF LifeInv, ReturnsOfPast
<1>3. CASE Reopen
  <2>1. returns' = returns /\ round \in Nat /\ round' \in {round, round + 1}
    BY <1>3, BoundsAssumption DEF Reopen, LifeInv, TypeInv, TypeOK
  <2>2. \A i \in 1..Len(returns) : returns[i].round \in Nat
    <3>1. ASSUME NEW i \in 1..Len(returns) PROVE returns[i] \in Return
      BY ElementOfSeq DEF LifeInv, TypeInv, TypeOK
    <3> QED
      BY <3>1, BoundsAssumption DEF Return
  <2> QED
    BY <2>1, <2>2 DEF LifeInv, ReturnsOfPast
<1> QED
  BY <1>1, <1>2, <1>3 DEF Next, vars, Claim, Commit, RegisterRework, AuditDispatch,
     ClaimAudit, WithdrawAudit, AuditVerdict, CheckBranch, Finalize, Block, Close, Withdraw

LEMMA LifeInvariant == Spec => []LifeInv
<1>1. Init => ReturnsOfPast
  <2>1. Init => Len(returns) = 0
    BY EmptySeq DEF Init
  <2> QED
    BY <2>1 DEF ReturnsOfPast
<1> QED
  BY <1>1, ReturnsStep, TypeInvariant, PTL DEF Spec, LifeInv

LEMMA LifecycleInit == Init => Lifecycle!Init
<1> SUFFICES ASSUME Init PROVE Lifecycle!Init
  OBVIOUS
<1>1. ReturnedThisRound = FALSE
  BY DEF Init, ReturnedThisRound
<1>2. {c.round : c \in closures} = {}
  BY DEF Init
<1> QED
  BY <1>1, <1>2 DEF Init, Lifecycle!Init

(* Every action of the loop is an action of the life cycle or leaves its   *)
(* variables alone.                                                        *)
LEMMA LifecycleStep == LifeInv /\ [Next]_vars => [Lifecycle!Next]_(Lifecycle!vars)
<1> SUFFICES ASSUME LifeInv, [Next]_vars PROVE [Lifecycle!Next]_(Lifecycle!vars)
  OBVIOUS
<1> USE DEF Lifecycle!vars, Lifecycle!Next
<1>1. CASE Claim
  BY <1>1 DEF Claim, Lifecycle!Claim, ReturnedThisRound, Latest
<1>2. ASSUME NEW outcome \in {"done", "blocked"}, FileReturn(outcome) PROVE Lifecycle!Deliver
  <2> DEFINE ret == [round |-> round, tip |-> tip, outcome |-> outcome]
  <2>1. ret \in Return /\ returns \in Seq(Return)
    BY <1>2, BoundsAssumption DEF LifeInv, TypeInv, TypeOK, Return
  <2>2. returns' = Append(returns, ret) /\ ret.round = round
    BY <1>2 DEF FileReturn
  <2>3. place = "claimed" /\ UNCHANGED <<place, round, closures>>
    BY <1>2 DEF FileReturn
  <2> HIDE DEF ret
  <2>4. ReturnedThisRound' = TRUE
    BY <2>1, <2>2, <2>3, AppendFacts DEF ReturnedThisRound, Latest
  <2> QED
    BY <2>3, <2>4 DEF Lifecycle!Deliver
<1>3. CASE Block
  BY <1>3 DEF Block, Lifecycle!Block, ReturnedThisRound, Latest
<1>4. CASE Reopen
  <2>1. place \in {"blocked", "completed"} /\ place' = "pending" /\ UNCHANGED <<returns, closures>>
    BY <1>4 DEF Reopen
  <2>2. CASE ReturnedThisRound
    <3>1. round < MaxRounds /\ round' = round + 1
      BY <1>4, <2>2 DEF Reopen
    <3>2. Len(returns) \in 1..Len(returns) /\ round \in Nat
      BY <2>2, EmptySeq, BoundsAssumption DEF ReturnedThisRound, LifeInv, TypeInv, TypeOK
    <3>3. returns[Len(returns)].round <= round /\ returns[Len(returns)].round = round
      BY <2>2, <3>2 DEF ReturnedThisRound, Latest, LifeInv, ReturnsOfPast
    <3>4. ReturnedThisRound' = FALSE
      BY <2>1, <3>1, <3>2, <3>3 DEF ReturnedThisRound, Latest
    <3> QED
      BY <2>1, <2>2, <3>1, <3>4 DEF Lifecycle!Reopen
  <2>3. CASE ~ReturnedThisRound
    <3>1. round' = round
      BY <1>4, <2>3 DEF Reopen
    <3>2. ReturnedThisRound' = ReturnedThisRound
      BY <2>1, <3>1 DEF ReturnedThisRound, Latest
    <3> QED
      BY <2>1, <2>3, <3>1, <3>2 DEF Lifecycle!Reopen
  <2> QED
    BY <2>2, <2>3
<1>5. CASE Close
  <2>1. place = "claimed" /\ place' = "completed" /\ UNCHANGED <<round, returns>>
    BY <1>5 DEF Close
  <2>2. round \notin {c.round : c \in closures}
    BY <1>5 DEF Close, ClosedThisRound
  <2>3. {c.round : c \in closures'} = {c.round : c \in closures} \cup {round}
    <3> DEFINE written == [round |-> round, ret |-> Len(returns), verdict |-> Len(verdicts)]
    <3>1. closures' = closures \cup {written}
      BY <1>5 DEF Close
    <3>2. written.round = round
      OBVIOUS
    <3> HIDE DEF written
    <3> QED
      BY <3>1, <3>2, Zenon
  <2>4. ReturnedThisRound' = ReturnedThisRound
    BY <2>1 DEF ReturnedThisRound, Latest
  <2> QED
    BY <2>1, <2>2, <2>3, <2>4 DEF Lifecycle!Complete
<1>6. CASE Withdraw
  BY <1>6 DEF Withdraw, Lifecycle!Withdraw, ReturnedThisRound, Latest
<1>7. CASE UNCHANGED <<place, round, returns, closures>>
  BY <1>7 DEF ReturnedThisRound, Latest
<1> QED
  BY <1>1, <1>2, <1>3, <1>4, <1>5, <1>6, <1>7 DEF Next, vars, Commit, RegisterRework,
     AuditDispatch, ClaimAudit, WithdrawAudit, AuditVerdict, CheckBranch, Finalize

(* The loop implements the life cycle: a card is completed at most once in *)
(* a round, and a reopen starts a new round exactly if one was delivered.  *)
THEOREM LoopImplementsLifecycle == Spec => LifecycleSpec
<1> QED
  BY LifecycleInit, LifecycleStep, LifeInvariant, PTL DEF Spec, LifecycleSpec, Lifecycle!Spec
-----------------------------------------------------------------------------
(* Changing the places of audit cards keeps all else of them, and closes   *)
(* only: what is open after the step was open before it.                   *)
Kept(n) ==
    /\ n \in 1..Len(audits')
    /\ audits'[n].by = audits[n].by /\ audits'[n].ret = audits[n].ret
    /\ audits'[n].sup = audits[n].sup /\ audits'[n].round = audits[n].round
    /\ Open(n)' => Open(n)

Derived(outcome) == FileReturn(outcome) /\ Derives(outcome)

(* How the audit rounds of a card change: the ones there are are kept, and *)
(* at most one is added, by a return or by a dispatch.                     *)
LEMMA AuditsStep ==
    ASSUME TypeInv, [Next]_vars
    PROVE  /\ Len(audits) \in Nat /\ Len(audits') \in {Len(audits), Len(audits) + 1}
           /\ \A n \in 1..Len(audits) : Kept(n)
           /\ Len(audits') = Len(audits) + 1 =>
                \/ \E outcome \in {"done", "blocked"} :
                      Derived(outcome) /\ audits'[Len(audits')].by = "return"
                \/ AuditDispatch /\ audits'[Len(audits')].by = "dispatch"
<1>0. /\ TypeOK /\ TypeOK' /\ Len(audits) \in Nat /\ Len(audits') \in Nat
      /\ audits = [j \in 1..Len(audits) |-> audits[j]]
      /\ \A n \in 1..Len(audits) : audits[n] \in AuditRound
      /\ DOMAIN audits' = 1..Len(audits')
  BY TypeStep, AuditEntries, LenProperties DEF TypeInv, TypeOK
<1> DEFINE Same == Len(audits') = Len(audits) /\ \A n \in 1..Len(audits) : Kept(n)
<1>1. ASSUME UNCHANGED audits PROVE Same
  <2>1. ASSUME NEW n \in 1..Len(audits) PROVE Kept(n)
    BY <1>1, <2>1 DEF Kept, Open
  <2> QED
    BY <1>1, <2>1
<1>2. ASSUME audits' = [j \in 1..Len(audits) |-> audits'[j]],
             \A j \in 1..Len(audits) :
                \/ audits'[j] = audits[j]
                \/ Open(j) /\ audits'[j] = [audits[j] EXCEPT !.place = "claimed", !.seen = tip]
                \/ audits'[j] = [audits[j] EXCEPT !.place = "withdrawn"]
                \/ audits'[j] = [audits[j] EXCEPT !.place = "completed"]
      PROVE  Same
  <2>1. DOMAIN audits' = 1..Len(audits)
    BY <1>2
  <2>2. Len(audits') = Len(audits)
    BY <1>0, <2>1, SameBound
  <2>3. ASSUME NEW n \in 1..Len(audits) PROVE Kept(n)
    <3>1. audits[n] \in AuditRound
      BY <1>0
    <3>2. \/ audits'[n] = audits[n]
          \/ Open(n) /\ audits'[n] = [audits[n] EXCEPT !.place = "claimed", !.seen = tip]
          \/ audits'[n] = [audits[n] EXCEPT !.place = "withdrawn"]
          \/ audits'[n] = [audits[n] EXCEPT !.place = "completed"]
      BY <1>2
    <3> QED
      BY <2>2, <3>1, <3>2 DEF Kept, Open, AuditRound
  <2> QED
    BY <2>2, <2>3
<1>3. ASSUME NEW e \in AuditRound, audits' = Append(audits, e)
      PROVE  /\ Len(audits') = Len(audits) + 1 /\ audits'[Len(audits')] = e
             /\ \A n \in 1..Len(audits) : Kept(n)
  <2>1. audits \in Seq(AuditRound)
    BY <1>0 DEF TypeOK
  <2> QED
    BY <1>0, <1>3, <2>1, AppendFacts DEF Kept, Open
<1>4. ASSUME NEW outcome \in {"done", "blocked"}, FileReturn(outcome)
      PROVE  \/ UNCHANGED audits
             \/ \E e \in AuditRound : /\ audits' = Append(audits, e) /\ e.by = "return"
                                      /\ Derived(outcome)
  <2> DEFINE e == [place |-> "pending", ret |-> Len(returns) + 1,
                   sup |-> IF Supersedes(Len(audits)) THEN Len(audits) ELSE 0,
                   round |-> round, by |-> "return", seen |-> 0]
  <2>1. CASE Derives(outcome)
    <3>1. e \in AuditRound /\ e.by = "return"
      BY <1>0, <1>4, <2>1, BoundsAssumption DEF FileReturn, AuditRound, Places, TypeOK
    <3>2. audits' = Append(audits, e)
      BY <1>4, <2>1 DEF FileReturn
    <3> HIDE DEF e
    <3> QED
      BY <1>4, <2>1, <3>1, <3>2 DEF Derived
  <2> QED
    BY <1>4, <2>1 DEF FileReturn
<1>5. ASSUME AuditDispatch
      PROVE  \E e \in AuditRound :
                audits' = Append(audits, e) /\ e.by = "dispatch" /\ AuditDispatch
  <2> DEFINE e == [place |-> "pending", ret |-> Len(returns), sup |-> 0,
                   round |-> round, by |-> "dispatch", seen |-> 0]
  <2>1. audits' = Append(audits, e)
    BY <1>5 DEF AuditDispatch
  <2>2. Len(returns) \in 1..MaxReturns
    BY <1>0, <1>5, EmptySeq DEF AuditDispatch, TypeOK
  <2>3. e \in AuditRound /\ e.by = "dispatch"
    BY <1>0, <2>2, BoundsAssumption DEF AuditRound, Places, TypeOK
  <2> HIDE DEF e
  <2> QED
    BY <1>5, <2>1, <2>3
<1>6. ASSUME NEW k \in 1..Len(audits),
             \/ ClaimAudit(k)
             \/ WithdrawAudit(k)
             \/ \E value \in {"PASS", "FAIL"}, commit \in 0..tip : AuditVerdict(k, value, commit)
      PROVE  Same
  <2>1. /\ audits' = [j \in 1..Len(audits) |-> audits'[j]]
        /\ \A j \in 1..Len(audits) : j # k => audits'[j] = audits[j]
        /\ \/ Open(k) /\ audits'[k] = [audits[k] EXCEPT !.place = "claimed", !.seen = tip]
           \/ audits'[k] = [audits[k] EXCEPT !.place = "withdrawn"]
           \/ audits'[k] = [audits[k] EXCEPT !.place = "completed"]
    BY <1>0, <1>6, Zenon DEF ClaimAudit, WithdrawAudit, AuditVerdict, Open
  <2>2. \A j \in 1..Len(audits) :
                \/ audits'[j] = audits[j]
                \/ Open(j) /\ audits'[j] = [audits[j] EXCEPT !.place = "claimed", !.seen = tip]
                \/ audits'[j] = [audits[j] EXCEPT !.place = "withdrawn"]
                \/ audits'[j] = [audits[j] EXCEPT !.place = "completed"]
    BY <2>1, Zenon
  <2> QED
    BY <1>2, <2>1, <2>2, Zenon
<1>7. ASSUME Close PROVE Same
  <2>1. /\ audits' = [j \in 1..Len(audits) |-> audits'[j]]
        /\ \A j \in 1..Len(audits) :
              audits'[j] = audits[j] \/ audits'[j] = [audits[j] EXCEPT !.place = "completed"]
    BY <1>7, Zenon DEF Close
  <2> QED
    BY <1>2, <2>1, Zenon
<1>8. ASSUME Withdraw PROVE Same
  <2>1. /\ audits' = [j \in 1..Len(audits) |-> audits'[j]]
        /\ \A j \in 1..Len(audits) :
              audits'[j] = audits[j] \/ audits'[j] = [audits[j] EXCEPT !.place = "withdrawn"]
    BY <1>8, Zenon DEF Withdraw
  <2> QED
    BY <1>2, <2>1, Zenon
<1> HIDE DEF Same
<1>9. \/ Same
      \/ \E outcome \in {"done", "blocked"}, e \in AuditRound :
            audits' = Append(audits, e) /\ e.by = "return" /\ Derived(outcome)
      \/ \E e \in AuditRound : audits' = Append(audits, e) /\ e.by = "dispatch" /\ AuditDispatch
  BY <1>1, <1>4, <1>5, <1>6, <1>7, <1>8 DEF Next, vars, Claim, Commit,
     RegisterRework, CheckBranch, Finalize, Block, Reopen
<1>10. Same => Len(audits') # Len(audits) + 1
  <2>1. Len(audits) # Len(audits) + 1
    BY Lengths DEF TypeInv
  <2> QED
    BY <2>1 DEF Same
<1> QED
  BY <1>0, <1>3, <1>9, <1>10 DEF Same

(* What the added round says.                                              *)
LEMMA AddedRound ==
    ASSUME TypeInv, [Next]_vars, Len(audits') = Len(audits) + 1
    PROVE  /\ Len(audits') = auditRef' /\ verdicts' = verdicts
           /\ \/ /\ \E outcome \in {"done", "blocked"} : Derived(outcome)
                 /\ audits'[Len(audits')].by = "return"
                 /\ audits'[Len(audits')].ret = Len(returns) + 1
                 /\ Len(audits) # 0 => audits'[Len(audits')].sup = Len(audits)
              \/ /\ AuditDispatch
                 /\ audits'[Len(audits')].by = "dispatch"
                 /\ audits'[Len(audits')].ret = Len(returns)
<1>0. audits \in Seq(AuditRound) /\ Len(audits) \in Nat /\ Len(returns) \in Nat
  BY Lengths DEF TypeInv, TypeOK
<1>1. ASSUME NEW outcome \in {"done", "blocked"}, Derived(outcome)
      PROVE  /\ audits'[Len(audits')].by = "return"
             /\ audits'[Len(audits')].ret = Len(returns) + 1
             /\ Len(audits) # 0 => audits'[Len(audits')].sup = Len(audits)
             /\ Len(audits') = auditRef' /\ verdicts' = verdicts
  <2> DEFINE e == [place |-> "pending", ret |-> Len(returns) + 1,
                   sup |-> IF Supersedes(Len(audits)) THEN Len(audits) ELSE 0,
                   round |-> round, by |-> "return", seen |-> 0]
  <2>1. /\ audits' = Append(audits, e) /\ auditRef' = Len(audits) + 1 /\ verdicts' = verdicts
        /\ Len(audits) < MaxAudits /\ Len(returns) < MaxReturns
    BY <1>1 DEF Derived, FileReturn
  <2>2. e \in AuditRound
    BY <1>0, <1>1, <2>1, BoundsAssumption DEF AuditRound, Places, TypeInv, TypeOK
  <2>3. Len(audits) # 0 => e.sup = Len(audits)
    <3>1. Len(audits) # 0 => audits # <<>>
      BY EmptySeq
    <3> QED
      BY <1>1, <3>1 DEF Derived, Derives, FirstRound
  <2>4. e.by = "return" /\ e.ret = Len(returns) + 1
    OBVIOUS
  <2> HIDE DEF e
  <2> QED
    BY <1>0, <2>1, <2>2, <2>3, <2>4, AppendFacts
<1>2. CASE AuditDispatch
  <2> DEFINE e == [place |-> "pending", ret |-> Len(returns), sup |-> 0,
                   round |-> round, by |-> "dispatch", seen |-> 0]
  <2>1. audits' = Append(audits, e) /\ auditRef' = Len(audits) + 1 /\ verdicts' = verdicts
    BY <1>2 DEF AuditDispatch
  <2>2. Len(returns) \in 1..MaxReturns
    BY <1>0, <1>2, EmptySeq, Lengths DEF AuditDispatch, TypeInv, TypeOK
  <2>3. e \in AuditRound /\ e.by = "dispatch" /\ e.ret = Len(returns)
    BY <1>0, <2>2, BoundsAssumption DEF AuditRound, Places, TypeInv, TypeOK
  <2> HIDE DEF e
  <2> QED
    BY <1>0, <1>2, <2>1, <2>3, AppendFacts
<1> QED
  BY <1>1, <1>2, AuditsStep

(* The linked audit card is the newest one.  A derived round replaces the  *)
(* one before it.  A round dispatched by hand right after a derived one    *)
(* that is still to be judged was released by the FAIL of an older round.  *)
FlightInv ==
    /\ auditRef = Len(audits)
    /\ \A k \in 2..Len(audits) : audits[k].by = "return" => audits[k].sup = k - 1
    /\ \A j \in 1..Len(audits) :
          /\ j + 1 <= Len(audits) /\ audits[j + 1].by = "dispatch"
          /\ audits[j].by = "return" /\ Open(j) /\ ~Judged(j)
          => \E i \in 1..Len(verdicts) : verdicts[i].value = "FAIL" /\ verdicts[i].audit < j

LEMMA FlightStep == TypeInv /\ FlightInv /\ [Next]_vars => FlightInv'
<1> SUFFICES ASSUME TypeInv, FlightInv, [Next]_vars PROVE FlightInv'
  OBVIOUS
<1>0. /\ Len(audits) \in Nat /\ Len(audits') \in {Len(audits), Len(audits) + 1}
      /\ \A n \in 1..Len(audits) : Kept(n)
  BY AuditsStep
<1>1. auditRef' = Len(audits')
  <2>1. CASE Len(audits') = Len(audits) + 1
    BY <2>1, AddedRound
  <2>2. CASE Len(audits') = Len(audits)
    <3>1. auditRef' = auditRef \/ auditRef' = Len(audits') \/ Len(audits') = Len(audits) + 1
      <4>1. ASSUME NEW outcome \in {"done", "blocked"}, FileReturn(outcome)
            PROVE  auditRef' = auditRef \/ Derived(outcome)
        BY <4>1 DEF FileReturn, Derived
      <4>2. ASSUME NEW e, audits' = Append(audits, e) PROVE Len(audits') = Len(audits) + 1
        BY <4>2 DEF TypeInv, TypeOK
      <4>3. ASSUME NEW outcome \in {"done", "blocked"}, Derived(outcome)
            PROVE  Len(audits') = Len(audits) + 1
        BY <4>2, <4>3 DEF Derived, FileReturn
      <4>4. AuditDispatch => Len(audits') = Len(audits) + 1
        BY <4>2 DEF AuditDispatch
      <4> QED
        BY <4>1, <4>3, <4>4 DEF Next, vars, Claim, Commit, RegisterRework, ClaimAudit,
           WithdrawAudit, AuditVerdict, CheckBranch, Finalize, Block, Reopen, Close, Withdraw
    <3> QED
      BY <1>0, <2>2, <3>1 DEF FlightInv
  <2> QED
    BY <1>0, <2>1, <2>2
<1>2. ASSUME NEW k \in 2..Len(audits'), audits'[k].by = "return"
      PROVE  audits'[k].sup = k - 1
  <2>1. CASE k \in 1..Len(audits)
    BY <1>0, <1>2, <2>1 DEF Kept, FlightInv
  <2>2. CASE k \notin 1..Len(audits)
    <3>1. Len(audits') = Len(audits) + 1 /\ k = Len(audits') /\ Len(audits) # 0
      BY <1>0, <2>2
    <3> QED
      BY <1>0, <1>2, <3>1, AddedRound
  <2> QED
    BY <2>1, <2>2
<1>3. ASSUME NEW j \in 1..Len(audits'), j + 1 <= Len(audits'), audits'[j + 1].by = "dispatch",
             audits'[j].by = "return", Open(j)', ~Judged(j)'
      PROVE  \E i \in 1..Len(verdicts') : verdicts'[i].value = "FAIL" /\ verdicts'[i].audit < j
  <2>1. j \in 1..Len(audits) /\ audits[j].by = "return" /\ Open(j)
    BY <1>0, <1>3 DEF Kept
  <2>2. ~Judged(j)
    BY <1>3, VerdictsGrow DEF Judged
  <2>3. \E i \in 1..Len(verdicts) : verdicts[i].value = "FAIL" /\ verdicts[i].audit < j
    <3>1. CASE j + 1 <= Len(audits)
      <4>1. audits[j + 1].by = "dispatch"
        BY <1>0, <1>3, <3>1 DEF Kept
      <4> QED
        BY <2>1, <2>2, <3>1, <4>1 DEF FlightInv
    <3>2. CASE ~(j + 1 <= Len(audits))
      <4>1. Len(audits') = Len(audits) + 1 /\ j = Len(audits) /\ j + 1 = Len(audits')
        BY <1>0, <1>3, <2>1, <3>2
      <4>2. AuditDispatch
        BY <1>3, <4>1, AddedRound
      <4>3. ChainValid
        BY <1>0, <2>1, <4>1 DEF ChainValid, FlightInv, Open
      <4>4. verdicts # <<>> /\ Latest(verdicts).value # "PASS"
        BY <4>2, <4>3 DEF AuditDispatch, DispatchReleased, LatestPasses
      <4> DEFINE i == Len(verdicts)
      <4>5. verdicts \in Seq(Verdict) /\ i \in 1..Len(verdicts)
        BY <4>4, EmptySeq DEF TypeInv, TypeOK
      <4>6. verdicts[i] \in Verdict
        BY <4>5, ElementOfSeq
      <4>7. verdicts[i].value = "FAIL"
        BY <4>4, <4>6 DEF Verdict, Latest
      <4>8. verdicts[i].audit \in 1..Len(audits) /\ verdicts[i].audit # j
        BY <2>2, <4>5 DEF TypeInv, VerdictsDistinct, Judged
      <4>9. verdicts[i].audit < j
        BY <1>0, <4>1, <4>8
      <4> QED
        BY <4>5, <4>7, <4>9
    <3> QED
      BY <3>1, <3>2
  <2> QED
    BY <2>3, VerdictsGrow
<1> QED
  BY <1>1, <1>2, <1>3 DEF FlightInv

LEMMA FlightMeans == TypeInv /\ FlightInv => OneDerivedRoundInFlight
<1> SUFFICES ASSUME TypeInv, FlightInv,
                    NEW j \in 1..Len(audits), NEW k \in 1..Len(audits), j < k,
                    audits[j].by = "return", Open(j), ~Superseded(j), ~Judged(j)
             PROVE  /\ audits[j + 1].by = "dispatch"
                    /\ \E i \in 1..Len(verdicts) :
                          verdicts[i].value = "FAIL" /\ verdicts[i].audit < j
  BY DEF OneDerivedRoundInFlight
<1>1. Len(audits) \in Nat /\ j + 1 \in 2..Len(audits) /\ j + 1 \in (j + 1)..Len(audits)
  BY Lengths DEF TypeInv
<1>2. audits[j + 1] \in AuditRound
  BY <1>1, AuditEntries DEF TypeInv
<1>3. audits[j + 1].by # "return"
  <2>1. ASSUME audits[j + 1].by = "return" PROVE FALSE
    <3>1. audits[j + 1].sup = (j + 1) - 1
      BY <1>1, <2>1 DEF FlightInv
    <3> QED
      BY <1>1, <3>1 DEF Superseded
  <2> QED
    BY <2>1
<1>4. audits[j + 1].by = "dispatch"
  BY <1>2, <1>3 DEF AuditRound
<1> QED
  BY <1>1, <1>4 DEF FlightInv

(* Two derived rounds are in flight only where a dispatch by hand, released *)
(* by the FAIL of an older round, came between them.                       *)
THEOREM FlightsAreDispatched == Spec => []OneDerivedRoundInFlight
<1>1. Init => FlightInv
  <2>1. Init => auditRef = 0 /\ Len(audits) = 0
    BY EmptySeq DEF Init
  <2> QED
    BY <2>1 DEF FlightInv
<1> QED
  BY <1>1, FlightStep, FlightMeans, TypeInvariant, PTL DEF Spec
-----------------------------------------------------------------------------
(* Every audit round reviews a return that has been filed. *)
RetsExist == \A k \in 1..Len(audits) : audits[k].ret \in 1..Len(returns)

(* Only a return adds a return, and it is the one it reports.              *)
LEMMA ReturnsGrow ==
    ASSUME TypeInv, [Next]_vars
    PROVE  /\ Len(returns) \in Nat
           /\ \/ returns' = returns
              \/ \E outcome \in {"done", "blocked"} :
                    /\ FileReturn(outcome)
                    /\ Len(returns') = Len(returns) + 1
                    /\ \A i \in 1..Len(returns) : returns'[i] = returns[i]
                    /\ returns'[Len(returns) + 1].tip = tip
                    /\ returns'[Len(returns) + 1].outcome = outcome
<1>1. ASSUME NEW outcome \in {"done", "blocked"}, FileReturn(outcome)
      PROVE  /\ Len(returns') = Len(returns) + 1
             /\ \A i \in 1..Len(returns) : returns'[i] = returns[i]
             /\ returns'[Len(returns) + 1].tip = tip
             /\ returns'[Len(returns) + 1].outcome = outcome
  <2> DEFINE ret == [round |-> round, tip |-> tip, outcome |-> outcome]
  <2>1. ret \in Return /\ returns \in Seq(Return)
    BY <1>1, BoundsAssumption DEF TypeInv, TypeOK, Return
  <2>2. returns' = Append(returns, ret) /\ ret.tip = tip /\ ret.outcome = outcome
    BY <1>1 DEF FileReturn
  <2> HIDE DEF ret
  <2> QED
    BY <2>1, <2>2, AppendFacts
<1>2. Len(returns) \in Nat
  BY Lengths DEF TypeInv
<1> QED
  BY <1>1, <1>2 DEF Next, vars, Claim, Commit, RegisterRework, AuditDispatch,
     ClaimAudit, WithdrawAudit, AuditVerdict, CheckBranch, Finalize, Block, Reopen, Close, Withdraw

LEMMA RetsStep == TypeInv /\ RetsExist /\ [Next]_vars => RetsExist'
<1> SUFFICES ASSUME TypeInv, RetsExist, [Next]_vars, NEW k \in 1..Len(audits')
             PROVE  audits'[k].ret \in 1..Len(returns')
  BY DEF RetsExist
<1>0. /\ Len(audits) \in Nat /\ Len(audits') \in {Len(audits), Len(audits) + 1}
      /\ \A n \in 1..Len(audits) : Kept(n)
      /\ Len(returns) \in Nat
  BY AuditsStep, ReturnsGrow
<1>1. Len(returns') \in {Len(returns), Len(returns) + 1}
  BY <1>0, ReturnsGrow
<1>2. CASE k \in 1..Len(audits)
  BY <1>0, <1>1, <1>2 DEF Kept, RetsExist
<1>3. CASE k \notin 1..Len(audits)
  <2>1. Len(audits') = Len(audits) + 1 /\ k = Len(audits')
    BY <1>0, <1>3
  <2>2. CASE AuditDispatch /\ audits'[k].ret = Len(returns)
    <3>1. returns # <<>> /\ returns' = returns
      BY <2>2 DEF AuditDispatch
    <3>2. Len(returns) # 0
      BY <3>1, EmptySeq DEF TypeInv, TypeOK
    <3> QED
      BY <1>0, <2>2, <3>1, <3>2
  <2>3. ASSUME NEW outcome \in {"done", "blocked"}, Derived(outcome),
               audits'[k].ret = Len(returns) + 1
        PROVE  audits'[k].ret \in 1..Len(returns')
    <3>1. returns' = Append(returns, [round |-> round, tip |-> tip, outcome |-> outcome])
      BY <2>3 DEF Derived, FileReturn
    <3>2. Len(returns') = Len(returns) + 1
      BY <3>1 DEF TypeInv, TypeOK
    <3> QED
      BY <1>0, <2>3, <3>2
  <2> QED
    BY <2>1, <2>2, <2>3, AddedRound
<1> QED
  BY <1>2, <1>3

(* What a return is to be reviewed on, read from the state before it: the  *)
(* round in flight is on the tip, or it is superseded by one that is.      *)
LEMMA DeliveryStep ==
    ASSUME TypeInv, RetsExist, [Next]_vars, Len(returns') > Len(returns), Live,
           Latest(returns').outcome = "done", Audit # "none", audits' # <<>>,
           Latest(audits').by = "return", Latest(audits').round = round,
           ~JudgedThisRound(Len(audits'))
    PROVE  returns'[Latest(audits').ret].tip = tip
<1>1. PICK outcome \in {"done", "blocked"} :
         /\ FileReturn(outcome)
         /\ Len(returns') = Len(returns) + 1
         /\ \A i \in 1..Len(returns) : returns'[i] = returns[i]
         /\ returns'[Len(returns) + 1].tip = tip
         /\ returns'[Len(returns) + 1].outcome = outcome
  <2>1. Len(returns) \in Nat /\ returns' # returns
    BY ReturnsGrow
  <2> QED
    BY <2>1, ReturnsGrow
<1>2. outcome = "done"
  BY <1>1 DEF Latest
<1>3. Len(audits) \in Nat /\ audits \in Seq(AuditRound)
  BY Lengths DEF TypeInv, TypeOK
<1>4. CASE Derives(outcome)
  <2> DEFINE e == [place |-> "pending", ret |-> Len(returns) + 1,
                   sup |-> IF Supersedes(Len(audits)) THEN Len(audits) ELSE 0,
                   round |-> round, by |-> "return", seen |-> 0]
  <2>1. audits' = Append(audits, e) /\ e.ret = Len(returns) + 1
    BY <1>1, <1>4 DEF FileReturn
  <2> HIDE DEF e
  <2>2. Latest(audits') = e
    BY <1>3, <2>1 DEF Latest
  <2> QED
    BY <1>1, <2>1, <2>2
<1>5. CASE ~Derives(outcome)
  <2> DEFINE k == Len(audits)
  <2>1. audits' = audits
    BY <1>1, <1>5 DEF FileReturn
  <2>2. k \in 1..Len(audits)
    BY <1>3, <2>1, EmptySeq
  <2>3. ~ReturnStale(k)
    BY <1>2, <1>5, <2>2 DEF Derives, Supersedes
  <2>4. \A b \in Bound(k) : b = tip
    BY <2>1, <2>3 DEF ReturnStale, Latest
  <2>5. returns[audits[k].ret].tip = tip
    BY <2>4 DEF Bound
  <2>6. audits[k].ret \in 1..Len(returns)
    BY <2>2 DEF RetsExist
  <2> QED
    BY <1>1, <2>1, <2>5, <2>6 DEF Latest
<1> QED
  BY <1>4, <1>5

(* No delivery leaves an audit of this card round looking at a commit that *)
(* is no longer the tip.                                                   *)
THEOREM DeliveriesAreReviewed == Spec => DeliveryIsReviewed
<1> DEFINE A == Len(returns') > Len(returns) /\ Live /\ Latest(returns').outcome = "done"
          /\ Audit # "none" /\ audits' # <<>>
          => LET r == Latest(audits')
             IN  r.by = "return" /\ r.round = round /\ r.place \in {"pending", "claimed"}
                   /\ ~JudgedThisRound(Len(audits'))
                   => returns'[r.ret].tip = tip
<1>1. Init => RetsExist
  <2>1. Init => Len(audits) = 0
    BY EmptySeq DEF Init
  <2> QED
    BY <2>1 DEF RetsExist
<1>2. TypeInv /\ RetsExist /\ [Next]_vars => A
  BY DeliveryStep
<1> HIDE DEF A
<1>3. Spec => [][A]_vars
  BY <1>1, <1>2, RetsStep, TypeInvariant, PTL DEF Spec
<1> QED
  BY <1>3 DEF A, DeliveryIsReviewed
=============================================================================
