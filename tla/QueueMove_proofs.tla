-------------------------- MODULE QueueMove_proofs --------------------------
(***************************************************************************)
(* Proofs about QueueMove for all values of its constants.                 *)
(*                                                                         *)
(* A move is the list of its writes; Shape says what all that matters      *)
(* about their order, so that it holds for what is left of a move too.     *)
(* With one process, OneInv says how the files stand to the move in        *)
(* execution.  With several, Chances collects who has, or may still get,   *)
(* records: a set that a gate claim enters only by unlinking the card.     *)
(***************************************************************************)
EXTENDS QueueMove, SequenceTheorems, FiniteSetTheorems, TLAPS

In(e, s) == \E i \in 1..Len(s) : s[i] = e

Shape(s) ==
    /\ \A i, j \in 1..Len(s) : s[i] = s[j] => i = j
    /\ \A i \in 2..Len(s) : /\ s[i] = "unlink" => s[i - 1] = "write"
                            /\ s[i] # "plan"
                            /\ s[i] = "record" => i = Len(s)

Procs(n) == [todo : Seq(Step), from : Dir, to : Dir, claim : 0..n]

ProcInv == \A p \in Process :
    /\ Shape(proc[p].todo)
    /\ ~IsIdle(p) => proc[p].from # proc[p].to /\ <<proc[p].from, proc[p].to>> \in LegalMoves
    /\ In("rewrite", proc[p].todo) \/ In("record", proc[p].todo)
          => proc[p].from = "pending" /\ proc[p].to = "claimed" /\ proc[p].claim # NoClaim
    /\ ~CliClaims /\ Doing(p, "record") => Len(proc[p].todo) = 1

(* The claim ids on the files have been given out. *)
FileInv == \A d \in Copies : file[d] \in 0..issued

IInv == TypeOK /\ ProcInv /\ FileInv
-----------------------------------------------------------------------------
LEMMA PlanShapes ==
    /\ \A s \in {GateClaim, CliClaim, PlainMove} : s \in Seq(Step) /\ s # <<>> /\ Shape(s)
    /\ \A e : In(e, PlainMove) <=> e \in {"write", "unlink"}
    /\ \A s \in {GateClaim, CliClaim} : \A e : In(e, s) => e \in Step
    /\ \A s \in {GateClaim, CliClaim} : In("record", s) /\ In("unlink", s)
    /\ Head(GateClaim) = "plan" /\ Head(CliClaim) = "record" /\ Head(PlainMove) = "write"
    /\ Len(GateClaim) = 5 /\ Len(CliClaim) = 4 /\ Len(PlainMove) = 2
<1>1. GateClaim \in Seq(Step) /\ CliClaim \in Seq(Step) /\ PlainMove \in Seq(Step)
  BY DEF GateClaim, CliClaim, PlainMove, Step
<1>2. Len(GateClaim) = 5 /\ Len(CliClaim) = 4 /\ Len(PlainMove) = 2
  BY DEF GateClaim, CliClaim, PlainMove
<1>3. Head(GateClaim) = "plan" /\ Head(CliClaim) = "record" /\ Head(PlainMove) = "write"
  BY DEF GateClaim, CliClaim, PlainMove
<1>4. Shape(GateClaim)
  <2>1. GateClaim[1] = "plan" /\ GateClaim[2] = "write" /\ GateClaim[3] = "unlink"
        /\ GateClaim[4] = "rewrite" /\ GateClaim[5] = "record"
    BY DEF GateClaim
  <2>2. 1..5 = {1, 2, 3, 4, 5} /\ 2..5 = {2, 3, 4, 5}
    OBVIOUS
  <2> QED
    BY <1>2, <2>1, <2>2 DEF Shape
<1>5. Shape(CliClaim)
  <2>1. CliClaim[1] = "record" /\ CliClaim[2] = "write" /\ CliClaim[3] = "unlink"
        /\ CliClaim[4] = "rewrite"
    BY DEF CliClaim
  <2>2. 1..4 = {1, 2, 3, 4} /\ 2..4 = {2, 3, 4}
    OBVIOUS
  <2> QED
    BY <1>2, <2>1, <2>2 DEF Shape
<1>6. PlainMove[1] = "write" /\ PlainMove[2] = "unlink" /\ 1..2 = {1, 2} /\ 2..2 = {2}
  BY DEF PlainMove
<1>7. Shape(PlainMove) /\ \A e : In(e, PlainMove) <=> e \in {"write", "unlink"}
  BY <1>2, <1>6 DEF Shape, In
<1>8. \A s \in {GateClaim, CliClaim} : \A e : In(e, s) => e \in Step
  <2>1. \A s \in Seq(Step) : \A e : In(e, s) => e \in Step
    BY ElementOfSeq DEF In
  <2> QED
    BY <1>1, <2>1
<1>9. \A s \in {GateClaim, CliClaim} : In("record", s) /\ In("unlink", s)
  <2>1. GateClaim[3] = "unlink" /\ GateClaim[5] = "record"
        /\ CliClaim[1] = "record" /\ CliClaim[3] = "unlink"
    BY DEF GateClaim, CliClaim
  <2> QED
    BY <1>2, <2>1 DEF In
<1>10. GateClaim # <<>> /\ CliClaim # <<>> /\ PlainMove # <<>>
  BY <1>2
<1> QED
  BY <1>1, <1>2, <1>3, <1>4, <1>5, <1>7, <1>8, <1>9, <1>10

(* What is left of a move after its first write. *)
LEMMA TailFacts ==
    ASSUME NEW s \in Seq(Step), s # <<>>, Shape(s)
    PROVE  /\ Tail(s) \in Seq(Step) /\ Shape(Tail(s))
           /\ \A e : In(e, Tail(s)) <=> In(e, s) /\ e # Head(s)
           /\ In(Head(s), s)
           /\ Len(Tail(s)) = Len(s) - 1 /\ Len(s) \in Nat \ {0}
           /\ Tail(s) # <<>> /\ Head(Tail(s)) = "unlink" => Head(s) = "write"
           /\ Tail(s) # <<>> => Head(Tail(s)) # "plan"
           /\ Tail(s) # <<>> /\ Head(Tail(s)) = "record" => Len(Tail(s)) = 1
<1>1. PICK n \in Nat \ {0} : n = Len(s)
  OBVIOUS
<1>2. PICK t \in Seq(Step) : t = Tail(s) /\ Len(t) = n - 1 /\ (\A i \in 1..(n - 1) : t[i] = s[i + 1])
                              /\ Head(s) = s[1]
  <2>1. /\ Tail(s) \in Seq(Step) /\ Len(Tail(s)) = n - 1
        /\ \A i \in 1..(n - 1) : Tail(s)[i] = s[i + 1]
        /\ Head(s) = s[1]
    BY <1>1, HeadTailProperties
  <2> QED
    BY <2>1
<1>3. /\ \A i, j \in 1..n : s[i] = s[j] => i = j
      /\ \A i \in 2..n : /\ s[i] = "unlink" => s[i - 1] = "write"
                         /\ s[i] # "plan"
                         /\ s[i] = "record" => i = n
  BY <1>1 DEF Shape
<1>4. Shape(t)
  <2>1. \A i, j \in 1..(n - 1) : t[i] = t[j] => i = j
    BY <1>1, <1>2, <1>3
  <2>2. ASSUME NEW i \in 2..(n - 1)
        PROVE  (t[i] = "unlink" => t[i - 1] = "write") /\ t[i] # "plan" /\ (t[i] = "record" => i = n - 1)
    <3>1. t[i] = s[i + 1] /\ i + 1 \in 2..n /\ i - 1 \in 1..(n - 1) /\ t[i - 1] = s[(i - 1) + 1]
      BY <1>1, <1>2
    <3>2. (i - 1) + 1 = i /\ (i + 1) - 1 = i
      OBVIOUS
    <3> QED
      BY <1>1, <1>3, <3>1, <3>2
  <2> QED
    BY <1>2, <2>1, <2>2 DEF Shape
<1>5. \A e : In(e, t) <=> In(e, s) /\ e # s[1]
  <2>1. ASSUME NEW e, In(e, t) PROVE In(e, s) /\ e # s[1]
    <3>1. PICK i \in 1..(n - 1) : t[i] = e
      BY <1>2, <2>1 DEF In
    <3>2. i + 1 \in 1..n /\ i + 1 # 1 /\ 1 \in 1..n /\ s[i + 1] = e
      BY <1>1, <1>2, <3>1
    <3> QED
      BY <1>1, <1>3, <3>2 DEF In
  <2>2. ASSUME NEW e, In(e, s), e # s[1] PROVE In(e, t)
    <3>1. PICK i \in 1..n : s[i] = e
      BY <1>1, <2>2 DEF In
    <3>2. i - 1 \in 1..(n - 1) /\ (i - 1) + 1 = i
      BY <1>1, <2>2, <3>1
    <3>3. t[i - 1] = e
      BY <1>2, <3>1, <3>2
    <3> QED
      BY <1>2, <3>2, <3>3 DEF In
  <2> QED
    BY <2>1, <2>2
<1>6. In(s[1], s)
  BY <1>1 DEF In
<1>7. ASSUME t # <<>>
      PROVE  /\ Head(t) = "unlink" => s[1] = "write"
             /\ Head(t) # "plan"
             /\ Head(t) = "record" => Len(t) = 1
  <2>1. n - 1 > 0 /\ Head(t) = t[1]
    BY <1>1, <1>2, <1>7
  <2>2. t[1] = s[2] /\ 2 \in 2..n /\ 2 - 1 = 1
    BY <1>1, <1>2, <2>1
  <2>3. /\ s[2] = "unlink" => s[1] = "write"
        /\ s[2] # "plan"
        /\ s[2] = "record" => 2 = n
    BY <1>3, <2>2
  <2> QED
    BY <1>2, <2>1, <2>2, <2>3
<1> QED
  BY <1>1, <1>2, <1>4, <1>5, <1>6, <1>7
-----------------------------------------------------------------------------
(* Taking the next step of a move, or giving it up. *)
LEMMA DoneFacts ==
    ASSUME IInv, NEW p \in Process, ~IsIdle(p), proc' = Done(p)
    PROVE  /\ proc' \in [Process -> Procs(issued)]
           /\ \A q \in Process \ {p} : proc'[q] = proc[q]
           /\ proc'[p].from = proc[p].from /\ proc'[p].to = proc[p].to
           /\ proc'[p].claim = proc[p].claim
           /\ proc'[p].todo = Tail(proc[p].todo)
           /\ Shape(proc'[p].todo)
           /\ \A e : In(e, proc'[p].todo) <=> In(e, proc[p].todo) /\ e # Head(proc[p].todo)
           /\ ~IsIdle(p)' => /\ Head(proc'[p].todo) = "unlink" => Head(proc[p].todo) = "write"
                             /\ Head(proc'[p].todo) # "plan"
                             /\ Head(proc'[p].todo) = "record" => Len(proc'[p].todo) = 1
           /\ Len(proc[p].todo) = 1 => IsIdle(p)'
<1>1. proc \in [Process -> Procs(issued)] /\ proc[p] \in Procs(issued)
  BY DEF IInv, TypeOK, Procs
<1>2. PICK s \in Seq(Step) : s = proc[p].todo /\ s # <<>> /\ Shape(s)
  BY <1>1 DEF IInv, ProcInv, IsIdle, Procs
<1>3. /\ Tail(s) \in Seq(Step) /\ Shape(Tail(s))
      /\ \A e : In(e, Tail(s)) <=> In(e, s) /\ e # Head(s)
      /\ Len(Tail(s)) = Len(s) - 1 /\ Len(s) \in Nat \ {0}
      /\ Tail(s) # <<>> => /\ Head(Tail(s)) = "unlink" => Head(s) = "write"
                           /\ Head(Tail(s)) # "plan"
                           /\ Head(Tail(s)) = "record" => Len(Tail(s)) = 1
  BY <1>2, TailFacts
<1>4. PICK t \in Seq(Step) : t = Tail(s)
  BY <1>3
<1>5. proc' = [proc EXCEPT ![p].todo = t]
  BY <1>2, <1>4 DEF Done
<1>6. /\ proc' \in [Process -> Procs(issued)]
      /\ proc'[p].todo = t /\ proc'[p].from = proc[p].from /\ proc'[p].to = proc[p].to
      /\ proc'[p].claim = proc[p].claim
      /\ \A q \in Process \ {p} : proc'[q] = proc[q]
  BY <1>1, <1>5 DEF Procs
<1>7. Len(s) = 1 => t = <<>>
  BY <1>3, <1>4
<1> QED
  BY <1>2, <1>3, <1>4, <1>6, <1>7 DEF IsIdle

LEMMA IdleFacts ==
    /\ \A n \in Nat : Idle \in Procs(n)
    /\ Idle.todo = <<>> /\ Shape(<<>>) /\ \A e : ~In(e, <<>>)
<1>1. <<>> \in Seq(Step) /\ Len(<<>>) = 0
  OBVIOUS
<1>2. \A n \in Nat : Idle \in Procs(n)
  BY <1>1 DEF Idle, Procs, Dir, NoClaim
<1> QED
  BY <1>1, <1>2 DEF Idle, Shape, In

LEMMA GivenUpFacts ==
    ASSUME IInv, NEW p \in Process, proc' = GivenUp(p)
    PROVE  /\ proc' \in [Process -> Procs(issued)]
           /\ \A q \in Process \ {p} : proc'[q] = proc[q]
           /\ proc'[p] = Idle /\ IsIdle(p)' /\ ~Doing(p, "record")'
<1>1. proc \in [Process -> Procs(issued)] /\ issued \in Nat
  BY QueueMoveAssumption DEF IInv, TypeOK, Procs
<1>2. proc' = [proc EXCEPT ![p] = Idle] /\ Idle \in Procs(issued)
  BY <1>1, IdleFacts DEF GivenUp
<1> QED
  BY <1>1, <1>2, IdleFacts DEF IsIdle, Doing

(* The invariant of the processes is kept by a step of one of them. *)
LEMMA ProcDone ==
    ASSUME IInv, NEW p \in Process, ~IsIdle(p), proc' = Done(p)
    PROVE  ProcInv'
<1> SUFFICES ASSUME NEW q \in Process
             PROVE  /\ Shape(proc'[q].todo)
                    /\ proc'[q].todo # <<>> => /\ proc'[q].from # proc'[q].to
                                               /\ <<proc'[q].from, proc'[q].to>> \in LegalMoves
                    /\ In("rewrite", proc'[q].todo) \/ In("record", proc'[q].todo)
                          => /\ proc'[q].from = "pending" /\ proc'[q].to = "claimed"
                             /\ proc'[q].claim # NoClaim
                    /\ ~CliClaims /\ proc'[q].todo # <<>> /\ Head(proc'[q].todo) = "record"
                          => Len(proc'[q].todo) = 1
  BY DEF ProcInv, IsIdle, Doing
<1>1. CASE q = p
  <2>1. /\ Shape(proc'[p].todo) /\ proc'[p].from = proc[p].from /\ proc'[p].to = proc[p].to
        /\ proc'[p].claim = proc[p].claim
        /\ \A e : In(e, proc'[p].todo) => In(e, proc[p].todo)
        /\ proc'[p].todo # <<>> /\ Head(proc'[p].todo) = "record" => Len(proc'[p].todo) = 1
    BY DoneFacts DEF IsIdle
  <2>2. /\ proc[p].from # proc[p].to /\ <<proc[p].from, proc[p].to>> \in LegalMoves
        /\ In("rewrite", proc[p].todo) \/ In("record", proc[p].todo)
              => proc[p].from = "pending" /\ proc[p].to = "claimed" /\ proc[p].claim # NoClaim
    BY DEF IInv, ProcInv
  <2> QED
    BY <1>1, <2>1, <2>2
<1>2. CASE q # p
  BY <1>2, DoneFacts DEF IInv, ProcInv, IsIdle, Doing
<1> QED
  BY <1>1, <1>2

LEMMA ProcGivenUp ==
    ASSUME IInv, NEW p \in Process, proc' = GivenUp(p)
    PROVE  ProcInv'
<1> SUFFICES ASSUME NEW q \in Process
             PROVE  /\ Shape(proc'[q].todo)
                    /\ proc'[q].todo # <<>> => /\ proc'[q].from # proc'[q].to
                                               /\ <<proc'[q].from, proc'[q].to>> \in LegalMoves
                    /\ In("rewrite", proc'[q].todo) \/ In("record", proc'[q].todo)
                          => /\ proc'[q].from = "pending" /\ proc'[q].to = "claimed"
                             /\ proc'[q].claim # NoClaim
                    /\ ~CliClaims /\ proc'[q].todo # <<>> /\ Head(proc'[q].todo) = "record"
                          => Len(proc'[q].todo) = 1
  BY DEF ProcInv, IsIdle, Doing
<1>1. CASE q = p
  BY <1>1, GivenUpFacts, IdleFacts
<1>2. CASE q # p
  BY <1>2, GivenUpFacts DEF IInv, ProcInv, IsIdle, Doing
<1> QED
  BY <1>1, <1>2

(* The moves, as they are planned. *)
Started(p, j) ==
    /\ proc' = [proc EXCEPT ![p] = j]
    /\ j \in Procs(MaxClaims)
    /\ j.from # j.to /\ <<j.from, j.to>> \in LegalMoves
    /\ \/ j.todo = PlainMove
       \/ /\ j.todo = GateClaim \/ (CliClaims /\ j.todo = CliClaim)
          /\ j.from = "pending" /\ j.to = "claimed" /\ j.claim # NoClaim

LEMMA ProcStarted ==
    ASSUME IInv, NEW p \in Process, NEW j, Started(p, j)
    PROVE  /\ ProcInv' /\ proc'[p] = j /\ j.todo # <<>>
           /\ \A q \in Process \ {p} : proc'[q] = proc[q]
<1>1. proc'[p] = j /\ \A q \in Process \ {p} : proc'[q] = proc[q]
  BY DEF IInv, TypeOK, Started
<1>2. Shape(j.todo) /\ j.todo # <<>>
  BY PlanShapes DEF Started
<1>3. In("rewrite", j.todo) \/ In("record", j.todo) => j.from = "pending" /\ j.to = "claimed" /\ j.claim # NoClaim
  <2>1. ~In("rewrite", PlainMove) /\ ~In("record", PlainMove)
    BY PlanShapes
  <2> QED
    BY <2>1 DEF Started
<1>4. ~CliClaims => Head(j.todo) # "record"
  BY PlanShapes DEF Started
<1> SUFFICES ASSUME NEW q \in Process
             PROVE  /\ Shape(proc'[q].todo)
                    /\ proc'[q].todo # <<>> => /\ proc'[q].from # proc'[q].to
                                               /\ <<proc'[q].from, proc'[q].to>> \in LegalMoves
                    /\ In("rewrite", proc'[q].todo) \/ In("record", proc'[q].todo)
                          => /\ proc'[q].from = "pending" /\ proc'[q].to = "claimed"
                             /\ proc'[q].claim # NoClaim
                    /\ ~CliClaims /\ proc'[q].todo # <<>> /\ Head(proc'[q].todo) = "record"
                          => Len(proc'[q].todo) = 1
  BY <1>1, <1>2 DEF ProcInv, IsIdle, Doing
<1>5. CASE q = p
  BY <1>1, <1>2, <1>3, <1>4, <1>5 DEF Started
<1>6. CASE q # p
  BY <1>1, <1>6 DEF IInv, ProcInv, IsIdle, Doing
<1> QED
  BY <1>5, <1>6

(* What each command plans. *)
LEMMA ConfirmPlans ==
    ASSUME IInv, NEW p \in Process, NEW c \in tokens, Confirm(p, c)
    PROVE  \E j \in Procs(issued) : /\ Started(p, j) /\ j.todo = GateClaim /\ j.claim = c
                                   /\ j.from = "pending" /\ j.to = "claimed"
<1>1. c \in 0..issued /\ c \in 0..MaxClaims /\ c # NoClaim
  BY QueueMoveAssumption DEF IInv, TypeOK, NoClaim
<1>2. PICK j : j = [todo |-> GateClaim, from |-> "pending", to |-> "claimed", claim |-> c]
  OBVIOUS
<1>3. j \in Procs(issued) /\ j \in Procs(MaxClaims)
  BY <1>1, <1>2, PlanShapes DEF Procs, Dir
<1>4. j.todo = GateClaim /\ j.from = "pending" /\ j.to = "claimed" /\ j.claim = c
  BY <1>2
<1>5. proc' = [proc EXCEPT ![p] = j]
  BY <1>2 DEF Confirm
<1> QED
  BY <1>1, <1>3, <1>4, <1>5 DEF Started, LegalMoves

LEMMA CliPlans ==
    ASSUME IInv, NEW p \in Process, PlanCliClaim(p)
    PROVE  /\ issued' \in 0..MaxClaims /\ issued' = issued + 1
           /\ \E j \in Procs(issued') : /\ Started(p, j) /\ j.todo = CliClaim /\ j.claim = issued'
                                       /\ j.from = "pending" /\ j.to = "claimed" /\ CliClaims
<1>1. PICK n \in 0..MaxClaims : n = issued + 1 /\ n # NoClaim
  BY QueueMoveAssumption DEF IInv, TypeOK, PlanCliClaim, NoClaim
<1>2. PICK j : j = [todo |-> CliClaim, from |-> "pending", to |-> "claimed", claim |-> n]
  OBVIOUS
<1>3. issued' = n /\ CliClaims
  BY <1>1 DEF PlanCliClaim
<1>4. j \in Procs(n) /\ j \in Procs(MaxClaims)
  BY <1>1, <1>2, PlanShapes, QueueMoveAssumption DEF Procs, Dir
<1>5. j.todo = CliClaim /\ j.from = "pending" /\ j.to = "claimed" /\ j.claim = n
  BY <1>2
<1>6. proc' = [proc EXCEPT ![p] = j]
  BY <1>1, <1>2 DEF PlanCliClaim
<1>7. Started(p, j)
  BY <1>1, <1>3, <1>4, <1>5, <1>6 DEF Started, LegalMoves
<1> QED
  BY <1>1, <1>3, <1>4, <1>5, <1>7

Moves == {"block", "complete", "reopen", "withdraw"}

LEMMA MovePlans ==
    ASSUME IInv, NEW p \in Process, NEW move \in Moves, PlanMove(p, move)
    PROVE  /\ reopens' \in 0..MaxReopens
           /\ reopens' = IF move = "reopen" THEN reopens + 1 ELSE reopens
           /\ \E j \in Procs(issued) :
                 /\ Started(p, j) /\ j.todo = PlainMove
                 /\ j.claim = NoClaim \/ j.claim = file[j.from]
                 /\ j.to # "claimed" /\ (j.to = "pending" <=> move = "reopen")
                 /\ j.from \in Copies /\ (~ByPath => Copies = {j.from})
<1>1. PICK d \in Sources(move) :
          /\ IF move \in {"block", "reopen"} THEN Selected(d, Target(move)) ELSE SoleCopy(d)
          /\ proc' = [proc EXCEPT ![p] =
                        [todo |-> PlainMove, from |-> d, to |-> Target(move),
                         claim |-> IF move = "reopen" THEN NoClaim ELSE file[d]]]
  BY DEF PlanMove
<1>2. /\ d \in Dir /\ Target(move) \in Dir /\ d # Target(move)
      /\ <<d, Target(move)>> \in LegalMoves
      /\ Target(move) # "claimed" /\ (Target(move) = "pending" <=> move = "reopen")
  BY <1>1 DEF Moves, Sources, Target, Dir, LegalMoves
<1>3. d \in Copies /\ (~ByPath => Copies = {d})
  BY <1>1 DEF Selected, SoleCopy
<1>4. PICK c : c = IF move = "reopen" THEN NoClaim ELSE file[d]
  OBVIOUS
<1>5. c \in 0..issued /\ c \in 0..MaxClaims
  <2>1. file[d] \in 0..issued
    BY <1>3 DEF IInv, FileInv
  <2>2. issued \in 0..MaxClaims
    BY DEF IInv, TypeOK
  <2> QED
    BY <1>4, <2>1, <2>2, QueueMoveAssumption DEF NoClaim
<1>6. PICK j : j = [todo |-> PlainMove, from |-> d, to |-> Target(move), claim |-> c]
  OBVIOUS
<1>7. j.todo = PlainMove /\ j.from = d /\ j.to = Target(move) /\ j.claim = c
  BY <1>6
<1>8. proc' = [proc EXCEPT ![p] = j]
  BY <1>1, <1>4, <1>6
<1>9. j \in Procs(MaxClaims) /\ j \in Procs(issued)
  BY <1>2, <1>5, <1>6, PlanShapes DEF Procs
<1>10. Started(p, j)
  BY <1>2, <1>7, <1>8, <1>9 DEF Started
<1>11. j.claim = NoClaim \/ j.claim = file[j.from]
  BY <1>4, <1>7
<1>12. /\ reopens' \in 0..MaxReopens
       /\ reopens' = IF move = "reopen" THEN reopens + 1 ELSE reopens
  BY QueueMoveAssumption DEF PlanMove, IInv, TypeOK
<1> QED
  BY <1>2, <1>3, <1>7, <1>9, <1>10, <1>11, <1>12

LEMMA InitInv == Init => IInv
<1> SUFFICES ASSUME Init PROVE IInv
  OBVIOUS
<1>1. \A p \in Process : proc[p] = Idle
  BY DEF Init
<1>2. issued = 0 /\ Idle \in Procs(0) /\ Idle.todo = <<>>
  BY IdleFacts DEF Init
<1>3. proc \in [Process -> Procs(issued)]
  BY <1>2 DEF Init
<1>4. file \in [Dir -> 0..Absent]
  BY QueueMoveAssumption DEF Init, Absent, NoClaim
<1>5. TypeOK
  <2>1. issued \in 0..MaxClaims /\ reopens \in 0..MaxReopens
    BY QueueMoveAssumption DEF Init
  <2>2. tokens \subseteq 1..issued /\ recorded \subseteq 1..issued /\ stopped \in BOOLEAN
    BY DEF Init
  <2> QED
    BY <1>3, <1>4, <2>1, <2>2 DEF TypeOK, Procs
<1>6. ProcInv
  BY <1>1, <1>2, IdleFacts DEF ProcInv, IsIdle, Doing
<1>7. FileInv
  BY QueueMoveAssumption DEF Init, FileInv, Copies, NoClaim, Absent
<1> QED
  BY <1>5, <1>6, <1>7 DEF IInv

(* A command that plans leaves the files as they are. *)
LEMMA PlanInv ==
    ASSUME IInv, NEW p \in Process, UNCHANGED <<file, recorded, stopped>>,
           tokens' \subseteq 1..issued', issued' \in 0..MaxClaims, issued' >= issued,
           reopens' \in 0..MaxReopens,
           UNCHANGED proc \/ \E j \in Procs(issued') : Started(p, j)
    PROVE  IInv'
<1>1. 0..issued \subseteq 0..issued' /\ 1..issued \subseteq 1..issued'
  BY QueueMoveAssumption DEF IInv, TypeOK
<1>2. \A q \in Process : proc[q] \in Procs(issued')
  BY <1>1 DEF IInv, TypeOK, Procs
<1>3. proc' \in [Process -> Procs(issued')] /\ ProcInv'
  <2>1. CASE UNCHANGED proc
    BY <1>2, <2>1 DEF IInv, TypeOK, ProcInv, IsIdle, Doing
  <2>2. ASSUME NEW j \in Procs(issued'), Started(p, j)
        PROVE  proc' \in [Process -> Procs(issued')] /\ ProcInv'
    <3>1. ProcInv'
      BY <2>2, ProcStarted
    <3>2. proc' = [proc EXCEPT ![p] = j] /\ DOMAIN proc = Process
      BY <2>2 DEF Started, IInv, TypeOK
    <3> QED
      BY <1>2, <3>1, <3>2 DEF IInv, TypeOK
  <2> QED
    BY <2>1, <2>2
<1>4. TypeOK'
  BY <1>1, <1>3 DEF IInv, TypeOK, Procs
<1>5. FileInv'
  BY <1>1 DEF IInv, FileInv, Copies
<1> QED
  BY <1>3, <1>4, <1>5 DEF IInv

LEMMA WriteInv ==
    ASSUME IInv, NEW p \in Process, Write(p)
    PROVE  /\ IInv'
           /\ file' = [file EXCEPT ![proc[p].to] = proc[p].claim]
           /\ proc[p].to \in Dir /\ proc[p].claim # Absent /\ proc[p].claim \in 0..issued
           /\ Copies' = Copies \cup {proc[p].to}
<1>1. ~IsIdle(p) /\ proc' = Done(p) /\ file' = [file EXCEPT ![proc[p].to] = proc[p].claim]
  BY DEF Write, Doing
<1>2. proc[p].to \in Dir /\ proc[p].claim \in 0..issued /\ issued \in 0..MaxClaims
  BY DEF IInv, TypeOK
<1>3. proc[p].claim # Absent /\ proc[p].claim \in 0..Absent
  BY <1>2, QueueMoveAssumption DEF Absent
<1>4. proc' \in [Process -> Procs(issued)] /\ ProcInv'
  BY <1>1, DoneFacts, ProcDone
<1>5. file \in [Dir -> 0..Absent]
  BY DEF IInv, TypeOK
<1>6. file' \in [Dir -> 0..Absent] /\ Copies' = Copies \cup {proc[p].to}
  BY <1>1, <1>2, <1>3, <1>5 DEF Copies
<1>7. TypeOK'
  BY <1>4, <1>6 DEF Write, IInv, TypeOK, Procs
<1>8. FileInv'
  BY <1>1, <1>2, <1>5, <1>6 DEF Write, IInv, FileInv, Copies
<1> QED
  BY <1>1, <1>2, <1>3, <1>4, <1>6, <1>7, <1>8 DEF IInv

LEMMA UnlinkInv ==
    ASSUME IInv, NEW p \in Process, Unlink(p)
    PROVE  /\ IInv'
           /\ \/ /\ proc[p].from \in Copies /\ Copies' = Copies \ {proc[p].from}
                 /\ file' = [file EXCEPT ![proc[p].from] = Absent] /\ proc' = Done(p)
              \/ /\ proc[p].from \notin Copies
                 /\ UNCHANGED file /\ proc' = GivenUp(p)
<1>1. ~IsIdle(p)
  BY DEF Unlink, Doing
<1>2. file \in [Dir -> 0..Absent] /\ proc[p].from \in Dir
  BY DEF IInv, TypeOK
<1>3. CASE proc[p].from \in Copies
  <2>1. file' = [file EXCEPT ![proc[p].from] = Absent] /\ proc' = Done(p)
    BY <1>3 DEF Unlink, Found
  <2>2. proc' \in [Process -> Procs(issued)] /\ ProcInv'
    BY <1>1, <2>1, DoneFacts, ProcDone
  <2>3. file' \in [Dir -> 0..Absent] /\ Copies' = Copies \ {proc[p].from}
    BY <1>2, <2>1, QueueMoveAssumption DEF Copies, Absent
  <2>4. TypeOK'
    BY <2>2, <2>3 DEF Unlink, IInv, TypeOK, Procs
  <2>5. FileInv'
    BY <1>2, <2>1, <2>3 DEF Unlink, IInv, FileInv, Copies
  <2> QED
    BY <1>3, <2>1, <2>2, <2>3, <2>4, <2>5 DEF IInv
<1>4. CASE proc[p].from \notin Copies
  <2>1. UNCHANGED file /\ proc' = GivenUp(p)
    BY <1>4 DEF Unlink, Found
  <2>2. proc' \in [Process -> Procs(issued)] /\ ProcInv'
    BY <2>1, GivenUpFacts, ProcGivenUp
  <2>3. TypeOK'
    BY <2>1, <2>2 DEF Unlink, IInv, TypeOK, Procs
  <2>4. FileInv'
    BY <2>1 DEF Unlink, IInv, FileInv, Copies
  <2> QED
    BY <1>4, <2>1, <2>2, <2>3, <2>4 DEF IInv
<1> QED
  BY <1>3, <1>4

(* The other steps of a move, and its end before its time. *)
LEMMA StepInv ==
    ASSUME IInv, NEW p \in Process, PlanClaim(p) \/ Record(p) \/ Stop(p)
    PROVE  IInv' /\ Copies' = Copies /\ UNCHANGED file
<1>1. UNCHANGED <<file, issued, tokens, reopens>>
  BY DEF PlanClaim, Record, Stop
<1>2. ~IsIdle(p) /\ (proc' = Done(p) \/ proc' = GivenUp(p))
  BY DEF PlanClaim, Record, Stop, Doing
<1>3. proc' \in [Process -> Procs(issued)] /\ ProcInv'
  BY <1>2, DoneFacts, ProcDone, GivenUpFacts, ProcGivenUp
<1>4. recorded' \subseteq 1..issued
  <2>1. CASE Record(p) /\ recorded' # recorded
    <3>1. Doing(p, "record") /\ recorded' = recorded \cup {proc[p].claim}
      BY <2>1 DEF Record
    <3>2. proc[p].claim \in 0..issued /\ issued \in 0..MaxClaims
      BY DEF IInv, TypeOK
    <3>3. proc[p].claim # NoClaim
      <4>1. proc[p].todo \in Seq(Step) /\ proc[p].todo # <<>> /\ Head(proc[p].todo) = "record"
            /\ Shape(proc[p].todo)
        BY <3>1 DEF IInv, TypeOK, ProcInv, Doing, IsIdle
      <4>2. In("record", proc[p].todo)
        BY <4>1, TailFacts
      <4> QED
        BY <4>2 DEF IInv, ProcInv
    <3>4. proc[p].claim \in 1..issued
      BY <3>2, <3>3, QueueMoveAssumption DEF NoClaim
    <3> QED
      BY <3>1, <3>4 DEF IInv, TypeOK
  <2>2. CASE recorded' = recorded
    BY <2>2 DEF IInv, TypeOK
  <2> QED
    BY <2>1, <2>2 DEF PlanClaim, Stop
<1>5. stopped' \in BOOLEAN
  BY DEF PlanClaim, Record, Stop, IInv, TypeOK
<1>6. TypeOK'
  BY <1>1, <1>3, <1>4, <1>5 DEF IInv, TypeOK, Procs
<1>7. FileInv' /\ Copies' = Copies
  BY <1>1 DEF IInv, FileInv, Copies
<1> QED
  BY <1>1, <1>3, <1>6, <1>7 DEF IInv

LEMMA InvStep == IInv /\ [Next]_vars => IInv'
<1> SUFFICES ASSUME IInv, [Next]_vars PROVE IInv'
  OBVIOUS
<1>0. /\ issued \in 0..MaxClaims /\ issued \in Nat /\ reopens \in 0..MaxReopens
      /\ tokens \subseteq 1..issued
  BY QueueMoveAssumption DEF IInv, TypeOK
<1>1. CASE UNCHANGED vars
  BY <1>1 DEF vars, IInv, TypeOK, ProcInv, FileInv, IsIdle, Doing, Copies
<1>2. ASSUME NEW c \in tokens, Expire(c) PROVE IInv'
  <2>1. PICK p \in Process : TRUE
    BY QueueMoveAssumption
  <2>2. UNCHANGED <<file, recorded, stopped, proc, issued, reopens>> /\ tokens' \subseteq tokens
    BY <1>2 DEF Expire
  <2> QED
    BY <1>0, <2>1, <2>2, PlanInv
<1>3. ASSUME NEW p \in Process, DryRunClaim(p) PROVE IInv'
  <2>1. UNCHANGED <<file, recorded, stopped, proc, reopens>>
    BY <1>3 DEF DryRunClaim
  <2>2. issued' \in 0..MaxClaims /\ issued' >= issued /\ tokens' \subseteq 1..issued'
    BY <1>0, <1>3, QueueMoveAssumption DEF DryRunClaim
  <2> QED
    BY <1>0, <2>1, <2>2, PlanInv
<1>4. ASSUME NEW p \in Process, NEW c \in tokens, Confirm(p, c) PROVE IInv'
  <2>1. UNCHANGED <<file, recorded, stopped, issued, tokens, reopens>>
    BY <1>4 DEF Confirm
  <2>2. \E j \in Procs(issued') : Started(p, j)
    BY <1>4, <2>1, ConfirmPlans
  <2> QED
    BY <1>0, <2>1, <2>2, PlanInv
<1>5. ASSUME NEW p \in Process, PlanCliClaim(p) PROVE IInv'
  <2>1. UNCHANGED <<file, recorded, stopped, tokens, reopens>>
    BY <1>5 DEF PlanCliClaim
  <2>2. issued' \in 0..MaxClaims /\ issued' = issued + 1 /\ \E j \in Procs(issued') : Started(p, j)
    BY <1>5, CliPlans
  <2>3. issued' >= issued /\ tokens' \subseteq 1..issued'
    BY <1>0, <2>1, <2>2
  <2> QED
    BY <1>0, <2>1, <2>2, <2>3, PlanInv
<1>6. ASSUME NEW p \in Process, NEW move \in Moves, PlanMove(p, move) PROVE IInv'
  <2>1. UNCHANGED <<file, recorded, stopped, tokens, issued>>
    BY <1>6 DEF PlanMove
  <2>2. reopens' \in 0..MaxReopens /\ \E j \in Procs(issued') : Started(p, j)
    BY <1>6, <2>1, MovePlans
  <2> QED
    BY <1>0, <2>1, <2>2, PlanInv
<1>7. ASSUME NEW p \in Process, Write(p) PROVE IInv'
  BY <1>7, WriteInv
<1>8. ASSUME NEW p \in Process, Unlink(p) PROVE IInv'
  BY <1>8, UnlinkInv
<1>9. ASSUME NEW p \in Process, PlanClaim(p) \/ Record(p) \/ Stop(p) PROVE IInv'
  BY <1>9, StepInv
<1> QED
  BY <1>1, <1>2, <1>3, <1>4, <1>5, <1>6, <1>7, <1>8, <1>9 DEF Next, Moves

LEMMA Invariance == Spec => []IInv
<1>1. Init => IInv
  BY InitInv
<1>2. IInv /\ [Next]_vars => IInv'
  BY InvStep
<1> QED
  BY <1>1, <1>2, PTL DEF Spec

(* The files, tokens, records and moves keep their types: every claim id   *)
(* on a file, in a token or in a record has been given out.                *)
THEOREM TypeCorrect == Spec => []TypeOK
<1>1. IInv => TypeOK
  BY DEF IInv
<1> QED
  BY <1>1, Invariance, PTL
-----------------------------------------------------------------------------
(* With one process: how the files stand to the move in execution.  The    *)
(* copies are those of that move, if commands do not name a card by path.  *)
OneInv(p) ==
    /\ Copies # {}
    /\ Doing(p, "unlink") => file[proc[p].to] = proc[p].claim
    /\ In("unlink", proc[p].todo) => proc[p].from \in Copies

Stranded(p) ==
    IF IsIdle(p) THEN StrandedByOneMove ELSE Copies \subseteq {proc[p].from, proc[p].to}

Recorded(p) ==
    ~stopped =>
       IF ~IsIdle(p) /\ proc[p].to = "claimed"
       THEN /\ file["claimed"] \in {Absent, proc[p].claim}
            /\ proc[p].claim \in recorded \/ In("record", proc[p].todo)
            /\ In("plan", proc[p].todo) => file["claimed"] = Absent
       ELSE "claimed" \in Copies => file["claimed"] \in recorded

LEMMA OneStart ==
    ASSUME IInv, NEW p \in Process, OneInv(p), IsIdle(p), NEW j, Started(p, j),
           UNCHANGED file, j.from \in Copies
    PROVE  OneInv(p)'
<1>1. proc'[p] = j
  BY ProcStarted
<1>2. Copies' = Copies
  BY DEF Copies
<1>3. ~Doing(p, "unlink")'
  BY <1>1, PlanShapes DEF Doing, Started
<1> QED
  BY <1>1, <1>2, <1>3 DEF OneInv

LEMMA OneStep ==
    ASSUME IInv, NEW p \in Process, Process = {p}, OneInv(p), [Next]_vars
    PROVE  OneInv(p)'
<1>1. CASE UNCHANGED vars
  BY <1>1 DEF vars, OneInv, Copies, Doing, IsIdle
<1>2. ASSUME (\E c \in tokens : Expire(c)) \/ DryRunClaim(p) PROVE OneInv(p)'
  <2>1. UNCHANGED <<file, proc>>
    BY <1>2 DEF Expire, DryRunClaim
  <2> QED
    BY <2>1 DEF OneInv, Copies, Doing, IsIdle
<1>3. ASSUME NEW c \in tokens, Confirm(p, c) PROVE OneInv(p)'
  <2>1. IsIdle(p) /\ UNCHANGED file /\ "pending" \in Copies
    BY <1>3 DEF Confirm, SoleCopy
  <2> QED
    BY <1>3, <2>1, ConfirmPlans, OneStart
<1>4. ASSUME PlanCliClaim(p) PROVE OneInv(p)'
  <2>1. IsIdle(p) /\ UNCHANGED file /\ "pending" \in Copies
    BY <1>4 DEF PlanCliClaim, Selected, SoleCopy
  <2> QED
    BY <1>4, <2>1, CliPlans, OneStart
<1>5. ASSUME NEW move \in Moves, PlanMove(p, move) PROVE OneInv(p)'
  <2>1. IsIdle(p) /\ UNCHANGED file
    BY <1>5 DEF PlanMove
  <2> QED
    BY <1>5, <2>1, MovePlans, OneStart
<1>6. ASSUME ~IsIdle(p)
      PROVE  /\ proc[p].todo \in Seq(Step) /\ proc[p].todo # <<>> /\ Shape(proc[p].todo)
             /\ In(Head(proc[p].todo), proc[p].todo)
             /\ proc[p].from # proc[p].to /\ proc[p].from \in Dir /\ proc[p].to \in Dir
  BY <1>6, TailFacts DEF IInv, TypeOK, ProcInv, IsIdle
<1>7. ASSUME Write(p) PROVE OneInv(p)'
  <2>1. ~IsIdle(p) /\ proc' = Done(p)
    BY <1>7 DEF Write, Doing
  <2>2. /\ file' = [file EXCEPT ![proc[p].to] = proc[p].claim]
        /\ Copies' = Copies \cup {proc[p].to}
    BY <1>7, WriteInv
  <2>3. file'[proc[p].to] = proc[p].claim
    BY <1>6, <2>1, <2>2 DEF IInv, TypeOK
  <2> QED
    BY <2>1, <2>2, <2>3, DoneFacts DEF OneInv
<1>8. ASSUME Unlink(p) PROVE OneInv(p)'
  <2>1. ~IsIdle(p) /\ Head(proc[p].todo) = "unlink" /\ Doing(p, "unlink")
    BY <1>8 DEF Unlink, Doing
  <2>2. file[proc[p].to] = proc[p].claim /\ proc[p].from \in Copies
    BY <1>6, <2>1 DEF OneInv
  <2>3. /\ Copies' = Copies \ {proc[p].from} /\ proc' = Done(p)
    BY <1>8, <2>2, UnlinkInv
  <2>4. proc[p].to \in Copies
    <3>1. proc[p].claim # Absent
      BY QueueMoveAssumption DEF IInv, TypeOK, Absent
    <3> QED
      BY <1>6, <2>1, <2>2, <3>1 DEF Copies
  <2>5. Copies' # {}
    BY <1>6, <2>1, <2>3, <2>4
  <2>6. ~In("unlink", proc'[p].todo) /\ ~Doing(p, "unlink")'
    BY <2>1, <2>3, DoneFacts DEF Doing
  <2> QED
    BY <2>5, <2>6 DEF OneInv
<1>9. ASSUME PlanClaim(p) \/ Record(p) \/ Stop(p) PROVE OneInv(p)'
  <2>1. Copies' = Copies /\ UNCHANGED file /\ ~IsIdle(p)
    BY <1>9, StepInv DEF PlanClaim, Record, Stop, Doing
  <2>2. CASE proc' = GivenUp(p)
    BY <2>1, <2>2, GivenUpFacts, IdleFacts DEF OneInv, Doing
  <2>3. CASE proc' = Done(p)
    <3>1. (PlanClaim(p) => Head(proc[p].todo) = "plan") /\ (Record(p) => Head(proc[p].todo) = "record")
          /\ (Stop(p) => proc' = GivenUp(p))
      BY DEF PlanClaim, Record, Stop, Doing
    <3>2. CASE Stop(p)
      BY <2>2, <3>1, <3>2
    <3>3. CASE PlanClaim(p) \/ Record(p)
      <4>1. ~Doing(p, "unlink")'
        BY <2>1, <2>3, <3>1, <3>3, DoneFacts DEF Doing
      <4> QED
        BY <2>1, <2>3, <4>1, DoneFacts DEF OneInv
    <3> QED
      BY <1>9, <3>2, <3>3
  <2> QED
    BY <1>9, <2>2, <2>3 DEF PlanClaim, Record, Stop
<1> QED
  BY <1>1, <1>2, <1>3, <1>4, <1>5, <1>7, <1>8, <1>9 DEF Next, Moves

(* With one process the card is never lost, wherever its moves are cut     *)
(* short (queue_mutation, mutate_queue_task).                              *)
THEOREM NotLostByStops == \A p : Process = {p} => (Spec => []NeverLost)
<1> SUFFICES ASSUME NEW p, Process = {p} PROVE Spec => []NeverLost
  OBVIOUS
<1>1. p \in Process
  OBVIOUS
<1>2. Init => OneInv(p)
  BY IdleFacts, QueueMoveAssumption DEF Init, OneInv, Copies, Doing, IsIdle, Dir, NoClaim, Absent
<1>3. IInv /\ OneInv(p) /\ [Next]_vars => OneInv(p)'
  BY <1>1, OneStep
<1>4. OneInv(p) => NeverLost
  BY DEF OneInv, NeverLost
<1> QED
  BY <1>2, <1>3, <1>4, Invariance, PTL DEF Spec

LEMMA StrandedStep ==
    ASSUME IInv, NEW p \in Process, Process = {p}, Stranded(p), ~ByPath, [Next]_vars
    PROVE  Stranded(p)'
<1>0. \A c, d : /\ Copies \subseteq {c} => StrandedByOneMove
               /\ Copies \subseteq {c, d} /\ <<c, d>> \in LegalMoves => StrandedByOneMove
  BY DEF StrandedByOneMove
<1>1. ASSUME UNCHANGED <<file, proc>> PROVE Stranded(p)'
  BY <1>1 DEF Stranded, StrandedByOneMove, Copies, IsIdle
<1>2. ASSUME NEW j, Started(p, j), UNCHANGED file, Copies = {j.from} PROVE Stranded(p)'
  <2>1. proc'[p] = j /\ ~IsIdle(p)' /\ Copies' = Copies
    BY <1>2, ProcStarted DEF IsIdle, Copies
  <2> QED
    BY <1>2, <2>1 DEF Stranded
<1>3. ASSUME ~IsIdle(p), NEW F, F = proc[p].from, NEW T, T = proc[p].to,
             Copies' \subseteq {F, T}, proc' = Done(p) \/ proc' = GivenUp(p)
      PROVE  Stranded(p)'
  <2>1. <<F, T>> \in LegalMoves
    BY <1>3 DEF IInv, ProcInv
  <2>2. CASE IsIdle(p)'
    <3>1. StrandedByOneMove'
      BY <1>3, <2>1 DEF StrandedByOneMove
    <3> QED
      BY <2>2, <3>1 DEF Stranded
  <2>3. CASE ~IsIdle(p)'
    <3>1. proc' = Done(p)
      BY <1>3, <2>3, GivenUpFacts
    <3>2. proc'[p].from = F /\ proc'[p].to = T
      BY <1>3, <3>1, DoneFacts
    <3> QED
      BY <1>3, <2>3, <3>2 DEF Stranded
  <2> QED
    BY <2>2, <2>3
<1>4. CASE UNCHANGED vars \/ (\E c \in tokens : Expire(c)) \/ DryRunClaim(p)
  BY <1>1, <1>4 DEF vars, Expire, DryRunClaim
<1>5. ASSUME NEW c \in tokens, Confirm(p, c) PROVE Stranded(p)'
  <2>1. UNCHANGED file /\ Copies = {"pending"}
    BY <1>5 DEF Confirm, SoleCopy
  <2> QED
    BY <1>2, <1>5, <2>1, ConfirmPlans
<1>6. ASSUME PlanCliClaim(p) PROVE Stranded(p)'
  <2>1. UNCHANGED file /\ Copies = {"pending"}
    BY <1>6 DEF PlanCliClaim, Selected, SoleCopy
  <2> QED
    BY <1>2, <1>6, <2>1, CliPlans
<1>7. ASSUME NEW move \in Moves, PlanMove(p, move) PROVE Stranded(p)'
  <2>1. UNCHANGED file
    BY <1>7 DEF PlanMove
  <2> QED
    BY <1>2, <1>7, <2>1, MovePlans
<1>8. ASSUME ~IsIdle(p) PROVE Copies \subseteq {proc[p].from, proc[p].to}
  BY <1>8 DEF Stranded
<1>9. ASSUME Write(p) PROVE Stranded(p)'
  <2>1. ~IsIdle(p) /\ proc' = Done(p) /\ Copies' = Copies \cup {proc[p].to}
    BY <1>9, WriteInv DEF Write, Doing
  <2> QED
    BY <1>3, <1>8, <2>1
<1>10. ASSUME Unlink(p) PROVE Stranded(p)'
  <2>1. ~IsIdle(p) /\ (proc' = Done(p) \/ proc' = GivenUp(p)) /\ Copies' \subseteq Copies
    BY <1>10, UnlinkInv DEF Unlink, Doing, Copies
  <2> QED
    BY <1>3, <1>8, <2>1
<1>11. ASSUME PlanClaim(p) \/ Record(p) \/ Stop(p) PROVE Stranded(p)'
  <2>1. ~IsIdle(p) /\ (proc' = Done(p) \/ proc' = GivenUp(p)) /\ Copies' = Copies
    BY <1>11, StepInv DEF PlanClaim, Record, Stop, Doing
  <2> QED
    BY <1>3, <1>8, <2>1
<1> QED
  BY <1>4, <1>5, <1>6, <1>7, <1>9, <1>10, <1>11 DEF Next, Moves

(* With one process, two copies of the card are the source and the target  *)
(* of one move, the one that was cut short; if cards are named by id.      *)
THEOREM StrandedTellMove == \A p : Process = {p} /\ ~ByPath => (Spec => []StrandedByOneMove)
<1> SUFFICES ASSUME NEW p, Process = {p}, ~ByPath PROVE Spec => []StrandedByOneMove
  OBVIOUS
<1>1. p \in Process
  OBVIOUS
<1>2. Init => Stranded(p)
  BY IdleFacts, QueueMoveAssumption DEF Init, Stranded, StrandedByOneMove, Copies, IsIdle, Dir, NoClaim, Absent
<1>3. IInv /\ Stranded(p) /\ [Next]_vars => Stranded(p)'
  BY <1>1, StrandedStep
<1>4. IInv /\ Stranded(p) => StrandedByOneMove
  BY <1>1 DEF IInv, ProcInv, Stranded, StrandedByOneMove
<1> QED
  BY <1>2, <1>3, <1>4, Invariance, PTL DEF Spec

LEMMA RecordedStep ==
    ASSUME IInv, NEW p \in Process, Process = {p}, OneInv(p), Recorded(p), [Next]_vars
    PROVE  Recorded(p)'
<1>0. file \in [Dir -> 0..Absent] /\ "claimed" \in Dir
  BY DEF IInv, TypeOK, Dir
<1>1. ASSUME UNCHANGED <<file, proc, recorded, stopped>> PROVE Recorded(p)'
  BY <1>1 DEF Recorded, Copies, IsIdle
<1>2. ASSUME NEW j, Started(p, j), UNCHANGED <<file, recorded, stopped>>, IsIdle(p),
             j.to = "claimed" => "claimed" \notin Copies /\ In("record", j.todo)
      PROVE  Recorded(p)'
  <2>1. proc'[p] = j /\ ~IsIdle(p)' /\ Copies' = Copies
    BY <1>2, ProcStarted DEF IsIdle, Copies
  <2>2. "claimed" \notin Copies => file["claimed"] = Absent
    BY <1>0 DEF Copies
  <2> QED
    BY <1>2, <2>1, <2>2 DEF Recorded
<1>3. CASE UNCHANGED vars \/ (\E c \in tokens : Expire(c)) \/ DryRunClaim(p)
  BY <1>1, <1>3 DEF vars, Expire, DryRunClaim
<1>4. ASSUME NEW c \in tokens, Confirm(p, c) PROVE Recorded(p)'
  <2>1. UNCHANGED <<file, recorded, stopped>> /\ "claimed" \notin Copies /\ IsIdle(p)
    BY <1>4 DEF Confirm, SoleCopy
  <2> QED
    BY <1>2, <1>4, <2>1, ConfirmPlans, PlanShapes
<1>5. ASSUME PlanCliClaim(p) PROVE Recorded(p)'
  <2>1. UNCHANGED <<file, recorded, stopped>> /\ "claimed" \notin Copies /\ IsIdle(p)
    BY <1>5 DEF PlanCliClaim, Selected, SoleCopy
  <2> QED
    BY <1>2, <1>5, <2>1, CliPlans, PlanShapes
<1>6. ASSUME NEW move \in Moves, PlanMove(p, move) PROVE Recorded(p)'
  <2>1. UNCHANGED <<file, recorded, stopped>> /\ IsIdle(p)
    BY <1>6 DEF PlanMove
  <2> QED
    BY <1>2, <1>6, <2>1, MovePlans
<1>7. ASSUME Write(p) PROVE Recorded(p)'
  <2>1. /\ ~IsIdle(p) /\ proc' = Done(p) /\ UNCHANGED <<recorded, stopped>>
        /\ Head(proc[p].todo) \in {"write", "rewrite"}
    BY <1>7 DEF Write, Doing
  <2>2. /\ file' = [file EXCEPT ![proc[p].to] = proc[p].claim] /\ proc[p].to \in Dir
        /\ Copies' = Copies \cup {proc[p].to}
    BY <1>7, WriteInv
  <2>3. /\ proc'[p].to = proc[p].to /\ proc'[p].claim = proc[p].claim
        /\ \A e : In(e, proc'[p].todo) <=> In(e, proc[p].todo) /\ e # Head(proc[p].todo)
    BY <2>1, DoneFacts
  <2>4. CASE proc[p].to = "claimed"
    <3>1. file'["claimed"] = proc[p].claim
      BY <1>0, <2>2, <2>4
    <3>2. ~In("plan", proc'[p].todo)
      <4>1. proc[p].todo \in Seq(Step) /\ proc[p].todo # <<>> /\ Shape(proc[p].todo)
        BY <2>1 DEF IInv, TypeOK, ProcInv, IsIdle
      <4>2. ~In("plan", proc[p].todo)
        <5>1. proc[p].todo[1] # "plan"
          BY <2>1, <4>1
        <5>2. \A i \in 1..Len(proc[p].todo) : i = 1 \/ i \in 2..Len(proc[p].todo)
          BY <4>1
        <5> QED
          BY <4>1, <5>1, <5>2 DEF In, Shape
      <4> QED
        BY <2>3, <4>2
    <3>3. ~stopped => proc[p].claim \in recorded \/ In("record", proc[p].todo)
      BY <2>1, <2>4 DEF Recorded
    <3>4. ~stopped => proc[p].claim \in recorded \/ In("record", proc'[p].todo)
      BY <2>1, <2>3, <3>3
    <3>5. IsIdle(p)' => ~In("record", proc'[p].todo)
      BY IdleFacts DEF IsIdle
    <3> QED
      BY <2>1, <2>3, <2>4, <3>1, <3>2, <3>4, <3>5 DEF Recorded
  <2>5. CASE proc[p].to # "claimed"
    <3>1. file'["claimed"] = file["claimed"] /\ ("claimed" \in Copies' <=> "claimed" \in Copies)
      BY <1>0, <2>2, <2>5
    <3> QED
      BY <2>1, <2>3, <2>5, <3>1 DEF Recorded
  <2> QED
    BY <2>4, <2>5
<1>8. ASSUME Unlink(p) PROVE Recorded(p)'
  <2>1. ~IsIdle(p) /\ Head(proc[p].todo) = "unlink" /\ UNCHANGED <<recorded, stopped>>
    BY <1>8 DEF Unlink, Doing
  <2>2. In("unlink", proc[p].todo) /\ proc[p].from # proc[p].to /\ proc[p].from \in Dir
    BY <2>1, TailFacts DEF IInv, TypeOK, ProcInv, IsIdle
  <2>3. proc' = Done(p) /\ file' = [file EXCEPT ![proc[p].from] = Absent] /\ Copies' = Copies \ {proc[p].from}
    BY <1>8, <2>2, UnlinkInv DEF OneInv
  <2>4. /\ proc'[p].to = proc[p].to /\ proc'[p].claim = proc[p].claim
        /\ \A e : In(e, proc'[p].todo) <=> In(e, proc[p].todo) /\ e # Head(proc[p].todo)
    BY <2>1, <2>3, DoneFacts
  <2>5. IsIdle(p)' => ~In("record", proc'[p].todo)
    BY IdleFacts DEF IsIdle
  <2>6. CASE proc[p].to = "claimed"
    <3>1. file'["claimed"] = file["claimed"] /\ ("claimed" \in Copies' <=> "claimed" \in Copies)
      BY <1>0, <2>2, <2>3, <2>6
    <3>2. ~stopped => /\ file["claimed"] \in {Absent, proc[p].claim}
                      /\ proc[p].claim \in recorded \/ In("record", proc[p].todo)
                      /\ In("plan", proc[p].todo) => file["claimed"] = Absent
      BY <2>1, <2>6 DEF Recorded
    <3>3. "claimed" \in Copies <=> file["claimed"] # Absent
      BY <1>0 DEF Copies
    <3> QED
      BY <2>1, <2>4, <2>5, <2>6, <3>1, <3>2, <3>3 DEF Recorded
  <2>7. CASE proc[p].to # "claimed"
    <3>1. "claimed" \in Copies' => "claimed" \in Copies /\ file'["claimed"] = file["claimed"]
      BY <1>0, <2>2, <2>3
    <3> QED
      BY <2>1, <2>4, <2>7, <3>1 DEF Recorded
  <2> QED
    BY <2>6, <2>7
<1>9. ASSUME PlanClaim(p) \/ Record(p) PROVE Recorded(p)'
  <2>1. /\ ~IsIdle(p) /\ UNCHANGED <<file, stopped>> /\ recorded \subseteq recorded' /\ Copies' = Copies
        /\ Record(p) => proc' = Done(p) /\ Head(proc[p].todo) = "record"
                         /\ proc[p].claim \in recorded'
        /\ PlanClaim(p) => Head(proc[p].todo) = "plan" /\ recorded' = recorded
                            /\ (proc' = Done(p) \/ proc' = GivenUp(p))
    BY <1>9 DEF PlanClaim, Record, Doing, Fresh, Copies
  <2>2. proc[p].todo \in Seq(Step) /\ proc[p].todo # <<>> /\ Shape(proc[p].todo)
    BY <2>1 DEF IInv, TypeOK, ProcInv, IsIdle
  <2>3. In(Head(proc[p].todo), proc[p].todo)
    BY <2>2, TailFacts
  <2>4. "claimed" \in Copies <=> file["claimed"] # Absent
    BY <1>0 DEF Copies
  <2>5. CASE proc' = GivenUp(p) /\ PlanClaim(p)
    <3>1. IsIdle(p)'
      BY <2>5, GivenUpFacts
    <3>2. ~stopped => ("claimed" \in Copies => file["claimed"] \in recorded)
      BY <2>1, <2>3, <2>4, <2>5 DEF Recorded
    <3> QED
      BY <2>1, <3>1, <3>2 DEF Recorded
  <2>6. CASE proc' = Done(p)
    <3>1. /\ proc'[p].to = proc[p].to /\ proc'[p].claim = proc[p].claim
          /\ \A e : In(e, proc'[p].todo) <=> In(e, proc[p].todo) /\ e # Head(proc[p].todo)
      BY <2>1, <2>6, DoneFacts
    <3>2. IsIdle(p)' => ~In("record", proc'[p].todo)
      BY IdleFacts DEF IsIdle
    <3>3. CASE proc[p].to = "claimed"
      <4>1. ~stopped => /\ file["claimed"] \in {Absent, proc[p].claim}
                        /\ proc[p].claim \in recorded' \/ In("record", proc'[p].todo)
                        /\ In("plan", proc'[p].todo) => file["claimed"] = Absent
        BY <1>9, <2>1, <3>1, <3>3 DEF Recorded
      <4> QED
        BY <2>1, <2>4, <3>1, <3>2, <3>3, <4>1 DEF Recorded
    <3>4. CASE proc[p].to # "claimed"
      BY <2>1, <3>1, <3>4 DEF Recorded
    <3> QED
      BY <3>3, <3>4
  <2> QED
    BY <1>9, <2>1, <2>5, <2>6
<1>10. ASSUME Stop(p) PROVE Recorded(p)'
  BY <1>10 DEF Stop, Recorded
<1> QED
  BY <1>3, <1>4, <1>5, <1>6, <1>7, <1>8, <1>9, <1>10 DEF Next, Moves

(* With one process, a card at rest in claimed has its claim record unless *)
(* a move was cut short (queue_mutation, claim).                           *)
THEOREM ClaimsHaveRecords == \A p : Process = {p} => (Spec => []ClaimIsRecorded)
<1> SUFFICES ASSUME NEW p, Process = {p} PROVE Spec => []ClaimIsRecorded
  OBVIOUS
<1>1. p \in Process
  OBVIOUS
<1>2. Init => OneInv(p)
  BY IdleFacts, QueueMoveAssumption DEF Init, OneInv, Copies, Doing, IsIdle, Dir, NoClaim, Absent
<1>3. Init => Recorded(p)
  BY IdleFacts, QueueMoveAssumption DEF Init, Recorded, Copies, IsIdle, Dir, NoClaim, Absent
<1>4. IInv /\ OneInv(p) /\ Recorded(p) /\ [Next]_vars => OneInv(p)' /\ Recorded(p)'
  BY <1>1, OneStep, RecordedStep
<1>5. Recorded(p) => ClaimIsRecorded
  BY <1>1 DEF Recorded, ClaimIsRecorded, AtRest
<1> QED
  BY <1>2, <1>3, <1>4, <1>5, Invariance, PTL DEF Spec
-----------------------------------------------------------------------------
(* With one process: a move whose claim id has its record, but whose token *)
(* is still there, only passes on an id that a file has.                   *)
Replay(p) ==
    ~IsIdle(p) =>
       /\ \/ proc[p].claim \notin tokens \/ proc[p].claim \notin recorded
          \/ file[proc[p].from] = proc[p].claim \/ file[proc[p].to] = proc[p].claim
       /\ Doing(p, "record") => Len(proc[p].todo) = 1 \/ proc[p].claim \notin tokens

LEMMA ReplayStep ==
    ASSUME IInv, NEW p \in Process, Process = {p}, OneInv(p), Replay(p), [Next]_vars
    PROVE  Replay(p)'
<1>0. file \in [Dir -> 0..Absent] /\ tokens \subseteq 1..issued /\ issued \in Nat
      /\ recorded \subseteq 1..issued
  BY QueueMoveAssumption DEF IInv, TypeOK
<1>1. ASSUME UNCHANGED <<file, proc, recorded>>, tokens' \subseteq tokens PROVE Replay(p)'
  BY <1>1 DEF Replay, IsIdle, Doing
<1>2. ASSUME UNCHANGED proc, IsIdle(p) PROVE Replay(p)'
  BY <1>2 DEF Replay, IsIdle
<1>3. CASE UNCHANGED vars \/ (\E c \in tokens : Expire(c)) \/ DryRunClaim(p)
  BY <1>1, <1>2, <1>3 DEF vars, Expire, DryRunClaim
<1>4. ASSUME NEW j, Started(p, j), UNCHANGED <<file, recorded, tokens>>,
             \/ j.claim \notin tokens
             \/ Head(j.todo) # "record" /\ (j.claim \notin recorded \/ j.claim = file[j.from])
      PROVE  Replay(p)'
  <2>1. proc'[p] = j
    BY <1>4, ProcStarted
  <2> QED
    BY <1>4, <2>1 DEF Replay, Doing
<1>5. ASSUME NEW c \in tokens, Confirm(p, c) PROVE Replay(p)'
  <2>1. UNCHANGED <<file, recorded, tokens>> /\ c \notin recorded
    BY <1>5 DEF Confirm, Fresh
  <2> QED
    BY <1>4, <1>5, <2>1, ConfirmPlans, PlanShapes
<1>6. ASSUME PlanCliClaim(p) PROVE Replay(p)'
  <2>1. UNCHANGED <<file, recorded, tokens>>
    BY <1>6 DEF PlanCliClaim
  <2>2. issued' = issued + 1 /\ issued' \notin tokens
    BY <1>0, <1>6 DEF PlanCliClaim
  <2> QED
    BY <1>4, <1>6, <2>1, <2>2, CliPlans
<1>7. ASSUME NEW move \in Moves, PlanMove(p, move) PROVE Replay(p)'
  <2>1. UNCHANGED <<file, recorded, tokens>> /\ NoClaim \notin tokens
    BY <1>0, <1>7 DEF PlanMove, NoClaim
  <2> QED
    BY <1>4, <1>7, <2>1, MovePlans, PlanShapes
<1>8. ASSUME ~IsIdle(p), proc' = Done(p)
      PROVE  /\ proc'[p].from = proc[p].from /\ proc'[p].to = proc[p].to /\ proc'[p].claim = proc[p].claim
             /\ Doing(p, "record")' => Len(proc'[p].todo) = 1
             /\ proc[p].from # proc[p].to /\ proc[p].from \in Dir /\ proc[p].to \in Dir
  BY <1>8, DoneFacts DEF Doing, IInv, TypeOK, ProcInv
<1>9. ASSUME Write(p) PROVE Replay(p)'
  <2>1. ~IsIdle(p) /\ proc' = Done(p) /\ UNCHANGED <<recorded, tokens>>
        /\ file' = [file EXCEPT ![proc[p].to] = proc[p].claim]
    BY <1>9 DEF Write, Doing
  <2>2. file'[proc[p].to] = proc[p].claim
    BY <1>0, <1>8, <2>1
  <2> QED
    BY <1>8, <2>1, <2>2 DEF Replay
<1>10. ASSUME Unlink(p) PROVE Replay(p)'
  <2>1. ~IsIdle(p) /\ Doing(p, "unlink") /\ file[proc[p].to] = proc[p].claim /\ UNCHANGED <<recorded, tokens>>
    BY <1>10 DEF Unlink, Doing, OneInv
  <2>2. CASE proc' = GivenUp(p)
    BY <2>2, GivenUpFacts DEF Replay
  <2>3. CASE file' = [file EXCEPT ![proc[p].from] = Absent] /\ proc' = Done(p)
    <3>1. file'[proc[p].to] = proc[p].claim
      BY <1>0, <1>8, <2>1, <2>3
    <3> QED
      BY <1>8, <2>1, <2>3, <3>1 DEF Replay
  <2> QED
    BY <1>10, <2>2, <2>3 DEF Unlink
<1>11. ASSUME proc' = GivenUp(p) PROVE Replay(p)'
  BY <1>11, GivenUpFacts DEF Replay
<1>12. ASSUME PlanClaim(p), proc' = Done(p) PROVE Replay(p)'
  <2>1. ~IsIdle(p) /\ UNCHANGED <<file, recorded, tokens>>
    BY <1>12 DEF PlanClaim, Doing
  <2> QED
    BY <1>8, <1>12, <2>1 DEF Replay
<1>13. ASSUME Record(p) PROVE Replay(p)'
  <2>1. ~IsIdle(p) /\ proc' = Done(p) /\ Doing(p, "record") /\ UNCHANGED <<file, tokens>>
    BY <1>13 DEF Record, Doing
  <2>2. CASE Len(proc[p].todo) = 1
    BY <2>1, <2>2, DoneFacts DEF Replay
  <2>3. CASE proc[p].claim \notin tokens
    BY <1>8, <2>1, <2>3 DEF Replay
  <2> QED
    BY <2>1, <2>2, <2>3 DEF Replay
<1> QED
  BY <1>3, <1>5, <1>6, <1>7, <1>9, <1>10, <1>11, <1>12, <1>13 DEF Next, Moves, PlanClaim, Stop

(* With one process, which a restart may follow, a token that was used is  *)
(* never executed again: no file gets a recorded claim id back             *)
(* (controlled_execute; queue_mutation, the check of the planned records). *)
THEOREM NoReplay == \A p : Process = {p} => (Spec => RecordedClaimNotReplayed)
<1> SUFFICES ASSUME NEW p, Process = {p} PROVE Spec => RecordedClaimNotReplayed
  OBVIOUS
<1>1. p \in Process
  OBVIOUS
<1>2. Init => OneInv(p)
  BY IdleFacts, QueueMoveAssumption DEF Init, OneInv, Copies, Doing, IsIdle, Dir, NoClaim, Absent
<1>3. Init => Replay(p)
  BY IdleFacts DEF Init, Replay, IsIdle
<1>4. IInv /\ OneInv(p) /\ Replay(p) /\ [Next]_vars => OneInv(p)' /\ Replay(p)'
  BY <1>1, OneStep, ReplayStep
<1>5. IInv /\ Replay(p) /\ [Next]_vars =>
         [ \A c \in recorded \cap tokens :
             (\A d \in Dir : file[d] # c) => \A d \in Dir : file'[d] # c ]_vars
  <2> SUFFICES ASSUME IInv, Replay(p), [Next]_vars, NEW c \in recorded \cap tokens,
                      \A d \in Dir : file[d] # c, NEW d \in Dir
               PROVE  file'[d] # c
    OBVIOUS
  <2>1. file \in [Dir -> 0..Absent] /\ c # Absent
    BY QueueMoveAssumption DEF IInv, TypeOK, Absent
  <2>2. CASE file' = file
    BY <2>2
  <2>3. CASE Write(p)
    <3>1. ~IsIdle(p) /\ file' = [file EXCEPT ![proc[p].to] = proc[p].claim]
      BY <2>3 DEF Write, Doing
    <3>2. proc[p].from \in Dir /\ proc[p].to \in Dir
      BY <1>1 DEF IInv, TypeOK
    <3>3. proc[p].claim # c
      BY <3>1, <3>2 DEF Replay
    <3> QED
      BY <2>1, <3>1, <3>3
  <2>4. CASE Unlink(p)
    BY <2>1, <2>4 DEF Unlink
  <2>5. file' = file \/ Write(p) \/ Unlink(p)
    BY <1>1 DEF Next, vars, Expire, DryRunClaim, Confirm, PlanClaim, PlanCliClaim, PlanMove, Record, Stop
  <2> QED
    BY <2>2, <2>3, <2>4, <2>5
<1> QED
  BY <1>2, <1>3, <1>4, <1>5, Invariance, PTL DEF Spec, RecordedClaimNotReplayed
-----------------------------------------------------------------------------
(* With any processes: before a reopen, moves only lead from one directory *)
(* to a later one, so whoever unlinks a copy leaves one further on.        *)
Rank == [d \in Dir |-> CASE d = "pending"   -> 0
                          [] d = "claimed"   -> 1
                          [] d = "blocked"   -> 2
                          [] d = "completed" -> 2
                          [] d = "withdrawn" -> 3]

FurtherOn(p) == \E d \in Copies : Rank[d] > Rank[proc[p].from]

RaceInv ==
    reopens = 0 =>
       /\ Copies # {}
       /\ \A p \in Process : ~IsIdle(p) => /\ proc[p].to # "pending"
                                           /\ Doing(p, "unlink") => FurtherOn(p)

LEMMA RankFacts ==
    /\ Rank \in [Dir -> Nat]
    /\ \A c, d \in Dir : <<c, d>> \in LegalMoves /\ d # "pending" => Rank[c] < Rank[d]
<1>1. /\ Rank["pending"] = 0 /\ Rank["claimed"] = 1 /\ Rank["blocked"] = 2
      /\ Rank["completed"] = 2 /\ Rank["withdrawn"] = 3
  BY DEF Rank, Dir
<1>2. Rank \in [Dir -> Nat]
  BY <1>1 DEF Rank, Dir
<1> QED
  BY <1>1, <1>2 DEF LegalMoves, Dir

LEMMA RaceStep ==
    ASSUME IInv, RaceInv, [Next]_vars
    PROVE  RaceInv'
<1> SUFFICES ASSUME reopens' = 0
             PROVE  /\ Copies' # {}
                    /\ \A q \in Process : ~IsIdle(q)' => /\ proc'[q].to # "pending"
                                                         /\ Doing(q, "unlink")' => FurtherOn(q)'
  BY DEF RaceInv
<1>0. /\ reopens = 0
      /\ Copies # {}
      /\ \A q \in Process : ~IsIdle(q) => /\ proc[q].to # "pending"
                                          /\ Doing(q, "unlink") => FurtherOn(q)
  <2>1. reopens \in Nat
    BY QueueMoveAssumption DEF IInv, TypeOK
  <2>2. reopens' = reopens \/ reopens' = reopens + 1
    BY DEF Next, vars, Expire, DryRunClaim, Confirm, PlanClaim, PlanCliClaim, PlanMove, Write, Unlink,
           Record, Stop
  <2>3. reopens = 0
    BY <2>1, <2>2
  <2> QED
    BY <2>3 DEF RaceInv
<1>1. \A q \in Process : proc[q].from \in Dir /\ proc[q].to \in Dir
  BY DEF IInv, TypeOK
<1>2. \A q \in Process : ~IsIdle(q) => Rank[proc[q].from] < Rank[proc[q].to]
  BY <1>0, <1>1, RankFacts DEF IInv, ProcInv
<1>3. ASSUME UNCHANGED <<file, proc>>
      PROVE  /\ Copies' # {}
             /\ \A q \in Process : ~IsIdle(q)' => /\ proc'[q].to # "pending"
                                                  /\ Doing(q, "unlink")' => FurtherOn(q)'
  BY <1>0, <1>3 DEF Copies, IsIdle, Doing, FurtherOn
(* One process takes a step after which the copies are further on. *)
<1>4. ASSUME NEW p \in Process, \A q \in Process \ {p} : proc'[q] = proc[q],
             Copies' # {},
             \A c \in Copies : \E d \in Copies' : Rank[d] >= Rank[c],
             ~IsIdle(p)' => /\ proc'[p].to # "pending"
                            /\ Doing(p, "unlink")' => FurtherOn(p)'
      PROVE  /\ Copies' # {}
             /\ \A q \in Process : ~IsIdle(q)' => /\ proc'[q].to # "pending"
                                                  /\ Doing(q, "unlink")' => FurtherOn(q)'
  <2> SUFFICES ASSUME NEW q \in Process, q # p, ~IsIdle(q)'
               PROVE  proc'[q].to # "pending" /\ (Doing(q, "unlink")' => FurtherOn(q)')
    BY <1>4
  <2>1. proc'[q] = proc[q] /\ ~IsIdle(q)
    BY <1>4 DEF IsIdle
  <2>2. ASSUME Doing(q, "unlink")' PROVE FurtherOn(q)'
    <3>1. FurtherOn(q)
      BY <1>0, <2>1, <2>2 DEF Doing
    <3>2. PICK c \in Copies : Rank[c] > Rank[proc[q].from]
      BY <3>1 DEF FurtherOn
    <3>3. PICK d \in Copies' : Rank[d] >= Rank[c]
      BY <1>4
    <3>4. Rank[d] \in Nat /\ Rank[c] \in Nat /\ Rank[proc[q].from] \in Nat
      BY <1>1, RankFacts DEF Copies
    <3>5. Rank[d] > Rank[proc[q].from]
      BY <3>2, <3>3, <3>4
    <3> QED
      BY <2>1, <3>5 DEF FurtherOn
  <2> QED
    BY <1>0, <2>1, <2>2
<1>5. \A c \in Copies : Rank[c] >= Rank[c]
  BY RankFacts DEF Copies
<1>6. ASSUME NEW p \in Process, NEW j, Started(p, j), UNCHANGED file, j.to # "pending"
      PROVE  /\ Copies' # {}
             /\ \A q \in Process : ~IsIdle(q)' => /\ proc'[q].to # "pending"
                                                  /\ Doing(q, "unlink")' => FurtherOn(q)'
  <2>1. proc'[p] = j /\ \A q \in Process \ {p} : proc'[q] = proc[q]
    BY <1>6, ProcStarted
  <2>2. Copies' = Copies
    BY <1>6 DEF Copies
  <2>3. ~Doing(p, "unlink")'
    BY <1>6, <2>1, PlanShapes DEF Doing, Started
  <2> QED
    BY <1>0, <1>4, <1>5, <1>6, <2>1, <2>2, <2>3
<1>7. CASE UNCHANGED vars \/ (\E c \in tokens : Expire(c)) \/ (\E p \in Process : DryRunClaim(p))
  BY <1>3, <1>7 DEF vars, Expire, DryRunClaim
<1>8. CASE \E p \in Process : \E c \in tokens : Confirm(p, c)
  <2>1. PICK p \in Process, c \in tokens : Confirm(p, c)
    BY <1>8
  <2>2. PICK j \in Procs(issued) : Started(p, j) /\ j.to = "claimed"
    BY <2>1, ConfirmPlans
  <2> QED
    BY <1>6, <2>1, <2>2 DEF Confirm
<1>9. CASE \E p \in Process : PlanCliClaim(p)
  <2>1. PICK p \in Process : PlanCliClaim(p)
    BY <1>9
  <2>2. PICK j \in Procs(issued') : Started(p, j) /\ j.to = "claimed"
    BY <2>1, CliPlans
  <2> QED
    BY <1>6, <2>1, <2>2 DEF PlanCliClaim
<1>10. CASE \E p \in Process : \E move \in Moves : PlanMove(p, move)
  <2>1. PICK p \in Process, move \in Moves : PlanMove(p, move)
    BY <1>10
  <2>2. PICK j \in Procs(issued) : Started(p, j) /\ (j.to = "pending" <=> move = "reopen")
    BY <2>1, MovePlans
  <2>3. move # "reopen"
    BY <1>0, <2>1 DEF PlanMove
  <2> QED
    BY <1>6, <2>1, <2>2, <2>3 DEF PlanMove
<1>11. ASSUME NEW p \in Process, ~IsIdle(p), proc' = GivenUp(p), Copies' = Copies
       PROVE  /\ Copies' # {}
              /\ \A q \in Process : ~IsIdle(q)' => /\ proc'[q].to # "pending"
                                                   /\ Doing(q, "unlink")' => FurtherOn(q)'
  BY <1>0, <1>4, <1>5, <1>11, GivenUpFacts
<1>12. CASE \E p \in Process : Write(p)
  <2>1. PICK p \in Process : Write(p)
    BY <1>12
  <2>2. ~IsIdle(p) /\ proc' = Done(p) /\ Copies' = Copies \cup {proc[p].to}
    BY <2>1, WriteInv DEF Write, Doing
  <2>3. proc'[p].from = proc[p].from /\ proc'[p].to = proc[p].to /\ \A q \in Process \ {p} : proc'[q] = proc[q]
    BY <2>2, DoneFacts
  <2>4. FurtherOn(p)'
    BY <1>2, <2>2, <2>3 DEF FurtherOn
  <2> QED
    BY <1>0, <1>4, <1>5, <2>2, <2>3, <2>4
<1>13. CASE \E p \in Process : Unlink(p)
  <2>1. PICK p \in Process : Unlink(p)
    BY <1>13
  <2>2. ~IsIdle(p) /\ Doing(p, "unlink") /\ Head(proc[p].todo) = "unlink"
    BY <2>1 DEF Unlink, Doing
  <2>3. CASE proc[p].from \notin Copies
    <3>1. UNCHANGED file /\ proc' = GivenUp(p)
      BY <2>1, <2>3, UnlinkInv
    <3> QED
      BY <1>11, <2>2, <3>1 DEF Copies
  <2>4. CASE proc[p].from \in Copies
    <3>1. proc' = Done(p) /\ Copies' = Copies \ {proc[p].from}
      BY <2>1, <2>4, UnlinkInv
    <3>2. PICK d \in Copies : Rank[d] > Rank[proc[p].from]
      BY <1>0, <2>2 DEF FurtherOn
    <3>3. Rank[d] \in Nat /\ Rank[proc[p].from] \in Nat
      BY <1>1, RankFacts DEF Copies
    <3>4. d \in Copies' /\ \A c \in Copies : \E e \in Copies' : Rank[e] >= Rank[c]
      BY <1>5, <3>1, <3>2, <3>3
    <3>5. proc'[p].to = proc[p].to /\ (\A q \in Process \ {p} : proc'[q] = proc[q]) /\ ~Doing(p, "unlink")'
      BY <2>2, <3>1, DoneFacts DEF Doing
    <3> QED
      BY <1>0, <1>4, <2>2, <3>4, <3>5
  <2> QED
    BY <2>3, <2>4
<1>14. CASE \E p \in Process : PlanClaim(p) \/ Record(p)
  <2>1. PICK p \in Process : PlanClaim(p) \/ Record(p)
    BY <1>14
  <2>2. /\ ~IsIdle(p) /\ (proc' = Done(p) \/ proc' = GivenUp(p)) /\ Copies' = Copies
        /\ Head(proc[p].todo) \in {"plan", "record"}
    BY <2>1 DEF PlanClaim, Record, Doing, Copies
  <2>3. CASE proc' = Done(p)
    <3>1. proc'[p].to = proc[p].to /\ (\A q \in Process \ {p} : proc'[q] = proc[q]) /\ ~Doing(p, "unlink")'
      BY <2>2, <2>3, DoneFacts DEF Doing
    <3> QED
      BY <1>0, <1>4, <1>5, <2>2, <3>1
  <2> QED
    BY <1>11, <2>2, <2>3
<1>15. CASE \E p \in Process : Stop(p)
  <2>1. PICK p \in Process : Stop(p)
    BY <1>15
  <2> QED
    BY <1>11, <2>1 DEF Stop, Copies
<1> QED
  BY <1>7, <1>8, <1>9, <1>10, <1>12, <1>13, <1>14, <1>15 DEF Next, Moves

(* Whatever number of processes race, and wherever they are stopped: as    *)
(* long as nobody reopens the card it is not lost (queue_mutation: write   *)
(* the target, then unlink the source).                                    *)
THEOREM NotLostByRaces == Spec => []NotLostByRace
<1>1. Init => RaceInv
  <2> SUFFICES ASSUME Init PROVE RaceInv
    OBVIOUS
  <2>1. "pending" \in Copies
    BY QueueMoveAssumption DEF Init, Copies, Dir, NoClaim, Absent
  <2>2. \A p \in Process : IsIdle(p)
    BY IdleFacts DEF Init, IsIdle
  <2> QED
    BY <2>1, <2>2 DEF RaceInv
<1>2. IInv /\ RaceInv /\ [Next]_vars => RaceInv'
  BY RaceStep
<1>3. RaceInv => NotLostByRace
  BY DEF RaceInv, NotLostByRace, NeverLost
<1> QED
  BY <1>1, <1>2, <1>3, Invariance, PTL DEF Spec
-----------------------------------------------------------------------------
(* With any processes, which claim through the gate: the chances to get    *)
(* records are the records themselves, the claims that have unlinked the   *)
(* pending card, the reopens that will write one, and the pending card.    *)
(* A step uses one chance up for another; a reopen adds one.               *)
Left(p) == In("record", proc[p].todo) /\ ~In("unlink", proc[p].todo)
Back(p) == In("write", proc[p].todo) /\ proc[p].to = "pending"

Chances ==
    {<<"record", c>> : c \in recorded}
      \cup {<<"left", p>> : p \in {q \in Process : Left(q)}}
      \cup {<<"back", p>> : p \in {q \in Process : Back(q)}}
      \cup {<<"file", d>> : d \in Copies \cap {"pending"}}

Bounded == IsFiniteSet(Chances) /\ Cardinality(Chances) <= 1 + reopens

LEMMA Swap ==
    ASSUME NEW S, IsFiniteSet(S), NEW x \in S, NEW y, NEW T \in SUBSET ((S \ {x}) \cup {y})
    PROVE  IsFiniteSet(T) /\ Cardinality(T) <= Cardinality(S)
<1>1. IsFiniteSet(S \ {x}) /\ Cardinality(S \ {x}) = Cardinality(S) - 1
  BY FS_RemoveElement
<1>2. /\ IsFiniteSet((S \ {x}) \cup {y})
      /\ \/ Cardinality((S \ {x}) \cup {y}) = Cardinality(S \ {x})
         \/ Cardinality((S \ {x}) \cup {y}) = Cardinality(S \ {x}) + 1
  BY <1>1, FS_AddElement
<1>3. IsFiniteSet(T) /\ Cardinality(T) <= Cardinality((S \ {x}) \cup {y})
  BY <1>2, FS_Subset
<1>4. Cardinality(S) \in Nat /\ Cardinality(T) \in Nat
  BY <1>3, FS_CardinalityType
<1> QED
  BY <1>1, <1>2, <1>3, <1>4

LEMMA Swapped ==
    ASSUME Bounded, reopens \in Nat, UNCHANGED reopens,
           Chances' \subseteq Chances \/ \E x \in Chances : \E y : Chances' \subseteq (Chances \ {x}) \cup {y}
    PROVE  Bounded'
<1>1. CASE Chances' \subseteq Chances
  <2>1. IsFiniteSet(Chances') /\ Cardinality(Chances') <= Cardinality(Chances)
    BY <1>1, FS_Subset DEF Bounded
  <2>2. Cardinality(Chances) \in Nat /\ Cardinality(Chances') \in Nat
    BY <2>1, FS_CardinalityType DEF Bounded
  <2> QED
    BY <2>1, <2>2 DEF Bounded
<1>2. CASE \E x \in Chances : \E y : Chances' \subseteq (Chances \ {x}) \cup {y}
  <2> PICK x \in Chances : \E y : Chances' \subseteq (Chances \ {x}) \cup {y}
    BY <1>2
  <2>1. PICK y : Chances' \subseteq (Chances \ {x}) \cup {y}
    OBVIOUS
  <2>2. IsFiniteSet(Chances') /\ Cardinality(Chances') <= Cardinality(Chances)
    BY <2>1, Swap DEF Bounded
  <2>3. Cardinality(Chances) \in Nat /\ Cardinality(Chances') \in Nat
    BY <2>2, FS_CardinalityType DEF Bounded
  <2> QED
    BY <2>2, <2>3 DEF Bounded
<1> QED
  BY <1>1, <1>2

(* What one process gains, all gain.                                       *)
LEMMA ChancesOf ==
    ASSUME NEW p \in Process, \A q \in Process \ {p} : proc'[q] = proc[q], NEW e \in Chances'
    PROVE  \/ e \in Chances
           \/ \E c \in recorded' \ recorded : e = <<"record", c>>
           \/ e = <<"left", p>> /\ Left(p)' /\ ~Left(p)
           \/ e = <<"back", p>> /\ Back(p)' /\ ~Back(p)
           \/ e = <<"file", "pending">> /\ "pending" \in Copies' \ Copies
<1>1. \A q \in Process \ {p} : (Left(q)' <=> Left(q)) /\ (Back(q)' <=> Back(q))
  BY DEF Left, Back
<1>2. CASE \E c \in recorded' : e = <<"record", c>>
  BY <1>2 DEF Chances
<1>3. CASE \E q \in Process : e = <<"left", q>> /\ Left(q)'
  BY <1>1, <1>3 DEF Chances
<1>4. CASE \E q \in Process : e = <<"back", q>> /\ Back(q)'
  BY <1>1, <1>4 DEF Chances
<1>5. CASE e = <<"file", "pending">> /\ "pending" \in Copies'
  BY <1>5 DEF Chances
<1> QED
  BY <1>2, <1>3, <1>4, <1>5 DEF Chances

LEMMA ChancesGone ==
    /\ \A p \in Process : /\ <<"left", p>> \in Chances <=> Left(p)
                          /\ <<"back", p>> \in Chances <=> Back(p)
    /\ <<"file", "pending">> \in Chances <=> "pending" \in Copies
  BY DEF Chances

LEMMA ChancesGoneNext ==
    /\ \A p \in Process : /\ <<"left", p>> \in Chances' <=> Left(p)'
                          /\ <<"back", p>> \in Chances' <=> Back(p)'
    /\ <<"file", "pending">> \in Chances' <=> "pending" \in Copies'
  BY DEF Chances

LEMMA BoundedStep ==
    ASSUME IInv, Bounded, ~CliClaims, [Next]_vars
    PROVE  Bounded'
<1>0. reopens \in Nat /\ file \in [Dir -> 0..Absent]
  BY QueueMoveAssumption DEF IInv, TypeOK
<1>1. ASSUME UNCHANGED <<file, recorded, proc, reopens>> PROVE Bounded'
  <2>1. Chances' = Chances
    BY <1>1 DEF Chances, Copies, Left, Back
  <2> QED
    BY <1>1, <2>1 DEF Bounded
<1>2. CASE UNCHANGED vars \/ (\E c \in tokens : Expire(c)) \/ (\E p \in Process : DryRunClaim(p))
  BY <1>1, <1>2 DEF vars, Expire, DryRunClaim
<1>3. ASSUME NEW p \in Process, NEW j, Started(p, j), UNCHANGED <<file, recorded>>
      PROVE  /\ proc'[p] = j /\ \A q \in Process \ {p} : proc'[q] = proc[q]
             /\ ~Left(p)'
             /\ Chances' \subseteq IF j.to = "pending" THEN Chances \cup {<<"back", p>>} ELSE Chances
  <2>1. proc'[p] = j /\ \A q \in Process \ {p} : proc'[q] = proc[q]
    BY <1>3, ProcStarted
  <2>2. ~Left(p)'
    BY <1>3, <2>1, PlanShapes DEF Left, Started
  <2>3. Copies' = Copies /\ (Back(p)' => j.to = "pending")
    BY <1>3, <2>1 DEF Copies, Back
  <2>4. ASSUME NEW e \in Chances'
        PROVE  e \in Chances \/ (j.to = "pending" /\ e = <<"back", p>>)
    <3>1. \/ e \in Chances
          \/ \E c \in recorded' \ recorded : e = <<"record", c>>
          \/ e = <<"left", p>> /\ Left(p)' /\ ~Left(p)
          \/ e = <<"back", p>> /\ Back(p)' /\ ~Back(p)
          \/ e = <<"file", "pending">> /\ "pending" \in Copies' \ Copies
      BY <2>1, ChancesOf
    <3> QED
      BY <1>3, <2>2, <2>3, <3>1
  <2> QED
    BY <2>1, <2>2, <2>4
<1>4. ASSUME NEW p \in Process, NEW c \in tokens, Confirm(p, c) PROVE Bounded'
  <2>1. PICK j \in Procs(issued) : Started(p, j) /\ j.to = "claimed"
    BY <1>4, ConfirmPlans
  <2>2. UNCHANGED <<file, recorded, reopens>>
    BY <1>4 DEF Confirm
  <2>3. Chances' \subseteq Chances
    BY <1>3, <2>1, <2>2
  <2> QED
    BY <1>0, <2>2, <2>3, Swapped
<1>5. ASSUME NEW p \in Process, NEW move \in Moves, PlanMove(p, move) PROVE Bounded'
  <2>1. PICK j \in Procs(issued) : Started(p, j) /\ (j.to = "pending" <=> move = "reopen")
    BY <1>5, MovePlans
  <2>2. UNCHANGED <<file, recorded>> /\ reopens' = IF move = "reopen" THEN reopens + 1 ELSE reopens
    BY <1>5 DEF PlanMove
  <2>3. CASE move = "reopen"
    <3>1. Chances' \subseteq Chances \cup {<<"back", p>>}
      BY <1>3, <2>1, <2>2, <2>3
    <3>2. /\ IsFiniteSet(Chances \cup {<<"back", p>>})
          /\ \/ Cardinality(Chances \cup {<<"back", p>>}) = Cardinality(Chances)
             \/ Cardinality(Chances \cup {<<"back", p>>}) = Cardinality(Chances) + 1
      BY FS_AddElement DEF Bounded
    <3>3. IsFiniteSet(Chances') /\ Cardinality(Chances') <= Cardinality(Chances \cup {<<"back", p>>})
      BY <3>1, <3>2, FS_Subset
    <3>4. Cardinality(Chances) \in Nat /\ Cardinality(Chances') \in Nat
      BY <3>3, FS_CardinalityType DEF Bounded
    <3> QED
      BY <1>0, <2>2, <2>3, <3>2, <3>3, <3>4 DEF Bounded
  <2>4. CASE move # "reopen"
    <3>1. Chances' \subseteq Chances
      BY <1>3, <2>1, <2>2, <2>4
    <3> QED
      BY <1>0, <2>2, <2>4, <3>1, Swapped
  <2> QED
    BY <2>3, <2>4
(* A step of a move: the lists of writes shrink. *)
<1>6. ASSUME NEW p \in Process, ~IsIdle(p), proc' = Done(p)
      PROVE  /\ proc'[p].to = proc[p].to /\ \A q \in Process \ {p} : proc'[q] = proc[q]
             /\ \A e : In(e, proc'[p].todo) <=> In(e, proc[p].todo) /\ e # Head(proc[p].todo)
             /\ Back(p)' => Back(p)
             /\ Head(proc[p].todo) # "unlink" => (Left(p)' => Left(p))
             /\ In(Head(proc[p].todo), proc[p].todo)
  <2>1. /\ proc'[p].to = proc[p].to /\ \A q \in Process \ {p} : proc'[q] = proc[q]
        /\ \A e : In(e, proc'[p].todo) <=> In(e, proc[p].todo) /\ e # Head(proc[p].todo)
    BY <1>6, DoneFacts
  <2>2. proc[p].todo \in Seq(Step) /\ proc[p].todo # <<>> /\ Shape(proc[p].todo)
    BY <1>6 DEF IInv, TypeOK, ProcInv, IsIdle
  <2> QED
    BY <2>1, <2>2, TailFacts DEF Left, Back
<1>7. ASSUME NEW p \in Process, \A q \in Process \ {p} : proc'[q] = proc[q],
             Left(p)' => Left(p), Back(p)' => Back(p),
             recorded' \subseteq recorded, Copies' \subseteq Copies \/ "pending" \notin Copies' \ Copies
      PROVE  Chances' \subseteq Chances
  <2> SUFFICES ASSUME NEW e \in Chances' PROVE e \in Chances
    OBVIOUS
  <2> QED
    BY <1>7, ChancesOf
<1>8. ASSUME NEW p \in Process, proc' = GivenUp(p), UNCHANGED <<file, recorded, reopens>>
      PROVE  Bounded'
  <2>1. /\ \A q \in Process \ {p} : proc'[q] = proc[q]
        /\ ~Left(p)' /\ ~Back(p)' /\ Copies' = Copies
    BY <1>8, GivenUpFacts, IdleFacts DEF Left, Back, Copies
  <2>2. Chances' \subseteq Chances
    BY <1>7, <1>8, <2>1
  <2> QED
    BY <1>0, <1>8, <2>2, Swapped
<1>9. ASSUME NEW p \in Process, Write(p) PROVE Bounded'
  <2>1. /\ ~IsIdle(p) /\ proc' = Done(p) /\ UNCHANGED <<recorded, reopens>>
        /\ Head(proc[p].todo) \in {"write", "rewrite"}
        /\ Copies' = Copies \cup {proc[p].to}
    BY <1>9, WriteInv DEF Write, Doing
  <2>2. /\ proc'[p].to = proc[p].to /\ \A q \in Process \ {p} : proc'[q] = proc[q]
        /\ \A e : In(e, proc'[p].todo) <=> In(e, proc[p].todo) /\ e # Head(proc[p].todo)
        /\ (Back(p)' => Back(p)) /\ (Left(p)' => Left(p))
        /\ In(Head(proc[p].todo), proc[p].todo)
    BY <1>6, <2>1
  <2>3. CASE proc[p].to # "pending"
    <3>1. Chances' \subseteq Chances
      BY <1>7, <2>1, <2>2, <2>3
    <3> QED
      BY <1>0, <2>1, <3>1, Swapped
  <2>4. CASE proc[p].to = "pending"
    <3>1. Head(proc[p].todo) = "write"
      BY <2>1, <2>2, <2>4 DEF IInv, ProcInv
    <3>2. Back(p) /\ ~Back(p)'
      BY <2>2, <2>4, <3>1 DEF Back
    <3>3. <<"back", p>> \in Chances /\ <<"back", p>> \notin Chances'
      BY <3>2, ChancesGone, ChancesGoneNext
    <3>4. ASSUME NEW e \in Chances' PROVE e \in (Chances \ {<<"back", p>>}) \cup {<<"file", "pending">>}
      BY <2>1, <2>2, <3>3, ChancesOf
    <3> QED
      BY <1>0, <2>1, <3>3, <3>4, Swapped
  <2> QED
    BY <2>3, <2>4
<1>10. ASSUME NEW p \in Process, Unlink(p) PROVE Bounded'
  <2>1. ~IsIdle(p) /\ UNCHANGED <<recorded, reopens>>
    BY <1>10 DEF Unlink, Doing
  <2>2. CASE proc[p].from \notin Copies
    BY <1>8, <1>10, <2>1, <2>2, UnlinkInv
  <2>3. CASE proc[p].from \in Copies
    <3>1. proc' = Done(p) /\ Copies' = Copies \ {proc[p].from}
      BY <1>10, <2>3, UnlinkInv
    <3>2. /\ \A q \in Process \ {p} : proc'[q] = proc[q]
          /\ \A e : In(e, proc'[p].todo) <=> In(e, proc[p].todo) /\ e # Head(proc[p].todo)
          /\ Back(p)' => Back(p)
      BY <1>6, <2>1, <3>1
    <3>3. CASE proc[p].from # "pending"
      <4>1. ~Left(p)'
        BY <3>2, <3>3 DEF Left, IInv, ProcInv
      <4>2. Chances' \subseteq Chances
        BY <1>7, <2>1, <3>1, <3>2, <4>1
      <4> QED
        BY <1>0, <2>1, <4>2, Swapped
    <3>4. CASE proc[p].from = "pending"
      <4>1. <<"file", "pending">> \in Chances /\ <<"file", "pending">> \notin Chances'
        BY <2>3, <3>1, <3>4, ChancesGone, ChancesGoneNext
      <4>2. ASSUME NEW e \in Chances' PROVE e \in (Chances \ {<<"file", "pending">>}) \cup {<<"left", p>>}
        BY <2>1, <3>1, <3>2, <4>1, ChancesOf
      <4> QED
        BY <1>0, <2>1, <4>1, <4>2, Swapped
    <3> QED
      BY <3>3, <3>4
  <2> QED
    BY <2>2, <2>3
<1>11. ASSUME NEW p \in Process, PlanClaim(p) PROVE Bounded'
  <2>1. ~IsIdle(p) /\ UNCHANGED <<file, recorded, reopens>> /\ Head(proc[p].todo) = "plan" /\ Copies' = Copies
    BY <1>11 DEF PlanClaim, Doing, Copies
  <2>2. CASE proc' = Done(p)
    <3>1. Chances' \subseteq Chances
      BY <1>6, <1>7, <2>1, <2>2
    <3> QED
      BY <1>0, <2>1, <3>1, Swapped
  <2> QED
    BY <1>8, <1>11, <2>1, <2>2 DEF PlanClaim
<1>12. ASSUME NEW p \in Process, Record(p) PROVE Bounded'
  <2>1. /\ ~IsIdle(p) /\ UNCHANGED <<file, reopens>> /\ Head(proc[p].todo) = "record" /\ Copies' = Copies
        /\ proc' = Done(p) /\ Doing(p, "record") /\ recorded' \subseteq recorded \cup {proc[p].claim}
    BY <1>12 DEF Record, Doing, Copies
  <2>2. /\ \A q \in Process \ {p} : proc'[q] = proc[q]
        /\ Back(p)' => Back(p)
        /\ In("record", proc[p].todo) /\ ~In("record", proc'[p].todo)
    BY <1>6, <2>1
  <2>3. ~In("unlink", proc[p].todo)
    <3>1. Len(proc[p].todo) = 1 /\ proc[p].todo \in Seq(Step)
      BY <2>1 DEF IInv, ProcInv, TypeOK
    <3>2. proc[p].todo[1] = "record"
      BY <2>1, <3>1
    <3> QED
      BY <3>1, <3>2 DEF In
  <2>4. Left(p) /\ ~Left(p)'
    BY <2>2, <2>3 DEF Left
  <2>5. <<"left", p>> \in Chances /\ <<"left", p>> \notin Chances'
    BY <2>4, ChancesGone, ChancesGoneNext
  <2>6. ASSUME NEW e \in Chances' PROVE e \in (Chances \ {<<"left", p>>}) \cup {<<"record", proc[p].claim>>}
    BY <2>1, <2>2, <2>4, <2>5, ChancesOf
  <2> QED
    BY <1>0, <2>1, <2>5, <2>6, Swapped
<1>13. ASSUME NEW p \in Process, Stop(p) PROVE Bounded'
  BY <1>8, <1>13 DEF Stop
<1>14. \A p \in Process : ~PlanCliClaim(p)
  BY DEF PlanCliClaim
<1> QED
  BY <1>2, <1>4, <1>5, <1>9, <1>10, <1>11, <1>12, <1>13, <1>14 DEF Next, Moves

(* Of gate claims that race, with whatever number of processes and stops,  *)
(* at most one gets its records each time the card becomes pending: only   *)
(* one of them finds the pending card to unlink.                           *)
THEOREM OneWinsEachTime == Spec => []OneRecordPerPending
<1>1. Init /\ ~CliClaims => Bounded
  <2> SUFFICES ASSUME Init PROVE Bounded
    OBVIOUS
  <2>1. \A p \in Process : ~Left(p) /\ ~Back(p)
    BY IdleFacts DEF Init, Left, Back
  <2>2. Chances \subseteq {<<"file", "pending">>}
    BY <2>1 DEF Chances, Init
  <2>3. IsFiniteSet({<<"file", "pending">>}) /\ Cardinality({<<"file", "pending">>}) = 1
    BY FS_Singleton
  <2>4. IsFiniteSet(Chances) /\ Cardinality(Chances) <= 1
    BY <2>2, <2>3, FS_Subset
  <2> QED
    BY <2>4 DEF Bounded, Init
<1>2. IInv /\ Bounded /\ ~CliClaims /\ [Next]_vars => Bounded'
  BY BoundedStep
<1>3. IInv /\ (~CliClaims => Bounded) => OneRecordPerPending
  <2> SUFFICES ASSUME IInv, Bounded PROVE Cardinality(recorded) <= 1 + reopens
    BY DEF OneRecordPerPending
  <2> DEFINE f == [c \in recorded |-> <<"record", c>>]
  <2>1. f \in Injection(recorded, Chances)
    BY DEF Injection, IsInjective, Chances
  <2> HIDE DEF f
  <2>2. IsFiniteSet(recorded) /\ Cardinality(recorded) <= Cardinality(Chances)
    BY <2>1, FS_Injection DEF Bounded
  <2>3. Cardinality(recorded) \in Nat /\ Cardinality(Chances) \in Nat /\ reopens \in Nat
    BY <2>2, FS_CardinalityType, QueueMoveAssumption DEF Bounded, IInv, TypeOK
  <2> QED
    BY <2>2, <2>3 DEF Bounded
<1>4. Init => (~CliClaims => Bounded)
  BY <1>1
<1>5. IInv /\ (~CliClaims => Bounded) /\ [Next]_vars => (~CliClaims => Bounded)'
  BY <1>2
<1> QED
  BY <1>3, <1>4, <1>5, Invariance, PTL DEF Spec
=============================================================================
