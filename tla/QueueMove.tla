----------------------------- MODULE QueueMove -----------------------------
(***************************************************************************)
(* How one card is moved between queue directories, file by file.  A move  *)
(* is planned from what the directories hold, and then executed in steps   *)
(* that other processes interleave with and after any of which the process *)
(* may stop: write the card in the target directory, unlink the source,    *)
(* and for a claim write it again with its work tree and write its         *)
(* records.  There is no lock.  A gate claim is confirmed with a dry-run   *)
(* token that is persisted, checked again, and never consumed.             *)
(*                                                                         *)
(* CardLoop takes each of these moves as one step.  Left out here: audit   *)
(* cards, round boundaries and what is written besides the card and the    *)
(* claim records; a token of withdraw, close and the rest (they plan from  *)
(* what they read when they execute).                                      *)
(***************************************************************************)
EXTENDS Naturals, Sequences, FiniteSets

CONSTANTS Process,     \* threads of the gate server and CLI processes
          MaxClaims,   \* bound on the claim ids given out
          MaxReopens,  \* bound on the reopens planned
          CliClaims,   \* TRUE iff "queue claim" is also run from the CLI
          ByPath       \* TRUE iff CLI commands may name the card by its path

ASSUME QueueMoveAssumption ==
    /\ Process # {}
    /\ MaxClaims \in Nat /\ MaxReopens \in Nat
    /\ CliClaims \in BOOLEAN
    /\ ByPath \in BOOLEAN

VARIABLES
    file,     \* for each queue directory the claim id on the copy there, or Absent
    issued,   \* claim ids given out so far
    tokens,   \* claim ids of dry-run tokens that have not expired
    recorded, \* claim ids with a claim record
    reopens,  \* reopens planned so far
    proc,     \* what each process still has to do
    stopped   \* a process stopped, or failed, in the middle of a move

vars == <<file, issued, tokens, recorded, reopens, proc, stopped>>

Dir == {"pending", "claimed", "blocked", "completed", "withdrawn"}
Absent == MaxClaims + 1
NoClaim == 0

(* What a move has left to do; "plan" stands for the second reading of the *)
(* card, by the executor, after the confirmation has checked the token.    *)
Step == {"plan", "write", "unlink", "rewrite", "record"}
GateClaimUnrecorded == <<"plan", "write", "unlink", "rewrite">>   \* mutant of GateClaim
GateClaim == <<"plan", "write", "unlink", "rewrite", "record">>
CliClaim == <<"record", "write", "unlink", "rewrite">>
SwappedMove == <<"unlink", "write">>   \* mutant of PlainMove: the source goes first
PlainMove == <<"write", "unlink">>

Idle == [todo |-> <<>>, from |-> "pending", to |-> "pending", claim |-> NoClaim]

Init == /\ file = [d \in Dir |-> IF d = "pending" THEN NoClaim ELSE Absent]
        /\ issued = 0
        /\ tokens = {}
        /\ recorded = {}
        /\ reopens = 0
        /\ proc = [p \in Process |-> Idle]
        /\ stopped = FALSE
-----------------------------------------------------------------------------
Copies == {d \in Dir : file[d] # Absent}

Unchecked(d) == TRUE   \* mutant of SoleCopy: the card is not looked up

(* The card is found by its id: it lies in this directory and no other. *)
SoleCopy(d) == Copies = {d}

(* A command of the CLI that names the card by its path looks only at that *)
(* file, and that there is none in the target directory.                   *)
Selected(d, to) == \/ SoleCopy(d)
                   \/ ByPath /\ d \in Copies /\ to \notin Copies

AnySource(move) == Dir   \* mutant of Sources: a move from any directory

Sources(move) ==
    CASE move = "block"    -> {"claimed"}
      [] move = "complete" -> {"claimed"}
      [] move = "reopen"   -> {"blocked", "completed"}
      [] move = "withdraw" -> {"pending", "claimed", "blocked"}

Target(move) ==
    CASE move = "block"    -> "blocked"
      [] move = "complete" -> "completed"
      [] move = "reopen"   -> "pending"
      [] move = "withdraw" -> "withdrawn"

IsIdle(p) == proc[p].todo = <<>>

Doing(p, step) == ~IsIdle(p) /\ Head(proc[p].todo) = step

Done(p) == [proc EXCEPT ![p].todo = Tail(@)]

GivenUp(p) == [proc EXCEPT ![p] = Idle]
-----------------------------------------------------------------------------
(* A claim preview registers a token with the claim id it planned. *)
DryRunClaim(p) ==
    /\ IsIdle(p)
    /\ SoleCopy("pending")
    /\ issued < MaxClaims
    /\ issued' = issued + 1
    /\ tokens' = tokens \cup {issued + 1}
    /\ UNCHANGED <<file, recorded, reopens, proc, stopped>>

Expire(c) == /\ c \in tokens
             /\ tokens' = tokens \ {c}
             /\ UNCHANGED <<file, issued, recorded, reopens, proc, stopped>>

Replayable(c) == TRUE   \* mutant of Fresh: the records are not looked at again

(* No claim record of this id exists yet. *)
Fresh(c) == c \notin recorded

(* The confirmation runs the preview again: the card is still pending and  *)
(* the planned records still do not exist.  The token stays.               *)
Confirm(p, c) ==
    /\ IsIdle(p)
    /\ c \in tokens
    /\ SoleCopy("pending")
    /\ Fresh(c)
    /\ proc' = [proc EXCEPT ![p] = [todo |-> GateClaim, from |-> "pending",
                                    to |-> "claimed", claim |-> c]]
    /\ UNCHANGED <<file, issued, tokens, recorded, reopens, stopped>>

(* The executor reads the card again before it builds the work tree. *)
PlanClaim(p) ==
    /\ Doing(p, "plan")
    /\ proc' = IF SoleCopy("pending") THEN Done(p) ELSE GivenUp(p)
    /\ UNCHANGED <<file, issued, tokens, recorded, reopens, stopped>>

PlanCliClaim(p) ==
    /\ CliClaims
    /\ IsIdle(p)
    /\ Selected("pending", "claimed")
    /\ issued < MaxClaims
    /\ issued' = issued + 1
    /\ proc' = [proc EXCEPT ![p] = [todo |-> CliClaim, from |-> "pending",
                                    to |-> "claimed", claim |-> issued + 1]]
    /\ UNCHANGED <<file, tokens, recorded, reopens, stopped>>

(* The card keeps its claim id, except that a reopen drops it. *)
PlanMove(p, move) ==
    /\ IsIdle(p)
    /\ move = "reopen" => reopens < MaxReopens
    /\ \E d \in Sources(move) :
          /\ IF move \in {"block", "reopen"} THEN Selected(d, Target(move)) ELSE SoleCopy(d)
          /\ proc' = [proc EXCEPT ![p] =
                        [todo |-> PlainMove, from |-> d, to |-> Target(move),
                         claim |-> IF move = "reopen" THEN NoClaim ELSE file[d]]]
    /\ reopens' = IF move = "reopen" THEN reopens + 1 ELSE reopens
    /\ UNCHANGED <<file, issued, tokens, recorded, stopped>>
-----------------------------------------------------------------------------
(* The target is overwritten if another process has put a card there. *)
Write(p) ==
    /\ Doing(p, "write") \/ Doing(p, "rewrite")
    /\ file' = [file EXCEPT ![proc[p].to] = proc[p].claim]
    /\ proc' = Done(p)
    /\ UNCHANGED <<issued, tokens, recorded, reopens, stopped>>

UnlinkFinds(d) == TRUE   \* mutant of Found: unlinking a missing file is no error

Found(d) == d \in Copies

(* Unlinking a file that is gone raises: the rest of the move is not done. *)
Unlink(p) ==
    /\ Doing(p, "unlink")
    /\ IF Found(proc[p].from)
       THEN file' = [file EXCEPT ![proc[p].from] = Absent] /\ proc' = Done(p)
       ELSE proc' = GivenUp(p) /\ UNCHANGED file
    /\ UNCHANGED <<issued, tokens, recorded, reopens, stopped>>

(* Writing the records is refused if they exist. *)
Record(p) ==
    /\ Doing(p, "record")
    /\ IF Fresh(proc[p].claim)
       THEN recorded' = recorded \cup {proc[p].claim}
       ELSE UNCHANGED recorded
    /\ proc' = Done(p)
    /\ UNCHANGED <<file, issued, tokens, reopens, stopped>>

(* The process is killed or an error is raised between two steps. *)
Stop(p) == /\ ~IsIdle(p)
           /\ proc' = GivenUp(p)
           /\ stopped' = TRUE
           /\ UNCHANGED <<file, issued, tokens, recorded, reopens>>

Next ==
    \/ \E c \in tokens : Expire(c)
    \/ \E p \in Process :
          \/ DryRunClaim(p)
          \/ \E c \in tokens : Confirm(p, c)
          \/ PlanClaim(p)
          \/ PlanCliClaim(p)
          \/ \E move \in {"block", "complete", "reopen", "withdraw"} : PlanMove(p, move)
          \/ Write(p)
          \/ Unlink(p)
          \/ Record(p)
          \/ Stop(p)

Spec == Init /\ [][Next]_vars
-----------------------------------------------------------------------------
AtRest == \A p \in Process : IsIdle(p)

(* The types of the variables. *)
TypeOK ==
    /\ file \in [Dir -> 0..Absent]
    /\ issued \in 0..MaxClaims
    /\ tokens \subseteq 1..issued
    /\ recorded \subseteq 1..issued
    /\ reopens \in 0..MaxReopens
    /\ proc \in [Process -> [todo : Seq(Step), from : Dir, to : Dir, claim : 0..issued]]
    /\ stopped \in BOOLEAN

(* With one process the card is never lost, wherever a move is cut short:  *)
(* some directory holds a copy.                                            *)
NeverLost == Copies # {}

(* Nor is it lost when moves race, as long as none of them is a reopen.    *)
(* (A claim that is overtaken between its write and its unlink by another  *)
(* claim, a block and a reopen unlinks the reopened card.)                 *)
NotLostByRace == reopens = 0 => NeverLost

LegalMoves == {<<"pending", "claimed">>, <<"claimed", "blocked">>,
               <<"claimed", "completed">>, <<"blocked", "pending">>,
               <<"completed", "pending">>, <<"pending", "withdrawn">>,
               <<"claimed", "withdrawn">>, <<"blocked", "withdrawn">>}

(* With one process, a stopped move leaves at most its source and target,  *)
(* so the two copies tell a person which move was cut short.               *)
StrandedByOneMove ==
    \A c, d \in Copies : c # d => <<c, d>> \in LegalMoves \/ <<d, c>> \in LegalMoves

(* A token survives its use, and a restart of the server: still a claim    *)
(* that has its record is never executed a second time, not even after the *)
(* card was reopened.                                                      *)
RecordedClaimNotReplayed ==
    [][ \A c \in recorded \cap tokens :
          (\A d \in Dir : file[d] # c) => \A d \in Dir : file'[d] # c ]_vars

(* A claimed card has the claim record its return will be checked against, *)
(* unless a process stopped on the way.                                    *)
ClaimIsRecorded ==
    AtRest /\ ~stopped /\ "claimed" \in Copies => file["claimed"] \in recorded

(* Unlinking the source decides between gate claims that race: each time   *)
(* the card becomes pending, at most one of them gets its records.         *)
OneRecordPerPending == ~CliClaims => Cardinality(recorded) <= 1 + reopens
-----------------------------------------------------------------------------
(* What the documents say and the code does not do.                        *)

(* validator.py, "Duplicate task_id requires manual repair": a card left in *)
(* two directories is touched by no further move.  A CLI command that      *)
(* names the card by its path does move one of the copies.                 *)
StrandedIsFrozen ==
    [][ AtRest /\ Cardinality(Copies) > 1 => file' = file /\ AtRest' ]_vars

(* schema/transitions.schema.json, N1 no_active_claim: a task cannot be    *)
(* claimed twice.                                                          *)
NotClaimedTwice ==
    [][ "claimed" \in Copies /\ file'["claimed"] # Absent
          => file'["claimed"] = file["claimed"] ]_vars
=============================================================================
