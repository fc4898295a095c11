--------------------------- MODULE CardLifecycle ---------------------------
(***************************************************************************)
(* What the queue promises about one task card, without saying how: the    *)
(* directory the card is filed in, the work rounds a reopen opens, whether *)
(* the current round has a return, and the rounds that have a closure      *)
(* record.  CardLoop is shown to implement this module.                    *)
(***************************************************************************)
EXTENDS Naturals

CONSTANT MaxRounds   \* bound on the rounds a card goes through

VARIABLES place,      \* queue directory of the card (= its frontmatter status)
          round,      \* current round: reopens that left a round boundary, plus 1
          delivered,  \* TRUE iff a return is recorded in the current round
          closed      \* rounds for which a closure record exists

vars == <<place, round, delivered, closed>>

Places == {"pending", "claimed", "blocked", "completed", "withdrawn"}

Init == /\ place = "pending"
        /\ round = 1
        /\ delivered = FALSE
        /\ closed = {}

Claim == /\ place = "pending"
         /\ place' = "claimed"
         /\ UNCHANGED <<round, delivered, closed>>

Deliver == /\ place = "claimed"
           /\ delivered' = TRUE
           /\ UNCHANGED <<place, round, closed>>

Block == /\ place = "claimed"
         /\ place' = "blocked"
         /\ UNCHANGED <<round, delivered, closed>>

(* A card is completed by its closure, at most once in a round. *)
Complete == /\ place = "claimed"
            /\ round \notin closed
            /\ place' = "completed"
            /\ closed' = closed \cup {round}
            /\ UNCHANGED <<round, delivered>>

(* A reopen opens a new round only if the current one has a return. *)
Reopen == /\ place \in {"blocked", "completed"}
          /\ place' = "pending"
          /\ IF delivered
             THEN round < MaxRounds /\ round' = round + 1 /\ delivered' = FALSE
             ELSE UNCHANGED <<round, delivered>>
          /\ UNCHANGED closed

Withdraw == /\ place \in {"pending", "claimed", "blocked"}
            /\ place' = "withdrawn"
            /\ UNCHANGED <<round, delivered, closed>>

Next == Claim \/ Deliver \/ Block \/ Complete \/ Reopen \/ Withdraw

Spec == Init /\ [][Next]_vars
============================================================================
