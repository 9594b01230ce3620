---------------------------- MODULE PollPromise ----------------------------
(***************************************************************************)
(* What the read loop of mbpoll promises its user, with no word of how it  *)
(* gets there: the slaves of the list are polled in turn, round after      *)
(* round (one round with -1).  In a slave's turn every reference is        *)
(* settled, in the order of the list, block by block: a block is the       *)
(* longest run of references that one request can carry, and it is either  *)
(* answered, and then every one of its references is shown, or it fails as *)
(* a whole.  Only SIGINT ends a turn early, and only SIGINT or a failure   *)
(* exit ends the program before it has done what was asked.                *)
(***************************************************************************)
EXTENDS MbPollContext

VARIABLES
  ctx,       \* the parameters
  next,      \* the slave whose turn it is or comes next; 0 before the first
  phase,     \* "idle" between turns, "turn" in one, "over" at the end
  outcome,   \* what became of each reference in this turn
  stop,      \* SIGINT has been caught
  broken     \* a failure exit was taken, or SIGINT came before its handler

vars == <<ctx, next, phase, outcome, stop, broken>>

Slaves == ctx.piSlaveAddr
Refs   == ctx.piStartRef
Unit   == RegisterCount(ctx)
Indexes == 1..Len(Refs)

Init ==
  /\ next = 0 /\ phase = "idle"
  /\ outcome = [n \in Indexes |-> "pending"]
  /\ ~stop /\ ~broken

-----------------------------------------------------------------------------
Adjacent(a) == Refs[a + 1] = Refs[a] + Unit
OneRequest(a, b) == Refs[b] + Unit - Refs[a] \in 1..MaxUnits(ctx)

\* a..b is the longest run from a that one request carries.
IsBlock(a, b) ==
  /\ a <= b
  /\ \A n \in a..(b - 1) : Adjacent(n)
  /\ OneRequest(a, b)
  /\ b < Len(Refs) => ~(Adjacent(b) /\ OneRequest(a, b + 1))

\* a is the first reference that is not settled.
IsFirst(a, state) ==
  /\ outcome[a] = state
  /\ \A n \in 1..(a - 1) : outcome[n] \in {"shown", "failed"}

Settle(a, b, state) ==
  outcome' = [n \in Indexes |-> IF n \in a..b THEN state ELSE outcome[n]]

-----------------------------------------------------------------------------
NewRound ==
  /\ phase = "idle" /\ Reads(ctx) /\ ~stop
  /\ next = 0 \/ (next > Len(Slaves) /\ ctx.bIsPolling)
  /\ next' = 1
  /\ UNCHANGED <<ctx, phase, outcome, stop, broken>>

StartTurn ==
  /\ phase = "idle" /\ next \in 1..Len(Slaves) /\ ~stop
  /\ phase' = "turn"
  /\ outcome' = [n \in Indexes |-> "pending"]
  /\ UNCHANGED <<ctx, next, stop, broken>>

\* The next block is answered, or fails as a whole.
Request ==
  /\ phase = "turn"
  /\ \E a, b \in Indexes :
       /\ IsFirst(a, "pending") /\ IsBlock(a, b)
       /\ Settle(a, b, "answered") \/ Settle(a, b, "failed")
  /\ UNCHANGED <<ctx, next, phase, stop, broken>>

\* The values of a reference that was answered are printed.
Show ==
  /\ phase = "turn"
  /\ \E a \in Indexes : IsFirst(a, "answered") /\ Settle(a, a, "shown")
  /\ UNCHANGED <<ctx, next, phase, stop, broken>>

EndTurn ==
  /\ phase = "turn"
  /\ \A n \in Indexes : outcome[n] \in {"shown", "failed"} \/ (outcome[n] = "pending" /\ stop)
  /\ phase' = "idle" /\ next' = next + 1
  /\ UNCHANGED <<ctx, outcome, stop, broken>>

Finish ==
  /\ phase = "idle"
  /\ \/ stop
     \/ ~Reads(ctx)
     \/ next > Len(Slaves) /\ ~ctx.bIsPolling
  /\ phase' = "over"
  /\ UNCHANGED <<ctx, next, outcome, stop, broken>>

Stop ==
  /\ stop' = TRUE
  /\ UNCHANGED <<ctx, next, phase, outcome, broken>>

Break ==
  /\ phase' = "over" /\ broken' = TRUE
  /\ UNCHANGED <<ctx, next, outcome, stop>>

Progress == NewRound \/ StartTurn \/ Request \/ Show \/ EndTurn \/ Finish

Next == Progress \/ Stop \/ Break

Safe == Init /\ [][Next]_vars

\* Something always happens until the program is over.
Spec == Safe /\ WF_vars(Progress)
=============================================================================
