---------------------------- MODULE TrafficLedger ----------------------------
(***************************************************************************)
(* What the accounting pipeline promises about the traffic of a response:  *)
(* it is held for one session of the address it was sent to, written to    *)
(* the log of that session, and billed from there once.  It may be lost,   *)
(* but only while it is in memory: what is in the log is billed and        *)
(* nothing is billed twice.                                                *)
(***************************************************************************)
CONSTANTS Sessions, Records, IpOf, RecIp

VARIABLES
  phase,      \* where the traffic of a record is
  account     \* the sessions it is held or logged for

ledgerVars == <<phase, account>>

Phases == {"pending", "held", "logged", "billed", "lost"}

Init ==
  /\ phase = [r \in Records |-> "pending"]
  /\ account = [r \in Records |-> {}]

Move(R, from, to, S) ==
  /\ \A r \in R : phase[r] \in from
  /\ phase' = [r \in Records |-> IF r \in R THEN to ELSE phase[r]]
  /\ account' = [r \in Records |-> IF r \in R THEN S ELSE account[r]]

Hold(r, s) ==
  /\ IpOf[s] = RecIp[r]
  /\ Move({r}, {"pending"}, "held", {s})

Log(r) == Move({r}, {"held"}, "logged", account[r])

Bill(R) == Move(R, {"logged"}, "billed", {})

Lose(R) == Move(R, {"pending", "held"}, "lost", {})

Next ==
  \/ \E r \in Records : Log(r) \/ \E s \in Sessions : Hold(r, s)
  \/ \E R \in SUBSET Records : Bill(R) \/ Lose(R)

Spec == Init /\ [][Next]_ledgerVars

=============================================================================
