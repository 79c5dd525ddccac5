--------------------------- MODULE SessionRegister ---------------------------
(***************************************************************************)
(* What the accounting of sessions promises to whoever reads the rows that *)
(* are Online: a session gets in after its link came up, and when it is    *)
(* out it is out for good.  In an orderly network, where what is sent is   *)
(* handled in time, it does get in, and is not taken out while its link is *)
(* up.                                                                     *)
(***************************************************************************)
CONSTANTS Sids

VARIABLES
  phase,      \* of a session in the register
  link,       \* of a session: before, while and after it is up
  orderly,    \* constant in every behaviour
  repeats     \* constant: packets may come again that were handled before

registerVars == <<phase, link, orderly, repeats>>

Phases == {"expected", "online", "closed"}

Init ==
  /\ phase = [s \in Sids |-> "expected"]
  /\ link = [s \in Sids |-> "before"]
  /\ orderly \in BOOLEAN
  /\ repeats \in BOOLEAN

ComeUp(s) ==
  /\ link[s] = "before"
  /\ link' = [link EXCEPT ![s] = "up"]
  /\ UNCHANGED phase

GoDown(s) ==
  /\ link[s] = "up"
  /\ link' = [link EXCEPT ![s] = "after"]
  /\ UNCHANGED phase

Enter(s) ==
  /\ phase[s] = "expected"
  /\ link[s] # "before"
  /\ phase' = [phase EXCEPT ![s] = "online"]
  /\ UNCHANGED link

\* The sessions R will come in again, by a packet that is repeated.
Close(S, R) ==
  /\ \A s \in S : phase[s] = "online" /\ (orderly => link[s] # "up")
  /\ R # {} => repeats
  /\ phase' = [s \in Sids |-> IF s \in R THEN "expected"
                              ELSE IF s \in S THEN "closed" ELSE phase[s]]
  /\ UNCHANGED link

Miss(S) ==
  /\ ~orderly
  /\ \A s \in S : phase[s] = "expected" /\ link[s] # "before"
  /\ phase' = [s \in Sids |-> IF s \in S THEN "closed" ELSE phase[s]]
  /\ UNCHANGED link

Next ==
  /\ \/ \E s \in Sids : ComeUp(s) \/ GoDown(s) \/ Enter(s)
     \/ \E S \in SUBSET Sids : Miss(S) \/ \E R \in SUBSET S : Close(S, R)
  /\ UNCHANGED <<orderly, repeats>>

Spec == Init /\ [][Next]_registerVars

=============================================================================
