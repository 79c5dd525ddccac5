---------------------------- MODULE ProxyScenario ----------------------------
(***************************************************************************)
(* What the modules of a client's way through CADBiS_proxy share: the      *)
(* hosts, and the faults and habits a behaviour is about.  A behaviour     *)
(* keeps its scenario for ever, so that each property can say what it      *)
(* presupposes, and one run covers them all.                               *)
(***************************************************************************)
EXTENDS Naturals, FiniteSets

CONSTANTS
  Hosts,        \* Host headers
  NoHost,       \* the header of a chunk that is not the first of its request
  Scenarios     \* the sets of features that are studied together

Features ==
  {"prerun",      \* the proxy has just been started
   "flush",       \* the daemon of the Collector wakes up
   "reload",      \* the daemon of the Categorizer wakes up
   "edits",       \* the administration changes the table of categories
   "limits",      \* several connections compute the limits of the day at once
   "failures",    \* statements fail: they are ignored or throw
   "analysis",    \* contentcheck = enabled
   "throws",      \* contents that cannot be analysed throw
   "races",       \* calls to a HashSet coincide
   "errors",      \* sockets fail
   "pipelining",  \* clients do not wait for the response
   "bodies"}      \* requests arrive in several chunks

ASSUME ScenarioAssumption ==
  /\ NoHost \notin Hosts
  /\ Scenarios \subseteq SUBSET Features

VARIABLE scenario

Has(feature) == feature \in scenario

=============================================================================
