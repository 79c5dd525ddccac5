----------------------- MODULE SessionAccounting_proofs -----------------------
(***************************************************************************)
(* Proofs about SessionAccounting, for any sessions, processors and        *)
(* settings: types, that no session has two rows that are Online, that a   *)
(* session that is up has one, and the register of who is on line.         *)
(***************************************************************************)
EXTENDS SessionAccounting, WellFoundedInduction, FiniteSetTheorems, TLAPS

\* A Start that is handled has a row of its session; the password is read for
\* an authorization only.
JobInv ==
  \A p \in Processors :
    /\ pc[p] = "idle" <=> job[p] = NoPacket
    /\ pc[p] \in {"lookup", "insert"} =>
         job[p].type = "Start" /\ uid[p] \in RowsOf(job[p].sid)
    /\ pc[p] = "password" => job[p].type = "authorize"

\* Nothing of a session is under way before its link came up.
LinkInv ==
  \A s \in Sids :
    /\ Packet("authorize", s) \in net => link[s] = "asked"
    /\ link[s] \in {"idle", "asked"} =>
         /\ Packet("Start", s) \notin net
         /\ \A p \in Processors : job[p] # Packet("Start", s)
         /\ OnlineRows(s) = {}

\* Unless packets come again: a packet has one processor, and while the Start
\* of a session is under way no row of it is Online.
StartInv ==
  ~May("repeats") =>
    /\ \A p, q \in Processors : job[p] = job[q] /\ job[p] # NoPacket => p = q
    /\ \A s \in Sids :
         /\ Packet("Start", s) \in net => OnlineRows(s) = {}
         /\ \A p \in Processors : job[p] = Packet("Start", s) => OnlineRows(s) = {}
         /\ \A x, y \in OnlineRows(s) : x = y

SessionInv == TypeOK /\ JobInv /\ LinkInv /\ StartInv

-----------------------------------------------------------------------------
(* Operators *)

\* A session that has an unused row has a least one.
LEMMA NewRowIsUnused ==
  ASSUME NEW s \in Sids, Unused(s) # {}
  PROVE  NewRow(s) \in Unused(s)
<1> DEFINE T == {x[2] : x \in Unused(s)}
<1>1. MaxRows \in Nat BY SessionAssumption
<1>2. \A x \in Unused(s) : x \in Rows /\ x[2] \in Nat
  BY <1>1 DEF Unused, RowsOf, Rows
<1>3. T \subseteq Nat /\ T # {} BY <1>2
<1>4. PICK n \in T : \A m \in T : ~(<<m, n>> \in OpToRel(<, Nat))
  <2> HIDE DEF T
  <2> QED BY <1>3, NatLessThanWellFounded, WFMin, Zenon
<1>5. \A m \in T : ~(m < n)
  BY <1>3, <1>4 DEF OpToRel
<1>6. PICK x \in Unused(s) : x[2] = n OBVIOUS
<1>7. \A y \in Unused(s) : x[2] <= y[2]
  <2> TAKE y \in Unused(s)
  <2>1. y[2] \in T OBVIOUS
  <2> QED BY <1>2, <1>5, <1>6, <2>1
<1> QED BY <1>6, <1>7 DEF NewRow

-----------------------------------------------------------------------------
(* Types *)

\* The steps of the environment keep the types.
LEMMA RemoteType ==
  ASSUME TypeOK, setting' = setting, Nas \/ Tick \/ WebSite \/ Crash \/ Server
  PROVE  TypeOK'
<1> USE DEF TypeOK, nasVars, rowVars, procVars, serverVars
<1>0. /\ setting.timeout \in Nat /\ setting.crashes \in Nat
      /\ Timeout' = Timeout /\ Timeout \in Nat
  BY SessionAssumption DEF Setting, Timeout
<1>1. \A t \in {"authorize", "Start", "Alive", "Stop"}, s \in Sids : Packet(t, s) \in Packets
  BY DEF Packet, Packets
<1>2. ASSUME NEW S PROVE Close(S) => online' \in SUBSET Rows /\ age' \in [Rows -> 0..(Timeout + 1)]
  BY <1>0 DEF Close
<1>3. CASE Nas
  <2>1. ASSUME NEW s \in Sids, Dial(s) /\ Remote PROVE TypeOK'
    BY <2>1, <1>0, <1>1 DEF Dial, Remote
  <2>2. ASSUME NEW s \in Sids, NasAlive(s) PROVE TypeOK'
    BY <2>2, <1>0, <1>1 DEF NasAlive, SendAlive, Remote
  <2>3. ASSUME NEW s \in Sids, HangUp(s) /\ Remote PROVE TypeOK'
    BY <2>3, <1>0, <1>1 DEF HangUp, Remote
  <2>4. ASSUME NEW m \in net, NasGivesUp(m) PROVE TypeOK'
    BY <2>4, <1>0 DEF NasGivesUp, GiveUp, Remote
  <2> QED BY <1>3, <2>1, <2>2, <2>3, <2>4 DEF Nas
<1>4. CASE Tick
  <2>1. silent' \in [Sids -> 0..Timeout]
    BY <1>4, <1>0 DEF Tick, Older
  <2>2. age' \in [Rows -> 0..(Timeout + 1)]
    BY <1>4, <1>0 DEF Tick, Older
  <2> QED BY <1>4, <1>0, <2>1, <2>2 DEF Tick
<1>5. CASE WebSite
  <2>1. killing' \in SUBSET (Sids \X Killers)
    <3>1. CASE WebKillInactiveUsers
      BY <3>1 DEF WebKillInactiveUsers
    <3>2. ASSUME NEW s \in Sids, WebKillUser(s) PROVE killing' \in SUBSET (Sids \X Killers)
      <4>1. <<s, "web">> \in Sids \X Killers BY DEF Killers
      <4> QED BY <3>2, <4>1 DEF WebKillUser
    <3> QED BY <1>5, <3>1, <3>2 DEF WebSite
  <2>2. \E S : Close(S)
    BY <1>5 DEF WebSite, WebKillInactiveUsers, WebKillUser
  <2> QED BY <1>5, <1>0, <1>2, <2>1, <2>2 DEF WebSite
<1>6. CASE Crash
  BY <1>6, <1>0 DEF Crash, ProcPoints
<1>7. CASE KillInactiveUsers
  BY <1>7, <1>0, <1>2 DEF KillInactiveUsers
<1>8. CASE RestartKillInactive
  BY <1>8, <1>0, <1>2 DEF RestartKillInactive
<1>9. CASE RestartRestore
  BY <1>9, <1>0 DEF RestartRestore
<1> QED BY <1>3, <1>4, <1>5, <1>6, <1>7, <1>8, <1>9 DEF Server

\* A user that is refused and a killer that runs keep the types.
LEMMA UserType ==
  ASSUME TypeOK, setting' = setting,
         \/ \E u \in Users : Refuse(u)
         \/ \E s \in Sids : KillerRuns(s)
  PROVE  TypeOK'
<1> USE DEF TypeOK, nasVars, rowVars, procVars, serverVars
<1>0. Timeout' = Timeout /\ Timeout \in Nat
  BY SessionAssumption DEF Setting, Timeout
<1>1. ASSUME NEW u \in Users, Refuse(u) PROVE TypeOK'
  BY <1>1, <1>0 DEF Refuse
<1>2. ASSUME NEW s \in Sids, KillerRuns(s) PROVE TypeOK'
  <2>1. Packet("Stop", s) \in Packets BY DEF Packet, Packets
  <2>2. /\ link' \in [Sids -> {"idle", "asked", "up", "down"}]
        /\ net' \in SUBSET Packets
        /\ silent' \in [Sids -> 0..Timeout]
    BY <1>2, <1>0, <2>1 DEF KillerRuns, HangUp
  <2>3. killing' \in SUBSET (Sids \X Killers)
    BY <1>2 DEF KillerRuns
  <2> QED BY <1>2, <1>0, <2>2, <2>3 DEF KillerRuns
<1> QED BY <1>1, <1>2

\* What a step of a processor changes has the type it had.
ProcType ==
  /\ link' \in [Sids -> {"idle", "asked", "up", "down"}]
  /\ net' \in SUBSET Packets
  /\ pc' \in [Processors -> ProcPoints]
  /\ job' \in [Processors -> Packets \cup {NoPacket}]
  /\ uid' \in [Processors -> Rows \cup {NoRow}]
  /\ silent' = silent

\* What ends the handling of a packet changes values of the processor only,
\* within their types.
LEMMA AnswerType ==
  ASSUME TypeOK, NEW p \in Processors, job[p] \in Packets
  PROVE  /\ Answer(p) => ProcType
         /\ Fail(p) => ProcType
         /\ Reject(p) => ProcType
         /\ Accept(p) => ProcType
<1> USE DEF TypeOK, ProcType, Done, nasVars
<1>1. job[p].sid \in Sids BY DEF Packets
<1>2. Packet("Start", job[p].sid) \in Packets BY <1>1 DEF Packet, Packets
<1>3. "idle" \in ProcPoints BY DEF ProcPoints
<1>4. Answer(p) => ProcType BY <1>3 DEF Answer
<1>5. Fail(p) => ProcType BY <1>3 DEF Fail
<1>6. Reject(p) => ProcType BY <1>1, <1>3 DEF Reject
<1>7. Accept(p) => ProcType BY <1>1, <1>2, <1>3 DEF Accept
<1> QED BY <1>4, <1>5, <1>6, <1>7

\* So does an answer to the checks of an access, a denial putting killers
\* under way.
LEMMA CheckType ==
  ASSUME TypeOK, NEW p \in Processors, job[p] \in Packets
  PROVE  /\ Deny(p) => ProcType /\ killing' \in SUBSET (Sids \X Killers)
         /\ Allow(p) => ProcType /\ killing' = killing
         /\ \A point \in ProcPoints :
              Continue(p, point) => ProcType /\ killing' = killing
<1>1. <<job[p].sid, "server">> \in Sids \X Killers
  BY DEF Packets, Killers
<1>2. \A point \in ProcPoints : Goto(p, point) /\ UNCHANGED nasVars => ProcType
  BY DEF TypeOK, Goto, ProcType, nasVars
<1>3. "password" \in ProcPoints BY DEF ProcPoints
<1>4. Deny(p) => ProcType /\ killing' \in SUBSET (Sids \X Killers)
  BY <1>1, AnswerType DEF Deny, TypeOK
<1>5. Allow(p) => ProcType /\ killing' = killing
  BY <1>2, <1>3, AnswerType DEF Allow
<1>6. \A point \in ProcPoints : Continue(p, point) => ProcType /\ killing' = killing
  BY <1>2 DEF Continue
<1> QED BY <1>4, <1>5, <1>6

\* The steps of a processor keep the types.
LEMMA WorkType ==
  ASSUME TypeOK, JobInv, setting' = setting, NEW p \in Processors, Handle(p)
  PROVE  TypeOK'
<1> USE DEF rowVars, serverVars
<1>0. Timeout' = Timeout /\ Timeout \in Nat
  BY SessionAssumption DEF Setting, Timeout, TypeOK
<1>1. job[p] \in Packets /\ job[p].sid \in Sids
  <2>1. pc[p] # "idle"
    BY DEF Handle, Work, UserNotFound, Authorize, SessionStart, StartLookup,
           StartInsert, SessionAlive, AliveUpdate, SessionStop, StopUpdate,
           StopRemove, CheckUser, CheckSimultaneousUse, CheckPacketUsage, ReadPassword
  <2> QED BY <2>1 DEF JobInv, TypeOK, Packets
<1>2. SUFFICES /\ ProcType
               /\ online' \in SUBSET Rows
               /\ age' \in [Rows -> 0..(Timeout + 1)]
               /\ activeSessions' \in [Sids -> Rows \cup {NoRow}]
               /\ killing' \in SUBSET (Sids \X Killers)
  BY <1>0, <1>2 DEF Handle, ProcType, TypeOK
<1>3. \A point \in ProcPoints : Goto(p, point) /\ UNCHANGED nasVars => ProcType
  BY DEF TypeOK, Goto, ProcType, nasVars
<1>4. ProcPoints = {"idle", "exists", "lookup", "insert", "update", "user",
                    "connected", "usage", "password", "stop", "remove"}
  BY DEF ProcPoints
<1>5. ASSUME NEW S PROVE Close(S) => online' \in SUBSET Rows /\ age' \in [Rows -> 0..(Timeout + 1)]
  BY <1>0 DEF Close, TypeOK
<1>6. \A x \in Rows \cup {NoRow} :
        MapPut(p, job[p].sid, x) => activeSessions' \in [Sids -> Rows \cup {NoRow}]
  BY DEF MapPut, TypeOK
<1>7. CASE UserNotFound(p)
  BY <1>1, <1>7, AnswerType DEF UserNotFound, TypeOK
<1>8. CASE Authorize(p)
  BY <1>3, <1>4, <1>8 DEF Authorize, TypeOK
<1>9. CASE SessionStart(p)
  <2>1. NewRow(job[p].sid) \in Rows
    BY <1>1, <1>9, NewRowIsUnused DEF SessionStart, Unused, RowsOf
  <2>2. ProcType
    BY <1>4, <1>9, <2>1 DEF SessionStart, ProcType, TypeOK, nasVars
  <2> QED BY <1>6, <1>9, <2>1, <2>2 DEF SessionStart, TypeOK
<1>10. CASE StartLookup(p)
  BY <1>1, <1>3, <1>4, <1>10, AnswerType DEF StartLookup, TypeOK
<1>11. CASE StartInsert(p)
  <2>1. uid[p] \in Rows
    BY <1>11 DEF StartInsert, JobInv, RowsOf
  <2> QED BY <1>0, <1>1, <1>11, <2>1, AnswerType DEF StartInsert, TypeOK
<1>12. CASE SessionAlive(p)
  <2>1. ProcType
    BY <1>1, <1>4, <1>12, AnswerType DEF SessionAlive, ProcType, TypeOK, nasVars
  <2> QED BY <1>12, <2>1 DEF SessionAlive, TypeOK
<1>13. CASE AliveUpdate(p)
  BY <1>0, <1>1, <1>3, <1>4, <1>13, AnswerType DEF AliveUpdate, TypeOK
<1>14. CASE SessionStop(p)
  <2>1. ProcType
    BY <1>1, <1>4, <1>14, AnswerType DEF SessionStop, ProcType, TypeOK, nasVars
  <2> QED BY <1>14, <2>1 DEF SessionStop, TypeOK
<1>15. CASE StopUpdate(p)
  BY <1>1, <1>3, <1>4, <1>5, <1>15, AnswerType DEF StopUpdate, TypeOK
<1>16. CASE StopRemove(p)
  BY <1>1, <1>6, <1>16, AnswerType DEF StopRemove, TypeOK
<1>17. CASE CheckUser(p)
  <2>1. \/ Deny(p)
        \/ \E point \in ProcPoints : Continue(p, point)
        \/ Fail(p) /\ UNCHANGED killing
        \/ Allow(p)
    BY <1>4, <1>17 DEF CheckUser
  <2> QED BY <1>1, <1>17, <2>1, AnswerType, CheckType DEF CheckUser, TypeOK
<1>18. CASE CheckSimultaneousUse(p)
  <2>1. \/ Deny(p)
        \/ \E point \in ProcPoints : Continue(p, point)
        \/ Allow(p)
    BY <1>4, <1>18 DEF CheckSimultaneousUse
  <2> QED BY <1>1, <1>18, <2>1, CheckType DEF CheckSimultaneousUse, TypeOK
<1>19. CASE CheckPacketUsage(p)
  <2>1. Deny(p) \/ Allow(p)
    BY <1>19 DEF CheckPacketUsage
  <2> QED BY <1>1, <1>19, <2>1, CheckType DEF CheckPacketUsage, TypeOK
<1>20. CASE ReadPassword(p)
  BY <1>1, <1>20, AnswerType DEF ReadPassword, TypeOK
<1> QED BY <1>7, <1>8, <1>9, <1>10, <1>11, <1>12, <1>13, <1>14, <1>15, <1>16,
           <1>17, <1>18, <1>19, <1>20 DEF Handle, Work

\* Taking a packet keeps the types.
LEMMA TakeType ==
  ASSUME TypeOK, setting' = setting,
         NEW p \in Processors, NEW m \in net, Take(p, m)
  PROVE  TypeOK'
BY SessionAssumption DEF Take, Receive, TypeOK, ProcPoints, Setting, Timeout,
   nasVars, rowVars, serverVars

\* Every step keeps the types.
LEMMA TypeStep ==
  ASSUME TypeOK, JobInv, [Next]_vars
  PROVE  TypeOK'
<1>1. CASE Next
  BY <1>1, RemoteType, UserType, WorkType, TakeType DEF Next, Set, Step, Processor
<1>2. CASE UNCHANGED vars
  BY <1>2 DEF vars, nasVars, rowVars, procVars, serverVars, TypeOK, Timeout
<1> QED BY <1>1, <1>2

-----------------------------------------------------------------------------
(* Jobs *)

\* A processor is done, or goes on with its packet to another point.
Goes(p, points) ==
  /\ pc' \in {[pc EXCEPT ![p] = point] : point \in points}
  /\ job' = job
  /\ uid' = uid

\* The steps of a processor that has a packet.
LEMMA WorkMoves ==
  ASSUME TypeOK, JobInv, NEW p \in Processors, Work(p)
  PROVE  /\ job[p] \in Packets
         /\ \/ Done(p)
            \/ Goes(p, {"update", "user", "connected", "usage", "stop", "remove"})
            \/ Goes(p, {"password"}) /\ job[p].type = "authorize"
            \/ Goes(p, {"insert"}) /\ pc[p] = "lookup"
            \/ /\ job[p].type = "Start" /\ job' = job
               /\ pc' = [pc EXCEPT ![p] = "lookup"]
               /\ uid' = [uid EXCEPT ![p] = NewRow(job[p].sid)]
               /\ Unused(job[p].sid) # {}
            \/ \E x : /\ job' = job
                      /\ pc' \in {[pc EXCEPT ![p] = point] :
                                   point \in {"update", "stop", "remove"}}
                      /\ uid' = [uid EXCEPT ![p] = x]
<1> USE DEF Goes, Goto
<1>1. job[p] \in Packets
  <2>1. pc[p] # "idle"
    BY DEF Work, UserNotFound, Authorize, SessionStart, StartLookup,
           StartInsert, SessionAlive, AliveUpdate, SessionStop, StopUpdate,
           StopRemove, CheckUser, CheckSimultaneousUse, CheckPacketUsage, ReadPassword
  <2> QED BY <2>1 DEF JobInv, TypeOK
<1>2. Answer(p) \/ Fail(p) \/ Reject(p) \/ Accept(p) => Done(p)
  BY DEF Answer, Fail, Reject, Accept
<1>3. Deny(p) => Done(p)
  BY <1>2 DEF Deny
<1>4. Allow(p) => \/ Done(p)
                  \/ Goes(p, {"password"}) /\ job[p].type = "authorize"
  BY <1>2 DEF Allow
<1>5. CASE UserNotFound(p) \/ StopRemove(p) \/ ReadPassword(p) \/ StartInsert(p)
  BY <1>1, <1>2, <1>5 DEF UserNotFound, StopRemove, ReadPassword, StartInsert
<1>6. CASE Authorize(p)
  BY <1>1, <1>6 DEF Authorize
<1>7. CASE SessionStart(p)
  BY <1>1, <1>7 DEF SessionStart
<1>8. CASE StartLookup(p)
  BY <1>1, <1>2, <1>8 DEF StartLookup
<1>9. CASE SessionAlive(p)
  BY <1>1, <1>2, <1>9 DEF SessionAlive
<1>10. CASE AliveUpdate(p)
  BY <1>1, <1>2, <1>10 DEF AliveUpdate
<1>11. CASE SessionStop(p)
  BY <1>1, <1>2, <1>11 DEF SessionStop
<1>12. CASE StopUpdate(p)
  BY <1>1, <1>2, <1>12 DEF StopUpdate
<1>13. CASE CheckUser(p)
  BY <1>1, <1>2, <1>3, <1>4, <1>13 DEF CheckUser, Continue
<1>14. CASE CheckSimultaneousUse(p)
  BY <1>1, <1>3, <1>4, <1>14 DEF CheckSimultaneousUse, Continue
<1>15. CASE CheckPacketUsage(p)
  BY <1>1, <1>3, <1>4, <1>15 DEF CheckPacketUsage
<1> QED BY <1>5, <1>6, <1>7, <1>8, <1>9, <1>10, <1>11, <1>12, <1>13, <1>14, <1>15
        DEF Work

\* What only the processors change.
LEMMA OthersKeepProcs ==
  ASSUME Nas \/ Tick \/ WebSite \/ Server
           \/ (\E u \in Users : Refuse(u)) \/ (\E s \in Sids : KillerRuns(s))
  PROVE  UNCHANGED procVars
BY DEF Nas, NasAlive, NasGivesUp, Remote, Tick, WebSite, Server,
       KillInactiveUsers, RestartKillInactive, RestartRestore, Refuse, KillerRuns

\* Every step keeps what JobInv knows of the packets handled.
LEMMA JobStep ==
  ASSUME TypeOK, JobInv, [Next]_vars
  PROVE  JobInv'
<1> USE DEF TypeOK, JobInv, procVars
<1>0. NoPacket \notin Packets
  BY DEF NoPacket, Packets
<1>1. CASE UNCHANGED procVars
  BY <1>1 DEF RowsOf, Rows
<1>2. ASSUME NEW p \in Processors, Work(p) PROVE JobInv'
  <2>1. CASE Done(p)
    BY <2>1 DEF Done, RowsOf, Rows
  <2>2. CASE Goes(p, {"update", "user", "connected", "usage", "stop", "remove"})
    BY <1>0, <1>2, <2>2, WorkMoves DEF Goes, RowsOf, Rows
  <2>3. CASE Goes(p, {"password"}) /\ job[p].type = "authorize"
    BY <1>0, <1>2, <2>3, WorkMoves DEF Goes, RowsOf, Rows
  <2>4. CASE Goes(p, {"insert"}) /\ pc[p] = "lookup"
    BY <1>0, <1>2, <2>4, WorkMoves DEF Goes, RowsOf, Rows
  <2>5. CASE /\ job[p].type = "Start" /\ job' = job
             /\ pc' = [pc EXCEPT ![p] = "lookup"]
             /\ uid' = [uid EXCEPT ![p] = NewRow(job[p].sid)]
             /\ Unused(job[p].sid) # {}
    <3>1. job[p] \in Packets /\ job[p].sid \in Sids
      BY <1>2, WorkMoves DEF Packets
    <3>2. NewRow(job[p].sid) \in RowsOf(job[p].sid)
      BY <2>5, <3>1, NewRowIsUnused DEF Unused
    <3> QED BY <1>0, <2>5, <3>1, <3>2 DEF RowsOf, Rows
  <2>6. ASSUME NEW x,
               /\ job' = job
               /\ pc' \in {[pc EXCEPT ![p] = point] :
                            point \in {"update", "stop", "remove"}}
               /\ uid' = [uid EXCEPT ![p] = x]
        PROVE  JobInv'
    BY <1>0, <1>2, <2>6, WorkMoves DEF RowsOf, Rows
  <2> QED BY <1>2, <2>1, <2>2, <2>3, <2>4, <2>5, <2>6, WorkMoves
<1>3. ASSUME NEW p \in Processors, NEW m \in net, Take(p, m) PROVE JobInv'
  BY <1>0, <1>3 DEF Take, Receive, RowsOf, Rows
<1>4. CASE Crash
  BY <1>4 DEF Crash
<1>5. CASE UNCHANGED vars
  BY <1>1, <1>5 DEF vars
<1> QED BY <1>1, <1>2, <1>3, <1>4, <1>5, OthersKeepProcs
        DEF Next, Set, Step, Processor, Handle

-----------------------------------------------------------------------------
(* What a step does to the sessions *)

\* Most steps take away at most: a packet is answered or given up, a processor
\* is done, or rows are closed.
Ebb ==
  /\ link' = link
  /\ UNCHANGED <<net, job>> \/ online' = online
  /\ \A s \in Sids, t \in {"authorize", "Start"} :
       Packet(t, s) \in net' => Packet(t, s) \in net
  /\ \A p \in Processors : job'[p] \in {job[p], NoPacket}
  /\ online' \subseteq online

\* The other steps.
HangsUp(s) ==
  /\ link[s] = "up"
  /\ link' = [link EXCEPT ![s] = "down"]
  /\ \A x \in Sids, t \in {"authorize", "Start"} :
       Packet(t, x) \in net' <=> Packet(t, x) \in net
  /\ UNCHANGED <<job, online>>

Asks(s) ==
  /\ link[s] = "idle"
  /\ link' = [link EXCEPT ![s] = "asked"]
  /\ net' = net \cup {Packet("authorize", s)}
  /\ UNCHANGED <<job, online>>

\* An authorization is answered or given up.
Settles(s) ==
  \A p \in Processors :
    \/ job'[p] = job[p]
    \/ job[p] = Packet("authorize", s) /\ job'[p] = NoPacket

Refuses(s) ==
  /\ link[s] = "asked"
  /\ link' = [link EXCEPT ![s] = "idle"]
  /\ net' = net \ {Packet("authorize", s)}
  /\ Settles(s)
  /\ UNCHANGED online

ComesUp(s) ==
  /\ link[s] = "asked"
  /\ link' = [link EXCEPT ![s] = "up"]
  /\ net' = (net \ {Packet("authorize", s)}) \cup {Packet("Start", s)}
  /\ Settles(s)
  /\ UNCHANGED online

Takes(p, m) ==
  /\ m \in net
  /\ job[p] = NoPacket
  /\ May("repeats") \/ \A q \in Processors : job[q] # m
  /\ job' = [job EXCEPT ![p] = m]
  /\ UNCHANGED <<link, net, online>>

Opens(p) ==
  LET s == job[p].sid
  IN  /\ job[p] = Packet("Start", s)
      /\ uid[p] \in RowsOf(s)
      /\ online' = online \cup {uid[p]}
      /\ job' = [job EXCEPT ![p] = NoPacket]
      /\ net' \subseteq net /\ net \ {job[p]} \subseteq net'
      /\ May("repeats") \/ net' = net \ {job[p]}
      /\ UNCHANGED link

SessionStep ==
  \/ Ebb
  \/ \E s \in Sids : HangsUp(s) \/ Asks(s) \/ Refuses(s) \/ ComesUp(s)
  \/ \E p \in Processors : Opens(p) \/ \E m \in net : Takes(p, m)

\* Packets are told apart by their type and their session.
LEMMA PacketsDiffer ==
  /\ \A t, u \in {"authorize", "Start", "Alive", "Stop"}, s, x \in Sids :
       Packet(t, s) = Packet(u, x) <=> t = u /\ s = x
  /\ \A t \in {"authorize", "Start", "Alive", "Stop"}, s \in Sids :
       Packet(t, s) \in Packets /\ Packet(t, s) # NoPacket
  /\ \A m \in Packets : m.sid \in Sids /\ m = Packet(m.type, m.sid)
BY DEF Packet, Packets, NoPacket

\* A processor that finishes takes its packet from the net, at most.
LEMMA DoneEbbs ==
  ASSUME TypeOK, NEW p \in Processors, Answer(p) \/ Fail(p), online' = online
  PROVE  Ebb
BY DEF Answer, Fail, Done, Ebb, TypeOK, nasVars

\* A step that leaves the net, the links and the processors alone takes away
\* at most.
LEMMA GoesEbbs ==
  ASSUME TypeOK, job' = job, online' \subseteq online, UNCHANGED <<link, net>>
  PROVE  Ebb
BY DEF Ebb, nasVars

\* A rejection takes the session of its packet where SessionStep lets it go.
LEMMA RejectMoves ==
  ASSUME TypeOK, NEW p \in Processors, job[p] \in Packets,
         job[p].type = "authorize", Reject(p), online' = online
  PROVE  SessionStep
<1> DEFINE s == job[p].sid
<1>1. s \in Sids /\ job[p] = Packet("authorize", s)
  BY PacketsDiffer
<1>2. \A q \in Processors : job'[q] = job[q] \/ (q = p /\ job'[q] = NoPacket)
  BY DEF Reject, Done, TypeOK
<1>3. CASE link[s] = "asked"
  BY <1>1, <1>2, <1>3 DEF Reject, SessionStep, Refuses, Settles
<1>4. CASE link[s] # "asked"
  BY <1>1, <1>2, <1>4 DEF Reject, SessionStep, Ebb
<1> QED BY <1>3, <1>4

\* So does an acceptance.
LEMMA AcceptMoves ==
  ASSUME TypeOK, NEW p \in Processors, job[p] \in Packets,
         job[p].type = "authorize", Accept(p), online' = online
  PROVE  SessionStep
<1> DEFINE s == job[p].sid
<1>1. s \in Sids /\ job[p] = Packet("authorize", s)
  BY PacketsDiffer
<1>2. \A q \in Processors : job'[q] = job[q] \/ (q = p /\ job'[q] = NoPacket)
  BY DEF Accept, Done, TypeOK
<1>3. CASE link[s] = "asked"
  BY <1>1, <1>2, <1>3 DEF Accept, SessionStep, ComesUp, Settles
<1>4. CASE link[s] # "asked"
  BY <1>1, <1>2, <1>4 DEF Accept, SessionStep, Ebb
<1> QED BY <1>3, <1>4

\* Each operation of a processor is a SessionStep.
LEMMA WorkIsSessionStep ==
  ASSUME TypeOK, JobInv, NEW p \in Processors, Work(p)
  PROVE  SessionStep
<1> USE DEF rowVars, nasVars
<1>1. job[p] \in Packets BY WorkMoves
<1>2. Ebb => SessionStep BY DEF SessionStep
<1>3. ASSUME NEW point, Goto(p, point), UNCHANGED nasVars, online' \subseteq online
      PROVE  SessionStep
  BY <1>2, <1>3, GoesEbbs DEF Goto
<1>4. ASSUME Deny(p), online' = online PROVE SessionStep
  BY <1>1, <1>2, <1>4, DoneEbbs, RejectMoves DEF Deny
<1>5. ASSUME Allow(p), online' = online PROVE SessionStep
  BY <1>2, <1>3, <1>5, DoneEbbs DEF Allow
<1>6. ASSUME NEW point, Continue(p, point), online' = online PROVE SessionStep
  BY <1>3, <1>6 DEF Continue
<1>7. CASE UserNotFound(p)
  BY <1>1, <1>2, <1>7, DoneEbbs, RejectMoves DEF UserNotFound
<1>8. CASE Authorize(p)
  BY <1>3, <1>8 DEF Authorize
<1>9. CASE SessionStart(p)
  BY <1>2, <1>9, GoesEbbs DEF SessionStart
<1>10. CASE StartLookup(p)
  BY <1>2, <1>3, <1>10, DoneEbbs DEF StartLookup
<1>11. CASE StartInsert(p)
  <2>1. CASE online' = online \cup {uid[p]} /\ Answer(p)
    <3>1. /\ job[p] = Packet("Start", job[p].sid)
          /\ uid[p] \in RowsOf(job[p].sid)
      BY <1>1, <1>11, PacketsDiffer DEF StartInsert, JobInv
    <3>2. Opens(p)
      BY <2>1, <3>1 DEF Opens, Answer, Done
    <3> QED BY <3>2 DEF SessionStep
  <2>2. CASE (Answer(p) \/ Fail(p)) /\ online' = online
    BY <1>2, <2>2, DoneEbbs
  <2> QED BY <1>11, <2>1, <2>2 DEF StartInsert
<1>12. CASE SessionAlive(p)
  BY <1>2, <1>12, DoneEbbs, GoesEbbs DEF SessionAlive
<1>13. CASE AliveUpdate(p)
  BY <1>2, <1>3, <1>13, DoneEbbs DEF AliveUpdate
<1>14. CASE SessionStop(p)
  BY <1>2, <1>14, DoneEbbs, GoesEbbs DEF SessionStop
<1>15. CASE StopUpdate(p)
  BY <1>2, <1>3, <1>15, DoneEbbs DEF StopUpdate, Close
<1>16. CASE StopRemove(p)
  BY <1>2, <1>16, DoneEbbs DEF StopRemove
<1>17. CASE CheckUser(p)
  BY <1>2, <1>4, <1>5, <1>6, <1>17, DoneEbbs DEF CheckUser
<1>18. CASE CheckSimultaneousUse(p)
  BY <1>4, <1>5, <1>6, <1>18 DEF CheckSimultaneousUse
<1>19. CASE CheckPacketUsage(p)
  BY <1>4, <1>5, <1>19 DEF CheckPacketUsage
<1>20. CASE ReadPassword(p)
  <2>1. job[p].type = "authorize" BY <1>20 DEF ReadPassword, JobInv
  <2> QED BY <1>1, <1>2, <1>20, <2>1, DoneEbbs, RejectMoves, AcceptMoves DEF ReadPassword
<1> QED BY <1>7, <1>8, <1>9, <1>10, <1>11, <1>12, <1>13, <1>14, <1>15, <1>16,
           <1>17, <1>18, <1>19, <1>20 DEF Work

\* The NAS gives an authorization up only while it has asked for it.
LEMMA NasIsSessionStep ==
  ASSUME TypeOK, LinkInv, Nas
  PROVE  SessionStep
<1> USE DEF SessionStep
<1>1. ASSUME NEW s \in Sids, NasAlive(s) PROVE SessionStep
  BY <1>1, PacketsDiffer DEF NasAlive, SendAlive, Remote, procVars, rowVars, Ebb
<1>2. ASSUME NEW s \in Sids, Dial(s) /\ Remote PROVE SessionStep
  BY <1>2 DEF Dial, Remote, procVars, rowVars, Asks
<1>3. ASSUME NEW s \in Sids, HangUp(s) /\ Remote PROVE SessionStep
  <2>1. HangsUp(s)
    BY <1>3, PacketsDiffer DEF HangUp, Remote, procVars, rowVars, HangsUp
  <2> QED BY <2>1
<1>4. ASSUME NEW m \in net, NasGivesUp(m) PROVE SessionStep
  <2>1. m \in Packets BY DEF TypeOK
  <2>2. CASE m.type = "authorize"
    <3>1. m.sid \in Sids /\ m = Packet("authorize", m.sid) /\ link[m.sid] = "asked"
      BY <2>1, <2>2, PacketsDiffer DEF LinkInv
    <3> QED BY <1>4, <2>2, <3>1
            DEF NasGivesUp, GiveUp, Remote, procVars, rowVars, Refuses, Settles
  <2>3. CASE m.type # "authorize"
    BY <1>4, <2>3 DEF NasGivesUp, GiveUp, Remote, procVars, rowVars, Ebb
  <2> QED BY <2>2, <2>3
<1> QED BY <1>1, <1>2, <1>3, <1>4 DEF Nas

\* So is every other step, and the setting stays.
LEMMA StepIsSessionStep ==
  ASSUME TypeOK, JobInv, LinkInv, [Next]_vars
  PROVE  SessionStep /\ setting' = setting
<1> USE DEF nasVars, rowVars, procVars, serverVars
<1>1. setting' = setting
  BY DEF Next, Set, vars
<1>2. SUFFICES SessionStep
  BY <1>1
<1>3. Ebb => SessionStep BY DEF SessionStep
<1>4. CASE Tick \/ (\E u \in Users : Refuse(u)) \/ Server \/ WebSite
  <2>1. job' = job /\ UNCHANGED <<link, net>>
    BY <1>4 DEF Tick, Refuse, Server, KillInactiveUsers, RestartKillInactive,
                RestartRestore, WebSite
  <2>2. online' \subseteq online
    BY <1>4 DEF Tick, Refuse, Server, KillInactiveUsers, RestartKillInactive,
                RestartRestore, WebSite, WebKillInactiveUsers, WebKillUser, Close
  <2> QED BY <1>3, <2>1, <2>2, GoesEbbs
<1>5. ASSUME NEW s \in Sids, KillerRuns(s) PROVE SessionStep
  <2>1. CASE link[s] = "up"
    BY <1>5, <2>1, PacketsDiffer DEF KillerRuns, HangUp, HangsUp, SessionStep
  <2>2. CASE link[s] # "up"
    BY <1>3, <1>5, <2>2, GoesEbbs DEF KillerRuns
  <2> QED BY <2>1, <2>2
<1>6. CASE Crash
  <2>1. UNCHANGED <<link, net, online>> BY <1>6 DEF Crash
  <2>2. \A p \in Processors : job'[p] = NoPacket BY <1>6 DEF Crash
  <2> QED BY <1>3, <2>1, <2>2 DEF Ebb
<1>7. ASSUME NEW p \in Processors, NEW m \in net, Take(p, m) PROVE SessionStep
  BY <1>7 DEF Take, Receive, SessionStep, Takes, JobInv
<1>8. CASE UNCHANGED vars
  BY <1>3, <1>8, GoesEbbs DEF vars
<1> QED BY <1>4, <1>5, <1>6, <1>7, <1>8, NasIsSessionStep, WorkIsSessionStep
        DEF Next, Set, Step, Processor, Handle

-----------------------------------------------------------------------------
(* The invariant *)

\* Nothing of a session gets under way before its link comes up.
LEMMA LinkStep ==
  ASSUME TypeOK, LinkInv, SessionStep, setting' = setting
  PROVE  LinkInv'
<1> USE DEF TypeOK, LinkInv, OnlineRows
<1>1. CASE Ebb
  BY <1>1, PacketsDiffer DEF Ebb
<1>0. ASSUME NEW s \in Sids, HangsUp(s) PROVE LinkInv'
  BY <1>0, PacketsDiffer DEF HangsUp
<1>2. ASSUME NEW s \in Sids, Asks(s) PROVE LinkInv'
  BY <1>2, PacketsDiffer DEF Asks
<1>3. ASSUME NEW s \in Sids, Refuses(s) PROVE LinkInv'
  BY <1>3, PacketsDiffer DEF Refuses, Settles
<1>4. ASSUME NEW s \in Sids, ComesUp(s) PROVE LinkInv'
  BY <1>4, PacketsDiffer DEF ComesUp, Settles
<1>5. ASSUME NEW p \in Processors, NEW m \in net, Takes(p, m) PROVE LinkInv'
  BY <1>5, PacketsDiffer DEF Takes
<1>6. ASSUME NEW p \in Processors, Opens(p) PROVE LinkInv'
  <2>1. \A s \in Sids : s # job[p].sid => OnlineRows(s)' = OnlineRows(s)
    BY <1>6 DEF Opens, RowsOf
  <2> QED BY <1>6, <2>1, PacketsDiffer DEF Opens
<1> QED BY <1>0, <1>1, <1>2, <1>3, <1>4, <1>5, <1>6 DEF SessionStep

\* A Start that has one processor keeps it, and finds no row Online.
LEMMA StartStep ==
  ASSUME TypeOK, LinkInv, StartInv, SessionStep, setting' = setting
  PROVE  StartInv'
<1> USE DEF TypeOK, OnlineRows
<1>1. SUFFICES ASSUME ~May("repeats")
      PROVE  StartInv'
  BY DEF StartInv, May
<1> USE <1>1 DEF May
<1>2. CASE Ebb
  BY <1>2, PacketsDiffer DEF Ebb, StartInv
<1>0. ASSUME NEW s \in Sids, HangsUp(s) PROVE StartInv'
  BY <1>0, PacketsDiffer DEF HangsUp, StartInv
<1>3. ASSUME NEW s \in Sids, Asks(s) PROVE StartInv'
  BY <1>3, PacketsDiffer DEF Asks, StartInv
<1>4. ASSUME NEW s \in Sids, Refuses(s) PROVE StartInv'
  BY <1>4, PacketsDiffer DEF Refuses, Settles, StartInv
<1>5. ASSUME NEW s \in Sids, ComesUp(s) PROVE StartInv'
  <2>1. OnlineRows(s) = {} BY <1>5 DEF ComesUp, LinkInv
  <2> QED BY <1>5, <2>1, PacketsDiffer DEF ComesUp, Settles, StartInv
<1>6. ASSUME NEW p \in Processors, NEW m \in net, Takes(p, m) PROVE StartInv'
  BY <1>6, PacketsDiffer DEF Takes, StartInv
<1>7. ASSUME NEW p \in Processors, Opens(p) PROVE StartInv'
  <2>0. PICK s \in Sids : s = job[p].sid
    BY <1>7, PacketsDiffer DEF Opens, RowsOf, Rows
  <2>1. \A x \in Sids : x # s => OnlineRows(x)' = OnlineRows(x)
    BY <1>7, <2>0 DEF Opens, RowsOf
  <2>2. OnlineRows(s) = {} /\ OnlineRows(s)' = {uid[p]}
    <3>1. OnlineRows(s) = {} BY <1>7, <2>0 DEF Opens, StartInv
    <3>2. uid[p] \in RowsOf(s) /\ online' = online \cup {uid[p]}
      BY <1>7, <2>0 DEF Opens
    <3> QED BY <3>1, <3>2 DEF RowsOf
  <2>3. /\ Packet("Start", s) \notin net'
        /\ \A q \in Processors : job'[q] # Packet("Start", s)
    <3>1. \A q \in Processors : q # p => job[q] # job[p]
      BY <1>7, <2>0, PacketsDiffer DEF Opens, StartInv
    <3> QED BY <1>7, <2>0, <3>1, PacketsDiffer DEF Opens
  <2>4. \A q \in Processors : job'[q] \in {job[q], NoPacket}
    BY <1>7 DEF Opens
  <2>5. net' \subseteq net
    BY <1>7 DEF Opens
  <2>6. \A q, r \in Processors : job'[q] = job'[r] /\ job'[q] # NoPacket => q = r
    BY <2>4, Zenon DEF StartInv
  <2>7. \A x \in Sids :
          /\ Packet("Start", x) \in net' => OnlineRows(x)' = {}
          /\ \A q \in Processors : job'[q] = Packet("Start", x) => OnlineRows(x)' = {}
          /\ \A y, z \in OnlineRows(x)' : y = z
    <3> HIDE DEF OnlineRows
    <3> QED BY <2>0, <2>1, <2>2, <2>3, <2>4, <2>5, PacketsDiffer DEF StartInv
  <2> QED BY <2>6, <2>7 DEF StartInv
<1> QED BY <1>0, <1>2, <1>3, <1>4, <1>5, <1>6, <1>7 DEF SessionStep

\* Types, packets under way and rows, in every state of CADBiS and its NAS.
THEOREM SessionInvariant == Spec => []SessionInv
<1>1. Init => SessionInv
  BY SessionAssumption DEF Init, SessionInv, TypeOK, JobInv, LinkInv, StartInv, Setting,
     ProcPoints, OnlineRows, NoPacket, Packets, Packet, Timeout
<1>2. SessionInv /\ [Next]_vars => SessionInv'
  BY TypeStep, JobStep, StepIsSessionStep, LinkStep, StartStep DEF SessionInv
<1> QED BY <1>1, <1>2, PTL DEF Spec

\* The variables of CADBiSHandler, its table and the network keep their types.
THEOREM SessionTypes == Spec => []TypeOK
<1>1. SessionInv => TypeOK BY DEF SessionInv
<1> QED BY <1>1, SessionInvariant, PTL

\* Unless packets come again after their answer, a session never has two rows
\* that are Online, whatever fails, races, is late, is closed or crashes.
THEOREM SessionHasOneOnlineRow == Spec => []OneOnlineRow
<1>1. ASSUME SessionInv PROVE OneOnlineRow
  <2>1. SUFFICES ASSUME ~May("repeats"), NEW s \in Sids
                 PROVE  Cardinality(OnlineRows(s)) <= 1
    BY DEF OneOnlineRow
  <2>2. \A x, y \in OnlineRows(s) : x = y
    BY <1>1, <2>1 DEF SessionInv, StartInv
  <2>3. CASE OnlineRows(s) = {}
    BY <2>3, FS_EmptySet
  <2>4. CASE OnlineRows(s) # {}
    <3>1. PICK x : OnlineRows(s) = {x} BY <2>2, <2>4
    <3> QED BY <3>1, FS_Singleton
  <2> QED BY <2>3, <2>4
<1> QED BY <1>1, SessionInvariant, PTL

-----------------------------------------------------------------------------
(* Who is up is on line *)

\* The packet of each point of handle, the session of each row, and a Stop that
\* is sent when the link is down.
PointInv ==
  /\ \A p \in Processors :
       /\ pc[p] \in {"connected", "password"} => job[p].type = "authorize"
       /\ pc[p] \in {"user", "usage"} => job[p].type \in {"authorize", "Alive"}
       /\ pc[p] = "update" => job[p].type = "Alive"
       /\ pc[p] \in {"stop", "remove"} => job[p].type = "Stop"
       /\ pc[p] \in {"update", "stop"} => uid[p] \in RowsOf(job[p].sid)
       /\ server # "running" => job[p] = NoPacket
  /\ \A s \in Sids :
       /\ activeSessions[s] \in RowsOf(s) \cup {NoRow}
       /\ link[s] # "down" =>
            /\ Packet("Stop", s) \notin net
            /\ \A p \in Processors : job[p] # Packet("Stop", s)

\* Repeats and crashes exclude each other; without repeats a Start stays in the
\* net until it is answered.
ServerInv ==
  /\ May("repeats") => server = "running" /\ crashes = 0
  /\ ~May("repeats") =>
       \A p \in Processors, s \in Sids :
         job[p] = Packet("Start", s) => Packet("Start", s) \in net

Opening(p, s) == job[p] = Packet("Start", s) /\ pc[p] \in {"lookup", "insert"}

\* While its Start is under way, time stands still for the rows of a session,
\* and its entry is a row that is Online or will be.
StartingInv(s) ==
  /\ \A x \in OnlineRows(s) : age[x] = 0
  /\ Packet("Start", s) \notin net => OnlineRows(s) # {}
  /\ \/ activeSessions[s] \in OnlineRows(s)
     \/ \E p \in Processors : Opening(p, s) /\ uid[p] = activeSessions[s]
     \/ /\ Packet("Start", s) \in net
        /\ OnlineRows(s) = {}
        /\ \A p \in Processors : ~Opening(p, s)

\* A row that is younger than the last Alive, unless the next one is under way:
\* the clock waits for that, and who handles it will find the row, or it is
\* as young as can be.
Fresh(x, s) ==
  /\ age[x] <= Timeout
  /\ Packet("Alive", s) \in net \/ age[x] <= silent[s]
  /\ \A p \in Processors :
       job[p] = Packet("Alive", s) =>
         /\ pc[p] \in {"user", "usage"} => age[x] = 0
         /\ pc[p] = "update" => uid[p] = x \/ age[x] = 0

\* After its Start, the entry of a session is a fresh row that is Online; while
\* the server is started again there is such a row to be restored.
StartedInv(s) ==
  \E x \in OnlineRows(s) :
    Fresh(x, s) /\ (server = "running" => activeSessions[s] = x)

UpInv(s) == link[s] = "up" => IF Starting(s) THEN StartingInv(s) ELSE StartedInv(s)

OrderlyInv == PointInv /\ ServerInv /\ \A s \in Sids : UpInv(s)

-----------------------------------------------------------------------------
(* What a processor does when nothing fails *)

Authorizing(p) ==
  /\ job[p].type = "authorize"
  /\ UNCHANGED <<rowVars, activeSessions>>
  /\ \/ Goes(p, {"user", "connected", "usage", "password"}) /\ UNCHANGED nasVars
     \/ Reject(p)
     \/ Accept(p) /\ pc[p] = "password"

Beginning(p) ==
  LET s == job[p].sid
  IN  /\ job[p].type = "Start" /\ pc[p] = "exists"
      /\ Unused(s) # {}
      /\ uid' = [uid EXCEPT ![p] = NewRow(s)]
      /\ activeSessions' = [activeSessions EXCEPT ![s] = NewRow(s)]
      /\ pc' = [pc EXCEPT ![p] = "lookup"]
      /\ UNCHANGED <<job, nasVars, rowVars>>

Looking(p) ==
  /\ job[p].type = "Start" /\ pc[p] = "lookup"
  /\ Goes(p, {"insert"})
  /\ UNCHANGED <<nasVars, rowVars, activeSessions>>

Inserting(p) ==
  /\ job[p].type = "Start" /\ pc[p] = "insert"
  /\ online' = online \cup {uid[p]}
  /\ age' = [age EXCEPT ![uid[p]] = 0]
  /\ Answer(p)
  /\ UNCHANGED activeSessions

AliveReading(p) ==
  LET s == job[p].sid
  IN  /\ job[p].type = "Alive" /\ pc[p] = "exists"
      /\ \/ activeSessions[s] = NoRow /\ Answer(p)
         \/ /\ activeSessions[s] # NoRow
            /\ uid' = [uid EXCEPT ![p] = activeSessions[s]]
            /\ pc' = [pc EXCEPT ![p] = "update"]
            /\ UNCHANGED <<job, nasVars>>
      /\ UNCHANGED <<rowVars, activeSessions>>

AliveWriting(p) ==
  /\ job[p].type = "Alive" /\ pc[p] = "update"
  /\ Goes(p, {"user"})
  /\ age' = [age EXCEPT ![uid[p]] = 0]
  /\ UNCHANGED <<nasVars, online, activeSessions>>

AliveChecking(p) ==
  /\ job[p].type = "Alive" /\ pc[p] \in {"user", "usage"}
  /\ Answer(p) \/ (Goes(p, {"usage"}) /\ UNCHANGED nasVars)
  /\ UNCHANGED <<rowVars, activeSessions>>

Stopping(p) ==
  LET s == job[p].sid
  IN  /\ job[p].type = "Stop"
      /\ \/ /\ uid' = [uid EXCEPT ![p] = activeSessions[s]]
            /\ pc' = [pc EXCEPT ![p] = IF activeSessions[s] = NoRow
                                         THEN "remove" ELSE "stop"]
            /\ UNCHANGED <<job, nasVars, rowVars, activeSessions>>
         \/ /\ pc[p] = "stop"
            /\ Goes(p, {"remove"})
            /\ Close({uid[p]})
            /\ UNCHANGED <<nasVars, activeSessions>>
         \/ /\ activeSessions' = [activeSessions EXCEPT ![s] = NoRow]
            /\ Answer(p)
            /\ UNCHANGED rowVars

\* The steps of a processor when nothing fails.
LEMMA OrderlyWork ==
  ASSUME TypeOK, JobInv, PointInv, Orderly, NEW p \in Processors, Work(p)
  PROVE  /\ job[p] \in Packets
         /\ \/ Authorizing(p) \/ Beginning(p) \/ Looking(p) \/ Inserting(p)
            \/ AliveReading(p) \/ AliveWriting(p) \/ AliveChecking(p) \/ Stopping(p)
<1> USE DEF Goes, Goto
<1>1. job[p] \in Packets BY WorkMoves
<1>2. ~May("failures") /\ ~May("races")
  BY DEF Orderly, May
<1>3. job[p].type \in {"authorize", "Start", "Alive", "Stop"} BY <1>1 DEF Packets
<1>4. CASE Authorize(p)
  BY <1>1, <1>4 DEF Authorize, Authorizing
<1>5. CASE SessionStart(p)
  BY <1>1, <1>2, <1>5 DEF SessionStart, MapPut, Racing, Beginning
<1>6. CASE StartLookup(p)
  BY <1>1, <1>2, <1>6 DEF StartLookup, Looking, JobInv
<1>7. CASE StartInsert(p)
  BY <1>1, <1>2, <1>7 DEF StartInsert, Inserting, JobInv
<1>8. CASE SessionAlive(p)
  BY <1>1, <1>2, <1>8 DEF SessionAlive, Racing, AliveReading
<1>9. CASE AliveUpdate(p)
  BY <1>1, <1>2, <1>9 DEF AliveUpdate, AliveWriting, PointInv
<1>10. CASE SessionStop(p)
  BY <1>1, <1>2, <1>10 DEF SessionStop, Racing, Stopping
<1>11. CASE StopUpdate(p)
  BY <1>1, <1>2, <1>11 DEF StopUpdate, Stopping, PointInv
<1>12. CASE StopRemove(p)
  BY <1>1, <1>2, <1>12 DEF StopRemove, MapPut, Racing, Stopping, PointInv
<1>13. ASSUME pc[p] \in {"user", "connected", "usage"}, UNCHANGED <<rowVars, activeSessions>>
       PROVE  /\ Deny(p) => Authorizing(p) \/ AliveChecking(p)
              /\ Allow(p) => Authorizing(p) \/ AliveChecking(p)
              /\ Continue(p, "usage") => Authorizing(p) \/ AliveChecking(p)
              /\ job[p].type = "authorize" /\ Continue(p, "connected") => Authorizing(p)
  <2>1. \/ job[p].type = "authorize"
        \/ job[p].type = "Alive" /\ pc[p] \in {"user", "usage"}
    BY <1>13 DEF PointInv
  <2>2. CASE job[p].type = "authorize"
    BY <1>13, <2>2 DEF Deny, Allow, Continue, Authorizing
  <2>3. CASE job[p].type = "Alive" /\ pc[p] \in {"user", "usage"}
    BY <1>13, <2>3 DEF Deny, Allow, Continue, AliveChecking
  <2> QED BY <2>1, <2>2, <2>3
<1>14. CASE CheckUser(p)
  BY <1>1, <1>2, <1>13, <1>14 DEF CheckUser
<1>15. CASE CheckSimultaneousUse(p)
  BY <1>1, <1>2, <1>13, <1>15 DEF CheckSimultaneousUse
<1>16. CASE CheckPacketUsage(p)
  BY <1>1, <1>2, <1>13, <1>16 DEF CheckPacketUsage
<1>17. CASE ReadPassword(p)
  BY <1>1, <1>2, <1>17 DEF ReadPassword, Authorizing, JobInv
<1>18. ~UserNotFound(p)
  BY <1>2 DEF UserNotFound
<1> QED BY <1>4, <1>5, <1>6, <1>7, <1>8, <1>9, <1>10, <1>11, <1>12, <1>14, <1>15,
           <1>16, <1>17, <1>18 DEF Work

\* A processor changes nothing of the other sessions and processors, and takes
\* away its packet or keeps it.
LEMMA WorkIsLocal ==
  ASSUME TypeOK, JobInv, PointInv, Orderly, NEW p \in Processors, Work(p)
  PROVE  /\ silent' = silent
         /\ job'[p] \in {job[p], NoPacket}
         /\ \A q \in Processors \ {p} :
              pc'[q] = pc[q] /\ job'[q] = job[q] /\ uid'[q] = uid[q]
         /\ \A m \in Packets : m.sid # job[p].sid => (m \in net' <=> m \in net)
         /\ \A t \in {"Alive", "Stop"}, s \in Sids :
              Packet(t, s) \in net' => Packet(t, s) \in net
         /\ \A s \in Sids \ {job[p].sid} :
              /\ activeSessions'[s] = activeSessions[s]
              /\ OnlineRows(s)' = OnlineRows(s)
              /\ \A x \in RowsOf(s) : age'[x] = age[x]
         /\ \A s \in Sids : link'[s] # link[s] =>
              s = job[p].sid /\ link[s] = "asked" /\ link'[s] \in {"idle", "up"}
<1>1. job[p] \in Packets /\ job[p].sid \in Sids
  BY OrderlyWork DEF Packets
<1>2. /\ Answer(p) => Done(p) /\ net' \in {net, net \ {job[p]}} /\ link' = link /\ silent' = silent
      /\ Reject(p) => /\ Done(p) /\ net' = net \ {job[p]} /\ silent' = silent
                      /\ link' \in {link, [link EXCEPT ![job[p].sid] = "idle"]}
                      /\ link' # link => link[job[p].sid] = "asked"
      /\ Accept(p) => /\ Done(p) /\ silent' = silent
                      /\ net' \in {net, (net \ {job[p]}) \cup {Packet("Start", job[p].sid)}}
                      /\ link' \in {link, [link EXCEPT ![job[p].sid] = "up"]}
                      /\ link' # link => link[job[p].sid] = "asked"
  BY DEF Answer, Reject, Accept
<1>3. /\ silent' = silent
      /\ net' \in {net, net \ {job[p]}, (net \ {job[p]}) \cup {Packet("Start", job[p].sid)}}
      /\ \/ link' = link
         \/ /\ link[job[p].sid] = "asked"
            /\ \/ link' = [link EXCEPT ![job[p].sid] = "idle"]
               \/ link' = [link EXCEPT ![job[p].sid] = "up"]
  BY <1>2, OrderlyWork DEF Authorizing, Beginning, Looking, Inserting, AliveReading,
     AliveWriting, AliveChecking, Stopping, nasVars
<1>4. /\ job' \in {job, [job EXCEPT ![p] = NoPacket]}
      /\ \E point : pc' = [pc EXCEPT ![p] = point]
      /\ \E x : uid' = [uid EXCEPT ![p] = x]
  <2>1. Done(p) => /\ job' \in {job, [job EXCEPT ![p] = NoPacket]}
                   /\ \E point : pc' = [pc EXCEPT ![p] = point]
                   /\ \E x : uid' = [uid EXCEPT ![p] = x]
    BY DEF Done
  <2>2. ASSUME NEW S, Goes(p, S)
        PROVE  /\ job' \in {job, [job EXCEPT ![p] = NoPacket]}
               /\ \E point : pc' = [pc EXCEPT ![p] = point]
               /\ \E x : uid' = [uid EXCEPT ![p] = x]
    <3>1. uid' = [uid EXCEPT ![p] = uid[p]] BY <2>2 DEF Goes, TypeOK
    <3> QED BY <2>2, <3>1 DEF Goes
  <2>3. Beginning(p) => /\ job' \in {job, [job EXCEPT ![p] = NoPacket]}
                        /\ \E point : pc' = [pc EXCEPT ![p] = point]
                        /\ \E x : uid' = [uid EXCEPT ![p] = x]
    BY DEF Beginning
  <2> QED BY <1>2, <2>1, <2>2, <2>3, OrderlyWork
          DEF Authorizing, Looking, Inserting, AliveReading, AliveWriting,
              AliveChecking, Stopping
<1>5. /\ job'[p] \in {job[p], NoPacket}
      /\ \A q \in Processors \ {p} :
           pc'[q] = pc[q] /\ job'[q] = job[q] /\ uid'[q] = uid[q]
  BY <1>4 DEF TypeOK
<1>6. \A m \in Packets : m.sid # job[p].sid => (m \in net' <=> m \in net)
  <2>1. Packet("Start", job[p].sid).sid = job[p].sid BY DEF Packet
  <2> QED BY <1>3, <2>1
<1>7. \A t \in {"Alive", "Stop"}, s \in Sids : Packet(t, s) \in net' => Packet(t, s) \in net
  BY <1>1, <1>3, PacketsDiffer
<1>8. ASSUME NEW s \in Sids \ {job[p].sid}
      PROVE  /\ activeSessions'[s] = activeSessions[s]
             /\ OnlineRows(s)' = OnlineRows(s)
             /\ \A x \in RowsOf(s) : age'[x] = age[x]
  <2>1. RowsOf(s) \cap RowsOf(job[p].sid) = {} /\ RowsOf(s) \subseteq Rows
    BY DEF RowsOf
  <2>2. CASE activeSessions' = activeSessions /\ UNCHANGED rowVars
    BY <2>2 DEF rowVars, OnlineRows, RowsOf, Rows
  <2>3. CASE Beginning(p)
    BY <1>1, <2>3 DEF Beginning, rowVars, OnlineRows, RowsOf, Rows, TypeOK
  <2>4. CASE Inserting(p)
    <3>1. uid[p] \in RowsOf(job[p].sid) BY <2>4 DEF Inserting, JobInv
    <3>2. uid[p] \notin RowsOf(s) BY <2>1, <3>1
    <3> QED BY <2>1, <2>4, <3>2 DEF Inserting, OnlineRows, TypeOK, RowsOf, Rows
  <2>5. CASE AliveWriting(p)
    <3>1. uid[p] \in RowsOf(job[p].sid) BY <2>5 DEF AliveWriting, PointInv
    <3>2. uid[p] \notin RowsOf(s) BY <2>1, <3>1
    <3> QED BY <2>1, <2>5, <3>2 DEF AliveWriting, OnlineRows, TypeOK, RowsOf, Rows
  <2>6. CASE pc[p] = "stop" /\ Close({uid[p]}) /\ activeSessions' = activeSessions
    <3>1. uid[p] \in RowsOf(job[p].sid) BY <2>6 DEF PointInv
    <3>2. uid[p] \notin RowsOf(s) BY <2>1, <3>1
    <3> QED BY <2>1, <2>6, <3>2 DEF Close, OnlineRows, TypeOK, RowsOf, Rows
  <2>7. CASE activeSessions' = [activeSessions EXCEPT ![job[p].sid] = NoRow] /\ UNCHANGED rowVars
    BY <1>1, <2>7 DEF rowVars, OnlineRows, RowsOf, Rows, TypeOK
  <2>8. CASE Stopping(p)
    BY <2>2, <2>6, <2>7, <2>8 DEF Stopping, rowVars
  <2> QED BY <2>2, <2>3, <2>4, <2>5, <2>8, OrderlyWork
          DEF Authorizing, Looking, AliveReading, AliveChecking, rowVars
<1>9. \A s \in Sids : link'[s] # link[s] =>
        s = job[p].sid /\ link[s] = "asked" /\ link'[s] \in {"idle", "up"}
  BY <1>1, <1>3 DEF TypeOK
<1> QED BY <1>3, <1>5, <1>6, <1>7, <1>8, <1>9

\* The rest of the system changes neither what a processor does nor, but for a
\* restart, what is known about the sessions.
LEMMA RemoteKeepsPoints ==
  ASSUME TypeOK, PointInv, Orderly, setting' = setting,
         \/ Nas \/ Tick \/ WebSite \/ Server
         \/ (\E u \in Users : Refuse(u)) \/ (\E s \in Sids : KillerRuns(s))
  PROVE  PointInv'
<1> USE DEF procVars, serverVars, nasVars, rowVars
<1>1. UNCHANGED <<pc, job, uid>> BY OthersKeepProcs
<1>2. \A p \in Processors : server' # "running" => server # "running"
  BY DEF Nas, NasAlive, NasGivesUp, Remote, Tick, WebSite, Server,
         KillInactiveUsers, RestartKillInactive, RestartRestore, Refuse, KillerRuns
<1>3. \A s \in Sids : activeSessions'[s] \in RowsOf(s) \cup {NoRow}
  <2>1. CASE RestartRestore
    BY <2>1 DEF RestartRestore, Restorable, PointInv
  <2>2. CASE ~RestartRestore
    <3>1. activeSessions' = activeSessions
      BY <2>2 DEF Nas, NasAlive, NasGivesUp, Remote, Tick, WebSite, Server,
             KillInactiveUsers, RestartKillInactive, Refuse, KillerRuns
    <3> QED BY <3>1 DEF PointInv
  <2> QED BY <2>1, <2>2
<1>4. ASSUME NEW s \in Sids, link'[s] # "down"
      PROVE  link[s] # "down" /\ Packet("Stop", s) \notin net'
  <2>1. CASE Nas
    <3>1. ASSUME NEW t \in Sids, NasAlive(t) PROVE link[s] # "down" /\ Packet("Stop", s) \notin net'
      BY <1>4, <3>1, PacketsDiffer DEF NasAlive, SendAlive, PointInv
    <3>2. ASSUME NEW t \in Sids, Dial(t) PROVE link[s] # "down" /\ Packet("Stop", s) \notin net'
      BY <1>4, <3>2, PacketsDiffer DEF Dial, PointInv, TypeOK
    <3>3. ASSUME NEW t \in Sids, HangUp(t) PROVE link[s] # "down" /\ Packet("Stop", s) \notin net'
      BY <1>4, <3>3, PacketsDiffer DEF HangUp, PointInv, TypeOK
    <3>4. ASSUME NEW m \in net, NasGivesUp(m)
          PROVE  link[s] # "down" /\ Packet("Stop", s) \notin net'
      BY <3>4 DEF NasGivesUp, GiveUp, Orderly, May
    <3> QED BY <2>1, <3>1, <3>2, <3>3, <3>4 DEF Nas
  <2>2. CASE \E t \in Sids : KillerRuns(t)
    BY <1>4, <2>2, PacketsDiffer DEF KillerRuns, HangUp, PointInv, TypeOK
  <2>3. CASE UNCHANGED <<link, net>>
    BY <1>4, <2>3 DEF PointInv
  <2> QED BY <2>1, <2>2, <2>3 DEF Tick, WebSite, Server, KillInactiveUsers,
             RestartKillInactive, RestartRestore, Refuse
<1> QED BY <1>1, <1>2, <1>3, <1>4 DEF PointInv

\* Every step keeps the points.
LEMMA PointStep ==
  ASSUME TypeOK, JobInv, PointInv, Orderly, [Next]_vars
  PROVE  PointInv'
<1> USE DEF procVars, serverVars, nasVars, rowVars
<1>1. ASSUME NEW p \in Processors, Handle(p) PROVE PointInv'
  <2> DEFINE s == job[p].sid
  <2>0. Work(p) /\ server' = server BY <1>1 DEF Handle
  <2>1. job[p] \in Packets /\ s \in Sids BY <2>0, OrderlyWork DEF Packets
  <2>2. server = "running" BY <2>1 DEF PointInv, NoPacket, Packets
  <2>3. activeSessions'[s] \in RowsOf(s) \cup {NoRow}
    <3>1. Unused(s) # {} => NewRow(s) \in RowsOf(s) BY <2>1, NewRowIsUnused DEF Unused
    <3>2. activeSessions' \in {activeSessions, [activeSessions EXCEPT ![s] = NoRow]}
            \cup (IF Unused(s) # {} THEN {[activeSessions EXCEPT ![s] = NewRow(s)]} ELSE {})
      BY <2>0, OrderlyWork DEF Authorizing, Beginning, Looking, Inserting, AliveReading,
         AliveWriting, AliveChecking, Stopping
    <3> QED BY <2>1, <3>1, <3>2 DEF TypeOK, PointInv
  <2>4. \A t \in Sids : activeSessions'[t] \in RowsOf(t) \cup {NoRow}
    BY <2>0, <2>3, WorkIsLocal DEF PointInv
  <2>5. \A t \in Sids : link'[t] # "down" =>
          link[t] # "down" /\ Packet("Stop", t) \notin net'
    BY <2>0, WorkIsLocal DEF PointInv
  <2>6. \A t \in Sids : link'[t] # "down" =>
          \A q \in Processors : job'[q] # Packet("Stop", t)
    <3>1. \A q \in Processors : job'[q] \in {job[q], NoPacket} BY <2>0, WorkIsLocal
    <3> QED BY <2>5, <3>1, PacketsDiffer DEF PointInv
  <2>7. /\ pc'[p] \in {"connected", "password"} => job'[p].type = "authorize"
        /\ pc'[p] \in {"user", "usage"} => job'[p].type \in {"authorize", "Alive"}
        /\ pc'[p] = "update" => job'[p].type = "Alive"
        /\ pc'[p] \in {"stop", "remove"} => job'[p].type = "Stop"
        /\ pc'[p] \in {"update", "stop"} => uid'[p] \in RowsOf(job'[p].sid)
    <3>1. CASE Done(p) BY <3>1 DEF Done, TypeOK
    <3>2. CASE \E S : Goes(p, S) /\ S \subseteq {"user", "connected", "usage", "password"}
                      /\ job[p].type = "authorize"
      BY <3>2 DEF Goes, TypeOK
    <3>3. CASE Beginning(p) BY <3>3 DEF Beginning, TypeOK
    <3>4. CASE Goes(p, {"insert"}) BY <3>4 DEF Goes, TypeOK
    <3>5. CASE AliveReading(p)
      BY <2>1, <3>1, <3>5 DEF AliveReading, Answer, TypeOK, PointInv
    <3>6. CASE AliveWriting(p) BY <3>6 DEF AliveWriting, Goes, TypeOK
    <3>7. CASE AliveChecking(p)
      BY <3>1, <3>7 DEF AliveChecking, Answer, Goes, TypeOK
    <3>8. CASE Stopping(p)
      BY <2>1, <3>1, <3>8 DEF Stopping, Answer, Goes, TypeOK, PointInv
    <3> QED BY <2>0, <3>1, <3>2, <3>3, <3>4, <3>5, <3>6, <3>7, <3>8, OrderlyWork
            DEF Authorizing, Looking, Inserting, Answer, Reject, Accept
  <2>8. \A q \in Processors \ {p} :
          pc'[q] = pc[q] /\ job'[q] = job[q] /\ uid'[q] = uid[q]
    BY <2>0, WorkIsLocal
  <2> QED BY <2>0, <2>2, <2>4, <2>5, <2>6, <2>7, <2>8 DEF PointInv
<1>2. ASSUME NEW p \in Processors, NEW m \in net, Take(p, m) PROVE PointInv'
  <2>1. server = "running" /\ server' = server /\ pc' = [pc EXCEPT ![p] = "exists"]
        /\ job' = [job EXCEPT ![p] = m] /\ uid' = uid /\ UNCHANGED <<link, net, activeSessions>>
    BY <1>2 DEF Take, Receive
  <2>2. \A q \in Processors : \/ job'[q] = job[q] /\ pc'[q] = pc[q]
                              \/ job'[q] = m /\ pc'[q] = "exists"
    BY <2>1 DEF TypeOK
  <2> QED BY <2>1, <2>2 DEF PointInv
<1>3. CASE Crash
  BY <1>3 DEF Crash, PointInv, NoPacket, Packet
<1>4. CASE UNCHANGED vars
  BY <1>4 DEF vars, PointInv
<1> QED BY <1>1, <1>2, <1>3, <1>4, RemoteKeepsPoints DEF Next, Set, Step, Processor

\* A processor takes its packet from the net when it is done, at most.
LEMMA WorkTakesItsPacket ==
  ASSUME TypeOK, JobInv, PointInv, Orderly, NEW p \in Processors, Work(p)
  PROVE  /\ net \ {job[p]} \subseteq net'
         /\ job'[p] = job[p] => net' = net
<1>1. job[p] \in Packets /\ job[p] # NoPacket
  BY OrderlyWork DEF Packets, NoPacket
<1>2. Done(p) => job'[p] = NoPacket BY DEF Done, TypeOK
<1>3. Answer(p) \/ Reject(p) \/ Accept(p) => Done(p) /\ net \ {job[p]} \subseteq net'
  BY DEF Answer, Reject, Accept
<1> QED BY <1>1, <1>2, <1>3, OrderlyWork
        DEF Authorizing, Beginning, Looking, Inserting, AliveReading, AliveWriting,
            AliveChecking, Stopping, nasVars

\* Without both repeats and crashes, a Start stays in the net until it is
\* answered.
LEMMA ServerStep ==
  ASSUME TypeOK, JobInv, PointInv, StartInv, ServerInv, Orderly, [Next]_vars
  PROVE  ServerInv'
<1> USE DEF procVars, serverVars, nasVars, rowVars, May
<1>1. setting' = setting BY DEF Next, Set, vars
<1>2. ASSUME "repeats" \in setting.events PROVE server' = "running" /\ crashes' = 0
  <2>1. server = "running" /\ crashes = 0 BY <1>2 DEF ServerInv
  <2> QED BY <2>1 DEF Next, Set, Step, vars, Nas, NasAlive, NasGivesUp, Remote, Tick, Refuse,
             WebSite, KillerRuns, Processor, Handle, Take, Server, KillInactiveUsers,
             RestartKillInactive, RestartRestore, Crash
<1>3. ASSUME "repeats" \notin setting.events, NEW q \in Processors, NEW s \in Sids,
             job'[q] = Packet("Start", s)
      PROVE  Packet("Start", s) \in net'
  <2>1. \A r \in Processors, x \in Sids :
          job[r] = Packet("Start", x) => Packet("Start", x) \in net
    BY <1>3 DEF ServerInv
  <2>2. ASSUME NEW p \in Processors, Work(p) PROVE Packet("Start", s) \in net'
    <3>1. CASE q = p
      <4>1. job'[p] = job[p] BY <1>3, <2>2, <3>1, WorkIsLocal, PacketsDiffer
      <4> QED BY <1>3, <2>1, <2>2, <3>1, <4>1, WorkTakesItsPacket
    <3>2. CASE q # p
      <4>1. job[q] = Packet("Start", s) BY <1>3, <2>2, <3>2, WorkIsLocal
      <4>2. job[p] # job[q] BY <1>3, <3>2, <4>1, PacketsDiffer DEF StartInv
      <4> QED BY <2>1, <2>2, <4>1, <4>2, WorkTakesItsPacket
    <3> QED BY <3>1, <3>2
  <2>3. ASSUME NEW p \in Processors, NEW m \in net, Take(p, m)
        PROVE  Packet("Start", s) \in net'
    <3>1. job'[q] \in {job[q], m} /\ net' = net BY <2>3 DEF Take, Receive, TypeOK
    <3> QED BY <1>3, <2>1, <3>1
  <2>4. CASE Crash
    BY <1>3, <2>4, PacketsDiffer DEF Crash
  <2>5. CASE UNCHANGED procVars
    <3>1. Packet("Start", s) \in net BY <1>3, <2>1, <2>5
    <3>2. CASE Nas
      <4>1. \A m \in net : ~NasGivesUp(m) BY DEF NasGivesUp, GiveUp, Orderly
      <4> QED BY <3>1, <3>2, <4>1 DEF Nas, NasAlive, SendAlive, Dial, HangUp
    <3>3. CASE \E t \in Sids : KillerRuns(t)
      BY <3>1, <3>3 DEF KillerRuns, HangUp
    <3>4. CASE UNCHANGED net
      BY <3>1, <3>4
    <3> QED BY <2>2, <2>3, <2>4, <3>2, <3>3, <3>4
            DEF Next, Set, Step, vars, Tick, Refuse, WebSite, Server, KillInactiveUsers,
                RestartKillInactive, RestartRestore, Processor, Handle
  <2> QED BY <2>2, <2>3, <2>4, <2>5, OthersKeepProcs
          DEF Next, Set, Step, Processor, Handle, vars
<1> QED BY <1>1, <1>2, <1>3 DEF ServerInv

-----------------------------------------------------------------------------
(* Steps that a session does not notice *)

\* Its packets, entry and clock are as before, and of its rows only those are
\* closed that nobody reports.
Calm(s) ==
  /\ setting' = setting
  /\ link'[s] = link[s]
  /\ silent'[s] = silent[s]
  /\ activeSessions'[s] = activeSessions[s]
  /\ server' = "running" => server = "running"
  /\ \A t \in {"Start", "Alive"} :
       /\ Packet(t, s) \in net' <=> Packet(t, s) \in net
       /\ \A p \in Processors :
            /\ job'[p] = Packet(t, s) <=> job[p] = Packet(t, s)
            /\ job[p] = Packet(t, s) => pc'[p] = pc[p] /\ uid'[p] = uid[p]
  /\ OnlineRows(s)' \subseteq OnlineRows(s)
  /\ \A x \in OnlineRows(s) :
       age[x] <= Timeout => x \in OnlineRows(s)' /\ age'[x] = age[x]

\* A session that is up stays as UpInv says through a step that it does not
\* notice.
LEMMA CalmKeepsUp ==
  ASSUME TypeOK, NEW s \in Sids, UpInv(s), Calm(s)
  PROVE  UpInv(s)'
<1>0. Timeout' = Timeout /\ Timeout \in Nat
  BY SessionAssumption DEF Calm, Setting, Timeout, TypeOK
<1>1. SUFFICES ASSUME link[s] = "up"
               PROVE  IF Starting(s)' THEN StartingInv(s)' ELSE StartedInv(s)'
  BY DEF Calm, UpInv
<1>2. Starting(s)' <=> Starting(s)
  BY DEF Calm, Starting
<1>3. CASE Starting(s)
  <2>1. StartingInv(s) BY <1>1, <1>3 DEF UpInv
  <2>2. OnlineRows(s)' = OnlineRows(s) /\ \A x \in OnlineRows(s) : age'[x] = 0
    <3>1. \A x \in OnlineRows(s) : age[x] = 0 /\ age[x] <= Timeout
      BY <1>0, <2>1 DEF StartingInv
    <3>2. \A x \in OnlineRows(s) : x \in OnlineRows(s)' /\ age'[x] = 0
      BY <3>1 DEF Calm
    <3>3. OnlineRows(s)' \subseteq OnlineRows(s)
      BY DEF Calm
    <3> QED BY <3>2, <3>3
  <2>3. \A p \in Processors : Opening(p, s)' <=> Opening(p, s)
    BY DEF Opening, Calm
  <2>4. \A p \in Processors : Opening(p, s) => uid'[p] = uid[p]
    BY DEF Opening, Calm
  <2>5. StartingInv(s)'
    <3>1. \A x \in OnlineRows(s)' : age'[x] = 0 BY <2>2
    <3>2. Packet("Start", s) \in net' <=> Packet("Start", s) \in net BY DEF Calm
    <3>3. activeSessions'[s] = activeSessions[s] BY DEF Calm
    <3> QED BY <2>1, <2>2, <2>3, <2>4, <3>1, <3>2, <3>3 DEF StartingInv
  <2> QED BY <1>2, <1>3, <2>5
<1>4. CASE ~Starting(s)
  <2>1. PICK x \in OnlineRows(s) :
          Fresh(x, s) /\ (server = "running" => activeSessions[s] = x)
    BY <1>1, <1>4 DEF UpInv, StartedInv
  <2>2. x \in OnlineRows(s)' /\ age'[x] = age[x]
    BY <2>1 DEF Calm, Fresh
  <2>3. Fresh(x, s)'
    BY <1>0, <2>1, <2>2 DEF Fresh, Calm
  <2>4. server' = "running" => activeSessions'[s] = x
    BY <2>1 DEF Calm
  <2> QED BY <1>2, <1>4, <2>2, <2>3, <2>4 DEF StartedInv
<1> QED BY <1>3, <1>4

\* The work for another session, and an authorization of one that is up.
LEMMA WorkIsCalm ==
  ASSUME TypeOK, JobInv, PointInv, Orderly, setting' = setting,
         NEW p \in Processors, Handle(p), NEW s \in Sids, link[s] = "up",
         job[p].sid # s \/ job[p].type = "authorize"
  PROVE  Calm(s)
<1>0. Work(p) /\ server' = server BY DEF Handle, serverVars
<1>1. job[p] \in Packets /\ job[p].sid \in Sids BY <1>0, OrderlyWork DEF Packets
<1>2. \A t \in {"Start", "Alive"} : job[p] # Packet(t, s)
  BY DEF Packet
<1>3. \A t \in {"Start", "Alive"}, q \in Processors :
        /\ job'[q] = Packet(t, s) <=> job[q] = Packet(t, s)
        /\ job[q] = Packet(t, s) => pc'[q] = pc[q] /\ uid'[q] = uid[q]
  <2>1. job'[p] \in {job[p], NoPacket} BY <1>0, WorkIsLocal
  <2>2. \A t \in {"Start", "Alive"} : job'[p] # Packet(t, s)
    BY <1>2, <2>1, PacketsDiffer
  <2> QED BY <1>0, <1>2, <2>2, WorkIsLocal
<1>4. link'[s] = link[s] /\ silent'[s] = silent[s]
  BY <1>0, WorkIsLocal
<1>5. CASE job[p].sid # s
  <2>1. \A t \in {"Start", "Alive"} : Packet(t, s) \in net' <=> Packet(t, s) \in net
    <3>1. \A t \in {"Start", "Alive"} : Packet(t, s) \in Packets /\ Packet(t, s).sid = s
      BY PacketsDiffer DEF Packet
    <3> QED BY <1>0, <1>5, <3>1, WorkIsLocal
  <2>2. /\ activeSessions'[s] = activeSessions[s]
        /\ OnlineRows(s)' = OnlineRows(s)
        /\ \A x \in RowsOf(s) : age'[x] = age[x]
    BY <1>0, <1>5, WorkIsLocal
  <2> QED BY <1>0, <1>3, <1>4, <2>1, <2>2 DEF Calm, OnlineRows
<1>6. CASE job[p].sid = s /\ job[p].type = "authorize"
  <2>1. Authorizing(p)
    BY <1>0, <1>6, OrderlyWork DEF Authorizing, Beginning, Looking, Inserting, AliveReading,
       AliveWriting, AliveChecking, Stopping
  <2>2. net' \in {net, net \ {job[p]}}
    BY <1>6, <2>1 DEF Authorizing, Reject, Accept, nasVars
  <2>3. \A t \in {"Start", "Alive"} : Packet(t, s) \in net' <=> Packet(t, s) \in net
    BY <1>2, <2>2
  <2>4. UNCHANGED <<online, age, activeSessions>>
    BY <2>1 DEF Authorizing, rowVars
  <2> QED BY <1>0, <1>3, <1>4, <2>3, <2>4 DEF Calm, OnlineRows
<1> QED BY <1>5, <1>6

\* What the rest of the system does, but for an Alive of the session itself, the
\* clock and a restart.
LEMMA RemoteIsCalm ==
  ASSUME TypeOK, Orderly, setting' = setting,
         NEW s \in Sids, link[s] = "up", link'[s] = "up",
         \/ Nas /\ ~NasAlive(s)
         \/ \E u \in Users : Refuse(u)
         \/ \E t \in Sids : KillerRuns(t)
         \/ WebSite \/ KillInactiveUsers \/ RestartKillInactive
  PROVE  Calm(s)
<1> USE DEF nasVars, rowVars, procVars, serverVars
<1>1. UNCHANGED <<pc, job, uid>>
  BY OthersKeepProcs DEF Server
<1>2. ~May("failures") /\ ~May("closing") /\ ~May("late")
  BY DEF Orderly, May
<1>3. /\ activeSessions' = activeSessions
      /\ server' = "running" => server = "running"
  BY DEF Nas, NasAlive, NasGivesUp, Remote, Refuse, KillerRuns, WebSite,
     KillInactiveUsers, RestartKillInactive
<1> DEFINE Quietly ==
      /\ silent'[s] = silent[s]
      /\ \A t \in {"Start", "Alive"} : Packet(t, s) \in net' <=> Packet(t, s) \in net
<1>4. Quietly
  <2>1. ASSUME NEW t \in Sids, NasAlive(t), t # s
        PROVE  Quietly
    BY <2>1, PacketsDiffer DEF NasAlive, SendAlive, TypeOK
  <2>2. ASSUME NEW t \in Sids, Dial(t)
        PROVE  Quietly
    BY <2>2, PacketsDiffer DEF Dial, TypeOK
  <2>3. ASSUME NEW t \in Sids, HangUp(t)
        PROVE  Quietly
    BY <2>3, PacketsDiffer DEF HangUp, TypeOK
  <2>4. \A m \in net : ~NasGivesUp(m) BY <1>2 DEF NasGivesUp, GiveUp
  <2>5. CASE UNCHANGED <<silent, net>>
    BY <2>5
  <2> QED BY <2>1, <2>2, <2>3, <2>4, <2>5
          DEF Nas, Refuse, KillerRuns, WebSite, KillInactiveUsers, RestartKillInactive
<1>5. /\ OnlineRows(s)' \subseteq OnlineRows(s)
      /\ \A x \in OnlineRows(s) :
           age[x] <= Timeout => x \in OnlineRows(s)' /\ age'[x] = age[x]
  <2>1. CASE Close(Inactive(Timeout))
    <3>1. \A x \in Rows : age[x] \in Nat
      BY SessionAssumption DEF TypeOK, Setting, Timeout
    <3>2. Timeout \in Nat BY SessionAssumption DEF TypeOK, Setting, Timeout
    <3>3. \A x \in Rows : age[x] <= Timeout => x \notin Inactive(Timeout)
      BY <3>1, <3>2 DEF Inactive
    <3> QED BY <2>1, <3>3 DEF Close, OnlineRows, RowsOf
  <2>2. CASE UNCHANGED <<online, age>>
    BY <2>2 DEF OnlineRows
  <2> QED BY <1>2, <2>1, <2>2 DEF Nas, NasAlive, NasGivesUp, Remote, Refuse, KillerRuns, WebSite,
             WebKillInactiveUsers, WebKillUser, KillInactiveUsers, RestartKillInactive
<1> QED BY <1>1, <1>3, <1>4, <1>5 DEF Calm

-----------------------------------------------------------------------------
(* Steps of a session that is up *)

\* A Start gets a row.
LEMMA BeginningKeepsUp ==
  ASSUME TypeOK, NEW s \in Sids, UpInv(s), NEW p \in Processors,
         Beginning(p), job[p] = Packet("Start", s)
  PROVE  UpInv(s)'
<1> USE DEF nasVars, rowVars
<1>1. job[p].sid = s BY DEF Packet
<1>2. SUFFICES ASSUME link[s] = "up"
               PROVE  Starting(s)' /\ StartingInv(s)'
  BY DEF UpInv, Beginning
<1>3. Starting(s) /\ Starting(s)'
  BY DEF Starting, Beginning
<1>4. StartingInv(s) BY <1>2, <1>3 DEF UpInv
<1>5. Opening(p, s)' /\ uid'[p] = activeSessions'[s]
  BY <1>1 DEF Opening, Beginning, TypeOK
<1>6. OnlineRows(s)' = OnlineRows(s) /\ age' = age /\ net' = net
  BY DEF Beginning, OnlineRows
<1> QED BY <1>3, <1>4, <1>5, <1>6 DEF StartingInv

\* It goes on to the insert.
LEMMA LookingKeepsUp ==
  ASSUME TypeOK, NEW s \in Sids, UpInv(s), NEW p \in Processors,
         Looking(p), job[p] = Packet("Start", s)
  PROVE  UpInv(s)'
<1> USE DEF nasVars, rowVars
<1>1. SUFFICES ASSUME link[s] = "up"
               PROVE  Starting(s)' /\ StartingInv(s)'
  BY DEF UpInv, Looking
<1>2. pc' = [pc EXCEPT ![p] = "insert"] /\ job' = job /\ uid' = uid
  BY DEF Looking, Goes
<1>3. Starting(s) /\ Starting(s)'
  BY <1>2 DEF Starting
<1>4. StartingInv(s) BY <1>1, <1>3 DEF UpInv
<1>5. \A q \in Processors : Opening(q, s)' <=> Opening(q, s)
  BY <1>2 DEF Opening, Looking, TypeOK
<1>6. /\ OnlineRows(s)' = OnlineRows(s) /\ age' = age /\ net' = net
      /\ activeSessions' = activeSessions
  BY DEF Looking, OnlineRows
<1> QED BY <1>2, <1>3, <1>4, <1>5, <1>6 DEF StartingInv

\* The row is Online before the Start is answered.
LEMMA InsertingKeepsUp ==
  ASSUME TypeOK, JobInv, NEW s \in Sids, UpInv(s), NEW p \in Processors,
         Inserting(p), job[p] = Packet("Start", s), setting' = setting
  PROVE  UpInv(s)'
<1> USE DEF nasVars, rowVars
<1>1. SUFFICES ASSUME link[s] = "up"
               PROVE  IF Starting(s)' THEN StartingInv(s)' ELSE StartedInv(s)'
  BY DEF UpInv, Inserting, Answer
<1>2. StartingInv(s) /\ Opening(p, s)
  BY <1>1 DEF UpInv, Starting, Opening, Inserting
<1>3. uid[p] \in RowsOf(s) /\ uid[p] \in Rows
  BY DEF Inserting, JobInv, Packet, RowsOf
<1>4. OnlineRows(s)' = OnlineRows(s) \cup {uid[p]}
  BY <1>3 DEF Inserting, OnlineRows
<1>5. \A x \in OnlineRows(s)' : x \in Rows /\ age'[x] = 0
  BY <1>2, <1>3, <1>4 DEF StartingInv, Inserting, OnlineRows, RowsOf, TypeOK
<1>6. activeSessions' = activeSessions /\ silent' = silent
  BY DEF Inserting, Answer
<1>7. \A q \in Processors \ {p} :
        pc'[q] = pc[q] /\ job'[q] = job[q] /\ uid'[q] = uid[q]
  BY DEF Inserting, Answer, Done, TypeOK
<1>8. \/ activeSessions'[s] \in OnlineRows(s)'
      \/ \E q \in Processors \ {p} : Opening(q, s)' /\ uid'[q] = activeSessions'[s]
  BY <1>2, <1>4, <1>6, <1>7 DEF StartingInv, Opening
<1>9. CASE Starting(s)'
  BY <1>4, <1>5, <1>8, <1>9 DEF StartingInv
<1>10. CASE ~Starting(s)'
  <2>1. PICK x : x = activeSessions'[s] /\ x \in OnlineRows(s)'
    BY <1>8, <1>10 DEF Starting, Opening
  <2>2. Timeout' \in Nat /\ silent'[s] \in Nat
    BY <1>6, SessionAssumption DEF Setting, Timeout, TypeOK
  <2>3. Fresh(x, s)'
    BY <1>5, <2>1, <2>2 DEF Fresh
  <2> QED BY <1>10, <2>1, <2>3 DEF StartedInv
<1> QED BY <1>9, <1>10

\* An Alive that is handled, whatever the point, keeps the row of the session.
LEMMA AliveKeepsUp ==
  ASSUME TypeOK, JobInv, PointInv, Orderly, NEW s \in Sids, UpInv(s),
         NEW p \in Processors, Handle(p), job[p] = Packet("Alive", s), setting' = setting
  PROVE  UpInv(s)'
<1> USE DEF nasVars, rowVars, serverVars
<1>0. Work(p) /\ server' = server /\ server = "running"
  BY PacketsDiffer DEF Handle, PointInv
<1>1. AliveReading(p) \/ AliveWriting(p) \/ AliveChecking(p)
  <2>1. job[p].type = "Alive" BY DEF Packet
  <2>2. ~Authorizing(p) /\ ~Beginning(p) /\ ~Looking(p) /\ ~Inserting(p) /\ ~Stopping(p)
    BY <2>1 DEF Authorizing, Beginning, Looking, Inserting, Stopping
  <2> QED BY <1>0, <2>2, OrderlyWork
<1>2. job[p].sid = s BY DEF Packet
<1>3. /\ silent' = silent /\ link' = link /\ online' = online
      /\ activeSessions' = activeSessions
      /\ net' \in {net, net \ {Packet("Alive", s)}}
  BY <1>1 DEF AliveReading, AliveWriting, AliveChecking, Answer
<1>4. /\ job'[p] \in {Packet("Alive", s), NoPacket}
      /\ \A q \in Processors \ {p} :
           pc'[q] = pc[q] /\ job'[q] = job[q] /\ uid'[q] = uid[q]
  BY <1>0, WorkIsLocal
<1>5. /\ Packet("Start", s) \in net' <=> Packet("Start", s) \in net
      /\ \A q \in Processors :
           /\ job'[q] = Packet("Start", s) <=> job[q] = Packet("Start", s)
           /\ job[q] = Packet("Start", s) => pc'[q] = pc[q] /\ uid'[q] = uid[q]
  BY <1>3, <1>4, PacketsDiffer
<1>6. OnlineRows(s)' = OnlineRows(s) BY <1>3 DEF OnlineRows
<1>7. \A x \in OnlineRows(s) : age'[x] \in {age[x], 0}
  BY <1>1 DEF AliveReading, AliveWriting, AliveChecking, OnlineRows, TypeOK
<1>8. Starting(s)' <=> Starting(s) BY <1>5 DEF Starting
<1>9. SUFFICES ASSUME link[s] = "up"
               PROVE  IF Starting(s)' THEN StartingInv(s)' ELSE StartedInv(s)'
  BY <1>3 DEF UpInv
<1>10. CASE Starting(s)
  <2>1. StartingInv(s) BY <1>9, <1>10 DEF UpInv
  <2>2. \A x \in OnlineRows(s)' : age'[x] = 0 BY <1>6, <1>7, <2>1 DEF StartingInv
  <2>3. \A q \in Processors : Opening(q, s)' <=> Opening(q, s) BY <1>5 DEF Opening
  <2>4. \A q \in Processors : Opening(q, s) => uid'[q] = uid[q] BY <1>5 DEF Opening
  <2>5. StartingInv(s)'
    BY <1>3, <1>5, <1>6, <2>1, <2>2, <2>3, <2>4 DEF StartingInv
  <2> QED BY <1>8, <1>10, <2>5
<1>11. CASE ~Starting(s)
  <2>1. PICK x \in OnlineRows(s) : Fresh(x, s) /\ activeSessions[s] = x
    BY <1>0, <1>9, <1>11 DEF UpInv, StartedInv
  <2>2. x \in Rows /\ x # NoRow /\ age[x] \in Nat /\ silent[s] \in Nat
    BY SessionAssumption DEF OnlineRows, RowsOf, Rows, TypeOK, Setting, Timeout
  <2>3. Timeout' = Timeout /\ Timeout \in Nat
    BY SessionAssumption DEF Setting, Timeout, TypeOK
  <2>4. ASSUME AliveReading(p) PROVE Fresh(x, s)'
    <3>1. /\ uid' = [uid EXCEPT ![p] = x] /\ pc' = [pc EXCEPT ![p] = "update"]
          /\ job' = job /\ net' = net /\ age' = age
      BY <1>2, <2>1, <2>2, <2>4 DEF AliveReading
    <3>2. uid'[p] = x /\ pc'[p] = "update" BY <3>1 DEF TypeOK
    <3> QED BY <1>3, <1>4, <2>1, <2>3, <3>1, <3>2 DEF Fresh
  <2>5. ASSUME age'[x] = 0 PROVE Fresh(x, s)'
    BY <1>3, <2>2, <2>3, <2>5 DEF Fresh
  <2>6. ASSUME AliveWriting(p) PROVE Fresh(x, s)'
    <3>1. uid[p] = x \/ age[x] = 0 BY <2>1, <2>6 DEF AliveWriting, Fresh
    <3>2. age'[x] = 0 BY <2>2, <2>6, <3>1 DEF AliveWriting, TypeOK
    <3> QED BY <2>5, <3>2
  <2>7. ASSUME AliveChecking(p) PROVE Fresh(x, s)'
    <3>1. age'[x] = 0 BY <2>1, <2>7 DEF AliveChecking, Fresh
    <3> QED BY <2>5, <3>1
  <2>8. Fresh(x, s)' BY <1>1, <2>4, <2>6, <2>7
  <2> QED BY <1>3, <1>6, <1>8, <1>11, <2>1, <2>8 DEF StartedInv
<1> QED BY <1>10, <1>11

\* The NAS reports a session: its row may be as old as before until the packet
\* is handled.
LEMMA ReportKeepsUp ==
  ASSUME TypeOK, NEW s \in Sids, UpInv(s), NasAlive(s), setting' = setting
  PROVE  UpInv(s)'
<1> USE DEF rowVars, procVars, serverVars
<1>1. /\ link[s] = "up" /\ net' = net \cup {Packet("Alive", s)}
      /\ UNCHANGED <<link, online, age, activeSessions, server, pc, job, uid>>
  BY DEF NasAlive, SendAlive, Remote
<1>2. Packet("Start", s) \in net' <=> Packet("Start", s) \in net
  BY <1>1, PacketsDiffer
<1>3. Starting(s)' <=> Starting(s) BY <1>1, <1>2 DEF Starting
<1>4. OnlineRows(s)' = OnlineRows(s) /\ \A p \in Processors : Opening(p, s)' <=> Opening(p, s)
  BY <1>1 DEF OnlineRows, Opening
<1>5. StartingInv(s) => StartingInv(s)'
  BY <1>1, <1>2, <1>4 DEF StartingInv
<1>6. Timeout' = Timeout BY DEF Timeout
<1>7. ASSUME NEW x, Fresh(x, s) PROVE Fresh(x, s)'
  BY <1>1, <1>6, <1>7 DEF Fresh
<1>8. StartedInv(s) => StartedInv(s)'
  BY <1>1, <1>4, <1>7 DEF StartedInv
<1> QED BY <1>1, <1>3, <1>5, <1>8 DEF UpInv

\* A processor takes a packet.
LEMMA TakeKeepsUp ==
  ASSUME TypeOK, JobInv, NEW s \in Sids, UpInv(s), setting' = setting,
         NEW p \in Processors, NEW m \in net, Take(p, m)
  PROVE  UpInv(s)'
<1> USE DEF nasVars, rowVars, serverVars
<1>1. /\ pc[p] = "idle" /\ job[p] = NoPacket
      /\ pc' = [pc EXCEPT ![p] = "exists"] /\ job' = [job EXCEPT ![p] = m]
      /\ UNCHANGED <<link, net, silent, online, age, activeSessions, server, uid>>
  BY DEF Take, Receive, JobInv
<1>2. /\ pc'[p] = "exists" /\ job'[p] = m
      /\ \A q \in Processors \ {p} : pc'[q] = pc[q] /\ job'[q] = job[q]
  BY <1>1 DEF TypeOK
<1>3. Starting(s)' <=> Starting(s)
  BY <1>1, <1>2, PacketsDiffer DEF Starting
<1>4. \A q \in Processors : Opening(q, s)' <=> Opening(q, s)
  BY <1>1, <1>2 DEF Opening
<1>5. OnlineRows(s)' = OnlineRows(s) BY <1>1 DEF OnlineRows
<1>6. StartingInv(s) => StartingInv(s)'
  BY <1>1, <1>4, <1>5 DEF StartingInv
<1>7. Timeout' = Timeout BY DEF Timeout
<1>8. ASSUME NEW x, Fresh(x, s) PROVE Fresh(x, s)'
  BY <1>1, <1>2, <1>7, <1>8 DEF Fresh
<1>9. StartedInv(s) => StartedInv(s)'
  BY <1>1, <1>5, <1>8 DEF StartedInv
<1> QED BY <1>1, <1>3, <1>6, <1>9 DEF UpInv

\* The clock goes on when the session was reported in time.
LEMMA TickKeepsUp ==
  ASSUME TypeOK, Orderly, NEW s \in Sids, UpInv(s), Tick, setting' = setting
  PROVE  UpInv(s)'
<1> USE DEF serverVars, procVars
<1>1. UNCHANGED <<link, net, online, activeSessions, server, pc, job, uid>>
  BY DEF Tick
<1>2. SUFFICES ASSUME link[s] = "up"
               PROVE  ~Starting(s)' /\ StartedInv(s)'
  BY <1>1 DEF UpInv
<1>3. /\ silent[s] < Timeout
      /\ Packet("Start", s) \notin net /\ Packet("Alive", s) \notin net
      /\ \A p \in Processors : job[p] \notin PacketsOf(s)
  BY <1>2 DEF Tick, InTime, Orderly, May
<1>4. \A p \in Processors, t \in {"Start", "Alive"} : job[p] # Packet(t, s)
  BY <1>3, PacketsDiffer DEF PacketsOf, Packet
<1>5. ~Starting(s) /\ ~Starting(s)' BY <1>1, <1>3, <1>4 DEF Starting
<1>6. PICK x \in OnlineRows(s) :
        Fresh(x, s) /\ (server = "running" => activeSessions[s] = x)
  BY <1>2, <1>5 DEF UpInv, StartedInv
<1>7. /\ x \in Rows /\ x \in online /\ age[x] \in Nat /\ silent[s] \in Nat
      /\ Timeout \in Nat /\ Timeout' = Timeout
  BY SessionAssumption DEF OnlineRows, RowsOf, TypeOK, Setting, Timeout
<1>8. age[x] <= silent[s] BY <1>3, <1>6 DEF Fresh
<1>9. age'[x] = age[x] + 1 /\ silent'[s] = silent[s] + 1
  BY <1>2, <1>3, <1>7, <1>8 DEF Tick, Older
<1>10. Fresh(x, s)'
  BY <1>1, <1>3, <1>4, <1>7, <1>8, <1>9 DEF Fresh
<1>11. OnlineRows(s)' = OnlineRows(s) BY <1>1 DEF OnlineRows
<1> QED BY <1>1, <1>5, <1>6, <1>10, <1>11 DEF StartedInv

\* A crash, without repeats: a Start that was under way is sent again, and the
\* row of a session that has one is still there.
LEMMA CrashKeepsUp ==
  ASSUME TypeOK, StartInv, ServerInv, NEW s \in Sids, UpInv(s), Crash, setting' = setting
  PROVE  UpInv(s)'
<1> USE DEF nasVars, rowVars
<1>1. /\ server' = "starting" /\ UNCHANGED <<link, net, silent, online, age>>
      /\ \A p \in Processors : job'[p] = NoPacket
  BY DEF Crash
<1>2. ~May("repeats")
  <2>1. crashes > 0 BY DEF Crash
  <2> QED BY <2>1 DEF ServerInv
<1>3. \A p \in Processors, t \in {"Start", "Alive"} : job'[p] # Packet(t, s)
  BY <1>1, PacketsDiffer
<1>4. Starting(s)' <=> Starting(s)
  BY <1>1, <1>2, <1>3 DEF Starting, ServerInv
<1>5. OnlineRows(s)' = OnlineRows(s) BY <1>1 DEF OnlineRows
<1>6. ASSUME Starting(s) PROVE StartingInv(s)'
  <2>1. Packet("Start", s) \in net BY <1>2, <1>6 DEF Starting, ServerInv
  <2>2. OnlineRows(s)' = {} BY <1>2, <1>5, <2>1 DEF StartInv
  <2>3. \A p \in Processors : ~Opening(p, s)' BY <1>3 DEF Opening
  <2> QED BY <1>1, <2>1, <2>2, <2>3 DEF StartingInv
<1>7. Timeout' = Timeout BY DEF Timeout
<1>8. ASSUME NEW x, Fresh(x, s) PROVE Fresh(x, s)'
  BY <1>1, <1>3, <1>7, <1>8 DEF Fresh
<1>9. StartedInv(s) => StartedInv(s)'
  BY <1>1, <1>5, <1>8 DEF StartedInv
<1> QED BY <1>1, <1>4, <1>6, <1>9 DEF UpInv

\* The row that is restored is the only one that is Online.
LEMMA RestoreKeepsUp ==
  ASSUME TypeOK, Orderly, PointInv, StartInv, ServerInv, NEW s \in Sids, UpInv(s),
         RestartRestore, setting' = setting
  PROVE  UpInv(s)'
<1> USE DEF nasVars, rowVars, procVars
<1>1. /\ server = "restoring"
      /\ UNCHANGED <<link, net, silent, online, age, pc, job, uid>>
      /\ activeSessions'[s] \in Restorable(s)
  BY DEF RestartRestore, Orderly, May
<1>2. ~May("repeats") BY <1>1 DEF ServerInv
<1>3. \A p \in Processors, t \in {"Start", "Alive"} :
        job[p] # Packet(t, s) /\ job'[p] # Packet(t, s)
  BY <1>1, PacketsDiffer DEF PointInv
<1>4. Starting(s)' <=> Starting(s)
  BY <1>1 DEF Starting
<1>5. OnlineRows(s)' = OnlineRows(s) BY <1>1 DEF OnlineRows
<1>6. ASSUME Starting(s) PROVE StartingInv(s)'
  <2>1. Packet("Start", s) \in net BY <1>2, <1>6 DEF Starting, ServerInv
  <2>2. OnlineRows(s)' = {} BY <1>2, <1>5, <2>1 DEF StartInv
  <2>3. \A p \in Processors : ~Opening(p, s)' BY <1>3 DEF Opening
  <2> QED BY <1>1, <2>1, <2>2, <2>3 DEF StartingInv
<1>7. Timeout' = Timeout BY DEF Timeout
<1>8. ASSUME NEW x \in OnlineRows(s), Fresh(x, s)
      PROVE  Fresh(x, s)' /\ activeSessions'[s] = x
  <2>1. \A y \in OnlineRows(s) : y = x BY <1>2 DEF StartInv
  <2>2. activeSessions'[s] \in OnlineRows(s) BY <1>1 DEF Restorable, OnlineRows
  <2>3. Fresh(x, s)' BY <1>1, <1>3, <1>7, <1>8 DEF Fresh
  <2> QED BY <2>1, <2>2, <2>3
<1>9. StartedInv(s) => StartedInv(s)'
  BY <1>5, <1>8 DEF StartedInv
<1> QED BY <1>1, <1>4, <1>6, <1>9 DEF UpInv

\* A link that comes up has no row yet.
LEMMA ComingUp ==
  ASSUME TypeOK, LinkInv, SessionStep, NEW s \in Sids, link[s] # "up"
  PROVE  UpInv(s)'
<1>1. SUFFICES ASSUME link'[s] = "up"
               PROVE  Starting(s)' /\ StartingInv(s)'
  BY DEF UpInv
<1>2. ComesUp(s)
  <2>1. ~Ebb BY <1>1 DEF Ebb
  <2>2. \A t \in Sids : ~HangsUp(t) /\ ~Asks(t) /\ ~Refuses(t)
    BY <1>1 DEF HangsUp, Asks, Refuses, TypeOK
  <2>3. \A t \in Sids : ComesUp(t) => t = s
    BY <1>1 DEF ComesUp, TypeOK
  <2>4. \A p \in Processors : ~Opens(p) /\ \A m \in net : ~Takes(p, m)
    BY <1>1 DEF Opens, Takes
  <2> QED BY <2>1, <2>2, <2>3, <2>4 DEF SessionStep
<1>3. /\ Packet("Start", s) \in net' /\ OnlineRows(s)' = {}
      /\ \A p \in Processors : job'[p] # Packet("Start", s)
  BY <1>2, PacketsDiffer DEF ComesUp, Settles, LinkInv, OnlineRows
<1> QED BY <1>3 DEF Starting, StartingInv, Opening

\* Every step keeps who is up on line.
LEMMA UpStep ==
  ASSUME SessionInv, OrderlyInv, Orderly, [Next]_vars, NEW s \in Sids
  PROVE  UpInv(s)'
<1>1. /\ TypeOK /\ JobInv /\ LinkInv /\ StartInv /\ PointInv /\ ServerInv /\ UpInv(s)
      /\ SessionStep /\ setting' = setting
  BY StepIsSessionStep DEF SessionInv, OrderlyInv
<1>2. CASE link[s] # "up"
  BY <1>1, <1>2, ComingUp
<1>3. CASE link'[s] # "up"
  BY <1>3 DEF UpInv
<1>4. CASE link[s] = "up" /\ link'[s] = "up"
  <2>1. ASSUME NEW p \in Processors, Handle(p) PROVE UpInv(s)'
    <3>1. Work(p) BY <2>1 DEF Handle
    <3>2. /\ job[p] \in Packets /\ job[p].type \in {"authorize", "Start", "Alive", "Stop"}
          /\ job[p] = Packet(job[p].type, job[p].sid)
      BY <1>1, <3>1, OrderlyWork, PacketsDiffer DEF Packets
    <3>3. CASE job[p].sid # s \/ job[p].type = "authorize"
      BY <1>1, <1>4, <2>1, <3>3, WorkIsCalm, CalmKeepsUp
    <3>4. CASE job[p] = Packet("Start", s)
      <4>1. job[p].type = "Start" BY <3>4 DEF Packet
      <4>2. Beginning(p) \/ Looking(p) \/ Inserting(p)
        <5>1. ~Authorizing(p) /\ ~AliveReading(p) /\ ~AliveWriting(p)
                /\ ~AliveChecking(p) /\ ~Stopping(p)
          BY <4>1 DEF Authorizing, AliveReading, AliveWriting, AliveChecking, Stopping
        <5> QED BY <1>1, <3>1, <5>1, OrderlyWork
      <4> QED BY <1>1, <3>4, <4>2, BeginningKeepsUp, LookingKeepsUp, InsertingKeepsUp
    <3>5. CASE job[p] = Packet("Alive", s)
      BY <1>1, <2>1, <3>5, AliveKeepsUp
    <3>6. job[p] # Packet("Stop", s)
      BY <1>1, <1>4 DEF PointInv
    <3> QED BY <3>2, <3>3, <3>4, <3>5, <3>6
  <2>2. ASSUME NEW p \in Processors, NEW m \in net, Take(p, m) PROVE UpInv(s)'
    BY <1>1, <2>2, TakeKeepsUp
  <2>3. CASE NasAlive(s)
    BY <1>1, <2>3, ReportKeepsUp
  <2>4. CASE Tick
    BY <1>1, <2>4, TickKeepsUp
  <2>5. CASE Crash
    BY <1>1, <2>5, CrashKeepsUp
  <2>6. CASE RestartRestore
    BY <1>1, <2>6, RestoreKeepsUp
  <2>7. CASE \/ Nas /\ ~NasAlive(s)
             \/ \E u \in Users : Refuse(u)
             \/ \E t \in Sids : KillerRuns(t)
             \/ WebSite \/ KillInactiveUsers \/ RestartKillInactive
    BY <1>1, <1>4, <2>7, RemoteIsCalm, CalmKeepsUp
  <2>8. CASE UNCHANGED vars
    <3>1. Calm(s)
      BY <2>8 DEF vars, nasVars, rowVars, serverVars, procVars, Calm, OnlineRows
    <3> QED BY <1>1, <3>1, CalmKeepsUp
  <2> QED BY <2>1, <2>2, <2>3, <2>4, <2>5, <2>6, <2>7, <2>8
          DEF Next, Set, Step, Server, Processor
<1> QED BY <1>2, <1>3, <1>4

\* With its own invariant, that of the sessions: every state of a system in
\* which nothing fails and packets are handled in time.
THEOREM OrderlyInvariant == Spec => [](Orderly => OrderlyInv)
<1>1. Init => (Orderly => OrderlyInv)
  <2> SUFFICES ASSUME Init, Orderly PROVE OrderlyInv
    OBVIOUS
  <2>1. PointInv
    BY DEF Init, PointInv, NoPacket, Packet
  <2>2. ServerInv
    BY DEF Init, ServerInv, Orderly, NoPacket, Packet
  <2>3. \A s \in Sids : UpInv(s)
    BY DEF Init, UpInv
  <2> QED BY <2>1, <2>2, <2>3 DEF OrderlyInv
<1>2. SessionInv /\ (Orderly => OrderlyInv) /\ [Next]_vars => (Orderly => OrderlyInv)'
  <2> SUFFICES ASSUME SessionInv, Orderly => OrderlyInv, [Next]_vars, Orderly'
               PROVE  OrderlyInv'
    OBVIOUS
  <2>1. setting' = setting BY DEF Next, Set, vars
  <2>2. Orderly BY <2>1 DEF Orderly, May
  <2>3. TypeOK /\ JobInv /\ StartInv /\ PointInv /\ ServerInv
    BY <2>2 DEF SessionInv, OrderlyInv
  <2>4. PointInv' BY <2>2, <2>3, PointStep
  <2>5. ServerInv' BY <2>2, <2>3, ServerStep
  <2>6. \A s \in Sids : UpInv(s)' BY <2>2, UpStep
  <2> QED BY <2>4, <2>5, <2>6 DEF OrderlyInv
<1> QED BY <1>1, <1>2, SessionInvariant, PTL DEF Spec

\* A session that is up, and whose Start was answered, has a row that is
\* Online: no packet that comes twice, no daemon that kills the inactive and no
\* restart closes the row of somebody who is reported alive in time.
THEOREM WhoIsUpIsOnline == Spec => []UpIsOnline
<1>1. ASSUME SessionInv, Orderly => OrderlyInv PROVE UpIsOnline
  <2> SUFFICES ASSUME Orderly, NEW s \in Sids, link[s] = "up", Packet("Start", s) \notin net
               PROVE  OnlineRows(s) # {}
    BY DEF UpIsOnline, Orderly
  <2>1. StartingInv(s) \/ StartedInv(s) BY <1>1 DEF OrderlyInv, UpInv
  <2> QED BY <2>1 DEF StartingInv, StartedInv
<1> QED BY <1>1, SessionInvariant, OrderlyInvariant, PTL

-----------------------------------------------------------------------------
(* The register of the sessions *)

\* While its link is up, only an administrator closes a row that is not older
\* than the daemon tolerates.
LEMMA YoungRowStays ==
  ASSUME TypeOK, JobInv, PointInv, Orderly, [Next]_vars,
         NEW s \in Sids, link[s] = "up", NEW x \in OnlineRows(s), age[x] <= Timeout
  PROVE  x \in online'
<1> USE DEF nasVars, rowVars
<1>1. x \in online /\ x \in Rows /\ x[1] = s /\ age[x] \in Nat /\ Timeout \in Nat
  BY SessionAssumption DEF OnlineRows, RowsOf, TypeOK, Setting, Timeout
<1>2. ~May("closing")
  BY DEF Orderly, May
<1>3. ASSUME NEW p \in Processors, Handle(p) PROVE x \in online'
  <2>1. Work(p) /\ job[p] \in Packets
    BY <1>3, OrderlyWork DEF Handle
  <2>2. CASE pc[p] = "stop" /\ Close({uid[p]})
    <3>1. job[p] = Packet("Stop", job[p].sid) /\ uid[p][1] = job[p].sid
      BY <2>1, <2>2, PacketsDiffer DEF PointInv, RowsOf
    <3>2. job[p] # Packet("Stop", s) BY DEF PointInv
    <3> QED BY <1>1, <2>2, <3>1, <3>2 DEF Close
  <2> QED BY <1>1, <2>1, <2>2, OrderlyWork
          DEF Authorizing, Beginning, Looking, Inserting, AliveReading, AliveWriting,
              AliveChecking, Stopping
<1>4. CASE Close(Inactive(Timeout))
  BY <1>1, <1>4 DEF Close, Inactive
<1> QED BY <1>1, <1>2, <1>3, <1>4
        DEF Next, Set, Step, vars, Nas, NasAlive, NasGivesUp, Remote, Tick, Refuse, WebSite,
            WebKillInactiveUsers, WebKillUser, KillerRuns, Processor, Take, Receive, Server,
            KillInactiveUsers, RestartKillInactive, RestartRestore, Crash

\* So a session that is up stays on line.
LEMMA UpStaysOnline ==
  ASSUME SessionInv, OrderlyInv, Orderly, [Next]_vars,
         NEW s \in Sids, link[s] = "up", OnlineRows(s) # {}
  PROVE  OnlineRows(s)' # {}
<1>1. Timeout \in Nat /\ TypeOK /\ JobInv /\ PointInv /\ UpInv(s)
  BY SessionAssumption DEF TypeOK, Setting, Timeout, SessionInv, OrderlyInv
<1>2. PICK x \in OnlineRows(s) : age[x] <= Timeout
  BY <1>1 DEF UpInv, StartingInv, StartedInv, Fresh
<1>3. x \in online' BY <1>1, <1>2, YoungRowStays
<1> QED BY <1>2, <1>3 DEF OnlineRows, RowsOf, Rows

\* A Start comes to an end with a row.
LEMMA StartEndsOnline ==
  ASSUME SessionInv, OrderlyInv, Orderly, [Next]_vars,
         NEW s \in Sids, Starting(s), ~Starting(s)'
  PROVE  OnlineRows(s)' # {}
<1> USE DEF nasVars, rowVars, procVars
<1>1. TypeOK /\ JobInv /\ PointInv /\ ServerInv
  BY DEF SessionInv, OrderlyInv
<1>2. ~May("late") BY DEF Orderly, May
<1>3. ASSUME NEW p \in Processors, Handle(p) PROVE OnlineRows(s)' # {}
  <2>1. Work(p) BY <1>3 DEF Handle
  <2>2. job[p] = Packet("Start", s)
    <3>1. SUFFICES ASSUME job[p] # Packet("Start", s) PROVE Starting(s)'
      OBVIOUS
    <3>2. CASE Packet("Start", s) \in net
      BY <1>1, <2>1, <3>1, <3>2, WorkTakesItsPacket DEF Starting
    <3>3. ASSUME NEW q \in Processors, job[q] = Packet("Start", s) PROVE Starting(s)'
      BY <1>1, <2>1, <3>1, <3>3, WorkIsLocal DEF Starting
    <3> QED BY <3>2, <3>3 DEF Starting
  <2>3. Inserting(p)
    <3>1. job'[p] # job[p] BY <2>2 DEF Starting
    <3>2. job[p].type = "Start" BY <2>2 DEF Packet
    <3> QED BY <1>1, <2>1, <3>1, <3>2, OrderlyWork
            DEF Authorizing, Beginning, Looking, Goes, AliveReading, AliveWriting,
                AliveChecking, Stopping
  <2> QED BY <1>1, <2>2, <2>3 DEF Inserting, JobInv, OnlineRows, Packet, RowsOf, Rows
<1>4. ASSUME NEW p \in Processors, NEW m \in net, Take(p, m) PROVE Starting(s)'
  <2>1. /\ net' = net
        /\ \A q \in Processors : job'[q] = job[q] \/ job[q] = NoPacket
    BY <1>1, <1>4 DEF Take, Receive, JobInv, TypeOK
  <2> QED BY <2>1, PacketsDiffer DEF Starting
<1>5. CASE Crash
  <2>1. ~May("repeats") BY <1>1, <1>5 DEF Crash, ServerInv, TypeOK
  <2> QED BY <1>1, <1>5, <2>1 DEF Crash, ServerInv, Starting
<1>6. ASSUME UNCHANGED job, Packet("Start", s) \in net => Packet("Start", s) \in net'
      PROVE  Starting(s)'
  BY <1>6 DEF Starting
<1>7. CASE Nas
  <2>1. \A m \in net : ~NasGivesUp(m) BY <1>2 DEF NasGivesUp, GiveUp
  <2> QED BY <1>6, <1>7, <2>1 DEF Nas, NasAlive, SendAlive, Dial, HangUp, Remote
<1>8. ASSUME NEW t \in Sids, KillerRuns(t) PROVE Starting(s)'
  BY <1>6, <1>8 DEF KillerRuns, HangUp
<1>9. CASE UNCHANGED <<job, net>>
  BY <1>6, <1>9
<1> QED BY <1>3, <1>4, <1>5, <1>7, <1>8, <1>9
        DEF Next, Set, Step, vars, Tick, Refuse, WebSite, Processor, Server,
            KillInactiveUsers, RestartKillInactive, RestartRestore

\* The sessions of the register that a step of the sessions leaves as they are.
LEMMA SamePhases ==
  ASSUME \A s \in Sids :
           /\ OnlineRows(s)' # {} <=> OnlineRows(s) # {}
           /\ link'[s] \in {"idle", "asked"} \/ Starting(s)'
                <=> link[s] \in {"idle", "asked"} \/ Starting(s)
  PROVE  phase' = phase
BY DEF phase

\* The phase of a session that has its Start under way, or a row.
LEMMA PhaseOf ==
  ASSUME LinkInv, NEW s \in Sids
  PROVE  /\ OnlineRows(s) # {} => phase[s] = "online" /\ linkPhase[s] # "before"
         /\ Starting(s) => /\ linkPhase[s] # "before"
                           /\ phase[s] = IF OnlineRows(s) # {} THEN "online" ELSE "expected"
         /\ linkPhase[s] = "up" <=> link[s] = "up"
BY DEF LinkInv, Starting, phase, linkPhase

\* A link that goes down.
LEMMA HangsUpRefines ==
  ASSUME TypeOK, NEW s \in Sids, HangsUp(s)
  PROVE  Register!GoDown(s)
<1>1. \A x \in Sids : Starting(x)' <=> Starting(x)
  BY DEF HangsUp, Starting
<1>2. \A x \in Sids : OnlineRows(x)' = OnlineRows(x)
  BY DEF HangsUp, OnlineRows
<1>3. \A x \in Sids : link'[x] = IF x = s THEN "down" ELSE link[x]
  BY DEF HangsUp, TypeOK
<1>4. phase' = phase
  BY <1>1, <1>2, <1>3, SamePhases DEF HangsUp
<1>5. linkPhase[s] = "up" BY DEF HangsUp, linkPhase
<1>6. linkPhase' = [linkPhase EXCEPT ![s] = "after"]
  BY <1>3 DEF linkPhase
<1> QED BY <1>4, <1>5, <1>6 DEF Register!GoDown

\* A link that comes up: its Start is sent.
LEMMA ComesUpRefines ==
  ASSUME TypeOK, LinkInv, NEW s \in Sids, ComesUp(s)
  PROVE  Register!ComeUp(s)
<1>1. \A x \in Sids : Starting(x)' <=> Starting(x) \/ x = s
  <2>1. \A p \in Processors, x \in Sids :
          job'[p] = Packet("Start", x) <=> job[p] = Packet("Start", x)
    BY PacketsDiffer DEF ComesUp, Settles
  <2>2. \A x \in Sids :
          Packet("Start", x) \in net' <=> Packet("Start", x) \in net \/ x = s
    BY PacketsDiffer DEF ComesUp
  <2> QED BY <2>1, <2>2 DEF Starting
<1>2. \A x \in Sids : OnlineRows(x)' = OnlineRows(x)
  BY DEF ComesUp, OnlineRows
<1>3. link[s] = "asked" /\ \A x \in Sids : link'[x] = IF x = s THEN "up" ELSE link[x]
  BY DEF ComesUp, TypeOK
<1>4. phase' = phase
  BY <1>1, <1>2, <1>3, SamePhases
<1>5. linkPhase[s] = "before" BY <1>3 DEF linkPhase
<1>6. linkPhase' = [linkPhase EXCEPT ![s] = "up"]
  BY <1>3 DEF linkPhase
<1> QED BY <1>4, <1>5, <1>6 DEF Register!ComeUp

\* A row that is opened: the session enters, unless it has another one.
LEMMA OpensRefines ==
  ASSUME TypeOK, LinkInv, NEW p \in Processors, Opens(p)
  PROVE  \/ \E s \in Sids : Register!Enter(s)
         \/ UNCHANGED <<phase, linkPhase>>
<1>1. PICK s \in Sids : s = job[p].sid
  BY PacketsDiffer DEF Opens, RowsOf, Rows
<1>2. Starting(s) BY <1>1 DEF Opens, Starting
<1>3. \A x \in Sids : x # s => (Starting(x)' <=> Starting(x))
  <2>1. \A x \in Sids : x # s => job[p] # Packet("Start", x)
    BY <1>1, PacketsDiffer DEF Opens
  <2>2. \A x \in Sids, q \in Processors :
          x # s => (job'[q] = Packet("Start", x) <=> job[q] = Packet("Start", x))
    BY <2>1, PacketsDiffer DEF Opens, TypeOK
  <2>3. \A x \in Sids :
          x # s => (Packet("Start", x) \in net' <=> Packet("Start", x) \in net)
    BY <2>1 DEF Opens
  <2> QED BY <2>2, <2>3 DEF Starting
<1>4. \A x \in Sids : x # s => OnlineRows(x)' = OnlineRows(x)
  BY <1>1 DEF Opens, OnlineRows, RowsOf
<1>5. OnlineRows(s)' # {}
  BY <1>1 DEF Opens, OnlineRows, RowsOf
<1>6. link' = link /\ linkPhase' = linkPhase
  BY DEF Opens, linkPhase
<1>7. phase' = [x \in Sids |-> IF x = s THEN "online" ELSE phase[x]]
  BY <1>3, <1>4, <1>5, <1>6 DEF phase
<1>8. CASE OnlineRows(s) # {}
  <2>1. phase' = phase
    BY <1>5, <1>7, <1>8 DEF phase
  <2> QED BY <1>6, <2>1
<1>9. CASE OnlineRows(s) = {}
  <2>1. phase[s] = "expected" /\ linkPhase[s] # "before"
    BY <1>2, <1>9, PhaseOf
  <2>2. phase' = [phase EXCEPT ![s] = "online"]
    BY <1>7 DEF phase
  <2> QED BY <1>6, <2>1, <2>2 DEF Register!Enter
<1> QED BY <1>8, <1>9

\* Rows that are closed, and Starts that come to nothing.
LEMMA EbbRefines ==
  ASSUME SessionInv, Orderly => OrderlyInv, [Next]_vars, Ebb
  PROVE  \E S \in SUBSET Sids :
           Register!Miss(S) \/ (\E R \in SUBSET S : Register!Close(S, R))
             \/ UNCHANGED <<phase, linkPhase>>
<1> DEFINE Ended(s) == Starting(s) /\ ~Starting(s)'
           Closed == {s \in Sids : OnlineRows(s) # {} /\ OnlineRows(s)' = {}}
           Again == {s \in Closed : Starting(s)}
           Missed == {s \in Sids : Ended(s) /\ OnlineRows(s) = {}}
<1>1. TypeOK /\ LinkInv /\ StartInv BY DEF SessionInv
<1>2. link' = link /\ linkPhase' = linkPhase
  BY DEF Ebb, linkPhase
<1>3. CASE UNCHANGED <<net, job>>
  <2>1. \A s \in Sids : Starting(s)' <=> Starting(s)
    BY <1>3 DEF Starting
  <2>2. \A s \in Sids : OnlineRows(s)' \subseteq OnlineRows(s)
    BY DEF Ebb, OnlineRows
  <2>3. \A s \in Closed : phase[s] = "online" /\ link[s] \notin {"idle", "asked"}
    BY <1>1, PhaseOf DEF LinkInv
  <2>4. \A s \in Closed : Orderly => linkPhase[s] # "up"
    BY <1>1, UpStaysOnline, PhaseOf
  <2>5. Again # {} => May("repeats")
    BY <1>1 DEF StartInv, Starting
  <2>6. phase' = [s \in Sids |-> IF s \in Again THEN "expected"
                                 ELSE IF s \in Closed THEN "closed" ELSE phase[s]]
    BY <1>2, <2>1, <2>2, <2>3 DEF phase
  <2>7. Register!Close(Closed, Again)
    <3> HIDE DEF Closed, Again
    <3> QED BY <1>2, <2>3, <2>4, <2>5, <2>6 DEF Register!Close
  <2> QED BY <2>7
<1>4. CASE online' = online
  <2>1. \A s \in Sids : Starting(s)' => Starting(s)
    BY PacketsDiffer DEF Ebb, Starting
  <2>2. \A s \in Sids : OnlineRows(s)' = OnlineRows(s)
    BY <1>4 DEF OnlineRows
  <2>3. \A s \in Missed : phase[s] = "expected" /\ linkPhase[s] # "before"
    BY <1>1, PhaseOf
  <2>4. \A s \in Missed : link[s] \notin {"idle", "asked"}
    BY <1>1 DEF LinkInv, Starting
  <2>5. phase' = [s \in Sids |-> IF s \in Missed THEN "closed" ELSE phase[s]]
    BY <1>2, <2>1, <2>2, <2>4 DEF phase
  <2>6. CASE ~Orderly
    <3>1. Register!Miss(Missed)
      <4> HIDE DEF Missed
      <4> QED BY <1>2, <2>3, <2>5, <2>6 DEF Register!Miss
    <3> QED BY <3>1
  <2>7. CASE Orderly
    <3>1. Missed = {}
      BY <2>2, <2>7, StartEndsOnline
    <3>2. phase' = phase
      BY <2>5, <3>1 DEF phase
    <3> QED BY <1>2, <3>2
  <2> QED BY <2>6, <2>7
<1> QED BY <1>3, <1>4 DEF Ebb

\* Every step is one of the register, or none.
LEMMA StepRefines ==
  ASSUME SessionInv, Orderly => OrderlyInv, [Next]_vars
  PROVE  [Register!Next]_(Register!registerVars)
<1>1. /\ TypeOK /\ JobInv /\ LinkInv
      /\ SessionStep /\ setting' = setting
  BY StepIsSessionStep DEF SessionInv
<1>2. UNCHANGED <<Orderly, May("repeats")>>
  BY <1>1 DEF Orderly, May
<1>3. CASE Ebb
  BY <1>2, <1>3, EbbRefines DEF Register!Next, Register!registerVars
<1>4. ASSUME NEW s \in Sids, HangsUp(s) PROVE Register!Next
  BY <1>1, <1>2, <1>4, HangsUpRefines DEF Register!Next
<1>5. ASSUME NEW s \in Sids, ComesUp(s) PROVE Register!Next
  BY <1>1, <1>2, <1>5, ComesUpRefines DEF Register!Next
<1>6. ASSUME NEW p \in Processors, Opens(p)
      PROVE  [Register!Next]_(Register!registerVars)
  BY <1>1, <1>2, <1>6, OpensRefines DEF Register!Next, Register!registerVars
<1>7. ASSUME NEW s \in Sids, Asks(s) \/ Refuses(s)
      PROVE  UNCHANGED <<phase, linkPhase>>
  <2>1. \A x \in Sids : Starting(x)' <=> Starting(x)
    BY <1>7, PacketsDiffer DEF Asks, Refuses, Settles, Starting
  <2>2. \A x \in Sids : OnlineRows(x)' = OnlineRows(x)
    BY <1>7 DEF Asks, Refuses, OnlineRows
  <2>3. \A x \in Sids : \/ link'[x] = link[x]
                        \/ {link[x], link'[x]} \subseteq {"idle", "asked"}
    BY <1>1, <1>7 DEF Asks, Refuses, TypeOK
  <2>4. linkPhase' = linkPhase BY <2>3 DEF linkPhase
  <2> QED BY <2>1, <2>2, <2>3, <2>4, SamePhases
<1>8. ASSUME NEW p \in Processors, NEW m \in net, Takes(p, m)
      PROVE  UNCHANGED <<phase, linkPhase>>
  <2>1. \A q \in Processors : job'[q] = job[q] \/ (job[q] = NoPacket /\ job'[q] = m)
    BY <1>1, <1>8 DEF Takes, TypeOK
  <2>2. \A x \in Sids : Starting(x)' <=> Starting(x)
    BY <1>8, <2>1, PacketsDiffer DEF Takes, Starting
  <2>3. UNCHANGED <<link, online>> BY <1>8 DEF Takes
  <2> QED BY <2>2, <2>3, SamePhases DEF linkPhase, OnlineRows
<1>9. ASSUME UNCHANGED <<phase, linkPhase>> PROVE UNCHANGED Register!registerVars
  BY <1>2, <1>9 DEF Register!registerVars
<1> QED BY <1>1, <1>3, <1>4, <1>5, <1>6, <1>7, <1>8, <1>9 DEF SessionStep

\* The rows that are Online implement the register of the sessions: whatever
\* fails, races, is late or restarts, a row is opened only for a session whose
\* link came up, and not again once the session is out and no Start of it is
\* left; when packets are handled in time, no session is missed, and none is
\* taken out while it is up.
THEOREM AccountingImplementsRegister == Spec => RegisterSpec
<1>1. Init => Register!Init
  <2> SUFFICES ASSUME Init PROVE Register!Init
    OBVIOUS
  <2>1. \A s \in Sids : OnlineRows(s) = {} /\ ~Starting(s) /\ link[s] = "idle"
    BY DEF Init, OnlineRows, Starting, NoPacket, Packet
  <2>2. phase = [s \in Sids |-> "expected"] /\ linkPhase = [s \in Sids |-> "before"]
    BY <2>1 DEF phase, linkPhase
  <2>3. Orderly \in BOOLEAN /\ May("repeats") \in BOOLEAN
    BY DEF Orderly, May
  <2> QED BY <2>2, <2>3 DEF Register!Init
<1>2. SessionInv /\ (Orderly => OrderlyInv) /\ [Next]_vars
        => [Register!Next]_(Register!registerVars)
  BY StepRefines
<1> QED BY <1>1, <1>2, SessionInvariant, OrderlyInvariant, PTL
        DEF Spec, RegisterSpec, Register!Spec

=============================================================================
