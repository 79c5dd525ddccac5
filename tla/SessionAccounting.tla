-------------------------- MODULE SessionAccounting --------------------------
(***************************************************************************)
(* Session accounting for RADIUS: cadbis.CADBiS and                        *)
(* cadbis.jradius.CADBiSHandler.  The processors of the JRadius server     *)
(* handle the packets of the NAS, several at a time and without a lock;    *)
(* the table `actions` has a row per session, `Online` as long as the user *)
(* is believed to be connected, and a daemon closes the rows that nobody   *)
(* reports alive.                                                          *)
(*                                                                         *)
(* The NAS and the network are external, modelled from what the handler    *)
(* relies on: a packet is sent again until it is answered, so that it may  *)
(* be handled twice, also by two processors at once.                       *)
(***************************************************************************)
EXTENDS Naturals, FiniteSets

CONSTANTS
  Sids,             \* Acct-Session-Id
  Users,            \* logins
  LoginOf,          \* User-Name of a session
  Processors,       \* threads of the listener (processor-threads)
  MaxRows,          \* bound: rows a session has in use at a time
  NoRow,            \* no entry in activeSessions
  WebTimeout,       \* the ten minutes of the web site, in ticks
  RefusedUsers,     \* users who may be blocked or run into a limit
  Settings          \* what is configured and what may happen

Setting ==
  [sids : SUBSET Sids,              \* sessions that are begun
   processors : SUBSET Processors,  \* processor-threads
   simultaneousUse : Nat,           \* users.simultaneous_use
   portLimit : Nat,                 \* packets.port_limit of the tariff, or 0
   timeout : Nat,                   \* session_maxinacct_time, in ticks
   crashes : Nat,                   \* bound: crashes of the server
   events : SUBSET {"repeats",      \* answers get lost: packets come again
                    "races",        \* accesses to activeSessions coincide
                    "failures",     \* statements fail (see DBConnection)
                    "closing",      \* administrators close rows
                    "late"}]        \* packets and Alives may be late or lost

ASSUME SessionAssumption ==
  /\ LoginOf \in [Sids -> Users]
  /\ MaxRows \in Nat \ {0}
  /\ NoRow \notin Sids \X (1..MaxRows)
  /\ WebTimeout \in Nat
  /\ RefusedUsers \subseteq Users
  /\ \A x \in Settings : x \in Setting

VARIABLES
  setting,          \* constant in every behaviour
  link,             \* external: what the NAS does for a session
  net,              \* external: packets sent and not yet answered
  silent,           \* external: ticks since the NAS sent an Alive
  online,           \* rows of `actions` whose terminate_cause is Online
  age,              \* ticks since last_change of a row that is Online
  refused,          \* users whom the checks of the user alone refuse
  activeSessions,   \* the map CADBiS.activeSessions, NoRow where no key
  server,           \* the process
  daemon,           \* the thread of CADBiS
  crashes,          \* crashes to come
  pc,               \* where a processor is
  job,              \* the packet it handles
  uid,              \* its local variable uniqueId
  killing           \* kill programs under way: the session, and who runs it

nasVars == <<link, net, silent>>
rowVars == <<online, age>>
procVars == <<pc, job, uid>>
serverVars == <<server, daemon, crashes>>
vars == <<setting, nasVars, rowVars, refused, activeSessions, serverVars,
          procVars, killing>>

Timeout == setting.timeout
May(event) == event \in setting.events

\* unique_id is made of the session id and the time of the Start.  A number
\* is taken again when nothing refers to the row any more.
Rows == Sids \X (1..MaxRows)
RowsOf(s) == {x \in Rows : x[1] = s}

Packets == [type : {"authorize", "Start", "Alive", "Stop"}, sid : Sids]
PacketsOf(s) == {m \in Packets : m.sid = s}
Packet(t, s) == [type |-> t, sid |-> s]
NoPacket == [type |-> "none"]

Killers == {"server", "web"}

ProcPoints == {"idle", "exists", "lookup", "insert", "update", "user",
               "connected", "usage", "password", "stop", "remove"}

TypeOK ==
  /\ setting \in Settings
  /\ link \in [Sids -> {"idle", "asked", "up", "down"}]
  /\ net \in SUBSET Packets
  /\ silent \in [Sids -> 0..Timeout]
  /\ online \in SUBSET Rows
  /\ age \in [Rows -> 0..(Timeout + 1)]
  /\ refused \in SUBSET RefusedUsers
  /\ activeSessions \in [Sids -> Rows \cup {NoRow}]
  /\ server \in {"running", "starting", "restoring"}
  /\ daemon \in {"alive", "dead"}
  /\ crashes \in 0..setting.crashes
  /\ pc \in [Processors -> ProcPoints]
  /\ job \in [Processors -> Packets \cup {NoPacket}]
  /\ uid \in [Processors -> Rows \cup {NoRow}]
  /\ killing \in SUBSET (Sids \X Killers)

Init ==
  /\ setting \in Settings
  /\ link = [s \in Sids |-> "idle"]
  /\ net = {}
  /\ silent = [s \in Sids |-> 0]
  /\ online = {}
  /\ age = [x \in Rows |-> 0]
  /\ refused = {}
  /\ activeSessions = [s \in Sids |-> NoRow]
  /\ server = "running"
  /\ daemon = "alive"
  /\ crashes = setting.crashes
  /\ pc = [p \in Processors |-> "idle"]
  /\ job = [p \in Processors |-> NoPacket]
  /\ uid = [p \in Processors |-> NoRow]
  /\ killing = {}

-----------------------------------------------------------------------------
(* External: the NAS, the network, time and administrators *)

Dial(s) ==
  /\ link[s] = "idle"
  /\ s \in setting.sids
  /\ link' = [link EXCEPT ![s] = "asked"]
  /\ net' = net \cup {Packet("authorize", s)}
  /\ UNCHANGED silent

\* Interim updates begin when the Start is answered.
SendAlive(s) ==
  /\ link[s] = "up"
  /\ Packet("Start", s) \notin net
  /\ net' = net \cup {Packet("Alive", s)}
  /\ silent' = [silent EXCEPT ![s] = 0]
  /\ UNCHANGED link

HangUp(s) ==
  /\ link[s] = "up"
  /\ link' = [link EXCEPT ![s] = "down"]
  /\ net' = net \cup {Packet("Stop", s)}
  /\ silent' = [silent EXCEPT ![s] = 0]

\* The NAS stops repeating a packet that nobody answers.
GiveUp(m) ==
  /\ May("late")
  /\ m \in net
  /\ net' = net \ {m}
  /\ link' = IF m.type = "authorize" THEN [link EXCEPT ![m.sid] = "idle"]
                                     ELSE link
  /\ UNCHANGED silent

\* The NAS changes nothing of the server.
Remote ==
  UNCHANGED <<rowVars, refused, activeSessions, serverVars, procVars, killing>>

NasAlive(s) == SendAlive(s) /\ Remote
NasGivesUp(m) == GiveUp(m) /\ Remote

Nas ==
  \/ \E s \in Sids : NasAlive(s) \/ ((Dial(s) \/ HangUp(s)) /\ Remote)
  \/ \E m \in net : NasGivesUp(m)

InTime(s) ==
  link[s] = "up" =>
    /\ silent[s] < Timeout
    /\ Packet("Start", s) \notin net
    /\ Packet("Alive", s) \notin net
    /\ \A p \in Processors : job[p] \notin PacketsOf(s)

Older(n, limit) == IF n < limit THEN n + 1 ELSE n

Tick ==
  /\ ~May("late") => \A s \in Sids : InTime(s)
  /\ silent' = [s \in Sids |->
                 IF link[s] = "up" THEN Older(silent[s], Timeout) ELSE silent[s]]
  /\ age' = [x \in Rows |->
              IF x \in online THEN Older(age[x], Timeout + 1) ELSE age[x]]
  /\ UNCHANGED <<link, net, online, refused, activeSessions, serverVars,
                 procVars, killing>>

\* An administrator blocks a user, or a limit is reached; and the reverse.
Refuse(u) ==
  /\ u \in RefusedUsers
  /\ refused' = IF u \in refused THEN refused \ {u} ELSE refused \cup {u}
  /\ UNCHANGED <<nasVars, rowVars, activeSessions, serverVars, procVars, killing>>

Close(S) ==
  /\ online' = online \ S
  /\ age' = [x \in Rows |-> IF x \in S THEN 0 ELSE age[x]]

\* Mutant: the comparison the wrong way round.
InactiveReversed(limit) == {x \in online : age[x] < limit}

Inactive(limit) == {x \in online : age[x] > limit}

\* The page of the users on line closes the inactive rows when it is opened,
\* and kills a session on demand.
WebKillInactiveUsers ==
  /\ May("closing")
  /\ Close(Inactive(WebTimeout))
  /\ UNCHANGED killing

WebKillUser(s) ==
  /\ May("closing")
  /\ online \cap RowsOf(s) # {}
  /\ Close(online \cap RowsOf(s))
  /\ killing' = killing \cup {<<s, "web">>}

WebSite ==
  /\ WebKillInactiveUsers \/ \E s \in Sids : WebKillUser(s)
  /\ UNCHANGED <<nasVars, refused, activeSessions, serverVars, procVars>>

\* kill.pl closes the bundle of the port.
KillerRuns(s) ==
  /\ \E by \in Killers :
       <<s, by>> \in killing /\ killing' = killing \ {<<s, by>>}
  /\ IF link[s] = "up" THEN HangUp(s) ELSE UNCHANGED nasVars
  /\ UNCHANGED <<rowVars, refused, activeSessions, serverVars, procVars>>

-----------------------------------------------------------------------------
(* Answers *)

Done(p) ==
  /\ pc' = [pc EXCEPT ![p] = "idle"]
  /\ job' = [job EXCEPT ![p] = NoPacket]
  /\ uid' = [uid EXCEPT ![p] = NoRow]

Goto(p, point) == pc' = [pc EXCEPT ![p] = point] /\ UNCHANGED <<job, uid>>

\* The answer reaches the NAS or, with "repeats", gets lost.
Answer(p) ==
  /\ Done(p)
  /\ net' = net \ {job[p]} \/ (May("repeats") /\ UNCHANGED net)
  /\ UNCHANGED <<link, silent>>

\* An exception: RLM_MODULE_FAIL, which is no answer to the NAS.
Fail(p) == Done(p) /\ UNCHANGED nasVars

Reject(p) ==
  LET s == job[p].sid
  IN  /\ Done(p)
      /\ net' = net \ {job[p]}
      /\ link' = IF link[s] = "asked" THEN [link EXCEPT ![s] = "idle"] ELSE link
      /\ UNCHANGED silent

\* Access-Accept: the link comes up and the NAS reports it.
Accept(p) ==
  LET s == job[p].sid
  IN  /\ Done(p)
      /\ IF link[s] = "asked"
           THEN /\ link' = [link EXCEPT ![s] = "up"]
                /\ net' = (net \ {job[p]}) \cup {Packet("Start", s)}
           ELSE UNCHANGED <<link, net>>
      /\ UNCHANGED silent

-----------------------------------------------------------------------------
(* CADBiSHandler.handle.  A step of a processor ends with a statement; the *)
(* memory it changes before the next statement belongs to the step.        *)

Receive(p, m) ==
  /\ server = "running"
  /\ p \in setting.processors
  /\ pc[p] = "idle"
  /\ m \in net
  /\ May("repeats") \/ \A q \in Processors : job[q] # m
  /\ pc' = [pc EXCEPT ![p] = "exists"]
  /\ job' = [job EXCEPT ![p] = m]
  /\ UNCHANGED <<nasVars, rowVars, activeSessions, uid, killing>>

\* isUserExists: without a connection it counts no user, and the packet is
\* answered as it is.
UserNotFound(p) ==
  /\ pc[p] = "exists"
  /\ May("failures")
  /\ IF job[p].type = "authorize" THEN Reject(p) \/ Fail(p)
                                  ELSE Answer(p) \/ Fail(p)
  /\ UNCHANGED <<rowVars, activeSessions, killing>>

Authorize(p) ==
  /\ pc[p] = "exists"
  /\ job[p].type = "authorize"
  /\ Goto(p, "user")
  /\ UNCHANGED <<nasVars, rowVars, activeSessions, killing>>

\* generateUniqueId
Unused(s) ==
  {x \in RowsOf(s) : x \notin online /\ \A q \in Processors : uid[q] # x}
NewRow(s) == CHOOSE x \in Unused(s) : \A y \in Unused(s) : x[2] <= y[2]

\* activeSessions is a HashMap without a lock.  When another thread is about to
\* use it, a change may be lost, and an entry may be gone between the calls of
\* containsKey and get: the null that is returned throws.
Racing(p) ==
  /\ May("races")
  /\ \E q \in Processors \ {p} :
       job[q] # NoPacket /\ job[q].type # "authorize" /\ pc[q] \in {"exists", "remove"}

MapPut(p, s, x) ==
  \/ activeSessions' = [activeSessions EXCEPT ![s] = x]
  \/ Racing(p) /\ UNCHANGED activeSessions

\* SessionStart.  The test for an old entry looks for the key uniqueId, which
\* is new: nothing is removed and the new row replaces the old one.
SessionStart(p) ==
  LET s == job[p].sid
  IN  /\ pc[p] = "exists"
      /\ job[p].type = "Start"
      /\ Unused(s) # {}
      /\ uid' = [uid EXCEPT ![p] = NewRow(s)]
      /\ MapPut(p, s, NewRow(s))
      /\ pc' = [pc EXCEPT ![p] = "lookup"]
      /\ UNCHANGED <<job, nasVars, rowVars, killing>>

\* A user that is not read is null: the format of the insert throws.
StartLookup(p) ==
  /\ pc[p] = "lookup"
  /\ \/ Goto(p, "insert") /\ UNCHANGED nasVars
     \/ May("failures") /\ Fail(p)
  /\ UNCHANGED <<rowVars, activeSessions, killing>>

\* Mutant: something throws when the row is in the table.
StartInsertThrowsLate(p) ==
  /\ pc[p] = "insert"
  /\ \/ /\ online' = online \cup {uid[p]}
        /\ age' = [age EXCEPT ![uid[p]] = 0]
        /\ Answer(p) \/ (May("failures") /\ Fail(p))
     \/ May("failures") /\ Answer(p) /\ UNCHANGED rowVars
  /\ UNCHANGED <<activeSessions, killing>>

StartInsert(p) ==
  /\ pc[p] = "insert"
  /\ \/ /\ online' = online \cup {uid[p]}
        /\ age' = [age EXCEPT ![uid[p]] = 0]
        /\ Answer(p)
     \/ May("failures") /\ (Answer(p) \/ Fail(p)) /\ UNCHANGED rowVars
  /\ UNCHANGED <<activeSessions, killing>>

\* getUniqueId: SessionAlive does nothing for a session it does not know.
SessionAlive(p) ==
  LET s == job[p].sid
  IN  /\ pc[p] = "exists"
      /\ job[p].type = "Alive"
      /\ \/ activeSessions[s] = NoRow /\ Answer(p)
         \/ /\ activeSessions[s] # NoRow
            /\ uid' = [uid EXCEPT ![p] = activeSessions[s]]
            /\ pc' = [pc EXCEPT ![p] = "update"]
            /\ UNCHANGED <<job, nasVars>>
         \/ Racing(p) /\ Fail(p)
      /\ UNCHANGED <<rowVars, activeSessions, killing>>

\* Mutant: the counters are written, but not last_change.
AliveUpdateCountersOnly(p) ==
  /\ pc[p] = "update"
  /\ Goto(p, "user")
  /\ UNCHANGED <<nasVars, rowVars, activeSessions, killing>>

\* Mutant: an Alive makes the row Online again.
AliveUpdateReopens(p) ==
  /\ pc[p] = "update"
  /\ \/ /\ Goto(p, "user")
        /\ online' = online \cup {uid[p]}
        /\ age' = [age EXCEPT ![uid[p]] = 0]
        /\ UNCHANGED nasVars
     \/ May("failures") /\ Goto(p, "user") /\ UNCHANGED <<rowVars, nasVars>>
     \/ May("failures") /\ Fail(p) /\ UNCHANGED rowVars
  /\ UNCHANGED <<activeSessions, killing>>

\* last_change is now, whatever the terminate_cause.
AliveUpdate(p) ==
  /\ pc[p] = "update"
  /\ \/ Goto(p, "user") /\ age' = [age EXCEPT ![uid[p]] = 0] /\ UNCHANGED nasVars
     \/ May("failures") /\ Goto(p, "user") /\ UNCHANGED <<age, nasVars>>
     \/ May("failures") /\ Fail(p) /\ UNCHANGED age
  /\ UNCHANGED <<online, activeSessions, killing>>

SessionStop(p) ==
  LET s == job[p].sid
  IN  /\ pc[p] = "exists"
      /\ job[p].type = "Stop"
      /\ \/ /\ uid' = [uid EXCEPT ![p] = activeSessions[s]]
            /\ pc' = [pc EXCEPT ![p] = IF activeSessions[s] = NoRow
                                         THEN "remove" ELSE "stop"]
            /\ UNCHANGED <<job, nasVars>>
         \/ Racing(p) /\ Fail(p)
      /\ UNCHANGED <<rowVars, activeSessions, killing>>

StopUpdate(p) ==
  /\ pc[p] = "stop"
  /\ \/ Goto(p, "remove") /\ Close({uid[p]}) /\ UNCHANGED nasVars
     \/ May("failures") /\ Goto(p, "remove") /\ UNCHANGED <<rowVars, nasVars>>
     \/ May("failures") /\ Fail(p) /\ UNCHANGED rowVars
  /\ UNCHANGED <<activeSessions, killing>>

StopRemove(p) ==
  /\ pc[p] = "remove"
  /\ MapPut(p, job[p].sid, NoRow)
  /\ Answer(p)
  /\ UNCHANGED <<rowVars, killing>>

-----------------------------------------------------------------------------
(* CADBiS.checkAccessNow, for an authorization and for an Alive *)

Deny(p) ==
  IF job[p].type = "authorize"
    THEN Reject(p) /\ UNCHANGED killing
    ELSE Answer(p) /\ killing' = killing \cup {<<job[p].sid, "server">>}

Allow(p) ==
  /\ IF job[p].type = "authorize" THEN Goto(p, "password") /\ UNCHANGED nasVars
                                  ELSE Answer(p)
  /\ UNCHANGED killing

Continue(p, point) == Goto(p, point) /\ UNCHANGED <<nasVars, killing>>

\* Mutant: the limits are left to the authorization.
CheckUserOnce(p) ==
  /\ pc[p] = "user"
  /\ \/ /\ job[p].type = "authorize"
        /\ LoginOf[job[p].sid] \in refused
        /\ Deny(p)
     \/ /\ job[p].type = "authorize" => LoginOf[job[p].sid] \notin refused
        /\ Continue(p, IF job[p].type = "authorize" THEN "connected" ELSE "usage")
  /\ UNCHANGED <<rowVars, activeSessions>>

\* The user, the tariff and their statistics.  A tariff that is not read
\* denies; a user or statistics that are not read throw.  An exception between
\* the checks of the user (see CheckSimultaneousUse) skips those that remain.
CheckUser(p) ==
  /\ pc[p] = "user"
  /\ \/ LoginOf[job[p].sid] \in refused /\ Deny(p)
     \/ /\ LoginOf[job[p].sid] \notin refused
        /\ Continue(p, IF job[p].type = "authorize" THEN "connected" ELSE "usage")
     \/ May("failures") /\ Deny(p)
     \/ May("failures") /\ Fail(p) /\ UNCHANGED killing
     \/ May("failures") /\ job[p].type = "authorize" /\ Allow(p)
  /\ UNCHANGED <<rowVars, activeSessions>>

Connected(u) == {x \in online : LoginOf[x[1]] = u}

\* getConnectedCount and checkSimultaneous_use.  A count that is not read is
\* 0; an exception is caught and the access granted.
CheckSimultaneousUse(p) ==
  /\ pc[p] = "connected"
  /\ \/ \E n \in {Cardinality(Connected(LoginOf[job[p].sid]))}
                   \cup (IF May("failures") THEN {0} ELSE {}) :
          IF n >= setting.simultaneousUse THEN Deny(p) ELSE Continue(p, "usage")
     \/ May("failures") /\ Allow(p)
  /\ UNCHANGED <<rowVars, activeSessions>>

\* getPacketUsageCount and checkPacketUsage.
CheckPacketUsage(p) ==
  /\ pc[p] = "usage"
  /\ \/ IF setting.portLimit # 0 /\ setting.portLimit <= Cardinality(online)
          THEN Deny(p) ELSE Allow(p)
     \/ May("failures") /\ Allow(p)
  /\ UNCHANGED <<rowVars, activeSessions>>

ReadPassword(p) ==
  /\ pc[p] = "password"
  /\ Accept(p) \/ (May("failures") /\ (Reject(p) \/ Fail(p)))
  /\ UNCHANGED <<rowVars, activeSessions, killing>>

Work(p) ==
  \/ UserNotFound(p) \/ Authorize(p)
  \/ SessionStart(p) \/ StartLookup(p) \/ StartInsert(p)
  \/ SessionAlive(p) \/ AliveUpdate(p)
  \/ SessionStop(p) \/ StopUpdate(p) \/ StopRemove(p)
  \/ CheckUser(p) \/ CheckSimultaneousUse(p) \/ CheckPacketUsage(p)
  \/ ReadPassword(p)

Handle(p) == Work(p) /\ UNCHANGED <<refused, serverVars>>
Take(p, m) == Receive(p, m) /\ UNCHANGED <<refused, serverVars>>

Processor(p) == Handle(p) \/ \E m \in net : Take(p, m)

-----------------------------------------------------------------------------
(* The daemon of CADBiS and a restart of the server *)

\* Without a connection the statement throws or is ignored; an exception ends
\* the daemon.
KillInactiveUsers ==
  /\ server = "running"
  /\ daemon = "alive"
  /\ \/ Close(Inactive(Timeout)) /\ UNCHANGED daemon
     \/ May("failures") /\ daemon' = "dead" /\ UNCHANGED rowVars
  /\ UNCHANGED <<nasVars, refused, activeSessions, server, crashes, procVars,
                 killing>>

\* What the processors hold is lost; the NAS repeats it.
Crash ==
  /\ crashes > 0
  /\ crashes' = crashes - 1
  /\ server' = "starting"
  /\ daemon' = "alive"
  /\ activeSessions' = [s \in Sids |-> NoRow]
  /\ pc' = [p \in Processors |-> "idle"]
  /\ job' = [p \in Processors |-> NoPacket]
  /\ uid' = [p \in Processors |-> NoRow]
  /\ killing' = killing \ (Sids \X {"server"})
  /\ UNCHANGED <<nasVars, rowVars, refused>>

\* createObjects: the inactive rows are closed before the rest is restored.
RestartKillInactive ==
  /\ server = "starting"
  /\ server' = "restoring"
  /\ Close(Inactive(Timeout)) \/ (May("failures") /\ UNCHANGED rowVars)
  /\ UNCHANGED <<nasVars, refused, activeSessions, daemon, crashes, procVars,
                 killing>>

\* Of two rows of a session that are Online the last one read is restored.
Restorable(s) ==
  IF online \cap RowsOf(s) = {} THEN {NoRow} ELSE online \cap RowsOf(s)

\* Mutants: the map of the sessions is left empty, or filled the wrong way
\* round.
RestartForgets ==
  /\ server = "restoring"
  /\ server' = "running"
  /\ UNCHANGED <<nasVars, rowVars, refused, activeSessions, daemon, crashes,
                 procVars, killing>>

RestartRestoreSwapped ==
  /\ server = "restoring"
  /\ server' = "running"
  /\ activeSessions' = [x \in online |-> x[1]]
  /\ UNCHANGED <<nasVars, rowVars, refused, daemon, crashes, procVars, killing>>

RestartRestore ==
  /\ server = "restoring"
  /\ server' = "running"
  /\ \/ /\ activeSessions' \in [Sids -> Rows \cup {NoRow}]
        /\ \A s \in Sids : activeSessions'[s] \in Restorable(s)
     \/ May("failures") /\ UNCHANGED activeSessions
  /\ UNCHANGED <<nasVars, rowVars, refused, daemon, crashes, procVars, killing>>

Server == KillInactiveUsers \/ RestartKillInactive \/ RestartRestore

Step ==
  \/ Nas
  \/ Tick
  \/ \E u \in Users : Refuse(u)
  \/ WebSite
  \/ \E s \in Sids : KillerRuns(s)
  \/ \E p \in Processors : Processor(p)
  \/ Server
  \/ Crash

Set(A) == A /\ UNCHANGED setting

Next == Set(Step)

Spec == Init /\ [][Next]_vars

\* The threads of the server go on, it is started again, what NAS and kill
\* program have to do is done, and no Start or Alive is passed over for ever
\* (the listener queues the packets and a processor takes the oldest).
Fairness ==
  /\ \A p \in Processors : WF_vars(Set(Handle(p)))
  /\ \A t \in {"Start", "Alive"}, s \in Sids :
       SF_vars(Set(\E p \in Processors : Take(p, Packet(t, s))))
  /\ WF_vars(Set(KillInactiveUsers))
  /\ WF_vars(Set(RestartKillInactive))
  /\ WF_vars(Set(RestartRestore))
  /\ \A s \in Sids : WF_vars(Set(KillerRuns(s))) /\ WF_vars(Set(NasAlive(s)))
  /\ \A m \in Packets : WF_vars(Set(NasGivesUp(m)))
  /\ WF_vars(Set(Tick))

FairSpec == Spec /\ Fairness

-----------------------------------------------------------------------------
(* Properties *)

OnlineRows(s) == online \cap RowsOf(s)

\* The Start of a session waits, or a processor has it.
Starting(s) ==
  \/ Packet("Start", s) \in net
  \/ \E p \in Processors : job[p] = Packet("Start", s)

\* Packets are handled in time, and they come twice only to a server that does
\* not crash.
Orderly ==
  /\ setting.events \subseteq {"repeats"}
  /\ May("repeats") => setting.crashes = 0

\* A session that is up, and whose Start was answered, has a row that is
\* Online: repeated packets, the daemon that kills the inactive and a restart
\* never close the row of somebody who is reported alive in time.  Of the two
\* rows of a repeated Start a restart may restore the older one, so that
\* repeats and crashes are not claimed together.
UpIsOnline ==
  Orderly =>
    \A s \in Sids :
      link[s] = "up" /\ Packet("Start", s) \notin net => OnlineRows(s) # {}

\* However often a Start fails on the way and is repeated, no session has two
\* rows that are Online (and counts twice for the limits), as long as a packet
\* is not handled again that was already answered.
OneOnlineRow ==
  ~May("repeats") => \A s \in Sids : Cardinality(OnlineRows(s)) <= 1

\* The rows of a session that ended are closed sooner or later and for good,
\* though its Stop is lost, overtakes the Start, or meets a restart.
EndedIsClosed ==
  \A s \in Sids : link[s] = "down" ~> [](OnlineRows(s) = {})

\* A session whose user is blocked, or over a limit, is disconnected unless
\* the refusal is withdrawn: Alive packets reach the check, also after a
\* restart, while answers reach the NAS and statements work.
RefusedIsKilled ==
  \A s \in Sids :
    (link[s] = "up" /\ LoginOf[s] \in refused /\ setting.events = {})
      ~> (link[s] # "up" \/ LoginOf[s] \notin refused)

\* The register that the rows are for those who read them.
phase == [s \in Sids |->
  IF OnlineRows(s) # {} THEN "online"
  ELSE IF link[s] \in {"idle", "asked"} \/ Starting(s) THEN "expected"
  ELSE "closed"]

linkPhase == [s \in Sids |->
  IF link[s] \in {"idle", "asked"} THEN "before"
  ELSE IF link[s] = "up" THEN "up" ELSE "after"]

Register == INSTANCE SessionRegister
  WITH phase <- phase, link <- linkPhase, orderly <- Orderly, repeats <- May("repeats")

\* The accounting implements the register: whatever fails, races or restarts, a
\* row is opened only for a session that was accepted, and never again once it
\* was closed and no Start of the session is left; in order, no session is
\* missed, and none is closed while it is up.
RegisterSpec == Register!Spec

\* admin_add_user.php: simultaneous_use is the number of connections under one
\* login.
SimultaneousUseKept ==
  \A u \in Users :
    Cardinality({s \in Sids : link[s] = "up" /\ LoginOf[s] = u})
      <= setting.simultaneousUse

=============================================================================
