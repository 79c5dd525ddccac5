---------------------------- MODULE DBConnection ----------------------------
(***************************************************************************)
(* The one JDBC connection that every thread of CADBiS_proxy shares        *)
(* (cadbis.db.DBConnection) and the daemon that replaces it every          *)
(* reconf_period (cadbis.proxy.Reconfigurer).                              *)
(*                                                                         *)
(* AbstractDAO.execSql and AbstractDAO.getResultSet first test the field   *)
(* for null and read it again, without a lock, to create the statement.    *)
(* Reconnect closes the connection, nulls the field and connects again,    *)
(* all while other threads are between those two reads.  A statement has   *)
(* therefore three outcomes: it is executed, ignored, or throws.           *)
(* Reconnect and the constructor of every DAO (DBConnection.getInstance)   *)
(* exclude each other by the monitor dcLock, so a thread that creates a    *)
(* DAO waits for a Reconnect under way.                                    *)
(***************************************************************************)

CONSTANT DbReconnect    \* property db_reconnect of cadbis_proxy.properties

ASSUME DbReconnectAssumption == DbReconnect \in BOOLEAN

VARIABLES
  conn,       \* the field DBConnection.connection
  reconf,     \* where the Reconfigurer is inside Reconnect
  checked     \* the thread that holds wLock has seen a connection that is
              \* not null and has not yet created its statement

dbVars == <<conn, reconf>>

ConnStates == {"open", "closed", "null"}
ReconfPoints == {"idle", "close", "forget", "connect"}

DBTypeOK ==
  /\ conn \in ConnStates
  /\ reconf \in ReconfPoints
  /\ checked \in BOOLEAN

DBInit ==
  /\ conn = "open"
  /\ reconf = "idle"
  /\ checked = FALSE

-----------------------------------------------------------------------------
(* The Reconfigurer *)

ReconnectBegin ==
  /\ DbReconnect
  /\ reconf = "idle"
  /\ reconf' = "close"
  /\ UNCHANGED conn

ReconnectClose ==
  /\ reconf = "close"
  /\ reconf' = "forget"
  /\ conn' = IF conn = "null" THEN "null" ELSE "closed"

\* close() throws: Reconnect returns false and the field keeps its value.
ReconnectCloseFails ==
  /\ reconf = "close"
  /\ conn # "null"
  /\ reconf' = "idle"
  /\ UNCHANGED conn

ReconnectForget ==
  /\ reconf = "forget"
  /\ reconf' = "connect"
  /\ conn' = "null"

\* Connect() logs every exception: the field stays null until the next period.
ReconnectConnect ==
  /\ reconf = "connect"
  /\ reconf' = "idle"
  /\ conn' \in {"open", "null"}

Reconfigure ==
  \/ ReconnectBegin
  \/ ReconnectClose
  \/ ReconnectCloseFails
  \/ ReconnectForget
  \/ ReconnectConnect

-----------------------------------------------------------------------------
(* One statement of a thread; c says whether it has seen a connection *)

Executed(c) == c /\ conn = "open"

\* Nothing happened and nobody is told: no connection at the test (return),
\* or an SQLException on a closed one (logged).
Ignored(c) == IF c THEN conn = "closed" ELSE conn = "null"

\* getConnection().createStatement() on null: the NullPointerException is
\* not an SQLException and leaves the DAO.
Throws(c) == c /\ conn = "null"

(* A statement of the thread that holds wLock *)

\* The constructor of a DAO gets through getInstance().
NewDAO == reconf = "idle"

\* dataAccess.getConnection() == null is false: go on to createStatement().
SqlCheck ==
  /\ ~checked
  /\ conn # "null"
  /\ checked' = TRUE

SqlExecuted == Executed(checked)
SqlIgnored == Ignored(checked)
SqlThrows == Throws(checked)

=============================================================================
