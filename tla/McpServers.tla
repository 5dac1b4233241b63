----------------------------- MODULE McpServers -----------------------------
(***************************************************************************)
(* The MCP server table and the connection test (services/mcp_service.py,  *)
(* api/mcp.py).  A configuration stands for the five connection fields     *)
(* (command, arguments, environment, URL, headers).  The test runs on the  *)
(* event loop and waits for the server with the per-server lock held;      *)
(* editing and deleting run in worker threads and look at the lock once.   *)
(* The verdict is stored behind the lock.  Names and set_enabled, which    *)
(* writes a column nothing here reads, are left out.                       *)
(***************************************************************************)
EXTENDS AgentReferences

CONSTANTS Configs, NoTest

VARIABLES
    server,   \* mcp_servers: id -> [config, status, tested]
    test      \* per id, the test in progress: [read, verdict], or NoTest

\* tested is the configuration of the last test (of the first one, before it).
Verdicts == {"success", "failed"}
Pending == "pending"

\* What the session of an edit or of a test keeps of the row it read.
Read(s) == [config |-> server[s].config, status |-> server[s].status]

\* is_testing: the lock of the server is held.
Testing(s) == test[s] # NoTest /\ test[s].verdict = Pending

CreateServer(w, c) ==
    /\ req[w] = NoReq /\ HasRoom(server, "server")
    /\ server' = Put(server, NextId(server),
                     [config |-> c, status |-> "untested", tested |-> c])
    /\ UNCHANGED <<test, req>>

\* update_server refuses while a test holds the lock.
BeginUpdateServer(w, s, c) ==
    /\ s \in DOMAIN server
    /\ ~ Testing(s)
    /\ Begin(w, [op |-> "update_server", id |-> s, config |-> c, seen |-> Read(s)])
    /\ UNCHANGED <<server, test>>

UpdateServerKeepingVerdict(w) ==                 \* mutant: config_changed forgotten
    /\ Serving(w, "update_server")
    /\ server' = IF req[w].id \in DOMAIN server
                 THEN [server EXCEPT ![req[w].id].config = req[w].config]
                 ELSE server
    /\ UNCHANGED test
    /\ Respond(w)

\* Only columns that differ from what was read are written.
UpdateServer(w) ==
    /\ Serving(w, "update_server")
    /\ LET s == req[w].id
           changed == req[w].config # req[w].seen.config
       IN  server' =
             IF ~ changed \/ s \notin DOMAIN server THEN server
             ELSE [server EXCEPT
                     ![s].config = req[w].config,
                     ![s].status = IF req[w].seen.status \in Verdicts
                                   THEN "config_changed" ELSE @]
    /\ UNCHANGED test
    /\ Respond(w)

BeginDeleteServer(w, s) ==
    /\ s \in DOMAIN server
    /\ ~ Testing(s)
    /\ ~ Referenced("mcp", s)
    /\ Begin(w, [op |-> "delete_server", id |-> s])
    /\ UNCHANGED <<server, test>>

DeleteServer(w) ==
    /\ Serving(w, "delete_server")
    /\ server' = Drop(server, {req[w].id})
    /\ UNCHANGED test
    /\ Respond(w)

\* test_server up to its wait: the lock is free, the configuration is read.
BeginTest(s) ==
    /\ s \in DOMAIN server
    /\ test[s] = NoTest
    /\ test' = [test EXCEPT ![s] = [read |-> Read(s), verdict |-> Pending]]
    /\ UNCHANGED <<server, req>>

\* The server answered, or did not; the lock is left.
LeaveLock(s, verdict) ==
    /\ Testing(s)
    /\ test' = [test EXCEPT ![s] = [read |-> @.read, verdict |-> verdict]]
    /\ UNCHANGED <<server, req>>

\* The snapshot is committed.  The session still holds the row it read before
\* the wait: no second SELECT takes place, an unchanged status is not written,
\* and the row may have gone.
StoreVerdict(s) ==
    /\ test[s] # NoTest /\ ~ Testing(s)
    /\ LET result == test[s]
       IN  server' =
             IF s \notin DOMAIN server THEN server
             ELSE [server EXCEPT
                     ![s].tested = result.read.config,
                     ![s].status = IF result.verdict = result.read.status
                                   THEN @ ELSE result.verdict]
    /\ test' = [test EXCEPT ![s] = NoTest]
    /\ UNCHANGED req

ServerStep(w) ==
    \/ \E c \in Configs : CreateServer(w, c)
    \/ \E s \in Ids, c \in Configs : BeginUpdateServer(w, s, c)
    \/ UpdateServer(w)
    \/ \E s \in Ids : BeginDeleteServer(w, s)
    \/ DeleteServer(w)

TestStep ==
    \E s \in Ids : BeginTest(s) \/ StoreVerdict(s) \/ \E v \in Verdicts : LeaveLock(s, v)

=============================================================================
