--------------------------- MODULE AgentReferences ---------------------------
(***************************************************************************)
(* The tables agents and agent_bindings, the check whether an agent refers *)
(* to a resource (services/agent_references.py), and the requests of the   *)
(* management pages.                                                       *)
(*                                                                         *)
(* Their routes are synchronous: FastAPI runs each in a worker thread with *)
(* a database session of its own.  SQLite opens the transaction of a       *)
(* session at its first write, so what a request read before is not        *)
(* protected.  A request is therefore two steps: Begin reads, checks and   *)
(* keeps what it read; the second step writes and commits, or fails on a   *)
(* unique index or on a row that has gone (StaleDataError) and writes      *)
(* nothing.  The reads of one request are one snapshot here; what another  *)
(* request commits between its first read and its commit is met.           *)
(***************************************************************************)
EXTENDS Naturals, FiniteSets, Functions, TLC

CONSTANTS Workers,   \* threads that serve synchronous routes
          NoReq,     \* a thread that serves nothing
          MaxId,     \* bound: the largest primary key of any table
          Scenes     \* bounds: what happens in a behaviour, and the largest
                     \* primary key of each table in it (0: a page not used)

Pages == {"model", "agent", "server", "skill"}
Activities == Pages \cup {"test", "disk"}

ASSUME ReferencesAssumption == MaxId \in Nat \ {0} /\ Scenes \subseteq [Activities -> 0 .. MaxId]

VARIABLES
    agent,     \* agents: id -> [model, default]
    binding,   \* agent_bindings: {[agent, kind, id]}
    req,       \* per thread, the request it is in the middle of
    scene      \* the bounds of this behaviour, never changed

Ids == 1 .. MaxId
\* The resources that can be deleted; tools are built in.
Kinds == {"skill", "mcp"}
Bindings == [agent : Ids, kind : Kinds, id : Ids]

-----------------------------------------------------------------------------
(* Tables: functions from the primary keys in use to rows                  *)

\* SQLite gives a new row the key behind the largest one in use: the key of a
\* deleted last row is used again.
NextId(rows) == 1 + Cardinality({i \in Ids : \E j \in DOMAIN rows : i <= j})
HasRoom(rows, page) == NextId(rows) <= scene[page]
Put(rows, id, row) == [i \in DOMAIN rows \cup {id} |-> IF i = id THEN row ELSE rows[i]]
Drop(rows, ids) == Restrict(rows, DOMAIN rows \ ids)

Defaults(rows) == {i \in DOMAIN rows : rows[i].default}
AnyDefaults(rows) == TRUE                        \* mutant: no unique index
\* uq_models_single_default and uq_agents_single_default
UniqueDefault(rows) == Cardinality(Defaults(rows)) <= 1
WithDefault(rows, i, flag) == [rows EXCEPT ![i].default = flag]

-----------------------------------------------------------------------------
(* Requests                                                                *)

Begin(w, r) == req[w] = NoReq /\ req' = [req EXCEPT ![w] = r]
Serving(w, op) == req[w] # NoReq /\ req[w].op = op
Respond(w) == req' = [req EXCEPT ![w] = NoReq]

ReferencedByBindings(kind, id) ==                \* mutant: agents.model_id overlooked
    \E b \in binding : b.kind = kind /\ b.id = id /\ b.agent \in DOMAIN agent

\* referenced_by_agents
Referenced(kind, id) ==
    \/ \E b \in binding : b.kind = kind /\ b.id = id /\ b.agent \in DOMAIN agent
    \/ kind = "model" /\ \E a \in DOMAIN agent : agent[a].model = id

=============================================================================
