----------------------------- MODULE Management -----------------------------
(***************************************************************************)
(* The management pages as one system: models, MCP servers, skills and the *)
(* agents that refer to them (services/agent_service.py, api/agents.py).   *)
(* Saving an agent reads the tables of the resources, deleting a resource  *)
(* reads the tables of the agents.                                         *)
(***************************************************************************)
EXTENDS ModelCatalogue, McpServers, SkillStore

CONSTANT MaxBinds     \* bound: the bindings one request saves

ASSUME BindsAssumption == MaxBinds \in Nat

VARIABLES
    met,         \* history: what was committed while a request is in progress
    disturbed    \* history: servers edited or deleted since their test began

pages == <<agent, binding, req, model, server, test, dir, skill>>
vars == <<pages, scene, met, disturbed>>

Resources ==
    [kind : {"skill"}, id : DOMAIN skill] \cup [kind : {"mcp"}, id : DOMAIN server]
UpTo(n, S) == {x \in SUBSET S : Cardinality(x) <= n}
NewAgent == 0

\* save_agent up to its first write: model and resources exist.  A request
\* without bindings (rebind is FALSE) leaves them as they are.
BeginSaveAgent(w, a, m, rebind, binds, flag) ==
    /\ a \in DOMAIN agent \cup {NewAgent}
    /\ m \in DOMAIN model
    /\ binds \subseteq IF rebind THEN Resources ELSE {}
    /\ Begin(w, [op |-> "save_agent", id |-> a, model |-> m, rebind |-> rebind,
                 binds |-> binds, default |-> flag, first |-> agent = << >>,
                 row |-> IF a = NewAgent THEN [model |-> m, default |-> FALSE] ELSE agent[a],
                 losers |-> IF a = NewAgent THEN {} ELSE Defaults(agent)])
    /\ UNCHANGED <<agent, binding>>

Rebound(a, r) ==
    IF ~ r.rebind THEN binding
    ELSE {b \in binding : b.agent # a}
           \cup {[agent |-> a, kind |-> x.kind, id |-> x.id] : x \in r.binds}

WithoutDefaults(rows) == [i \in DOMAIN rows |-> [rows[i] EXCEPT !.default = FALSE]]

\* The first agent becomes the default; otherwise the flag of the request takes
\* it from the agent that has it.
CreateAgent(w) ==
    /\ Serving(w, "save_agent") /\ req[w].id = NewAgent /\ HasRoom(agent, "agent")
    /\ LET r == req[w]
           others == IF r.default /\ ~ r.first THEN WithoutDefaults(agent) ELSE agent
           rows == Put(others, NextId(agent),
                       [model |-> r.model, default |-> r.first \/ r.default])
       IN  IF UniqueDefault(rows)
           THEN agent' = rows /\ binding' = Rebound(NextId(agent), r)
           ELSE UNCHANGED <<agent, binding>>
    /\ Respond(w)

\* The row is written where it differs from what was read (other: in a column
\* that is left out here); the bindings are replaced even if the agent has gone
\* and nothing of its row had changed.
UpdateAgent(w) ==
    /\ Serving(w, "save_agent") /\ req[w].id # NewAgent
    /\ \E other \in BOOLEAN :
       LET r == req[w]
           a == r.id
           takes == r.default /\ ~ r.row.default
           losers == IF takes THEN r.losers ELSE {}
           moves == r.model # r.row.model
           rows == [i \in DOMAIN agent |->
                       IF i = a THEN [model |-> IF moves THEN r.model ELSE agent[a].model,
                                      default |-> takes \/ agent[a].default]
                       ELSE IF i \in losers THEN [agent[i] EXCEPT !.default = FALSE]
                       ELSE agent[i]]
           stored == /\ losers \subseteq DOMAIN agent
                     /\ takes \/ moves \/ other => a \in DOMAIN agent
                     /\ UniqueDefault(rows)
       IN  IF stored
           THEN agent' = rows /\ binding' = Rebound(a, r)
           ELSE UNCHANGED <<agent, binding>>
    /\ Respond(w)

BeginDeleteAgent(w, a, next) ==
    /\ a \in DOMAIN agent
    /\ IF agent[a].default /\ DOMAIN agent # {a}
       THEN next \in DOMAIN agent \ {a}
       ELSE next = NoSuccessor
    /\ Begin(w, [op |-> "delete_agent", id |-> a, next |-> next])
    /\ UNCHANGED <<agent, binding>>

DeleteAgentKeepingBindings(w) ==                 \* mutant: trust in ON DELETE CASCADE
    /\ Serving(w, "delete_agent")
    /\ LET a == req[w].id
           next == req[w].next
           rows == IF next = NoSuccessor THEN agent
                   ELSE WithDefault(WithDefault(agent, a, FALSE), next, TRUE)
       IN  agent' = Drop(rows, {a})
    /\ UNCHANGED binding
    /\ Respond(w)

\* The flag goes to the successor; the bindings are deleted by hand, because
\* SQLite does not enforce the foreign key.
DeleteAgent(w) ==
    /\ Serving(w, "delete_agent")
    /\ LET a == req[w].id
           next == req[w].next
           rows == IF next = NoSuccessor THEN agent
                   ELSE WithDefault(WithDefault(agent, a, FALSE), next, TRUE)
           stored == \/ next = NoSuccessor
                     \/ /\ {a, next} \subseteq DOMAIN agent
                        /\ UniqueDefault(rows)
       IN  IF stored
           THEN agent' = Drop(rows, {a}) /\ binding' = {b \in binding : b.agent # a}
           ELSE UNCHANGED <<agent, binding>>
    /\ Respond(w)

\* set_default returns at once for the agent that has the flag.
BeginSetDefaultAgent(w, a) ==
    /\ a \in DOMAIN agent /\ ~ agent[a].default
    /\ Begin(w, [op |-> "set_default_agent", id |-> a, from |-> Defaults(agent)])
    /\ UNCHANGED <<agent, binding>>

SetDefaultAgent(w) ==
    /\ Serving(w, "set_default_agent")
    /\ LET a == req[w].id
           from == req[w].from
           rows == [i \in DOMAIN agent |->
                       [agent[i] EXCEPT !.default = (i = a) \/ (@ /\ i \notin from)]]
       IN  agent' = IF from \cup {a} \subseteq DOMAIN agent /\ UniqueDefault(rows)
                    THEN rows ELSE agent
    /\ UNCHANGED binding
    /\ Respond(w)

AgentStep(w) ==
    \/ \E a \in Ids \cup {NewAgent}, m \in Ids, rebind \in BOOLEAN, flag \in BOOLEAN :
          \E binds \in UpTo(MaxBinds, Resources) : BeginSaveAgent(w, a, m, rebind, binds, flag)
    \/ CreateAgent(w) \/ UpdateAgent(w)
    \/ \E a \in Ids, next \in Ids \cup {NoSuccessor} : BeginDeleteAgent(w, a, next)
    \/ DeleteAgent(w)
    \/ \E a \in Ids : BeginSetDefaultAgent(w, a)
    \/ SetDefaultAgent(w)

-----------------------------------------------------------------------------

Init ==
    /\ agent = << >> /\ binding = {} /\ model = << >> /\ server = << >> /\ skill = << >>
    /\ dir = [d \in Dirs |-> "absent"]
    /\ test = [s \in Ids |-> NoTest]
    /\ req = [w \in Workers |-> NoReq]
    /\ scene \in Scenes
    /\ met = [w \in Workers |-> {}] /\ disturbed = {}

agents == <<agent, binding>>
servers == <<server, test>>
skills == <<dir, skill>>

\* The process dies: what was not committed is gone, and so are the locks.
Restart ==
    /\ req' = [w \in Workers |-> NoReq]
    /\ test' = [s \in Ids |-> NoTest]
    /\ UNCHANGED <<agents, model, server, skills>>

Uses(activity) == scene[activity] > 0

Step ==
    \/ \E w \in Workers :
          \/ Uses("agent") /\ AgentStep(w) /\ UNCHANGED <<model, servers, skills>>
          \/ Uses("model") /\ ModelStep(w) /\ UNCHANGED <<agents, servers, skills>>
          \/ Uses("server") /\ ServerStep(w) /\ UNCHANGED <<agents, model, skills>>
          \/ Uses("skill") /\ SkillStep(w) /\ UNCHANGED <<agents, model, servers>>
    \/ Uses("test") /\ TestStep /\ UNCHANGED <<agents, model, skills>>
    \/ Uses("disk") /\ DiskStep /\ UNCHANGED <<agents, model, servers>>
    \/ Restart

\* The pages whose tables a step writes.
Written ==
    {p \in Pages : \/ p = "model"  /\ model' # model
                   \/ p = "agent"  /\ agents' # agents
                   \/ p = "server" /\ server' # server
                   \/ p = "skill"  /\ skill' # skill}

UnderTest(w) ==
    IF Serving(w, "update_server") /\ test[req[w].id] # NoTest THEN {"test"} ELSE {}

SameServer(s) ==
    IF s \in DOMAIN server THEN s \in DOMAIN server' /\ server'[s] = server[s]
                           ELSE s \notin DOMAIN server'

\* A request in progress meets the tables written meanwhile and, if it edits a
\* server, the tests of that server.
Watch ==
    /\ met' = [w \in Workers |->
                  IF req'[w] = NoReq THEN {}
                  ELSE IF req[w] = NoReq THEN UnderTest(w)'
                  ELSE met[w] \cup Written \cup UnderTest(w)']
    /\ disturbed' = {s \in Ids : /\ test[s] # NoTest /\ test'[s] # NoTest
                                /\ (s \in disturbed \/ ~ SameServer(s))}

Next == Step /\ Watch /\ UNCHANGED scene

Spec == Init /\ [][Next]_vars

-----------------------------------------------------------------------------
(* Properties, for threads whose requests overlap: what a request may break *)
(* says what it must have met.                                              *)

Answers(w, op) == Serving(w, op) /\ req'[w] = NoReq

Headless(rows) == rows # << >> /\ Defaults(rows) = {}

\* At no time are two models the default, and a step that leaves the models
\* without a default is the answer to a request that met a write to the models;
\* the same for agents.  (create_model and delete_model decide on what they
\* read, and set_default counts on the row it read.)
ExactlyOneDefault ==
    [][/\ UniqueDefault(model') /\ UniqueDefault(agent')
       /\ Headless(model)' => Headless(model) \/ \E w \in Workers :
             /\ "model" \in met[w]
             /\ \E op \in {"create_model", "set_default_model", "delete_model"} : Answers(w, op)
       /\ Headless(agent)' => Headless(agent) \/ \E w \in Workers :
             /\ "agent" \in met[w]
             /\ \E op \in {"save_agent", "set_default_agent", "delete_agent"} : Answers(w, op)
      ]_vars

\* References that lead nowhere: of an agent to its model, of a binding to its
\* agent, MCP server or skill.
Loose ==
    {[kind |-> "model", agent |-> a] : a \in {x \in DOMAIN agent : agent[x].model \notin DOMAIN model}}
      \cup {b \in binding : \/ b.agent \notin DOMAIN agent
                            \/ b.kind = "mcp" /\ b.id \notin DOMAIN server
                            \/ b.kind = "skill" /\ b.id \notin DOMAIN skill}

\* A reference is cut loose only by saving an agent while what it reads is
\* written, by deleting a model, a server or a skill while the agents are
\* written, and by a refresh of the skills.  In particular deleting an agent
\* leaves no binding behind for the agent that gets its key.
ReferencesResolve ==
    [][\/ Loose' \subseteq Loose
       \/ \E w \in Workers :
             \/ Answers(w, "save_agent") /\ met[w] # {}
             \/ /\ "agent" \in met[w]
                /\ \E op \in {"delete_model", "delete_server", "delete_skill_row"} : Answers(w, op)
             \/ Serving(w, "refresh") /\ skill' # skill
      ]_vars

\* The verdict shown is one on another configuration than the server has now.
Misleading(s) ==
    s \in DOMAIN server /\ server[s].status \in Verdicts /\ server[s].tested # server[s].config

\* A verdict becomes misleading only by an edit during which a test of the
\* server was under way, and by the verdict of a test during which the server
\* was edited or deleted.  The lock keeps an edit away that looks while the
\* test waits; it cannot help the edit that looked before the test began, nor
\* one that looks between the release of the lock and the commit.
VerdictIsCurrent ==
    [][\A s \in Ids : Misleading(s)' =>
          \/ Misleading(s)
          \/ \E w \in Workers :
                Answers(w, "update_server") /\ req[w].id = s /\ "test" \in met[w]
          \/ test[s] # NoTest /\ test'[s] = NoTest /\ s \in disturbed
      ]_vars

\* However listings, refreshes, imports and the enabling of a skill overlap, a
\* directory has one row and with it one enabled flag.
OneRowPerDirectory == \A d \in Dirs : Cardinality(RowOf(d)) <= 1

\* A binding of a skill names a row of the skills table.
BindingsResolve == \A b \in binding : b.kind = "skill" => b.id \in DOMAIN skill

=============================================================================
