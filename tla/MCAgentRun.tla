----------------------------- MODULE MCAgentRun -----------------------------
(* AgentRun on a small file tree: dir lies outside the workspace ws, and keys *)
(* lies in dir and is protected.  The name via is a link in the workspace     *)
(* that may be turned towards keys; note is a relative name: the permission   *)
(* stage finds it in the workspace, the file tool at else.                    *)
EXTENDS AgentRun

Tool(t, ns) == [tool |-> t, targets |-> ns]

TreeNames == {"dir", "via", "note", "else"}
TreePaths == {"ws", "dir", "keys"}
TreeLinks == [dir |-> "dir", via |-> "ws", note |-> "ws", else |-> "dir"]
TreeMoves == {<<"via", "keys">>}
TreeUses  == [r \in Runs |-> [n \in TreeNames |-> IF n = "note" THEN "else" ELSE n]]
TreeAncestors == [ws   |-> {"ws"},
                  dir  |-> {"dir"},
                  keys |-> {"keys", "dir"}]
TreeRoots == [r \in Runs |-> {"ws"}]

PlainCall == Tool("plain", {})
McpCall   == Tool("mcp", {})
AskCall   == Tool("ask", {})
On(ns) == Tool("guarded", ns)

\* The later calls of a reply meet what the first one left: a grant for the
\* directory above their targets, a cancel signal, a late answer.
SomeReplies ==
    {<<AskCall, McpCall>>,
     <<On({"dir", "via"}), On({"via", "note"})>>,
     <<Tool("unknown", {}), PlainCall>>}

FewReplies == {<<On({"dir"}), McpCall>>}
=============================================================================
