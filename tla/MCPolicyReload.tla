--------------------------- MODULE MCPolicyReload ---------------------------
(* A small instance of PolicyReload for TLC. *)
EXTENDS PolicyReload

CONSTANTS granola, notion, list

OneTool == {list}
TwoServers == {granola, notion}

Rule(effect, server) == [effect |-> effect, server |-> server, tool |-> Any]

\* A team's rule, and a rule for every server behind one that is no denial and an
\* entry that is no rule at all.
SomeContents == {
    Absent, Unreadable,
    <<Rule("deny", granola)>>,
    <<Rule("other", notion), Rule("malformed", Any), Rule("deny", Any)>>}

AllVersions == [Files -> SomeContents]
=============================================================================
