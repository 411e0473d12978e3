---------------------------- MODULE MCMcpServer ----------------------------
EXTENDS McpServer

CONSTANTS s1, s2, k1, x1

Plain(kind) == [kind |-> kind, valid |-> TRUE, gateway |-> FALSE, selector |-> None,
                compact |-> FALSE,
                tool |-> [enabled |-> TRUE, executor |-> TRUE, delivers |-> "value",
                          verified |-> FALSE]]

Artifact == [Plain("call") EXCEPT !.tool.delivers = "artifact"]

\* Protocol lines, the refusals, and tool calls of each way of delivery.
MCLines ==
    {Plain("notification"), Plain("malformed"),
     [Plain("call") EXCEPT !.tool.enabled = FALSE],
     [Artifact EXCEPT !.selector = x1, !.compact = TRUE],
     [Artifact EXCEPT !.selector = x1, !.tool.delivers = "grouped", !.gateway = TRUE],
     [Artifact EXCEPT !.selector = x1, !.tool.verified = TRUE, !.gateway = TRUE]}
=============================================================================
