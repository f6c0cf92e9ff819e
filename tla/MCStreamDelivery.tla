-------------------------- MODULE MCStreamDelivery ---------------------------
EXTENDS StreamDelivery

Pair(from, to) == [from |-> from, to |-> to]

MCPairs ==
  {Pair(f, t) : f \in {"chat", "claude", "responses", "ollama"},
                t \in {"chat", "claude", "responses"}}
    \cup {Pair("responses", "object")}
=============================================================================
