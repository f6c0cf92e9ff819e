--------------------------- MODULE MCRuntimeConfig ---------------------------
(* Instances of RuntimeConfig small enough to enumerate. *)
EXTENDS RuntimeConfig

Leaf(p) == [leaf |-> TRUE, to |-> p, weight |-> 1]
Heavy(p) == [leaf |-> TRUE, to |-> p, weight |-> 2]
Ref(n) == [leaf |-> FALSE, to |-> n, weight |-> 1]
MCGroup(n, mode, models) ==
  [name |-> n, mode |-> mode, models |-> models, exposure |-> "public", sticky |-> "omitted"]
Hidden(g, e) == [g EXCEPT !.exposure = e]
MCRedirect(s, t, e) == [source |-> s, target |-> t, exposure |-> e]

Plain == [endpoint |-> TRUE, cascade |-> "absent", token |-> FALSE, bridge |-> FALSE,
          three |-> TRUE]
Marker == [endpoint |-> FALSE, cascade |-> "on", token |-> TRUE, bridge |-> FALSE,
           three |-> TRUE]

MCNames == {"g", "h", "k", "r", "z", "x/y"}
MCProviders == {"p", "q", "hub"}

Base(providers, groups, redirects, peer) ==
  [providers |-> providers, groups |-> groups, redirects |-> redirects,
   spoke |-> [peer |-> peer], smart |-> NoSmart, keys |-> [n \in {"key"} |-> "secret"], rules |-> "rules"]

\* A group that refers to a redirect, with weights and an internal name.
Nested == Base([n \in {"p", "q"} |-> Plain],
               << [MCGroup("g", "load-balance", <<Heavy("p"), Ref("r")>>) EXCEPT !.sticky = "on"],
                  Hidden(MCGroup("h", "failover", <<Leaf("q")>>), "internal") >>,
               <<MCRedirect("r", "h", "hidden")>>, NoName)
Smart == [Nested EXCEPT !.smart = [cheap |-> "h", scout |-> "r", enabled |-> {"g"}]]
\* A hub, referred to by a group.
AHub == Base([n \in {"p", "hub"} |-> IF n = "hub" THEN Marker ELSE Plain],
             <<MCGroup("g", "failover", <<Leaf("p"), Leaf("hub")>>)>>, <<>>, NoName)
\* A spoke, and a chain of three groups.
ASpoke == Base([n \in {"p"} |-> Plain],
               <<MCGroup("g", "failover", <<Ref("h")>>), MCGroup("h", "failover", <<Ref("k")>>),
                 MCGroup("k", "adaptive", <<Leaf("p")>>)>>, <<>>, "p")

MCInitial == {Smart, AHub, ASpoke}
ChainOnly == {ASpoke}

MCGroupInputs ==
  { MCGroup("g", "failover", <<Leaf("p")>>), MCGroup("z", "failover", <<Ref("h")>>),
    MCGroup("h", "load-balance", <<Ref("g"), Heavy("q")>>),
    MCGroup("h", "adaptive", <<Ref("g")>>), MCGroup("x/y", "failover", <<Leaf("p")>>) }
ChainGroupInputs ==
  { MCGroup("z", "failover", <<Ref("h")>>), MCGroup("g", "failover", <<Leaf("p")>>) }
MCRedirectInputs ==
  { MCRedirect("r", "g", "public"), MCRedirect("z", "r", "public"), MCRedirect("r", "z", "internal") }
MCProviderInputs ==
  { [name |-> "q", body |-> Plain], [name |-> "hub", body |-> [Plain EXCEPT !.endpoint = FALSE]],
    [name |-> "p", body |-> [Plain EXCEPT !.cascade = "on", !.token = TRUE]] }
MCCascadeNames == {"hub", "q", "p"}
MCKeyInputs == { [name |-> "key", key |-> "other"], [name |-> "new", key |-> "secret"] }
=============================================================================
