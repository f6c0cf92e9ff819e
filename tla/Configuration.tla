---------------------------- MODULE Configuration ----------------------------
(***************************************************************************)
(* A configuration, and what the program computes from one: the checks of  *)
(* config/validate.go, cascade_validate.go and rules.go, and the resolver  *)
(* of model/resolver.go.  Everything here is a function of the             *)
(* configuration; RuntimeConfig adds the draft, the file and the running   *)
(* handlers, Routing the requests.                                         *)
(*                                                                         *)
(* A name is a member of Names; Slashed are those that contain a "/".  An  *)
(* entry of a group is a leaf, "provider/model", or a reference to a group *)
(* or a redirect.  An omitted exposure is public.  Names of groups and     *)
(* sources of redirects are each distinct.                                 *)
(***************************************************************************)
EXTENDS Naturals, Sequences, SequencesExt, FiniteSets

CONSTANTS Names,          \* names of groups and of redirects
          Slashed,        \* names that contain "/"
          ProviderNames,
          BadRules,       \* rule tables that ValidateRules refuses
          MaxCallable     \* MaxMetadataSnapshotEntries (1000)

NoName == ""

ASSUME NamesAssumption ==
  /\ Slashed \subseteq Names
  /\ NoName \notin Names \cup ProviderNames
  /\ MaxCallable \in Nat

\* A provider: whether it has an endpoint, its cascade block ("absent", "off" or
\* "on") with or without a token, remote_bridge.enabled, and whether it reaches
\* exactly the three protocols a cascade provider must declare.
Providers == {p \in [endpoint : BOOLEAN, cascade : {"absent", "off", "on"},
                      token : BOOLEAN, bridge : BOOLEAN, three : BOOLEAN] :
                p.cascade = "absent" => ~ p.token}

Entries == [leaf : BOOLEAN, to : Names \cup ProviderNames, weight : Nat]
Exposures == {"public", "hidden", "internal"}
GroupDefs == [name : Names, mode : STRING, models : Seq(Entries),
              exposure : Exposures, sticky : {"omitted", "off", "on"}]
RedirectDefs == [source : Names, target : Names, exposure : Exposures]

\* The struct: what the loader and the admin interface can build.
IsConfiguration(c) ==
  /\ c = [providers |-> c.providers, groups |-> c.groups, redirects |-> c.redirects,
          spoke |-> c.spoke, smart |-> c.smart, keys |-> c.keys, rules |-> c.rules]
  /\ DOMAIN c.providers \subseteq ProviderNames /\ IsFiniteSet(DOMAIN c.providers)
  /\ c.providers \in [DOMAIN c.providers -> Providers]
  /\ c.groups \in Seq(GroupDefs) /\ c.redirects \in Seq(RedirectDefs)

IsHub(p) == p.cascade = "on"
Hubs(c) == {n \in DOMAIN c.providers : IsHub(c.providers[n])}
NoSpoke == [peer |-> NoName]                     \* no top-level cascade block
NoSmart == [cheap |-> NoName, scout |-> NoName, enabled |-> {}]   \* no smart_route block

GroupNames(c) == {c.groups[i].name : i \in DOMAIN c.groups}
Sources(c) == {c.redirects[i].source : i \in DOMAIN c.redirects}
Group(c, n) == c.groups[CHOOSE i \in DOMAIN c.groups : c.groups[i].name = n]
Redirect(c, n) == c.redirects[CHOOSE i \in DOMAIN c.redirects : c.redirects[i].source = n]

\* An entry whose name contains "/" is read as a leaf, whatever was meant.
IsLeaf(e) == e.leaf \/ e.to \in Slashed
LeafProviders(g) == {e.to : e \in {x \in ToSet(g.models) : IsLeaf(x)}}
RefNames(g) == {e.to : e \in {x \in ToSet(g.models) : ~ IsLeaf(x)}}

------------------------------------------------------------------------------
(* Validation, shared by Load and Apply *)

\* ListDirectCallableNames: public and hidden names.
DirectCallable(exposure) == exposure \in {"public", "hidden"}
DirectCallableNames(c) ==
  {g.name : g \in {x \in ToSet(c.groups) : DirectCallable(x.exposure)}}
    \cup {r.source : r \in {x \in ToSet(c.redirects) : DirectCallable(x.exposure)}}

ValidHub(p) == p.token /\ ~ p.bridge /\ p.three

ValidSpoke(c) ==
  /\ c.spoke.peer \in DOMAIN c.providers
  /\ Cardinality(DirectCallableNames(c)) <= MaxCallable

ValidateCascade(c) ==
  /\ \A n \in Hubs(c) : ValidHub(c.providers[n])
  /\ Cardinality(Hubs(c)) <= 1
  /\ c.spoke # NoSpoke => Hubs(c) = {} /\ ValidSpoke(c)

\* What serve needs to come up: providers with somewhere to send to, groups whose
\* leaves name a provider, adaptive groups without references.
ValidateForServe(c) ==
  /\ DOMAIN c.providers # {}
  /\ \A n \in DOMAIN c.providers : IsHub(c.providers[n]) \/ c.providers[n].endpoint
  /\ c.groups # <<>>
  /\ \A g \in ToSet(c.groups) :
       /\ LeafProviders(g) \subseteq DOMAIN c.providers
       /\ g.mode = "adaptive" => RefNames(g) = {}

ValidateRules(c) == c.rules \notin BadRules

------------------------------------------------------------------------------
(* NewResolver *)

\* resolveAlias: along the redirects to a group.  A chain visits each redirect at
\* most once before it repeats, so a cycle never reaches a group.
Hop(c, n) == IF n \in GroupNames(c) \/ n \notin Sources(c) THEN n ELSE Redirect(c, n).target
WalkEnd(c, n) ==
  LET walk[k \in 0 .. Len(c.redirects)] == IF k = 0 THEN n ELSE Hop(c, walk[k - 1])
  IN  walk[Len(c.redirects)]
ResolveAlias(c, n) == IF WalkEnd(c, n) \in GroupNames(c) THEN WalkEnd(c, n) ELSE NoName

\* buildRedirects, its checks and its result: every source with its final group.
ValidRedirects(c) ==
  \A r \in ToSet(c.redirects) :
    /\ r.source \notin Slashed /\ r.target \notin Slashed
    /\ r.source \notin GroupNames(c)
    /\ ResolveAlias(c, r.target) # NoName
BuildRedirects(c) ==
  [s \in Sources(c) |-> [final |-> ResolveAlias(c, Redirect(c, s).target),
                         exposure |-> Redirect(c, s).exposure]]

InternalName(r, n) ==
  IF n \in DOMAIN r.groups THEN n
  ELSE IF n \in DOMAIN r.redirects THEN r.redirects[n].final ELSE NoName

\* buildSmartRouteIndex: the groups behind the names it is given.
ValidSmartRoute(r, smart) ==
  smart # NoSmart =>
    \A n \in {smart.cheap, smart.scout} \cup smart.enabled : InternalName(r, n) # NoName
BuildSmartRouteIndex(r, smart) ==
  [cheap |-> InternalName(r, smart.cheap), scout |-> InternalName(r, smart.scout),
   info |-> [n \in smart.enabled |-> InternalName(r, n)]]

\* The struct: group and redirect tables, the live providers map, the copied order
\* and callable names.
MakeTables(c) ==
  [groups |-> [n \in GroupNames(c) |-> [mode |-> Group(c, n).mode,
                                        exposure |-> Group(c, n).exposure,
                                        models |-> Group(c, n).models]],
   redirects |-> BuildRedirects(c),
   providers |-> DOMAIN c.providers,
   groupOrder |-> [i \in DOMAIN c.groups |-> c.groups[i].name],
   redirectOrder |-> [i \in DOMAIN c.redirects |-> c.redirects[i].source],
   callable |-> DirectCallableNames(c)]
MakeResolver(c) ==
  LET r == MakeTables(c)
  IN  [t \in DOMAIN r \cup {"smart"} |->
         IF t = "smart" THEN BuildSmartRouteIndex(r, c.smart) ELSE r[t]]

\* validateGroupRefs: every reference resolves.
ValidateGroupRefs(r) ==
  \A g \in DOMAIN r.groups : \A n \in RefNames(r.groups[g]) : InternalName(r, n) # NoName

\* detectCycles: a depth-first walk with three colours, over the groups in turn.
\* A group still open ("inStack") when it is met again closes a cycle.
Colorings(r) == [DOMAIN r.groups -> {"unvisited", "inStack", "done"}]
Unvisited(r) == [n \in DOMAIN r.groups |-> "unvisited"]

\* The group an entry leads to.
Successor(r, e) == IF IsLeaf(e) THEN NoName ELSE InternalName(r, e.to)

\* The visit of a group that is unvisited: its entries in turn, each by "deeper".
Visit(r, name, color, deeper) ==
  LET models == r.groups[name].models
      upTo[i \in 0 .. Len(models)] ==
        IF i = 0 THEN [cycle |-> FALSE, color |-> [color EXCEPT ![name] = "inStack"]]
        ELSE LET before == upTo[i - 1]
                 to == Successor(r, models[i])
             IN  IF before.cycle \/ to = NoName THEN before
                 ELSE deeper[[name |-> to, color |-> before.color]]
      end == upTo[Len(models)]
  IN  IF end.cycle THEN end
      ELSE [cycle |-> FALSE, color |-> [end.color EXCEPT ![name] = "done"]]

\* The calls: a group that was visited says whether it is open, another is visited.
GroupCalls(r, deeper) ==
  [s \in [name : DOMAIN r.groups, color : Colorings(r)] |->
     IF s.color[s.name] # "unvisited"
     THEN [cycle |-> s.color[s.name] = "inStack", color |-> s.color]
     ELSE Visit(r, s.name, s.color, deeper)]

\* A call marks a group before it calls, so that the calls below it find one less to
\* visit: walk[k] is the calls when at most k groups are unvisited.
Dfs(r) ==
  LET walk[k \in 0 .. Cardinality(DOMAIN r.groups)] ==
        GroupCalls(r, IF k = 0 THEN <<>> ELSE walk[k - 1])
  IN  walk[Cardinality(DOMAIN r.groups)]

FirstGroupOnly(r) ==   \* mutant: one walk, from the first group
  r.groupOrder # <<>> /\ Dfs(r)[[name |-> r.groupOrder[1], color |-> Unvisited(r)]].cycle

DetectCycles(r) ==
  LET after[i \in 0 .. Len(r.groupOrder)] ==
        IF i = 0 THEN [cycle |-> FALSE, color |-> Unvisited(r)]
        ELSE LET before == after[i - 1]
             IN  IF before.cycle THEN before
                 ELSE Dfs(r)[[name |-> r.groupOrder[i], color |-> before.color]]
  IN  after[Len(r.groupOrder)].cycle

NewResolverOK(c) ==
  /\ GroupNames(c) \cap Slashed = {}
  /\ ValidRedirects(c)
  /\ LET r == MakeTables(c)
     IN  ValidateGroupRefs(r) /\ ~ DetectCycles(r) /\ ValidSmartRoute(r, c.smart)

\* The draft passes everything Apply checks; the file everything start-up checks.
Applicable(c) ==
  ValidateRules(c) /\ ValidateCascade(c) /\ ValidateForServe(c) /\ NewResolverOK(c)

------------------------------------------------------------------------------
(* A reference definition of the cycle check: no group reaches itself *)

Edges(r) ==
  {e \in (DOMAIN r.groups) \X (DOMAIN r.groups) :
     \E n \in RefNames(r.groups[e[1]]) : InternalName(r, n) = e[2]}

\* Groups reachable from S: as many rounds as there are groups.
ReachableFrom(r, S) ==
  LET grow[k \in 0 .. Cardinality(DOMAIN r.groups)] ==
        IF k = 0 THEN S
        ELSE grow[k - 1] \cup {e[2] : e \in {x \in Edges(r) : x[1] \in grow[k - 1]}}
  IN  grow[Cardinality(DOMAIN r.groups)]

Acyclic(r) ==
  \A g \in DOMAIN r.groups :
    g \notin ReachableFrom(r, {e[2] : e \in {x \in Edges(r) : x[1] = g}})
=============================================================================
