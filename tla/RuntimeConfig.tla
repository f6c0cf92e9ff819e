---------------------------- MODULE RuntimeConfig ----------------------------
(***************************************************************************)
(* The configuration at run time (runtimeconfig/): a draft the admin       *)
(* interface edits, the file, the committed configuration, and what the    *)
(* request handlers really read.                                           *)
(*                                                                         *)
(* Every operation of the manager runs under its mutex; the handlers take  *)
(* no lock.  Apply hands them the draft object itself, so from the first   *)
(* Apply on they share memory with the draft: the struct behind the cfg    *)
(* pointer and the providers map ("live"), and the slices of entries of    *)
(* the groups that were not replaced since ("shared").                     *)
(*                                                                         *)
(* Apply is one step per effect another thread, or a crash, can separate.  *)
(* SyncFromConfig writes every section again, so that a tree left dirty by *)
(* a failed Save matters to nothing here and is not kept.                  *)
(***************************************************************************)
EXTENDS Configuration

CONSTANTS Initial,         \* configurations the process is started with
          GroupInputs, RedirectInputs, ProviderInputs, KeyInputs, RuleInputs,  \* bodies
          CascadeNames,    \* providers a cascade role may be given
          MaxEdits,        \* bound of the model: edits of the draft per process
          MaxApplies, MaxCrashes   \* bounds of the model

ASSUME RuntimeAssumption ==
  /\ \A c \in Initial : IsConfiguration(c) /\ Applicable(c)
  /\ GroupInputs \subseteq GroupDefs /\ RedirectInputs \subseteq RedirectDefs
  /\ \A in \in ProviderInputs : in.name \in ProviderNames /\ in.body \in Providers
  /\ CascadeNames \subseteq ProviderNames
  /\ {MaxEdits, MaxApplies, MaxCrashes} \subseteq Nat

VARIABLES
  up,         \* the process runs
  draft, active,
  file,       \* the configuration file
  run,        \* the handlers' resolver
  live,       \* the handlers' cfg is the draft object
  held,       \* the configuration object they hold when it is not
  shared,     \* groups of the draft whose entries the handlers' resolver aliases
  published,  \* the committed source the spoke publishes: its names, its role
  pc,         \* where Apply is
  request,    \* the last edit: its operation and the object it wrote
  edits, applies, crashes

handlerVars == <<run, live, held, shared>>
countVars == <<applies, crashes>>
vars == <<up, draft, active, file, handlerVars, published, pc, request, edits, countVars>>

------------------------------------------------------------------------------
(* The file: groups and providers in the form they are written *)

\* An entry of weight 1 is written as its name alone, and is read back with it.
ToYamlEntry(e) ==
  IF e.weight = 1 THEN [form |-> "scalar", leaf |-> e.leaf, to |-> e.to]
  ELSE [form |-> "mapping", leaf |-> e.leaf, to |-> e.to, weight |-> e.weight]
ForgetsWeight(y) == [leaf |-> y.leaf, to |-> y.to, weight |-> 1]   \* mutant: reads names only
FromYamlEntry(y) ==
  [leaf |-> y.leaf, to |-> y.to, weight |-> IF y.form = "scalar" THEN 1 ELSE y.weight]

\* A single entry of weight 1 becomes "model", anything else "models".
ToYamlGroup(g) ==
  [name |-> g.name, mode |-> g.mode, exposure |-> g.exposure, sticky |-> g.sticky,
   key |-> IF Len(g.models) = 1 /\ g.models[1].weight = 1 THEN "model" ELSE "models",
   entries |-> [i \in DOMAIN g.models |-> ToYamlEntry(g.models[i])]]
FromYamlGroup(y) ==
  [name |-> y.name, mode |-> y.mode, exposure |-> y.exposure, sticky |-> y.sticky,
   models |-> IF y.key = "model"
              THEN <<[leaf |-> y.entries[1].leaf, to |-> y.entries[1].to, weight |-> 1]>>
              ELSE [i \in DOMAIN y.entries |-> FromYamlEntry(y.entries[i])]]

\* A provider is written as the keys that are set; a cascade block only with
\* "enabled", its token only inside one.
ToYamlProvider(p) ==
  {k \in {"endpoint", "bridge", "three"} : p[k]}
    \cup (IF p.cascade = "on" THEN {"cascade.on"} ELSE {})
    \cup (IF p.cascade = "off" THEN {"cascade.off"} ELSE {})
    \cup (IF p.cascade # "absent" /\ p.token THEN {"cascade.token"} ELSE {})
FromYamlProvider(keys) ==
  [endpoint |-> "endpoint" \in keys, bridge |-> "bridge" \in keys, three |-> "three" \in keys,
   cascade |-> IF "cascade.on" \in keys THEN "on"
               ELSE IF "cascade.off" \in keys THEN "off" ELSE "absent",
   token |-> "cascade.token" \in keys]

SyncFromConfig(c) ==
  [c EXCEPT !.groups = [i \in DOMAIN @ |-> ToYamlGroup(@[i])],
            !.providers = [n \in DOMAIN @ |-> ToYamlProvider(@[n])]]
Load(f) ==
  [f EXCEPT !.groups = [i \in DOMAIN @ |-> FromYamlGroup(@[i])],
            !.providers = [n \in DOMAIN @ |-> FromYamlProvider(@[n])]]

------------------------------------------------------------------------------
(* Start-up (serve.go) *)

Committed(c, callable) == [names |-> callable, spoke |-> c.spoke, hubs |-> Hubs(c)]

NoRequest == [op |-> "none", name |-> NoName]

\* deepCopyConfig: a draft whose map, slices and entries are nobody else's.
DeepCopied == live' = FALSE /\ shared' = {}

\* The handlers and active get the loaded object, the draft a copy.
Started(c) ==
  /\ up' = TRUE
  /\ active' = c /\ draft' = c /\ held' = c
  /\ run' = MakeResolver(c) /\ DeepCopied
  /\ published' = Committed(c, MakeResolver(c).callable)
  /\ pc' = "idle" /\ request' = NoRequest /\ edits' = 0

Init ==
  \E c \in Initial :
    /\ file = SyncFromConfig(c)
    /\ up = TRUE
    /\ active = c /\ draft = c /\ held = c
    /\ run = MakeResolver(c) /\ live = FALSE /\ shared = {}
    /\ published = Committed(c, MakeResolver(c).callable)
    /\ pc = "idle" /\ request = NoRequest /\ edits = 0
    /\ applies = 0 /\ crashes = 0

Crash ==
  /\ up /\ crashes < MaxCrashes
  /\ up' = FALSE /\ crashes' = crashes + 1
  /\ UNCHANGED <<draft, active, file, handlerVars, published, pc, request, edits, applies>>

Start ==
  /\ ~ up /\ Applicable(Load(file))
  /\ Started(Load(file))
  /\ UNCHANGED <<file, countVars>>

------------------------------------------------------------------------------
(* An admin request: bind, the manager's operation, writeError *)

Idle == up /\ pc = "idle"

\* A request changes the draft, and with it the handlers' view where that is the same
\* memory.  One that is refused (400, 404, 409, 422) changes nothing and is no step.
Edit(op, name, newDraft, newRun, newShared) ==
  /\ Idle /\ edits < MaxEdits /\ edits' = edits + 1
  /\ request' = [op |-> op, name |-> name]
  /\ draft' = newDraft /\ run' = newRun /\ shared' = newShared
  /\ UNCHANGED <<up, active, file, live, held, published, pc, countVars>>

Put(f, n, v) == [x \in DOMAIN f \cup {n} |-> IF x = n THEN v ELSE f[x]]
Drop(f, n) == [x \in DOMAIN f \ {n} |-> f[x]]

\* Entries of the groups G, in the draft or in the handlers' table, retargeted.
Retarget(models, leaf, old, new) ==
  [i \in DOMAIN models |->
     IF IsLeaf(models[i]) = leaf /\ models[i].to = old
     THEN [models[i] EXCEPT !.to = new] ELSE models[i]]
RetargetGroups(groups, skip, leaf, old, new) ==
  [i \in DOMAIN groups |->
     IF groups[i].name = skip THEN groups[i]
     ELSE [groups[i] EXCEPT !.models = Retarget(@, leaf, old, new)]]
RetargetShared(r, G, leaf, old, new) ==
  [r EXCEPT !.groups = [n \in DOMAIN @ |->
     IF n \in G THEN [@[n] EXCEPT !.models = Retarget(@, leaf, old, new)] ELSE @[n]]]

------------------------------------------------------------------------------
(* Model groups *)

GroupTaken(name) == name \in GroupNames(draft)   \* mutant: sources not asked
NameTaken(name) == name \in GroupNames(draft) \cup Sources(draft)

\* The checks of a group's body.
ValidGroupBody(in) ==
  /\ in.mode \in {"failover", "load-balance", "concurrent", "adaptive"}
  /\ in.models # <<>>
  /\ in.mode = "adaptive" => \A e \in ToSet(in.models) : IsLeaf(e)
  /\ \A e \in ToSet(in.models) : e.weight > 0
  /\ in.exposure \in {"public", "hidden", "internal"}
  /\ in.sticky = "on" => in.mode = "load-balance"

CreateModelGroup(in) ==
  /\ ~ NameTaken(in.name) /\ ValidGroupBody(in)
  /\ Edit("create group", in.name, [draft EXCEPT !.groups = Append(@, in)], run, shared)

\* An omitted sticky block is kept, and dropped when the mode no longer has one.
UpdatedGroup(old, in) ==
  [in EXCEPT !.sticky =
     CASE in.mode # "load-balance" -> "omitted"
       [] in.mode = "load-balance" /\ @ = "omitted" -> Group(draft, old).sticky
       [] OTHER -> @]

ReplaceGroup(old, g) ==
  [draft EXCEPT !.groups = [i \in DOMAIN @ |-> IF @[i].name = old THEN g ELSE @[i]]]

\* The references of the other groups and the targets of redirects follow.
PropagateRename(d, old, new) ==
  [d EXCEPT !.redirects = [i \in DOMAIN @ |->
                             IF @[i].target = old THEN [@[i] EXCEPT !.target = new] ELSE @[i]],
            !.groups = RetargetGroups(@, new, FALSE, old, new)]

\* The group gets a fresh slice of entries; those of the others are written in place,
\* and so the handlers' where the slice is shared.
UpdateModelGroup(old, in) ==
  /\ old \in GroupNames(draft)
  /\ in.name # old => ~ NameTaken(in.name)
  /\ ValidGroupBody(in)
  /\ Edit("update group", in.name,
          PropagateRename(ReplaceGroup(old, UpdatedGroup(old, in)), old, in.name),
          RetargetShared(run, shared \ {old}, FALSE, old, in.name),
          shared \ {old})

GroupReferences(n) ==   \* mutant: targets of redirects not asked
  \E g \in ToSet(draft.groups) : g.name # n /\ n \in RefNames(g)
References(n) ==
  \/ \E r \in ToSet(draft.redirects) : r.target = n
  \/ \E g \in ToSet(draft.groups) : g.name # n /\ n \in RefNames(g)

DeleteModelGroup(n) ==
  /\ ~ References(n)
  /\ \E i \in DOMAIN draft.groups :
       /\ draft.groups[i].name = n
       /\ Edit("delete group", n, [draft EXCEPT !.groups = RemoveAt(@, i)], run, shared \ {n})

\* Of the permutations a body may name, the reversal.
ReorderModelGroups ==
  Edit("reorder", NoName, [draft EXCEPT !.groups = Reverse(@)], run, shared)

------------------------------------------------------------------------------
(* Redirects *)

\* wouldCreateCycle(OnUpdate): from the source along the redirects, d being the draft
\* with the new one; a name met twice is a cycle, a group or a dead end is not.
ReturnsAtOnce(d, source) == Hop(d, source) = source   \* mutant: one hop only
WouldCreateCycle(d, source) == WalkEnd(d, source) \in Sources(d) \ GroupNames(d)

Unslashed(in) == in.source \notin Slashed /\ in.target \notin Slashed

CreateRedirect(in) ==
  LET d == [draft EXCEPT !.redirects = Append(@, in)]
  IN  /\ Unslashed(in) /\ ~ NameTaken(in.source) /\ NameTaken(in.target)
      /\ ~ WouldCreateCycle(d, in.source)
      /\ Edit("create redirect", in.source, d, run, shared)

\* A redirect may be renamed; what refers to it by its old name is neither rewritten
\* nor checked, and the old name itself still counts as an existing target.
UpdateRedirect(old, in) ==
  LET d == [draft EXCEPT !.redirects =
              [i \in DOMAIN @ |-> IF @[i].source = old THEN in ELSE @[i]]]
  IN  /\ old \in Sources(draft) /\ Unslashed(in)
      /\ in.source # old => ~ NameTaken(in.source)
      /\ NameTaken(in.target) /\ ~ WouldCreateCycle(d, in.source)
      /\ Edit(IF in.source = old THEN "update redirect" ELSE "rename redirect", in.source,
              d, run, shared)

DeleteRedirect(s) ==
  /\ \A r \in ToSet(draft.redirects) : r.source # s => r.target # s
  /\ \A g \in ToSet(draft.groups) : s \notin RefNames(g)
  /\ \E i \in DOMAIN draft.redirects :
       /\ draft.redirects[i].source = s
       /\ Edit("delete redirect", s, [draft EXCEPT !.redirects = RemoveAt(@, i)], run, shared)

ReorderRedirects ==
  Edit("reorder", NoName, [draft EXCEPT !.redirects = Reverse(@)], run, shared)

------------------------------------------------------------------------------
(* Providers *)

ReferencingGroups(n) == {g \in ToSet(draft.groups) : n \in LeafProviders(g)}

\* Without an endpoint only a cascade provider may be, and one has a token.
ValidProviderBody(p, hub) == (p.endpoint \/ hub) /\ (IsHub(p) => p.token)

CreateProvider(in) ==
  /\ in.name \notin DOMAIN draft.providers /\ ValidProviderBody(in.body, IsHub(in.body))
  /\ Edit("create provider", in.name,
          [draft EXCEPT !.providers = Put(@, in.name, in.body)], run, shared)

\* An omitted cascade block ("absent") is kept.
UpdatedProvider(was, p) ==
  IF p.cascade = "absent" THEN [p EXCEPT !.cascade = was.cascade, !.token = was.token] ELSE p

\* A rename rewrites the entries of every group in place; spoke.peer is not touched.
UpdateProvider(old, in) ==
  /\ old \in DOMAIN draft.providers
  /\ in.name # old => in.name \notin DOMAIN draft.providers
  /\ LET p == UpdatedProvider(draft.providers[old], in.body)
     IN  /\ ValidProviderBody(in.body, IsHub(p))
         /\ Edit("update provider", in.name,
                 [draft EXCEPT !.providers = Put(Drop(@, old), in.name, p),
                               !.groups = RetargetGroups(@, NoName, TRUE, old, in.name)],
                 RetargetShared(run, shared, TRUE, old, in.name), shared)

DeleteProvider(n) ==
  /\ n \in DOMAIN draft.providers /\ ReferencingGroups(n) = {}
  /\ Edit("delete provider", n, [draft EXCEPT !.providers = Drop(@, n)], run, shared)

------------------------------------------------------------------------------
(* The cascade role *)

\* A hub other than this one that is a marker only: it has no endpoint.
Markers(except) == {n \in Hubs(draft) \ {except} : ~ draft.providers[n].endpoint}

\* A marker may not lose its role while groups use it.
LosesMarkers(except) == TRUE   \* mutant: unchecked
NoMarkerUsed(except) == \A n \in Markers(except) : ReferencingGroups(n) = {}

\* clearProviderCascade on every hub but one: an unused marker goes altogether.
ClearHubs(except) ==
  [n \in {x \in DOMAIN draft.providers : x \notin Markers(except) \/ ReferencingGroups(x) # {}} |->
     IF n \in Hubs(draft) \ {except}
     THEN [draft.providers[n] EXCEPT !.cascade = "absent", !.token = FALSE]
     ELSE draft.providers[n]]

HubMarker == [endpoint |-> FALSE, cascade |-> "on", token |-> TRUE, bridge |-> FALSE,
              three |-> TRUE]

ApplyDisabled ==
  /\ NoMarkerUsed(NoName)
  /\ Edit("cascade", NoName,
          [draft EXCEPT !.spoke = NoSpoke, !.providers = ClearHubs(NoName)], run, shared)

ApplyHub(n) ==
  /\ n \in DOMAIN draft.providers => n \in Hubs(draft)
  /\ NoMarkerUsed(n)
  /\ Edit("cascade", n,
          [draft EXCEPT !.spoke = NoSpoke, !.providers = Put(ClearHubs(n), n, HubMarker)],
          run, shared)

\* The peer may not be the hub, of several the one the map's order gives.
ApplySpoke(peer) ==
  /\ NoMarkerUsed(NoName)
  /\ peer \in DOMAIN draft.providers
  /\ \E hub \in IF Hubs(draft) = {} THEN {NoName} ELSE Hubs(draft) : peer # hub
  /\ Edit("cascade", peer,
          [draft EXCEPT !.spoke = [peer |-> peer], !.providers = ClearHubs(NoName)],
          run, shared)

------------------------------------------------------------------------------
(* Keys and rules *)

CreateAuthKey(in) ==
  /\ in.name \notin DOMAIN draft.keys
  /\ Edit("key", in.name, [draft EXCEPT !.keys = Put(@, in.name, in.key)], run, shared)
UpdateAuthKey(old, in) ==
  /\ old \in DOMAIN draft.keys
  /\ in.name # old => in.name \notin DOMAIN draft.keys
  /\ Edit("key", in.name, [draft EXCEPT !.keys = Put(Drop(@, old), in.name, in.key)],
          run, shared)
DeleteAuthKey(n) ==
  /\ n \in DOMAIN draft.keys
  /\ Edit("key", n, [draft EXCEPT !.keys = Drop(@, n)], run, shared)

ReplaceRules(rules) ==
  /\ rules \notin BadRules
  /\ Edit("rules", NoName, [draft EXCEPT !.rules = rules], run, shared)

------------------------------------------------------------------------------
(* Apply and DiscardDraft *)

\* Refused before anything is written.
ApplyRefused ==
  /\ Idle /\ applies < MaxApplies /\ ~ Applicable(draft)
  /\ applies' = applies + 1
  /\ UNCHANGED <<up, draft, active, file, handlerVars, published, pc, request, edits, crashes>>

ApplyUnresolved ==   \* mutant: the resolver is only built after the save
  /\ Idle /\ applies < MaxApplies
  /\ ValidateRules(draft) /\ ValidateCascade(draft) /\ ValidateForServe(draft)
  /\ applies' = applies + 1 /\ pc' = "save"
  /\ UNCHANGED <<up, draft, active, file, handlerVars, published, request, edits, crashes>>
ApplyBegin ==
  /\ Idle /\ applies < MaxApplies /\ Applicable(draft)
  /\ applies' = applies + 1 /\ pc' = "save"
  /\ UNCHANGED <<up, draft, active, file, handlerVars, published, request, edits, crashes>>

\* WriteFile of the temporary file or the rename fails: the file is as it was.
SaveFails ==
  /\ up /\ pc = "save"
  /\ pc' = "idle"
  /\ UNCHANGED <<up, draft, active, file, handlerVars, published, request, edits, countVars>>

Save ==
  /\ up /\ pc = "save"
  /\ file' = SyncFromConfig(draft) /\ pc' = "reinit"
  /\ UNCHANGED <<up, draft, active, handlerVars, published, request, edits, countVars>>

\* handler.Init(draft, newResolver, newScheduler): from here on the handlers read the
\* draft's memory.
Reinit ==
  /\ up /\ pc = "reinit" /\ pc' = "commit"
  /\ run' = MakeResolver(draft) /\ live' = TRUE /\ held' = draft
  /\ shared' = GroupNames(draft)
  /\ UNCHANGED <<up, draft, active, file, published, request, edits, countVars>>

\* active becomes a copy, then the callbacks hand it to the cascade and the catalog.
Commit ==
  /\ up /\ pc = "commit" /\ pc' = "idle"
  /\ active' = draft /\ published' = Committed(draft, run.callable)
  /\ UNCHANGED <<up, draft, file, handlerVars, request, edits, countVars>>

\* A fresh copy of active; the handlers keep the object that was the draft.
DiscardDraft ==
  /\ Idle /\ draft # active
  /\ draft' = active
  /\ held' = IF live THEN draft ELSE held
  /\ DeepCopied
  /\ UNCHANGED <<up, active, file, run, published, pc, request, edits, countVars>>

EditGroups ==
  \/ \E in \in GroupInputs : CreateModelGroup(in)
  \/ \E old \in Names, in \in GroupInputs : UpdateModelGroup(old, in)
  \/ \E n \in Names : DeleteModelGroup(n)
  \/ ReorderModelGroups
EditRedirects ==
  \/ \E in \in RedirectInputs : CreateRedirect(in)
  \/ \E old \in Names, in \in RedirectInputs : UpdateRedirect(old, in)
  \/ \E s \in Names : DeleteRedirect(s)
  \/ ReorderRedirects
EditProviders ==
  \/ \E in \in ProviderInputs : CreateProvider(in)
  \/ \E old \in ProviderNames, in \in ProviderInputs : UpdateProvider(old, in)
  \/ \E n \in ProviderNames : DeleteProvider(n)
EditCascade ==
  \/ ApplyDisabled
  \/ \E n \in CascadeNames : ApplyHub(n) \/ ApplySpoke(n)
EditKeys ==
  \/ \E in \in KeyInputs : CreateAuthKey(in)
  \/ \E old, in \in KeyInputs : UpdateAuthKey(old.name, in)
  \/ \E in \in KeyInputs : DeleteAuthKey(in.name)
EditRules == \E rules \in RuleInputs : ReplaceRules(rules)
Applying ==
  ApplyRefused \/ ApplyBegin \/ SaveFails \/ Save \/ Reinit \/ Commit

Next ==
  \/ EditGroups \/ EditRedirects \/ EditProviders \/ EditCascade \/ EditKeys \/ EditRules
  \/ Applying \/ DiscardDraft \/ Crash \/ Start

Spec == Init /\ [][Next]_vars

------------------------------------------------------------------------------
(* Properties *)

\* Names of groups and sources of redirects share one namespace: no edit makes two
\* of them the same (ValidateCreate and ValidateUpdate of both tables).
Distinct(c) ==
  /\ \A i, j \in DOMAIN c.groups : c.groups[i].name = c.groups[j].name => i = j
  /\ \A i, j \in DOMAIN c.redirects : c.redirects[i].source = c.redirects[j].source => i = j
  /\ GroupNames(c) \cap Sources(c) = {}
NamesDistinct == Distinct(draft)

\* However redirects and groups are edited and renamed, no chain of redirects of the
\* draft runs in a circle: looking from the edited source alone is enough.
ChainsEnd(c) ==
  \A S \in SUBSET Sources(c) :
    S # {} => \E r \in ToSet(c.redirects) : r.source \in S /\ r.target \notin S
RedirectChainsEnd == ChainsEnd(draft)

\* The coloured walk of detectCycles refuses exactly the drafts in which some group
\* reaches itself through references and redirects.
CycleCheckExact ==
  ValidRedirects(draft) =>
    LET r == MakeResolver(draft)
    IN  ValidateGroupRefs(r) => (DetectCycles(r) <=> ~ Acyclic(r))

\* Names stay one namespace in which every look-up ends: the checks of single edits,
\* each from the object that is edited alone, keep it so, and the check of the whole
\* refuses the circles they let through.
LookupsEnd == NamesDistinct /\ RedirectChainsEnd /\ CycleCheckExact

\* Whatever is edited, refused, half saved or interrupted, the file is one the
\* process comes up with: a crash at any point can be restarted from.
FileStarts == Applicable(Load(file))

\* Outside the few steps between the rename and the commit, the file read back is the
\* committed configuration, weights, exposures and roles included.
FileIsActive == up /\ pc \in {"idle", "save"} => Load(file) = active

\* A restart brings back what was running: the file always starts the process, and but
\* for the moment of an Apply it starts it with the committed configuration.
RestartKeepsActive == FileStarts /\ FileIsActive

\* References by a redirect or by a group's entries that lead nowhere.
Dangling(c) ==
  {<<r.source, r.target>> : r \in {x \in ToSet(c.redirects) :
                                     x.target \notin GroupNames(c) \cup Sources(c)}}
  \cup UNION {{<<g.name, n>> : n \in (RefNames(g) \ (GroupNames(c) \cup Sources(c)))
                                     \cup (LeafProviders(g) \ DOMAIN c.providers)} :
              g \in ToSet(c.groups)}

\* The names that smart_route and the spoke's cascade block give and that lead nowhere.
\* (The conditions of rules are compared with names, not looked up.)
DanglingOutside(c) ==
  {<<"smart_route", n>> : n \in ({c.smart.cheap, c.smart.scout} \cup c.smart.enabled)
                                  \ (GroupNames(c) \cup Sources(c) \cup {NoName})}
  \cup {<<"cascade", n>> : n \in {c.spoke.peer} \ (DOMAIN c.providers \cup {NoName})}

\* No edit of one object leaves what a redirect or another group refers to dangling:
\* deletes are refused, renames propagated.  The code makes two exceptions: renaming a
\* redirect, and renaming a group to a name with "/", which turns references into leaves.
EditsKeepReferences ==
  [][edits' = edits + 1 /\ request'.op # "rename redirect" /\ request'.name \notin Slashed =>
       \A d \in Dangling(draft') \ Dangling(draft) : d[1] = request'.name]_vars

\* The names of smart_route and spoke.peer nobody follows: renames and deletes leave them
\* dangling, and Apply refuses the draft until the file is repaired or the name made
\* again.  No other edit does: none that creates, reorders or rewrites under the same
\* name, and none of the cascade role, keys or rules, but the role's own peer.
UnfollowedLost ==
  [][edits' = edits + 1 =>
       \A d \in DanglingOutside(draft') \ DanglingOutside(draft) :
         request'.op \in
           CASE d[1] = "smart_route" -> {"update group", "delete group",
                                         "rename redirect", "delete redirect"}
             [] d[1] = "cascade"     -> {"update provider", "delete provider", "cascade"}]_vars

\* Changing the cascade role of a draft that can be applied leaves one that can be:
\* no group loses its provider, and at most one role is taken (the limit of names a
\* spoke may publish excepted).
CascadeKeepsApplicable ==
  [][(/\ edits' = edits + 1 /\ request'.op = "cascade" /\ Applicable(draft)
      /\ Cardinality(DirectCallableNames(draft)) <= MaxCallable)
       => Applicable(draft')]_vars

\* An edit breaks no references of other groups and redirects but by the two exceptions,
\* those of smart_route and of the spoke by renames and deletes alone; a change of the
\* cascade role leaves a draft that could be applied one that can.
EditsKeepDraft == EditsKeepReferences /\ UnfollowedLost /\ CascadeKeepsApplicable

\* NewResolver refused cyclic groups, so that building a plan of the running
\* resolver ends (buildPlanNode recurses without a limit).
RunningPlansEnd == Acyclic(run)
=============================================================================
