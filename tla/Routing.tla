------------------------------- MODULE Routing -------------------------------
(***************************************************************************)
(* A request from its handler to the leaves it may be sent to: smart       *)
(* route, resolver, plan, materialisation (handler/chat.go, messages.go,   *)
(* responses.go, cascade_job.go, materialize.go), on the nodes of a        *)
(* cascade and while Apply changes what the handlers read.                 *)
(*                                                                         *)
(* The handlers read three globals, each when they need it, without a      *)
(* lock: a request may see the resolver of one configuration and the       *)
(* rules of the next.  Which of the leaves is tried, and how an attempt    *)
(* ends, is the scheduler's affair: here it tries them in any order until  *)
(* one succeeds.                                                           *)
(*                                                                         *)
(* A request that reaches a node again, as a job or by HTTP, is a new      *)
(* frame on the stack of executions waiting for each other.                *)
(***************************************************************************)
EXTENDS Configuration, Rules, SmartRoute

CONSTANTS
  Nodes,
  Configs,         \* node -> sequence of configurations, applied one after the other
  Requests,        \* what clients send: [node, model, key, conv, request], the request
                   \* without its body
  Ask(_, _),       \* format, conversation -> the body it arrives in
  FormatsOf,       \* provider -> its formats
  AddressOf,       \* provider -> the node its endpoint belongs to, "upstream" or "session"
  SpokeOf,         \* cascade provider -> the node that holds its token
  ModelAt,         \* provider -> the model asked of it
  Spelling,        \* name -> the letters rules match
  DeepSeek,        \* the providers of a DeepSeek model (NeedsDeepSeekCompat)
  MaxDepth         \* bound of the model: executions waiting for each other

NoHop == ""

ASSUME RoutingAssumption ==
  \A n \in Nodes : \A i \in DOMAIN Configs[n] :
    Applicable(Configs[n][i]) /\ \A rule \in ToSet(Configs[n][i].rules) : ValidRule(rule)

VARIABLES
  cfg, resolver,   \* node -> the globals the handlers read: of which configuration they are
  stack,           \* the executions of the request
  answer           \* what the client got

vars == <<cfg, resolver, stack, answer>>

\* What is computed of the constants, tabulated: the resolvers, the decisions of the smart
\* route, the merged action of a leaf for a client's model and key, the bodies of requests.
Tables == [n \in Nodes |-> [i \in DOMAIN Configs[n] |-> MakeResolver(Configs[n][i])]]
Inbound == {"openai.chat", "anthropic.messages", "openai.responses"}
Decisions == [c \in {q.conv : q \in Requests} |-> [f \in Inbound |-> Decision(f, c)]]
RuleContext(provider, model, key) ==
  [x \in Fields |-> CASE x = "client-model" -> Spelling[model]
                      [] x = "key" -> key
                      [] OTHER -> Spelling[provider]]
Merged ==
  [n \in Nodes |-> [i \in DOMAIN Configs[n] |->
    [provider \in ProviderNames |-> [model \in Names |-> [key \in {q.key : q \in Requests} |->
      Evaluate(Configs[n][i].rules, RuleContext(provider, model, key))]]]]]

\* The body of a request: what its conversation arrives in, converted on every leg of its
\* way.  compat: to a DeepSeek model.
Leg(format, provider) == [format |-> format, compat |-> provider \in DeepSeek]
Legs == UNION {{Leg(f, p) : f \in ToSet(AllFormats(FormatsOf[p])) \cap Inbound} :
                p \in {x \in ProviderNames : AddressOf[x] # "upstream"}}
Ways == UNION {{<<[format |-> f, compat |-> FALSE]>> \o legs :
                 f \in Inbound, legs \in [1 .. n -> Legs]} : n \in 0 .. MaxDepth - 1}
EncodeFrom(body, way, leg) == EncodeBody(body, Last(way).format, leg.format, leg.compat)
Bodies ==
  [c \in {q.conv : q \in Requests} |->
    LET body[way \in Ways] ==
          IF Len(way) = 1 THEN Ask(way[1].format, c)
          ELSE EncodeFrom(body[Front(way)], Front(way), Last(way))
    IN  body]
TakenByOllama ==
  [c \in {q.conv : q \in Requests} |-> [way \in Ways |->
    Encodable(Bodies[c][way], Last(way).format, "ollama.chat")]]

------------------------------------------------------------------------------
(* The plan of a group (resolver.go, buildPlanNode) *)

Usable(r, e) == IF IsLeaf(e) THEN e.to \in r.providers ELSE InternalName(r, e.to) # NoName

\* Leaves and children in lists of their own, and the order they were declared in.
BuildPlanNode(r, g) ==
  LET usable == SelectSeq(r.groups[g].models, LAMBDA e : Usable(r, e))
      leaves == SelectSeq(usable, IsLeaf)
      children == SelectSeq(usable, LAMBDA e : ~ IsLeaf(e))
      place(i) == Cardinality({j \in 1 .. i : IsLeaf(usable[j]) = IsLeaf(usable[i])})
  IN  [order |-> [i \in DOMAIN usable |-> [leaf |-> IsLeaf(usable[i]), index |-> place(i)]],
       leaves |-> [i \in DOMAIN leaves |-> leaves[i].to],
       children |-> [i \in DOMAIN children |-> InternalName(r, children[i].to)]]

CheckFinalExposure(r, name, allowInternal) ==     \* mutant: the exposure of the target
  LET g == InternalName(r, name)
  IN  IF g # NoName /\ (allowInternal \/ DirectCallable(r.groups[g].exposure)) THEN g ELSE NoName

\* resolveByName: the group that answers, or none.
ResolveByName(r, name, allowInternal) ==
  IF name \in DOMAIN r.groups
  THEN IF allowInternal \/ DirectCallable(r.groups[name].exposure) THEN name ELSE NoName
  ELSE IF name \in DOMAIN r.redirects /\ (allowInternal \/ DirectCallable(r.redirects[name].exposure))
  THEN r.redirects[name].final ELSE NoName
Resolve(r, name) == ResolveByName(r, name, FALSE)
ResolveInternal(r, name) == ResolveByName(r, name, TRUE)

HasAnyLeaf(r) ==
  LET has[g \in DOMAIN r.groups] ==
        LET plan == BuildPlanNode(r, g)
        IN  plan.leaves # <<>> \/ \E c \in ToSet(plan.children) : has[c]
  IN  has

\* Tabulated as well.
Plans == [n \in Nodes |-> [i \in DOMAIN Configs[n] |->
           [g \in GroupNames(Configs[n][i]) |-> BuildPlanNode(Tables[n][i], g)]]]

------------------------------------------------------------------------------
(* Materialisation *)

SkipPeerOnly(provider, providers, peer, f) ==     \* mutant: the hop is not looked at
  f.origin /\ peer # NoName /\ provider = peer

\* A spoke does not send a job back to its peer, nor a hub one to where it came from.
ShouldSkipCascadeLeaf(provider, providers, peer, f) ==
  \/ f.origin /\ peer # NoName /\ provider = peer
  \/ f.hop # NoHop /\ IsHub(providers[provider]) /\ SpokeOf[provider] = f.hop

\* A rule may force the format; one the provider does not reach makes the leaf idle.
SelectLeafOutboundFormat(provider, inbound, merged) ==
  IF Sets(merged, "protocol")
  THEN [format |-> merged["protocol"],
        schedulable |-> ProtocolReachable(FormatsOf[provider], merged["protocol"])]
  ELSE [format |-> SelectOutboundFormat(FormatsOf[provider], inbound), schedulable |-> TRUE]

\* A leaf: idle, ready with the request it sends, or an error for the whole plan.  The
\* peer is that of the configuration the rules are of, if the request is a job.
MaterializeLeaf(provider, plan, rules, f) ==
  LET merged == Merged[f.node][rules][provider][f.model][f.key]
      peer == IF f.origin THEN Configs[f.node][rules].spoke.peer ELSE NoName
      chosen == SelectLeafOutboundFormat(provider, f.request.format, merged)
      node(state, request) == [provider |-> provider, state |-> state,
                               format |-> chosen.format, request |-> request]
  IN  IF \/ ShouldSkipCascadeLeaf(provider, Configs[f.node][plan].providers, peer, f)
         \/ ~ chosen.schedulable
      THEN node("idle", f.request)
      ELSE IF chosen.format = NoFormat \/ (chosen.format = "ollama.chat" /\ ~ TakenByOllama[f.conv][f.way])
      THEN node("error", f.request)
      ELSE node("ready", ApplyLeafRules(f.request, merged))


LeavesThenChildren(order, leaves, children) ==    \* mutant: the order is not kept
  leaves \o children

\* mergeByOrder: leaves and children back in the order they were declared in.
MergeByOrder(order, leaves, children) ==
  [i \in DOMAIN order |-> IF order[i].leaf THEN leaves[order[i].index]
                          ELSE children[order[i].index]]

\* The run trees of the groups: the leaves below each, in order.
MaterializePlan(plan, rules, f) ==
  LET tree[g \in DOMAIN Plans[f.node][plan]] ==
        LET node == Plans[f.node][plan][g]
            leaves == [i \in DOMAIN node.leaves |->
                        <<MaterializeLeaf(node.leaves[i], plan, rules, f)>>]
            children == [i \in DOMAIN node.children |-> tree[node.children[i]]]
        IN  FlattenSeq(MergeByOrder(node.order, leaves, children))
  IN  tree

------------------------------------------------------------------------------
(* Frames *)

Top == Last(stack)
Rest == Front(stack)
At(pc) == stack # <<>> /\ Top.pc = pc
Step(f) == stack' = Append(Rest, f) /\ UNCHANGED answer
Still == UNCHANGED <<cfg, resolver>>

\* The globals as the running execution finds them.
Cfg == Configs[Top.node][cfg[Top.node]]
Resolver == Tables[Top.node][resolver[Top.node]]

\* A request as its handler decodes it; its body is that of its way.
Frame(node, model, key, conv, request, way, origin, hop) ==
  [node |-> node, pc |-> "decoded", model |-> model, key |-> key,
   conv |-> conv, request |-> request, way |-> way, origin |-> origin, hop |-> hop,
   index |-> 0, effective |-> model, plan |-> 0, rules |-> 0, group |-> NoName,
   leaves |-> <<>>, tried |-> {}]

\* What the end of a frame is to the one that waits for it, or to the client.
Return(below, outcome) ==
  IF below = <<>>
  THEN answer' = outcome /\ stack' = <<>>
  ELSE /\ stack' = Append(Front(below),
             [Last(below) EXCEPT !.pc = IF outcome = "ok" THEN "served" ELSE "execute"])
       /\ UNCHANGED answer

Init ==
  /\ cfg = [n \in Nodes |-> 1] /\ resolver = [n \in Nodes |-> 1]
  /\ \E q \in Requests :
       stack = <<Frame(q.node, q.model, q.key, q.conv, q.request,
                      <<[format |-> q.request.format, compat |-> FALSE]>>, FALSE, NoHop)>>
  /\ answer = "none"

------------------------------------------------------------------------------
(* Apply at a node.  handler.Init assigns the globals while requests read them *)
(* without a lock: either may be seen first.                                   *)

InitCfg(n) ==
  /\ cfg[n] <= resolver[n] /\ cfg[n] < Len(Configs[n])
  /\ cfg' = [cfg EXCEPT ![n] = @ + 1]
  /\ UNCHANGED <<resolver, stack, answer>>

InitResolver(n) ==
  /\ resolver[n] <= cfg[n] /\ resolver[n] < Len(Configs[n])
  /\ resolver' = [resolver EXCEPT ![n] = @ + 1]
  /\ UNCHANGED <<cfg, stack, answer>>

------------------------------------------------------------------------------
(* Chat, Messages, Responses; a job skips the smart route *)

SmartRouteEnabled == Resolver.smart.info # [n \in {} |-> NoName]

\* The index is taken here, the entry's own group looked up with the rules.
TakeIndex ==
  /\ At("decoded") /\ ~ Top.origin /\ SmartRouteEnabled
  /\ Step([Top EXCEPT !.index = resolver[Top.node], !.pc = "route"])
  /\ Still

PassBy ==
  /\ At("decoded") /\ ~ Top.origin /\ ~ SmartRouteEnabled
  /\ Step([Top EXCEPT !.pc = "resolve"])
  /\ Still

\* ExecuteCascadeJob: only a spoke executes jobs.
TakeJob ==
  /\ At("decoded") /\ Top.origin
  /\ IF Cfg.spoke = NoSpoke THEN Return(Rest, "error")
     ELSE Step([Top EXCEPT !.pc = "resolve"])
  /\ Still

\* SmartRoute: an entry that is not enabled keeps its name.
Index == Tables[Top.node][Top.index].smart
SmartRouteStep ==
  /\ At("route")
  /\ LET info == Resolver.smart.info
         decision == IF Top.model \in DOMAIN info THEN Decisions[Top.conv][Top.request.format]
                     ELSE "disabled"
     IN  Step([Top EXCEPT
           !.pc = IF decision = "judge" THEN "judge" ELSE "resolve",
           !.effective = CASE decision = "scout" -> Index.scout
                           [] decision = "disabled" -> @
                           [] OTHER -> info[Top.model]])
  /\ Still

\* ExecuteCheapJudge: seven seconds for one word.  Whatever goes wrong is "reason", and
\* so is a cheap group that has gone meanwhile.  Its own attempts are not followed.
ExecuteCheapJudge ==
  /\ At("judge")
  /\ \/ /\ ResolveInternal(Resolver, Index.cheap) # NoName
        /\ Step([Top EXCEPT !.pc = "resolve", !.effective = Index.scout])
     \/ Step([Top EXCEPT !.pc = "resolve"])
  /\ Still

\* resolver.Resolve(effectiveModel), with the check of a name from outside.
ResolveStep ==
  /\ At("resolve")
  /\ LET g == Resolve(Resolver, Top.effective)
     IN  IF g = NoName \/ ~ HasAnyLeaf(Resolver)[g] THEN Return(Rest, "404")
         ELSE Step([Top EXCEPT !.pc = "materialize", !.group = g, !.plan = resolver[Top.node]])
  /\ Still

\* materializePlan, with the rules and the peer the globals hold by now.  One leaf that
\* cannot be encoded fails the request.
MaterializeStep ==
  /\ At("materialize")
  /\ \E leaves \in {MaterializePlan(Top.plan, cfg[Top.node], Top)[Top.group]} :
       IF \E leaf \in ToSet(leaves) : leaf.state = "error" THEN Return(Rest, "502")
       ELSE Step([Top EXCEPT !.pc = "execute", !.rules = cfg[Top.node], !.leaves = leaves])
  /\ Still

------------------------------------------------------------------------------
(* ExecuteNode *)

Ready == {i \in DOMAIN Top.leaves \ Top.tried : Top.leaves[i].state = "ready"}
Tried(i) == [Top EXCEPT !.tried = @ \cup {i}]

\* An attempt at a provider that is no node, with its outcome.
AttemptUpstream ==
  /\ At("execute")
  /\ \E i \in Ready :
       /\ AddressOf[Top.leaves[i].provider] = "upstream"
       /\ Return(Rest, "ok") \/ Step(Tried(i))
  /\ Still

\* The execution at node "to" of what leaf i sends; the frame waits.
Call(i, to, origin, hop) ==
  LET leaf == Top.leaves[i]
  IN  /\ Len(stack) < MaxDepth
      /\ stack' = Append(Append(Rest, [Tried(i) EXCEPT !.pc = "waiting"]),
            Frame(to, ModelAt[leaf.provider], Top.key, Top.conv,
                  EncodeSettings(leaf.request, leaf.format, leaf.provider \in DeepSeek),
                  Append(Top.way, Leg(leaf.format, leaf.provider)), origin, hop))
      /\ UNCHANGED answer

\* BuildRequest, to a provider that is a node: only a job's request carries the hop.
AttemptNode ==
  /\ At("execute")
  /\ \E i \in Ready :
       LET to == AddressOf[Top.leaves[i].provider]
       IN  to \in Nodes /\ Call(i, to, FALSE, IF Top.origin THEN Top.hop ELSE NoHop)
  /\ Still

\* A job through the session: the spoke marks it as one of its hub's.
AttemptCascade ==
  /\ At("execute")
  /\ \E i \in Ready :
       LET to == SpokeOf[Top.leaves[i].provider]
       IN  /\ AddressOf[Top.leaves[i].provider] = "session"
           /\ Call(i, to, TRUE, IF Top.origin THEN Top.hop ELSE to)
  /\ Still

NoLeafReady ==                 \* mutant: idle leaves are waited for
  At("execute") /\ Top.tried = DOMAIN Top.leaves /\ Return(Rest, "502") /\ Still

NoLeafLeft == At("execute") /\ Ready = {} /\ Return(Rest, "502") /\ Still

Served == At("served") /\ Return(Rest, "ok") /\ Still

\* The timeout of an execution cancels those it waits for.
Timeout ==
  /\ \E k \in DOMAIN stack :
       /\ stack[k].pc \in {"execute", "waiting"}
       /\ Return(SubSeq(stack, 1, k - 1), "504")
  /\ Still

Handle ==
  TakeIndex \/ PassBy \/ TakeJob \/ SmartRouteStep \/ ExecuteCheapJudge \/ ResolveStep
    \/ MaterializeStep \/ AttemptUpstream \/ AttemptNode \/ AttemptCascade \/ NoLeafLeft \/ Served

Next == Handle \/ Timeout \/ \E n \in Nodes : InitCfg(n) \/ InitResolver(n)

\* The handlers' goroutines run.
Spec == Init /\ [][Next]_vars /\ WF_vars(Handle)

------------------------------------------------------------------------------
(* Properties *)

\* A spoke never gets back a job of the request it is executing a job of, whatever names
\* its hub and it have for each other (shouldSkipCascadeLeaf and the hop header).
NoEcho ==
  \A i, j \in DOMAIN stack :
    (stack[i].origin /\ stack[j].origin /\ stack[i].node = stack[j].node) => i = j

\* Reference for PlanKeepsOrder: a group's leaves, reading references where they stand.
Expand(r, g) ==
  LET leavesOf[h \in DOMAIN r.groups] ==
        FlatMap(LAMBDA e : IF ~ Usable(r, e) THEN <<>>
                           ELSE IF IsLeaf(e) THEN <<e.to>> ELSE leavesOf[InternalName(r, e.to)],
                r.groups[h].models)
  IN  leavesOf[g]

\* Failover tries the leaves in the order the configuration lists them, though the plan
\* keeps leaves and child groups apart (buildPlanNode, mergeByOrder).
PlanKeepsOrder ==
  At("execute") =>
    [i \in DOMAIN Top.leaves |-> Top.leaves[i].provider] = Expand(Tables[Top.node][Top.plan], Top.group)

\* The rule that has the last word on a class for this leaf; 0 if none does.
RulesOf(f) == Configs[f.node][f.rules].rules
LastWord(f, leaf, class) ==
  LET says == {i \in DOMAIN RulesOf(f) : /\ MatchRule(RulesOf(f)[i].match, RuleContext(leaf.provider, f.model, f.key))
                                         /\ Sets(RulesOf(f)[i].action, class)}
  IN  IF says = {} THEN 0 ELSE CHOOSE i \in says : \A j \in says : j <= i
Word(f, leaf, class) == RulesOf(f)[LastWord(f, leaf, class)].action[class]

\* No allowed level is nearer to the one asked for; of two as near the higher is taken.
Nearest(asked, got, allowed) ==
  /\ got \in ToSet(allowed)
  /\ \A a \in ToSet(allowed) :
       \/ Distance(Rank(asked), Rank(got)) < Distance(Rank(asked), Rank(a))
       \/ /\ Distance(Rank(asked), Rank(got)) = Distance(Rank(asked), Rank(a))
          /\ Rank(a) <= Rank(got)

RuledEffort(f, leaf) ==
  LET strip == LastWord(f, leaf, "effort_mode")
      allow == LastWord(f, leaf, "effort")
      asked == f.request.effort
      got == leaf.request.effort
  IN  IF LastWord(f, leaf, "thinking") > 0 THEN got \in {"", "none"}
      ELSE IF strip > allow THEN got = ""
      ELSE IF allow > 0 /\ asked # "" THEN Nearest(asked, got, Word(f, leaf, "effort"))
      ELSE got = asked

\* The budget that counts is at least the floor; neither budget ever shrinks, and the one
\* the client did not choose is left alone.
RuledBudget(f, leaf) ==
  LET asked == f.request
      got == leaf.request
      used == IF asked.format = "openai.chat" /\ asked.completion # 0 THEN "completion" ELSE "tokens"
      floor == IF LastWord(f, leaf, "max_tokens") > 0 THEN Word(f, leaf, "max_tokens") ELSE 0
  IN  \A b \in {"completion", "tokens"} :
        got[b] = IF b = used /\ asked[b] < floor THEN floor ELSE asked[b]

\* What is sent to a leaf is the client's request as the last matching rule of each class
\* says: "thinking off" wins over the rules of effort, an allowed set and "strip" undo each
\* other, an effort nobody asked for is not put in (rules/merge.go, leaf_rules.go).
LeafRuled ==
  At("execute") =>
    \A leaf \in {x \in ToSet(Top.leaves) : x.state = "ready"} :
      /\ RuledEffort(Top, leaf) /\ RuledBudget(Top, leaf)
      /\ leaf.request.thinking = "off" <=>
           (LastWord(Top, leaf, "thinking") > 0 \/ Top.request.thinking = "off")
      /\ leaf.request.temperature <=>
           (Top.request.temperature /\ LastWord(Top, leaf, "temperature_mode") = 0)

\* A leaf is asked in the format a rule forces, or in one its provider has, its own if it
\* can be, that no other is cheaper to convert to (SelectOutboundFormat, SelectBestFormat).
CheapestFormat ==
  At("execute") =>
    \A leaf \in {x \in ToSet(Top.leaves) : x.state = "ready"} :
      LET reachable == {f \in Formats : ProtocolReachable(FormatsOf[leaf.provider], f)}
      IN  /\ leaf.format \in reachable
          /\ IF LastWord(Top, leaf, "protocol") > 0 THEN leaf.format = Word(Top, leaf, "protocol")
             ELSE \A f \in reachable :
                    ConversionCost(Top.request.format, leaf.format) <= ConversionCost(Top.request.format, f)

\* A request turns thinking off by its effort or by a word of its own.
Off(req) == req.thinking = "off" \/ (req.format # "anthropic.messages" /\ req.effort = "none")

\* What of it another format hears.  Of a Chat request Ollama hears the word, Responses the
\* effort, Claude the effort and without one the word; of Claude and Responses requests
\* no other format hears either.
HeardOff(req, format) ==
  /\ Off(req)
  /\ \/ req.format = format
     \/ /\ req.format = "openai.chat"
        /\ CASE format = "ollama.chat"        -> req.thinking = "off"
             [] format = "openai.responses"   -> req.effort = "none"
             [] format = "anthropic.messages" -> req.effort \in {"none", ""}

\* The conversion keeps what the rules and the client decided: thinking that is off stays
\* off wherever the format sent hears it, which after a rule that turns thinking off is
\* every format for a Chat request (ThinkingOff says it in both ways); and the tool the
\* client insists on is left to the model only if it is the only one and the model a
\* DeepSeek that thinks; Ollama knows no choice.
SettingsKept ==
  At("execute") =>
    \A leaf \in {x \in ToSet(Top.leaves) : x.state = "ready"} :
      LET asked == leaf.request
          sent == EncodeSettings(asked, leaf.format, leaf.provider \in DeepSeek)
          ruled == LastWord(Top, leaf, "thinking") > 0 /\ asked.format = "openai.chat"
      IN  /\ HeardOff(asked, leaf.format) \/ ruled => Off(sent)
          /\ asked.choice \in {"required", "tool"} =>
               \/ sent.choice = asked.choice
               \/ leaf.format = "ollama.chat"
               \/ leaf.provider \in DeepSeek /\ asked.single /\ ~ Off(asked) /\ sent.choice = "auto"

\* The plan a request is executed with is the one the configuration and the rules in
\* force call for, leaf by leaf and in order, down to the settings that are sent.
PlanAsConfigured == PlanKeepsOrder /\ LeafRuled /\ CheapestFormat /\ SettingsKept

\* A conversation that fits the window is routed alike through every handler; through
\* Messages only as far as the results of tools, which it does not read, say nothing.
SmartRouteAgrees ==
  At("route") =>
    LET conv == Top.conv
        fits(units) == Len(units) <= Window
        silent == \A t \in ToSet(conv) :
                    t.by = "tools" => ToSet(t.texts) = {NoText} /\ t.aside = <<>>
    IN  /\ fits(ChatUnits(conv)) /\ fits(ResponsesUnits(conv)) =>
             Decision("openai.chat", conv) = Decision("openai.responses", conv)
        /\ fits(ChatUnits(conv)) /\ silent =>
             Decision("openai.chat", conv) = Decision("anthropic.messages", conv)

\* Through whatever formats a request is converted, the upstream gets the conversation the
\* node was sent, in a form it accepts.  From Claude to Chat a message of the user's comes
\* between the calls and their results, and no format has thinking for a Responses upstream.
ConversationIntact ==
  (At("execute") /\ Top.tried = {}) =>
    \A leaf \in {x \in ToSet(Top.leaves) : x.state = "ready"} :
      LET inbound == Top.request.format
          body == Bodies[Top.conv][Top.way]
          sent == EncodeFrom(body, Top.way, Leg(leaf.format, leaf.provider))
          lost == LostCalls(body, inbound, leaf.format)
      IN  /\ ConversationKept(Remaining(body, inbound, leaf.format), Talk(sent),
                              leaf.format = "ollama.chat")
          /\ /\ leaf.format \in {"openai.chat", "anthropic.messages"} /\ lost = {}
             /\ inbound = "openai.responses" \/ InPlace(body.messages)
             /\ ~ (inbound = "anthropic.messages" /\ leaf.format = "openai.chat")
             => InPlace(sent.messages)
          /\ leaf.provider \in DeepSeek /\ leaf.format \in {"openai.chat", "anthropic.messages"}
             => Thoughtful(sent.messages)

\* A client is told that a model does not exist only if the model is not of those it may
\* call (ListDirectCallableNames, which a spoke also announces to its hub), if the smart
\* route sent it to an internal group, or if Apply fell between the two look-ups.
NotFoundExplained ==
  [][(stack # <<>> /\ answer' = "404") =>
       \/ Top.model \notin Resolver.callable
       \/ Top.index # 0 /\ Top.index # resolver[Top.node]
       \/ /\ Top.effective # Top.model
          /\ ~ DirectCallable(Resolver.groups[Top.effective].exposure)]_vars

\* Every request is answered: the executions that wait for each other come to an end.
Answered == <>(stack = <<>>)

\* "internal: ... may only be referenced by other model groups, redirects, the smart route"
\* (config.go): a model the client may call is found, wherever the smart route sends it.
CallableIsServed ==
  [][(stack # <<>> /\ answer' = "404") => Top.model \notin Resolver.callable]_vars
=============================================================================
