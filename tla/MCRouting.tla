------------------------------ MODULE MCRouting ------------------------------
(* A hub, its spoke, and what clients of both send. *)
EXTENDS Routing

Leaf(p) == [leaf |-> TRUE, to |-> p, weight |-> 1]
Ref(n) == [leaf |-> FALSE, to |-> n, weight |-> 1]
MCGroup(n, exposure, models) ==
  [name |-> n, mode |-> "failover", models |-> models, exposure |-> exposure, sticky |-> "omitted"]
MCRedirect(s, t, e) == [source |-> s, target |-> t, exposure |-> e]
Rule(field, op, value, action) ==
  [match |-> [field |-> field, op |-> op, value |-> value], action |-> action]
Global(action) == Rule("global", "equals", <<>>, action)

Plain == [endpoint |-> TRUE, cascade |-> "absent", token |-> FALSE, bridge |-> FALSE, three |-> TRUE]
Marker == [Plain EXCEPT !.endpoint = FALSE, !.cascade = "on", !.token = TRUE]
Config(providers, groups, redirects, peer, smart, rules) ==
  [providers |-> providers, groups |-> groups, redirects |-> redirects,
   spoke |-> [peer |-> peer], smart |-> smart, keys |-> [n \in {"key"} |-> "secret"],
   rules |-> rules]

\* The alias "a" hides the group it leads to, which reads the spoke's leaf between two others.
HubGroups(exposure) ==
  << MCGroup("g", exposure, <<Leaf("u"), Ref("r"), Leaf("o")>>),
     MCGroup("i", "internal", <<Leaf("m")>>),
     MCGroup("s", "public", <<Leaf("o")>>) >>
HubProviders == [n \in {"m", "u", "o"} |-> IF n = "m" THEN Marker ELSE Plain]
HubRedirects == <<MCRedirect("r", "i", "hidden"), MCRedirect("a", "g", "public")>>
HubRules ==
  << Global("effort" :> <<"low", "high">>),
     Rule("upstream-model", "startWith", <<"u">>, "effort_mode" :> "strip" @@ "max_tokens" :> 2),
     Rule("client-model", "include", <<"g">>, "thinking" :> "off"),
     Rule("key", "equals", <<"k">>, "effort" :> <<"low", "xhigh">> @@ "temperature_mode" :> "strip"),
     Rule("key", "include", <<"n">>, "effort" :> <<"none">>),
     Rule("key", "include", <<"r">>, "protocol" :> "openai.responses"),
     Rule("key", "include", <<"c">>, "protocol" :> "anthropic.messages"),
     Rule("key", "include", <<"o">>, "protocol" :> "ollama.chat") >>

Hub1 == Config(HubProviders, HubGroups("public"), HubRedirects, NoName,
               [cheap |-> "i", scout |-> "s", enabled |-> {"g"}], HubRules)
\* The smart route gone, and the group with it from what clients may call.
Hub2 == Config(HubProviders, HubGroups("internal"), HubRedirects, NoName, NoSmart,
               <<Rule("upstream-model", "equals", <<"u">>, "protocol" :> "openai.chat")>>)
\* The entry is an alias of an internal group.
HubAlias == [Hub2 EXCEPT !.smart = [cheap |-> "i", scout |-> "i", enabled |-> {"a"}]]

\* The spoke's peer, the hub under another name, a local model.
Spoke1 == Config([n \in {"b", "v", "w"} |-> Plain],
                 <<MCGroup("g", "hidden", <<Leaf("b"), Leaf("v"), Leaf("w")>>)>>, <<>>, "b", NoSmart,
                 <<Rule("upstream-model", "equals", <<"w">>, "protocol" :> "ollama.chat")>>)
Spoke2 == [Spoke1 EXCEPT !.groups = <<MCGroup("g", "internal", <<Leaf("w")>>)>>]

MCConfigs == "hub" :> <<Hub1, Hub2>> @@ "spoke" :> <<Spoke1, Spoke2>>
StillConfigs == "hub" :> <<Hub1>> @@ "spoke" :> <<Spoke1>>
AliasConfigs == "hub" :> <<HubAlias>> @@ "spoke" :> <<Spoke1>>

MCNames == {"g", "i", "s", "r", "a"}
MCProviders == {"m", "u", "o", "b", "v", "w"}
Nodes2 == {"hub", "spoke"}
Endpoint(protocols) == [endpoints |-> <<protocols>>, protocols |-> <<>>]
Three == <<"openai.chat", "openai.responses", "anthropic.messages">>
MCFormatsOf ==
  "m" :> [endpoints |-> <<>>, protocols |-> Three]
    @@ "u" :> Endpoint(<<"openai.responses", "anthropic.messages">>)
    @@ "o" :> Endpoint(<<"ollama.chat", "openai.chat">>)
    @@ "b" :> Endpoint(Three) @@ "v" :> Endpoint(<<"openai.chat">>) @@ "w" :> Endpoint(<<"ollama.chat">>)
MCAddressOf == "m" :> "session" @@ "b" :> "hub" @@ "v" :> "hub"
                 @@ [p \in {"u", "o", "w"} |-> "upstream"]
MCSpokeOf == "m" :> "spoke" @@ [p \in {"u", "o", "b", "v", "w"} |-> "none"]
MCModelAt == [p \in MCProviders |-> "g"]
MCSpelling == [n \in MCNames \cup MCProviders |-> <<n>>]

\* Turns of a conversation, and the request of a client for it.
Says(head, tail) == [head |-> head, middle |-> {}, tail |-> tail]
Found == [head |-> {"material", "continue"}, middle |-> {}, tail |-> {}]
Listing == [head |-> {"material"}, middle |-> {"code"}, tail |-> {}]
Words == Says({"words"}, {})
User(text, texts, image) == [by |-> "user", text |-> text, number |-> texts, image |-> image]
Tells(text, calls) == [by |-> "assistant", text |-> text, calls |-> calls]
Tools(texts, aside) == [by |-> "tools", texts |-> texts, aside |-> aside]
Plainly == <<User(NoText, 1, FALSE)>>
CallOnce(tool, result) == Plainly \o <<Tells(NoText, <<tool>>), Tools(<<result>>, <<>>)>>

Name(what, i, k) == what \o ToString(i) \o ToString(k)
MCAsk(format, conv) ==
  LET responses == format = "openai.responses"
      claude == format = "anthropic.messages"
      said(role, i, number, image) ==
        LET parts == [k \in 1 .. number |-> Text(<<Name("said", i, k)>>)]
        IN  IF number = 1 /\ ~ image THEN <<Said(role, parts)>>
            ELSE <<Message(role, "maps", parts \o (IF image THEN <<Image>> ELSE <<>>))>>
      id(i, k) == Name("call", i, k)
      calls(t, i) == [k \in DOMAIN t.calls |-> Use(id(i, k), t.calls[k])]
      preamble(t, i) == IF t.text = NoText THEN <<>> ELSE <<Text(<<Name("said", i, 1)>>)>>
      assistant(t, i) ==
        CASE claude -> <<Message("assistant", "maps", preamble(t, i) \o calls(t, i))>>
          [] responses ->
               (IF preamble(t, i) = <<>> THEN <<>> ELSE <<Said("assistant", preamble(t, i))>>)
                 \o [k \in DOMAIN t.calls |-> Item("call", <<calls(t, i)[k]>>)]
          [] OTHER -> <<Calling(Said("assistant", preamble(t, i)), calls(t, i))>>
      results(t, i) ==
        LET text(k) == <<Name("found", i, k)>>
            aside == [k \in DOMAIN t.aside |-> Text(<<Name("said", i, k)>>)]
        IN  IF claude
            THEN <<Message("user", "maps",
                     [k \in DOMAIN t.texts |-> Result(id(i - 1, k), text(k))] \o aside)>>
            ELSE [k \in DOMAIN t.texts |->
                    Answers(IF responses THEN "output" ELSE "tool", id(i - 1, k), text(k))]
                   \o (IF aside = <<>> THEN <<>> ELSE <<Said("user", aside)>>)
      turn(i) == LET t == conv[i]
                 IN  CASE t.by = "user" -> said("user", i, t.number, t.image)
                       [] t.by = "assistant" -> assistant(t, i)
                       [] t.by = "tools" -> results(t, i)
      turns == FlattenSeq([i \in DOMAIN conv |-> turn(i)])
      prompt == <<"prompt">>
  IN  IF format = "openai.chat"
      THEN [system |-> <<>>, messages |-> <<Said("system", <<Text(prompt)>>)>> \o turns]
      ELSE [system |-> prompt, messages |-> turns]

Request(format, effort, tokens, completion) ==
  [format |-> format, effort |-> effort, summary |-> FALSE, thinking |-> "unset",
   temperature |-> TRUE, tokens |-> tokens, completion |-> completion,
   choice |-> "unset", single |-> FALSE]
Insists(request) == [request EXCEPT !.choice = "required", !.single = TRUE]
MCRequest(node, model, key, conv, settings) ==
  [node |-> node, model |-> model, key |-> key, conv |-> conv,
   request |-> settings]

\* The judge's, and those that are hard to convert: texts around calls, two calls at once,
\* several texts, media, a text beside the results.
JudgedConvs ==
  { CallOnce("grep", Listing), CallOnce("other", NoText) \o <<User(Found, 1, FALSE)>>,
    CallOnce("grep", Says({"material", "synthesis", "continue"}, {"execution"})) }
HardConvs ==
  { <<User(NoText, 2, FALSE), Tells(Words, <<"grep", "other">>), Tools(<<NoText, Found>>, <<Words>>)>>,
    <<User(NoText, 1, TRUE), Tells(Words, <<>>), User(Words, 1, FALSE), Tells(NoText, <<"grep">>),
      Tools(<<NoText>>, <<>>)>> }
\* Thinking turned off by a rule's effort or by the client's word, with an effort or
\* without, for each format a leaf can be asked in.
OffRequests ==
  {MCRequest("hub", "a", <<"n", x>>, Plainly, Request("openai.chat", "high", 1, 0)) :
      x \in {"r", "c", "o"}}
    \cup {MCRequest("hub", "a", <<x[1]>>, Plainly,
                    [Request("openai.chat", x[2], 1, 0) EXCEPT !.thinking = "off"]) :
             x \in {<<"r", "">>, <<"c", "">>, <<"c", "medium">>, <<"o", "">>}}
MCRequests ==
  {MCRequest("hub", "g", <<"k">>, CallOnce("grep", Found), Request(f, "medium", 1, 0)) :
      f \in {"openai.chat", "anthropic.messages", "openai.responses"}}
    \cup {MCRequest("hub", "g", <<x[2]>>, c, Insists(Request(x[1], "", 1, 0))) : c \in HardConvs,
            x \in {<<"openai.chat", "r">>, <<"openai.chat", "c">>, <<"anthropic.messages", "r">>,
                   <<"anthropic.messages", "k">>, <<"openai.responses", "c">>, <<"openai.responses", "k">>}}
    \cup {MCRequest("hub", "g", <<"o">>, c, Request("openai.chat", "", 1, 3)) : c \in JudgedConvs}
    \cup {MCRequest("hub", m, <<"j">>, Plainly, Request("openai.chat", "max", 1, 1)) :
             m \in {"g", "i", "s"}}
    \cup {MCRequest("hub", "a", <<"k">>, Plainly, Request("openai.chat", "max", 1, 1)),
          MCRequest("spoke", "g", <<"c">>, Plainly, Request("openai.chat", "", 0, 1)),
          MCRequest("spoke", "g", <<"c">>, Plainly, Request("openai.chat", "none", 1, 0))}
    \cup OffRequests
AliasRequests ==
  {MCRequest("hub", m, <<"j">>, Plainly, Request("openai.chat", "", 1, 0)) : m \in {"a", "s"}}
=============================================================================
