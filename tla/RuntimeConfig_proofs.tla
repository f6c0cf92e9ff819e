------------------------ MODULE RuntimeConfig_proofs ------------------------
(***************************************************************************)
(* For every set of names, of starting configurations and of inputs, and   *)
(* any number of edits, Applies, crashes and restarts: the file is always  *)
(* one the process starts with and reads back as what was committed; names *)
(* stay distinct, look-ups end, the cycle check refuses exactly the        *)
(* configurations in which a group reaches itself, and no edit breaks more *)
(* than what it edits.  The run runtime_config checks the same of small    *)
(* instances.                                                              *)
(***************************************************************************)
EXTENDS RuntimeConfig, WellFoundedInduction, SequenceTheorems, FiniteSetTheorems, TLAPS

------------------------------------------------------------------------------
(* What is written to the file is what is read back from it *)

\* An entry keeps its weight, though a weight of 1 is not written.
LEMMA EntryKept ==
  ASSUME NEW e \in Entries
  PROVE  FromYamlEntry(ToYamlEntry(e)) = e
<1>1. CASE e.weight = 1
  <2>1. ToYamlEntry(e) = [form |-> "scalar", leaf |-> e.leaf, to |-> e.to]
    BY <1>1 DEF ToYamlEntry
  <2>2. FromYamlEntry(ToYamlEntry(e)) = [leaf |-> e.leaf, to |-> e.to, weight |-> e.weight]
    BY <2>1, <1>1 DEF FromYamlEntry
  <2> QED BY <2>2 DEF Entries
<1>2. CASE e.weight # 1
  <2>1. ToYamlEntry(e) = [form |-> "mapping", leaf |-> e.leaf, to |-> e.to, weight |-> e.weight]
    BY <1>2 DEF ToYamlEntry
  <2>2. FromYamlEntry(ToYamlEntry(e)) = [leaf |-> e.leaf, to |-> e.to, weight |-> e.weight]
    BY <2>1 DEF FromYamlEntry
  <2> QED BY <2>2 DEF Entries
<1> QED BY <1>1, <1>2

\* A group keeps its entries, whether they are written as "model" or as "models".
LEMMA GroupKept ==
  ASSUME NEW g \in GroupDefs
  PROVE  FromYamlGroup(ToYamlGroup(g)) = g
<1> DEFINE y == ToYamlGroup(g)
           written == [i \in DOMAIN g.models |-> ToYamlEntry(g.models[i])]
<1>1. /\ g.models \in Seq(Entries)
      /\ g = [name |-> g.name, mode |-> g.mode, models |-> g.models,
              exposure |-> g.exposure, sticky |-> g.sticky]
  BY DEF GroupDefs
<1>2. /\ y.name = g.name /\ y.mode = g.mode /\ y.exposure = g.exposure /\ y.sticky = g.sticky
      /\ y.entries = written
      /\ y.key = "model" => Len(g.models) = 1 /\ g.models[1].weight = 1
  BY DEF ToYamlGroup
<1>3. ASSUME NEW i \in DOMAIN g.models
      PROVE  FromYamlEntry(y.entries[i]) = g.models[i]
  <2>1. g.models[i] \in Entries
    BY <1>1
  <2>2. y.entries[i] = ToYamlEntry(g.models[i])
    BY <1>2
  <2> QED BY <2>1, <2>2, EntryKept
<1>4. DOMAIN y.entries = DOMAIN g.models
  BY <1>2
<1> HIDE DEF y
<1>5. FromYamlGroup(y).models = g.models
  <2>1. CASE y.key = "model"
    <3>1. /\ FromYamlGroup(y).models
               = <<[leaf |-> y.entries[1].leaf, to |-> y.entries[1].to, weight |-> 1]>>
      BY <2>1 DEF FromYamlGroup
    <3>2. Len(g.models) = 1 /\ g.models[1].weight = 1
      BY <1>2, <2>1
    <3>3. 1 \in DOMAIN g.models
      BY <1>1, <3>2
    <3>4. g.models[1] \in Entries
      BY <1>1, <3>3
    <3>5. y.entries[1] = ToYamlEntry(g.models[1])
      BY <1>2, <3>3
    <3>6. y.entries[1].leaf = g.models[1].leaf /\ y.entries[1].to = g.models[1].to
      BY <3>2, <3>5 DEF ToYamlEntry
    <3>7. g.models[1] = [leaf |-> g.models[1].leaf, to |-> g.models[1].to, weight |-> 1]
      BY <3>2, <3>4 DEF Entries
    <3>8. g.models = <<g.models[1]>>
      BY <1>1, <3>2
    <3> QED BY <3>1, <3>6, <3>7, <3>8
  <2>2. CASE y.key # "model"
    <3>1. FromYamlGroup(y).models = [i \in DOMAIN y.entries |-> FromYamlEntry(y.entries[i])]
      BY <2>2 DEF FromYamlGroup
    <3>2. FromYamlGroup(y).models = [i \in DOMAIN g.models |-> g.models[i]]
      BY <1>3, <1>4, <3>1
    <3> QED BY <1>1, <3>2
  <2> QED BY <2>1, <2>2
<1>6. FromYamlGroup(y) = [name |-> g.name, mode |-> g.mode, models |-> g.models,
                          exposure |-> g.exposure, sticky |-> g.sticky]
  <2>1. FromYamlGroup(y) = [name |-> y.name, mode |-> y.mode, models |-> FromYamlGroup(y).models,
                            exposure |-> y.exposure, sticky |-> y.sticky]
    BY DEF FromYamlGroup
  <2> QED BY <1>2, <1>5, <2>1
<1> QED BY <1>1, <1>6 DEF y

\* A provider is written as the keys that are set, and these say what it is.
LEMMA ProviderKept ==
  ASSUME NEW p \in Providers
  PROVE  FromYamlProvider(ToYamlProvider(p)) = p
<1> DEFINE y == ToYamlProvider(p)
           q == FromYamlProvider(y)
<1>1. /\ p = [endpoint |-> p.endpoint, cascade |-> p.cascade, token |-> p.token,
              bridge |-> p.bridge, three |-> p.three]
      /\ p.endpoint \in BOOLEAN /\ p.token \in BOOLEAN /\ p.bridge \in BOOLEAN
      /\ p.three \in BOOLEAN
      /\ p.cascade \in {"absent", "off", "on"} /\ (p.cascade = "absent" => ~ p.token)
  BY DEF Providers
<1>2. /\ "endpoint" \in y <=> p.endpoint
      /\ "bridge" \in y <=> p.bridge
      /\ "three" \in y <=> p.three
  BY DEF ToYamlProvider
<1>3. /\ "cascade.on" \in y <=> p.cascade = "on"
      /\ "cascade.off" \in y <=> p.cascade = "off"
      /\ "cascade.token" \in y <=> (p.cascade # "absent" /\ p.token)
  BY DEF ToYamlProvider
<1> HIDE DEF y
<1>4. q.endpoint = p.endpoint
  BY <1>1, <1>2 DEF FromYamlProvider
<1>5. q.bridge = p.bridge
  BY <1>1, <1>2 DEF FromYamlProvider
<1>6. q.three = p.three
  BY <1>1, <1>2 DEF FromYamlProvider
<1>7. q.cascade = p.cascade
  BY <1>1, <1>3 DEF FromYamlProvider
<1>8. q.token = p.token
  BY <1>1, <1>3 DEF FromYamlProvider
<1>9. q = [endpoint |-> q.endpoint, cascade |-> q.cascade, token |-> q.token,
           bridge |-> q.bridge, three |-> q.three]
  BY DEF FromYamlProvider
<1> HIDE DEF q
<1>10. q = p
  BY <1>1, <1>4, <1>5, <1>6, <1>7, <1>8, <1>9
<1> QED BY <1>10 DEF q, y

\* A file that was written from a configuration is read back as that configuration.
LEMMA FileKeeps ==
  ASSUME NEW c, IsConfiguration(c)
  PROVE  Load(SyncFromConfig(c)) = c
<1> DEFINE G == [i \in DOMAIN c.groups |-> ToYamlGroup(c.groups[i])]
           P == [n \in DOMAIN c.providers |-> ToYamlProvider(c.providers[n])]
           f == SyncFromConfig(c)
<1>1. /\ c = [providers |-> c.providers, groups |-> c.groups, redirects |-> c.redirects,
              spoke |-> c.spoke, smart |-> c.smart, keys |-> c.keys, rules |-> c.rules]
      /\ c.groups \in Seq(GroupDefs)
      /\ c.providers \in [DOMAIN c.providers -> Providers]
  BY DEF IsConfiguration
<1>2. f = [providers |-> P, groups |-> G, redirects |-> c.redirects,
           spoke |-> c.spoke, smart |-> c.smart, keys |-> c.keys, rules |-> c.rules]
  <2>1. f = [c EXCEPT !.groups = G, !.providers = P]
    BY DEF SyncFromConfig
  <2> HIDE DEF f, G, P
  <2> QED BY <1>1, <2>1
<1>3. [i \in DOMAIN f.groups |-> FromYamlGroup(f.groups[i])] = c.groups
  <2>1. f.groups = G
    BY <1>2
  <2>2. ASSUME NEW i \in DOMAIN c.groups PROVE FromYamlGroup(G[i]) = c.groups[i]
    <3>1. c.groups[i] \in GroupDefs
      BY <1>1
    <3> QED BY <3>1, GroupKept
  <2>3. DOMAIN G = DOMAIN c.groups
    OBVIOUS
  <2>4. c.groups = [i \in DOMAIN c.groups |-> c.groups[i]]
    BY <1>1
  <2> HIDE DEF G, f
  <2> QED BY <2>1, <2>2, <2>3, <2>4
<1>4. [n \in DOMAIN f.providers |-> FromYamlProvider(f.providers[n])] = c.providers
  <2>1. f.providers = P
    BY <1>2
  <2>2. ASSUME NEW n \in DOMAIN c.providers PROVE FromYamlProvider(P[n]) = c.providers[n]
    <3>1. c.providers[n] \in Providers
      BY <1>1
    <3> QED BY <3>1, ProviderKept
  <2>3. DOMAIN P = DOMAIN c.providers
    OBVIOUS
  <2>4. c.providers = [n \in DOMAIN c.providers |-> c.providers[n]]
    BY <1>1
  <2> HIDE DEF P, f
  <2> QED BY <2>1, <2>2, <2>3, <2>4
<1> HIDE DEF G, P, f
<1>5. Load(f) = [providers |-> c.providers, groups |-> c.groups, redirects |-> c.redirects,
                 spoke |-> c.spoke, smart |-> c.smart, keys |-> c.keys, rules |-> c.rules]
  <2>1. Load(f) = [f EXCEPT !.groups = c.groups, !.providers = c.providers]
    <3>1. Load(f) = [f EXCEPT !.groups = [i \in DOMAIN f.groups |-> FromYamlGroup(f.groups[i])],
                              !.providers = [n \in DOMAIN f.providers |->
                                               FromYamlProvider(f.providers[n])]]
      BY <1>2 DEF Load
    <3> QED BY <1>3, <1>4, <3>1
  <2> QED BY <1>2, <2>1
<1> QED BY <1>1, <1>5 DEF f

------------------------------------------------------------------------------
(* Configurations with one part replaced *)

\* The groups.
LEMMA WithGroups ==
  ASSUME NEW c, IsConfiguration(c), NEW x \in Seq(GroupDefs), NEW d, d = [c EXCEPT !.groups = x]
  PROVE  IsConfiguration(d) /\ d.groups = x /\ d.redirects = c.redirects
           /\ d.providers = c.providers
BY DEF IsConfiguration

\* The redirects.
LEMMA WithRedirects ==
  ASSUME NEW c, IsConfiguration(c), NEW x \in Seq(RedirectDefs),
         NEW d, d = [c EXCEPT !.redirects = x]
  PROVE  IsConfiguration(d) /\ d.redirects = x /\ d.groups = c.groups
           /\ d.providers = c.providers
BY DEF IsConfiguration

\* The providers.
LEMMA WithProviders ==
  ASSUME NEW c, IsConfiguration(c), NEW x, x \in [DOMAIN x -> Providers],
         DOMAIN x \subseteq ProviderNames, IsFiniteSet(DOMAIN x),
         NEW d, d = [c EXCEPT !.providers = x]
  PROVE  IsConfiguration(d) /\ d.providers = x /\ d.groups = c.groups
           /\ d.redirects = c.redirects
BY DEF IsConfiguration

\* The parts that no other part refers to.
LEMMA WithOther ==
  ASSUME NEW c, IsConfiguration(c), NEW x, NEW d,
         \/ d = [c EXCEPT !.spoke = x]
         \/ d = [c EXCEPT !.keys = x]
         \/ d = [c EXCEPT !.rules = x]
  PROVE  IsConfiguration(d) /\ d.providers = c.providers /\ d.groups = c.groups
           /\ d.redirects = c.redirects
<1>1. CASE d = [c EXCEPT !.spoke = x]
  BY <1>1 DEF IsConfiguration
<1>2. CASE d = [c EXCEPT !.keys = x]
  BY <1>2 DEF IsConfiguration
<1>3. CASE d = [c EXCEPT !.rules = x]
  BY <1>3 DEF IsConfiguration
<1> QED BY <1>1, <1>2, <1>3

------------------------------------------------------------------------------
(* Sequences *)

\* RemoveAt closes the gap.
LEMMA Removed ==
  ASSUME NEW T, NEW s \in Seq(T), NEW i \in DOMAIN s
  PROVE  /\ RemoveAt(s, i) \in Seq(T) /\ Len(RemoveAt(s, i)) = Len(s) - 1
         /\ \A j \in 1 .. Len(s) - 1 : RemoveAt(s, i)[j] = IF j < i THEN s[j] ELSE s[j + 1]
<1> DEFINE a == SubSeq(s, 1, i - 1)
           b == SubSeq(s, i + 1, Len(s))
<1>1. i \in 1 .. Len(s) /\ Len(s) \in Nat
  OBVIOUS
<1>2. /\ a \in Seq(T) /\ Len(a) = i - 1
      /\ \A j \in 1 .. i - 1 : a[j] = s[j]
  BY <1>1
<1>3. /\ b \in Seq(T) /\ Len(b) = Len(s) - i
      /\ \A j \in 1 .. Len(s) - i : b[j] = s[i + j]
  BY <1>1
<1>4. RemoveAt(s, i) = a \o b
  BY DEF RemoveAt
<1> HIDE DEF a, b
<1>5. a \o b \in Seq(T) /\ Len(a \o b) = Len(s) - 1
  BY <1>1, <1>2, <1>3
<1>6. ASSUME NEW j \in 1 .. Len(s) - 1 PROVE (a \o b)[j] = IF j < i THEN s[j] ELSE s[j + 1]
  BY <1>1, <1>2, <1>3
<1> QED BY <1>4, <1>5, <1>6

\* Reverse is a permutation.
LEMMA Reversed ==
  ASSUME NEW T, NEW s \in Seq(T)
  PROVE  /\ Reverse(s) \in Seq(T) /\ Len(Reverse(s)) = Len(s)
         /\ \A i \in DOMAIN s : Len(s) - i + 1 \in DOMAIN s /\ Reverse(s)[i] = s[Len(s) - i + 1]
BY DEF Reverse

------------------------------------------------------------------------------
(* The pieces that edits are made of *)

\* Renaming the target of entries leaves a list of entries.
LEMMA RetargetTyped ==
  ASSUME NEW m \in Seq(Entries), NEW leaf \in BOOLEAN, NEW old, NEW new \in Names \cup ProviderNames
  PROVE  /\ Retarget(m, leaf, old, new) \in Seq(Entries)
         /\ DOMAIN Retarget(m, leaf, old, new) = DOMAIN m
<1> DEFINE q == Retarget(m, leaf, old, new)
<1>1. q = [i \in DOMAIN m |-> IF IsLeaf(m[i]) = leaf /\ m[i].to = old
                              THEN [m[i] EXCEPT !.to = new] ELSE m[i]]
  BY DEF Retarget
<1> HIDE DEF q
<1>2. ASSUME NEW i \in DOMAIN m PROVE q[i] \in Entries
  <2>1. m[i] \in Entries
    OBVIOUS
  <2>2. [m[i] EXCEPT !.to = new] \in Entries
    BY <2>1 DEF Entries
  <2> QED BY <1>1, <2>1, <2>2
<1>3. DOMAIN m = 1 .. Len(m) /\ Len(m) \in Nat
  OBVIOUS
<1>4. DOMAIN q = DOMAIN m /\ q \in [DOMAIN m -> Entries]
  BY <1>1, <1>2
<1>5. q \in Seq(Entries)
  BY <1>3, <1>4
<1> QED BY <1>4, <1>5 DEF q

\* And a table of groups, with the names and modes it had.
LEMMA RetargetGroupsTyped ==
  ASSUME NEW gs \in Seq(GroupDefs), NEW skip, NEW leaf \in BOOLEAN, NEW old,
         NEW new \in Names \cup ProviderNames,
         NEW q, q = RetargetGroups(gs, skip, leaf, old, new)
  PROVE  /\ q \in Seq(GroupDefs) /\ Len(q) = Len(gs)
         /\ \A i \in DOMAIN gs :
              /\ q[i].name = gs[i].name
              /\ q[i].models = IF gs[i].name = skip THEN gs[i].models
                                ELSE Retarget(gs[i].models, leaf, old, new)
<1>1. q = [i \in DOMAIN gs |->
             IF gs[i].name = skip THEN gs[i]
             ELSE [gs[i] EXCEPT !.models = Retarget(gs[i].models, leaf, old, new)]]
  BY DEF RetargetGroups
<1>2. DOMAIN gs = 1 .. Len(gs) /\ Len(gs) \in Nat
  OBVIOUS
<1>3. ASSUME NEW i \in DOMAIN gs
      PROVE  /\ q[i] \in GroupDefs /\ q[i].name = gs[i].name
             /\ q[i].models = IF gs[i].name = skip THEN gs[i].models
                               ELSE Retarget(gs[i].models, leaf, old, new)
  <2>1. gs[i] \in GroupDefs
    OBVIOUS
  <2>2. gs[i].models \in Seq(Entries)
    BY <2>1 DEF GroupDefs
  <2>3. PICK m \in Seq(Entries) : m = Retarget(gs[i].models, leaf, old, new)
    BY <2>2, RetargetTyped
  <2>4. CASE gs[i].name = skip
    BY <1>1, <2>1, <2>4
  <2>5. CASE gs[i].name # skip
    <3>1. q[i] = [gs[i] EXCEPT !.models = m]
      BY <1>1, <2>3, <2>5
    <3>2. q[i] \in GroupDefs /\ q[i].name = gs[i].name /\ q[i].models = m
      BY <2>1, <3>1 DEF GroupDefs
    <3> QED BY <2>3, <2>5, <3>2
  <2> QED BY <2>4, <2>5
<1>4. DOMAIN q = DOMAIN gs
  BY <1>1
<1>5. q \in [DOMAIN gs -> GroupDefs]
  BY <1>1, <1>3
<1>6. q \in Seq(GroupDefs) /\ Len(q) = Len(gs)
  BY <1>2, <1>4, <1>5
<1> QED BY <1>3, <1>6

\* The group an update writes.
LEMMA UpdatedGroupTyped ==
  ASSUME IsConfiguration(draft), NEW old \in GroupNames(draft), NEW in \in GroupDefs
  PROVE  /\ UpdatedGroup(old, in) \in GroupDefs
         /\ UpdatedGroup(old, in).name = in.name /\ UpdatedGroup(old, in).models = in.models
<1>1. Group(draft, old) \in GroupDefs
  <2>1. \E i \in DOMAIN draft.groups : draft.groups[i].name = old
    BY DEF GroupNames
  <2>2. (CHOOSE i \in DOMAIN draft.groups : draft.groups[i].name = old) \in DOMAIN draft.groups
    BY <2>1
  <2>3. draft.groups \in Seq(GroupDefs)
    BY DEF IsConfiguration
  <2>4. PICK k \in DOMAIN draft.groups : Group(draft, old) = draft.groups[k]
    BY <2>2 DEF Group
  <2> QED BY <2>3, <2>4
<1> DEFINE Stickies == {"omitted", "off", "on"}
<1>2. Group(draft, old).sticky \in Stickies /\ in.sticky \in Stickies
  BY <1>1 DEF GroupDefs
<1>3. PICK v \in Stickies : UpdatedGroup(old, in) = [in EXCEPT !.sticky = v]
  <2>1. CASE in.mode # "load-balance"
    <3>1. UpdatedGroup(old, in) = [in EXCEPT !.sticky = "omitted"]
      BY <2>1 DEF UpdatedGroup
    <3> QED BY <3>1
  <2>2. CASE in.mode = "load-balance" /\ in.sticky = "omitted"
    <3>1. UpdatedGroup(old, in) = [in EXCEPT !.sticky = Group(draft, old).sticky]
      BY <2>2 DEF UpdatedGroup
    <3> QED BY <1>2, <3>1
  <2>3. CASE in.mode = "load-balance" /\ in.sticky # "omitted"
    <3>1. UpdatedGroup(old, in) = [in EXCEPT !.sticky = in.sticky]
      BY <2>3 DEF UpdatedGroup
    <3> QED BY <1>2, <3>1
  <2> QED BY <2>1, <2>2, <2>3
<1> QED BY <1>3 DEF GroupDefs

------------------------------------------------------------------------------
(* Every edit makes a configuration of a configuration *)

\* The entries of a group of the draft once group old was updated.
UpdatedModels(g, old, in) ==
  IF g.name = old THEN in.models
  ELSE IF g.name = in.name THEN g.models ELSE Retarget(g.models, FALSE, old, in.name)

\* Those of groups: what UpdateModelGroup writes, part by part.
LEMMA UpdateWrites ==
  ASSUME IsConfiguration(draft), NEW old, NEW in \in GroupDefs, UpdateModelGroup(old, in)
  PROVE  /\ IsConfiguration(draft') /\ draft'.providers = draft.providers
         /\ Len(draft'.groups) = Len(draft.groups)
         /\ \A i \in DOMAIN draft.groups :
              draft'.groups[i].name = IF draft.groups[i].name = old THEN in.name
                                      ELSE draft.groups[i].name
         /\ \A i \in DOMAIN draft.groups :
              draft'.groups[i].models = UpdatedModels(draft.groups[i], old, in)
         /\ Len(draft'.redirects) = Len(draft.redirects)
         /\ \A i \in DOMAIN draft.redirects :
              /\ draft'.redirects[i].source = draft.redirects[i].source
              /\ draft'.redirects[i].target = IF draft.redirects[i].target = old THEN in.name
                                              ELSE draft.redirects[i].target
<1> DEFINE G1 == [i \in DOMAIN draft.groups |-> IF draft.groups[i].name = old
                                               THEN UpdatedGroup(old, in) ELSE draft.groups[i]]
           d1 == ReplaceGroup(old, UpdatedGroup(old, in))
           R == [i \in DOMAIN draft.redirects |->
                   IF draft.redirects[i].target = old
                   THEN [draft.redirects[i] EXCEPT !.target = in.name] ELSE draft.redirects[i]]
           G2 == RetargetGroups(G1, in.name, FALSE, old, in.name)
<1>1. old \in GroupNames(draft) /\ draft' = PropagateRename(d1, old, in.name)
  BY DEF UpdateModelGroup, Edit
<1>2. draft.groups \in Seq(GroupDefs) /\ draft.redirects \in Seq(RedirectDefs)
  BY DEF IsConfiguration
<1>3. in.name \in Names
  BY DEF GroupDefs
<1>4. PICK g \in GroupDefs :
        g = UpdatedGroup(old, in) /\ g.name = in.name /\ g.models = in.models
  BY <1>1, UpdatedGroupTyped
<1>5. /\ G1 \in Seq(GroupDefs) /\ Len(G1) = Len(draft.groups)
      /\ \A i \in DOMAIN draft.groups :
           /\ G1[i].name = IF draft.groups[i].name = old THEN in.name ELSE draft.groups[i].name
           /\ G1[i].models = IF draft.groups[i].name = old THEN in.models
                             ELSE draft.groups[i].models
  BY <1>2, <1>4
<1>6. ASSUME NEW i \in DOMAIN draft.redirects
      PROVE  /\ R[i] \in RedirectDefs /\ R[i].source = draft.redirects[i].source
             /\ R[i].target = IF draft.redirects[i].target = old THEN in.name
                              ELSE draft.redirects[i].target
  <2>1. draft.redirects[i] \in RedirectDefs
    BY <1>2
  <2> QED BY <1>3, <2>1 DEF RedirectDefs
<1>7. R \in Seq(RedirectDefs) /\ Len(R) = Len(draft.redirects)
  <2> DEFINE r == R
  <2>1. DOMAIN draft.redirects = 1 .. Len(draft.redirects) /\ Len(draft.redirects) \in Nat
    BY <1>2
  <2>2. r \in [DOMAIN draft.redirects -> RedirectDefs]
    <3>1. \A i \in DOMAIN draft.redirects : R[i] \in RedirectDefs
      BY <1>6
    <3> QED BY <3>1
  <2> HIDE DEF r, R
  <2>3. r \in Seq(RedirectDefs) /\ Len(r) = Len(draft.redirects)
    BY <2>1, <2>2
  <2> QED BY <2>3 DEF r
<1>8. /\ G2 \in Seq(GroupDefs) /\ Len(G2) = Len(draft.groups)
      /\ \A i \in DOMAIN draft.groups :
           /\ G2[i].name = IF draft.groups[i].name = old THEN in.name ELSE draft.groups[i].name
           /\ G2[i].models = UpdatedModels(draft.groups[i], old, in)
  <2> HIDE DEF G1
  <2>1. /\ G2 \in Seq(GroupDefs) /\ Len(G2) = Len(G1)
        /\ \A i \in DOMAIN G1 :
             /\ G2[i].name = G1[i].name
             /\ G2[i].models = IF G1[i].name = in.name THEN G1[i].models
                               ELSE Retarget(G1[i].models, FALSE, old, in.name)
    <3>1. in.name \in Names \cup ProviderNames /\ G1 \in Seq(GroupDefs)
      BY <1>3, <1>5
    <3>2. PICK q, gs, new, leaf : q = G2 /\ gs = G1 /\ new = in.name /\ leaf = FALSE
      OBVIOUS
    <3>3. /\ q = RetargetGroups(gs, new, leaf, old, new)
          /\ gs \in Seq(GroupDefs) /\ new \in Names \cup ProviderNames /\ leaf \in BOOLEAN
      BY <3>1, <3>2
    <3> HIDE DEF G2, R
    <3>4. /\ q \in Seq(GroupDefs) /\ Len(q) = Len(gs)
          /\ \A i \in DOMAIN gs :
               /\ q[i].name = gs[i].name
               /\ q[i].models = IF gs[i].name = new THEN gs[i].models
                                ELSE Retarget(gs[i].models, leaf, old, new)
      BY <3>3, RetargetGroupsTyped
    <3> QED BY <3>2, <3>4
  <2>2. DOMAIN G1 = DOMAIN draft.groups
    BY <1>2, <1>5
  <2> QED BY <1>5, <2>1, <2>2 DEF UpdatedModels
<1>9. d1 = [draft EXCEPT !.groups = G1]
  BY DEF ReplaceGroup
<1> HIDE DEF d1, G1, G2, R
<1>10. /\ IsConfiguration(d1) /\ d1.groups = G1 /\ d1.redirects = draft.redirects
       /\ d1.providers = draft.providers
  BY <1>5, <1>9, WithGroups
<1>11. draft' = [d1 EXCEPT !.redirects = R, !.groups = G2]
  BY <1>1, <1>10 DEF PropagateRename, R, G2
<1>12. PICK d2 : d2 = [d1 EXCEPT !.redirects = R]
  OBVIOUS
<1>13. IsConfiguration(d2) /\ d2.redirects = R /\ d2.providers = draft.providers
  BY <1>7, <1>10, <1>12, WithRedirects
<1>14. draft' = [d2 EXCEPT !.groups = G2]
  BY <1>11, <1>12
<1>15. /\ IsConfiguration(draft') /\ draft'.groups = G2 /\ draft'.redirects = R
       /\ draft'.providers = draft.providers
  BY <1>8, <1>13, <1>14, WithGroups
<1> QED BY <1>6, <1>7, <1>8, <1>15

\* CreateModelGroup.
LEMMA CreateGroupWrites ==
  ASSUME IsConfiguration(draft), NEW in \in GroupDefs, CreateModelGroup(in)
  PROVE  /\ IsConfiguration(draft') /\ draft'.providers = draft.providers
         /\ draft'.groups = Append(draft.groups, in) /\ draft'.redirects = draft.redirects
         /\ in.name \notin GroupNames(draft) \cup Sources(draft)
<1>1. /\ draft' = [draft EXCEPT !.groups = Append(draft.groups, in)]
      /\ in.name \notin GroupNames(draft) \cup Sources(draft)
  BY DEF CreateModelGroup, Edit, NameTaken
<1>2. PICK x \in Seq(GroupDefs) : x = Append(draft.groups, in)
  <2>1. Append(draft.groups, in) \in Seq(GroupDefs)
    BY DEF IsConfiguration
  <2> QED BY <2>1
<1>3. draft' = [draft EXCEPT !.groups = x]
  BY <1>1, <1>2
<1>4. IsConfiguration(draft') /\ draft'.providers = draft.providers
  BY <1>3, WithGroups
<1>5. /\ draft'.groups = x /\ draft'.redirects = draft.redirects
  BY <1>3, WithGroups
<1> QED BY <1>1, <1>2, <1>4, <1>5

\* DeleteModelGroup.
LEMMA DeleteGroupWrites ==
  ASSUME IsConfiguration(draft), NEW n, DeleteModelGroup(n)
  PROVE  /\ IsConfiguration(draft') /\ draft'.providers = draft.providers
         /\ \E i \in DOMAIN draft.groups : /\ draft.groups[i].name = n
                                          /\ draft'.groups = RemoveAt(draft.groups, i)
         /\ draft'.redirects = draft.redirects
         /\ ~ References(n)
<1>1. PICK i \in DOMAIN draft.groups :
        /\ draft.groups[i].name = n
        /\ draft' = [draft EXCEPT !.groups = RemoveAt(draft.groups, i)]
  BY DEF DeleteModelGroup, Edit
<1>2. RemoveAt(draft.groups, i) \in Seq(GroupDefs)
  <2>1. draft.groups \in Seq(GroupDefs)
    BY DEF IsConfiguration
  <2> QED BY <2>1, Removed
<1>3. ~ References(n)
  BY DEF DeleteModelGroup
<1> QED BY <1>1, <1>2, <1>3, WithGroups

\* ReorderModelGroups.
LEMMA ReorderGroupsWrites ==
  ASSUME IsConfiguration(draft), ReorderModelGroups
  PROVE  /\ IsConfiguration(draft') /\ draft'.providers = draft.providers
         /\ draft'.groups = Reverse(draft.groups) /\ draft'.redirects = draft.redirects
<1>1. draft' = [draft EXCEPT !.groups = Reverse(draft.groups)]
  BY DEF ReorderModelGroups, Edit
<1>2. Reverse(draft.groups) \in Seq(GroupDefs)
  <2>1. draft.groups \in Seq(GroupDefs)
    BY DEF IsConfiguration
  <2> QED BY <2>1, Reversed
<1> QED BY <1>1, <1>2, WithGroups

\* CreateRedirect.
LEMMA CreateRedirectWrites ==
  ASSUME IsConfiguration(draft), NEW in \in RedirectDefs, CreateRedirect(in)
  PROVE  /\ IsConfiguration(draft') /\ draft'.providers = draft.providers
         /\ draft'.redirects = Append(draft.redirects, in) /\ draft'.groups = draft.groups
         /\ in.source \notin GroupNames(draft) \cup Sources(draft)
         /\ in.target \in GroupNames(draft) \cup Sources(draft)
         /\ ~ WouldCreateCycle(draft', in.source)
<1>1. /\ draft' = [draft EXCEPT !.redirects = Append(draft.redirects, in)]
      /\ in.source \notin GroupNames(draft) \cup Sources(draft)
      /\ in.target \in GroupNames(draft) \cup Sources(draft)
      /\ ~ WouldCreateCycle(draft', in.source)
  BY DEF CreateRedirect, Edit, NameTaken
<1>2. PICK x \in Seq(RedirectDefs) : x = Append(draft.redirects, in)
  <2>1. Append(draft.redirects, in) \in Seq(RedirectDefs)
    BY DEF IsConfiguration
  <2> QED BY <2>1
<1>3. draft' = [draft EXCEPT !.redirects = x]
  BY <1>1, <1>2
<1>4. IsConfiguration(draft') /\ draft'.providers = draft.providers
  BY <1>3, WithRedirects
<1>5. /\ draft'.redirects = x /\ draft'.groups = draft.groups
  BY <1>3, WithRedirects
<1> QED BY <1>1, <1>2, <1>4, <1>5

\* UpdateRedirect.
LEMMA UpdateRedirectWrites ==
  ASSUME IsConfiguration(draft), NEW old, NEW in \in RedirectDefs, UpdateRedirect(old, in)
  PROVE  /\ IsConfiguration(draft') /\ draft'.providers = draft.providers
         /\ Len(draft'.redirects) = Len(draft.redirects)
         /\ \A i \in DOMAIN draft.redirects :
              draft'.redirects[i] = IF draft.redirects[i].source = old THEN in
                                    ELSE draft.redirects[i]
         /\ draft'.groups = draft.groups
         /\ old \in Sources(draft)
         /\ in.source # old => in.source \notin GroupNames(draft) \cup Sources(draft)
         /\ in.target \in GroupNames(draft) \cup Sources(draft)
         /\ ~ WouldCreateCycle(draft', in.source)
<1> DEFINE R == [i \in DOMAIN draft.redirects |->
                   IF draft.redirects[i].source = old THEN in ELSE draft.redirects[i]]
<1>1. /\ draft' = [draft EXCEPT !.redirects = R]
      /\ old \in Sources(draft)
      /\ in.source # old => in.source \notin GroupNames(draft) \cup Sources(draft)
      /\ in.target \in GroupNames(draft) \cup Sources(draft)
      /\ ~ WouldCreateCycle(draft', in.source)
  BY DEF UpdateRedirect, Edit, NameTaken
<1>2. R \in Seq(RedirectDefs) /\ Len(R) = Len(draft.redirects)
  <2>1. draft.redirects \in Seq(RedirectDefs)
    BY DEF IsConfiguration
  <2> QED BY <2>1
<1>3. \A i \in DOMAIN draft.redirects :
        R[i] = IF draft.redirects[i].source = old THEN in ELSE draft.redirects[i]
  OBVIOUS
<1> HIDE DEF R
<1> QED BY <1>1, <1>2, <1>3, WithRedirects

\* DeleteRedirect.
LEMMA DeleteRedirectWrites ==
  ASSUME IsConfiguration(draft), NEW s, DeleteRedirect(s)
  PROVE  /\ IsConfiguration(draft') /\ draft'.providers = draft.providers
         /\ \E i \in DOMAIN draft.redirects : /\ draft.redirects[i].source = s
                                             /\ draft'.redirects = RemoveAt(draft.redirects, i)
         /\ draft'.groups = draft.groups
<1>1. PICK i \in DOMAIN draft.redirects :
        /\ draft.redirects[i].source = s
        /\ draft' = [draft EXCEPT !.redirects = RemoveAt(draft.redirects, i)]
  BY DEF DeleteRedirect, Edit
<1>2. RemoveAt(draft.redirects, i) \in Seq(RedirectDefs)
  <2>1. draft.redirects \in Seq(RedirectDefs)
    BY DEF IsConfiguration
  <2> QED BY <2>1, Removed
<1> QED BY <1>1, <1>2, WithRedirects

\* ReorderRedirects.
LEMMA ReorderRedirectsWrites ==
  ASSUME IsConfiguration(draft), ReorderRedirects
  PROVE  /\ IsConfiguration(draft') /\ draft'.providers = draft.providers
         /\ draft'.redirects = Reverse(draft.redirects) /\ draft'.groups = draft.groups
<1>1. draft' = [draft EXCEPT !.redirects = Reverse(draft.redirects)]
  BY DEF ReorderRedirects, Edit
<1>2. Reverse(draft.redirects) \in Seq(RedirectDefs)
  <2>1. draft.redirects \in Seq(RedirectDefs)
    BY DEF IsConfiguration
  <2> QED BY <2>1, Reversed
<1> QED BY <1>1, <1>2, WithRedirects

------------------------------------------------------------------------------
(* Edits of providers, of the cascade role, of keys and of rules *)

\* A table of providers.
ProviderTable(f) ==
  f \in [DOMAIN f -> Providers] /\ DOMAIN f \subseteq ProviderNames /\ IsFiniteSet(DOMAIN f)

\* One provider put in.
LEMMA PutTyped ==
  ASSUME NEW f, ProviderTable(f), NEW n \in ProviderNames, NEW p \in Providers
  PROVE  ProviderTable(Put(f, n, p)) /\ DOMAIN Put(f, n, p) = DOMAIN f \cup {n}
<1>1. DOMAIN Put(f, n, p) = DOMAIN f \cup {n}
  BY DEF Put
<1>2. IsFiniteSet(DOMAIN f \cup {n})
  BY FS_AddElement DEF ProviderTable
<1>3. Put(f, n, p) \in [DOMAIN f \cup {n} -> Providers]
  BY DEF ProviderTable, Put
<1> QED BY <1>1, <1>2, <1>3 DEF ProviderTable

\* One provider taken out.
LEMMA DropTyped ==
  ASSUME NEW f, ProviderTable(f), NEW n
  PROVE  ProviderTable(Drop(f, n)) /\ DOMAIN Drop(f, n) = DOMAIN f \ {n}
<1>1. DOMAIN Drop(f, n) = DOMAIN f \ {n}
  BY DEF Drop
<1>2. IsFiniteSet(DOMAIN f \ {n})
  BY FS_RemoveElement DEF ProviderTable
<1>3. Drop(f, n) \in [DOMAIN f \ {n} -> Providers]
  BY DEF ProviderTable, Drop
<1> QED BY <1>1, <1>2, <1>3 DEF ProviderTable

\* A provider without a cascade block keeps the one it had.
LEMMA UpdatedProviderTyped ==
  ASSUME NEW was \in Providers, NEW p \in Providers
  PROVE  UpdatedProvider(was, p) \in Providers
<1>1. CASE p.cascade = "absent"
  <2>1. UpdatedProvider(was, p) = [p EXCEPT !.cascade = was.cascade, !.token = was.token]
    BY <1>1 DEF UpdatedProvider
  <2>2. /\ was.cascade \in {"absent", "off", "on"} /\ was.token \in BOOLEAN
        /\ was.cascade = "absent" => ~ was.token
    BY DEF Providers
  <2> QED BY <2>1, <2>2 DEF Providers
<1>2. CASE p.cascade # "absent"
  BY <1>2 DEF UpdatedProvider
<1> QED BY <1>1, <1>2

\* Clearing the hubs takes cascade blocks and unused markers away.
LEMMA ClearHubsTyped ==
  ASSUME IsConfiguration(draft), NEW except
  PROVE  ProviderTable(ClearHubs(except))
<1> DEFINE D == {x \in DOMAIN draft.providers : x \notin Markers(except) \/ ReferencingGroups(x) # {}}
           q == ClearHubs(except)
<1>1. q = [n \in D |-> IF n \in Hubs(draft) \ {except}
                      THEN [draft.providers[n] EXCEPT !.cascade = "absent", !.token = FALSE]
                      ELSE draft.providers[n]]
  BY DEF ClearHubs
<1>2. D \subseteq DOMAIN draft.providers
  OBVIOUS
<1> HIDE DEF D, q
<1>3. ASSUME NEW n \in D PROVE q[n] \in Providers
  <2>1. draft.providers[n] \in Providers
    BY <1>2 DEF IsConfiguration
  <2>2. [draft.providers[n] EXCEPT !.cascade = "absent", !.token = FALSE] \in Providers
    BY <2>1 DEF Providers
  <2> QED BY <1>1, <2>1, <2>2
<1>4. DOMAIN q = D /\ q \in [D -> Providers]
  BY <1>1, <1>3
<1>5. D \subseteq ProviderNames /\ IsFiniteSet(D)
  BY <1>2, FS_Subset DEF IsConfiguration
<1> QED BY <1>4, <1>5 DEF ProviderTable, q

\* Only the parts given change; of groups only the entries do.
NamesKept(d) ==
  /\ IsConfiguration(d) /\ d.redirects = draft.redirects
  /\ Len(d.groups) = Len(draft.groups)
  /\ \A i \in DOMAIN draft.groups : d.groups[i].name = draft.groups[i].name

\* A new table of providers.
LEMMA NewProviders ==
  ASSUME IsConfiguration(draft), NEW f, ProviderTable(f), draft' = [draft EXCEPT !.providers = f]
  PROVE  NamesKept(draft')
BY WithProviders DEF NamesKept, ProviderTable

\* A new table of providers, and a new role.
LEMMA NewRole ==
  ASSUME IsConfiguration(draft), NEW f, ProviderTable(f), NEW s,
         draft' = [draft EXCEPT !.spoke = s, !.providers = f]
  PROVE  NamesKept(draft')
<1>1. PICK d : d = [draft EXCEPT !.spoke = s]
  OBVIOUS
<1>2. IsConfiguration(d) /\ d.groups = draft.groups /\ d.redirects = draft.redirects
  BY <1>1, WithOther
<1>3. PICK e : e = draft' /\ e = [d EXCEPT !.providers = f]
  BY <1>1
<1>4. /\ f \in [DOMAIN f -> Providers] /\ DOMAIN f \subseteq ProviderNames
      /\ IsFiniteSet(DOMAIN f)
  BY DEF ProviderTable
<1>5. IsConfiguration(e) /\ e.groups = d.groups /\ e.redirects = d.redirects
  BY <1>2, <1>3, <1>4 DEF IsConfiguration
<1> QED BY <1>2, <1>3, <1>5 DEF NamesKept

\* UpdateProvider, which renames the provider in the entries of all groups.
LEMMA UpdateProviderWrites ==
  ASSUME IsConfiguration(draft), NEW old, NEW in \in ProviderInputs, UpdateProvider(old, in)
  PROVE  /\ NamesKept(draft')
         /\ DOMAIN draft'.providers = (DOMAIN draft.providers \ {old}) \cup {in.name}
         /\ \A i \in DOMAIN draft.groups :
              draft'.groups[i].models = Retarget(draft.groups[i].models, TRUE, old, in.name)
<1> DEFINE p == UpdatedProvider(draft.providers[old], in.body)
           f == Put(Drop(draft.providers, old), in.name, p)
           G == RetargetGroups(draft.groups, NoName, TRUE, old, in.name)
<1>1. /\ old \in DOMAIN draft.providers
      /\ draft' = [draft EXCEPT !.providers = f, !.groups = G]
  BY DEF UpdateProvider, Edit
<1>2. in.name \in ProviderNames /\ in.body \in Providers
  BY RuntimeAssumption
<1>3. p \in Providers
  <2>1. draft.providers[old] \in Providers
    BY <1>1 DEF IsConfiguration
  <2> QED BY <1>2, <2>1, UpdatedProviderTyped
<1>4. ProviderTable(f) /\ DOMAIN f = (DOMAIN draft.providers \ {old}) \cup {in.name}
  <2>1. ProviderTable(draft.providers)
    BY DEF IsConfiguration, ProviderTable
  <2>2. PICK g : /\ g = Drop(draft.providers, old) /\ ProviderTable(g)
                 /\ DOMAIN g = DOMAIN draft.providers \ {old}
    BY <2>1, DropTyped
  <2> HIDE DEF p
  <2> QED BY <1>2, <1>3, <2>2, PutTyped
<1>5. PICK gs, new, leaf : gs = draft.groups /\ new = in.name /\ leaf = TRUE
  OBVIOUS
<1>6. /\ gs \in Seq(GroupDefs) /\ leaf \in BOOLEAN /\ new \in Names \cup ProviderNames
  BY <1>2, <1>5 DEF IsConfiguration
<1>7. PICK q : q = RetargetGroups(gs, NoName, leaf, old, new)
  OBVIOUS
<1>8. /\ q \in Seq(GroupDefs) /\ Len(q) = Len(gs)
      /\ \A i \in DOMAIN gs :
           /\ q[i].name = gs[i].name
           /\ q[i].models = IF gs[i].name = NoName THEN gs[i].models
                             ELSE Retarget(gs[i].models, leaf, old, new)
  BY <1>6, <1>7, RetargetGroupsTyped
<1>9. G = q
  BY <1>5, <1>7
<1> HIDE DEF f, G
<1>10. PICK d : d = [draft EXCEPT !.providers = f]
  OBVIOUS
<1>11. /\ IsConfiguration(d) /\ d.groups = draft.groups /\ d.redirects = draft.redirects
       /\ d.providers = f
  BY <1>4, <1>10, WithProviders DEF ProviderTable
<1>12. draft' = [d EXCEPT !.groups = q]
  BY <1>1, <1>9, <1>10
<1>13. /\ IsConfiguration(draft') /\ draft'.groups = q /\ draft'.redirects = d.redirects
       /\ draft'.providers = f
  BY <1>8, <1>11, <1>12, WithGroups
<1>14. NamesKept(draft')
  BY <1>5, <1>8, <1>11, <1>13 DEF NamesKept
<1>15. ASSUME NEW i \in DOMAIN draft.groups
       PROVE  draft'.groups[i].models = Retarget(draft.groups[i].models, TRUE, old, in.name)
  <2>1. draft.groups[i] \in GroupDefs
    BY DEF IsConfiguration
  <2>2. draft.groups[i].name # NoName
    BY <2>1, NamesAssumption DEF GroupDefs
  <2>3. q[i].models = Retarget(gs[i].models, leaf, old, new)
    BY <1>5, <1>8, <2>2
  <2> QED BY <1>5, <1>13, <2>3
<1> QED BY <1>4, <1>13, <1>14, <1>15

\* None of the edits of other parts touches a name of the namespace.
LEMMA OtherEditsWrite ==
  ASSUME IsConfiguration(draft), EditProviders \/ EditCascade \/ EditKeys \/ EditRules
  PROVE  NamesKept(draft')
<1>1. ProviderTable(draft.providers)
  BY DEF IsConfiguration, ProviderTable
<1>2. ASSUME NEW in \in ProviderInputs, CreateProvider(in) PROVE NamesKept(draft')
  <2>1. draft' = [draft EXCEPT !.providers = Put(draft.providers, in.name, in.body)]
    BY <1>2 DEF CreateProvider, Edit
  <2>2. in.name \in ProviderNames /\ in.body \in Providers
    BY RuntimeAssumption
  <2>3. PICK f : f = Put(draft.providers, in.name, in.body) /\ ProviderTable(f)
    BY <1>1, <2>2, PutTyped
  <2> QED BY <2>1, <2>3, NewProviders
<1>3. ASSUME NEW n, DeleteProvider(n) PROVE NamesKept(draft')
  <2>1. draft' = [draft EXCEPT !.providers = Drop(draft.providers, n)]
    BY <1>3 DEF DeleteProvider, Edit
  <2>2. PICK f : f = Drop(draft.providers, n) /\ ProviderTable(f)
    BY <1>1, DropTyped
  <2> QED BY <2>1, <2>2, NewProviders
<1>4. CASE ApplyDisabled
  <2>1. draft' = [draft EXCEPT !.spoke = NoSpoke, !.providers = ClearHubs(NoName)]
    BY <1>4 DEF ApplyDisabled, Edit
  <2> QED BY <2>1, ClearHubsTyped, NewRole
<1>5. ASSUME NEW n \in CascadeNames, ApplyHub(n) PROVE NamesKept(draft')
  <2>1. draft' = [draft EXCEPT !.spoke = NoSpoke, !.providers = Put(ClearHubs(n), n, HubMarker)]
    BY <1>5 DEF ApplyHub, Edit
  <2>2. HubMarker \in Providers /\ n \in ProviderNames
    BY RuntimeAssumption DEF HubMarker, Providers
  <2>3. PICK f : f = Put(ClearHubs(n), n, HubMarker) /\ ProviderTable(f)
    BY <2>2, ClearHubsTyped, PutTyped
  <2> QED BY <2>1, <2>3, NewRole
<1>6. ASSUME NEW n, ApplySpoke(n) PROVE NamesKept(draft')
  <2>1. PICK s : draft' = [draft EXCEPT !.spoke = s, !.providers = ClearHubs(NoName)]
    BY <1>6 DEF ApplySpoke, Edit
  <2> QED BY <2>1, ClearHubsTyped, NewRole
<1>7. CASE EditKeys
  <2>1. PICK k : draft' = [draft EXCEPT !.keys = k]
    BY <1>7 DEF EditKeys, CreateAuthKey, UpdateAuthKey, DeleteAuthKey, Edit
  <2> QED BY <2>1, WithOther DEF NamesKept
<1>8. CASE EditRules
  <2>1. PICK k : draft' = [draft EXCEPT !.rules = k]
    BY <1>8 DEF EditRules, ReplaceRules, Edit
  <2> QED BY <2>1, WithOther DEF NamesKept
<1>9. CASE EditProviders
  BY <1>2, <1>3, <1>9, UpdateProviderWrites DEF EditProviders
<1>10. CASE EditCascade
  BY <1>4, <1>5, <1>6, <1>10 DEF EditCascade
<1> QED BY <1>7, <1>8, <1>9, <1>10

------------------------------------------------------------------------------
(* Walks along redirects *)

\* Every set of naturals has a least one.
LEMMA LeastOne ==
  ASSUME NEW T \in SUBSET Nat, T # {}
  PROVE  \E m \in T : \A n \in T : m <= n
<1> DEFINE R == {ss \in Nat \X Nat : ss[1] < ss[2]}
<1>1. IsWellFoundedOn(R, Nat)
  BY NatLessThanWellFounded DEF OpToRel
<1>2. ASSUME NEW n \in Nat, NEW m \in Nat, n < m PROVE <<n, m>> \in R
  BY <1>2
<1> HIDE DEF R
<1>3. PICK m \in T : \A n \in T : ~ (<<n, m>> \in R)
  BY <1>1, WFMin
<1>4. ASSUME NEW n \in T PROVE m <= n
  <2>1. m \in Nat /\ n \in Nat /\ ~ (n < m)
    BY <1>2, <1>3
  <2> QED BY <2>1
<1> QED BY <1>4

\* The walk along redirects is well defined: it begins with the name, and goes on by hops.
LEMMA Walks ==
  ASSUME NEW c, Len(c.redirects) \in Nat, NEW n
  PROVE  \E w : /\ w = [k \in 0 .. Len(c.redirects) |-> IF k = 0 THEN n ELSE Hop(c, w[k - 1])]
                /\ WalkEnd(c, n) = w[Len(c.redirects)]
<1> DEFINE N == Len(c.redirects)
           Is(f, m) == f = [k \in 0 .. m |-> IF k = 0 THEN n ELSE Hop(c, f[k - 1])]
           None == {m \in 0 .. N : ~ \E f : Is(f, m)}
<1>1. None = {}
  <2>1. SUFFICES ASSUME None # {} PROVE FALSE
    OBVIOUS
  <2>2. PICK m \in None : \A j \in None : m <= j
    <3>1. None \in SUBSET Nat
      OBVIOUS
    <3> HIDE DEF None
    <3> QED BY <2>1, <3>1, LeastOne
  <2>3. m \in Nat /\ m <= N /\ ~ \E f : Is(f, m)
    OBVIOUS
  <2>4. CASE m = 0
    <3>1. Is([k \in 0 .. 0 |-> n], 0)
      OBVIOUS
    <3> HIDE DEF Is
    <3> QED BY <2>3, <2>4, <3>1
  <2>5. CASE m # 0
    <3>1. m - 1 \in 0 .. N /\ m - 1 \notin None
      <4>1. m - 1 \in 0 .. N /\ ~ (m <= m - 1)
        BY <2>3, <2>5
      <4> HIDE DEF None
      <4> QED BY <2>2, <4>1
    <3>2. PICK f : Is(f, m - 1)
      BY <3>1
    <3> DEFINE g == [k \in 0 .. m |-> IF k = 0 THEN n ELSE Hop(c, f[k - 1])]
    <3>3. ASSUME NEW k \in 0 .. m, k # 0 PROVE g[k - 1] = f[k - 1]
      <4>1. k - 1 \in 0 .. m - 1 /\ k - 1 \in 0 .. m
        BY <2>3, <3>3
      <4>2. f[k - 1] = IF k - 1 = 0 THEN n ELSE Hop(c, f[k - 1 - 1])
        BY <3>2, <4>1
      <4> QED BY <4>1, <4>2
    <3>4. Is(g, m)
      BY <3>3
    <3> HIDE DEF Is
    <3> QED BY <2>3, <3>4
  <2> QED BY <2>4, <2>5
<1>2. \E f : Is(f, N)
  BY <1>1
<1> DEFINE w == CHOOSE f : Is(f, N)
<1>3. Is(w, N)
  <2> HIDE DEF Is
  <2> QED BY <1>2
<1>4. WalkEnd(c, n) = w[N]
  BY DEF WalkEnd
<1> HIDE DEF w
<1> QED BY <1>3, <1>4

\* A walk does not leave a set that is closed under hops.
LEMMA WalkStays ==
  ASSUME NEW c, Len(c.redirects) \in Nat, NEW S, NEW n \in S, \A s \in S : Hop(c, s) \in S
  PROVE  WalkEnd(c, n) \in S
<1> DEFINE N == Len(c.redirects)
<1>1. PICK w : /\ w = [k \in 0 .. N |-> IF k = 0 THEN n ELSE Hop(c, w[k - 1])]
               /\ WalkEnd(c, n) = w[N]
  BY Walks
<1> DEFINE Out == {k \in 0 .. N : w[k] \notin S}
<1>2. Out = {}
  <2>1. SUFFICES ASSUME Out # {} PROVE FALSE
    OBVIOUS
  <2>2. PICK m \in Out : \A j \in Out : m <= j
    <3>1. Out \in SUBSET Nat
      OBVIOUS
    <3> HIDE DEF Out
    <3> QED BY <2>1, <3>1, LeastOne
  <2>3. CASE m = 0
    BY <1>1, <2>2, <2>3
  <2>4. CASE m # 0
    <3>1. m - 1 \in 0 .. N /\ m - 1 \notin Out
      BY <2>2, <2>4
    <3>2. w[m - 1] \in S
      BY <3>1
    <3>3. w[m] = Hop(c, w[m - 1])
      BY <1>1, <2>4
    <3> QED BY <2>2, <3>2, <3>3
  <2> QED BY <2>3, <2>4
<1>3. N \in 0 .. N
  OBVIOUS
<1> QED BY <1>1, <1>2, <1>3

------------------------------------------------------------------------------
(* Names stay distinct, and chains of redirects end *)

NamesOK(c) == Distinct(c) /\ ChainsEnd(c)

\* ChainsEnd by the positions of redirects: some redirect leads out of every set.
LeadsOut(c, S) ==
  \E i \in DOMAIN c.redirects : c.redirects[i].source \in S /\ c.redirects[i].target \notin S

LEMMA ChainsIndexed ==
  ASSUME NEW c
  PROVE  ChainsEnd(c) <=> \A S \in SUBSET Sources(c) : S # {} => LeadsOut(c, S)
BY DEF ChainsEnd, LeadsOut, ToSet

\* The redirect of a source is one of the table.
LEMMA RedirectFound ==
  ASSUME NEW c, NEW s \in Sources(c)
  PROVE  \E i \in DOMAIN c.redirects : c.redirects[i].source = s /\ Redirect(c, s) = c.redirects[i]
<1>1. \E i \in DOMAIN c.redirects : c.redirects[i].source = s
  BY DEF Sources
<1>2. PICK k : k = CHOOSE i \in DOMAIN c.redirects : c.redirects[i].source = s
  OBVIOUS
<1>3. k \in DOMAIN c.redirects /\ c.redirects[k].source = s
  BY <1>1, <1>2
<1> QED BY <1>2, <1>3 DEF Redirect

\* A closed set of sources that are no groups is met by the check of a cycle, begun
\* anywhere in it.
LEMMA ClosedSetFound ==
  ASSUME NEW c, IsConfiguration(c), NEW S \in SUBSET Sources(c), ~ LeadsOut(c, S),
         GroupNames(c) \cap S = {}, NEW n \in S
  PROVE  WalkEnd(c, n) \in S
<1>1. ASSUME NEW s \in S PROVE Hop(c, s) \in S
  <2>1. PICK i \in DOMAIN c.redirects :
          c.redirects[i].source = s /\ Redirect(c, s) = c.redirects[i]
    BY RedirectFound
  <2>2. Hop(c, s) = c.redirects[i].target
    BY <2>1 DEF Hop
  <2> QED BY <2>1, <2>2 DEF LeadsOut
<1>2. Len(c.redirects) \in Nat
  BY DEF IsConfiguration
<1> QED BY <1>1, <1>2, WalkStays

\* A configuration the resolver takes has no circle of redirects.
LEMMA ApplicableChainsEnd ==
  ASSUME NEW c, IsConfiguration(c), Applicable(c), GroupNames(c) \cap Sources(c) = {}
  PROVE  ChainsEnd(c)
<1> SUFFICES ASSUME NEW S \in SUBSET Sources(c), S # {}, ~ LeadsOut(c, S) PROVE FALSE
  BY ChainsIndexed
<1>1. PICK s \in S : TRUE
  OBVIOUS
<1>2. PICK i \in DOMAIN c.redirects : c.redirects[i].source = s
  BY <1>1 DEF Sources
<1>3. c.redirects[i].target \in S
  BY <1>1, <1>2 DEF LeadsOut
<1>4. WalkEnd(c, c.redirects[i].target) \in S
  BY <1>3, ClosedSetFound
<1>5. ResolveAlias(c, c.redirects[i].target) = NoName
  BY <1>4 DEF ResolveAlias
<1>6. ValidRedirects(c)
  BY DEF Applicable, NewResolverOK
<1> QED BY <1>2, <1>5, <1>6 DEF ValidRedirects, ToSet

\* Nothing of the namespace changed.
LEMMA SameNames ==
  ASSUME NEW c, IsConfiguration(c), NamesOK(c), NEW d, IsConfiguration(d),
         d.redirects = c.redirects, Len(d.groups) = Len(c.groups),
         \A i \in DOMAIN c.groups : d.groups[i].name = c.groups[i].name
  PROVE  NamesOK(d)
<1>1. DOMAIN d.groups = DOMAIN c.groups
  BY DEF IsConfiguration
<1>2. GroupNames(d) = GroupNames(c) /\ Sources(d) = Sources(c)
  BY <1>1 DEF GroupNames, Sources
<1>3. Distinct(d)
  BY <1>1, <1>2 DEF Distinct, NamesOK
<1>4. ChainsEnd(d)
  BY <1>2 DEF ChainsEnd, NamesOK
<1> QED BY <1>3, <1>4 DEF NamesOK

\* A group of a name nobody has.
LEMMA GroupAdded ==
  ASSUME NEW c, IsConfiguration(c), NamesOK(c), NEW d, NEW g, d.redirects = c.redirects,
         d.groups = Append(c.groups, g), g.name \notin GroupNames(c) \cup Sources(c)
  PROVE  NamesOK(d)
<1> DEFINE N == Len(c.groups)
<1>1. /\ DOMAIN d.groups = 1 .. N + 1 /\ DOMAIN c.groups = 1 .. N /\ N \in Nat
      /\ d.groups[N + 1] = g /\ \A i \in 1 .. N : d.groups[i] = c.groups[i]
  BY DEF IsConfiguration
<1>2. ASSUME NEW i \in 1 .. N PROVE d.groups[i].name # g.name
  BY <1>1, <1>2 DEF GroupNames
<1>3. GroupNames(d) = GroupNames(c) \cup {g.name} /\ Sources(d) = Sources(c)
  BY <1>1 DEF GroupNames, Sources
<1>4. \A i, j \in DOMAIN d.groups : d.groups[i].name = d.groups[j].name => i = j
  BY <1>1, <1>2 DEF NamesOK, Distinct
<1>5. Distinct(d)
  BY <1>3, <1>4 DEF Distinct, NamesOK
<1>6. ChainsEnd(d)
  BY <1>3 DEF ChainsEnd, NamesOK
<1> QED BY <1>5, <1>6 DEF NamesOK

\* Positions of one list in another, none twice.
Picks(o, D, E) == o \in [D -> E] /\ \A i, j \in D : o[i] = o[j] => i = j

\* RemoveAt and Reverse pick positions of the list they are given.
LEMMA RemovedPicks ==
  ASSUME NEW T, NEW s \in Seq(T), NEW k \in DOMAIN s
  PROVE  \E o : /\ Picks(o, DOMAIN RemoveAt(s, k), DOMAIN s)
                /\ \A i \in DOMAIN RemoveAt(s, k) : RemoveAt(s, k)[i] = s[o[i]] /\ o[i] # k
<1> DEFINE N == Len(s)
           o == [i \in 1 .. N - 1 |-> IF i < k THEN i ELSE i + 1]
<1>1. PICK q : /\ q = RemoveAt(s, k) /\ q \in Seq(T) /\ Len(q) = N - 1
               /\ \A j \in 1 .. N - 1 : q[j] = IF j < k THEN s[j] ELSE s[j + 1]
  BY Removed
<1>2. N \in Nat /\ DOMAIN s = 1 .. N /\ DOMAIN q = 1 .. N - 1 /\ k \in 1 .. N
  BY <1>1
<1>3. ASSUME NEW i \in 1 .. N - 1 PROVE o[i] \in 1 .. N /\ o[i] # k /\ q[i] = s[o[i]]
  BY <1>1, <1>2
<1>4. ASSUME NEW i \in 1 .. N - 1, NEW j \in 1 .. N - 1, o[i] = o[j] PROVE i = j
  BY <1>2, <1>4
<1>5. o \in [1 .. N - 1 -> 1 .. N]
  BY <1>3
<1>6. Picks(o, 1 .. N - 1, 1 .. N)
  <2> HIDE DEF o
  <2> QED BY <1>4, <1>5 DEF Picks
<1> HIDE DEF o, N
<1> QED BY <1>1, <1>2, <1>3, <1>6

LEMMA ReversedPicks ==
  ASSUME NEW T, NEW s \in Seq(T)
  PROVE  \E o : /\ Picks(o, DOMAIN Reverse(s), DOMAIN s)
                /\ \A i \in DOMAIN Reverse(s) : Reverse(s)[i] = s[o[i]]
<1> DEFINE N == Len(s)
           o == [i \in 1 .. N |-> N - i + 1]
<1>1. PICK q : /\ q = Reverse(s) /\ q \in Seq(T) /\ Len(q) = N
               /\ \A i \in DOMAIN s : q[i] = s[N - i + 1]
  BY Reversed
<1>2. N \in Nat /\ DOMAIN s = 1 .. N /\ DOMAIN q = 1 .. N
  BY <1>1
<1>3. ASSUME NEW i \in 1 .. N PROVE o[i] \in 1 .. N /\ q[i] = s[o[i]]
  BY <1>1, <1>2
<1>4. ASSUME NEW i \in 1 .. N, NEW j \in 1 .. N, o[i] = o[j] PROVE i = j
  BY <1>2, <1>4
<1>5. o \in [1 .. N -> 1 .. N]
  BY <1>3
<1>6. Picks(o, 1 .. N, 1 .. N)
  <2> HIDE DEF o
  <2> QED BY <1>4, <1>5 DEF Picks
<1> HIDE DEF o, N
<1> QED BY <1>1, <1>2, <1>3, <1>6

\* Groups picked from a table without two of a name.
LEMMA GroupsPicked ==
  ASSUME NEW c, NamesOK(c), NEW d, d.redirects = c.redirects,
         NEW o, Picks(o, DOMAIN d.groups, DOMAIN c.groups),
         \A i \in DOMAIN d.groups : d.groups[i] = c.groups[o[i]]
  PROVE  NamesOK(d)
<1>1. \A i, j \in DOMAIN d.groups : d.groups[i].name = d.groups[j].name => i = j
  BY DEF NamesOK, Distinct, Picks
<1>2. GroupNames(d) \subseteq GroupNames(c) /\ Sources(d) = Sources(c)
  BY DEF GroupNames, Sources, Picks
<1>3. Distinct(d)
  BY <1>1, <1>2 DEF Distinct, NamesOK
<1>4. ChainsEnd(d)
  BY <1>2 DEF ChainsEnd, NamesOK
<1> QED BY <1>3, <1>4 DEF NamesOK

\* Redirects picked from a table in which every chain ends.
LEMMA RedirectsPicked ==
  ASSUME NEW c, NamesOK(c), NEW d, d.groups = c.groups,
         NEW o, Picks(o, DOMAIN d.redirects, DOMAIN c.redirects),
         \A i \in DOMAIN d.redirects : d.redirects[i] = c.redirects[o[i]]
  PROVE  NamesOK(d)
<1>1. \A i, j \in DOMAIN d.redirects : d.redirects[i].source = d.redirects[j].source => i = j
  BY DEF NamesOK, Distinct, Picks
<1>2. GroupNames(d) = GroupNames(c) /\ Sources(d) \subseteq Sources(c)
  BY DEF GroupNames, Sources, Picks
<1>3. Distinct(d)
  BY <1>1, <1>2 DEF Distinct, NamesOK
<1>4. ASSUME NEW S \in SUBSET Sources(d), S # {} PROVE LeadsOut(d, S)
  <2>1. PICK k \in DOMAIN c.redirects : c.redirects[k].source \in S /\ c.redirects[k].target \notin S
    BY <1>2, <1>4, ChainsIndexed DEF NamesOK, LeadsOut
  <2>2. PICK i \in DOMAIN d.redirects : d.redirects[i].source = c.redirects[k].source
    BY <2>1 DEF Sources
  <2>3. o[i] \in DOMAIN c.redirects /\ d.redirects[i] = c.redirects[o[i]]
    BY DEF Picks
  <2>4. o[i] = k
    BY <2>1, <2>2, <2>3 DEF NamesOK, Distinct
  <2> QED BY <2>1, <2>3, <2>4 DEF LeadsOut
<1> QED BY <1>3, <1>4, ChainsIndexed DEF NamesOK

\* A group renamed to a name nobody has, in the table and as the target of redirects.
LEMMA GroupRenamed ==
  ASSUME NEW c, IsConfiguration(c), NamesOK(c), NEW d, IsConfiguration(d),
         NEW old \in GroupNames(c), NEW new,
         new # old => new \notin GroupNames(c) \cup Sources(c),
         Len(d.groups) = Len(c.groups),
         \A i \in DOMAIN c.groups :
           d.groups[i].name = IF c.groups[i].name = old THEN new ELSE c.groups[i].name,
         Len(d.redirects) = Len(c.redirects),
         \A i \in DOMAIN c.redirects :
           /\ d.redirects[i].source = c.redirects[i].source
           /\ d.redirects[i].target = IF c.redirects[i].target = old THEN new
                                      ELSE c.redirects[i].target
  PROVE  NamesOK(d)
<1>1. DOMAIN d.groups = DOMAIN c.groups /\ DOMAIN d.redirects = DOMAIN c.redirects
  BY DEF IsConfiguration
<1>2. Sources(d) = Sources(c)
  BY <1>1 DEF Sources
<1>3. GroupNames(d) \subseteq GroupNames(c) \cup {new}
  BY <1>1 DEF GroupNames
<1>4. new \notin Sources(c)
  BY DEF NamesOK, Distinct
<1>5. \A i, j \in DOMAIN d.groups : d.groups[i].name = d.groups[j].name => i = j
  <2>1. \A i \in DOMAIN c.groups : c.groups[i].name \in GroupNames(c)
    BY DEF GroupNames
  <2>2. \A i, j \in DOMAIN c.groups : c.groups[i].name = c.groups[j].name => i = j
    BY DEF NamesOK, Distinct
  <2> QED BY <1>1, <2>1, <2>2
<1>6. Distinct(d)
  <2>1. \A i, j \in DOMAIN d.redirects : d.redirects[i].source = d.redirects[j].source => i = j
    BY <1>1 DEF NamesOK, Distinct
  <2> QED BY <1>2, <1>3, <1>4, <1>5, <2>1 DEF NamesOK, Distinct
<1>7. ASSUME NEW S \in SUBSET Sources(d), S # {} PROVE LeadsOut(d, S)
  <2>1. PICK i \in DOMAIN c.redirects : c.redirects[i].source \in S /\ c.redirects[i].target \notin S
    BY <1>2, <1>7, ChainsIndexed DEF NamesOK, LeadsOut
  <2>2. d.redirects[i].source \in S /\ d.redirects[i].target \notin S
    BY <1>2, <1>4, <2>1
  <2> QED BY <1>1, <2>2 DEF LeadsOut
<1> QED BY <1>6, <1>7, ChainsIndexed DEF NamesOK

\* A redirect that leads into no cycle, new or in the place of another.
LEMMA RedirectAdded ==
  ASSUME NEW c, IsConfiguration(c), NamesOK(c), NEW d, IsConfiguration(d), NEW in,
         d.groups = c.groups, d.redirects = Append(c.redirects, in),
         in.source \notin GroupNames(c) \cup Sources(c), ~ WouldCreateCycle(d, in.source)
  PROVE  NamesOK(d)
<1> DEFINE N == Len(c.redirects)
<1>1. /\ DOMAIN d.redirects = 1 .. N + 1 /\ DOMAIN c.redirects = 1 .. N /\ N \in Nat
      /\ d.redirects[N + 1] = in /\ \A i \in 1 .. N : d.redirects[i] = c.redirects[i]
  BY DEF IsConfiguration
<1>2. ASSUME NEW i \in 1 .. N PROVE d.redirects[i].source # in.source
  BY <1>1, <1>2 DEF Sources
<1>3. Sources(d) = Sources(c) \cup {in.source} /\ GroupNames(d) = GroupNames(c)
  BY <1>1 DEF GroupNames, Sources
<1>4. \A i, j \in DOMAIN d.redirects : d.redirects[i].source = d.redirects[j].source => i = j
  BY <1>1, <1>2 DEF NamesOK, Distinct
<1>5. Distinct(d)
  BY <1>3, <1>4 DEF Distinct, NamesOK
<1>6. ASSUME NEW S \in SUBSET Sources(d), S # {}, ~ LeadsOut(d, S) PROVE FALSE
  <2>1. CASE in.source \in S
    <3>1. GroupNames(d) \cap S = {}
      BY <1>5 DEF Distinct
    <3>2. WalkEnd(d, in.source) \in S
      BY <1>6, <2>1, <3>1, ClosedSetFound
    <3> QED BY <3>1, <3>2 DEF WouldCreateCycle
  <2>2. CASE in.source \notin S
    <3>1. S \in SUBSET Sources(c)
      BY <1>3, <2>2
    <3>2. ~ LeadsOut(c, S)
      BY <1>1, <1>6 DEF LeadsOut
    <3> QED BY <1>6, <3>1, <3>2, ChainsIndexed DEF NamesOK
  <2> QED BY <2>1, <2>2
<1> QED BY <1>5, <1>6, ChainsIndexed DEF NamesOK

LEMMA RedirectReplaced ==
  ASSUME NEW c, IsConfiguration(c), NamesOK(c), NEW d, IsConfiguration(d), NEW in,
         NEW old \in Sources(c), d.groups = c.groups, Len(d.redirects) = Len(c.redirects),
         \A i \in DOMAIN c.redirects :
           d.redirects[i] = IF c.redirects[i].source = old THEN in ELSE c.redirects[i],
         in.source # old => in.source \notin GroupNames(c) \cup Sources(c),
         ~ WouldCreateCycle(d, in.source)
  PROVE  NamesOK(d)
<1>1. DOMAIN d.redirects = DOMAIN c.redirects
  BY DEF IsConfiguration
<1>2. \A i \in DOMAIN c.redirects : c.redirects[i].source \in Sources(c)
  BY DEF Sources
<1>3. \A i, j \in DOMAIN c.redirects : c.redirects[i].source = c.redirects[j].source => i = j
  BY DEF NamesOK, Distinct
<1>4. \A i, j \in DOMAIN d.redirects : d.redirects[i].source = d.redirects[j].source => i = j
  BY <1>1, <1>2, <1>3
<1>5. /\ Sources(d) \subseteq Sources(c) \cup {in.source} /\ GroupNames(d) = GroupNames(c)
      /\ in.source # old => old \notin Sources(d)
  <2>1. Sources(d) \subseteq Sources(c) \cup {in.source} /\ GroupNames(d) = GroupNames(c)
    BY <1>1 DEF GroupNames, Sources
  <2>2. ASSUME NEW i \in DOMAIN d.redirects, in.source # old PROVE d.redirects[i].source # old
    BY <1>1, <2>2
  <2> QED BY <2>1, <2>2 DEF Sources
<1>6. in.source \notin GroupNames(c)
  BY DEF NamesOK, Distinct
<1>7. Distinct(d)
  BY <1>4, <1>5, <1>6 DEF Distinct, NamesOK
<1>8. ASSUME NEW S \in SUBSET Sources(d), S # {}, ~ LeadsOut(d, S) PROVE FALSE
  <2>1. CASE in.source \in S
    <3>1. GroupNames(d) \cap S = {}
      BY <1>7 DEF Distinct
    <3>2. WalkEnd(d, in.source) \in S
      BY <1>8, <2>1, <3>1, ClosedSetFound
    <3> QED BY <3>1, <3>2 DEF WouldCreateCycle
  <2>2. CASE in.source \notin S
    <3>1. S \in SUBSET Sources(c) /\ old \notin S
      BY <1>5, <2>2
    <3>2. ~ LeadsOut(c, S)
      BY <1>1, <1>8, <3>1 DEF LeadsOut
    <3> QED BY <1>8, <3>1, <3>2, ChainsIndexed DEF NamesOK
  <2> QED BY <2>1, <2>2
<1> QED BY <1>7, <1>8, ChainsIndexed DEF NamesOK

------------------------------------------------------------------------------
(* All edits *)

AnEdit ==
  EditGroups \/ EditRedirects \/ EditProviders \/ EditCascade \/ EditKeys \/ EditRules

\* Every edit leaves a configuration, with the names in order if they were.
LEMMA EditMoves ==
  ASSUME IsConfiguration(draft), AnEdit
  PROVE  IsConfiguration(draft') /\ (NamesOK(draft) => NamesOK(draft'))
<1>1. ASSUME NEW in \in GroupInputs, CreateModelGroup(in)
      PROVE  IsConfiguration(draft') /\ (NamesOK(draft) => NamesOK(draft'))
  <2>1. in \in GroupDefs
    BY RuntimeAssumption
  <2> QED BY <1>1, <2>1, CreateGroupWrites, GroupAdded
<1>2. ASSUME NEW old, NEW in \in GroupInputs, UpdateModelGroup(old, in)
      PROVE  IsConfiguration(draft') /\ (NamesOK(draft) => NamesOK(draft'))
  <2>1. in \in GroupDefs
    BY RuntimeAssumption
  <2>2. /\ old \in GroupNames(draft)
        /\ in.name # old => in.name \notin GroupNames(draft) \cup Sources(draft)
    BY <1>2 DEF UpdateModelGroup, NameTaken
  <2>3. /\ IsConfiguration(draft')
        /\ Len(draft'.groups) = Len(draft.groups)
        /\ \A i \in DOMAIN draft.groups :
             draft'.groups[i].name = IF draft.groups[i].name = old THEN in.name
                                     ELSE draft.groups[i].name
        /\ Len(draft'.redirects) = Len(draft.redirects)
        /\ \A i \in DOMAIN draft.redirects :
             /\ draft'.redirects[i].source = draft.redirects[i].source
             /\ draft'.redirects[i].target = IF draft.redirects[i].target = old THEN in.name
                                             ELSE draft.redirects[i].target
    BY <1>2, <2>1, UpdateWrites
  <2> QED BY <2>2, <2>3, GroupRenamed
<1>3. ASSUME NEW n, DeleteModelGroup(n)
      PROVE  IsConfiguration(draft') /\ (NamesOK(draft) => NamesOK(draft'))
  <2>1. PICK i \in DOMAIN draft.groups : draft'.groups = RemoveAt(draft.groups, i)
    BY <1>3, DeleteGroupWrites
  <2>2. IsConfiguration(draft') /\ draft'.redirects = draft.redirects
    BY <1>3, DeleteGroupWrites
  <2>3. draft.groups \in Seq(GroupDefs)
    BY DEF IsConfiguration
  <2>4. PICK o : /\ Picks(o, DOMAIN draft'.groups, DOMAIN draft.groups)
                 /\ \A j \in DOMAIN draft'.groups : draft'.groups[j] = draft.groups[o[j]]
    BY <2>1, <2>3, RemovedPicks
  <2> QED BY <2>2, <2>4, GroupsPicked
<1>4. CASE ReorderModelGroups
  <2>1. /\ IsConfiguration(draft') /\ draft'.redirects = draft.redirects
        /\ draft'.groups = Reverse(draft.groups)
    BY <1>4, ReorderGroupsWrites
  <2>2. draft.groups \in Seq(GroupDefs)
    BY DEF IsConfiguration
  <2>3. PICK o : /\ Picks(o, DOMAIN draft'.groups, DOMAIN draft.groups)
                 /\ \A j \in DOMAIN draft'.groups : draft'.groups[j] = draft.groups[o[j]]
    BY <2>1, <2>2, ReversedPicks
  <2> QED BY <2>1, <2>3, GroupsPicked
<1>5. ASSUME NEW in \in RedirectInputs, CreateRedirect(in)
      PROVE  IsConfiguration(draft') /\ (NamesOK(draft) => NamesOK(draft'))
  <2>1. in \in RedirectDefs
    BY RuntimeAssumption
  <2> QED BY <1>5, <2>1, CreateRedirectWrites, RedirectAdded
<1>6. ASSUME NEW old, NEW in \in RedirectInputs, UpdateRedirect(old, in)
      PROVE  IsConfiguration(draft') /\ (NamesOK(draft) => NamesOK(draft'))
  <2>1. in \in RedirectDefs
    BY RuntimeAssumption
  <2> QED BY <1>6, <2>1, UpdateRedirectWrites, RedirectReplaced
<1>7. ASSUME NEW s, DeleteRedirect(s)
      PROVE  IsConfiguration(draft') /\ (NamesOK(draft) => NamesOK(draft'))
  <2>1. PICK i \in DOMAIN draft.redirects : draft'.redirects = RemoveAt(draft.redirects, i)
    BY <1>7, DeleteRedirectWrites
  <2>2. IsConfiguration(draft') /\ draft'.groups = draft.groups
    BY <1>7, DeleteRedirectWrites
  <2>3. draft.redirects \in Seq(RedirectDefs)
    BY DEF IsConfiguration
  <2>4. PICK o : /\ Picks(o, DOMAIN draft'.redirects, DOMAIN draft.redirects)
                 /\ \A j \in DOMAIN draft'.redirects : draft'.redirects[j] = draft.redirects[o[j]]
    BY <2>1, <2>3, RemovedPicks
  <2> QED BY <2>2, <2>4, RedirectsPicked
<1>8. CASE ReorderRedirects
  <2>1. /\ IsConfiguration(draft') /\ draft'.groups = draft.groups
        /\ draft'.redirects = Reverse(draft.redirects)
    BY <1>8, ReorderRedirectsWrites
  <2>2. draft.redirects \in Seq(RedirectDefs)
    BY DEF IsConfiguration
  <2>3. PICK o : /\ Picks(o, DOMAIN draft'.redirects, DOMAIN draft.redirects)
                 /\ \A j \in DOMAIN draft'.redirects : draft'.redirects[j] = draft.redirects[o[j]]
    BY <2>1, <2>2, ReversedPicks
  <2> QED BY <2>1, <2>3, RedirectsPicked
<1>9. CASE EditProviders \/ EditCascade \/ EditKeys \/ EditRules
  BY <1>9, OtherEditsWrite, SameNames DEF NamesKept
<1>10. CASE EditGroups
  BY <1>1, <1>2, <1>3, <1>4, <1>10 DEF EditGroups
<1>11. CASE EditRedirects
  BY <1>5, <1>6, <1>7, <1>8, <1>11 DEF EditRedirects
<1> QED BY <1>9, <1>10, <1>11 DEF AnEdit

------------------------------------------------------------------------------
(* The inductive invariants *)

\* The file is the committed configuration up to the rename, and the draft, which has
\* passed every check, from then to the commit: whether the process runs or not.
FileInv ==
  /\ IsConfiguration(draft) /\ IsConfiguration(active) /\ Applicable(active)
  /\ pc \in {"idle", "save", "reinit", "commit"}
  /\ pc # "idle" => Applicable(draft)
  /\ file = SyncFromConfig(IF pc \in {"idle", "save"} THEN active ELSE draft)

\* The names are in order in whatever a discard, an Apply or a restart can put back.
NamesInv == FileInv /\ NamesOK(draft) /\ NamesOK(active)

\* An edit is made between two Applies and touches the draft alone.
LEMMA EditKeeps ==
  ASSUME AnEdit
  PROVE  pc = "idle" /\ UNCHANGED <<pc, file, active>>
BY DEF AnEdit, EditGroups, EditRedirects, EditProviders, EditCascade, EditKeys, EditRules,
  CreateModelGroup, UpdateModelGroup, DeleteModelGroup, ReorderModelGroups, CreateRedirect,
  UpdateRedirect, DeleteRedirect, ReorderRedirects, CreateProvider, UpdateProvider,
  DeleteProvider, ApplyDisabled, ApplyHub, ApplySpoke, CreateAuthKey, UpdateAuthKey,
  DeleteAuthKey, ReplaceRules, Edit, Idle

\* What the file brings back.
LEMMA FileReadBack ==
  ASSUME FileInv
  PROVE  /\ Load(file) = IF pc \in {"idle", "save"} THEN active ELSE draft
         /\ IsConfiguration(Load(file)) /\ Applicable(Load(file))
<1>1. CASE pc \in {"idle", "save"}
  BY <1>1, FileKeeps DEF FileInv
<1>2. CASE pc \notin {"idle", "save"}
  BY <1>2, FileKeeps DEF FileInv
<1> QED BY <1>1, <1>2

\* No step of an Apply, no failure of one, no crash and no restart breaks this.
LEMMA FileMoves ==
  ASSUME FileInv, [Next]_vars
  PROVE  FileInv'
<1>1. CASE AnEdit
  BY <1>1, EditMoves, EditKeeps DEF FileInv
<1>2. CASE ApplyRefused
  BY <1>2 DEF ApplyRefused, FileInv
<1>3. CASE ApplyBegin
  BY <1>3 DEF ApplyBegin, Idle, FileInv
<1>4. CASE SaveFails
  BY <1>4 DEF SaveFails, FileInv
<1>5. CASE Save
  BY <1>5 DEF Save, FileInv
<1>6. CASE Reinit
  BY <1>6 DEF Reinit, FileInv
<1>7. CASE Commit
  BY <1>7 DEF Commit, FileInv
<1>8. CASE DiscardDraft
  BY <1>8 DEF DiscardDraft, Idle, FileInv
<1>9. CASE Crash
  BY <1>9 DEF Crash, FileInv
<1>10. CASE Start
  <2>1. draft' = Load(file) /\ active' = Load(file) /\ pc' = "idle" /\ file' = file
    BY <1>10 DEF Start, Started
  <2>2. file = SyncFromConfig(Load(file))
    BY FileReadBack DEF FileInv
  <2> QED BY <2>1, <2>2, FileReadBack DEF FileInv
<1>11. CASE UNCHANGED vars
  BY <1>11 DEF vars, FileInv
<1> QED BY <1>1, <1>2, <1>3, <1>4, <1>5, <1>6, <1>7, <1>8, <1>9, <1>10, <1>11
    DEF Next, Applying, AnEdit

LEMMA FileInitially == Init => FileInv
BY RuntimeAssumption DEF Init, FileInv

\* The invariant of the file holds always.
LEMMA FileInvariant == Spec => []FileInv
<1>1. FileInv /\ [Next]_vars => FileInv'
  BY FileMoves
<1> QED BY <1>1, FileInitially, PTL DEF Spec

\* The names survive every step.
LEMMA NamesMove ==
  ASSUME NamesInv, [Next]_vars
  PROVE  NamesInv'
<1>1. FileInv'
  BY FileMoves DEF NamesInv
<1>2. CASE AnEdit
  BY <1>1, <1>2, EditMoves, EditKeeps DEF NamesInv, FileInv
<1>3. CASE Applying
  BY <1>1, <1>3 DEF Applying, ApplyRefused, ApplyBegin, SaveFails, Save, Reinit, Commit, NamesInv
<1>4. CASE DiscardDraft
  BY <1>1, <1>4 DEF DiscardDraft, NamesInv
<1>5. CASE Crash
  BY <1>1, <1>5 DEF Crash, NamesInv
<1>6. CASE Start
  <2>1. draft' = Load(file) /\ active' = Load(file)
    BY <1>6 DEF Start, Started
  <2>2. Load(file) = active \/ Load(file) = draft
    BY FileReadBack DEF NamesInv
  <2> QED BY <1>1, <2>1, <2>2 DEF NamesInv
<1>7. CASE UNCHANGED vars
  BY <1>1, <1>7 DEF vars, NamesInv
<1> QED BY <1>2, <1>3, <1>4, <1>5, <1>6, <1>7 DEF Next, AnEdit

------------------------------------------------------------------------------
(* The walk over groups finds every circle of them, and nothing else *)

\* What the walk needs of a resolver's tables.
TablesOK(r) ==
  /\ IsFiniteSet(DOMAIN r.groups) /\ NoName \notin DOMAIN r.groups
  /\ \A g \in DOMAIN r.groups :
       Len(r.groups[g].models) \in Nat /\ DOMAIN r.groups[g].models = 1 .. Len(r.groups[g].models)
  /\ \A s \in DOMAIN r.redirects : r.redirects[s].final \in DOMAIN r.groups \cup {NoName}
  /\ Len(r.groupOrder) \in Nat
  /\ \A i \in 1 .. Len(r.groupOrder) : r.groupOrder[i] \in DOMAIN r.groups
  /\ \A g \in DOMAIN r.groups : \E i \in 1 .. Len(r.groupOrder) : r.groupOrder[i] = g

\* One entry of u leads to v.
Leads(r, u, v) ==
  /\ u \in DOMAIN r.groups /\ v \in DOMAIN r.groups
  /\ \E i \in 1 .. Len(r.groups[u].models) : Successor(r, r.groups[u].models[i]) = v

\* No entry leads out of S.
Closed(r, S) == \A u \in S, v \in DOMAIN r.groups : Leads(r, u, v) => v \in S

\* No circle within S: every part of it has a group that leads to none of the part.
Founded(r, S) == \A T \in SUBSET S : T # {} => \E u \in T : \A v \in T : ~ Leads(r, u, v)

\* v is in every closed set u is in: it is reached from u, at once or through others.
Reaches(r, u, v) == \A S \in SUBSET DOMAIN r.groups : u \in S /\ Closed(r, S) => v \in S
Properly(r, u, v) == \E w \in DOMAIN r.groups : Leads(r, u, w) /\ Reaches(r, w, v)
Circle(r) == \E g \in DOMAIN r.groups : Properly(r, g, g)

LEMMA SuccessorIsGroup ==
  ASSUME NEW r, TablesOK(r), NEW e
  PROVE  Successor(r, e) \in DOMAIN r.groups \cup {NoName}
BY DEF TablesOK, Successor, InternalName

\* Reaching goes on through an entry.
LEMMA ReachesOn ==
  ASSUME NEW r, NEW u, NEW v, NEW w, Properly(r, u, v), Leads(r, v, w)
  PROVE  Properly(r, u, w)
<1>1. PICK x \in DOMAIN r.groups : Leads(r, u, x) /\ Reaches(r, x, v)
  BY DEF Properly
<1>2. Reaches(r, x, w)
  <2> SUFFICES ASSUME NEW S \in SUBSET DOMAIN r.groups, x \in S, Closed(r, S) PROVE w \in S
    BY DEF Reaches
  <2>1. v \in S
    BY <1>1 DEF Reaches
  <2> QED BY <2>1 DEF Closed, Leads
<1> QED BY <1>1, <1>2 DEF Properly

LEMMA LeadsProperly ==
  ASSUME NEW r, NEW u, NEW v, Leads(r, u, v)
  PROVE  Properly(r, u, v)
BY DEF Properly, Reaches, Leads

\* A circle leaves no set that has it founded.
LEMMA CircleNotFounded ==
  ASSUME NEW r, Circle(r)
  PROVE  ~ Founded(r, DOMAIN r.groups)
<1>1. PICK g \in DOMAIN r.groups, h \in DOMAIN r.groups : Leads(r, g, h) /\ Reaches(r, h, g)
  BY DEF Circle, Properly
<1> DEFINE C == {u \in DOMAIN r.groups : Reaches(r, u, g)}
<1>2. g \in C
  BY DEF Reaches
<1>3. ASSUME NEW u \in C PROVE \E v \in C : Leads(r, u, v)
  <2>1. CASE u = g
    BY <1>1, <2>1
  <2>2. CASE u # g
    <3> SUFFICES ASSUME \A v \in C : ~ Leads(r, u, v) PROVE FALSE
      OBVIOUS
    <3> DEFINE S == {u} \cup {x \in DOMAIN r.groups : x # g /\ ~ Reaches(r, x, g)}
    <3>1. S \in SUBSET DOMAIN r.groups /\ u \in S /\ g \notin S
      BY <2>2
    <3>2. Closed(r, S)
      <4> SUFFICES ASSUME NEW x \in S, NEW y \in DOMAIN r.groups, Leads(r, x, y) PROVE y \in S
        BY DEF Closed
      <4>1. ~ Reaches(r, y, g)
        <5>1. CASE x = u
          BY <5>1
        <5>2. CASE x # u
          <6>1. ~ Reaches(r, x, g) /\ x \in DOMAIN r.groups
            BY <5>2
          <6>2. PICK Z \in SUBSET DOMAIN r.groups : x \in Z /\ Closed(r, Z) /\ g \notin Z
            BY <6>1 DEF Reaches
          <6>3. y \in Z
            BY <6>2 DEF Closed
          <6> QED BY <6>2, <6>3 DEF Reaches
        <5> QED BY <5>1, <5>2
      <4>2. y # g
        BY <1>2, <4>1
      <4> QED BY <4>1, <4>2
    <3>3. Reaches(r, u, g)
      OBVIOUS
    <3> HIDE DEF S
    <3> QED BY <3>1, <3>2, <3>3 DEF Reaches
  <2> QED BY <2>1, <2>2
<1> HIDE DEF C
<1>4. C \in SUBSET DOMAIN r.groups
  BY DEF C
<1> QED BY <1>2, <1>3, <1>4 DEF Founded

\* The colours: the groups that are open, done and not yet visited.
Open(c) == {g \in DOMAIN c : c[g] = "inStack"}
Done(c) == {g \in DOMAIN c : c[g] = "done"}
White(c) == {g \in DOMAIN c : c[g] = "unvisited"}

\* What is done leads to nothing that is not, and has no circle.
Sound(r, c) == c \in Colorings(r) /\ Closed(r, Done(c)) /\ Founded(r, Done(c))

\* A call is made of a group that every open one reaches, with few enough unvisited.
Callable(r, k, s) ==
  /\ s \in [name : DOMAIN r.groups, color : Colorings(r)] /\ Sound(r, s.color)
  /\ \A u \in Open(s.color) : Properly(r, u, s.name)
  /\ Cardinality(White(s.color)) <= k

\* And answers with a circle, or with the group and what it leads to done.
Answers(r, s, a) ==
  /\ a.cycle \in BOOLEAN
  /\ a.cycle => Circle(r)
  /\ ~ a.cycle => /\ Sound(r, a.color) /\ Open(a.color) = Open(s.color)
                  /\ Done(s.color) \cup {s.name} \subseteq Done(a.color)
Works(r, k, f) == \A s : Callable(r, k, s) => Answers(r, s, f[s])

\* Marking and unmarking.
LEMMA Marked ==
  ASSUME NEW r, NEW c \in Colorings(r), NEW g \in DOMAIN r.groups, NEW x \in {"inStack", "done"},
         NEW d, d = [c EXCEPT ![g] = x]
  PROVE  /\ d \in Colorings(r)
         /\ x = "inStack" => Open(d) = Open(c) \cup {g} /\ Done(d) = Done(c) \ {g}
         /\ x = "done" => Open(d) = Open(c) \ {g} /\ Done(d) = Done(c) \cup {g}
         /\ White(d) = White(c) \ {g}
<1>1. DOMAIN c = DOMAIN r.groups /\ DOMAIN d = DOMAIN r.groups
  BY DEF Colorings
<1>2. d \in Colorings(r)
  BY DEF Colorings
<1>3. d[g] = x /\ \A h \in DOMAIN r.groups : h # g => d[h] = c[h]
  BY <1>1
<1>4. x = "inStack" => Open(d) = Open(c) \cup {g} /\ Done(d) = Done(c) \ {g}
  BY <1>1, <1>3 DEF Open, Done
<1>5. x = "done" => Open(d) = Open(c) \ {g} /\ Done(d) = Done(c) \cup {g}
  BY <1>1, <1>3 DEF Open, Done
<1>6. White(d) = White(c) \ {g}
  BY <1>1, <1>3 DEF White
<1> QED BY <1>2, <1>4, <1>5, <1>6

\* Every group has one of the colours.
LEMMA Colours ==
  ASSUME NEW r, NEW c \in Colorings(r)
  PROVE  /\ White(c) = DOMAIN r.groups \ (Open(c) \cup Done(c))
         /\ Open(c) \cap Done(c) = {}
         /\ Open(c) \subseteq DOMAIN r.groups /\ Done(c) \subseteq DOMAIN r.groups
BY DEF Colorings, White, Open, Done

\* A group all of whose entries lead to what is done can be done.
LEMMA DoneGrows ==
  ASSUME NEW r, NEW D \in SUBSET DOMAIN r.groups, Closed(r, D), Founded(r, D),
         NEW g \in DOMAIN r.groups, g \notin D,
         \A v \in DOMAIN r.groups : Leads(r, g, v) => v \in D
  PROVE  Closed(r, D \cup {g}) /\ Founded(r, D \cup {g})
<1>1. Closed(r, D \cup {g})
  BY DEF Closed
<1>2. ASSUME NEW T \in SUBSET (D \cup {g}), T # {}
      PROVE  \E u \in T : \A v \in T : ~ Leads(r, u, v)
  <2>1. CASE T \ {g} = {}
    <3>1. T = {g}
      BY <1>2, <2>1
    <3> QED BY <3>1
  <2>2. CASE T \ {g} # {}
    <3>1. T \ {g} \in SUBSET D
      OBVIOUS
    <3>2. PICK u \in T \ {g} : \A v \in T \ {g} : ~ Leads(r, u, v)
      BY <2>2, <3>1 DEF Founded
    <3>3. ~ Leads(r, u, g)
      BY <3>1 DEF Closed
    <3> QED BY <3>2, <3>3
  <2> QED BY <2>1, <2>2
<1>3. Founded(r, D \cup {g})
  BY <1>2 DEF Founded
<1> QED BY <1>1, <1>3

\* The entries of a group are gone through one after the other.
VisitStep(r, name, color, f, u, i) ==
  IF i = 0 THEN [cycle |-> FALSE, color |-> [color EXCEPT ![name] = "inStack"]]
  ELSE IF u[i - 1].cycle \/ Successor(r, r.groups[name].models[i]) = NoName THEN u[i - 1]
  ELSE f[[name |-> Successor(r, r.groups[name].models[i]), color |-> u[i - 1].color]]

VisitEnd(name, end) ==
  IF end.cycle THEN end ELSE [cycle |-> FALSE, color |-> [end.color EXCEPT ![name] = "done"]]

LEMMA VisitUnfolds ==
  ASSUME NEW r, NEW name, NEW color, NEW f, Len(r.groups[name].models) \in Nat
  PROVE  \E u : /\ \A i \in 0 .. Len(r.groups[name].models) :
                     u[i] = VisitStep(r, name, color, f, u, i)
                /\ Visit(r, name, color, f) = VisitEnd(name, u[Len(r.groups[name].models)])
<1> DEFINE N == Len(r.groups[name].models)
           Is(u, m) == u = [i \in 0 .. m |-> VisitStep(r, name, color, f, u, i)]
           None == {m \in 0 .. N : ~ \E u : Is(u, m)}
<1>1. None = {}
  <2>1. SUFFICES ASSUME None # {} PROVE FALSE
    OBVIOUS
  <2>2. PICK m \in None : \A j \in None : m <= j
    <3>1. None \in SUBSET Nat
      OBVIOUS
    <3> HIDE DEF None
    <3> QED BY <2>1, <3>1, LeastOne
  <2>3. m \in Nat /\ m <= N /\ ~ \E u : Is(u, m)
    OBVIOUS
  <2>4. CASE m = 0
    <3>1. Is([i \in 0 .. 0 |-> [cycle |-> FALSE, color |-> [color EXCEPT ![name] = "inStack"]]], 0)
      BY DEF VisitStep
    <3> HIDE DEF Is
    <3> QED BY <2>3, <2>4, <3>1
  <2>5. CASE m # 0
    <3>1. m - 1 \in 0 .. N /\ m - 1 \notin None
      <4>1. m - 1 \in 0 .. N /\ ~ (m <= m - 1)
        BY <2>3, <2>5
      <4> HIDE DEF None
      <4> QED BY <2>2, <4>1
    <3>2. PICK v : Is(v, m - 1)
      BY <3>1
    <3> DEFINE w == [i \in 0 .. m |-> VisitStep(r, name, color, f, v, i)]
    <3>3. ASSUME NEW i \in 0 .. m, i # 0 PROVE w[i - 1] = v[i - 1]
      <4>1. i - 1 \in 0 .. m - 1 /\ i - 1 \in 0 .. m
        BY <2>3, <3>3
      <4>2. v[i - 1] = VisitStep(r, name, color, f, v, i - 1)
        BY <3>2, <4>1
      <4> QED BY <4>1, <4>2
    <3>4. ASSUME NEW i \in 0 .. m
          PROVE  VisitStep(r, name, color, f, w, i) = VisitStep(r, name, color, f, v, i)
      <4> HIDE DEF w
      <4> QED BY <3>3 DEF VisitStep
    <3>5. Is(w, m)
      BY <3>4
    <3> HIDE DEF Is
    <3> QED BY <2>3, <3>5
  <2> QED BY <2>4, <2>5
<1>2. \E u : Is(u, N)
  BY <1>1
<1> DEFINE u == CHOOSE v : Is(v, N)
<1>3. Is(u, N)
  <2> HIDE DEF Is
  <2> QED BY <1>2
<1>4. Visit(r, name, color, f) = VisitEnd(name, u[N])
  BY DEF Visit, VisitStep, VisitEnd
<1> HIDE DEF u
<1>5. \A i \in 0 .. N : u[i] = VisitStep(r, name, color, f, u, i)
  BY <1>3
<1> QED BY <1>4, <1>5

\* A visit answers rightly if the calls below it do.
LEMMA VisitWorks ==
  ASSUME NEW r, TablesOK(r), NEW k \in Nat, k > 0, NEW f, Works(r, k - 1, f),
         NEW s, Callable(r, k, s), s.color[s.name] = "unvisited"
  PROVE  Answers(r, s, Visit(r, s.name, s.color, f))
<1> DEFINE g == s.name
           c == s.color
           N == Len(r.groups[g].models)
           Entry(i) == Successor(r, r.groups[g].models[i])
           So(i, b) == /\ b.cycle \in BOOLEAN
                       /\ b.cycle => Circle(r)
                       /\ ~ b.cycle => /\ Sound(r, b.color) /\ Open(b.color) = Open(c) \cup {g}
                                       /\ Done(c) \subseteq Done(b.color)
                                       /\ \A j \in 1 .. i : Entry(j) \in Done(b.color) \cup {NoName}
<1>1. /\ g \in DOMAIN r.groups /\ c \in Colorings(r) /\ Sound(r, c) /\ N \in Nat
      /\ DOMAIN r.groups[g].models = 1 .. N
      /\ IsFiniteSet(DOMAIN r.groups) /\ NoName \notin DOMAIN r.groups
  BY DEF Callable, TablesOK
<1>2. g \in White(c) /\ g \notin Open(c) /\ g \notin Done(c)
  BY <1>1 DEF White, Open, Done, Colorings
<1>3. PICK u : /\ \A i \in 0 .. N : u[i] = VisitStep(r, g, c, f, u, i)
               /\ Visit(r, g, c, f) = VisitEnd(g, u[N])
  BY <1>1, VisitUnfolds
<1>4. So(0, u[0])
  <2>1. u[0] = [cycle |-> FALSE, color |-> [c EXCEPT ![g] = "inStack"]]
    <3>1. 0 \in 0 .. N
      BY <1>1
    <3> QED BY <1>3, <3>1 DEF VisitStep
  <2>2. PICK d : d = [c EXCEPT ![g] = "inStack"]
    OBVIOUS
  <2>3. d \in Colorings(r) /\ Open(d) = Open(c) \cup {g} /\ Done(d) = Done(c) \ {g}
    BY <1>1, <2>2, Marked
  <2>4. Done(d) = Done(c)
    BY <1>2, <2>3
  <2>5. Sound(r, d)
    BY <1>1, <2>3, <2>4 DEF Sound
  <2>6. ~ u[0].cycle /\ u[0].cycle \in BOOLEAN /\ u[0].color = d
    BY <2>1, <2>2
  <2>7. \A j \in 1 .. 0 : Entry(j) \in Done(d) \cup {NoName}
    OBVIOUS
  <2> QED BY <2>3, <2>4, <2>5, <2>6, <2>7
<1>5. ASSUME NEW i \in 1 .. N, So(i - 1, u[i - 1]) PROVE So(i, u[i])
  <2> DEFINE b == u[i - 1]
             to == Entry(i)
  <2>1. u[i] = IF b.cycle \/ to = NoName THEN b ELSE f[[name |-> to, color |-> b.color]]
    <3>1. i \in 0 .. N /\ i # 0
      BY <1>1
    <3> QED BY <1>3, <3>1 DEF VisitStep
  <2>2. ASSUME NEW j \in 1 .. i PROVE j \in 1 .. i - 1 \/ j = i
    BY <1>1
  <2>3. CASE b.cycle
    <3>1. u[i] = b
      BY <2>1, <2>3
    <3> QED BY <1>5, <2>3, <3>1
  <2>4. CASE ~ b.cycle /\ to = NoName
    <3>1. u[i] = b
      BY <2>1, <2>4
    <3> HIDE DEF b
    <3>2. \A j \in 1 .. i : Entry(j) \in Done(b.color) \cup {NoName}
      BY <1>5, <2>2, <2>4 DEF b
    <3> QED BY <1>5, <2>4, <3>1, <3>2 DEF b
  <2>5. CASE ~ b.cycle /\ to # NoName
    <3>1. /\ Sound(r, b.color) /\ Open(b.color) = Open(c) \cup {g}
          /\ Done(c) \subseteq Done(b.color)
          /\ \A j \in 1 .. i - 1 : Entry(j) \in Done(b.color) \cup {NoName}
      BY <1>5, <2>5
    <3>2. to \in DOMAIN r.groups /\ Leads(r, g, to)
      <4>1. to \in DOMAIN r.groups
        BY <2>5, SuccessorIsGroup
      <4> QED BY <1>1, <4>1 DEF Leads
    <3> DEFINE t == [name |-> to, color |-> b.color]
    <3>3. u[i] = f[t]
      BY <2>1, <2>5
    <3> HIDE DEF to, b
    <3>4. Callable(r, k - 1, t)
      <4>1. t.name = to /\ t.color = b.color
            /\ t \in [name : DOMAIN r.groups, color : Colorings(r)]
        BY <3>1, <3>2 DEF Sound
      <4>2. ASSUME NEW x \in Open(b.color) PROVE Properly(r, x, to)
        <5>1. CASE x = g
          BY <3>2, <5>1, LeadsProperly
        <5>2. CASE x # g
          <6>1. x \in Open(c)
            BY <3>1, <5>2
          <6>2. Properly(r, x, g)
            BY <6>1 DEF Callable
          <6> QED BY <3>2, <6>2, ReachesOn
        <5> QED BY <5>1, <5>2
      <4>3. Cardinality(White(b.color)) <= k - 1
        <5>1. b.color \in Colorings(r)
          BY <3>1 DEF Sound
        <5>2. White(b.color) \subseteq White(c) \ {g}
          BY <1>1, <3>1, <5>1, Colours
        <5>3. White(c) \subseteq DOMAIN r.groups
          BY <1>1, Colours
        <5>4. IsFiniteSet(White(c)) /\ IsFiniteSet(White(c) \ {g})
          BY <1>1, <5>3, FS_Subset
        <5>5. Cardinality(White(c) \ {g}) = Cardinality(White(c)) - 1
              /\ Cardinality(White(c)) \in Nat
          BY <1>2, <5>4, FS_RemoveElement, FS_CardinalityType
        <5>6. Cardinality(White(b.color)) <= Cardinality(White(c) \ {g})
              /\ Cardinality(White(b.color)) \in Nat
          BY <5>2, <5>4, FS_Subset, FS_CardinalityType
        <5>7. Cardinality(White(c)) <= k
          BY DEF Callable
        <5> QED BY <5>5, <5>6, <5>7
      <4> HIDE DEF t
      <4> QED BY <3>1, <4>1, <4>2, <4>3 DEF Callable
    <3>5. Answers(r, t, f[t])
      BY <3>4 DEF Works
    <3>6. t.name = to /\ t.color = b.color
      OBVIOUS
    <3> HIDE DEF t
    <3>7. PICK a : a = u[i] /\ Answers(r, t, a)
      BY <3>3, <3>5
    <3>8. ~ a.cycle => \A j \in 1 .. i : Entry(j) \in Done(a.color) \cup {NoName}
      BY <2>2, <3>1, <3>6, <3>7 DEF Answers, to
    <3>9. So(i, a)
      BY <3>1, <3>6, <3>7, <3>8 DEF Answers
    <3> QED BY <3>7, <3>9
  <2> QED BY <2>3, <2>4, <2>5
<1> HIDE DEF So
<1>6. So(N, u[N])
  <2> DEFINE Bad == {i \in 0 .. N : ~ So(i, u[i])}
  <2>1. Bad = {}
    <3>1. SUFFICES ASSUME Bad # {} PROVE FALSE
      OBVIOUS
    <3>2. PICK m \in Bad : \A j \in Bad : m <= j
      <4>1. Bad \in SUBSET Nat
        BY <1>1
      <4> HIDE DEF Bad
      <4> QED BY <3>1, <4>1, LeastOne
    <3>3. m # 0 /\ m \in 1 .. N /\ m - 1 \in 0 .. N /\ ~ (m <= m - 1)
      BY <1>1, <1>4
    <3>4. m - 1 \notin Bad
      <4> HIDE DEF Bad
      <4> QED BY <3>2, <3>3
    <3>5. So(m - 1, u[m - 1])
      BY <3>3, <3>4
    <3> QED BY <1>5, <3>2, <3>3, <3>5
  <2>2. N \in 0 .. N
    BY <1>1
  <2> QED BY <2>1, <2>2
<1>7. PICK end : end = u[N]
  OBVIOUS
<1>8. CASE end.cycle
  <2>1. Visit(r, g, c, f) = end
    BY <1>3, <1>7, <1>8 DEF VisitEnd
  <2> QED BY <1>6, <1>7, <1>8, <2>1 DEF So, Answers
<1>9. CASE ~ end.cycle
  <2>1. PICK d : d = [end.color EXCEPT ![g] = "done"]
    OBVIOUS
  <2>2. Visit(r, g, c, f) = [cycle |-> FALSE, color |-> d]
    BY <1>3, <1>7, <1>9, <2>1 DEF VisitEnd
  <2>3. /\ Sound(r, end.color) /\ Open(end.color) = Open(c) \cup {g}
        /\ Done(c) \subseteq Done(end.color)
        /\ \A j \in 1 .. N : Entry(j) \in Done(end.color) \cup {NoName}
    BY <1>6, <1>7, <1>9 DEF So
  <2>4. end.color \in Colorings(r) /\ Closed(r, Done(end.color)) /\ Founded(r, Done(end.color))
    BY <2>3 DEF Sound
  <2>5. d \in Colorings(r) /\ Open(d) = Open(end.color) \ {g} /\ Done(d) = Done(end.color) \cup {g}
    BY <1>1, <2>1, <2>4, Marked
  <2>6. Open(d) = Open(c) /\ g \notin Done(end.color) /\ Done(end.color) \subseteq DOMAIN r.groups
    BY <1>2, <2>3, <2>4, <2>5, Colours
  <2>7. ASSUME NEW v \in DOMAIN r.groups, Leads(r, g, v) PROVE v \in Done(end.color)
    <3>1. PICK j \in 1 .. N : Entry(j) = v
      BY <2>7 DEF Leads
    <3> QED BY <1>1, <2>3, <3>1
  <2>8. Closed(r, Done(d)) /\ Founded(r, Done(d))
    BY <1>1, <2>4, <2>5, <2>6, <2>7, DoneGrows
  <2>9. Sound(r, d) /\ Done(c) \cup {g} \subseteq Done(d)
    BY <2>3, <2>5, <2>8 DEF Sound
  <2> QED BY <2>2, <2>6, <2>9 DEF Answers
<1> QED BY <1>8, <1>9

LEMMA DfsUnfolds ==
  ASSUME NEW r, Cardinality(DOMAIN r.groups) \in Nat
  PROVE  \E w : /\ \A k \in 0 .. Cardinality(DOMAIN r.groups) :
                     w[k] = GroupCalls(r, IF k = 0 THEN <<>> ELSE w[k - 1])
                /\ Dfs(r) = w[Cardinality(DOMAIN r.groups)]
<1> DEFINE N == Cardinality(DOMAIN r.groups)
           Is(w, m) == w = [k \in 0 .. m |-> GroupCalls(r, IF k = 0 THEN <<>> ELSE w[k - 1])]
           None == {m \in 0 .. N : ~ \E w : Is(w, m)}
<1>1. None = {}
  <2>1. SUFFICES ASSUME None # {} PROVE FALSE
    OBVIOUS
  <2>2. PICK m \in None : \A j \in None : m <= j
    <3>1. None \in SUBSET Nat
      OBVIOUS
    <3> HIDE DEF None
    <3> QED BY <2>1, <3>1, LeastOne
  <2>3. m \in Nat /\ m <= N /\ ~ \E w : Is(w, m)
    OBVIOUS
  <2>4. CASE m = 0
    <3>1. Is([k \in 0 .. 0 |-> GroupCalls(r, <<>>)], 0)
      OBVIOUS
    <3> HIDE DEF Is
    <3> QED BY <2>3, <2>4, <3>1
  <2>5. CASE m # 0
    <3>1. m - 1 \in 0 .. N /\ m - 1 \notin None
      <4>1. m - 1 \in 0 .. N /\ ~ (m <= m - 1)
        BY <2>3, <2>5
      <4> HIDE DEF None
      <4> QED BY <2>2, <4>1
    <3>2. PICK v : Is(v, m - 1)
      BY <3>1
    <3> DEFINE w == [k \in 0 .. m |-> GroupCalls(r, IF k = 0 THEN <<>> ELSE v[k - 1])]
    <3>3. ASSUME NEW k \in 0 .. m, k # 0 PROVE w[k - 1] = v[k - 1]
      <4>1. k - 1 \in 0 .. m - 1 /\ k - 1 \in 0 .. m
        BY <2>3, <3>3
      <4>2. v[k - 1] = GroupCalls(r, IF k - 1 = 0 THEN <<>> ELSE v[k - 1 - 1])
        BY <3>2, <4>1
      <4> QED BY <4>1, <4>2
    <3>4. ASSUME NEW k \in 0 .. m
          PROVE  GroupCalls(r, IF k = 0 THEN <<>> ELSE w[k - 1])
                   = GroupCalls(r, IF k = 0 THEN <<>> ELSE v[k - 1])
      <4> HIDE DEF w
      <4> QED BY <3>3
    <3>5. Is(w, m)
      BY <3>4
    <3> HIDE DEF Is
    <3> QED BY <2>3, <3>5
  <2> QED BY <2>4, <2>5
<1>2. \E w : Is(w, N)
  BY <1>1
<1> DEFINE w == CHOOSE v : Is(v, N)
<1>3. Is(w, N)
  <2> HIDE DEF Is
  <2> QED BY <1>2
<1>4. Dfs(r) = w[N]
  BY DEF Dfs
<1> HIDE DEF w
<1>5. \A k \in 0 .. N : w[k] = GroupCalls(r, IF k = 0 THEN <<>> ELSE w[k - 1])
  BY <1>3
<1> QED BY <1>4, <1>5

\* The calls answer rightly if those below them do, or if nothing is unvisited.
LEMMA GroupCallsWork ==
  ASSUME NEW r, TablesOK(r), NEW k \in Nat, NEW f, k # 0 => Works(r, k - 1, f)
  PROVE  Works(r, k, GroupCalls(r, f))
<1> SUFFICES ASSUME NEW s, Callable(r, k, s) PROVE Answers(r, s, GroupCalls(r, f)[s])
  BY DEF Works
<1>1. /\ s \in [name : DOMAIN r.groups, color : Colorings(r)]
      /\ s.name \in DOMAIN r.groups /\ s.color \in Colorings(r) /\ Sound(r, s.color)
  BY DEF Callable
<1>2. s.color[s.name] \in {"unvisited", "inStack", "done"} /\ s.name \in DOMAIN s.color
  BY <1>1 DEF Colorings
<1>3. PICK a : a = GroupCalls(r, f)[s]
  OBVIOUS
<1>4. CASE s.color[s.name] = "inStack"
  <2>1. a.cycle = TRUE
    BY <1>1, <1>3, <1>4 DEF GroupCalls
  <2>2. s.name \in Open(s.color)
    BY <1>2, <1>4 DEF Open
  <2>3. Circle(r)
    BY <1>1, <2>2 DEF Callable, Circle
  <2> QED BY <1>3, <2>1, <2>3 DEF Answers
<1>5. CASE s.color[s.name] = "done"
  <2>1. a.cycle = FALSE /\ a.color = s.color
    BY <1>1, <1>3, <1>5 DEF GroupCalls
  <2>2. s.name \in Done(s.color)
    BY <1>2, <1>5 DEF Done
  <2> QED BY <1>1, <1>3, <2>1, <2>2 DEF Answers
<1>6. CASE s.color[s.name] = "unvisited"
  <2>1. a = Visit(r, s.name, s.color, f)
    BY <1>1, <1>3, <1>6 DEF GroupCalls
  <2>2. k # 0
    <3>1. s.name \in White(s.color) /\ White(s.color) \subseteq DOMAIN r.groups
      BY <1>1, <1>2, <1>6, Colours DEF White
    <3>2. IsFiniteSet(White(s.color))
      BY <3>1, FS_Subset DEF TablesOK
    <3>3. Cardinality(White(s.color)) # 0
      BY <3>1, <3>2, FS_EmptySet
    <3>4. Cardinality(White(s.color)) \in Nat /\ Cardinality(White(s.color)) <= k
      BY <3>2, FS_CardinalityType DEF Callable
    <3> QED BY <3>3, <3>4
  <2>3. k > 0
    BY <2>2
  <2> QED BY <1>3, <1>6, <2>1, <2>2, <2>3, VisitWorks
<1> QED BY <1>2, <1>4, <1>5, <1>6

\* So a call answers rightly, whatever is unvisited.
LEMMA DfsWorks ==
  ASSUME NEW r, TablesOK(r)
  PROVE  Works(r, Cardinality(DOMAIN r.groups), Dfs(r))
<1> DEFINE N == Cardinality(DOMAIN r.groups)
<1>1. N \in Nat
  BY FS_CardinalityType DEF TablesOK
<1>2. PICK w : /\ \A k \in 0 .. N : w[k] = GroupCalls(r, IF k = 0 THEN <<>> ELSE w[k - 1])
               /\ Dfs(r) = w[N]
  BY <1>1, DfsUnfolds
<1> DEFINE Bad == {k \in 0 .. N : ~ Works(r, k, w[k])}
<1>3. Bad = {}
  <2>1. SUFFICES ASSUME Bad # {} PROVE FALSE
    OBVIOUS
  <2>2. PICK m \in Bad : \A j \in Bad : m <= j
    <3>1. Bad \in SUBSET Nat
      BY <1>1
    <3> HIDE DEF Bad
    <3> QED BY <2>1, <3>1, LeastOne
  <2>3. m \in Nat /\ m \in 0 .. N /\ ~ Works(r, m, w[m])
    BY <1>1
  <2>4. m # 0 => Works(r, m - 1, w[m - 1])
    <3>1. CASE m # 0
      <4>1. m - 1 \in 0 .. N /\ ~ (m <= m - 1)
        BY <1>1, <2>3, <3>1
      <4>2. m - 1 \notin Bad
        <5> HIDE DEF Bad
        <5> QED BY <2>2, <4>1
      <4> QED BY <4>1, <4>2
    <3> QED BY <3>1
  <2>5. PICK f : f = IF m = 0 THEN <<>> ELSE w[m - 1]
    OBVIOUS
  <2>6. m # 0 => Works(r, m - 1, f)
    BY <2>4, <2>5
  <2>7. w[m] = GroupCalls(r, f)
    BY <1>2, <2>3, <2>5
  <2>8. Works(r, m, GroupCalls(r, f))
    BY <2>3, <2>6, GroupCallsWork
  <2> QED BY <2>3, <2>7, <2>8
<1>4. N \in 0 .. N
  BY <1>1
<1> QED BY <1>2, <1>3, <1>4

\* The groups are called in their order.
DetectStep(r, f, u, i) ==
  IF i = 0 THEN [cycle |-> FALSE, color |-> Unvisited(r)]
  ELSE IF u[i - 1].cycle THEN u[i - 1]
  ELSE f[[name |-> r.groupOrder[i], color |-> u[i - 1].color]]

LEMMA DetectUnfolds ==
  ASSUME NEW r, Len(r.groupOrder) \in Nat
  PROVE  \E u : /\ \A i \in 0 .. Len(r.groupOrder) : u[i] = DetectStep(r, Dfs(r), u, i)
                /\ DetectCycles(r) = u[Len(r.groupOrder)].cycle
<1> DEFINE N == Len(r.groupOrder)
           f == Dfs(r)
           Is(u, m) == u = [i \in 0 .. m |-> DetectStep(r, Dfs(r), u, i)]
           None == {m \in 0 .. N : ~ \E u : Is(u, m)}
<1>1. None = {}
  <2>1. SUFFICES ASSUME None # {} PROVE FALSE
    OBVIOUS
  <2>2. PICK m \in None : \A j \in None : m <= j
    <3>1. None \in SUBSET Nat
      OBVIOUS
    <3> HIDE DEF None
    <3> QED BY <2>1, <3>1, LeastOne
  <2>3. m \in Nat /\ m <= N /\ ~ \E u : Is(u, m)
    OBVIOUS
  <2>4. CASE m = 0
    <3>1. Is([i \in 0 .. 0 |-> [cycle |-> FALSE, color |-> Unvisited(r)]], 0)
      BY DEF DetectStep
    <3> HIDE DEF Is
    <3> QED BY <2>3, <2>4, <3>1
  <2>5. CASE m # 0
    <3>1. m - 1 \in 0 .. N /\ m - 1 \notin None
      <4>1. m - 1 \in 0 .. N /\ ~ (m <= m - 1)
        BY <2>3, <2>5
      <4> HIDE DEF None
      <4> QED BY <2>2, <4>1
    <3>2. PICK v : Is(v, m - 1)
      BY <3>1
    <3> DEFINE w == [i \in 0 .. m |-> DetectStep(r, f, v, i)]
    <3>3. ASSUME NEW i \in 0 .. m, i # 0 PROVE w[i - 1] = v[i - 1]
      <4>1. i - 1 \in 0 .. m - 1 /\ i - 1 \in 0 .. m
        BY <2>3, <3>3
      <4>2. v[i - 1] = DetectStep(r, f, v, i - 1)
        BY <3>2, <4>1
      <4> QED BY <4>1, <4>2
    <3>4. ASSUME NEW i \in 0 .. m
          PROVE  DetectStep(r, f, w, i) = DetectStep(r, f, v, i)
      <4> HIDE DEF w
      <4> QED BY <3>3 DEF DetectStep
    <3>5. Is(w, m)
      BY <3>4
    <3> HIDE DEF Is
    <3> QED BY <2>3, <3>5
  <2> QED BY <2>4, <2>5
<1>2. \E u : Is(u, N)
  BY <1>1
<1> DEFINE u == CHOOSE v : Is(v, N)
<1>3. Is(u, N)
  <2> HIDE DEF Is
  <2> QED BY <1>2
<1>4. DetectCycles(r) = u[N].cycle
  BY DEF DetectCycles, DetectStep
<1> HIDE DEF u
<1>5. \A i \in 0 .. N : u[i] = DetectStep(r, f, u, i)
  BY <1>3
<1> QED BY <1>4, <1>5

\* detectCycles says whether there is a circle, and without one the groups are founded.
LEMMA DetectsCircles ==
  ASSUME NEW r, TablesOK(r)
  PROVE  /\ DetectCycles(r) => Circle(r)
         /\ ~ DetectCycles(r) => Founded(r, DOMAIN r.groups)
<1> DEFINE N == Len(r.groupOrder)
           So(i, b) == /\ b.cycle \in BOOLEAN
                       /\ b.cycle => Circle(r)
                       /\ ~ b.cycle => /\ Sound(r, b.color) /\ Open(b.color) = {}
                                       /\ \A j \in 1 .. i : r.groupOrder[j] \in Done(b.color)
<1>1. N \in Nat
  BY DEF TablesOK
<1>2. PICK u : /\ \A i \in 0 .. N : u[i] = DetectStep(r, Dfs(r), u, i)
               /\ DetectCycles(r) = u[N].cycle
  BY <1>1, DetectUnfolds
<1>3. So(0, u[0])
  <2>1. PICK c : c = Unvisited(r)
    OBVIOUS
  <2>2. u[0] = [cycle |-> FALSE, color |-> c]
    <3>1. 0 \in 0 .. N
      BY <1>1
    <3> QED BY <1>2, <2>1, <3>1 DEF DetectStep
  <2>3. c \in Colorings(r) /\ Open(c) = {} /\ Done(c) = {}
    BY <2>1 DEF Unvisited, Colorings, Open, Done
  <2>4. Sound(r, c)
    BY <2>3 DEF Sound, Closed, Founded
  <2> QED BY <2>2, <2>3, <2>4
<1>4. ASSUME NEW i \in 1 .. N, So(i - 1, u[i - 1]) PROVE So(i, u[i])
  <2> DEFINE b == u[i - 1]
             t == [name |-> r.groupOrder[i], color |-> b.color]
  <2>1. u[i] = IF b.cycle THEN b ELSE Dfs(r)[t]
    <3>1. i \in 0 .. N /\ i # 0
      BY <1>1
    <3> QED BY <1>2, <3>1 DEF DetectStep
  <2>2. ASSUME NEW j \in 1 .. i PROVE j \in 1 .. i - 1 \/ j = i
    BY <1>1
  <2>3. CASE b.cycle
    <3>1. u[i] = b
      BY <2>1, <2>3
    <3> QED BY <1>4, <2>3, <3>1
  <2>4. CASE ~ b.cycle
    <3>1. /\ Sound(r, b.color) /\ Open(b.color) = {}
          /\ \A j \in 1 .. i - 1 : r.groupOrder[j] \in Done(b.color)
      BY <1>4, <2>4
    <3>2. u[i] = Dfs(r)[t]
      BY <2>1, <2>4
    <3>3. r.groupOrder[i] \in DOMAIN r.groups
      BY <1>1 DEF TablesOK
    <3> HIDE DEF b
    <3>4. /\ t \in [name : DOMAIN r.groups, color : Colorings(r)]
          /\ t.name = r.groupOrder[i] /\ t.color = b.color
      BY <3>1, <3>3 DEF Sound
    <3>5. Cardinality(White(b.color)) <= Cardinality(DOMAIN r.groups)
      <4>1. White(b.color) \subseteq DOMAIN r.groups
        BY <3>1, Colours DEF Sound
      <4> QED BY <4>1, FS_Subset DEF TablesOK
    <3>6. Callable(r, Cardinality(DOMAIN r.groups), t)
      <4> HIDE DEF t
      <4> QED BY <3>1, <3>4, <3>5 DEF Callable
    <3>7. Answers(r, t, Dfs(r)[t])
      BY <3>6, DfsWorks DEF Works
    <3> HIDE DEF t
    <3>8. PICK a : a = u[i] /\ Answers(r, t, a)
      BY <3>2, <3>7
    <3>9. ~ a.cycle => \A j \in 1 .. i : r.groupOrder[j] \in Done(a.color)
      BY <2>2, <3>1, <3>4, <3>8 DEF Answers
    <3>10. So(i, a)
      BY <3>1, <3>4, <3>8, <3>9 DEF Answers
    <3> QED BY <3>8, <3>10
  <2> QED BY <1>4, <2>3, <2>4
<1> HIDE DEF So
<1>5. So(N, u[N])
  <2> DEFINE Bad == {i \in 0 .. N : ~ So(i, u[i])}
  <2>1. Bad = {}
    <3>1. SUFFICES ASSUME Bad # {} PROVE FALSE
      OBVIOUS
    <3>2. PICK m \in Bad : \A j \in Bad : m <= j
      <4>1. Bad \in SUBSET Nat
        BY <1>1
      <4> HIDE DEF Bad
      <4> QED BY <3>1, <4>1, LeastOne
    <3>3. m # 0 /\ m \in 1 .. N /\ m - 1 \in 0 .. N /\ ~ (m <= m - 1)
      BY <1>1, <1>3
    <3>4. m - 1 \notin Bad
      <4> HIDE DEF Bad
      <4> QED BY <3>2, <3>3
    <3>5. So(m - 1, u[m - 1])
      BY <3>3, <3>4
    <3> QED BY <1>4, <3>2, <3>3, <3>5
  <2>2. N \in 0 .. N
    BY <1>1
  <2> QED BY <2>1, <2>2
<1>6. DetectCycles(r) => Circle(r)
  BY <1>2, <1>5 DEF So
<1>7. ASSUME ~ DetectCycles(r) PROVE Founded(r, DOMAIN r.groups)
  <2>1. PICK c : c = u[N].color
    OBVIOUS
  <2>2. /\ Sound(r, c) /\ \A j \in 1 .. N : r.groupOrder[j] \in Done(c)
    BY <1>2, <1>5, <1>7, <2>1 DEF So
  <2>3. DOMAIN r.groups \subseteq Done(c)
    BY <2>2 DEF TablesOK
  <2> QED BY <2>2, <2>3 DEF Sound, Founded
<1> QED BY <1>6, <1>7

------------------------------------------------------------------------------
(* The reference definition finds the same circles *)

\* An edge is an entry that leads from a group to a group.
LEMMA EdgesLead ==
  ASSUME NEW r, TablesOK(r)
  PROVE  Edges(r) = {e \in (DOMAIN r.groups) \X (DOMAIN r.groups) : Leads(r, e[1], e[2])}
<1>1. ASSUME NEW u \in DOMAIN r.groups, NEW v \in DOMAIN r.groups
      PROVE  (\E n \in RefNames(r.groups[u]) : InternalName(r, n) = v) <=> Leads(r, u, v)
  <2>1. DOMAIN r.groups[u].models = 1 .. Len(r.groups[u].models) /\ v # NoName
    BY DEF TablesOK
  <2>2. ASSUME NEW n \in RefNames(r.groups[u]), InternalName(r, n) = v PROVE Leads(r, u, v)
    <3>1. PICK i \in 1 .. Len(r.groups[u].models) :
            ~ IsLeaf(r.groups[u].models[i]) /\ n = r.groups[u].models[i].to
      BY <2>1 DEF RefNames, ToSet
    <3>2. Successor(r, r.groups[u].models[i]) = v
      BY <2>2, <3>1 DEF Successor
    <3> QED BY <3>2 DEF Leads
  <2>3. ASSUME Leads(r, u, v)
        PROVE  \E n \in RefNames(r.groups[u]) : InternalName(r, n) = v
    <3>1. PICK i \in 1 .. Len(r.groups[u].models) : Successor(r, r.groups[u].models[i]) = v
      BY <2>3 DEF Leads
    <3>2. /\ ~ IsLeaf(r.groups[u].models[i])
          /\ InternalName(r, r.groups[u].models[i].to) = v
      BY <2>1, <3>1 DEF Successor
    <3>3. r.groups[u].models[i].to \in RefNames(r.groups[u])
      BY <2>1, <3>2 DEF RefNames, ToSet
    <3> QED BY <3>2, <3>3
  <2> QED BY <2>2, <2>3
<1> QED BY <1>1 DEF Edges

Targets(r, S) == {e[2] : e \in {x \in Edges(r) : x[1] \in S}}

LEMMA TargetsLed ==
  ASSUME NEW r, TablesOK(r), NEW S
  PROVE  \A v : v \in Targets(r, S) <=> \E u \in S : Leads(r, u, v)
<1>1. ASSUME NEW v, v \in Targets(r, S) PROVE \E u \in S : Leads(r, u, v)
  <2>1. PICK e \in Edges(r) : e[1] \in S /\ e[2] = v
    BY <1>1 DEF Targets
  <2> QED BY <2>1, EdgesLead
<1>2. ASSUME NEW v, NEW u \in S, Leads(r, u, v) PROVE v \in Targets(r, S)
  <2>1. <<u, v>> \in Edges(r)
    BY <1>2, EdgesLead DEF Leads
  <2>2. <<u, v>>[1] = u /\ <<u, v>>[2] = v
    OBVIOUS
  <2> QED BY <2>1, <2>2 DEF Targets
<1> QED BY <1>1, <1>2

LEMMA GrowUnfolds ==
  ASSUME NEW r, NEW S, Cardinality(DOMAIN r.groups) \in Nat
  PROVE  \E w : /\ \A k \in 0 .. Cardinality(DOMAIN r.groups) :
                     w[k] = IF k = 0 THEN S ELSE w[k - 1] \cup Targets(r, w[k - 1])
                /\ ReachableFrom(r, S) = w[Cardinality(DOMAIN r.groups)]
<1> DEFINE N == Cardinality(DOMAIN r.groups)
           Is(w, m) == w = [k \in 0 .. m |->
                              IF k = 0 THEN S ELSE w[k - 1] \cup Targets(r, w[k - 1])]
           None == {m \in 0 .. N : ~ \E w : Is(w, m)}
<1>1. None = {}
  <2>1. SUFFICES ASSUME None # {} PROVE FALSE
    OBVIOUS
  <2>2. PICK m \in None : \A j \in None : m <= j
    <3>1. None \in SUBSET Nat
      OBVIOUS
    <3> HIDE DEF None
    <3> QED BY <2>1, <3>1, LeastOne
  <2>3. m \in Nat /\ m <= N /\ ~ \E w : Is(w, m)
    OBVIOUS
  <2>4. CASE m = 0
    <3>1. Is([k \in 0 .. 0 |-> S], 0)
      OBVIOUS
    <3> HIDE DEF Is
    <3> QED BY <2>3, <2>4, <3>1
  <2>5. CASE m # 0
    <3>1. m - 1 \in 0 .. N /\ m - 1 \notin None
      <4>1. m - 1 \in 0 .. N /\ ~ (m <= m - 1)
        BY <2>3, <2>5
      <4> HIDE DEF None
      <4> QED BY <2>2, <4>1
    <3>2. PICK v : Is(v, m - 1)
      BY <3>1
    <3> DEFINE w == [k \in 0 .. m |-> IF k = 0 THEN S ELSE v[k - 1] \cup Targets(r, v[k - 1])]
    <3>3. ASSUME NEW k \in 0 .. m, k # 0 PROVE w[k - 1] = v[k - 1]
      <4>1. k - 1 \in 0 .. m - 1 /\ k - 1 \in 0 .. m
        BY <2>3, <3>3
      <4>2. v[k - 1] = IF k - 1 = 0 THEN S ELSE v[k - 1 - 1] \cup Targets(r, v[k - 1 - 1])
        BY <3>2, <4>1
      <4> QED BY <4>1, <4>2
    <3>4. ASSUME NEW k \in 0 .. m
          PROVE  (IF k = 0 THEN S ELSE w[k - 1] \cup Targets(r, w[k - 1]))
                   = (IF k = 0 THEN S ELSE v[k - 1] \cup Targets(r, v[k - 1]))
      <4> HIDE DEF w
      <4> QED BY <3>3
    <3>5. Is(w, m)
      BY <3>4
    <3> HIDE DEF Is
    <3> QED BY <2>3, <3>5
  <2> QED BY <2>4, <2>5
<1>2. \E w : Is(w, N)
  <2>1. N \in 0 .. N
    OBVIOUS
  <2> HIDE DEF Is
  <2> QED BY <1>1, <2>1
<1> DEFINE w == CHOOSE v : Is(v, N)
<1>3. Is(w, N)
  <2> HIDE DEF Is
  <2> QED BY <1>2
<1>4. ReachableFrom(r, S) = w[N]
  BY DEF ReachableFrom, Targets
<1> HIDE DEF w
<1>5. \A k \in 0 .. N : w[k] = IF k = 0 THEN S ELSE w[k - 1] \cup Targets(r, w[k - 1])
  BY <1>3
<1> QED BY <1>4, <1>5

\* As many rounds as there are groups reach all there is to reach, and no more.
LEMMA RoundsReachAll ==
  ASSUME NEW r, TablesOK(r), NEW S \in SUBSET DOMAIN r.groups
  PROVE  /\ S \subseteq ReachableFrom(r, S)
         /\ S # {} => Closed(r, ReachableFrom(r, S))
         /\ \A v \in ReachableFrom(r, S) : \E h \in S : Reaches(r, h, v)
<1> DEFINE G == DOMAIN r.groups
           N == Cardinality(G)
<1>1. N \in Nat /\ IsFiniteSet(G)
  BY FS_CardinalityType DEF TablesOK
<1>2. PICK w : /\ \A k \in 0 .. N : w[k] = IF k = 0 THEN S ELSE w[k - 1] \cup Targets(r, w[k - 1])
               /\ ReachableFrom(r, S) = w[N]
  BY <1>1, GrowUnfolds
<1> DEFINE So(k) == /\ S \subseteq w[k] /\ w[k] \subseteq G
                    /\ \A v \in w[k] : \E h \in S : Reaches(r, h, v)
                    /\ S # {} => Closed(r, w[k]) \/ k + 1 <= Cardinality(w[k])
           Bad == {k \in 0 .. N : ~ So(k)}
<1>3. So(0)
  <2>1. w[0] = S
    <3>1. 0 \in 0 .. N
      BY <1>1
    <3> QED BY <1>2, <3>1
  <2>2. \A v \in S : Reaches(r, v, v)
    BY DEF Reaches
  <2>3. S # {} => 0 + 1 <= Cardinality(S)
    <3>1. IsFiniteSet(S) /\ Cardinality(S) \in Nat
      BY <1>1, FS_Subset, FS_CardinalityType
    <3>2. S # {} => Cardinality(S) # 0
      BY <3>1, FS_EmptySet
    <3> QED BY <3>1, <3>2
  <2> QED BY <2>1, <2>2, <2>3
<1>4. ASSUME NEW k \in 1 .. N, So(k - 1) PROVE So(k)
  <2> DEFINE W == w[k - 1]
             X == w[k]
  <2>1. X = W \cup Targets(r, W)
    <3>1. k \in 0 .. N /\ k # 0
      BY <1>1
    <3> QED BY <1>2, <3>1
  <2>2. /\ S \subseteq W /\ W \subseteq G
        /\ \A v \in W : \E h \in S : Reaches(r, h, v)
        /\ S # {} => Closed(r, W) \/ k <= Cardinality(W)
    BY <1>1, <1>4
  <2> HIDE DEF W, X, So
  <2>3. ASSUME NEW v \in Targets(r, W) PROVE v \in G /\ \E h \in S : Reaches(r, h, v)
    <3>1. PICK u \in W : Leads(r, u, v)
      BY TargetsLed
    <3>2. PICK h \in S : Reaches(r, h, u)
      BY <2>2
    <3>3. Reaches(r, h, v)
      BY <3>1, <3>2 DEF Reaches, Closed, Leads
    <3> QED BY <3>1, <3>3 DEF Leads
  <2>4. X \subseteq G /\ S \subseteq X /\ \A v \in X : \E h \in S : Reaches(r, h, v)
    BY <2>1, <2>2, <2>3
  <2>5. ASSUME S # {} PROVE Closed(r, X) \/ k + 1 <= Cardinality(X)
    <3>1. CASE Closed(r, W)
      <4>1. Targets(r, W) \subseteq W
        BY <3>1, TargetsLed DEF Closed, Leads
      <4>2. X = W
        BY <2>1, <4>1
      <4> QED BY <3>1, <4>2
    <3>2. CASE ~ Closed(r, W)
      <4>1. PICK u \in W, v \in G : Leads(r, u, v) /\ v \notin W
        BY <3>2 DEF Closed
      <4>2. v \in X
        BY <2>1, <4>1, TargetsLed
      <4>3. IsFiniteSet(W) /\ IsFiniteSet(X) /\ IsFiniteSet(W \cup {v})
        BY <1>1, <2>2, <2>4, FS_Subset, FS_AddElement
      <4>4. Cardinality(W \cup {v}) = Cardinality(W) + 1
        BY <4>1, <4>3, FS_AddElement
      <4>5. W \cup {v} \subseteq X
        BY <2>1, <4>2
      <4>6. Cardinality(W \cup {v}) <= Cardinality(X)
        BY <4>3, <4>5, FS_Subset
      <4>7. Cardinality(W) \in Nat /\ Cardinality(X) \in Nat
        BY <4>3, FS_CardinalityType
      <4>8. k <= Cardinality(W) /\ k \in Nat
        BY <1>1, <2>2, <2>5, <3>2
      <4> QED BY <4>4, <4>6, <4>7, <4>8
    <3> QED BY <3>1, <3>2
  <2> QED BY <2>4, <2>5 DEF So, X
<1> HIDE DEF So
<1>5. So(N)
  <2>1. Bad = {}
    <3>1. SUFFICES ASSUME Bad # {} PROVE FALSE
      OBVIOUS
    <3>2. PICK m \in Bad : \A j \in Bad : m <= j
      <4>1. Bad \in SUBSET Nat
        BY <1>1
      <4> HIDE DEF Bad
      <4> QED BY <3>1, <4>1, LeastOne
    <3>3. m # 0 /\ m \in 1 .. N /\ m - 1 \in 0 .. N /\ ~ (m <= m - 1)
      BY <1>1, <1>3
    <3>4. m - 1 \notin Bad
      <4> HIDE DEF Bad
      <4> QED BY <3>2, <3>3
    <3>5. So(m - 1)
      BY <3>3, <3>4
    <3> QED BY <1>4, <3>2, <3>3, <3>5
  <2>2. N \in 0 .. N
    BY <1>1
  <2> QED BY <2>1, <2>2
<1>6. S # {} => Closed(r, w[N])
  <2>1. w[N] \subseteq G
    BY <1>5 DEF So
  <2>2. Cardinality(w[N]) <= N /\ Cardinality(w[N]) \in Nat
    BY <1>1, <2>1, FS_Subset, FS_CardinalityType
  <2>3. ~ (N + 1 <= Cardinality(w[N]))
    BY <1>1, <2>2
  <2> QED BY <1>5, <2>3 DEF So
<1> QED BY <1>2, <1>5, <1>6 DEF So

\* A group reaches itself if and only if it is on a circle.
LEMMA AcyclicIsNoCircle ==
  ASSUME NEW r, TablesOK(r)
  PROVE  Acyclic(r) <=> ~ Circle(r)
<1> DEFINE First(g) == {e[2] : e \in {x \in Edges(r) : x[1] = g}}
<1>1. ASSUME NEW g \in DOMAIN r.groups
      PROVE  /\ First(g) \in SUBSET DOMAIN r.groups
             /\ \A h : h \in First(g) <=> Leads(r, g, h)
  <2>1. ASSUME NEW h, h \in First(g) PROVE Leads(r, g, h) /\ h \in DOMAIN r.groups
    <3>1. PICK e \in Edges(r) : e[1] = g /\ e[2] = h
      BY <2>1
    <3> QED BY <3>1, EdgesLead
  <2>2. ASSUME NEW h, Leads(r, g, h) PROVE h \in First(g)
    <3>1. <<g, h>> \in Edges(r)
      BY <2>2, EdgesLead DEF Leads
    <3>2. <<g, h>>[1] = g /\ <<g, h>>[2] = h
      OBVIOUS
    <3> QED BY <3>1, <3>2
  <2> QED BY <2>1, <2>2
<1>2. Acyclic(r) <=> \A g \in DOMAIN r.groups : g \notin ReachableFrom(r, First(g))
  BY DEF Acyclic
<1> HIDE DEF First
<1>3. ASSUME NEW g \in DOMAIN r.groups
      PROVE  g \in ReachableFrom(r, First(g)) <=> Properly(r, g, g)
  <2>1. ASSUME g \in ReachableFrom(r, First(g)) PROVE Properly(r, g, g)
    <3>1. PICK h \in First(g) : Reaches(r, h, g)
      BY <1>1, <2>1, RoundsReachAll
    <3> QED BY <1>1, <3>1 DEF Properly
  <2>2. ASSUME Properly(r, g, g) PROVE g \in ReachableFrom(r, First(g))
    <3>1. PICK h \in DOMAIN r.groups : Leads(r, g, h) /\ Reaches(r, h, g)
      BY <2>2 DEF Properly
    <3>2. PICK R : R = ReachableFrom(r, First(g))
      OBVIOUS
    <3>3. h \in R /\ Closed(r, R)
      BY <1>1, <3>1, <3>2, RoundsReachAll
    <3>4. R \cap DOMAIN r.groups \in SUBSET DOMAIN r.groups /\ Closed(r, R \cap DOMAIN r.groups)
      BY <3>3 DEF Closed
    <3> QED BY <3>1, <3>2, <3>3, <3>4 DEF Reaches
  <2> QED BY <2>1, <2>2
<1> QED BY <1>2, <1>3 DEF Circle

\* What a valid configuration gives has all this.
LEMMA TablesMade ==
  ASSUME NEW c, IsConfiguration(c), ValidRedirects(c)
  PROVE  TablesOK(MakeResolver(c))
<1> DEFINE r == MakeResolver(c)
           G == GroupNames(c)
<1>1. /\ c.groups \in Seq(GroupDefs) /\ c.redirects \in Seq(RedirectDefs)
      /\ Len(c.groups) \in Nat /\ DOMAIN c.groups = 1 .. Len(c.groups)
  BY DEF IsConfiguration
<1>2. /\ r.groups = [n \in G |-> [mode |-> Group(c, n).mode, exposure |-> Group(c, n).exposure,
                                  models |-> Group(c, n).models]]
      /\ r.redirects = BuildRedirects(c)
      /\ r.groupOrder = [i \in DOMAIN c.groups |-> c.groups[i].name]
  BY DEF MakeResolver, MakeTables
<1> HIDE DEF r
<1>3. IsFiniteSet(G)
  <2>1. IsFiniteSet(1 .. Len(c.groups))
    <3>1. 1 \in Int /\ Len(c.groups) \in Int
      BY <1>1
    <3> QED BY <3>1, FS_Interval
  <2>2. PICK f : f = [i \in 1 .. Len(c.groups) |-> c.groups[i].name]
    OBVIOUS
  <2>3. f \in [1 .. Len(c.groups) -> G] /\ \A g \in G : \E i \in 1 .. Len(c.groups) : f[i] = g
    BY <1>1, <2>2 DEF GroupNames
  <2>4. f \in Surjection(1 .. Len(c.groups), G)
    <3> HIDE DEF G
    <3> QED BY <2>3 DEF Surjection
  <2> QED BY <2>1, <2>4, FS_Surjection
<1>4. \A i \in DOMAIN c.groups : c.groups[i] \in GroupDefs /\ c.groups[i].name \in Names
  <2> SUFFICES ASSUME NEW i \in DOMAIN c.groups
               PROVE  c.groups[i] \in GroupDefs /\ c.groups[i].name \in Names
    OBVIOUS
  <2>1. c.groups[i] \in GroupDefs
    BY <1>1
  <2> QED BY <2>1 DEF GroupDefs
<1>5. NoName \notin G
  BY <1>4, NamesAssumption DEF NamesAssumption, GroupNames
<1>6. ASSUME NEW g \in G
      PROVE  /\ r.groups[g].models \in Seq(Entries)
  <2>1. Group(c, g) \in GroupDefs
    BY <1>4 DEF Group, GroupNames
  <2>2. r.groups[g].models = Group(c, g).models
    BY <1>2
  <2> QED BY <2>1, <2>2 DEF GroupDefs
<1>7. ASSUME NEW s \in DOMAIN r.redirects PROVE r.redirects[s].final \in G \cup {NoName}
  <2>1. r.redirects[s].final = ResolveAlias(c, Redirect(c, s).target)
    BY <1>2, <1>7 DEF BuildRedirects
  <2> QED BY <2>1 DEF ResolveAlias
<1>8. /\ Len(r.groupOrder) \in Nat
      /\ \A i \in 1 .. Len(r.groupOrder) : r.groupOrder[i] \in G
      /\ \A g \in G : \E i \in 1 .. Len(r.groupOrder) : r.groupOrder[i] = g
  <2>1. PICK o : o = r.groupOrder
    OBVIOUS
  <2>2. o \in Seq(Names) /\ Len(o) = Len(c.groups)
        /\ \A i \in 1 .. Len(c.groups) : o[i] = c.groups[i].name
    BY <1>1, <1>2, <1>4, <2>1
  <2> QED BY <1>1, <2>1, <2>2 DEF GroupNames
<1>9. DOMAIN r.groups = G
  BY <1>2
<1> QED BY <1>3, <1>5, <1>6, <1>7, <1>8, <1>9 DEF TablesOK, r

------------------------------------------------------------------------------
(* What refers to what *)

\* Names a reference may lead to.
Known(c) == GroupNames(c) \cup Sources(c)

\* What is named o refers to the name n: a redirect, or an entry of a group.
RefersTo(c, o, n) ==
  \/ \E i \in DOMAIN c.redirects : c.redirects[i].source = o /\ c.redirects[i].target = n
  \/ \E i \in DOMAIN c.groups : c.groups[i].name = o /\ n \in RefNames(c.groups[i])

\* A group named o sends to the provider n.
SendsTo(c, o, n) ==
  \E i \in DOMAIN c.groups : c.groups[i].name = o /\ n \in LeafProviders(c.groups[i])

Loose(c, o, n) ==
  \/ RefersTo(c, o, n) /\ n \notin Known(c)
  \/ SendsTo(c, o, n) /\ n \notin DOMAIN c.providers

\* What dangles, by who refers and to what.
LEMMA DanglingIs ==
  ASSUME NEW c, NEW y
  PROVE  y \in Dangling(c) <=> \E o, n : y = <<o, n>> /\ Loose(c, o, n)
<1>1. \A o, n : Loose(c, o, n) <=>
        \/ \E r \in ToSet(c.redirects) : /\ r.target \notin Known(c)
                                        /\ <<o, n>> = <<r.source, r.target>>
        \/ \E g \in ToSet(c.groups) :
             /\ <<o, n>> = <<g.name, n>>
             /\ n \in (RefNames(g) \ Known(c)) \cup (LeafProviders(g) \ DOMAIN c.providers)
  BY DEF Loose, RefersTo, SendsTo, ToSet
<1>2. ASSUME NEW o, NEW n, y = <<o, n>>, Loose(c, o, n)
      PROVE  y \in Dangling(c)
  <2>1. CASE \E r \in ToSet(c.redirects) : r.target \notin Known(c)
                                           /\ <<o, n>> = <<r.source, r.target>>
    BY <1>2, <2>1 DEF Dangling, Known
  <2>2. CASE \E g \in ToSet(c.groups) :
               /\ <<o, n>> = <<g.name, n>>
               /\ n \in (RefNames(g) \ Known(c)) \cup (LeafProviders(g) \ DOMAIN c.providers)
    BY <1>2, <2>2 DEF Dangling, Known
  <2> QED BY <1>1, <1>2, <2>1, <2>2
<1>3. ASSUME y \in Dangling(c)
      PROVE  \E o, n : y = <<o, n>> /\ Loose(c, o, n)
  <2>1. \/ \E r \in ToSet(c.redirects) : r.target \notin Known(c) /\ y = <<r.source, r.target>>
        \/ \E g \in ToSet(c.groups) :
             \E n \in (RefNames(g) \ Known(c)) \cup (LeafProviders(g) \ DOMAIN c.providers) :
               y = <<g.name, n>>
    BY <1>3 DEF Dangling, Known
  <2>2. CASE \E r \in ToSet(c.redirects) : r.target \notin Known(c) /\ y = <<r.source, r.target>>
    BY <1>1, <2>2
  <2>3. CASE \E g \in ToSet(c.groups) :
               \E n \in (RefNames(g) \ Known(c)) \cup (LeafProviders(g) \ DOMAIN c.providers) :
                 y = <<g.name, n>>
    BY <1>1, <2>3
  <2> QED BY <2>1, <2>2, <2>3
<1> QED BY <1>2, <1>3

\* Nothing but what x refers to comes loose.
OnlyLoosens(c, d, x) == \A o, n : Loose(d, o, n) /\ o # x => Loose(c, o, n)

LEMMA LoosensAreNamed ==
  ASSUME NEW c, NEW d, NEW x, OnlyLoosens(c, d, x)
  PROVE  \A y \in Dangling(d) \ Dangling(c) : y[1] = x
<1> SUFFICES ASSUME NEW y \in Dangling(d) \ Dangling(c) PROVE y[1] = x
  OBVIOUS
<1>1. PICK o, n : y = <<o, n>> /\ Loose(d, o, n)
  BY DanglingIs
<1>2. ~ Loose(c, o, n)
  BY <1>1, DanglingIs
<1>3. o = x
  BY <1>1, <1>2 DEF OnlyLoosens
<1> QED BY <1>1, <1>3

\* No object but x refers to more than it did.
Adds(c, d, x) ==
  /\ \A i \in DOMAIN d.redirects :
       \/ d.redirects[i].source = x
       \/ \E k \in DOMAIN c.redirects : d.redirects[i] = c.redirects[k]
  /\ \A i \in DOMAIN d.groups :
       \/ d.groups[i].name = x
       \/ \E k \in DOMAIN c.groups : d.groups[i] = c.groups[k]

\* Then it is enough that nobody else refers to what has vanished.
LEMMA FewerReferences ==
  ASSUME NEW c, NEW d, NEW x, Adds(c, d, x),
         \A o : \A n \in Known(c) \ Known(d) : o # x => ~ RefersTo(c, o, n),
         \A o : \A n \in DOMAIN c.providers \ DOMAIN d.providers : o # x => ~ SendsTo(c, o, n)
  PROVE  OnlyLoosens(c, d, x)
<1> SUFFICES ASSUME NEW o, NEW n, Loose(d, o, n), o # x PROVE Loose(c, o, n)
  BY DEF OnlyLoosens
<1>1. RefersTo(d, o, n) => RefersTo(c, o, n)
  BY DEF RefersTo, Adds
<1>2. SendsTo(d, o, n) => SendsTo(c, o, n)
  BY DEF SendsTo, Adds
<1> QED BY <1>1, <1>2 DEF Loose

\* RemoveAt and Reverse keep every other element.
LEMMA RemovedKeeps ==
  ASSUME NEW T, NEW s \in Seq(T), NEW k \in DOMAIN s, NEW i \in DOMAIN s, i # k
  PROVE  \E j \in DOMAIN RemoveAt(s, k) : RemoveAt(s, k)[j] = s[i]
<1>1. PICK q : /\ q = RemoveAt(s, k) /\ q \in Seq(T) /\ Len(q) = Len(s) - 1
               /\ \A j \in 1 .. Len(s) - 1 : q[j] = IF j < k THEN s[j] ELSE s[j + 1]
  BY Removed
<1>2. /\ Len(s) \in Nat /\ DOMAIN s = 1 .. Len(s) /\ DOMAIN q = 1 .. Len(s) - 1
      /\ k \in 1 .. Len(s) /\ i \in 1 .. Len(s)
  BY <1>1
<1>3. CASE i < k
  BY <1>1, <1>2, <1>3
<1>4. CASE ~ (i < k)
  <2>1. i - 1 \in 1 .. Len(s) - 1 /\ ~ (i - 1 < k) /\ i - 1 + 1 = i
    BY <1>2, <1>4
  <2> QED BY <1>1, <1>2, <2>1
<1> QED BY <1>3, <1>4

LEMMA ReversedKeeps ==
  ASSUME NEW T, NEW s \in Seq(T), NEW i \in DOMAIN s
  PROVE  \E j \in DOMAIN Reverse(s) : Reverse(s)[j] = s[i]
<1>1. PICK q : /\ q = Reverse(s) /\ q \in Seq(T) /\ Len(q) = Len(s)
               /\ \A j \in DOMAIN s : q[j] = s[Len(s) - j + 1]
  BY Reversed
<1>2. Len(s) \in Nat /\ DOMAIN s = 1 .. Len(s) /\ DOMAIN q = 1 .. Len(s) /\ i \in 1 .. Len(s)
  BY <1>1
<1>3. /\ Len(s) - i + 1 \in 1 .. Len(s)
      /\ Len(s) - (Len(s) - i + 1) + 1 = i
  BY <1>2
<1> QED BY <1>1, <1>2, <1>3

\* The groups but those named n are kept, and nobody else refers to n.
LEMMA GroupsTakenOut ==
  ASSUME NEW c, NEW d, NEW n, d.redirects = c.redirects, d.providers = c.providers,
         \A i \in DOMAIN d.groups : \E k \in DOMAIN c.groups : d.groups[i] = c.groups[k],
         \A k \in DOMAIN c.groups :
           \/ c.groups[k].name = n
           \/ \E i \in DOMAIN d.groups : d.groups[i] = c.groups[k],
         \A o : o # n => ~ RefersTo(c, o, n)
  PROVE  OnlyLoosens(c, d, n)
<1>1. Adds(c, d, n)
  BY DEF Adds
<1>2. Known(c) \ Known(d) \subseteq {n}
  BY DEF Known, GroupNames, Sources
<1> QED BY <1>1, <1>2, FewerReferences

\* The redirects but those of the source n are kept, and nobody else refers to n.
LEMMA RedirectsTakenOut ==
  ASSUME NEW c, NEW d, NEW n, d.groups = c.groups, d.providers = c.providers,
         \A i \in DOMAIN d.redirects : \E k \in DOMAIN c.redirects : d.redirects[i] = c.redirects[k],
         \A k \in DOMAIN c.redirects :
           \/ c.redirects[k].source = n
           \/ \E i \in DOMAIN d.redirects : d.redirects[i] = c.redirects[k],
         \A o : o # n => ~ RefersTo(c, o, n)
  PROVE  OnlyLoosens(c, d, n)
<1>1. Adds(c, d, n)
  BY DEF Adds
<1>2. Known(c) \ Known(d) \subseteq {n}
  BY DEF Known, GroupNames, Sources
<1> QED BY <1>1, <1>2, FewerReferences

\* The groups and redirects are the same, and only providers nobody uses are gone.
LEMMA ProvidersTakenOut ==
  ASSUME NEW c, NEW d, NEW x, d.groups = c.groups, d.redirects = c.redirects,
         \A o : \A n \in DOMAIN c.providers \ DOMAIN d.providers : ~ SendsTo(c, o, n)
  PROVE  OnlyLoosens(c, d, x)
<1>1. Adds(c, d, x) /\ Known(c) = Known(d)
  BY DEF Adds, Known, GroupNames, Sources
<1> QED BY <1>1, FewerReferences

\* A group was put at the end.
LEMMA GroupPutIn ==
  ASSUME NEW c, IsConfiguration(c), NEW d, NEW g, d.groups = Append(c.groups, g),
         d.redirects = c.redirects, d.providers = c.providers
  PROVE  OnlyLoosens(c, d, g.name)
<1> DEFINE N == Len(c.groups)
<1>1. /\ DOMAIN d.groups = 1 .. N + 1 /\ DOMAIN c.groups = 1 .. N /\ N \in Nat
      /\ d.groups[N + 1] = g /\ \A i \in 1 .. N : d.groups[i] = c.groups[i]
  BY DEF IsConfiguration
<1>2. \A i \in 1 .. N + 1 : i = N + 1 \/ i \in 1 .. N
  BY <1>1
<1> HIDE DEF N
<1>3. Adds(c, d, g.name)
  BY <1>1, <1>2 DEF Adds
<1>4. Known(c) \subseteq Known(d)
  BY <1>1, <1>2 DEF Known, GroupNames, Sources
<1> QED BY <1>3, <1>4, FewerReferences

\* A redirect was put at the end.
LEMMA RedirectPutIn ==
  ASSUME NEW c, IsConfiguration(c), NEW d, NEW r, d.redirects = Append(c.redirects, r),
         d.groups = c.groups, d.providers = c.providers
  PROVE  OnlyLoosens(c, d, r.source)
<1> DEFINE N == Len(c.redirects)
<1>1. /\ DOMAIN d.redirects = 1 .. N + 1 /\ DOMAIN c.redirects = 1 .. N /\ N \in Nat
      /\ d.redirects[N + 1] = r /\ \A i \in 1 .. N : d.redirects[i] = c.redirects[i]
  BY DEF IsConfiguration
<1>2. \A i \in 1 .. N + 1 : i = N + 1 \/ i \in 1 .. N
  BY <1>1
<1> HIDE DEF N
<1>3. Adds(c, d, r.source)
  BY <1>1, <1>2 DEF Adds
<1>4. Known(c) \subseteq Known(d)
  BY <1>1, <1>2 DEF Known, GroupNames, Sources
<1> QED BY <1>3, <1>4, FewerReferences

\* A redirect was written anew under its name.
LEMMA RedirectRewritten ==
  ASSUME NEW c, IsConfiguration(c), NEW d, IsConfiguration(d), NEW r,
         Len(d.redirects) = Len(c.redirects),
         \A i \in DOMAIN c.redirects :
           d.redirects[i] = IF c.redirects[i].source = r.source THEN r ELSE c.redirects[i],
         d.groups = c.groups, d.providers = c.providers
  PROVE  OnlyLoosens(c, d, r.source)
<1>1. DOMAIN d.redirects = DOMAIN c.redirects
  BY DEF IsConfiguration
<1>2. Adds(c, d, r.source)
  BY <1>1 DEF Adds
<1>3. Known(c) \subseteq Known(d)
  <2>1. Sources(c) \subseteq Sources(d)
    BY <1>1 DEF Sources
  <2> QED BY <2>1 DEF Known, GroupNames
<1> QED BY <1>2, <1>3, FewerReferences

\* Where the entries of a group lead, as a matter of its positions.
LEMMA NamesLedTo ==
  ASSUME NEW g, NEW n
  PROVE  /\ n \in RefNames(g) <=>
              \E j \in DOMAIN g.models : ~ IsLeaf(g.models[j]) /\ g.models[j].to = n
         /\ n \in LeafProviders(g) <=>
              \E j \in DOMAIN g.models : IsLeaf(g.models[j]) /\ g.models[j].to = n
BY DEF RefNames, LeafProviders, ToSet

\* h has the entries of g with the group, or the provider, old renamed.
GroupRenamedIn(g, h, old, new) ==
  g.models \in Seq(Entries) /\ h.models = Retarget(g.models, FALSE, old, new)
ProviderRenamedIn(g, h, old, new) ==
  g.models \in Seq(Entries) /\ h.models = Retarget(g.models, TRUE, old, new)

\* Renaming a group in the entries of another one: no leaf becomes a reference, no
\* reference a leaf.
LEMMA GroupRetargeted ==
  ASSUME NEW g, NEW h, NEW old, NEW new, new \notin Slashed, GroupRenamedIn(g, h, old, new)
  PROVE  /\ \A n \in LeafProviders(h) : n \in LeafProviders(g)
         /\ \A n \in RefNames(h) : n = new \/ (n \in RefNames(g) /\ n # old)
<1>1. /\ DOMAIN h.models = DOMAIN g.models
      /\ \A j \in DOMAIN g.models :
           h.models[j] = IF IsLeaf(g.models[j]) = FALSE /\ g.models[j].to = old
                         THEN [g.models[j] EXCEPT !.to = new] ELSE g.models[j]
  BY DEF GroupRenamedIn, Retarget
<1>2. ASSUME NEW j \in DOMAIN g.models
      PROVE  \/ h.models[j] = g.models[j] /\ (IsLeaf(g.models[j]) \/ g.models[j].to # old)
             \/ ~ IsLeaf(h.models[j]) /\ h.models[j].to = new
  <2>1. PICK e \in Entries : e = g.models[j]
    BY DEF GroupRenamedIn
  <2>2. IsLeaf(e) \in BOOLEAN
    BY DEF IsLeaf, Entries
  <2>3. CASE ~ IsLeaf(e) /\ e.to = old
    <3>1. h.models[j] = [e EXCEPT !.to = new]
      BY <1>1, <2>1, <2>2, <2>3
    <3>2. h.models[j].to = new /\ h.models[j].leaf = e.leaf
      BY <3>1 DEF Entries
    <3> QED BY <2>3, <3>2 DEF IsLeaf
  <2>4. CASE ~ (~ IsLeaf(e) /\ e.to = old)
    BY <1>1, <2>1, <2>2, <2>4
  <2> QED BY <2>3, <2>4
<1>3. ASSUME NEW n \in LeafProviders(h) PROVE n \in LeafProviders(g)
  BY <1>1, <1>2, <1>3 DEF LeafProviders, ToSet
<1>4. ASSUME NEW n \in RefNames(h) PROVE n = new \/ (n \in RefNames(g) /\ n # old)
  BY <1>1, <1>2, <1>4 DEF RefNames, ToSet
<1> QED BY <1>3, <1>4

\* Renaming a provider: the same.
LEMMA ProviderRetargeted ==
  ASSUME NEW g, NEW h, NEW old, old \notin Slashed, NEW new, ProviderRenamedIn(g, h, old, new)
  PROVE  /\ \A n \in RefNames(h) : n \in RefNames(g)
         /\ \A n \in LeafProviders(h) : n = new \/ (n \in LeafProviders(g) /\ n # old)
<1>1. /\ DOMAIN h.models = DOMAIN g.models
      /\ \A j \in DOMAIN g.models :
           h.models[j] = IF IsLeaf(g.models[j]) = TRUE /\ g.models[j].to = old
                         THEN [g.models[j] EXCEPT !.to = new] ELSE g.models[j]
  BY DEF ProviderRenamedIn, Retarget
<1>2. ASSUME NEW j \in DOMAIN g.models
      PROVE  \/ h.models[j] = g.models[j] /\ (~ IsLeaf(g.models[j]) \/ g.models[j].to # old)
             \/ IsLeaf(h.models[j]) /\ h.models[j].to = new
  <2>1. PICK e \in Entries : e = g.models[j]
    BY DEF ProviderRenamedIn
  <2>2. IsLeaf(e) \in BOOLEAN
    BY DEF IsLeaf, Entries
  <2>3. CASE IsLeaf(e) /\ e.to = old
    <3>1. h.models[j] = [e EXCEPT !.to = new]
      BY <1>1, <2>1, <2>2, <2>3
    <3>2. h.models[j].to = new /\ h.models[j].leaf = e.leaf
      BY <3>1 DEF Entries
    <3> QED BY <2>3, <3>2 DEF IsLeaf
  <2>4. CASE ~ (IsLeaf(e) /\ e.to = old)
    BY <1>1, <2>1, <2>2, <2>4
  <2> QED BY <2>3, <2>4
<1>3. ASSUME NEW n \in RefNames(h) PROVE n \in RefNames(g)
  BY <1>1, <1>2, <1>3 DEF RefNames, ToSet
<1>4. ASSUME NEW n \in LeafProviders(h) PROVE n = new \/ (n \in LeafProviders(g) /\ n # old)
  BY <1>1, <1>2, <1>4 DEF LeafProviders, ToSet
<1> QED BY <1>3, <1>4

\* The entries of a group of a configuration are entries.
LEMMA ModelsTyped ==
  ASSUME NEW c, IsConfiguration(c), NEW i \in DOMAIN c.groups
  PROVE  c.groups[i] \in GroupDefs /\ c.groups[i].models \in Seq(Entries)
<1>1. c.groups[i] \in GroupDefs
  BY DEF IsConfiguration
<1> QED BY <1>1 DEF GroupDefs

\* A group was written anew, perhaps under a new name without "/", and the others and the
\* redirects follow.
LEMMA GroupRewritten ==
  ASSUME NEW c, IsConfiguration(c), NEW d, IsConfiguration(d),
         NEW old \in GroupNames(c), NEW in \in GroupDefs, in.name \notin Slashed,
         d.providers = c.providers, Len(d.groups) = Len(c.groups),
         \A i \in DOMAIN c.groups :
           d.groups[i].name = IF c.groups[i].name = old THEN in.name ELSE c.groups[i].name,
         \A i \in DOMAIN c.groups : d.groups[i].models = UpdatedModels(c.groups[i], old, in),
         Len(d.redirects) = Len(c.redirects),
         \A i \in DOMAIN c.redirects :
           /\ d.redirects[i].source = c.redirects[i].source
           /\ d.redirects[i].target = IF c.redirects[i].target = old THEN in.name
                                      ELSE c.redirects[i].target
  PROVE  OnlyLoosens(c, d, in.name)
<1>1. DOMAIN d.groups = DOMAIN c.groups /\ DOMAIN d.redirects = DOMAIN c.redirects
  BY DEF IsConfiguration
<1>2. in.name \in Known(d) /\ Known(c) \subseteq Known(d) \cup {old}
  BY <1>1 DEF Known, GroupNames, Sources
<1> SUFFICES ASSUME NEW o, NEW n, Loose(d, o, n), o # in.name PROVE Loose(c, o, n)
  BY DEF OnlyLoosens
<1>3. ASSUME NEW i \in DOMAIN d.groups, d.groups[i].name = o
      PROVE  /\ c.groups[i].name = o
             /\ \A m \in LeafProviders(d.groups[i]) : m \in LeafProviders(c.groups[i])
             /\ \A m \in RefNames(d.groups[i]) :
                  m = in.name \/ (m \in RefNames(c.groups[i]) /\ m # old)
  <2>1. c.groups[i].name = o /\ c.groups[i].name # old /\ c.groups[i].name # in.name
    BY <1>1, <1>3
  <2>2. d.groups[i].models = UpdatedModels(c.groups[i], old, in)
    BY <1>1
  <2>3. c.groups[i].models \in Seq(Entries)
    BY <1>1, ModelsTyped
  <2>4. PICK g, h : g = c.groups[i] /\ h = d.groups[i]
    OBVIOUS
  <2>5. GroupRenamedIn(g, h, old, in.name)
    BY <2>1, <2>2, <2>3, <2>4 DEF UpdatedModels, GroupRenamedIn
  <2>6. /\ \A m \in LeafProviders(h) : m \in LeafProviders(g)
        /\ \A m \in RefNames(h) : m = in.name \/ (m \in RefNames(g) /\ m # old)
    BY <2>5, GroupRetargeted
  <2> QED BY <2>1, <2>4, <2>6
<1>4. CASE SendsTo(d, o, n) /\ n \notin DOMAIN d.providers
  <2>1. PICK i \in DOMAIN d.groups : d.groups[i].name = o /\ n \in LeafProviders(d.groups[i])
    BY <1>4 DEF SendsTo
  <2>2. c.groups[i].name = o /\ n \in LeafProviders(c.groups[i])
    BY <1>3, <2>1
  <2> QED BY <1>1, <1>4, <2>2 DEF Loose, SendsTo
<1>5. CASE RefersTo(d, o, n) /\ n \notin Known(d)
  <2>1. n # in.name
    BY <1>2, <1>5
  <2>2. RefersTo(c, o, n) /\ n # old
    <3>1. CASE \E i \in DOMAIN d.redirects : d.redirects[i].source = o /\ d.redirects[i].target = n
      BY <1>1, <2>1, <3>1 DEF RefersTo
    <3>2. CASE \E i \in DOMAIN d.groups : d.groups[i].name = o /\ n \in RefNames(d.groups[i])
      BY <1>1, <1>3, <2>1, <3>2 DEF RefersTo
    <3> QED BY <1>5, <3>1, <3>2 DEF RefersTo
  <2> QED BY <1>2, <1>5, <2>2 DEF Loose
<1> QED BY <1>4, <1>5 DEF Loose

\* A provider was written anew, perhaps under a new name, and the groups follow.
LEMMA ProviderRewritten ==
  ASSUME NEW c, IsConfiguration(c), NEW d, IsConfiguration(d),
         NEW old, old \notin Slashed, NEW new,
         DOMAIN d.providers = (DOMAIN c.providers \ {old}) \cup {new},
         d.redirects = c.redirects, Len(d.groups) = Len(c.groups),
         \A i \in DOMAIN c.groups :
           /\ d.groups[i].name = c.groups[i].name
           /\ d.groups[i].models = Retarget(c.groups[i].models, TRUE, old, new)
  PROVE  OnlyLoosens(c, d, new)
<1>1. DOMAIN d.groups = DOMAIN c.groups
  BY DEF IsConfiguration
<1>2. Known(c) = Known(d)
  BY <1>1 DEF Known, GroupNames, Sources
<1> SUFFICES ASSUME NEW o, NEW n, Loose(d, o, n), o # new PROVE Loose(c, o, n)
  BY DEF OnlyLoosens
<1>3. ASSUME NEW i \in DOMAIN d.groups
      PROVE  /\ c.groups[i].name = d.groups[i].name
             /\ \A m \in RefNames(d.groups[i]) : m \in RefNames(c.groups[i])
             /\ \A m \in LeafProviders(d.groups[i]) :
                  m = new \/ (m \in LeafProviders(c.groups[i]) /\ m # old)
  <2>1. c.groups[i].models \in Seq(Entries)
    BY <1>1, ModelsTyped
  <2>2. PICK g, h : g = c.groups[i] /\ h = d.groups[i]
    OBVIOUS
  <2>3. ProviderRenamedIn(g, h, old, new)
    BY <1>1, <2>1, <2>2 DEF ProviderRenamedIn
  <2>4. /\ \A m \in RefNames(h) : m \in RefNames(g)
        /\ \A m \in LeafProviders(h) : m = new \/ (m \in LeafProviders(g) /\ m # old)
    BY <2>3, ProviderRetargeted
  <2> QED BY <1>1, <2>2, <2>4
<1>4. CASE SendsTo(d, o, n) /\ n \notin DOMAIN d.providers
  <2>1. PICK i \in DOMAIN d.groups : d.groups[i].name = o /\ n \in LeafProviders(d.groups[i])
    BY <1>4 DEF SendsTo
  <2>2. c.groups[i].name = o /\ n \in LeafProviders(c.groups[i]) /\ n # old
    BY <1>3, <1>4, <2>1
  <2> QED BY <1>1, <1>4, <2>2 DEF Loose, SendsTo
<1>5. CASE RefersTo(d, o, n) /\ n \notin Known(d)
  <2>1. RefersTo(c, o, n)
    BY <1>1, <1>3, <1>5 DEF RefersTo
  <2> QED BY <1>2, <1>5, <2>1 DEF Loose
<1> QED BY <1>4, <1>5 DEF Loose

\* Taking one group or redirect out, and turning a table round.
LEMMA GroupRemoved ==
  ASSUME NEW c, IsConfiguration(c), NEW d, d.redirects = c.redirects, d.providers = c.providers,
         NEW k \in DOMAIN c.groups, d.groups = RemoveAt(c.groups, k),
         \A o : o # c.groups[k].name => ~ RefersTo(c, o, c.groups[k].name)
  PROVE  OnlyLoosens(c, d, c.groups[k].name)
<1>1. c.groups \in Seq(GroupDefs)
  BY DEF IsConfiguration
<1>2. \A i \in DOMAIN d.groups : \E j \in DOMAIN c.groups : d.groups[i] = c.groups[j]
  <2>1. PICK o : /\ Picks(o, DOMAIN d.groups, DOMAIN c.groups)
                 /\ \A j \in DOMAIN d.groups : d.groups[j] = c.groups[o[j]]
    BY <1>1, RemovedPicks
  <2> QED BY <2>1 DEF Picks
<1>3. ASSUME NEW j \in DOMAIN c.groups, c.groups[j].name # c.groups[k].name
      PROVE  \E i \in DOMAIN d.groups : d.groups[i] = c.groups[j]
  BY <1>1, <1>3, RemovedKeeps
<1> QED BY <1>2, <1>3, GroupsTakenOut

LEMMA RedirectRemoved ==
  ASSUME NEW c, IsConfiguration(c), NEW d, d.groups = c.groups, d.providers = c.providers,
         NEW k \in DOMAIN c.redirects, d.redirects = RemoveAt(c.redirects, k),
         \A o : o # c.redirects[k].source => ~ RefersTo(c, o, c.redirects[k].source)
  PROVE  OnlyLoosens(c, d, c.redirects[k].source)
<1>1. c.redirects \in Seq(RedirectDefs)
  BY DEF IsConfiguration
<1>2. \A i \in DOMAIN d.redirects : \E j \in DOMAIN c.redirects : d.redirects[i] = c.redirects[j]
  <2>1. PICK o : /\ Picks(o, DOMAIN d.redirects, DOMAIN c.redirects)
                 /\ \A j \in DOMAIN d.redirects : d.redirects[j] = c.redirects[o[j]]
    BY <1>1, RemovedPicks
  <2> QED BY <2>1 DEF Picks
<1>3. ASSUME NEW j \in DOMAIN c.redirects, c.redirects[j].source # c.redirects[k].source
      PROVE  \E i \in DOMAIN d.redirects : d.redirects[i] = c.redirects[j]
  BY <1>1, <1>3, RemovedKeeps
<1> QED BY <1>2, <1>3, RedirectsTakenOut

LEMMA GroupsReversed ==
  ASSUME NEW c, IsConfiguration(c), NEW d, d.redirects = c.redirects, d.providers = c.providers,
         d.groups = Reverse(c.groups), NEW x
  PROVE  OnlyLoosens(c, d, x)
<1>1. c.groups \in Seq(GroupDefs)
  BY DEF IsConfiguration
<1>2. PICK o : /\ Picks(o, DOMAIN d.groups, DOMAIN c.groups)
               /\ \A j \in DOMAIN d.groups : d.groups[j] = c.groups[o[j]]
  BY <1>1, ReversedPicks
<1>3. Adds(c, d, x)
  BY <1>2 DEF Adds, Picks
<1>4. \A j \in DOMAIN c.groups : \E i \in DOMAIN d.groups : d.groups[i] = c.groups[j]
  BY <1>1, ReversedKeeps
<1>5. Known(c) \subseteq Known(d)
  BY <1>4 DEF Known, GroupNames, Sources
<1> QED BY <1>3, <1>5, FewerReferences

LEMMA RedirectsReversed ==
  ASSUME NEW c, IsConfiguration(c), NEW d, d.groups = c.groups, d.providers = c.providers,
         d.redirects = Reverse(c.redirects), NEW x
  PROVE  OnlyLoosens(c, d, x)
<1>1. c.redirects \in Seq(RedirectDefs)
  BY DEF IsConfiguration
<1>2. PICK o : /\ Picks(o, DOMAIN d.redirects, DOMAIN c.redirects)
               /\ \A j \in DOMAIN d.redirects : d.redirects[j] = c.redirects[o[j]]
  BY <1>1, ReversedPicks
<1>3. Adds(c, d, x)
  BY <1>2 DEF Adds, Picks
<1>4. \A j \in DOMAIN c.redirects : \E i \in DOMAIN d.redirects : d.redirects[i] = c.redirects[j]
  BY <1>1, ReversedKeeps
<1>5. Known(c) \subseteq Known(d)
  BY <1>4 DEF Known, GroupNames, Sources
<1> QED BY <1>3, <1>5, FewerReferences

\* What is checked before a group, a redirect or a provider goes.
LEMMA NobodyRefers ==
  ASSUME NEW n, ~ References(n), NEW o, o # n
  PROVE  ~ RefersTo(draft, o, n)
BY DEF References, RefersTo, ToSet

LEMMA NobodySends ==
  ASSUME NEW n, ReferencingGroups(n) = {}, NEW o
  PROVE  ~ SendsTo(draft, o, n)
BY DEF ReferencingGroups, SendsTo, ToSet

\* Clearing the hubs takes nobody's provider.
LEMMA ClearedUnused ==
  ASSUME NEW except, NEW n \in DOMAIN draft.providers \ DOMAIN ClearHubs(except), NEW o
  PROVE  ~ SendsTo(draft, o, n)
<1>1. ReferencingGroups(n) = {}
  BY DEF ClearHubs
<1> QED BY <1>1, NobodySends

\* The edit of one group, unless it gets a name with "/", leaves no reference of another
\* object dangling.
LEMMA EditedGroups ==
  ASSUME IsConfiguration(draft), EditGroups, request'.name \notin Slashed
  PROVE  OnlyLoosens(draft, draft', request'.name)
<1>1. ASSUME NEW in \in GroupInputs, CreateModelGroup(in)
      PROVE  OnlyLoosens(draft, draft', request'.name)
  <2>1. in \in GroupDefs
    BY RuntimeAssumption
  <2>2. request'.name = in.name
    BY <1>1 DEF CreateModelGroup, Edit
  <2>3. OnlyLoosens(draft, draft', in.name)
    BY <1>1, <2>1, CreateGroupWrites, GroupPutIn
  <2> QED BY <2>2, <2>3
<1>2. ASSUME NEW old, NEW in \in GroupInputs, UpdateModelGroup(old, in)
      PROVE  OnlyLoosens(draft, draft', request'.name)
  <2>1. in \in GroupDefs
    BY RuntimeAssumption
  <2>2. request'.name = in.name /\ old \in GroupNames(draft)
    BY <1>2 DEF UpdateModelGroup, Edit
  <2>3. OnlyLoosens(draft, draft', in.name)
    BY <1>2, <2>1, <2>2, UpdateWrites, GroupRewritten
  <2> QED BY <2>2, <2>3
<1>3. ASSUME NEW n, DeleteModelGroup(n)
      PROVE  OnlyLoosens(draft, draft', request'.name)
  <2>1. request'.name = n
    <3>1. request' = [op |-> "delete group", name |-> n]
      BY <1>3 DEF DeleteModelGroup, Edit
    <3> QED BY <3>1
  <2>2. PICK i \in DOMAIN draft.groups : /\ draft.groups[i].name = n
                                         /\ draft'.groups = RemoveAt(draft.groups, i)
    BY <1>3, DeleteGroupWrites
  <2>3. /\ draft'.redirects = draft.redirects /\ draft'.providers = draft.providers
        /\ ~ References(n)
    BY <1>3, DeleteGroupWrites
  <2>4. \A o : o # n => ~ RefersTo(draft, o, n)
    BY <2>3, NobodyRefers
  <2> QED BY <2>1, <2>2, <2>3, <2>4, GroupRemoved
<1>4. CASE ReorderModelGroups
  BY <1>4, ReorderGroupsWrites, GroupsReversed
<1> QED BY <1>1, <1>2, <1>3, <1>4 DEF EditGroups

\* Nor does that of a redirect, unless it is renamed.
LEMMA EditedRedirects ==
  ASSUME IsConfiguration(draft), EditRedirects, request'.op # "rename redirect"
  PROVE  OnlyLoosens(draft, draft', request'.name)
<1>1. ASSUME NEW in \in RedirectInputs, CreateRedirect(in)
      PROVE  OnlyLoosens(draft, draft', request'.name)
  <2>1. in \in RedirectDefs
    BY RuntimeAssumption
  <2>2. request'.name = in.source
    BY <1>1 DEF CreateRedirect, Edit
  <2>3. OnlyLoosens(draft, draft', in.source)
    BY <1>1, <2>1, CreateRedirectWrites, RedirectPutIn
  <2> QED BY <2>2, <2>3
<1>2. ASSUME NEW old, NEW in \in RedirectInputs, UpdateRedirect(old, in)
      PROVE  OnlyLoosens(draft, draft', request'.name)
  <2>1. in \in RedirectDefs
    BY RuntimeAssumption
  <2>2. request'.name = in.source /\ in.source = old
    BY <1>2 DEF UpdateRedirect, Edit
  <2>3. /\ IsConfiguration(draft') /\ draft'.providers = draft.providers
        /\ Len(draft'.redirects) = Len(draft.redirects)
        /\ \A i \in DOMAIN draft.redirects :
             draft'.redirects[i] = IF draft.redirects[i].source = in.source THEN in
                                   ELSE draft.redirects[i]
        /\ draft'.groups = draft.groups
    BY <1>2, <2>1, <2>2, UpdateRedirectWrites
  <2>4. OnlyLoosens(draft, draft', in.source)
    BY <2>3, RedirectRewritten
  <2> QED BY <2>2, <2>4
<1>3. ASSUME NEW s, DeleteRedirect(s)
      PROVE  OnlyLoosens(draft, draft', request'.name)
  <2>1. /\ request'.name = s
        /\ \A r \in ToSet(draft.redirects) : r.source # s => r.target # s
        /\ \A g \in ToSet(draft.groups) : s \notin RefNames(g)
    <3>1. /\ request' = [op |-> "delete redirect", name |-> s]
          /\ \A r \in ToSet(draft.redirects) : r.source # s => r.target # s
          /\ \A g \in ToSet(draft.groups) : s \notin RefNames(g)
      BY <1>3 DEF DeleteRedirect, Edit
    <3> QED BY <3>1
  <2>2. PICK i \in DOMAIN draft.redirects : /\ draft.redirects[i].source = s
                                            /\ draft'.redirects = RemoveAt(draft.redirects, i)
    BY <1>3, DeleteRedirectWrites
  <2>3. draft'.groups = draft.groups /\ draft'.providers = draft.providers
    BY <1>3, DeleteRedirectWrites
  <2>4. \A o : o # s => ~ RefersTo(draft, o, s)
    BY <2>1 DEF RefersTo, ToSet
  <2> QED BY <2>1, <2>2, <2>3, <2>4, RedirectRemoved
<1>4. CASE ReorderRedirects
  BY <1>4, ReorderRedirectsWrites, RedirectsReversed
<1> QED BY <1>1, <1>2, <1>3, <1>4 DEF EditRedirects

\* Nor that of a provider, renamed or not.
LEMMA EditedProviders ==
  ASSUME IsConfiguration(draft), EditProviders, Slashed \cap ProviderNames = {}
  PROVE  OnlyLoosens(draft, draft', request'.name)
<1>1. ASSUME NEW in \in ProviderInputs, CreateProvider(in)
      PROVE  OnlyLoosens(draft, draft', request'.name)
  <2>1. draft' = [draft EXCEPT !.providers = Put(draft.providers, in.name, in.body)]
    BY <1>1 DEF CreateProvider, Edit
  <2>2. PICK f : f = Put(draft.providers, in.name, in.body)
                 /\ DOMAIN f = DOMAIN draft.providers \cup {in.name}
    <3>1. /\ DOMAIN Put(draft.providers, in.name, in.body)
               = DOMAIN draft.providers \cup {in.name}
      BY DEF Put
    <3> QED BY <3>1
  <2>3. /\ draft'.groups = draft.groups /\ draft'.redirects = draft.redirects
        /\ draft'.providers = f
    BY <2>1, <2>2 DEF IsConfiguration
  <2>4. DOMAIN draft.providers \subseteq DOMAIN draft'.providers
    BY <2>2, <2>3
  <2> QED BY <2>3, <2>4, ProvidersTakenOut
<1>2. ASSUME NEW old, NEW in \in ProviderInputs, UpdateProvider(old, in)
      PROVE  OnlyLoosens(draft, draft', request'.name)
  <2>1. request'.name = in.name /\ old \in DOMAIN draft.providers
    BY <1>2 DEF UpdateProvider, Edit
  <2>2. old \notin Slashed
    BY <2>1 DEF IsConfiguration
  <2>3. /\ NamesKept(draft')
        /\ DOMAIN draft'.providers = (DOMAIN draft.providers \ {old}) \cup {in.name}
        /\ \A i \in DOMAIN draft.groups :
             draft'.groups[i].models = Retarget(draft.groups[i].models, TRUE, old, in.name)
    BY <1>2, UpdateProviderWrites
  <2>4. PICK c, d, new : c = draft /\ d = draft' /\ new = in.name
    OBVIOUS
  <2>5. /\ IsConfiguration(c) /\ IsConfiguration(d)
        /\ d.redirects = c.redirects /\ Len(d.groups) = Len(c.groups)
        /\ DOMAIN d.providers = (DOMAIN c.providers \ {old}) \cup {new}
        /\ \A i \in DOMAIN c.groups :
             /\ d.groups[i].name = c.groups[i].name
             /\ d.groups[i].models = Retarget(c.groups[i].models, TRUE, old, new)
    BY <2>3, <2>4 DEF NamesKept
  <2>6. OnlyLoosens(c, d, new)
    BY <2>2, <2>5, ProviderRewritten
  <2> QED BY <2>1, <2>4, <2>6
<1>3. ASSUME NEW n, DeleteProvider(n)
      PROVE  OnlyLoosens(draft, draft', request'.name)
  <2>1. /\ draft' = [draft EXCEPT !.providers = Drop(draft.providers, n)]
        /\ ReferencingGroups(n) = {}
    BY <1>3 DEF DeleteProvider, Edit
  <2>2. PICK f : f = Drop(draft.providers, n) /\ DOMAIN f = DOMAIN draft.providers \ {n}
    <3>1. DOMAIN Drop(draft.providers, n) = DOMAIN draft.providers \ {n}
      BY DEF Drop
    <3> QED BY <3>1
  <2>3. /\ draft'.groups = draft.groups /\ draft'.redirects = draft.redirects
        /\ draft'.providers = f
    BY <2>1, <2>2 DEF IsConfiguration
  <2>4. \A o : ~ SendsTo(draft, o, n)
    BY <2>1, NobodySends
  <2> QED BY <2>2, <2>3, <2>4, ProvidersTakenOut
<1> QED BY <1>1, <1>2, <1>3 DEF EditProviders

\* A change of the role takes nothing but what ClearHubs takes.
LEMMA EditedRole ==
  ASSUME IsConfiguration(draft), EditCascade
  PROVE  OnlyLoosens(draft, draft', request'.name)
<1>1. PICK s, f, except :
        /\ draft' = [draft EXCEPT !.spoke = s, !.providers = f]
        /\ DOMAIN ClearHubs(except) \subseteq DOMAIN f
  <2>1. CASE ApplyDisabled
    BY <2>1 DEF ApplyDisabled, Edit
  <2>2. ASSUME NEW n, ApplyHub(n)
        PROVE  /\ draft' = [draft EXCEPT !.spoke = NoSpoke,
                                        !.providers = Put(ClearHubs(n), n, HubMarker)]
               /\ DOMAIN ClearHubs(n) \subseteq DOMAIN Put(ClearHubs(n), n, HubMarker)
    BY <2>2 DEF ApplyHub, Edit, Put
  <2>3. ASSUME NEW n, ApplySpoke(n)
        PROVE  draft' = [draft EXCEPT !.spoke = [peer |-> n], !.providers = ClearHubs(NoName)]
    BY <2>3 DEF ApplySpoke, Edit
  <2> QED BY <2>1, <2>2, <2>3 DEF EditCascade
<1>2. /\ draft'.providers = f /\ draft'.groups = draft.groups
      /\ draft'.redirects = draft.redirects
  <2>1. PICK d : d = draft' /\ d = [draft EXCEPT !.spoke = s, !.providers = f]
    BY <1>1
  <2>2. d.providers = f /\ d.groups = draft.groups /\ d.redirects = draft.redirects
    BY <2>1 DEF IsConfiguration
  <2> QED BY <2>1, <2>2
<1>3. \A o : \A n \in DOMAIN draft.providers \ DOMAIN draft'.providers : ~ SendsTo(draft, o, n)
  BY <1>1, <1>2, ClearedUnused
<1> QED BY <1>2, <1>3, ProvidersTakenOut

\* Nor that of a key or of the rules.
LEMMA EditedOther ==
  ASSUME IsConfiguration(draft), EditKeys \/ EditRules
  PROVE  OnlyLoosens(draft, draft', request'.name)
<1>1. PICK k : draft' = [draft EXCEPT !.keys = k] \/ draft' = [draft EXCEPT !.rules = k]
  BY DEF EditKeys, CreateAuthKey, UpdateAuthKey, DeleteAuthKey, EditRules, ReplaceRules, Edit
<1>2. /\ draft'.providers = draft.providers /\ draft'.groups = draft.groups
      /\ draft'.redirects = draft.redirects
  BY <1>1, WithOther
<1> QED BY <1>2, ProvidersTakenOut

\* All edits.
LEMMA EditLoosens ==
  ASSUME IsConfiguration(draft), AnEdit, Slashed \cap ProviderNames = {},
         request'.op # "rename redirect", request'.name \notin Slashed
  PROVE  \A y \in Dangling(draft') \ Dangling(draft) : y[1] = request'.name
<1>1. OnlyLoosens(draft, draft', request'.name)
  BY EditedGroups, EditedRedirects, EditedProviders, EditedRole, EditedOther DEF AnEdit
<1> QED BY <1>1, LoosensAreNamed

------------------------------------------------------------------------------
(* smart_route and the spoke's peer *)

\* What makes them lose a name.
LEMMA OutsideKept ==
  ASSUME NEW c, NEW d, NEW y \in DanglingOutside(d) \ DanglingOutside(c)
  PROVE  \/ y[1] = "smart_route" /\ ~ (d.smart = c.smart /\ Known(c) \subseteq Known(d))
         \/ /\ y[1] = "cascade"
            /\ ~ (d.spoke = c.spoke /\ DOMAIN c.providers \subseteq DOMAIN d.providers)
<1>1. CASE \E n \in ({d.smart.cheap, d.smart.scout} \cup d.smart.enabled)
                     \ (GroupNames(d) \cup Sources(d) \cup {NoName}) : y = <<"smart_route", n>>
  <2>1. PICK n : /\ n \in {d.smart.cheap, d.smart.scout} \cup d.smart.enabled
                 /\ n \notin Known(d) \cup {NoName} /\ y = <<"smart_route", n>>
    BY <1>1 DEF Known
  <2>2. ASSUME d.smart = c.smart, n \notin Known(c) PROVE FALSE
    BY <2>1, <2>2 DEF DanglingOutside, Known
  <2> QED BY <2>1, <2>2
<1>2. CASE \E n \in {d.spoke.peer} \ (DOMAIN d.providers \cup {NoName}) : y = <<"cascade", n>>
  <2>1. PICK n : /\ n = d.spoke.peer /\ n \notin DOMAIN d.providers \cup {NoName}
                 /\ y = <<"cascade", n>>
    BY <1>2
  <2>2. ASSUME d.spoke = c.spoke, n \notin DOMAIN c.providers PROVE FALSE
    BY <2>1, <2>2 DEF DanglingOutside
  <2> QED BY <2>1, <2>2
<1> QED BY <1>1, <1>2 DEF DanglingOutside

\* An edit says what it is.
Says(op) == request'.op = op

\* Edits of groups and redirects leave the role and the providers alone, and those that
\* neither rename nor delete keep every name.
LEMMA TablesSay ==
  ASSUME IsConfiguration(draft), EditGroups \/ EditRedirects
  PROVE  /\ draft'.smart = draft.smart /\ draft'.spoke = draft.spoke
         /\ draft'.providers = draft.providers
         /\ \/ Known(draft) \subseteq Known(draft')
            \/ Says("update group") \/ Says("delete group")
            \/ Says("rename redirect") \/ Says("delete redirect")
<1> DEFINE Same == /\ draft'.smart = draft.smart /\ draft'.spoke = draft.spoke
                   /\ draft'.providers = draft.providers
<1>0. /\ draft = [providers |-> draft.providers, groups |-> draft.groups,
                  redirects |-> draft.redirects, spoke |-> draft.spoke, smart |-> draft.smart,
                  keys |-> draft.keys, rules |-> draft.rules]
      /\ draft.groups \in Seq(GroupDefs) /\ draft.redirects \in Seq(RedirectDefs)
  BY DEF IsConfiguration
<1>1. ASSUME NEW G, draft' = [draft EXCEPT !.groups = G]
      PROVE  Same /\ draft'.groups = G /\ draft'.redirects = draft.redirects
  BY <1>0, <1>1
<1>2. ASSUME NEW R, draft' = [draft EXCEPT !.redirects = R]
      PROVE  Same /\ draft'.redirects = R /\ draft'.groups = draft.groups
  BY <1>0, <1>2
<1>3. ASSUME NEW in \in GroupInputs, CreateModelGroup(in)
      PROVE  Same /\ Known(draft) \subseteq Known(draft')
  <2>1. draft' = [draft EXCEPT !.groups = Append(draft.groups, in)]
    BY <1>3 DEF CreateModelGroup, Edit
  <2>2. /\ Same /\ draft'.groups = Append(draft.groups, in)
        /\ draft'.redirects = draft.redirects
    BY <1>1, <2>1
  <2>3. \A i \in DOMAIN draft.groups : i \in DOMAIN draft'.groups /\ draft'.groups[i] = draft.groups[i]
    BY <1>0, <2>2
  <2> QED BY <2>2, <2>3 DEF Known, GroupNames, Sources
<1>4. ASSUME NEW old, NEW in \in GroupInputs, UpdateModelGroup(old, in)
      PROVE  Same /\ Says("update group")
  <2>1. PICK G, R, H :
          draft' = [[draft EXCEPT !.groups = G] EXCEPT !.redirects = R, !.groups = H]
    BY <1>4 DEF UpdateModelGroup, Edit, PropagateRename, ReplaceGroup
  <2>2. Same
    BY <1>0, <2>1
  <2>3. request' = [op |-> "update group", name |-> in.name]
    BY <1>4 DEF UpdateModelGroup, Edit
  <2> QED BY <2>2, <2>3 DEF Says
<1>5. ASSUME NEW n, DeleteModelGroup(n) PROVE Same /\ Says("delete group")
  <2>1. PICK G : draft' = [draft EXCEPT !.groups = G]
    BY <1>5 DEF DeleteModelGroup, Edit
  <2>2. request' = [op |-> "delete group", name |-> n]
    BY <1>5 DEF DeleteModelGroup, Edit
  <2> QED BY <1>1, <2>1, <2>2 DEF Says
<1>6. ASSUME ReorderModelGroups
      PROVE  Same /\ Known(draft) \subseteq Known(draft')
  <2>1. draft' = [draft EXCEPT !.groups = Reverse(draft.groups)]
    BY <1>6 DEF ReorderModelGroups, Edit
  <2>2. /\ Same /\ draft'.groups = Reverse(draft.groups) /\ draft'.redirects = draft.redirects
    BY <1>1, <2>1
  <2>3. \A i \in DOMAIN draft.groups : \E j \in DOMAIN draft'.groups : draft'.groups[j] = draft.groups[i]
    BY <1>0, <2>2, ReversedKeeps
  <2> QED BY <2>2, <2>3 DEF Known, GroupNames, Sources
<1>7. ASSUME NEW in \in RedirectInputs, CreateRedirect(in)
      PROVE  Same /\ Known(draft) \subseteq Known(draft')
  <2>1. draft' = [draft EXCEPT !.redirects = Append(draft.redirects, in)]
    BY <1>7 DEF CreateRedirect, Edit
  <2>2. /\ Same /\ draft'.redirects = Append(draft.redirects, in)
        /\ draft'.groups = draft.groups
    BY <1>2, <2>1
  <2>3. \A i \in DOMAIN draft.redirects :
          i \in DOMAIN draft'.redirects /\ draft'.redirects[i] = draft.redirects[i]
    BY <1>0, <2>2
  <2> QED BY <2>2, <2>3 DEF Known, GroupNames, Sources
<1>8. ASSUME NEW old, NEW in \in RedirectInputs, UpdateRedirect(old, in)
      PROVE  Same /\ (Known(draft) \subseteq Known(draft') \/ Says("rename redirect"))
  <2> DEFINE R == [i \in DOMAIN draft.redirects |->
                     IF draft.redirects[i].source = old THEN in ELSE draft.redirects[i]]
  <2>1. draft' = [draft EXCEPT !.redirects = R]
    BY <1>8 DEF UpdateRedirect, Edit
  <2>2. request' = [op |-> IF in.source = old THEN "update redirect" ELSE "rename redirect",
                    name |-> in.source]
    BY <1>8 DEF UpdateRedirect, Edit
  <2>3. /\ DOMAIN R = DOMAIN draft.redirects
        /\ \A i \in DOMAIN R : in.source = old => R[i].source = draft.redirects[i].source
    OBVIOUS
  <2> HIDE DEF R
  <2>4. Same /\ draft'.redirects = R /\ draft'.groups = draft.groups
    BY <1>2, <2>1
  <2>5. CASE in.source = old
    <3>1. /\ DOMAIN draft'.redirects = DOMAIN draft.redirects
          /\ \A i \in DOMAIN draft.redirects : draft'.redirects[i].source = draft.redirects[i].source
      BY <2>3, <2>4, <2>5
    <3> QED BY <2>4, <3>1 DEF Known, GroupNames, Sources
  <2>6. CASE in.source # old
    BY <2>2, <2>4, <2>6 DEF Says
  <2> QED BY <2>5, <2>6
<1>9. ASSUME NEW s, DeleteRedirect(s) PROVE Same /\ Says("delete redirect")
  <2>1. PICK R : draft' = [draft EXCEPT !.redirects = R]
    BY <1>9 DEF DeleteRedirect, Edit
  <2>2. request' = [op |-> "delete redirect", name |-> s]
    BY <1>9 DEF DeleteRedirect, Edit
  <2> QED BY <1>2, <2>1, <2>2 DEF Says
<1>10. ASSUME ReorderRedirects
       PROVE  Same /\ Known(draft) \subseteq Known(draft')
  <2>1. draft' = [draft EXCEPT !.redirects = Reverse(draft.redirects)]
    BY <1>10 DEF ReorderRedirects, Edit
  <2>2. /\ Same /\ draft'.redirects = Reverse(draft.redirects) /\ draft'.groups = draft.groups
    BY <1>2, <2>1
  <2>3. \A i \in DOMAIN draft.redirects :
          \E j \in DOMAIN draft'.redirects : draft'.redirects[j] = draft.redirects[i]
    BY <1>0, <2>2, ReversedKeeps
  <2> QED BY <2>2, <2>3 DEF Known, GroupNames, Sources
<1> DEFINE Kept == Known(draft) \subseteq Known(draft')
           Told == \/ Says("update group") \/ Says("delete group")
                   \/ Says("rename redirect") \/ Says("delete redirect")
<1>11. /\ Says("update group") => Told
       /\ Says("delete group") => Told
       /\ Says("rename redirect") => Told
       /\ Says("delete redirect") => Told
  OBVIOUS
<1> HIDE DEF Same, Kept, Told
<1>12. ASSUME EditGroups PROVE Same /\ (Kept \/ Told)
  <2>1. ASSUME NEW in \in GroupInputs, CreateModelGroup(in) PROVE Same /\ (Kept \/ Told)
    BY <1>3, <2>1 DEF Kept
  <2>2. ASSUME NEW old, NEW in \in GroupInputs, UpdateModelGroup(old, in)
        PROVE  Same /\ (Kept \/ Told)
    BY <1>4, <1>11, <2>2
  <2>3. ASSUME NEW n, DeleteModelGroup(n) PROVE Same /\ (Kept \/ Told)
    BY <1>5, <1>11, <2>3
  <2>4. ASSUME ReorderModelGroups PROVE Same /\ (Kept \/ Told)
    BY <1>6, <2>4 DEF Kept
  <2> QED BY <1>12, <2>1, <2>2, <2>3, <2>4 DEF EditGroups
<1>13. ASSUME EditRedirects PROVE Same /\ (Kept \/ Told)
  <2>1. ASSUME NEW in \in RedirectInputs, CreateRedirect(in) PROVE Same /\ (Kept \/ Told)
    BY <1>7, <2>1 DEF Kept
  <2>2. ASSUME NEW old, NEW in \in RedirectInputs, UpdateRedirect(old, in)
        PROVE  Same /\ (Kept \/ Told)
    BY <1>8, <1>11, <2>2 DEF Kept
  <2>3. ASSUME NEW n, DeleteRedirect(n) PROVE Same /\ (Kept \/ Told)
    BY <1>9, <1>11, <2>3
  <2>4. ASSUME ReorderRedirects PROVE Same /\ (Kept \/ Told)
    BY <1>10, <2>4 DEF Kept
  <2> QED BY <1>13, <2>1, <2>2, <2>3, <2>4 DEF EditRedirects
<1> QED BY <1>12, <1>13 DEF Same, Kept, Told

\* The other edits keep every name, and those that neither rename nor delete a provider
\* nor change the role leave the role and the providers there were.
LEMMA OthersSay ==
  ASSUME IsConfiguration(draft), EditProviders \/ EditCascade \/ EditKeys \/ EditRules
  PROVE  /\ draft'.smart = draft.smart /\ Known(draft) \subseteq Known(draft')
         /\ \/ /\ draft'.spoke = draft.spoke
               /\ DOMAIN draft.providers \subseteq DOMAIN draft'.providers
            \/ Says("update provider") \/ Says("delete provider") \/ Says("cascade")
<1>0. draft = [providers |-> draft.providers, groups |-> draft.groups,
               redirects |-> draft.redirects, spoke |-> draft.spoke, smart |-> draft.smart,
               keys |-> draft.keys, rules |-> draft.rules]
  BY DEF IsConfiguration
<1>1. Known(draft) \subseteq Known(draft')
  <2>1. NamesKept(draft')
    BY OtherEditsWrite
  <2>2. /\ DOMAIN draft'.groups = DOMAIN draft.groups /\ draft'.redirects = draft.redirects
        /\ \A i \in DOMAIN draft.groups : draft'.groups[i].name = draft.groups[i].name
    BY <2>1 DEF NamesKept, IsConfiguration
  <2> QED BY <2>2 DEF Known, GroupNames, Sources
<1>2. ASSUME NEW in \in ProviderInputs, CreateProvider(in)
      PROVE  /\ draft'.smart = draft.smart /\ draft'.spoke = draft.spoke
             /\ DOMAIN draft.providers \subseteq DOMAIN draft'.providers
  <2>1. PICK f : /\ f = Put(draft.providers, in.name, in.body)
                 /\ draft' = [draft EXCEPT !.providers = f]
    BY <1>2 DEF CreateProvider, Edit
  <2>2. DOMAIN draft.providers \subseteq DOMAIN f
    BY <2>1 DEF Put
  <2> QED BY <1>0, <2>1, <2>2
<1>3. ASSUME NEW old, NEW in \in ProviderInputs, UpdateProvider(old, in)
      PROVE  draft'.smart = draft.smart /\ Says("update provider")
  <2>1. PICK f, G : draft' = [draft EXCEPT !.providers = f, !.groups = G]
    BY <1>3 DEF UpdateProvider, Edit
  <2>2. request' = [op |-> "update provider", name |-> in.name]
    BY <1>3 DEF UpdateProvider, Edit
  <2> QED BY <1>0, <2>1, <2>2 DEF Says
<1>4. ASSUME NEW n, DeleteProvider(n)
      PROVE  draft'.smart = draft.smart /\ Says("delete provider")
  <2>1. PICK f : draft' = [draft EXCEPT !.providers = f]
    BY <1>4 DEF DeleteProvider, Edit
  <2>2. request' = [op |-> "delete provider", name |-> n]
    BY <1>4 DEF DeleteProvider, Edit
  <2> QED BY <1>0, <2>1, <2>2 DEF Says
<1>5. CASE EditCascade
  <2>1. PICK s, f, n : /\ draft' = [draft EXCEPT !.spoke = s, !.providers = f]
                       /\ request' = [op |-> "cascade", name |-> n]
    BY <1>5 DEF EditCascade, ApplyDisabled, ApplyHub, ApplySpoke, Edit
  <2> QED BY <1>0, <1>1, <2>1 DEF Says
<1>6. CASE EditKeys \/ EditRules
  <2>1. PICK k : draft' = [draft EXCEPT !.keys = k] \/ draft' = [draft EXCEPT !.rules = k]
    BY <1>6 DEF EditKeys, CreateAuthKey, UpdateAuthKey, DeleteAuthKey, EditRules, ReplaceRules, Edit
  <2> QED BY <1>0, <1>1, <2>1
<1> QED BY <1>1, <1>2, <1>3, <1>4, <1>5, <1>6 DEF EditProviders

\* All edits.
LEMMA EditLosesUnfollowed ==
  ASSUME IsConfiguration(draft), AnEdit,
         NEW y \in DanglingOutside(draft') \ DanglingOutside(draft)
  PROVE  request'.op \in
           CASE y[1] = "smart_route" -> {"update group", "delete group",
                                         "rename redirect", "delete redirect"}
             [] y[1] = "cascade"     -> {"update provider", "delete provider", "cascade"}
<1>1. PICK c, d : c = draft /\ d = draft'
  OBVIOUS
<1>2. \/ y[1] = "smart_route" /\ ~ (d.smart = c.smart /\ Known(c) \subseteq Known(d))
      \/ /\ y[1] = "cascade"
         /\ ~ (d.spoke = c.spoke /\ DOMAIN c.providers \subseteq DOMAIN d.providers)
  BY <1>1, OutsideKept
<1>3. CASE y[1] = "smart_route" /\ ~ (d.smart = c.smart /\ Known(c) \subseteq Known(d))
  <2>1. \/ Says("update group") \/ Says("delete group")
        \/ Says("rename redirect") \/ Says("delete redirect")
    BY <1>1, <1>3, TablesSay, OthersSay DEF AnEdit
  <2> QED BY <1>3, <2>1 DEF Says
<1>4. CASE /\ y[1] = "cascade"
           /\ ~ (d.spoke = c.spoke /\ DOMAIN c.providers \subseteq DOMAIN d.providers)
  <2>1. Says("update provider") \/ Says("delete provider") \/ Says("cascade")
    BY <1>1, <1>4, TablesSay, OthersSay DEF AnEdit
  <2>2. y[1] # "smart_route"
    BY <1>4
  <2> QED BY <1>4, <2>1, <2>2 DEF Says
<1> QED BY <1>2, <1>3, <1>4

------------------------------------------------------------------------------
(* Configurations with the same groups and redirects have the same resolver *)

SameTables(c, d) ==
  /\ IsConfiguration(c) /\ IsConfiguration(d)
  /\ d.groups = c.groups /\ d.redirects = c.redirects /\ d.smart = c.smart

\* Their walks lead to the same names.
LEMMA SameWalk ==
  ASSUME NEW c, NEW d, SameTables(c, d), NEW n
  PROVE  WalkEnd(d, n) = WalkEnd(c, n)
<1> DEFINE N == Len(c.redirects)
<1>1. N \in Nat /\ Len(d.redirects) = N
  BY DEF SameTables, IsConfiguration
<1>2. PICK v : /\ v = [k \in 0 .. N |-> IF k = 0 THEN n ELSE Hop(c, v[k - 1])]
               /\ WalkEnd(c, n) = v[N]
  BY <1>1, Walks
<1>3. PICK w : /\ w = [k \in 0 .. N |-> IF k = 0 THEN n ELSE Hop(d, w[k - 1])]
               /\ WalkEnd(d, n) = w[N]
  <2>1. PICK w : /\ w = [k \in 0 .. Len(d.redirects) |-> IF k = 0 THEN n ELSE Hop(d, w[k - 1])]
                 /\ WalkEnd(d, n) = w[Len(d.redirects)]
    BY <1>1, Walks
  <2>2. PICK M : M = Len(d.redirects)
    OBVIOUS
  <2>3. /\ w = [k \in 0 .. M |-> IF k = 0 THEN n ELSE Hop(d, w[k - 1])]
        /\ WalkEnd(d, n) = w[M]
    BY <2>1, <2>2
  <2>4. M = N
    BY <1>1, <2>2
  <2> HIDE DEF N
  <2> QED BY <2>3, <2>4
<1>4. ASSUME NEW m PROVE Hop(d, m) = Hop(c, m)
  <2> DEFINE Of(rs) == rs[CHOOSE i \in DOMAIN rs : rs[i].source = m]
  <2>1. Redirect(c, m) = Of(c.redirects) /\ Redirect(d, m) = Of(d.redirects)
    BY DEF Redirect
  <2>2. Redirect(d, m) = Redirect(c, m)
    <3>1. c.redirects = d.redirects
      BY DEF SameTables
    <3> HIDE DEF Of
    <3> QED BY <2>1, <3>1
  <2>3. GroupNames(d) = GroupNames(c) /\ Sources(d) = Sources(c)
    BY DEF GroupNames, Sources, SameTables
  <2> HIDE DEF Of
  <2> QED BY <2>2, <2>3 DEF Hop
<1> DEFINE Apart == {k \in 0 .. N : v[k] # w[k]}
<1>5. Apart = {}
  <2>1. SUFFICES ASSUME Apart # {} PROVE FALSE
    OBVIOUS
  <2>2. PICK m \in Apart : \A j \in Apart : m <= j
    <3>1. Apart \in SUBSET Nat
      OBVIOUS
    <3> HIDE DEF Apart
    <3> QED BY <2>1, <3>1, LeastOne
  <2>3. m \in 0 .. N /\ v[m] # w[m]
    BY <2>2
  <2>4. CASE m = 0
    BY <1>2, <1>3, <2>3, <2>4
  <2>5. CASE m # 0
    <3>1. m - 1 \in 0 .. N /\ ~ (m <= m - 1)
      BY <1>1, <2>3, <2>5
    <3>2. v[m - 1] = w[m - 1]
      BY <2>2, <3>1
    <3>3. v[m] = Hop(c, v[m - 1]) /\ w[m] = Hop(d, w[m - 1])
      BY <1>2, <1>3, <2>3, <2>5
    <3> QED BY <1>4, <2>3, <3>2, <3>3
  <2> QED BY <2>4, <2>5
<1>6. N \in 0 .. N
  BY <1>1
<1> QED BY <1>2, <1>3, <1>5, <1>6

\* The tables made of them agree, but for the providers.
Alike(r, s) == s.groups = r.groups /\ s.redirects = r.redirects /\ s.groupOrder = r.groupOrder

LEMMA TablesAlike ==
  ASSUME NEW c, NEW d, SameTables(c, d)
  PROVE  /\ Alike(MakeTables(c), MakeTables(d)) /\ Alike(MakeTables(c), MakeResolver(c))
         /\ ValidRedirects(d) <=> ValidRedirects(c)
         /\ GroupNames(d) = GroupNames(c)
<1>1. GroupNames(d) = GroupNames(c) /\ Sources(d) = Sources(c)
  BY DEF GroupNames, Sources, SameTables
<1>2. ASSUME NEW m PROVE Redirect(d, m) = Redirect(c, m) /\ Group(d, m) = Group(c, m)
  <2> DEFINE Of(rs) == rs[CHOOSE i \in DOMAIN rs : rs[i].source = m]
             On(gs) == gs[CHOOSE i \in DOMAIN gs : gs[i].name = m]
  <2>1. /\ Redirect(c, m) = Of(c.redirects) /\ Redirect(d, m) = Of(d.redirects)
        /\ Group(c, m) = On(c.groups) /\ Group(d, m) = On(d.groups)
    BY DEF Redirect, Group
  <2>2. c.redirects = d.redirects /\ c.groups = d.groups
    BY DEF SameTables
  <2> HIDE DEF Of, On
  <2> QED BY <2>1, <2>2
<1>3. ASSUME NEW m PROVE ResolveAlias(d, m) = ResolveAlias(c, m)
  <2>1. WalkEnd(d, m) = WalkEnd(c, m)
    BY SameWalk
  <2> QED BY <1>1, <2>1 DEF ResolveAlias
<1>4. BuildRedirects(d) = BuildRedirects(c)
  <2>1. ASSUME NEW s \in Sources(c)
        PROVE  [final |-> ResolveAlias(d, Redirect(d, s).target),
                exposure |-> Redirect(d, s).exposure]
                 = [final |-> ResolveAlias(c, Redirect(c, s).target),
                    exposure |-> Redirect(c, s).exposure]
    BY <1>2, <1>3
  <2> QED BY <1>1, <2>1 DEF BuildRedirects
<1>5. MakeTables(d).groups = MakeTables(c).groups
  <2>1. \A n \in GroupNames(c) :
          [mode |-> Group(d, n).mode, exposure |-> Group(d, n).exposure,
           models |-> Group(d, n).models]
            = [mode |-> Group(c, n).mode, exposure |-> Group(c, n).exposure,
               models |-> Group(c, n).models]
    BY <1>2
  <2>2. \A e \in {c, d} : MakeTables(e).groups =
          [n \in GroupNames(e) |-> [mode |-> Group(e, n).mode, exposure |-> Group(e, n).exposure,
                                    models |-> Group(e, n).models]]
    BY DEF MakeTables
  <2> QED BY <1>1, <2>1, <2>2
<1>6. MakeTables(d).redirects = MakeTables(c).redirects
  BY <1>4 DEF MakeTables
<1>7. MakeTables(d).groupOrder = MakeTables(c).groupOrder
  BY DEF MakeTables, SameTables
<1>8. Alike(MakeTables(c), MakeResolver(c))
  <2>1. MakeResolver(c).groups = MakeTables(c).groups
    BY DEF MakeResolver, MakeTables
  <2>2. MakeResolver(c).redirects = MakeTables(c).redirects
    BY DEF MakeResolver, MakeTables
  <2>3. MakeResolver(c).groupOrder = MakeTables(c).groupOrder
    BY DEF MakeResolver, MakeTables
  <2> QED BY <2>1, <2>2, <2>3 DEF Alike
<1>9. ValidRedirects(d) <=> ValidRedirects(c)
  BY <1>1, <1>3 DEF ValidRedirects, SameTables
<1> QED BY <1>1, <1>5, <1>6, <1>7, <1>8, <1>9 DEF Alike

\* And so do the walks over their groups.
LEMMA SameCircles ==
  ASSUME NEW r, NEW s, Alike(r, s), TablesOK(r)
  PROVE  TablesOK(s) /\ (DetectCycles(s) <=> DetectCycles(r))
<1>1. TablesOK(s)
  BY DEF Alike, TablesOK
<1>2. \A u, v : Leads(s, u, v) <=> Leads(r, u, v)
  BY DEF Leads, Successor, InternalName, Alike
<1>3. Founded(s, DOMAIN s.groups) <=> Founded(r, DOMAIN r.groups)
  BY <1>2 DEF Founded, Alike
<1>4. \A q \in {r, s} : DetectCycles(q) <=> ~ Founded(q, DOMAIN q.groups)
  BY <1>1, DetectsCircles, CircleNotFounded
<1> QED BY <1>1, <1>3, <1>4

LEMMA TablesAreOK ==
  ASSUME NEW c, IsConfiguration(c), ValidRedirects(c)
  PROVE  TablesOK(MakeTables(c))
<1>1. SameTables(c, c)
  BY DEF SameTables
<1>2. Alike(MakeResolver(c), MakeTables(c))
  BY <1>1, TablesAlike DEF Alike
<1> QED BY <1>2, TablesMade, SameCircles

\* The resolver takes the one if it takes the other.
LEMMA SameResolver ==
  ASSUME NEW c, NEW d, SameTables(c, d), NewResolverOK(c)
  PROVE  NewResolverOK(d)
<1> DEFINE r == MakeTables(c)
           s == MakeTables(d)
<1>1. /\ GroupNames(c) \cap Slashed = {} /\ ValidRedirects(c)
      /\ ValidateGroupRefs(r) /\ ~ DetectCycles(r) /\ ValidSmartRoute(r, c.smart)
  BY DEF NewResolverOK
<1>2. Alike(r, s) /\ ValidRedirects(d) /\ GroupNames(d) = GroupNames(c)
  BY <1>1, TablesAlike
<1>3. TablesOK(r)
  BY <1>1, TablesAreOK DEF SameTables
<1> HIDE DEF r, s
<1>4. ~ DetectCycles(s)
  BY <1>1, <1>2, <1>3, SameCircles
<1>5. ValidateGroupRefs(s)
  BY <1>1, <1>2 DEF ValidateGroupRefs, InternalName, Alike
<1>6. ValidSmartRoute(s, d.smart)
  <2>1. d.smart = c.smart
    BY DEF SameTables
  <2> QED BY <1>1, <1>2, <2>1 DEF ValidSmartRoute, InternalName, Alike
<1> QED BY <1>1, <1>2, <1>4, <1>5, <1>6 DEF NewResolverOK, s

------------------------------------------------------------------------------
(* Changing the cascade role *)

\* Every group has an entry: no edit lets one go without, the loader does not ask.
Filled(c) == \A i \in DOMAIN c.groups : c.groups[i].models # <<>>

\* Groups without a circle end in one that sends to providers only.
LEMMA SomeLeaf ==
  ASSUME NEW c, IsConfiguration(c), Applicable(c), Filled(c)
  PROVE  \E i \in DOMAIN c.groups : LeafProviders(c.groups[i]) # {}
<1> DEFINE r == MakeTables(c)
           G == GroupNames(c)
<1>1. ValidRedirects(c) /\ ValidateGroupRefs(r) /\ ~ DetectCycles(r) /\ c.groups # <<>>
  BY DEF Applicable, NewResolverOK, ValidateForServe
<1>2. TablesOK(r)
  BY <1>1, TablesAreOK
<1>3. r.groups = [n \in G |-> [mode |-> Group(c, n).mode, exposure |-> Group(c, n).exposure,
                               models |-> Group(c, n).models]]
  BY DEF MakeTables
<1> HIDE DEF r
<1>4. Founded(r, G)
  BY <1>1, <1>2, <1>3, DetectsCircles
<1>5. G # {}
  <2>1. c.groups \in Seq(GroupDefs)
    BY DEF IsConfiguration
  <2>2. 1 \in DOMAIN c.groups
    BY <1>1, <2>1
  <2> QED BY <2>2 DEF GroupNames
<1>6. PICK u \in G : \A v \in G : ~ Leads(r, u, v)
  BY <1>4, <1>5 DEF Founded
<1>7. PICK i \in DOMAIN c.groups : r.groups[u].models = c.groups[i].models
  <2>1. PICK i \in DOMAIN c.groups : Group(c, u) = c.groups[i]
    BY DEF Group, GroupNames
  <2> QED BY <1>3, <2>1
<1>8. PICK m \in Seq(Entries) : m = c.groups[i].models /\ m # <<>>
  BY ModelsTyped DEF Filled
<1>9. 1 \in DOMAIN m /\ 1 \in 1 .. Len(m) /\ m[1] \in Entries
  BY <1>8
<1>10. CASE IsLeaf(m[1])
  BY <1>8, <1>9, <1>10 DEF LeafProviders, ToSet
<1>11. CASE ~ IsLeaf(m[1])
  <2>1. m[1].to \in RefNames(r.groups[u])
    BY <1>7, <1>8, <1>9, <1>11 DEF RefNames, ToSet
  <2>2. u \in DOMAIN r.groups /\ DOMAIN r.groups = G
    BY <1>3
  <2>3. InternalName(r, m[1].to) # NoName
    BY <1>1, <2>1, <2>2 DEF ValidateGroupRefs
  <2>4. Successor(r, m[1]) = InternalName(r, m[1].to)
    BY <1>11 DEF Successor
  <2>5. Successor(r, m[1]) \in G
    BY <1>2, <2>2, <2>3, <2>4, SuccessorIsGroup
  <2>6. Leads(r, u, Successor(r, m[1]))
    BY <1>7, <1>8, <1>9, <2>2, <2>5 DEF Leads
  <2> QED BY <1>6, <2>5, <2>6
<1> QED BY <1>10, <1>11

\* What clearing the hubs leaves, no marker in use being lost.
LEMMA HubsCleared ==
  ASSUME IsConfiguration(draft), ValidateForServe(draft), NEW except, NoMarkerUsed(except)
  PROVE  /\ \A n \in DOMAIN ClearHubs(except) :
              n # except => /\ ~ IsHub(ClearHubs(except)[n])
                            /\ ClearHubs(except)[n].endpoint
         /\ DOMAIN draft.providers \ Hubs(draft) \subseteq DOMAIN ClearHubs(except)
         /\ \A g \in ToSet(draft.groups) : LeafProviders(g) \subseteq DOMAIN ClearHubs(except)
<1> DEFINE D == {x \in DOMAIN draft.providers : x \notin Markers(except) \/ ReferencingGroups(x) # {}}
<1>1. /\ DOMAIN ClearHubs(except) = D
      /\ \A n \in D : ClearHubs(except)[n] =
           IF n \in Hubs(draft) \ {except}
           THEN [draft.providers[n] EXCEPT !.cascade = "absent", !.token = FALSE]
           ELSE draft.providers[n]
  BY DEF ClearHubs
<1>2. \A n \in D : n \notin Markers(except)
  BY DEF NoMarkerUsed
<1>3. ASSUME NEW n \in D, n # except
      PROVE  ~ IsHub(ClearHubs(except)[n]) /\ ClearHubs(except)[n].endpoint
  <2>1. draft.providers[n] \in Providers /\ n \in DOMAIN draft.providers
    BY DEF IsConfiguration
  <2>2. IsHub(draft.providers[n]) \/ draft.providers[n].endpoint
    BY <2>1 DEF ValidateForServe
  <2>3. CASE n \in Hubs(draft)
    <3>1. draft.providers[n].endpoint
      BY <1>2, <1>3, <2>3 DEF Markers
    <3>2. PICK p : p = ClearHubs(except)[n]
                   /\ p = [draft.providers[n] EXCEPT !.cascade = "absent", !.token = FALSE]
      BY <1>1, <1>3, <2>3
    <3>3. p.cascade = "absent" /\ p.endpoint
      BY <2>1, <3>1, <3>2 DEF Providers
    <3> QED BY <3>2, <3>3 DEF IsHub
  <2>4. CASE n \notin Hubs(draft)
    <3>1. ClearHubs(except)[n] = draft.providers[n]
      BY <1>1, <2>4
    <3>2. ~ IsHub(draft.providers[n])
      BY <2>1, <2>4 DEF Hubs
    <3> QED BY <2>2, <3>1, <3>2
  <2> QED BY <2>3, <2>4
<1>4. DOMAIN draft.providers \ Hubs(draft) \subseteq D
  BY DEF Markers
<1>5. ASSUME NEW g \in ToSet(draft.groups) PROVE LeafProviders(g) \subseteq D
  <2>1. LeafProviders(g) \subseteq DOMAIN draft.providers
    BY DEF ValidateForServe
  <2>2. \A n \in LeafProviders(g) : ReferencingGroups(n) # {}
    BY DEF ReferencingGroups
  <2> QED BY <2>1, <2>2
<1> HIDE DEF D
<1> QED BY <1>1, <1>3, <1>4, <1>5

\* The draft with another role and other providers: what is left to check.
LEMMA RoleApplicable ==
  ASSUME NEW c, IsConfiguration(c), Applicable(c),
         NEW d, IsConfiguration(d), d.groups = c.groups, d.redirects = c.redirects,
         d.smart = c.smart, d.rules = c.rules, ValidateCascade(d), DOMAIN d.providers # {},
         \A n \in DOMAIN d.providers : IsHub(d.providers[n]) \/ d.providers[n].endpoint,
         \A g \in ToSet(c.groups) : LeafProviders(g) \subseteq DOMAIN d.providers
  PROVE  Applicable(d)
<1>1. ValidateForServe(d)
  BY DEF Applicable, ValidateForServe
<1>2. SameTables(c, d)
  BY DEF SameTables
<1>3. NewResolverOK(d)
  BY <1>2, SameResolver DEF Applicable
<1>4. ValidateRules(d)
  BY DEF Applicable, ValidateRules
<1> QED BY <1>1, <1>3, <1>4 DEF Applicable

\* No role.
LEMMA DisabledApplicable ==
  ASSUME IsConfiguration(draft), Applicable(draft), Filled(draft),
         ApplyDisabled, IsConfiguration(draft')
  PROVE  Applicable(draft')
<1>1. PICK d, f : /\ d = draft' /\ f = ClearHubs(NoName)
                  /\ d = [draft EXCEPT !.spoke = NoSpoke, !.providers = f]
  BY DEF ApplyDisabled, Edit
<1>2. /\ d.spoke = NoSpoke /\ d.providers = f /\ d.groups = draft.groups
      /\ d.redirects = draft.redirects /\ d.smart = draft.smart /\ d.rules = draft.rules
  BY <1>1 DEF IsConfiguration
<1>3. /\ \A n \in DOMAIN f : ~ IsHub(f[n]) /\ f[n].endpoint
      /\ \A g \in ToSet(draft.groups) : LeafProviders(g) \subseteq DOMAIN f
  <2>1. NoMarkerUsed(NoName) /\ ValidateForServe(draft)
    BY DEF ApplyDisabled, Applicable
  <2>2. ProviderTable(f)
    BY <1>1, ClearHubsTyped
  <2>3. \A n \in DOMAIN f : n # NoName
    BY <2>2, NamesAssumption DEF ProviderTable
  <2> QED BY <1>1, <2>1, <2>3, HubsCleared
<1>4. DOMAIN f # {}
  <2>1. PICK i \in DOMAIN draft.groups : LeafProviders(draft.groups[i]) # {}
    BY SomeLeaf
  <2>2. draft.groups[i] \in ToSet(draft.groups)
    BY DEF ToSet
  <2> QED BY <1>3, <2>1, <2>2
<1>5. ValidateCascade(d)
  <2>1. Hubs(d) = {}
    BY <1>2, <1>3 DEF Hubs
  <2> QED BY <1>2, <2>1, FS_EmptySet DEF ValidateCascade
<1> QED BY <1>1, <1>2, <1>3, <1>4, <1>5, RoleApplicable

\* A hub.
LEMMA HubApplicable ==
  ASSUME IsConfiguration(draft), Applicable(draft), NEW n \in CascadeNames,
         ApplyHub(n), IsConfiguration(draft')
  PROVE  Applicable(draft')
<1>1. PICK d, f : /\ d = draft' /\ f = Put(ClearHubs(n), n, HubMarker)
                  /\ d = [draft EXCEPT !.spoke = NoSpoke, !.providers = f]
  BY DEF ApplyHub, Edit
<1>2. /\ d.spoke = NoSpoke /\ d.providers = f /\ d.groups = draft.groups
      /\ d.redirects = draft.redirects /\ d.smart = draft.smart /\ d.rules = draft.rules
  BY <1>1 DEF IsConfiguration
<1>3. /\ DOMAIN f = DOMAIN ClearHubs(n) \cup {n} /\ f[n] = HubMarker
      /\ \A x \in DOMAIN ClearHubs(n) : x # n => f[x] = ClearHubs(n)[x]
  BY <1>1 DEF Put
<1>4. /\ \A x \in DOMAIN f : x # n => ~ IsHub(f[x]) /\ f[x].endpoint
      /\ \A g \in ToSet(draft.groups) : LeafProviders(g) \subseteq DOMAIN f
  <2>1. NoMarkerUsed(n) /\ ValidateForServe(draft)
    BY DEF ApplyHub, Applicable
  <2> QED BY <1>3, <2>1, HubsCleared
<1>5. IsHub(HubMarker) /\ ValidHub(HubMarker)
  BY DEF IsHub, ValidHub, HubMarker
<1>6. ValidateCascade(d)
  <2>1. Hubs(d) = {n}
    BY <1>2, <1>3, <1>4, <1>5 DEF Hubs
  <2>2. Cardinality({n}) = 1
    BY FS_Singleton
  <2> QED BY <1>2, <1>3, <1>5, <2>1, <2>2 DEF ValidateCascade
<1>7. \A x \in DOMAIN d.providers : IsHub(d.providers[x]) \/ d.providers[x].endpoint
  BY <1>2, <1>3, <1>4, <1>5
<1>8. DOMAIN d.providers # {}
  BY <1>2, <1>3
<1> QED BY <1>1, <1>2, <1>4, <1>6, <1>7, <1>8, RoleApplicable

\* A spoke.
LEMMA SpokeApplicable ==
  ASSUME IsConfiguration(draft), Applicable(draft), NEW peer \in CascadeNames,
         Cardinality(DirectCallableNames(draft)) <= MaxCallable,
         ApplySpoke(peer), IsConfiguration(draft')
  PROVE  Applicable(draft')
<1>1. PICK d, f : /\ d = draft' /\ f = ClearHubs(NoName)
                  /\ d = [draft EXCEPT !.spoke = [peer |-> peer], !.providers = f]
  BY DEF ApplySpoke, Edit
<1>2. /\ d.spoke = [peer |-> peer] /\ d.providers = f /\ d.groups = draft.groups
      /\ d.redirects = draft.redirects /\ d.smart = draft.smart /\ d.rules = draft.rules
  BY <1>1 DEF IsConfiguration
<1>3. /\ \A n \in DOMAIN f : ~ IsHub(f[n]) /\ f[n].endpoint
      /\ DOMAIN draft.providers \ Hubs(draft) \subseteq DOMAIN f
      /\ \A g \in ToSet(draft.groups) : LeafProviders(g) \subseteq DOMAIN f
  <2>1. NoMarkerUsed(NoName) /\ ValidateForServe(draft)
    BY DEF ApplySpoke, Applicable
  <2>2. ProviderTable(f)
    BY <1>1, ClearHubsTyped
  <2>3. \A n \in DOMAIN f : n # NoName
    BY <2>2, NamesAssumption DEF ProviderTable
  <2> QED BY <1>1, <2>1, <2>3, HubsCleared
<1>4. peer \in DOMAIN draft.providers /\ peer \notin Hubs(draft)
  <2>1. /\ peer \in DOMAIN draft.providers
        /\ \E hub \in IF Hubs(draft) = {} THEN {NoName} ELSE Hubs(draft) : peer # hub
    BY DEF ApplySpoke
  <2>2. SUFFICES ASSUME peer \in Hubs(draft) PROVE FALSE
    BY <2>1
  <2>3. PICK hub \in Hubs(draft) : peer # hub
    BY <2>1, <2>2
  <2>4. IsFiniteSet(Hubs(draft)) /\ Cardinality(Hubs(draft)) <= 1
    <3>1. IsFiniteSet(DOMAIN draft.providers) /\ Hubs(draft) \subseteq DOMAIN draft.providers
      BY DEF IsConfiguration, Hubs
    <3>2. IsFiniteSet(Hubs(draft))
      BY <3>1, FS_Subset
    <3> QED BY <3>2 DEF Applicable, ValidateCascade
  <2>5. {peer, hub} \subseteq Hubs(draft)
    BY <2>2, <2>3
  <2>6. Cardinality({peer, hub}) <= Cardinality(Hubs(draft))
    BY <2>4, <2>5, FS_Subset
  <2>7. Cardinality({peer, hub}) = 2
    <3>1. IsFiniteSet({peer}) /\ Cardinality({peer}) = 1
      BY FS_Singleton
    <3>2. hub \notin {peer} /\ {peer} \cup {hub} = {peer, hub}
      BY <2>3
    <3>3. Cardinality({peer} \cup {hub}) = Cardinality({peer}) + 1
      BY <3>1, <3>2, FS_AddElement
    <3> QED BY <3>1, <3>2, <3>3
  <2>8. Cardinality(Hubs(draft)) \in Nat
    BY <2>4, FS_CardinalityType
  <2> QED BY <2>4, <2>6, <2>7, <2>8
<1>5. peer \in DOMAIN f
  BY <1>3, <1>4
<1>6. ValidateCascade(d)
  <2>1. Hubs(d) = {}
    BY <1>2, <1>3 DEF Hubs
  <2>2. DirectCallableNames(d) = DirectCallableNames(draft)
    BY <1>2 DEF DirectCallableNames
  <2> QED BY <1>2, <1>5, <2>1, <2>2, FS_EmptySet DEF ValidateCascade, ValidSpoke
<1> QED BY <1>1, <1>2, <1>3, <1>5, <1>6, RoleApplicable

\* No edit leaves a group without entries.
LEMMA SameFilled ==
  ASSUME NEW c, IsConfiguration(c), Filled(c), NEW d, IsConfiguration(d), d.groups = c.groups
  PROVE  Filled(d)
BY DEF Filled

LEMMA RetargetedFilled ==
  ASSUME NEW m \in Seq(Entries), m # <<>>, NEW leaf, NEW old, NEW new
  PROVE  Retarget(m, leaf, old, new) # <<>>
<1>1. DOMAIN Retarget(m, leaf, old, new) = DOMAIN m
  BY DEF Retarget
<1>2. 1 \in DOMAIN m /\ DOMAIN <<>> = {}
  OBVIOUS
<1> QED BY <1>1, <1>2

LEMMA EditFills ==
  ASSUME IsConfiguration(draft), Filled(draft), AnEdit
  PROVE  Filled(draft')
<1>1. IsConfiguration(draft')
  BY EditMoves
<1>2. ASSUME NEW in \in GroupInputs, CreateModelGroup(in) PROVE Filled(draft')
  <2>1. in \in GroupDefs /\ in.models # <<>>
    BY <1>2, RuntimeAssumption DEF CreateModelGroup, ValidGroupBody
  <2>2. draft'.groups = Append(draft.groups, in) /\ draft.groups \in Seq(GroupDefs)
    BY <1>2, <2>1, CreateGroupWrites DEF IsConfiguration
  <2>3. ASSUME NEW i \in DOMAIN draft'.groups
        PROVE  \/ draft'.groups[i] = in
               \/ i \in DOMAIN draft.groups /\ draft'.groups[i] = draft.groups[i]
    BY <2>1, <2>2
  <2> QED BY <2>1, <2>3 DEF Filled
<1>3. ASSUME NEW old, NEW in \in GroupInputs, UpdateModelGroup(old, in) PROVE Filled(draft')
  <2>1. in \in GroupDefs /\ in.models # <<>>
    BY <1>3, RuntimeAssumption DEF UpdateModelGroup, ValidGroupBody
  <2>2. /\ Len(draft'.groups) = Len(draft.groups)
        /\ \A i \in DOMAIN draft.groups :
             draft'.groups[i].models = UpdatedModels(draft.groups[i], old, in)
    BY <1>3, <2>1, UpdateWrites
  <2>3. ASSUME NEW i \in DOMAIN draft.groups
        PROVE  UpdatedModels(draft.groups[i], old, in) # <<>>
    <3>1. draft.groups[i].models \in Seq(Entries) /\ draft.groups[i].models # <<>>
      BY ModelsTyped DEF Filled
    <3>2. Retarget(draft.groups[i].models, FALSE, old, in.name) # <<>>
      BY <3>1, RetargetedFilled
    <3> QED BY <2>1, <3>1, <3>2 DEF UpdatedModels
  <2>4. DOMAIN draft'.groups = DOMAIN draft.groups
    BY <1>1, <2>2 DEF IsConfiguration
  <2> QED BY <2>2, <2>3, <2>4 DEF Filled
<1>4. ASSUME NEW n, DeleteModelGroup(n) PROVE Filled(draft')
  <2>1. PICK i \in DOMAIN draft.groups : draft'.groups = RemoveAt(draft.groups, i)
    BY <1>4, DeleteGroupWrites
  <2>2. draft.groups \in Seq(GroupDefs)
    BY DEF IsConfiguration
  <2>3. PICK o : /\ Picks(o, DOMAIN draft'.groups, DOMAIN draft.groups)
                 /\ \A j \in DOMAIN draft'.groups : draft'.groups[j] = draft.groups[o[j]]
    BY <2>1, <2>2, RemovedPicks
  <2> QED BY <2>3 DEF Filled, Picks
<1>5. CASE ReorderModelGroups
  <2>1. draft'.groups = Reverse(draft.groups)
    BY <1>5, ReorderGroupsWrites
  <2>2. draft.groups \in Seq(GroupDefs)
    BY DEF IsConfiguration
  <2>3. PICK o : /\ Picks(o, DOMAIN draft'.groups, DOMAIN draft.groups)
                 /\ \A j \in DOMAIN draft'.groups : draft'.groups[j] = draft.groups[o[j]]
    BY <2>1, <2>2, ReversedPicks
  <2> QED BY <2>3 DEF Filled, Picks
<1>6. CASE EditGroups
  BY <1>2, <1>3, <1>4, <1>5, <1>6 DEF EditGroups
<1>7. CASE EditRedirects
  <2>1. PICK x : draft' = [draft EXCEPT !.redirects = x]
    BY <1>7 DEF EditRedirects, CreateRedirect, UpdateRedirect, DeleteRedirect, ReorderRedirects,
      Edit
  <2>2. draft'.groups = draft.groups
    BY <2>1 DEF IsConfiguration
  <2> QED BY <1>1, <2>2, SameFilled
<1>8. ASSUME NEW old, NEW in \in ProviderInputs, UpdateProvider(old, in) PROVE Filled(draft')
  <2>1. /\ Len(draft'.groups) = Len(draft.groups)
        /\ \A i \in DOMAIN draft.groups :
             draft'.groups[i].models = Retarget(draft.groups[i].models, TRUE, old, in.name)
    <3>1. /\ NamesKept(draft')
          /\ \A i \in DOMAIN draft.groups :
               draft'.groups[i].models = Retarget(draft.groups[i].models, TRUE, old, in.name)
      BY <1>8, UpdateProviderWrites
    <3> QED BY <3>1 DEF NamesKept
  <2>2. ASSUME NEW i \in DOMAIN draft.groups
        PROVE  Retarget(draft.groups[i].models, TRUE, old, in.name) # <<>>
    <3>1. draft.groups[i].models \in Seq(Entries) /\ draft.groups[i].models # <<>>
      BY ModelsTyped DEF Filled
    <3> QED BY <3>1, RetargetedFilled
  <2>3. DOMAIN draft'.groups = DOMAIN draft.groups
    BY <1>1, <2>1 DEF IsConfiguration
  <2> QED BY <2>1, <2>2, <2>3 DEF Filled
<1>9. ASSUME NEW x, NEW s, \/ draft' = [draft EXCEPT !.providers = x]
                           \/ draft' = [draft EXCEPT !.spoke = s, !.providers = x]
                           \/ draft' = [draft EXCEPT !.keys = x]
                           \/ draft' = [draft EXCEPT !.rules = x]
      PROVE  Filled(draft')
  <2>1. draft'.groups = draft.groups
    BY <1>9 DEF IsConfiguration
  <2> QED BY <1>1, <2>1, SameFilled
<1>10. CASE EditProviders
  <2>1. \/ \E old : \E in \in ProviderInputs : UpdateProvider(old, in)
        \/ \E x : draft' = [draft EXCEPT !.providers = x]
    BY <1>10 DEF EditProviders, CreateProvider, DeleteProvider, Edit
  <2> QED BY <1>8, <1>9, <2>1
<1>11. CASE EditCascade
  <2>1. \E x, s : draft' = [draft EXCEPT !.spoke = s, !.providers = x]
    BY <1>11 DEF EditCascade, ApplyDisabled, ApplyHub, ApplySpoke, Edit
  <2> QED BY <1>9, <2>1
<1>12. CASE EditKeys \/ EditRules
  <2>1. \E x : draft' = [draft EXCEPT !.keys = x] \/ draft' = [draft EXCEPT !.rules = x]
    BY <1>12 DEF EditKeys, CreateAuthKey, UpdateAuthKey, DeleteAuthKey, EditRules, ReplaceRules, Edit
  <2> QED BY <1>9, <2>1
<1> QED BY <1>6, <1>7, <1>10, <1>11, <1>12 DEF AnEdit

\* The groups have entries in whatever a discard, an Apply or a restart can put back.
DraftInv == FileInv /\ edits \in Nat /\ Filled(draft) /\ Filled(active)

LEMMA DraftMoves ==
  ASSUME DraftInv, [Next]_vars
  PROVE  DraftInv'
<1>1. FileInv'
  BY FileMoves DEF DraftInv
<1>2. CASE AnEdit
  <2>1. edits' = edits + 1
    BY <1>2 DEF AnEdit, EditGroups, EditRedirects, EditProviders, EditCascade, EditKeys, EditRules,
      CreateModelGroup, UpdateModelGroup, DeleteModelGroup, ReorderModelGroups, CreateRedirect,
      UpdateRedirect, DeleteRedirect, ReorderRedirects, CreateProvider, UpdateProvider,
      DeleteProvider, ApplyDisabled, ApplyHub, ApplySpoke, CreateAuthKey, UpdateAuthKey,
      DeleteAuthKey, ReplaceRules, Edit
  <2>2. Filled(draft')
    BY <1>2, EditFills DEF DraftInv, FileInv
  <2> QED BY <1>1, <1>2, <2>1, <2>2, EditKeeps DEF DraftInv
<1>3. CASE Applying
  BY <1>1, <1>3 DEF Applying, ApplyRefused, ApplyBegin, SaveFails, Save, Reinit, Commit, DraftInv
<1>4. CASE DiscardDraft
  BY <1>1, <1>4 DEF DiscardDraft, DraftInv
<1>5. CASE Crash
  BY <1>1, <1>5 DEF Crash, DraftInv
<1>6. CASE Start
  <2>1. draft' = Load(file) /\ active' = Load(file) /\ edits' = 0
    BY <1>6 DEF Start, Started
  <2>2. Load(file) = active \/ Load(file) = draft
    BY FileReadBack DEF DraftInv
  <2> QED BY <1>1, <2>1, <2>2 DEF DraftInv
<1>7. CASE UNCHANGED vars
  BY <1>1, <1>7 DEF vars, DraftInv
<1> QED BY <1>2, <1>3, <1>4, <1>5, <1>6, <1>7 DEF Next, AnEdit

\* A step that counts an edit is one.
LEMMA CountsEdits ==
  ASSUME edits \in Nat, [Next]_vars, edits' = edits + 1
  PROVE  AnEdit
<1>1. edits' # edits /\ edits' # 0
  OBVIOUS
<1>2. ~ Applying
  BY <1>1 DEF Applying, ApplyRefused, ApplyBegin, SaveFails, Save, Reinit, Commit
<1>3. ~ DiscardDraft /\ ~ Crash /\ ~ Start /\ ~ UNCHANGED vars
  BY <1>1 DEF DiscardDraft, Crash, Start, Started, vars
<1> QED BY <1>2, <1>3 DEF Next, AnEdit

\* An edit that says it is one of the cascade role is one.
LEMMA CascadeEdits ==
  ASSUME AnEdit, request'.op = "cascade"
  PROVE  EditCascade
<1> DEFINE Others == {"create group", "update group", "delete group", "reorder", "create redirect",
                      "update redirect", "rename redirect", "delete redirect", "create provider",
                      "update provider", "delete provider", "key", "rules"}
<1>1. ASSUME EditGroups \/ EditRedirects
      PROVE  \E n : \E op \in Others : request' = [op |-> op, name |-> n]
  BY <1>1 DEF EditGroups, EditRedirects, CreateModelGroup, UpdateModelGroup, DeleteModelGroup,
    ReorderModelGroups, CreateRedirect, UpdateRedirect, DeleteRedirect, ReorderRedirects, Edit
<1>2. ASSUME EditProviders \/ EditKeys \/ EditRules
      PROVE  \E n : \E op \in Others : request' = [op |-> op, name |-> n]
  BY <1>2 DEF EditProviders, EditKeys, EditRules, CreateProvider, UpdateProvider, DeleteProvider,
    CreateAuthKey, UpdateAuthKey, DeleteAuthKey, ReplaceRules, Edit
<1>3. "cascade" \notin Others
  OBVIOUS
<1> HIDE DEF Others
<1> QED BY <1>1, <1>2, <1>3 DEF AnEdit

------------------------------------------------------------------------------
(* The theorems *)

\* A crash at any point, in the middle of an Apply too, leaves a file the process starts
\* with, and but for the moment between the rename and the commit it is the committed
\* configuration, to the weights of entries and the tokens of providers (Manager.Apply,
\* YamlStore.SyncFromConfig, config.Load).
THEOREM RestartKept == Spec => []RestartKeepsActive
<1>1. FileInv => RestartKeepsActive
  BY FileReadBack DEF RestartKeepsActive, FileStarts, FileIsActive
<1> QED BY <1>1, FileInvariant, PTL

\* detectCycles, which colours groups and walks their entries depth first, refuses
\* exactly the configurations in which some group reaches itself through references and
\* redirects, whatever edits made them (Resolver.detectCycles).
THEOREM CycleCheckIsExact == Spec => []CycleCheckExact
<1>1. FileInv => CycleCheckExact
  <2> SUFFICES ASSUME FileInv, ValidRedirects(draft) PROVE CycleCheckExact
    BY DEF CycleCheckExact
  <2>1. PICK r : r = MakeResolver(draft)
    OBVIOUS
  <2>2. TablesOK(r)
    BY <2>1, TablesMade DEF FileInv
  <2>3. DetectCycles(r) <=> Circle(r)
    BY <2>2, DetectsCircles, CircleNotFounded
  <2>4. Acyclic(r) <=> ~ Circle(r)
    BY <2>2, AcyclicIsNoCircle
  <2> QED BY <2>1, <2>3, <2>4 DEF CycleCheckExact
<1> QED BY <1>1, FileInvariant, PTL

\* Begun with a file that gives no name twice, which nothing in the loader checks, no
\* sequence of edits, Applies, discards, crashes and restarts makes two names the same or
\* closes a circle of redirects, and circles of groups are found (the Validate... of both
\* tables, wouldCreateCycle, detectCycles).
THEOREM LookupsAlwaysEnd ==
  ASSUME \A c \in Initial : Distinct(c)
  PROVE  Spec => []LookupsEnd
<1>1. Init => NamesInv
  <2> SUFFICES ASSUME Init PROVE NamesInv
    OBVIOUS
  <2>1. PICK c \in Initial : draft = c /\ active = c
    BY DEF Init
  <2>2. IsConfiguration(c) /\ Applicable(c) /\ Distinct(c)
    BY RuntimeAssumption
  <2>3. ChainsEnd(c)
    BY <2>2, ApplicableChainsEnd DEF Distinct
  <2> QED BY <2>1, <2>2, <2>3, FileInitially DEF NamesInv, NamesOK
<1>2. NamesInv /\ [Next]_vars => NamesInv'
  BY NamesMove
<1>3. NamesInv /\ CycleCheckExact => LookupsEnd
  BY DEF NamesInv, NamesOK, LookupsEnd, NamesDistinct, RedirectChainsEnd
<1> QED BY <1>1, <1>2, <1>3, CycleCheckIsExact, PTL DEF Spec

\* From a file whose groups all have entries, no edit of one object leaves what a redirect
\* or another group refers to dangling (a renamed redirect and a group's new name with "/"
\* apart); the names smart_route and the spoke's cascade block give are lost by renames
\* and deletes of groups, redirects and providers only; and no change of the cascade role
\* makes a draft that could be applied one that cannot (ValidateDelete, ReferencingGroups,
\* the renames of the managers of groups and of providers, ApplyCascade).  What stands
\* before the "/" of an entry has none itself.
THEOREM EditsAreLocal ==
  ASSUME Slashed \cap ProviderNames = {}, \A c \in Initial : Filled(c)
  PROVE  Spec => EditsKeepDraft
<1> DEFINE Kept == (/\ edits' = edits + 1 /\ request'.op # "rename redirect"
                    /\ request'.name \notin Slashed)
                     => \A d \in Dangling(draft') \ Dangling(draft) : d[1] = request'.name
           Lost == edits' = edits + 1 =>
                     \A d \in DanglingOutside(draft') \ DanglingOutside(draft) :
                       request'.op \in
                         CASE d[1] = "smart_route" -> {"update group", "delete group",
                                                       "rename redirect", "delete redirect"}
                           [] d[1] = "cascade" -> {"update provider", "delete provider", "cascade"}
           Role == (/\ edits' = edits + 1 /\ request'.op = "cascade" /\ Applicable(draft)
                    /\ Cardinality(DirectCallableNames(draft)) <= MaxCallable)
                     => Applicable(draft')
<1>1. Init => DraftInv
  BY FileInitially DEF Init, DraftInv
<1>2. DraftInv /\ [Next]_vars => DraftInv'
  BY DraftMoves
<1>3. DraftInv /\ [Next]_vars => Kept
  <2> SUFFICES ASSUME DraftInv, [Next]_vars, edits' = edits + 1,
                      request'.op # "rename redirect", request'.name \notin Slashed
               PROVE  \A d \in Dangling(draft') \ Dangling(draft) : d[1] = request'.name
    OBVIOUS
  <2>1. AnEdit
    BY CountsEdits DEF DraftInv
  <2> QED BY <2>1, EditLoosens DEF DraftInv, FileInv
<1>4. DraftInv /\ [Next]_vars => Role
  <2> SUFFICES ASSUME DraftInv, [Next]_vars, edits' = edits + 1, request'.op = "cascade",
                      Applicable(draft),
                      Cardinality(DirectCallableNames(draft)) <= MaxCallable
               PROVE  Applicable(draft')
    OBVIOUS
  <2>1. AnEdit
    BY CountsEdits DEF DraftInv
  <2>2. EditCascade
    BY <2>1, CascadeEdits
  <2>3. IsConfiguration(draft) /\ IsConfiguration(draft') /\ Filled(draft)
    BY <2>1, EditMoves DEF DraftInv, FileInv
  <2> QED BY <2>2, <2>3, DisabledApplicable, HubApplicable, SpokeApplicable DEF EditCascade
<1>6. DraftInv /\ [Next]_vars => Lost
  <2> SUFFICES ASSUME DraftInv, [Next]_vars, edits' = edits + 1,
                      NEW d \in DanglingOutside(draft') \ DanglingOutside(draft)
               PROVE  request'.op \in
                        CASE d[1] = "smart_route" -> {"update group", "delete group",
                                                      "rename redirect", "delete redirect"}
                          [] d[1] = "cascade" -> {"update provider", "delete provider", "cascade"}
    OBVIOUS
  <2>1. AnEdit
    BY CountsEdits DEF DraftInv
  <2> QED BY <2>1, EditLosesUnfollowed DEF DraftInv, FileInv
<1>5. DraftInv /\ [Next]_vars => [Kept]_vars /\ [Role]_vars /\ [Lost]_vars
  BY <1>3, <1>4, <1>6
<1> QED BY <1>1, <1>2, <1>5, PTL
      DEF Spec, EditsKeepDraft, EditsKeepReferences, UnfollowedLost, CascadeKeepsApplicable
=============================================================================
