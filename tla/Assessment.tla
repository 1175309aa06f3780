----------------------------- MODULE Assessment -----------------------------
(***************************************************************************)
(* What is concluded from the evidence and its mappings:                   *)
(* reporting/summary.py (risk, likelihood, the maliciousness score and the *)
(* table that explains it), detect/sigma_gen.py (rules), reporting/        *)
(* coverage.py (which techniques the rules cover), reconstruct/graph.py    *)
(* over graphdb/client.py (the reasoning graph).                           *)
(*                                                                         *)
(* Wording is left out; a label is the case it stands for.  Sigma rules    *)
(* are [kind, atoms, tags] with the techniques and tactics they are tagged *)
(* with.  A host name stands for the URLs that are reduced to it.          *)
(***************************************************************************)
EXTENDS AttackMap

HasObject(store, key, v) == \E i \in DOMAIN store : Is(store[i].object, key, v)
HasVerdict(store, v)     == HasObject(store, "verdict", v)
HasCapability(store, c)  == HasObject(store, "capability", c)

(* Every marker is looked for in the values, indicators, rule names and
   capabilities of all the evidence together. *)
FamilyMarkers(store) ==
    UNION {{store[i].object[k] : k \in {"value", "indicators", "yara_rule", "capability"}
                                       \intersect DOMAIN store[i].object} : i \in DOMAIN store}
FamilyHint(store) ==
    LET m == FamilyMarkers(store)
    IN  FirstCase(<< <<m \intersect {"killswitch domain", ".wnry", "wanadecryptor"} # {}, "WannaCry">>,
                     <<{"wmic shadow", "wevtutil cl"} \subseteq m, "Petya/NotPetya">> >>, "unknown")

(* max(..., key=confidence).status *)
BestStatus(map, S) ==
    IF S = {} THEN "inferred"
    ELSE map[CHOOSE t \in S : \A u \in S : map[u].conf <= map[t].conf].status

OfTactic(map, tactic) == {t \in DOMAIN map : map[t].tactic = tactic}

PrimaryTactics == <<"impact", "credential-access", "collection", "exfiltration",
                    "persistence", "command-and-control", "execution">>

PrimaryCapability(store, map) ==
    LET St(t) == BestStatus(map, {t} \intersect DOMAIN map)
        tactics == Filter(PrimaryTactics, LAMBDA c : OfTactic(map, c) # {})
    IN  FirstCase(<<
          <<HasVerdict(store, "php_webshell"), <<"web shell", St("T1505.003")>> >>,
          <<HasCapability(store, "ransomware") \/ "T1486" \in DOMAIN map,
            <<"ransomware", St("T1486")>> >>,
          <<"T1055" \in DOMAIN map, <<"injection", St("T1055")>> >>,
          <<OfTactic(map, "impact") # {}, <<"destructive impact", St("T1486")>> >>,
          <<tactics # <<>>, <<HeadOr(tactics, "none"),
                                BestStatus(map, OfTactic(map, HeadOr(tactics, "none")))>> >>,
          <<DOMAIN map # {}, <<"technique", BestStatus(map, DOMAIN map)>> >> >>,
          <<"no clear malicious capability">>)

ExecSinkCount(store) ==
    Cardinality({store[i].object["sink"] :
        i \in {j \in DOMAIN store : /\ store[j].artifact = "api_call"
                                    /\ store[j].operation = "exec"
                                    /\ Has(store[j].object, "sink")}})

NetworkIndicators(store) ==
    Cardinality({i \in DOMAIN store : /\ Has(store[i].details, "ioc")
                                      /\ Among(store[i].object, "kind", {"url", "domain", "ipv4"})})

Risk(store, map) ==
    LET net      == NetworkIndicators(store)
        sinks    == ExecSinkCount(store)
        credible == Cardinality({t \in DOMAIN map : \/ map[t].status = "observed"
                                                    \/ map[t].conf >= Scaled(60)})
        strong   == \/ HasCapability(store, "ransomware")
                    \/ HasCapability(store, "inhibit_recovery")
                    \/ HasVerdict(store, "php_webshell")
                    \/ "T1055" \in DOMAIN map
                    \/ sinks >= 2
                    \/ FamilyHint(store) # "unknown"
                    \/ \E t \in DOMAIN map : map[t].status = "observed"
    IN  [risk |-> FirstCase(<<
            <<OfTactic(map, "impact") # {}, 4>>,
            <<strong \/ OfTactic(map, "credential-access") # {} \/ (credible >= 2 /\ net >= 1), 3>>,
            <<credible >= 1 \/ net >= 2 \/ sinks = 1, 2>> >>, 1),
         likelihood |-> FirstCase(<<
            <<strong \/ sinks >= 3, 3>>,
            <<credible >= 1 \/ net >= 2, 2>> >>, 1)]

(* The axes the score adds up, with their weights and the mappings that
   give each its standing. *)
AxisWeights ==
    [technique |-> 10, ransomware |-> 40, inhibit_recovery |-> 16, webshell |-> 40,
     injection |-> 40, credential_access |-> 24, persistence |-> 16, c2 |-> 14,
     exec_sinks |-> 14, discovery |-> 9, evasion |-> 9, obfuscation |-> 11,
     collection |-> 11, family |-> 16]

Present(store, map) ==
    LET tids == DOMAIN map
        Axis(name, is) == IF is THEN {name} ELSE {}
    IN  Axis("technique", tids # {})
        \union Axis("ransomware", HasCapability(store, "ransomware"))
        \union Axis("inhibit_recovery", HasCapability(store, "inhibit_recovery"))
        \union Axis("webshell", HasVerdict(store, "php_webshell"))
        \union Axis("injection", "T1055" \in tids)
        \union Axis("credential_access", OfTactic(map, "credential-access") # {})
        \union Axis("persistence", OfTactic(map, "persistence") # {})
        \union Axis("c2", NetworkIndicators(store) > 0 \/ OfTactic(map, "command-and-control") # {})
        \union Axis("exec_sinks", ExecSinkCount(store) >= 2)
        \union Axis("discovery", OfTactic(map, "discovery") # {})
        \union Axis("evasion", {"T1497", "T1622"} \intersect tids # {})
        \union Axis("obfuscation", \/ {"T1027", "T1140"} \intersect tids # {}
                                   \/ \E i \in DOMAIN store : store[i].operation = "decode")
        \union Axis("collection", OfTactic(map, "collection") # {})
        \union Axis("family", FamilyHint(store) # "unknown")

Anchors(axis, map) ==
    CASE axis = "ransomware"        -> {"T1486"} \intersect DOMAIN map
      [] axis = "inhibit_recovery"  -> {"T1490"} \intersect DOMAIN map
      [] axis = "webshell"          -> {"T1505.003"} \intersect DOMAIN map
      [] axis = "injection"         -> {"T1055"} \intersect DOMAIN map
      [] axis = "credential_access" -> OfTactic(map, "credential-access")
      [] axis = "c2"                -> OfTactic(map, "command-and-control")
      [] axis = "exec_sinks"        -> {"T1059"} \intersect DOMAIN map
      [] axis = "evasion"           -> {"T1497", "T1622"} \intersect DOMAIN map
      [] axis = "obfuscation"       -> {"T1027", "T1140"} \intersect DOMAIN map
      [] axis \in {"persistence", "discovery", "collection"} -> OfTactic(map, axis)

StandingFactor == [observed |-> 115, inferred |-> 100, speculative |-> 60]

Points(axis, map) ==
    IF axis \in {"technique", "family"} THEN AxisWeights[axis]
    ELSE (AxisWeights[axis]
            * StandingFactor[Strongest({map[t].status : t \in Anchors(axis, map)})] + 50) \div 100

(* 80 + 20 (1 - exp(-(raw - 80) / 40)), rounded: the raw scores at which
   81, 82, ... 100 are reached. *)
Knee  == 80
Steps == <<82, 84, 86, 88, 91, 93, 96, 99, 103, 106, 110, 115, 120, 125, 132, 140, 150, 164, 184, 228>>
Compressed(raw) == Knee + Cardinality({n \in DOMAIN Steps : Steps[n] <= raw})

Diminishing_Untold(raw) == Dict                                         \* mutant

(* What the compression takes off is a line of the table. *)
Diminishing(raw) == IF raw > Knee THEN "diminishing" :> (Compressed(raw) - raw) ELSE Dict

(* The table of factors, and the score: the table is to add up to it. *)
Maliciousness(store, map) ==
    LET axes == Present(store, map)
        points == [a \in axes |-> Points(a, map)]
        raw  == SumFunction(points)
        comp == IF raw > Knee THEN Compressed(raw) ELSE raw
        seen == \E i \in DOMAIN store : Runtime(store[i])
        table == points
              @@ Diminishing(raw)
              @@ (IF ~seen /\ axes # {} THEN "static only" :> -4 ELSE Dict)
    IN  [factors |-> table,
         score |-> IF ~seen /\ axes # {} THEN Max({0, Min({96, comp - 4})}) ELSE Min({100, comp})]

EvidenceMaturity(store) ==
    {"static"} \union {store[i].lane : i \in {j \in DOMAIN store : Runtime(store[j])}}

BuildSummary(store, map, phases, isolated) ==
    LET family == FamilyHint(store)
        risk   == Risk(store, map)
        mal    == Maliciousness(store, map)
    IN  [analysis_mode |-> IF isolated THEN "static + dynamic" ELSE "static only",
         runtime_observed |-> RuntimeObserved(phases),
         highest_observed |-> HighestObserved(phases),
         highest_inferred |-> HighestInferred(phases),
         family |-> family,
         family_label |-> FirstCase(<< <<family # "unknown" /\ RuntimeObserved(phases), "High">>,
                                       <<family # "unknown", "Medium">> >>, "none"),
         primary |-> PrimaryCapability(store, map),
         risk |-> risk.risk, likelihood |-> risk.likelihood,
         score |-> mal.score, factors |-> mal.factors,
         maturity |-> EvidenceMaturity(store)]

-----------------------------------------------------------------------------
(* detect/sigma_gen.py *)

TagsOf(map, S) == UNION {{t, map[t].tactic} : t \in S}

SigmaRule(kind, atoms, tags) == [kind |-> kind, atoms |-> atoms, tags |-> tags]

GenerateSigma(store, map) ==
    LET Those(P(_)) == {store[i] : i \in {j \in DOMAIN store : P(store[j])}}
        Execs(it) == /\ it.artifact \in {"process", "api_call", "macro"}
                     /\ it.operation \in {"exec", "spawn"}
        Egress(it) == it.artifact \in {"network", "host"} /\ it.operation \in {"connect", "resolve"}
        Writes(it) == it.artifact = "registry" /\ it.operation = "write"
        Atoms(P(_), keys) == {FirstOf(it.object, keys, "None") : it \in Those(P)} \ {"None"}
        cmds  == Atoms(Execs, <<"sink", "command", "api">>)
        hosts == Atoms(Egress, <<"host", "value">>)
        keys  == Atoms(Writes, <<"key">>)
        Rule(c, r) == IF c THEN {r} ELSE {}
        Or(tags, default) == IF tags = {} THEN default ELSE tags
        Own(S) == TagsOf(map, S \intersect DOMAIN map)
    IN  Rule(cmds # {}, SigmaRule("ioc", cmds, TagsOf(map, OfTactic(map, "execution"))))
        \union Rule(hosts # {}, SigmaRule("ioc", hosts, TagsOf(map, OfTactic(map, "command-and-control"))))
        \union Rule(keys # {}, SigmaRule("behavioral", keys, TagsOf(map, OfTactic(map, "persistence"))))
        \union Rule(HasCapability(store, "inhibit_recovery"),
                  SigmaRule("behavioral", {"vssadmin.exe"}, Or(Own({"T1490"}), {"impact", "T1490"})))
        \union Rule(HasVerdict(store, "php_webshell"),
                  SigmaRule("behavioral", {"php.exe", "cmd.exe"},
                            Or(Own({"T1505.003", "T1059"}), {"persistence", "T1505.003"})))
        \union Rule(HasCapability(store, "ransomware"),
                  SigmaRule("behavioral", {".wnry"}, Or(Own({"T1486"}), {"impact", "T1486"})))

-----------------------------------------------------------------------------
(* reporting/coverage.py; yara is how many YARA rules there are *)

CoveredIds(map, sigma, yara) ==
    {t \in DOMAIN map : \/ \E r \in sigma : t \in r.tags
                        \/ yara > 0 /\ t \in {"T1027", "T1140", "T1505.003", "T1059.001", "T1059"}}

ComputeCoverage(map, sigma, yara) ==
    LET covered == CoveredIds(map, sigma, yara)
        obs     == {t \in DOMAIN map : map[t].status = "observed"}
        Of(c)   == OfTactic(map, c)
        shown   == {c \in Range(Tactics) : Of(c) # {}}
    IN  [per_tactic |-> [c \in shown |-> [observed |-> Of(c), covered |-> Of(c) \intersect covered]],
         covered    |-> covered,
         observed_techniques |-> Cardinality(obs),
         inferred_techniques |-> Cardinality(DOMAIN map \ obs),
         runtime_rules |-> IF obs = {} THEN 0 ELSE Cardinality({r \in sigma : r.tags \intersect obs # {}}),
         runtime_coverage |-> IF obs = {} THEN "N/A" ELSE obs \intersect covered,
         detectable |-> yara > 0 \/ sigma # {}]

-----------------------------------------------------------------------------
(* reconstruct/graph.py: nodes are <<label, id>>, edges [src, dst, type].   *)

Node(label, id) == <<label, id>>
Label(node) == node[1]
Edge(src, dst, type) == [src |-> src, dst |-> dst, type |-> type]
Sample == Node("Sample", "sample")

ArtifactLabel(it) ==
    FirstCase(<<
        <<Has(it.object, "capability"), "Capability">>,
        <<it.artifact \in {"process", "thread"}, "Process">>,
        <<it.artifact = "file", "File">>,
        <<it.artifact = "registry", "Registry">>,
        <<it.artifact = "network", "Host">>,
        <<it.artifact = "module", "Module">>,
        <<it.artifact \in {"function", "call"}, "Function">>,
        <<it.artifact = "macro", "Macro">>,
        <<it.artifact \in {"api_call", "callback"}, "API">> >>, "String")

ObjectNode(it) ==
    Node(ArtifactLabel(it),
         FirstOf(it.object, <<"path", "name", "host", "value", "key", "sink", "api", "function",
                              "yara_rule", "verdict", "command", "import", "symbol", "capability">>,
                 it.artifact \o ":" \o it.operation))

(* The actor has a node unless it is only named by the analyzer. *)
SubjectNodes(it) ==
    LET keys  == Filter(<<"name", "pid", "process", "function", "analyzer">>,
                           LAMBDA k : Has(it.subject, k))
    IN  IF HeadOr(keys, "analyzer") = "analyzer" THEN {}
        ELSE {Node(IF Head(keys) = "function" THEN "Function" ELSE "Process", it.subject[Head(keys)])}

EvidenceNode(id) == Node("Evidence", id)
TechniqueNode(t) == Node("Technique", t)

Reasoned_Confident(store) ==                                            \* mutant
    {store[i] : i \in {j \in DOMAIN store : store[j].conf >= 50}}

(* A benign toolchain reference is no part of the reasoning. *)
Reasoned(store) == {store[i] : i \in {j \in DOMAIN store : ~Has(store[j].details, "library_artifact")}}

(* An item that matched a static function has a node for it. *)
CorrelatedNodes(it) ==
    IF Runtime(it) /\ Has(it.details, "address_correlations")
    THEN {Node("Function", it.details["address_correlations"])} ELSE {}

ItemNodes(it) == {ObjectNode(it), EvidenceNode(Id(it))} \union SubjectNodes(it) \union CorrelatedNodes(it)
ItemEdges(it) ==
    {Edge(Sample, ObjectNode(it), "CONTAINS"), Edge(EvidenceNode(Id(it)), ObjectNode(it), "ABOUT")}
    \union {Edge(s, ObjectNode(it), it.operation) : s \in SubjectNodes(it)}
    \union {Edge(s, f, "OBSERVED_AT") : s \in SubjectNodes(it), f \in CorrelatedNodes(it)}
    \union {Edge(f, ObjectNode(it), "RUNTIME_EVENT") : f \in CorrelatedNodes(it) \ {ObjectNode(it)}}

BuildGraph(store, map) ==
    LET items == Reasoned(store)
        Cited(t) == {it \in items : Id(it) \in map[t].cites}
        TechniqueEdges(t) == {Edge(EvidenceNode(e), TechniqueNode(t), "MAPS_TO") : e \in map[t].cites}
                             \union {Edge(ObjectNode(it), TechniqueNode(t), "INDICATES") : it \in Cited(t)}
    IN  [nodes |-> {Sample} \union {TechniqueNode(t) : t \in DOMAIN map}
                   \union (UNION {ItemNodes(it) : it \in items}),
         edges |-> UNION ({ItemEdges(it) : it \in items} \union {TechniqueEdges(t) : t \in DOMAIN map})]

(* add_detections_to_graph *)
AddDetections(graph, sigma, yara) ==
    LET techs == {n \in graph.nodes : Label(n) = "Technique"}
        ynodes == {Node("Detection", <<"yara", i>>) : i \in 1..yara}
        SNode(r) == Node("Detection", <<"sigma", r.kind, r.atoms>>)
        Tagged(r) == {n \in techs : n[2] \in r.tags}
    IN  [nodes |-> graph.nodes \union ynodes \union {SNode(r) : r \in sigma},
         edges |-> graph.edges
                   \union {Edge(t, y, "DETECTED_BY") : t \in techs, y \in ynodes}
                   \union (UNION {{Edge(t, SNode(r), "DETECTED_BY") : t \in Tagged(r)} : r \in sigma})]

(* InMemoryGraph.neighbors: either end of an edge, when the other is there *)
Neighbors(graph, n) ==
    {m \in graph.nodes : \E e \in graph.edges : \/ e.src = n /\ e.dst = m
                                                \/ e.dst = n /\ e.src = m}
=============================================================================
