----------------------------- MODULE AttackMap -----------------------------
(***************************************************************************)
(* The readers of the evidence store that turn it into ATT&CK techniques   *)
(* and a story: reconstruct/attack_map.py (rules and hints), bayes.py      *)
(* (one confidence from the lanes), narrative.py (lifecycle phases),       *)
(* timeline.py and temporal.py (order), explain.py (who contributed) and   *)
(* runtime.py (the process tree).                                          *)
(*                                                                         *)
(* A confidence is kept as log-odds, 20 ln(p / (1 - p)) scaled by 160000:  *)
(* the sigmoid is increasing, so comparisons of posteriors are comparisons *)
(* of these, and the rounding to three digits is left out.  The text of a  *)
(* "why" and of a timeline entry is left out but for how it is phrased.    *)
(* A decoded preview is represented by the one function it calls.          *)
(***************************************************************************)
EXTENDS Evidence, FiniteSetsExt, Functions

Tactics == <<"reconnaissance", "resource-development", "initial-access", "execution",
    "persistence", "privilege-escalation", "defense-evasion", "credential-access",
    "discovery", "lateral-movement", "collection", "command-and-control",
    "exfiltration", "impact">>

(* The techniques an analyzer may attribute by details["attack_hint"], and
   their tactics. *)
TechniqueInfo ==
    LET Of(tactic, ids) == [t \in ids |-> tactic]
    IN  Of("credential-access", {"T1003", "T1555"})
     @@ Of("defense-evasion", {"T1014", "T1027", "T1027.001", "T1055", "T1055.004",
                               "T1055.012", "T1112", "T1497", "T1622"})
     @@ Of("discovery", {"T1016", "T1057", "T1082", "T1087"})
     @@ Of("collection", {"T1056.001", "T1056.004", "T1113"})
     @@ Of("execution", {"T1059", "T1059.005", "T1059.007", "T1204.002"})
     @@ Of("command-and-control", {"T1071", "T1071.001", "T1095", "T1105"})
     @@ Of("persistence", {"T1543.003", "T1547.001"})
     @@ Of("impact", {"T1486"})

(* The techniques with a rule of their own: base confidence and tactic. *)
RuleBase ==
    "T1059" :> 90 @@ "T1059.005" :> 80 @@ "T1059.004" :> 85 @@ "T1027" :> 90 @@
    "T1140" :> 85 @@ "T1055" :> 92 @@ "T1071" :> 70 @@ "T1105" :> 70 @@
    "T1547.001" :> 70 @@ "T1053" :> 70 @@ "T1059.001" :> 80 @@ "T1505.003" :> 85 @@
    "T1056.001" :> 60 @@ "T1486" :> 70 @@ "T1490" :> 85 @@ "T1552.001" :> 85

TacticOf(t) ==
    IF t \in DOMAIN TechniqueInfo THEN TechniqueInfo[t]
    ELSE CASE t \in {"T1059.001", "T1059.004"} -> "execution"
           [] t = "T1140"                      -> "defense-evasion"
           [] t \in {"T1053", "T1505.003"}     -> "persistence"
           [] t = "T1490"                      -> "impact"
           [] t = "T1552.001"                  -> "credential-access"

(* has_sink: the object names one of these, or the decoded preview calls it. *)
HasSink(it, names) ==
    \/ \E k \in {"sink", "api", "function", "import", "symbol", "command"} :
          Among(it.object, k, names)
    \/ Among(it.details, "decoded_preview", names)

Matches(t, it) ==
    CASE t = "T1059"     -> /\ it.artifact \in {"api_call", "process", "macro"}
                            /\ HasSink(it, {"system", "exec", "shell_exec", "passthru",
                                  "proc_open", "popen", "eval", "assert", "shell",
                                  "invoke-expression", "wscript_shell", "shell_run",
                                  "shell_application", "powershell_spawn", "function_ctor"})
      [] t = "T1059.005" -> /\ it.tool \in {"vbscript", "hta"}
                            /\ Among(it.object, "sink", {"wscript_shell", "shell_run",
                                  "shell_application", "eval", "adodb_stream_write"})
      [] t = "T1059.004" -> /\ it.tool \in {"shell", "powershell", "elf", "linux"}
                            /\ HasSink(it, {"/dev/tcp", "download_exec", "execve",
                                  "reverse_shell", "netcat"})
      [] t = "T1027"     -> it.operation = "decode" /\ it.artifact = "string"
      [] t = "T1140"     -> it.operation = "decode" /\ Has(it.object, "function")
      [] t = "T1055"     -> HasSink(it, {"writeprocessmemory", "createremotethread",
                                  "virtualallocex", "ptrace"})
      [] t = "T1071"     -> it.artifact = "network" /\ it.operation \in {"connect", "resolve"}
      [] t = "T1105"     -> HasSink(it, {"remote_download", "download_exec",
                                  "urldownloadtofile", "downloadstring", "invoke-webrequest"})
      [] t = "T1547.001" -> it.artifact = "registry" /\ it.operation = "write"
      [] t = "T1053"     -> HasSink(it, {"cron", "crontab", "schtasks"})
      [] t = "T1059.001" -> /\ it.tool = "powershell"
                            /\ it.artifact \in {"api_call", "string"}
                            /\ it.operation \in {"exec", "decode"}
      [] t = "T1505.003" -> Is(it.object, "verdict", "php_webshell")
      [] t = "T1056.001" -> HasSink(it, {"setwindowshookex"})
      [] t = "T1486"     -> Is(it.object, "capability", "ransomware")
      [] t = "T1490"     -> \/ Is(it.object, "capability", "inhibit_recovery")
                            \/ HasSink(it, {"vssadmin", "wbadmin", "bcdedit"})
      [] t = "T1552.001" -> Among(it.details, "canary_kind", {"aws_key", "credential", "password"})

(* map_evidence, one item: the hint attributes a technique that is in
   TECHNIQUE_INFO; a rule attributes any other technique than the hinted. *)
Hinted(it) == {t \in DOMAIN TechniqueInfo : Is(it.details, "attack_hint", t)}
ByRule(it) == {t \in DOMAIN RuleBase : ~Is(it.details, "attack_hint", t) /\ Matches(t, it)}

Techniques(it) == Hinted(it) \union ByRule(it)

Support(it, t) ==
    LET base == IF t \in Hinted(it) THEN 70 ELSE RuleBase[t]
        s    == (base * (100 + it.conf)) \div 200
    IN  IF s > 99 THEN 99 ELSE s

-----------------------------------------------------------------------------
(* bayes.py *)

(* 20 ln(p / (1 - p)), rounded, for p from 1 to 99 percent. *)
LogOdds == <<
    -92, -78, -70, -64, -59, -55, -52, -49, -46, -44, -42, -40, -38, -36, -35, -33, -32,
    -30, -29, -28, -26, -25, -24, -23, -22, -21, -20, -19, -18, -17, -16, -15, -14, -13,
    -12, -12, -11, -10, -9, -8, -7, -6, -6, -5, -4, -3, -2, -2, -1, 0, 1, 2, 2, 3, 4, 5,
    6, 6, 7, 8, 9, 10, 11, 12, 12, 13, 14, 15, 16, 17, 18, 19, 20, 21, 22, 23, 24, 25,
    26, 28, 29, 30, 32, 33, 35, 36, 38, 40, 42, 44, 46, 49, 52, 55, 59, 64, 70, 78, 92>>
Prior == 12
Scaled(p) == 160000 * LogOdds[p]

LaneWeight == [static |-> 20, dynamic |-> 27, memory |-> 26]    \* 1.0, 1.35, 1.3

LaneOf(it) == IF Runtime(it) THEN it.lane ELSE "static"

(* The n-th largest of the values of d: the largest one that n of them reach. *)
NthLargest(d, n) ==
    IF n > Cardinality(DOMAIN d) THEN 0
    ELSE Max({v \in Range(d) : Cardinality({i \in DOMAIN d : d[i] >= v}) >= n})

Gain(supports) == [i \in DOMAIN supports |-> LogOdds[supports[i]] - LogOdds[Prior]]

Pooled_NoSort(supports) ==                             \* mutant
    LET d == Gain(supports)
        Nth(n) == Max({0} \union {d[i] : i \in {j \in DOMAIN d : Cardinality({k \in DOMAIN d : k <= j}) = n}})
    IN  8000 * Nth(1) + 4400 * Nth(2) + 2420 * Nth(3) + 1331 * Nth(4)

(* The strongest support of a lane counts whole, each further one 0.55 as
   much as the one before it; those after the fourth are left out. *)
Pooled(supports) ==
    LET d == Gain(supports)
    IN  8000 * NthLargest(d, 1) + 4400 * NthLargest(d, 2) + 2420 * NthLargest(d, 3) + 1331 * NthLargest(d, 4)

Weighted(deltas) == [lane \in DOMAIN deltas |-> LaneWeight[lane] * deltas[lane]]

Fuse_Mean(deltas) ==                                   \* mutant
    Scaled(Prior) + (SumFunction(Weighted(deltas)) \div Cardinality(DOMAIN deltas))

Fuse(deltas) ==
    LET agg == Scaled(Prior) + SumFunction(Weighted(deltas))
    IN  IF agg > Scaled(99) THEN Scaled(99) ELSE agg

(* map_evidence, the store: one mapping for each technique, with the
   evidence that attributed it. *)
MapEvidence(store) ==
    LET tech == MapSeq(Techniques, store)
        At(t) == {i \in DOMAIN store : t \in tech[i]}
        Lanes(t) == {LaneOf(store[i]) : i \in At(t)}
        In(t, lane) == {i \in At(t) : LaneOf(store[i]) = lane}
        Deltas(t) == [lane \in Lanes(t) |-> Pooled([i \in In(t, lane) |-> Support(store[i], t)])]
    IN  [t \in UNION Range(tech) |->
            [tactic |-> TacticOf(t),
             cites  |-> {Id(store[i]) : i \in At(t)},
             status |-> Strongest({ProvenanceOf(store[i]) : i \in At(t)}),
             lanes  |-> Lanes(t),
             conf   |-> Fuse(Deltas(t))]]

-----------------------------------------------------------------------------
(* narrative.py *)

Lifecycle == <<"execution", "unpack/deobfuscate", "injection", "discovery",
    "credential-access", "persistence", "command-and-control", "collection",
    "exfiltration", "impact">>

PhaseOf(t, tactic) ==
    FirstCase(<<
        <<t \in {"T1055", "T1055.001", "T1055.002", "T1055.003", "T1055.004",
                 "T1055.012", "T1620"}, "injection">>,
        <<tactic = "defense-evasion", "unpack/deobfuscate">>,
        <<tactic = "privilege-escalation", "injection">>,
        <<tactic = "reconnaissance", "discovery">>,
        <<tactic \in Range(Lifecycle), tactic>> >>, "execution")

BuildNarrative(map) ==
    [n \in DOMAIN Lifecycle |->
        LET here == {t \in DOMAIN map : PhaseOf(t, map[t].tactic) = Lifecycle[n]}
        IN  [techniques |-> here, reached |-> here # {},
             status |-> Strongest({map[t].status : t \in here})]]

(* highest_observed_phase, highest_inferred_phase: 0 is "none" *)
Furthest(phases, those) == Max({0} \union {n \in those : phases[n].reached})
HighestObserved(phases) == Furthest(phases, {n \in DOMAIN phases : phases[n].status = "observed"})
HighestInferred(phases) == Furthest(phases, DOMAIN phases)
RuntimeObserved(phases) ==
    \E n \in DOMAIN phases : phases[n].reached /\ phases[n].status = "observed"

-----------------------------------------------------------------------------
(* timeline.py and temporal.py *)

(* Items are stamped by the threads that make them, so where a static one
   comes is not determined; the order is left out. *)
Timeline(store) ==
    {[id |-> Id(it), status |-> ProvenanceOf(it),
      phrased |-> IF ProvenanceOf(it) = "observed" THEN "event" ELSE "indicator"] : it \in Range(store)}

KindOf(it) ==
    CASE it.artifact \in {"process", "api_call"} /\ it.operation = "inject" -> "memory"
      [] it.artifact = "process" /\ it.operation \in {"spawn", "exec"} -> "process"
      [] it.artifact = "api_call" /\ it.operation = "exec"   -> "api"
      [] it.artifact = "network" /\ it.operation = "connect" -> "network"
      [] it.artifact = "file" /\ it.operation \in {"create", "write"} -> "file"
      [] it.artifact = "registry" /\ it.operation = "write"  -> "registry"
      [] OTHER -> "event"

(* Only an item with a recorded offset has a place in time. *)
TemporalTimeline(store) ==
    LET timed == Filter(store, LAMBDA it : it.t # NoTime)
        Before(i) == {j \in DOMAIN timed : \/ timed[j].t < timed[i].t
                                           \/ timed[j].t = timed[i].t /\ j < i}
        Nth(n)    == CHOOSE i \in DOMAIN timed : Cardinality(Before(i)) = n - 1
    IN  [n \in DOMAIN timed |->
            LET it == timed[Nth(n)]
            IN  [offset |-> it.t, kind |-> KindOf(it),
                 status |-> ProvenanceOf(it), id |-> Id(it)]]

-----------------------------------------------------------------------------
(* explain.py *)

MethodOf(it) ==
    LET o == it.object
    IN  FirstCase(<<
            <<Has(o, "yara_rule"), "signature match">>,
            <<it.operation = "decode", "deobfuscation">>,
            <<Has(o, "sink"), "execution sink">>,
            <<\E k \in {"import", "symbol", "api"} : Has(o, k), "import/API analysis">>,
            <<Has(o, "capability"), "capability heuristic">>,
            <<Has(o, "verdict"), "heuristic verdict">>,
            <<Has(o, "value") \/ Among(o, "kind", {"url", "domain", "ipv4"}), "string/IOC">>,
            <<Runtime(it), "runtime observation">> >>, "static heuristic")

(* A lane the technique has no evidence of is pending (it is not in the
   domain of lane_confidence). *)
ConfidenceBreakdown(store, mapping) ==
    LET items   == Filter(store, LAMBDA it : Id(it) \in mapping.cites)
        Best(P(_)) == Max({items[i].conf : i \in {j \in DOMAIN items : P(items[j])}})
        sources == {<<items[i].lane, items[i].tool>> : i \in DOMAIN items}
    IN  [by_source |-> [s \in sources |->
                          Best(LAMBDA it : <<it.lane, it.tool>> = s)],
         by_method |-> [m \in {MethodOf(items[i]) : i \in DOMAIN items} |->
                          {Id(items[i]) : i \in {j \in DOMAIN items : MethodOf(items[j]) = m}}],
         lane_confidence |-> [lane \in {LaneOf(items[i]) : i \in DOMAIN items} |->
                          Best(LAMBDA it : LaneOf(it) = lane)]]
-----------------------------------------------------------------------------
(* runtime.py *)

Seen(it) == Runtime(it) /\ ~Is(it.object, "status", "skipped")
Hidden(it) == Has(it.object, "hidden") \/ Has(it.details, "hidden")
Shown_HiddenToo(it) == Seen(it) /\ ~Has(it.details, "hook")             \* mutant

Shown(it) == Seen(it) /\ ~Hidden(it) /\ ~Has(it.details, "hook")

(* The parent of a process is the one its last spawn names.  A process is
   a child of its parent when that one was seen and is another process,
   and a root otherwise; the tree is what is reached from the roots. *)
ProcessTree(store) ==
    LET spawns == Filter(store, LAMBDA it :
                      /\ Shown(it) /\ it.artifact = "process" /\ it.operation = "spawn"
                      /\ Has(it.object, "pid"))
        pids   == {spawns[i].object["pid"] : i \in DOMAIN spawns}
        Spawn(p) == spawns[Max({i \in DOMAIN spawns : spawns[i].object["pid"] = p})]
        Parent(p) == FirstOf(Spawn(p).subject, <<"pid">>, "None")
        IsRoot(p) == Parent(p) \notin pids \ {p}
        Grow(s, i) == s \union {p \in pids : ~IsRoot(p) /\ Parent(p) \in s}
        roots  == {p \in pids : IsRoot(p)}
    IN  [nodes |-> pids, parent |-> [p \in pids |-> Parent(p)], roots |-> roots,
         flat  |-> Lib!FoldLeft(Grow, roots, [i \in DOMAIN spawns |-> i])]

Hiding(it) == Seen(it) /\ Hidden(it)
Hooked(it) == Seen(it) /\ ~Hidden(it) /\ Has(it.details, "hook")

BuildRuntimeView(store) ==
    LET Those(P(_)) == {Id(store[i]) : i \in {j \in DOMAIN store : P(store[j])}}
    IN  [observed |-> \E i \in DOMAIN store : Seen(store[i]),
         hidden   |-> Those(Hiding),
         hooks    |-> Those(Hooked),
         config   |-> Those(LAMBDA it : /\ Shown(it) /\ Has(it.details, "memory_extracted")
                                        /\ \E k \in {"encrypted_count", "key_material", "value"} :
                                              Has(it.object, k)),
         injected |-> Those(LAMBDA it : /\ Shown(it) /\ it.artifact = "process"
                                        /\ it.operation = "inject"),
         network  |-> Those(LAMBDA it : /\ Shown(it) /\ it.artifact = "network"
                                        /\ \E k \in {"value", "host", "ForeignAddr"} : Has(it.object, k)),
         files    |-> Those(LAMBDA it : Shown(it) /\ it.artifact = "file" /\ Has(it.object, "path")),
         registry |-> Those(LAMBDA it : Shown(it) /\ it.artifact = "registry" /\ Has(it.object, "key")),
         tree     |-> ProcessTree(store)]

-----------------------------------------------------------------------------
(* reporting/stream.py: what makes a line of the live feed an ALERT *)
AlertReason(it) ==
    LET o == it.object
    IN  FirstCase(<<
            <<it.artifact = "network" /\ it.operation \in {"connect", "resolve"}, "egress">>,
            <<it.artifact = "process" /\ it.operation = "inject", "code injection">>,
            <<it.artifact = "registry" /\ it.operation = "write", "persistence">>,
            <<it.artifact = "api_call" /\ it.operation = "inject", "in-memory hook">>,
            <<Has(o, "sink"), "execution sink">>,
            <<Is(o, "capability", "ransomware"), "ransomware capability">>,
            <<Is(o, "verdict", "php_webshell"), "web shell">>,
            <<Hidden(it), "hidden process">> >>, "None")

FormatEvent(it) ==
    [id |-> Id(it), standing |-> ProvenanceOf(it), alert |-> AlertReason(it) # "None"]
=============================================================================
