------------------------------ MODULE Analysis ------------------------------
(***************************************************************************)
(* sandworm/core/pipeline.py, analyze_sample() and what becomes of its     *)
(* result: triage (core/triage.py), the analyzers a sample is dispatched   *)
(* to (analyzers/registry.py, base.py), decompiler output, the artifacts   *)
(* of a sandbox run or of recorded reports, enrichment                     *)
(* (enrich/intelligence.py), reconstruction and detections, the persisted  *)
(* evidence, and the copilot that is asked about it (copilot/graphrag.py,  *)
(* hypotheses.py).                                                         *)
(*                                                                         *)
(* A call of analyze_sample is a record of Calls:                          *)
(*   sample     [sha256, name, signs, content, raw]: signs are what triage *)
(*              finds in its bytes and name, content what the analyzers    *)
(*              do, raw its distinctive tokens                             *)
(*   plugins    analyzers registered before the built-in ones              *)
(*   failing    the analyzers whose run() raises on this sample            *)
(*   recorded, live, enable   whether reports, a sandbox backend are given *)
(*              and dynamic analysis is enabled                            *)
(*   bundle     what the backend collects: [mode, verified, cape, memory,  *)
(*              trace, dump], sequences of reports                         *)
(*   platform   whether the policy names a platform for memory images      *)
(*   decompiled, snapshot     the other files, or None                     *)
(*   questions  what the copilot is asked, [labels, word]                  *)
(* How a backend is driven is SandboxRun, the cache StaticCache.           *)
(***************************************************************************)
EXTENDS Assessment, Observations, Signatures, ScriptAnalyzers

CONSTANTS Calls, Corpus, MaxFound, MaxLines, MaxContext

None == [none |-> TRUE]

ASSUME AskAssumption == {MaxFound, MaxLines, MaxContext} \subseteq Nat
ASSUME CallAssumption ==
    \A c \in Calls :
        /\ IsContent(c.sample.content) /\ IsFiniteSet(c.sample.raw) /\ IsList(c.plugins)
        /\ \A kind \in {"cape", "memory", "trace", "dump"} : IsList(c.bundle[kind])
        /\ \A r \in Range(c.bundle.cape) : IsCape(r)
        /\ \A r \in Range(c.bundle.memory) \union Range(c.bundle.dump) : IsMemory(r.sections)
        /\ \A r \in Range(c.bundle.trace) : IsRuntime(r)
        /\ c.decompiled # None => IsDocument(c.decompiled)
        /\ c.snapshot # None => /\ IsFiniteSet(c.snapshot.indicators)
                               /\ \A r \in c.snapshot.indicators : r.conf \in Nat

VARIABLES
    call,      \* the call being served
    pc,
    tags,      \* the format tags left to dispatch
    selected,  \* the analyzers selected, in order
    results,   \* what the analyzers returned and is not in the store yet
    store, feed,
    ran,       \* analyzers_run
    staged,    \* evidence and analyzers of the backend, before they are the analysis'
    bundle,    \* the artifact bundle: "none", "staged" or "kept"
    out,       \* the RunResult, or None
    saved,     \* evidence.jsonl of the persisted run
    answer     \* what the copilot answered last

dispatched == <<call, tags, selected, results>>
evidence   == <<store, feed, ran>>
collected  == <<staged, bundle>>
result     == <<out, saved, answer>>
vars == <<pc, dispatched, evidence, collected, result>>

NothingStaged == [items |-> <<>>, ran |-> <<>>]

-----------------------------------------------------------------------------
(* triage.py *)

Signs == <<
    <<"mz", "pe">>, <<"elf", "elf">>, <<"macho", "macho">>, <<"volumes", "firmware">>,
    <<"ole", "office">>, <<"lnk", "lnk">>, <<"%pdf", "pdf">>,
    <<"pk+ooxml", "office">>, <<"pk+dex", "apk">>, <<"pk+manifest", "jar">> >>
TextSigns == <<
    <<"hta", "hta">>, <<"vbscript", "vbscript">>, <<"php", "php">>,
    <<"powershell", "powershell">>, <<"shell", "shell">>, <<"javascript", "javascript">> >>

Identify(signs) ==
    LET order == Signs \o (IF "text" \in signs THEN TextSigns ELSE <<>>)
    IN  HeadOr(Filter(order, LAMBDA s : s[1] \in signs), <<"none", "generic">>)[2]

TagsFor(fmt) ==
    IF fmt \in {"powershell", "javascript", "shell", "vbscript", "hta"} THEN {"script", fmt} ELSE {fmt}

-----------------------------------------------------------------------------
(* registry.py, base.py.  An analyzer is [name, handles, isolation,        *)
(* guarded]; those that derive from BaseAnalyzer are guarded.              *)

Builtin(name, handles) == [name |-> name, handles |-> handles, isolation |-> FALSE, guarded |-> TRUE]
Builtins == <<
    Builtin("common", {"*"}), Builtin("php", {"php"}), Builtin("script", {"script"}),
    Builtin("pe", {"pe"}), Builtin("elf", {"elf"}), Builtin("office", {"office"}),
    Builtin("unpack", {"pe", "dll"}), Builtin("decode", {"pe", "dll", "elf", "macho", "generic", "office"}),
    Builtin("disasm", {"pe", "elf"}), Builtin("fingerprint", {"*"}), Builtin("lnk", {"lnk"}),
    Builtin("pdf", {"pdf"}), Builtin("container", {"jar", "apk"}), Builtin("macho", {"macho"}),
    Builtin("firmware", {"firmware"}), Builtin("go_symbols", {"elf"}) >>

(* AnalyzerRegistry.register, for one after the other: the last of a name
   takes the place of others. *)
Register(list) ==
    Picked(list, {i \in DOMAIN list : \A j \in DOMAIN list : j > i => list[j].name # list[i].name})
Registry(plugins) == Register(plugins \o Builtins)

(* for_format: what is dispatched in process never executes the sample. *)
ForFormat(registry, tag) ==
    Filter(registry, LAMBDA a : {tag, "*"} \intersect a.handles # {} /\ ~a.isolation)

(* What the analyzer finds in the content; a plugin is external, and taken
   to be one that reads the sample and does not ingest a report. *)
RunOf(name, c) ==
    CASE name = "common"      -> CommonItems(c)
      [] name = "php"         -> PhpItems(c)
      [] name = "script"      -> ScriptItems(c.lang, c.calls, c.encodings)
      [] name = "pe"          -> PeItems(c)
      [] name = "elf"         -> ElfItems(c)
      [] name = "office"      -> OfficeItems(c)
      [] name = "unpack"      -> UnpackItems(c)
      [] name = "decode"      -> DecodeItems(c)
      [] name = "disasm"      -> DisasmItems(c)
      [] name = "fingerprint" -> FingerprintItems(c)
      [] name = "lnk"         -> LnkItems(c)
      [] name = "pdf"         -> PdfItems(c)
      [] name = "container"   -> ContainerItems(c)
      [] name = "macho"       -> MachoItems(c)
      [] name = "firmware"    -> FirmwareItems(c)
      [] name = "go_symbols"  -> GoSymbolItems(c)
      [] OTHER                -> <<Static(name, "string", "read", "value" :> name, Dict, 50)>>

(* BaseAnalyzer.analyze: nothing, when run() raises. *)
AnalyzeWith(a, content, failing) == IF a.name \in failing THEN <<>> ELSE RunOf(a.name, content)

Raises(a, failing) == a.name \in failing /\ ~a.guarded

-----------------------------------------------------------------------------
(* Recorded and collected reports *)

(* A report is taken when it was captured from this very sample, and from
   a format its normalizer is made for. *)
Declares(report, file) == report.target = file.sha256
Suits(kind, report, format) ==
    \/ format \in {"pe", "dll"}
    \/ kind = "memory" /\ report.platform = "linux"
       /\ format \in {"elf", "shell", "php", "javascript", "generic"}

Ingested_Undeclared(kind, report, file, format) ==                     \* mutant
    Suits(kind, report, format) /\ report.target \in {file.sha256, "None"}

Ingested(kind, report, file, format) == Suits(kind, report, format) /\ Declares(report, file)

(* enrich_snapshot: what the snapshot [valid, stale, indicators] knows of
   the indicators the evidence names; a row is [kind, value, conf]. *)
EnrichSnapshot(items, snapshot) ==
    LET Known(it) == {r \in snapshot.indicators : Is(it.object, "kind", r.kind) /\ Is(it.object, "value", r.value)}
        Item(r) == EvidenceItem("enrich", "intelligence", "indicator", "lookup",
                                "kind" :> r.kind @@ "value" :> r.value,
                                Opt("stale", IF snapshot.stale THEN "yes" ELSE "None"),
                                LET c == IF r.conf > 80 THEN 80 ELSE r.conf
                                IN  IF snapshot.stale THEN c \div 2 ELSE c)
    IN  Flatten(MapSeq(LAMBDA it : MapSeq(Item, ListOf(Known(it))), items))

(* The rest of analyze_sample: the mappings, the story and the detections. *)
Conclude(items, raw, isolated) ==
    LET map   == MapEvidence(items)
        phase == BuildNarrative(map)
        yara  == GenerateYara(items, raw, Corpus)
        sigma == GenerateSigma(items, map)
    IN  [map |-> map, phases |-> phase, yara |-> yara, sigma |-> sigma,
         coverage |-> ComputeCoverage(map, sigma, Cardinality(yara)),
         graph    |-> AddDetections(BuildGraph(items, map), sigma, Cardinality(yara)),
         timeline |-> Timeline(items), temporal |-> TemporalTimeline(items),
         view     |-> BuildRuntimeView(items), suricata |-> SuricataCandidates(items),
         summary  |-> BuildSummary(items, map, phase, isolated),
         why      |-> [t \in DOMAIN map |-> ConfidenceBreakdown(items, map[t])]]

-----------------------------------------------------------------------------
Init ==
    /\ call \in Calls
    /\ pc = "triage"
    /\ tags = {} /\ selected = <<>> /\ results = <<>>
    /\ store = <<>> /\ feed = <<>> /\ ran = <<>>
    /\ staged = NothingStaged /\ bundle = "none"
    /\ out = None /\ saved = <<>> /\ answer = None

sample == call.sample
fmt    == Identify(sample.signs)
backend == IF call.recorded THEN "replay"
           ELSE IF call.live /\ call.enable THEN "live" ELSE "none"
isolated == bundle = "kept" /\ call.bundle.mode = "sandbox" /\ call.bundle.verified

Triage ==
    /\ pc = "triage"
    /\ IF call.live /\ call.recorded THEN pc' = "raised" /\ UNCHANGED tags
       ELSE pc' = "dispatch" /\ tags' = TagsFor(fmt) \union {"*"}
    /\ UNCHANGED <<call, selected, results, evidence, collected, result>>

(* The tags are a set of strings: each process goes through it in an order
   of its own. *)
Dispatch ==
    /\ pc = "dispatch"
    /\ \E tag \in tags :
          LET names == {selected[i].name : i \in DOMAIN selected}
          IN  /\ tags' = tags \ {tag}
              /\ selected' = selected \o Filter(ForFormat(Registry(call.plugins), tag),
                                                   LAMBDA a : a.name \notin names)
    /\ pc' = IF tags' = {} THEN "analyze" ELSE pc
    /\ UNCHANGED <<call, results, evidence, collected, result>>

(* The pool returns the results of all, or raises. *)
Analyze ==
    /\ pc = "analyze"
    /\ IF \E i \in DOMAIN selected : Raises(selected[i], call.failing)
       THEN pc' = "raised" /\ UNCHANGED results
       ELSE /\ pc' = "collect"
            /\ results' = [i \in DOMAIN selected |->
                              [name  |-> selected[i].name,
                               items |-> AnalyzeWith(selected[i], sample.content, call.failing)]]
    /\ UNCHANGED <<call, tags, selected, evidence, collected, result>>

(* store.extend: a subscriber is told of what is new. *)
Add(items, names) ==
    /\ store' = Extend(store, items)
    /\ feed' = feed \o MapSeq(FormatEvent, SubSeq(store', Len(store) + 1, Len(store')))
    /\ ran' = ran \o names

(* A subscriber that raises ends it where it is; it was told by then. *)
AddSome(items) == \E n \in 0..Len(items) : Add(Upto(items, n), <<>>)

Collect ==
    /\ pc = "collect" /\ results # <<>>
    /\ \/ /\ Add(Head(results).items, <<Head(results).name>>)
          /\ results' = Tail(results)
          /\ pc' = IF results' = <<>> THEN "decompiled" ELSE pc
       \/ AddSome(Head(results).items) /\ pc' = "raised" /\ UNCHANGED results
    /\ UNCHANGED <<call, tags, selected, collected, result>>

Decompile ==
    /\ pc = "decompiled"
    /\ IF call.decompiled = None
       THEN pc' = "backend" /\ UNCHANGED evidence
       ELSE IF ~Declares(call.decompiled, sample)
       THEN pc' = "raised" /\ UNCHANGED evidence
       ELSE \/ pc' = "backend" /\ Add(GhidraItems(call.decompiled), <<"static.ghidra">>)
            \/ pc' = "raised" /\ AddSome(GhidraItems(call.decompiled))
    /\ UNCHANGED <<dispatched, collected, result>>

-----------------------------------------------------------------------------
(* _run_backend: what is parsed is staged, and merged when all of it is.   *)

Subject == [sha256 |-> sample.sha256, name |-> sample.name, fmt |-> fmt]

(* Two primary reports of a kind fail the run. *)
StartBackend ==
    /\ pc = "backend"
    /\ IF backend = "none" \/ Len(call.bundle.cape) > 1 \/ Len(call.bundle.memory) > 1
       THEN pc' = "enrich" /\ UNCHANGED collected
       ELSE pc' = "cape" /\ bundle' = "staged" /\ UNCHANGED staged
    /\ UNCHANGED <<dispatched, evidence, result>>

(* The items of each report, their addresses correlated with the static
   evidence. *)
Staging(found, name) ==
    staged' = [items |-> Extend(staged.items, Flatten(found)),
               ran   |-> staged.ran \o [i \in DOMAIN found |-> name]]
Correlated(items) == Annotate(store, items, Subject)

StageCape ==
    /\ pc = "cape"
    /\ Staging(MapSeq(LAMBDA r : Correlated(NormalizeCape(r)),
                      Filter(call.bundle.cape, LAMBDA r : Ingested("dynamic", r, sample, fmt))),
               "dynamic.windows.cape(replay)")
    /\ pc' = "memory"
    /\ UNCHANGED <<dispatched, evidence, bundle, result>>

StageMemory ==
    /\ pc = "memory"
    /\ Staging(MapSeq(LAMBDA r : Correlated(NormalizeMemory(r.sections)),
                      Filter(call.bundle.memory, LAMBDA r : Ingested("memory", r, sample, fmt))),
               "memory.vol3(replay)")
    /\ pc' = "trace"
    /\ UNCHANGED <<dispatched, evidence, bundle, result>>

(* A trace of another sample fails the run, and so does one of a kind that
   is not known. *)
StageTraces ==
    /\ pc = "trace"
    /\ \A i \in DOMAIN call.bundle.trace :
          Declares(call.bundle.trace[i], sample) /\ ~RuntimeRefused(call.bundle.trace[i])
    /\ Staging(MapSeq(LAMBDA r : Correlated(NormalizeRuntime(r)), call.bundle.trace), "dynamic.runtime")
    /\ pc' = "dump"
    /\ UNCHANGED <<dispatched, evidence, bundle, result>>

(* The memory tools are run on each image; one they fail on is left out. *)
StageDumps ==
    /\ pc = "dump"
    /\ Staging(MapSeq(LAMBDA d : NormalizeMemory(d.sections),
                      Filter(call.bundle.dump, LAMBDA d : call.platform /\ d.read)),
               "memory.vol3(image)")
    /\ pc' = "merge"
    /\ UNCHANGED <<dispatched, evidence, bundle, result>>

(* The evidence of the run is the analysis' now.  A subscriber that raises
   on the way, or a record of the run that cannot be written after it, is
   a failure of the run: its bundle is given up, what was merged stays. *)
Merge ==
    /\ pc = "merge"
    /\ \/ bundle' = "kept" /\ Add(staged.items, staged.ran)
       \/ bundle' = "none" /\ AddSome(staged.items)
    /\ staged' = NothingStaged
    /\ pc' = "enrich"
    /\ UNCHANGED <<dispatched, result>>

(* Any exception before the merge: nothing of the run remains. *)
BackendFails ==
    /\ pc \in {"cape", "memory", "trace", "dump"}
    /\ bundle' = "none" /\ staged' = NothingStaged
    /\ pc' = "enrich"
    /\ UNCHANGED <<dispatched, evidence, result>>

-----------------------------------------------------------------------------
Enrich ==
    /\ pc = "enrich"
    /\ IF call.snapshot = None THEN pc' = "conclude" /\ UNCHANGED evidence
       ELSE IF ~call.snapshot.valid THEN pc' = "raised" /\ UNCHANGED evidence
       ELSE \/ pc' = "conclude" /\ Add(EnrichSnapshot(store, call.snapshot), <<>>)
            \/ pc' = "raised" /\ AddSome(EnrichSnapshot(store, call.snapshot))
    /\ UNCHANGED <<dispatched, collected, result>>

Reconstruct ==
    /\ pc = "conclude"
    /\ out' = Conclude(store, sample.raw, isolated)
    /\ pc' = "persist"
    /\ UNCHANGED <<dispatched, evidence, collected, saved, answer>>

PersistRun ==
    /\ pc = "persist"
    /\ saved' = store
    /\ pc' = "done"
    /\ UNCHANGED <<dispatched, evidence, collected, out, answer>>

-----------------------------------------------------------------------------
(* graphrag.py, over the graph rebuilt from the persisted evidence         *)

Mentions(n, word) ==
    \/ word = Label(n)
    \/ Label(n) = "Evidence" /\ word \in {n[2].lane, n[2].tool, n[2].artifact, n[2].operation}
    \/ Label(n) \notin {"Evidence", "Detection"} /\ word = n[2]

(* _retrieve: at most MaxFound nodes *)
Retrieve(graph, q) ==
    LET Found(n) == /\ q.labels # {} => Label(n) \in q.labels
                    /\ q.word # "None" => Mentions(n, q.word)
    IN  Upto(ListOf({n \in graph.nodes : Found(n)}), MaxFound)

(* _context_for: a line names a node and the evidence it rests on, up to
   four for each; the first MaxLines are shown, and what is on them may be
   cited. *)
ContextLines(graph, nodes) ==
    LET Ev(n) == Upto(ListOf({m \in Neighbors(graph, n) : Label(m) = "Evidence"}), 4)
        Line(n, ids) == [of |-> n, cites |-> ids]
        Lines(n) == IF Label(n) = "Evidence" THEN <<Line(n, {n[2]})>>
                    ELSE IF Ev(n) = <<>> THEN <<Line(n, {})>>
                    ELSE MapSeq(LAMBDA e : Line(n, {e[2]}), Ev(n))
    IN  Upto(Flatten(MapSeq(Lines, nodes)), MaxLines)

Citable_AnyFound(graph, nodes, lines) ==                               \* mutant
    {n[2] : n \in {m \in graph.nodes : /\ Label(m) = "Evidence"
                                       /\ \E i \in DOMAIN nodes : m = nodes[i] \/ m \in Neighbors(graph, nodes[i])}}

Citable(graph, nodes, lines) == UNION {lines[i].cites : i \in DOMAIN lines}

NotSupplied == EvidenceItem("none", "provider", "none", "none", Dict, Dict, 0)
Selections == {{NotSupplied}, {}} \union {{id} : id \in Ids(saved)}

Answer(question, cited, may, lines) ==
    LET accepted == IF cited \subseteq may THEN cited ELSE {}
    IN  [question |-> question, citations |-> accepted,
         shown |-> Filter(lines, LAMBDA l : l.cites \intersect accepted # {})]

(* ask: the provider, which is external, selects evidence; the answer is
   the lines of that evidence, or none when it selects any other. *)
Ask ==
    /\ pc = "done"
    /\ \E q \in call.questions :
          LET items == Reload(saved)
              graph == BuildGraph(items, MapEvidence(items))
              nodes == Retrieve(graph, q)
              lines == ContextLines(graph, nodes)
              may   == Citable(graph, nodes, lines)
          IN  \E chosen \in Selections \union {may} : answer' = Answer(q, chosen, may, lines)
    /\ pc' = "answered"
    /\ UNCHANGED <<dispatched, evidence, collected, out, saved>>

(* propose: hypotheses on the first MaxContext items; one that cites
   anything else is dropped. *)
Propose ==
    /\ pc = "done"
    /\ LET items == Upto(Reload(saved), MaxContext)
           lines == MapSeq(LAMBDA it : [of |-> EvidenceNode(Id(it)), cites |-> {Id(it)}], items)
       IN  \E chosen \in Selections \union {Ids(items)} :
              answer' = Answer("hypotheses", chosen, Ids(items), lines)
    /\ pc' = "answered"
    /\ UNCHANGED <<dispatched, evidence, collected, out, saved>>

Next ==
    \/ Triage \/ Dispatch \/ Analyze \/ Collect \/ Decompile
    \/ StartBackend \/ StageCape \/ StageMemory \/ StageTraces \/ StageDumps \/ Merge \/ BackendFails
    \/ Enrich \/ Reconstruct \/ PersistRun
    \/ Ask \/ Propose

Spec == Init /\ [][Next]_vars

-----------------------------------------------------------------------------
(* A technique, a phase, a process or a host is called observed only when
   a report of a run of this very sample was taken, or an image of the
   machine it ran on; all readers of the evidence agree on it. *)
Captured ==
    \/ \E kind \in {"cape", "memory", "trace"} : \E r \in Range(call.bundle[kind]) : r.target = sample.sha256
    \/ call.platform /\ \E d \in Range(call.bundle.dump) : d.read

ObservedOnlyWhenRun ==
    LET seen == \E it \in Range(store) : Runtime(it)
    IN  /\ seen => backend # "none" /\ Captured
        /\ out # None =>
              /\ out.summary.runtime_observed <=> (\E t \in DOMAIN out.map : out.map[t].status = "observed")
              /\ out.summary.runtime_observed <=> (out.coverage.observed_techniques > 0)
              /\ out.summary.runtime_observed => seen
              /\ out.summary.maturity # {"static"} => seen
              /\ out.view.observed <=> seen
              /\ (\E e \in out.timeline : e.phrased = "event") <=> seen
              /\ out.temporal # <<>> => seen

(* Every claim rests on evidence that is in the store: the techniques and
   their lanes, the edges of the graph, the indicators for a sensor, and
   what the live feed has shown. *)
ClaimsAreBacked ==
    /\ {feed[i].id : i \in DOMAIN feed} = Ids(store)
    /\ out # None =>
          /\ \A t \in DOMAIN out.map :
                /\ out.map[t].cites # {} /\ out.map[t].cites \subseteq Ids(store)
                /\ DOMAIN out.why[t].lane_confidence = out.map[t].lanes
                /\ out.map[t].status = "observed" <=> out.map[t].lanes # {"static"}
          /\ \A e \in out.graph.edges : {e.src, e.dst} \subseteq out.graph.nodes
          /\ out.summary.highest_observed <= out.summary.highest_inferred
          /\ \A i \in DOMAIN out.suricata : out.suricata[i].refs # {} /\ out.suricata[i].refs \subseteq Ids(store)

(* The factors that are shown add up to the score that is shown. *)
ScoreIsExplained ==
    out # None =>
        LET f == out.summary.factors
        IN  /\ out.summary.score \in 0..100
            /\ SumFunction(f) = out.summary.score

(* More evidence never weakens a claim: a technique keeps its standing and
   its confidence, however weak what corroborates it. *)
Strengthens(before, after) ==
    \A t \in DOMAIN before :
        /\ t \in DOMAIN after
        /\ before[t].conf <= after[t].conf
        /\ StandingRank(before[t].status) <= StandingRank(after[t].status)
EvidenceOnlyStrengthens ==
    [][store' # store => Strengthens(MapEvidence(store), MapEvidence(store'))]_store

(* A process goes through its tags in an order of its own, so the evidence
   is in no fixed order; what is concluded from it is the same in any, and
   the same once it was written and read again. *)
AnyOrderConcludesTheSame ==
    pc = "done" =>
        LET static  == {it \in Range(store) : it.lane = "static"}
            shuffled == ListOf(static) \o Filter(saved, LAMBDA it : it.lane # "static")
        IN  Conclude(Reload(shuffled), sample.raw, isolated) = out

(* A rule that ships matches no clean document, in either encoding. *)
CleanRuleShips ==
    out # None =>
        \A rule \in out.yara, doc \in Corpus :
            LET Hit(tok) == <<tok, "raw">> \in doc \/ (<<tok, "wide">> \in doc /\ ~Has_(tok, "binary"))
            IN  Cardinality({tok \in rule.strings : Hit(tok)}) < rule.condition_min

(* The processes the pool scanner of an accepted memory report finds and
   its process list lacks. *)
ReportRows(r, plugins) == UNION {Range(SectionRows(s)) : s \in {x \in Range(r.sections) : x.plugin \in plugins}}
Pids(rows) == {row.pid : row \in rows}
Unlinked ==
    UNION {Pids(ReportRows(r, {"PsScan"})) \ (Pids(ReportRows(r, {"PsList"})) \union {"None"}) :
              r \in {x \in Range(call.bundle.memory) : Ingested("memory", x, sample, fmt)}}

(* Such a process is told as hidden, whatever else the run has seen. *)
HiddenIsTold ==
    out # None /\ bundle = "kept" => \A p \in Unlinked : \E id \in out.view.hidden : Is(id.object, "pid", p)

(* It is in the process tree only if something else than its being hidden
   says that it was started: a sandbox report, a snapshot, or a row of a
   process list or scan, when the pid has the key of the tree's own. *)
SeenStarting ==
    UNION ({Pids(Range(r.processes)) : r \in Range(call.bundle.cape)}
           \union {Pids(Range(r.after)) : r \in Range(call.bundle.trace)})
NamedStarting ==
    UNION {Pids({row \in ReportRows(r, {"PsList", "PsScan"}) : row.column = "pid"}) :
              r \in Range(call.bundle.memory) \union Range(call.bundle.dump)}
HiddenStaysOutOfTree ==
    out # None /\ bundle = "kept" =>
        Unlinked \intersect out.view.tree.nodes \subseteq SeenStarting \union NamedStarting

(* "The hidden proc is NOT folded into the visible spawn tree"
   (tests/test_dynamic_memory_replay.py:145), as reconstruct/runtime.py:78
   says of itself. *)
HiddenIsNotInTree ==
    out # None /\ bundle = "kept" => Unlinked \intersect out.view.tree.nodes \subseteq SeenStarting

(* "A static-only run must never claim 'observed'" (tests/test_provenance.py:1):
   one without a bundle is labelled static (core/pipeline.py:513). *)
StaticClaimsNothing == out # None /\ bundle # "kept" => ~out.summary.runtime_observed

(* An address that is tied to a function of the sample was executed in the
   sample: nothing that is known of where it is says otherwise, and it is
   inside a function of that name. *)
AddressesMatchTheSample ==
    \A it \in Range(store) : Has(it.details, "address_correlations") =>
        /\ IF "artifact_sha256" \in DOMAIN it.at THEN it.at["artifact_sha256"] = sample.sha256
           ELSE "module" \in DOMAIN it.at => it.at["module"] = sample.name
        /\ \E f \in Range(store) :
              /\ f.lane = "static" /\ Is(f.object, "function", it.details["address_correlations"])
              /\ \/ "rva" \in DOMAIN it.at /\ Covers(f, "rva", it.at["rva"])
                 \/ "module_base" \notin DOMAIN it.at /\ Covers(f, "virtual_address", it.at["instruction_address"])

(* Whatever the provider selects, what is cited is evidence of the run and
   is shown, on a line of its own. *)
CitedIsShown ==
    answer # None =>
        /\ answer.citations \subseteq Ids(store)
        /\ answer.citations = UNION {answer.shown[i].cites : i \in DOMAIN answer.shown}

(* A hidden process is "visible to the pool scanner (psscan) but absent
   from the linked process list (pslist)" (analyzers/memory/vol3.py:125). *)
HiddenIsUnlinked ==
    \A it \in Range(store) : it.tool = "vol3" /\ Has(it.object, "hidden") =>
        \A s \in Range(call.bundle.memory[1].sections) :
            s.plugin = "PsList" => \A row \in Range(s.rows) : ~Is(it.object, "pid", row.pid)
=============================================================================
