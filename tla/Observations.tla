---------------------------- MODULE Observations ----------------------------
(***************************************************************************)
(* From the rows of a recorded or collected report to evidence:            *)
(* analyzers/dynamic/windows_cape.py (sandbox report), analyzers/memory/   *)
(* vol3.py (memory report), sandbox/runtime.py with the Linux, PHP and     *)
(* shell traces it dispatches to, analyzers/memory/diffsnap.py, and        *)
(* enrich/canary.py; and reconstruct/correlation.py, which ties runtime    *)
(* addresses to static functions.                                          *)
(*                                                                         *)
(* A row is a record.  "None" stands for a string the report does not      *)
(* give, NoAddr for a number.  Reports are taken as their rows, so the     *)
(* skipping of rows of the wrong type and the parsing of numbers are left  *)
(* out; a module path is its base name; the limits are MaxRows (500 rows   *)
(* of a memory section), MaxApiEvents (50 000) and MaxCorrelations         *)
(* (10 000).                                                               *)
(***************************************************************************)
EXTENDS AttackMap

CONSTANTS MaxRows, MaxApiEvents, MaxCorrelations

ASSUME LimitAssumption == {MaxRows, MaxApiEvents, MaxCorrelations} \subseteq Nat \ {0}

(* Of a report: its rows are lists. *)
IsCape(r) ==
    /\ \A rows \in {"processes", "api_calls", "apistats", "hosts", "dropped", "regkeys"} : IsList(r[rows])
    /\ \A p \in Range(r.processes) : IsList(p.calls)
IsMemory(sections) ==
    /\ IsList(sections)
    /\ \A s \in Range(sections) : /\ IsList(s.rows)
                                 /\ \A row \in Range(s.rows) : row.column \in {"PID", "pid"}
IsRuntime(r) ==
    /\ \A rows \in {"traces", "cpu", "before", "after", "canaries"} : IsList(r[rows])
    /\ \A trace \in Range(r.traces) : IsList(trace.lines)

-----------------------------------------------------------------------------
(* windows_cape.py.  A report is [target, names, processes, api_calls,     *)
(* apistats, hosts, dropped, regkeys]: target is the digest it declares    *)
(* and names the base names of the target file.                            *)

Cape(artifact, operation, object, details, conf) ==
    EvidenceItem("dynamic", "windows.cape", artifact, operation, object, details, conf)

(* _module_base: what the call says comes before what the process says *)
ModuleBase(call, proc) == IF call.base # NoAddr THEN call.base ELSE proc.base

(* _call_location *)
CallLocation(report, call, proc) ==
    LET base   == ModuleBase(call, proc)
        module == IF call.module # "None" THEN call.module ELSE proc.name
        hash   == IF call.module_sha256 # "None" THEN call.module_sha256
                  ELSE IF call.is_target_module \/ module \in report.names THEN report.target ELSE "None"
    IN  IF call.caller = NoAddr THEN Dict
        ELSE OptNum("rva", IF base # NoAddr /\ call.caller >= base THEN call.caller - base ELSE NoAddr)
             @@ ("virtual_address" :> call.caller) @@ ("instruction_address" :> call.caller)
             @@ OptNum("module_base", base)
             @@ Opt("module", module) @@ Opt("pid", proc.pid) @@ Opt("artifact_sha256", hash)

NoProcess == [pid |-> "None", ppid |-> "None", name |-> "None", parent_name |-> "None",
              base |-> NoAddr, t |-> NoTime, calls |-> <<>>]

ProcessItems(report) ==
    LET named == {i \in DOMAIN report.processes : report.processes[i].name # "None"}
        NameOf(pid) == LET of == {i \in named : report.processes[i].pid = pid /\ pid # "None"}
                       IN  IF of = {} THEN "None" ELSE report.processes[Max(of)].name
        Spawn(proc) ==
            LET parent == IF proc.parent_name # "None" THEN proc.parent_name ELSE NameOf(proc.ppid)
                at == IF proc.base = NoAddr THEN Dict
                      ELSE ("virtual_address" :> proc.base) @@ ("module_base" :> proc.base)
                           @@ Opt("module", proc.name) @@ Opt("pid", proc.pid)
                           @@ Opt("artifact_sha256",
                                  IF proc.name \in report.names THEN report.target ELSE "None")
            IN  Located(When(By(Cape("process", "spawn",
                                   Opt("pid", proc.pid) @@ Opt("name", proc.name), Dict, 90),
                              Opt("pid", proc.ppid) @@ Opt("name", parent)), proc.t), at)
    IN  MapSeq(Spawn, report.processes)

(* The structured calls of the report, else those of each process, else
   the bare list of names. *)
ApiEvents(report) ==
    LET Flat(calls) == MapSeq(LAMBDA c : [call |-> c, proc |-> NoProcess], calls)
        OfProc(p)   == MapSeq(LAMBDA c : [call |-> c, proc |-> p], p.calls)
        nested      == Flatten(MapSeq(OfProc, report.processes))
        Named(api)  == [api |-> api, caller |-> NoAddr, base |-> NoAddr, module |-> "None",
                        module_sha256 |-> "None", is_target_module |-> FALSE, t |-> NoTime]
    IN  Upto(FirstCase(<< <<report.api_calls # <<>>, Flat(report.api_calls)>>,
                          <<nested # <<>>, nested>> >>, Flat(MapSeq(Named, report.apistats))),
             MaxApiEvents)

ApiItems(report) ==
    LET Item(e) == Located(When(By(Cape("api_call", "exec", "api" :> e.call.api, Dict, 70),
                                 Opt("pid", e.proc.pid) @@ Opt("name", e.proc.name)
                                 @@ ("analyzer" :> "windows.cape")), e.call.t),
                         CallLocation(report, e.call, e.proc))
    IN  MapSeq(Item, Filter(ApiEvents(report), LAMBDA e : e.call.api # "None"))

NormalizeCape(report) ==
    LET Bare(it) == By(it, "analyzer" :> "windows.cape")
        Host(h) == When(Bare(Cape("network", "connect",
                            "kind" :> "domain" @@ "value" :> h.host @@ "host" :> h.host,
                            "ioc" :> "yes", 85)), h.t)
        File(f) == When(Bare(Cape("file", "create", Opt("path", f.name), Dict, 80)), f.t)
        Key(k)  == When(Bare(Cape("registry", "write", Opt("key", k.key), Dict, 75)), k.t)
    IN  ProcessItems(report) \o ApiItems(report) \o MapSeq(Host, report.hosts)
        \o MapSeq(File, report.dropped) \o MapSeq(Key, report.regkeys)

-----------------------------------------------------------------------------
(* vol3.py.  A memory report is a sequence of sections [plugin, rows]; a   *)
(* row is [column, pid, ppid, name, fn, kind, value, foreign, address,     *)
(* base, module], column being the one its pid is in.                      *)

Vol3(artifact, operation, object, details, conf) ==
    EvidenceItem("memory", "vol3", artifact, operation, object, details, conf)

PluginMap(plugin) ==
    CASE plugin \in {"PsList", "PsScan"}         -> <<"process", "spawn", "None">>
      [] plugin = "Malfind"                      -> <<"process", "inject", "T1055">>
      [] plugin = "NetScan"                      -> <<"network", "connect", "None">>
      [] plugin = "CmdLine"                      -> <<"process", "exec", "None">>
      [] plugin = "linux.Malfind"                -> <<"memory_region", "inject", "T1055">>
      [] OTHER                                   -> <<"process", "read", "None">>

SectionRows(section) == Upto(section.rows, MaxRows)

RowLocation(row, instruction) ==
    OptNum("virtual_address", row.address) @@ OptNum("module_base", row.base)
    @@ OptNum("rva", IF row.address # NoAddr /\ row.base # NoAddr /\ row.address >= row.base
                     THEN row.address - row.base ELSE NoAddr)
    @@ (IF instruction THEN OptNum("instruction_address", row.address) ELSE Dict)
    @@ Opt("module", row.module) @@ Opt("pid", row.pid)

(* The row's own columns are the object of the item. *)
RowItems(section) ==
    LET p == PluginMap(section.plugin)
        Item(row) == Located(By(Vol3(p[1], p[2],
                         Opt(row.column, row.pid) @@ Opt("PPID", row.ppid) @@ Opt("ImageFileName", row.name)
                           @@ Opt("ForeignAddr", row.foreign),
                         ("plugin" :> section.plugin) @@ Opt("attack_hint", p[3]), 80),
                         ("analyzer" :> section.plugin) @@ Opt("pid", row.pid)), RowLocation(row, FALSE))
    IN  MapSeq(Item, SectionRows(section))

CredHookApis == {"lsaaplogonuser", "msvppasswordvalidate", "credread", "credenumerate",
                 "cryptdecrypt", "pwdvalidate", "samiconnect", "lsalogonuser"}

ApiHooks(section) ==
    LET Item(row) == Located(By(Vol3("api_call", "inject",
                         "hooked" :> row.fn @@ "process" :> row.name,
                         "plugin" :> "ApiHooks" @@ "hook" :> "yes"
                           @@ "attack_hint" :> (IF row.fn \in CredHookApis THEN "T1056.004" ELSE "T1055"), 82),
                         "analyzer" :> "windows.apihooks" @@ "process" :> row.name), RowLocation(row, TRUE))
    IN  MapSeq(Item, SectionRows(section))

ExtractedConfig(section) ==
    LET Carved(artifact, operation, object, details, conf, row) ==
            Located(By(Vol3(artifact, operation, object,
                          details @@ "memory_extracted" :> "yes" @@ "plugin" :> "config_extract", conf),
                     "analyzer" :> "memory.config"
                       @@ Opt("pid", IF row.column = "PID" THEN row.pid ELSE "None")), RowLocation(row, FALSE))
        Item(row) ==
            CASE row.kind = "c2"  -> Carved("network", "connect", "kind" :> "url" @@ "value" :> row.value
                                            @@ "host" :> row.value, "ioc" :> "yes", 86, row)
              [] row.kind = "key" -> Carved("string", "decode", "layer" :> "memory"
                                            @@ "key_material" :> row.value, Dict, 80, row)
              [] row.kind = "ransom" -> Carved("file", "write", "capability" :> "ransomware"
                                            @@ "encrypted_count" :> row.value, Dict, 90, row)
    IN  MapSeq(Item, Filter(SectionRows(section), LAMBDA row :
                        row.kind \in {"c2", "key", "ransom"} /\ row.value # "None"))

(* A process the pool scanner finds and the linked list lacks. *)
RowsOf(sections, plugin) ==
    Flatten(MapSeq(SectionRows, Filter(sections, LAMBDA s : s.plugin = plugin)))
PidsOf(rows) == {rows[i].pid : i \in DOMAIN rows} \ {"None"}

HiddenPids_OtherWay(sections) ==                               \* mutant
    PidsOf(RowsOf(sections, "PsList")) \ PidsOf(RowsOf(sections, "PsScan"))

HiddenPids(sections) == PidsOf(RowsOf(sections, "PsScan")) \ PidsOf(RowsOf(sections, "PsList"))

HiddenProcesses(sections) ==
    LET scanned == RowsOf(sections, "PsScan")
        Last1(p) == scanned[Max({i \in DOMAIN scanned : scanned[i].pid = p})]
        Item(p) == Located(By(Vol3("process", "spawn",
                       "pid" :> p @@ "name" :> Last1(p).name @@ "hidden" :> "yes",
                       "plugin" :> "PsScan" @@ "hidden" :> "yes" @@ "attack_hint" :> "T1014", 85),
                       "analyzer" :> "psscan vs pslist" @@ Opt("pid", Last1(p).ppid)), "pid" :> p)
    IN  MapSeq(Item, ListOf(HiddenPids(sections)))

SectionItems(section) ==
    CASE section.plugin = "ApiHooks"       -> ApiHooks(section)
      [] section.plugin = "config_extract" -> ExtractedConfig(section)
      [] section.plugin \notin {"ApiHooks", "config_extract"} -> RowItems(section)
NormalizeMemory(sections) == Flatten(MapSeq(SectionItems, sections)) \o HiddenProcesses(sections)

-----------------------------------------------------------------------------
(* runtime.py.  A report is [traces, cpu, before, after, canaries]; a      *)
(* trace is [kind, lines], a line what it calls and the token it names.    *)

SyscallMap ==
    LET Of(S, facet) == [s \in S |-> facet]
    IN  Of({"open", "openat"}, <<"file", "read">>) @@ Of({"unlink"}, <<"file", "write">>)
        @@ Of({"connect", "socket"}, <<"network", "connect">>)
        @@ Of({"execve", "clone", "fork"}, <<"process", "spawn">>)
        @@ Of({"ptrace"}, <<"process", "inject">>)

NormalizeStrace(lines) ==
    LET Item(l) == By(EvidenceItem("dynamic", "linux", SyscallMap[l.call][1], SyscallMap[l.call][2],
                                   "syscall" :> l.call @@ Opt("args", l.token), Dict, 80),
                      "analyzer" :> "dynamic.linux" @@ "pid" :> "unknown")
    IN  MapSeq(Item, Filter(lines, LAMBDA l : l.call \in DOMAIN SyscallMap))

NormalizePhpTrace(lines) ==
    LET Item(l) == By(EvidenceItem("dynamic", "php", "api_call", "exec", "function" :> l.call,
                                   Opt("args", l.token), 90),
                      "analyzer" :> "dynamic.php" @@ "pid" :> "php")
    IN  MapSeq(Item, Filter(lines, LAMBDA l : l.call # "None"))

NormalizeShellTrace(lines) ==
    LET Item(l) == By(EvidenceItem("dynamic", "script", "process", "spawn",
                                   "command" :> l.call @@ Opt("args", l.token), Dict, 85),
                      "analyzer" :> "dynamic.script" @@ "pid" :> "shell")
    IN  MapSeq(Item, Filter(lines, LAMBDA l : l.call # "None"))

NormalizeTrace(trace) ==
    CASE trace.kind = "linux" -> NormalizeStrace(trace.lines)
      [] trace.kind = "php"   -> NormalizePhpTrace(trace.lines)
      [] trace.kind = "shell" -> NormalizeShellTrace(trace.lines)

(* diffsnap.py: a process, with its name, that was not there before *)
DiffProcesses(before, after) == Filter(after, LAMBDA p : p \notin Range(before))

(* canary.py: the first item that names the token of a canary *)
DetectCanaries(items, canaries) ==
    LET Seeing(c) == {i \in DOMAIN items : c.token \in Range(items[i].object) \union Range(items[i].details)}
        Item(c) == By(EvidenceItem("enrich", "canary", "file", "read", "canary_kind" :> c.kind,
                         "canary_kind" :> c.kind,
                         IF c.kind = "browser_history" THEN 90 ELSE 95), "analyzer" :> "enrich.canary")
    IN  MapSeq(Item, Filter(canaries, LAMBDA c : Seeing(c) # {}))

(* An unknown kind of trace refuses the whole report. *)
RuntimeRefused(report) ==
    \E i \in DOMAIN report.traces : report.traces[i].kind \notin {"linux", "php", "shell"}

NormalizeRuntime(report) ==
    LET Branch(row) == Located(EvidenceItem("dynamic", "cpu_trace", "instruction", "branch",
                                          "target" :> row.target, Dict, 80),
                             "instruction_address" :> row.address @@ Opt("module", row.module))
        New(p) == EvidenceItem("memory", "diffsnap", "process", "spawn",
                               "pid" :> p.pid @@ "name" :> p.name, Dict, 70)
        items == Flatten(MapSeq(NormalizeTrace, report.traces)) \o MapSeq(Branch, report.cpu)
                 \o MapSeq(New, DiffProcesses(report.before, report.after))
    IN  items \o DetectCanaries(Extend(<<>>, items), report.canaries)

-----------------------------------------------------------------------------
(* correlation.py.  A static function is an item whose location has a size *)
(* and an rva, a virtual address or both; a runtime item has at most one   *)
(* location.                                                               *)

IsFunction(it) ==
    /\ it.lane = "static" /\ it.tool \in {"disasm", "ghidra"} /\ it.artifact = "function"
    /\ Has(it.object, "function") /\ "size" \in DOMAIN it.at /\ ("rva" \in DOMAIN it.at \/ "virtual_address" \in DOMAIN it.at)

Span(fn) == fn.at["size"]
Covers(fn, key, address) == key \in DOMAIN fn.at /\ fn.at[key] <= address /\ address < fn.at[key] + Span(fn)

BelongsToSample_ByProcess(it, sample) ==                       \* mutant
    \/ Is(it.at, "artifact_sha256", sample.sha256)
    \/ \E k \in {"name", "process"} : Is(it.subject, k, sample.name)

(* _belongs_to_sample: the digest of the location, else its module, else
   the process or module the event is of. *)
BelongsToSample(it, sample) ==
    FirstCase(<<
        <<"artifact_sha256" \in DOMAIN it.at, Is(it.at, "artifact_sha256", sample.sha256)>>,
        <<"module" \in DOMAIN it.at, Is(it.at, "module", sample.name)>>,
        <<Has(it.details, "module_path"), Is(it.details, "module_path", sample.name)>> >>,
        \/ \E k \in {"name", "process"} : Is(it.subject, k, sample.name)
        \/ Is(it.object, "process", sample.name))

(* _match_function: by rva when there is one; by the preferred address
   only when the base is not known; the smallest function that contains it. *)
MatchingFunctions(store, at) ==
    LET Of(key, address) == {i \in DOMAIN store : IsFunction(store[i])
                                                  /\ Covers(store[i], key, address)}
    IN  FirstCase(<<
            <<"rva" \in DOMAIN at, IF "rva" \in DOMAIN at THEN Of("rva", at["rva"]) ELSE {}>>,
            <<"module_base" \in DOMAIN at, {}>> >>,
            IF "instruction_address" \in DOMAIN at
            THEN Of("virtual_address", at["instruction_address"]) ELSE {})

Matched(store, it, sample) ==
    IF Runtime(it) /\ "instruction_address" \in DOMAIN it.at /\ BelongsToSample(it, sample)
    THEN MatchingFunctions(store, it.at) ELSE {}

(* annotate_runtime_addresses: the items, those that match with the name
   of their function, up to MaxCorrelations of them. *)
Annotate(store, items, sample) ==
    LET hit == [n \in DOMAIN items |-> Matched(store, items[n], sample)]
        Before(n) == Cardinality({k \in 1..(n - 1) : hit[k] # {}})
        Smallest(S) == store[CHOOSE i \in S : \A j \in S : Span(store[i]) <= Span(store[j])]
    IN  [n \in DOMAIN items |->
            IF hit[n] = {} \/ Before(n) >= MaxCorrelations THEN items[n]
            ELSE [items[n] EXCEPT
                    !.details = @ @@ ("address_correlations" :> Smallest(hit[n]).object["function"])]]
=============================================================================
