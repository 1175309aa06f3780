----------------------------- MODULE MCAnalysis -----------------------------
(* A call for every format and analyzer, every kind of report and every    *)
(* way to fail, small enough to be gone through in all orders.             *)
EXTENDS Analysis

M(kind, value, host, is) == [kind |-> kind, value |-> value, host |-> host, is |-> is, octets |-> <<8, 8, 4, 4>>]
EvilUrl  == M("url", "http://evil.example/a", "evil.example", {})
EvilHost == M("domain", "evil.example", "evil.example", {})
C2Host   == M("domain", "c2.example", "c2.example", {})
Library  == M("domain", "schemas.example", "schemas.example", {"library"})
Address  == M("ipv4", "8.8.4.4", "None", {})
Private  == [M("ipv4", "192.168.0.1", "None", {}) EXCEPT !.octets = <<192, 168, 0, 1>>]
Mail     == M("email", "a@evil.example", "None", {})

Encoded(encoding, preview, mentions, needles) ==
    [encoding |-> encoding, blob |-> "blob", preview |-> preview, mentions |-> mentions, needles |-> needles]

PeContent == [Blank EXCEPT
    !.name = "s.exe", !.headers = TRUE, !.packed = TRUE, !.forged = TRUE, !.overlay = "high", !.dotnet = TRUE,
    !.imports = <<"virtualallocex", "connect", "isdebuggerpresent", "lsaretrieveprivatedata", "createservice",
                  "getsysteminfo", "bitblt", "other">>,
    !.sections = <<[name |-> ".text", packed |-> TRUE, wx |-> TRUE]>>, !.capa = <<"create process">>,
    !.mentions = <<EvilUrl, EvilHost, C2Host, Library, Address, Private>>,
    !.needles = {<<"family", ".wnry">>, <<"recovery_inhibit", "wmic shadow">>},
    !.encoded = <<Encoded("base64", "eval", <<C2Host>>, {})>>, !.packer = "UPX",
    !.recovered = <<Encoded("none", "system", <<Mail>>, {})>>,
    !.functions = <<[name |-> "main", rva |-> 16, va |-> 4112, size |-> 8],
                    [name |-> "outer", rva |-> 8, va |-> 4104, size |-> 40]>>,
    !.edges = <<[caller |-> "main", callee |-> "outer", at |-> 4113]>>]

PlainPe == [Blank EXCEPT !.name = "s.exe", !.headers = TRUE, !.imports = <<"virtualallocex", "writeprocessmemory">>,
    !.packer = "high entropy", !.functions = PeContent.functions]

ElfContent == [Blank EXCEPT !.name = "e", !.headers = TRUE, !.bare = TRUE, !.upx = TRUE,
    !.segments = <<[type |-> "load", wx |-> TRUE], [type |-> "stack", wx |-> TRUE]>>,
    !.symbols = {"ptrace", "execve", "puts"}, !.gosymbols = <<[name |-> "main.main", va |-> 64]>>,
    !.encoded = <<Encoded("xor", "None", <<>>, {<<"note", "pay">>, <<"payment", "btc">>})>>]

PhpContent == [Blank EXCEPT !.name = "w.php", !.calls = {"eval"}, !.inputs = {"_POST"},
    !.yara = <<"webshell_eval_base64">>,
    !.wrappers = <<[wrapper |-> "eval", chain |-> <<"base64_decode">>, after |-> "system", calls |-> {"system", "fwrite"},
                    inputs |-> {}],
                   [wrapper |-> "inline", chain |-> <<"gzinflate">>, after |-> "eval", calls |-> {"eval"}, inputs |-> {}],
                   [wrapper |-> "eval", chain |-> <<"openssl_decrypt">>, after |-> "None", calls |-> {}, inputs |-> {}]>>]

Script(lang, calls, encodings) == [Blank EXCEPT !.lang = lang, !.calls = calls, !.encodings = encodings]
Code(function, calls) == [function |-> function, after |-> "eval", calls |-> calls]

File(name, signs, content, raw) ==
    [sha256 |-> "digest", name |-> name, signs |-> signs, content |-> content, raw |-> raw]

-----------------------------------------------------------------------------
ApiCall(api, caller, module) == [api |-> api, caller |-> caller, base |-> NoAddr, module |-> module,
                                 module_sha256 |-> "None", is_target_module |-> FALSE, t |-> 3]
Process(pid, ppid, name, base, calls) ==
    [pid |-> pid, ppid |-> ppid, name |-> name, parent_name |-> "None", base |-> base, t |-> 1, calls |-> calls]

CapeOf(target) == [target |-> target, names |-> {"s.exe"},
    processes |-> <<Process("10", "1", "s.exe", 4096,
                        <<ApiCall("createremotethread", 4115, "None"), ApiCall("sleep", 4115, "kernel32.dll"),
                          ApiCall("None", 0, "None")>>),
                    Process("11", "10", "child.exe", NoAddr, <<ApiCall("ptrace", NoAddr, "None")>>)>>,
    api_calls |-> <<>>, apistats |-> <<>>,
    hosts |-> <<[host |-> "c2.example", t |-> 2]>>, dropped |-> <<[name |-> "drop.exe", t |-> 4]>>,
    regkeys |-> <<[key |-> "Run", t |-> 5]>>]
BareCape == [CapeOf("digest") EXCEPT !.processes = <<>>, !.apistats = <<"sleep">>, !.names = {"x.exe"}]
FlatCape == [CapeOf("digest") EXCEPT !.api_calls = <<
    [ApiCall("setwindowshookex", 4120, "renamed.exe") EXCEPT !.is_target_module = TRUE],
    [ApiCall("sleep", 4120, "s.exe") EXCEPT !.module_sha256 = "another"]>>]

Row(pid, name) == [column |-> "PID", pid |-> pid, ppid |-> "4", name |-> name, fn |-> "None", kind |-> "None", value |-> "None", foreign |-> "None",
                   address |-> NoAddr, base |-> NoAddr, module |-> "None"]
Carved(kind, value) == [Row("10", "s.exe") EXCEPT !.kind = kind, !.value = value]
Section(plugin, rows) == [plugin |-> plugin, rows |-> rows]
Sections == <<
    Section("PsList", <<Row("4", "System"), Row("10", "s.exe")>>),
    Section("PsScan", <<Row("10", "s.exe"), Row("4", "System"), Row("66", "hidden.exe")>>),
    Section("Malfind", <<[Row("10", "s.exe") EXCEPT !.address = 4118, !.base = 4096, !.module = "s.exe"]>>),
    Section("NetScan", <<[Row("10", "s.exe") EXCEPT !.foreign = "8.8.4.4"]>>),
    Section("CmdLine", <<Row("10", "s.exe")>>),
    Section("ApiHooks", <<[Row("10", "s.exe") EXCEPT !.fn = "lsalogonuser", !.address = 4112, !.base = 4096]>>),
    Section("config_extract", <<Carved("c2", "http://c2.example/"), Carved("key", "secret"), Carved("ransom", "7"),
                                Carved("other", "x")>>)>>
(* The same process list and scan, under the other column. *)
Lower(rows) == MapSeq(LAMBDA row : [row EXCEPT !.column = "pid"], rows)
LowerMemory == [target |-> "digest", platform |-> "windows",
                sections |-> <<Section("PsList", Lower(Sections[1].rows)), Section("PsScan", Lower(Sections[2].rows)),
                               Section("config_extract", Lower(<<Carved("c2", "http://c2.example/")>>))>>]
MemoryOf(target, platform) == [target |-> target, platform |-> platform, sections |-> Sections]
LinuxMemory == [target |-> "digest", platform |-> "linux", sections |-> <<Section("linux.Malfind", <<Row("7", "e")>>)>>]

Trace(kind, calls) == [kind |-> kind, lines |-> MapSeq(LAMBDA c : [call |-> c, token |-> "/secret"], calls)]
TraceOf(target, traces) == [target |-> target, traces |-> traces,
    cpu |-> <<[address |-> 4116, target |-> "4120", module |-> "s.exe"], [address |-> 4116, target |-> "1", module |-> "libc"]>>,
    before |-> <<[pid |-> "1", name |-> "init"]>>, after |-> <<[pid |-> "1", name |-> "init"], [pid |-> "9", name |-> "cron"]>>,
    canaries |-> <<[kind |-> "aws_key", token |-> "/secret"], [kind |-> "browser_history", token |-> "/other"]>>]
AllTraces == TraceOf("digest", <<Trace("linux", <<"connect", "openat", "execve", "read">>), Trace("php", <<"system">>),
                                Trace("shell", <<"crontab">>)>>)

Reports(mode, verified, cape, memory, trace, dump) ==
    [mode |-> mode, verified |-> verified, cape |-> cape, memory |-> memory, trace |-> trace, dump |-> dump]
NoReports == Reports("replay", FALSE, <<>>, <<>>, <<>>, <<>>)

Plugin(name, handles, isolation, guarded) ==
    [name |-> name, handles |-> handles, isolation |-> isolation, guarded |-> guarded]

Call(file) == [sample |-> file, plugins |-> <<>>, failing |-> {}, recorded |-> FALSE, live |-> FALSE, enable |-> FALSE,
               bundle |-> NoReports, platform |-> FALSE, decompiled |-> None, snapshot |-> None, questions |-> {}]
Replay(file, reports) == [Call(file) EXCEPT !.recorded = TRUE, !.bundle = reports]
Live(file, reports)   == [Call(file) EXCEPT !.live = TRUE, !.enable = TRUE, !.bundle = reports]

Pe    == File("s.exe", {"mz"}, PeContent, {"mutex"})
Small == File("s.exe", {"mz"}, PlainPe, {"mutex", "virtualalloc"})
Elf   == File("e", {"elf"}, ElfContent, {"mutex"})
Php   == File("w.php", {"text", "php"}, PhpContent, {})
Other(signs, content) == File("other", signs, content, {})

Document(target) == [target |-> target, base |-> 4096, functions |-> <<[name |-> "FUN_1", va |-> 4116, size |-> 4],
                                                                       [name |-> "FUN_0", va |-> 64, size |-> 4]>>]
Known == [valid |-> TRUE, stale |-> TRUE, indicators |-> {[kind |-> "domain", value |-> "c2.example", conf |-> 90]}]
Fresh == [Known EXCEPT !.stale = FALSE]

Questions == {[labels |-> {"Technique"}, word |-> "None"], [labels |-> {}, word |-> "network"],
              [labels |-> {"Evidence", "Host"}, word |-> "c2.example"]}

Executions == {
    Replay(Pe, Reports("replay", FALSE, <<CapeOf("digest")>>, <<MemoryOf("digest", "windows")>>, <<AllTraces>>, <<>>)),
    [Replay(Small, Reports("replay", FALSE, <<FlatCape>>, <<MemoryOf("digest", "windows")>>, <<>>, <<>>))
        EXCEPT !.decompiled = Document("digest")],
    Replay(Small, Reports("replay", FALSE, <<CapeOf("None")>>, <<MemoryOf("other", "windows")>>, <<>>, <<>>)),
    Replay(Small, Reports("replay", FALSE, <<BareCape, BareCape>>, <<>>, <<>>, <<>>)),
    Replay(Small, Reports("replay", FALSE, <<>>, <<>>, <<TraceOf("other", <<>>)>>, <<>>)),
    Replay(Small, Reports("replay", FALSE, <<>>, <<>>, <<TraceOf("digest", <<Trace("dtrace", <<>>)>>)>>, <<>>)),
    [Replay(Small, Reports("replay", FALSE, <<>>, <<LowerMemory>>, <<>>, <<>>)) EXCEPT !.questions = Questions],
    [Live(Small, Reports("sandbox", TRUE, <<BareCape>>, <<>>, <<>>, <<[read |-> TRUE, sections |-> Sections],
                 [read |-> FALSE, sections |-> <<>>]>>)) EXCEPT !.platform = TRUE],
    Live(Elf, Reports("sandbox", FALSE, <<CapeOf("digest")>>, <<LinuxMemory>>, <<AllTraces>>, <<>>)),
    [Live(Php, Reports("sandbox", TRUE, <<>>, <<MemoryOf("digest", "windows")>>, <<AllTraces>>, <<>>))
        EXCEPT !.snapshot = Known],
    [Live(Php, NoReports) EXCEPT !.enable = FALSE] }

Failures == {
    [Call(Small) EXCEPT !.live = TRUE, !.recorded = TRUE],
    [Call(Elf) EXCEPT !.failing = {"decode"}, !.plugins = <<Plugin("custom", {"elf"}, FALSE, TRUE),
                                      Plugin("dyn", {"*"}, TRUE, TRUE), Plugin("elf", {"pe"}, FALSE, FALSE)>>],
    [Call(Small) EXCEPT !.failing = {"custom"}, !.plugins = <<Plugin("custom", {"pe"}, FALSE, FALSE)>>],
    [Call(Small) EXCEPT !.decompiled = Document("other")],
    [Call(Pe) EXCEPT !.snapshot = Fresh, !.failing = {"common"}],
    [Call(Php) EXCEPT !.snapshot = [Known EXCEPT !.valid = FALSE]] }

Formats == {
    Call(Pe), [Call(Php) EXCEPT !.questions = Questions],
    Call(Other({}, [Blank EXCEPT !.mentions = <<Mail, M("url", "http://x", "x", {"undotted"})>>])),
    Call(Other({"text", "powershell"}, Script("powershell", {"stealth_flags"},
              <<Code("-encodedcommand", {"invoke-expression", "remote_download"})>>))),
    Call(Other({"text", "shell"}, Script("shell", {"reverse_shell", "cron"}, <<Code("base64 -d", {"download_exec"})>>))),
    Call(Other({"text", "javascript"}, Script("javascript", {"eval"}, <<Code("atob", {})>>))),
    Call(Other({"text", "vbscript"}, Script("vbscript", {"shell_run", "wmi"}, <<Code("chr()", {})>>))),
    Call(Other({"hta", "text"}, Script("hta", {"function_ctor"}, <<>>))),
    Call(Other({"ole"}, [Blank EXCEPT !.macros = <<[calls |-> {"vba shell()", "remote download", "environment probe"},
                                            encodings |-> <<Code("frombase64string", {"invoke-expression"})>>]>>])),
    Call(Other({"pk+ooxml"}, Blank)),
    Call(Other({"lnk"}, [Blank EXCEPT !.interpreter = "powershell", !.arguments = "eval"])),
    Call(Other({"%pdf"}, [Blank EXCEPT !.markers = {"javascript", "auto_action", "uri", "launch"}])),
    Call(Other({"pk+dex"}, [Blank EXCEPT !.members = <<[name |-> "classes.dex", apis |-> {"dexload"},
                                                         mentions |-> <<C2Host>>]>>])),
    Call(Other({"pk+manifest"}, [Blank EXCEPT !.needles = {<<"extension", ".locked">>, <<"payment", "btc">>}])),
    Call(Other({"macho"}, [Blank EXCEPT !.loads = <<[kind |-> "dylib", name |-> "lib"]>>])),
    Call(Other({"volumes"}, [Blank EXCEPT !.volumes = <<"guid">>])),
    Call(Other({"elf"}, [ElfContent EXCEPT !.gofails = TRUE, !.headers = FALSE])) }

MCCalls == Executions \union Failures \union Formats

(* One clean document names two of the indicators in UTF-16, one in ASCII. *)
MCCorpus == {{<<"eval", "wide">>, <<"c2.example", "wide">>, <<"system", "wide">>, <<"ptrace", "raw">>},
             {<<"http://evil.example/a", "raw">>, <<"mutex", "wide">>, <<"schemas.example", "raw">>}}
MCTraits == "http://evil.example/a" :> {"embedded", "long"} @@ "c2.example" :> {"embedded"}
            @@ "virtualalloc" :> {"generic"} @@ "packed" :> {"stop"} @@ "mutex" :> {"long"}
            @@ "drop.exe" :> {"module"} @@ "secret" :> {"binary"} @@ "requires_emulation" :> {"stop"}
MCHostOf == "http://evil.example/a" :> <<"dns", "evil.example">> @@ "evil.example" :> <<"dns", "evil.example">>
            @@ "c2.example" :> <<"dns", "c2.example">> @@ "http://c2.example/" :> <<"dns", "c2.example">>
            @@ "8.8.4.4" :> <<"ip", "8.8.4.4">>
=============================================================================
