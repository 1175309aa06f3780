--------------------------- MODULE ScriptAnalyzers ---------------------------
(***************************************************************************)
(* The static analyzers of code and documents: php.py, script.py,          *)
(* office.py, lnk.py, pdf.py, containers.py, macho.py and firmware.py.     *)
(*                                                                         *)
(* A piece of code is what it calls and the inputs it reads, with the      *)
(* wrappers around its payload: a wrapper is [wrapper, chain, after,       *)
(* calls, inputs], the functions it is decoded with, and what decoding it  *)
(* yields.  An encoding of a script is [function, after, calls].  The      *)
(* parser and evaluator of PHP expressions is represented by whether every *)
(* function of the chain is one it knows.                                  *)
(***************************************************************************)
EXTENDS StaticAnalyzers

CONSTANT MaxDepth      \* deobfuscate's max_depth, 24

ASSUME DepthAssumption == MaxDepth \in Nat \ {0}

(* php.py *)
CommandSinks == [system |-> 90, exec |-> 90, passthru |-> 90, shell_exec |-> 92,
                 proc_open |-> 88, popen |-> 85, pcntl_exec |-> 90]
CodeSinks == [eval |-> 85, assert |-> 80, create_function |-> 80,
              call_user_func |-> 60, call_user_func_array |-> 60]
FileSinks == [file_put_contents |-> 60, fwrite |-> 50, fputs |-> 50, move_uploaded_file |-> 70]
OtherSinks == "preg_replace/e" :> 85 @@ "variable_function" :> 55
PhpSinks == CommandSinks @@ CodeSinks @@ FileSinks @@ OtherSinks

(* _apply: the functions the evaluator decodes with *)
Decoders == {"base64_decode", "gzinflate", "gzuncompress", "gzdecode", "str_rot13", "strrev",
             "urldecode", "rawurldecode", "hex2bin", "chr", "pack", "stripslashes", "trim"}
Resolves(w) == Range(w.chain) \subseteq Decoders

(* deobfuscate: layers are peeled until one cannot be resolved, and at most
   MaxDepth of them.  What an eval decodes replaces all the code around it;
   what an inline call decodes is put in its place. *)
Peeled(wrappers) ==
    LET stops == {i \in DOMAIN wrappers : ~Resolves(wrappers[i])}
    IN  SubSeq(wrappers, 1, Min(stops \union {MaxDepth + 1, Len(wrappers) + 1}) - 1)

Unwrapped(w)    == w.wrapper \in {"eval", "assert"}
FinalPayload(c) ==
    Lib!FoldLeft(LAMBDA code, w : IF Unwrapped(w) THEN [calls |-> w.calls, inputs |-> w.inputs]
                              ELSE [calls |-> code.calls \union w.calls, inputs |-> code.inputs \union w.inputs],
             [calls |-> c.calls, inputs |-> c.inputs], Peeled(c.wrappers))

(* The original and the final payload are looked through for sinks and
   inputs, the layers between them are not.  A web shell is a command or
   code sink with obfuscation or an input that can be controlled. *)
PhpItems(c) ==
    LET T      == "php"
        layers == Peeled(c.wrappers)
        final  == FinalPayload(c)
        sinks  == c.calls \union final.calls
        inputs == c.inputs \union final.inputs
        Layer(i) == Static(T, "string", "decode", "layer" :> Lib!ToString(i - 1)
                           @@ "function" :> layers[i].wrapper, Opt("decoded_preview", layers[i].after), 95)
        Category1(s) == FirstCase(<< <<s \in DOMAIN CommandSinks, "command_exec">>,
                                     <<s \in DOMAIN FileSinks, "file_write">> >>, "code_exec")
        Sink(s) == Static(T, "api_call", "exec", "sink" :> s @@ "category" :> Category1(s), Dict, PhpSinks[s])
        exec == sinks \intersect (DOMAIN CommandSinks \union DOMAIN CodeSinks)
    IN  [i \in DOMAIN layers |-> Layer(i)]
        \o If(layers # <<>>, Static(T, "string", "decode", "artifact" :> "deobfuscated_payload", Dict, 90))
        \o MapSeq(Sink, ListOf(sinks \intersect DOMAIN PhpSinks))
        \o If(inputs # {}, Static(T, "string", "read", "superglobals" :> "yes", Dict, 70))
        \o If(exec # {} /\ (layers # <<>> \/ inputs # {}),
              Static(T, "file", "exec", "verdict" :> "php_webshell", Dict, IF layers # <<>> THEN 85 ELSE 80))

-----------------------------------------------------------------------------
(* script.py: the sinks of a language, with their category and confidence  *)

Vbscript ==
    "wscript_shell" :> <<"process", 80>> @@ "shell_application" :> <<"process", 75>>
    @@ "shell_run" :> <<"code_exec", 80>> @@ "eval" :> <<"code_exec", 80>>
    @@ "wmi" :> <<"discovery", 60>> @@ "remote_download" :> <<"network", 75>>
    @@ "adodb_stream_write" :> <<"file", 60>> @@ "powershell_spawn" :> <<"process", 70>>
Javascript ==
    "eval" :> <<"code_exec", 80>> @@ "wscript_shell" :> <<"process", 80>> @@ "function_ctor" :> <<"code_exec", 70>>

ScriptSinks(lang) ==
    CASE lang = "powershell" -> "invoke-expression" :> <<"code_exec", 85>> @@ "remote_download" :> <<"network", 70>>
                                @@ "start-process" :> <<"process", 60>> @@ "stealth_flags" :> <<"evasion", 50>>
      [] lang = "javascript" -> Javascript
      [] lang = "shell"      -> "reverse_shell" :> <<"network", 85>> @@ "download_exec" :> <<"code_exec", 80>>
                                @@ "netcat" :> <<"network", 60>> @@ "make_executable" :> <<"file", 50>>
                                @@ "cron" :> <<"persistence", 70>>
      [] lang = "vbscript"   -> Vbscript
      [] lang = "hta"        -> Javascript @@ Vbscript
      [] OTHER               -> Dict

(* deobfuscate_powershell, _js, _vbscript, _shell: the encodings each finds *)
PowershellCodes == <<"-encodedcommand", "frombase64string">>
JsCodes         == <<"unescape", "atob", "fromcharcode">>
VbscriptCodes   == <<"chr()", "-encodedcommand">>
ShellCodes      == <<"base64 -d", "echo|base64">>
CodesOf(lang) ==
    CASE lang = "powershell" -> PowershellCodes
      [] lang = "javascript" -> JsCodes
      [] lang = "vbscript"   -> VbscriptCodes
      [] lang = "hta"        -> VbscriptCodes \o JsCodes \o PowershellCodes
      [] OTHER               -> ShellCodes

(* analyze_code *)
ScriptItems(lang, calls, encodings) ==
    LET Of(f)   == Filter(encodings, LAMBDA e : e.function = f)
        layers  == Flatten(MapSeq(Of, CodesOf(lang)))
        sinks   == ScriptSinks(lang)
        scanned == calls \union UNION {layers[i].calls : i \in DOMAIN layers}
        Layer(i) == Static(lang, "string", "decode", "layer" :> Lib!ToString(i - 1) @@ "function" :> layers[i].function,
                           Opt("decoded_preview", layers[i].after), 90)
        Sink(s) == LET cat == sinks[s][1]
                   IN  Static(lang, FirstCase(<< <<cat \in {"code_exec", "process"}, "api_call">>,
                                                 <<cat = "network", "network">> >>, "string"),
                              FirstCase(<< <<cat \in {"code_exec", "process"}, "exec">>,
                                           <<cat = "network", "connect">> >>, "read"),
                              "sink" :> s @@ "category" :> cat, Dict, sinks[s][2])
    IN  [i \in DOMAIN layers |-> Layer(i)] \o MapSeq(Sink, ListOf(scanned \intersect DOMAIN sinks))

(* office.py: each macro is also read as a PowerShell script. *)
VbaSinks ==
    "vba shell()" :> <<"process", 85>> @@ "createobject" :> <<"process", 70>>
    @@ "auto-exec macro" :> <<"execution", 80>> @@ "remote download" :> <<"network", 70>>
    @@ "wscript run" :> <<"process", 70>> @@ "environment probe" :> <<"discovery", 40>>

MacroItems(macro, index) ==
    LET Sink(s) == LET cat == VbaSinks[s][1]
                   IN  Static("office", "macro",
                              FirstCase(<< <<cat \in {"process", "execution"}, "exec">>,
                                           <<cat = "network", "connect">> >>, "read"),
                              "sink" :> s @@ "category" :> cat, "macro_index" :> index, VbaSinks[s][2])
    IN  <<Static("office", "macro", "read", "macro_index" :> index, Dict, 70)>>
        \o MapSeq(Sink, ListOf(macro.calls \intersect DOMAIN VbaSinks))
        \o ScriptItems("powershell", macro.calls, macro.encodings)
OfficeItems(c) ==
    IF c.macros = <<>> THEN <<Static("office", "macro", "read", "name" :> c.name, Dict, 30)>>
    ELSE Flatten([i \in DOMAIN c.macros |-> MacroItems(c.macros[i], Lib!ToString(i - 1))])

(* lnk.py *)
LnkItems(c) ==
    <<Static("lnk", "file", "read", "format" :> "LNK" @@ "name" :> c.name, Dict, 80)>>
    \o If(c.interpreter # "None",
          Static("lnk", "process", "exec", "sink" :> "shell_run" @@ "interpreter" :> c.interpreter
                 @@ Opt("command", c.arguments), "attack_hint" :> "T1059", 85))

(* pdf.py: what a marker is called, its hint and confidence.  JavaScript
   that also fires on its own is told as a finding of its own. *)
PdfMarkers ==
    "auto_action" :> <<"T1204.002", 50>> @@ "additional_actions" :> <<"T1204.002", 50>>
    @@ "javascript" :> <<"T1059.007", 60>> @@ "launch" :> <<"T1059", 80>>
    @@ "embedded_file" :> <<"T1027.001", 60>> @@ "uri" :> <<"None", 30>>

PdfItems(c) ==
    LET auto == {"auto_action", "additional_actions"}
        run  == {"javascript", "launch"}
        Marker(m) == Static("pdf", IF m \in run THEN "api_call" ELSE "file",
                            IF m \in run \union auto THEN "exec" ELSE "read",
                            "sink" :> m, Opt("attack_hint", PdfMarkers[m][1]), PdfMarkers[m][2])
    IN  <<Static("pdf", "file", "read", "format" :> "PDF" @@ "name" :> c.name, Dict, 70)>>
        \o MapSeq(Marker, ListOf(c.markers \intersect DOMAIN PdfMarkers))
        \o If("javascript" \in c.markers /\ c.markers \intersect auto # {},
              Static("pdf", "process", "exec", "capability" :> "auto_execute_javascript",
                     "attack_hint" :> "T1059.007", 75))

(* containers.py: a member is [name, apis, mentions]; an indicator in it
   is a string, not the network item it is elsewhere. *)
MemberItems(m) ==
    LET Found(artifact, operation, object, details, conf) ==
            EvidenceItem("static", "container", artifact, operation, object, details, conf)
    IN  <<Found("file", "inspect", "member" :> m.name, Dict, 95)>>
        \o MapSeq(LAMBDA a : Found("api_call", "reference", "api" :> a @@ "member" :> m.name, Dict, 50),
                  ListOf(m.apis))
        \o MapSeq(LAMBDA i : Found("string", "read", "kind" :> i.kind @@ "value" :> i.value,
                                   "ioc" :> "yes" @@ "false_positive_risk" :> IocRisk[i.kind]
                                     @@ "member" :> m.name, IocConf[i.kind]),
                  ExtractIocs(m.mentions, "ioc"))
ContainerItems(c) == Flatten(MapSeq(MemberItems, c.members))

(* macho.py, firmware.py: an item for each load command, for each volume *)
MachoItems(c) ==
    MapSeq(LAMBDA row : EvidenceItem("static", "macho", row.kind, "inspect",
                                     "kind" :> row.kind @@ Opt("name", row.name), Dict, 90), c.loads)
FirmwareItems(c) ==
    MapSeq(LAMBDA guid : EvidenceItem("static", "firmware", "firmware_volume", "inspect",
                                      "filesystem_guid" :> guid, Dict, 90), c.volumes)
=============================================================================
