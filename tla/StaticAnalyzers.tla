--------------------------- MODULE StaticAnalyzers ---------------------------
(***************************************************************************)
(* The static analyzers of sandworm/analyzers/static, as the evidence each *)
(* gives of a sample.  What reading a file finds (its strings, imports,    *)
(* sections, wrappers, macros ...) is the record "c" an analyzer is given, *)
(* a Blank with the fields its format has; what the analyzer concludes     *)
(* from it is what is modelled.                                            *)
(*                                                                         *)
(* A text is its distinct mentions in order; a mention is [kind, value,    *)
(* host, is, octets] with the traits of its host ("upper", "unknown_tld",  *)
(* "stdlib", "short", "allowed", "library", "undotted", "number").  A      *)
(* needle is a pair of its category and itself.  Of several indicators of  *)
(* one item one is kept.  Names are in lower case.                         *)
(***************************************************************************)
EXTENDS Evidence, FiniteSetsExt, Functions

Blank ==
    [name |-> "sample", mentions |-> <<>>, needles |-> {}, yara |-> <<>>, packed |-> FALSE,
     headers |-> FALSE, imports |-> <<>>, capa |-> <<>>, sections |-> <<>>,
     overlay |-> "none", forged |-> FALSE, dotnet |-> FALSE,
     symbols |-> {}, segments |-> <<>>, upx |-> FALSE, bare |-> FALSE,
     encoded |-> <<>>, packer |-> "None", recovered |-> <<>>,
     functions |-> <<>>, edges |-> <<>>, gosymbols |-> <<>>, gofails |-> FALSE,
     wrappers |-> <<>>, calls |-> {}, inputs |-> {}, lang |-> "shell", encodings |-> <<>>,
     macros |-> <<>>, arguments |-> "None", interpreter |-> "None", markers |-> {},
     members |-> <<>>, loads |-> <<>>, volumes |-> <<>>]

(* the rules of common.py's built-in set, with the confidence of each *)
YaraConf == [webshell_eval_base64 |-> 70, powershell_encoded |-> 65,
             reverse_shell_sh |-> 75, download_exec |-> 50]

IsContent(c) ==
    /\ \A found \in {"mentions", "yara", "imports", "capa", "sections", "segments", "encoded", "recovered", "functions",
                     "edges", "gosymbols", "wrappers", "encodings", "macros", "members", "loads", "volumes"} :
          IsList(c[found])
    /\ \A e \in Range(c.encoded) \union Range(c.recovered) : IsList(e.mentions)
    /\ \A m \in Range(c.members) : IsList(m.mentions) /\ IsFiniteSet(m.apis)
    /\ \A m \in Range(c.macros) : IsList(m.encodings)
    /\ \A f \in Range(c.functions) : f.size \in Nat
    /\ IsFiniteSet(c.needles) /\ Range(c.yara) \subseteq DOMAIN YaraConf
IsDocument(d) == IsList(d.functions) /\ \A f \in Range(d.functions) : f.size \in Nat \union {NoAddr}

Static(tool, artifact, operation, object, details, conf) ==
    By(EvidenceItem("static", tool, artifact, operation, object, details, conf), "analyzer" :> tool)

-----------------------------------------------------------------------------
(* common.py *)

IocKinds == <<"url", "domain", "ipv4", "email", "md5", "sha256">>
IocConf  == [url |-> 70, domain |-> 45, ipv4 |-> 60, email |-> 60, md5 |-> 40, sha256 |-> 50]
IocRisk  == [url |-> "low", domain |-> "high", ipv4 |-> "medium",
             email |-> "medium", md5 |-> "high", sha256 |-> "medium"]
HostKinds == {"url", "domain", "ipv4"}

ClassifyDomain(is) ==
    IF is \intersect {"upper", "unknown_tld", "stdlib", "short", "allowed"} # {} THEN "drop"
    ELSE IF "library" \in is THEN "library" ELSE "ioc"

ValidUrl(is) == \/ "number" \in is
                \/ "undotted" \notin is /\ ClassifyDomain(is) # "drop"

(* _is_routable_ipv4 *)
Routable(o) ==
    /\ <<o[2], o[3], o[4]>> \notin {<<0, 0, 0>>, <<255, 255, 255>>}
    /\ <<o[1], o[2]>> \notin {<<1, 2>>, <<1, 3>>, <<2, 5>>, <<2, 16>>, <<169, 254>>, <<192, 168>>}
    /\ o[1] \notin {0, 10, 127} /\ o[1] < 224
    /\ ~(o[1] = 172 /\ 16 <= o[2] /\ o[2] <= 31)

(* extract_iocs_classified: the category of each mention; a domain that is
   the host of a URL is covered by the URL. *)
Category(m, text) ==
    CASE m.kind = "url"    -> IF ValidUrl(m.is) THEN "ioc" ELSE "drop"
      [] m.kind = "domain" -> IF \E i \in DOMAIN text : /\ text[i].kind = "url" /\ ValidUrl(text[i].is)
                                                        /\ text[i].host = m.host
                              THEN "drop" ELSE ClassifyDomain(m.is)
      [] m.kind = "ipv4"   -> IF Routable(m.octets) THEN "ioc" ELSE "drop"
      [] OTHER             -> "ioc"

ExtractIocs(text, category) ==
    Flatten(MapSeq(LAMBDA k : Filter(text, LAMBDA m : m.kind = k /\ Category(m, text) = category),
                      IocKinds))

(* An indicator, with what more is said of it and its confidence. *)
IocItem(tool, m, more, conf) ==
    Static(tool, IF m.kind \in HostKinds THEN "network" ELSE "string", "resolve",
           "kind" :> m.kind @@ "value" :> m.value,
           more @@ "ioc" :> "yes" @@ "false_positive_risk" :> IocRisk[m.kind], conf)

(* ransomware_scan, is_ransomware: one needle of a family is enough, else
   two categories one of which is what only ransomware does. *)
RansomCategories(needles) == {n[1] : n \in needles}
IsRansomware(cats) ==
    \/ "family" \in cats
    \/ Cardinality(cats) >= 2 /\ (\/ cats \intersect {"note", "recovery_inhibit"} # {}
                                  \/ {"extension", "payment"} \subseteq cats)
Indicator(needles) == (CHOOSE n \in needles : TRUE)[2]
RansomItem(tool, needles, more, conf) ==
    LET cats == RansomCategories(needles)
        told == IF "family" \in cats THEN {n \in needles : n[1] = "family"} ELSE needles
    IN  If(IsRansomware(cats),
           Static(tool, "file", "write",
                  "capability" :> "ransomware" @@ Opt("indicators", IF told = {} THEN "None" ELSE Indicator(told)),
                  more, conf))

CommonItems(c) ==
    LET T == "common"
        cats == RansomCategories(c.needles)
        recovery == {n \in c.needles : n[1] = "recovery_inhibit"}
        Capped(n) == IF n > 95 THEN 95 ELSE n
        Library(m) == Static(T, "string", "read", "library_artifact" :> m.value @@ "kind" :> m.kind,
                             "library_artifact" :> "yes", 25)
    IN  <<Static(T, "file", "read", "name" :> c.name, Opt("high_entropy", IF c.packed THEN "yes" ELSE "None"),
                 IF c.packed THEN 60 ELSE 40)>>
        \o MapSeq(LAMBDA m : IocItem(T, m, Dict, IocConf[m.kind]), ExtractIocs(c.mentions, "ioc"))
        \o MapSeq(Library, ExtractIocs(c.mentions, "library"))
        \o (IF recovery = {} THEN <<>>
            ELSE <<Static(T, "process", "exec", "capability" :> "inhibit_recovery"
                          @@ "indicators" :> Indicator(recovery), Dict, 80)>>)
        \o RansomItem(T, c.needles, Dict, Capped(IF "family" \in cats THEN 78 + 5 * Cardinality(cats)
                                                 ELSE 45 + 16 * Cardinality(cats)))
        \o MapSeq(LAMBDA r : Static(T, "string", "read", "yara_rule" :> r, Dict, YaraConf[r]), c.yara)

(* fingerprint.py *)
FingerprintItems(c) ==
    <<Static("fingerprint", "file", "read", "fingerprint" :> "file_minhash", Dict, 50)>>

-----------------------------------------------------------------------------
(* decode.py and unpack.py: an encoded string is [encoding, blob, preview, *)
(* mentions, needles]; what emulation recovers the same but for the blob.  *)

(* What is found in a hidden layer is worth more than in clear. *)
HiddenItems(tool, layer, from) ==
    LET Bumped(k) == IF IocConf[k] + 20 > 95 THEN 95 ELSE IocConf[k] + 20
    IN  MapSeq(LAMBDA m : IocItem(tool, m, "decoded_from" :> from, Bumped(m.kind)),
               ExtractIocs(layer.mentions, "ioc"))
        \o RansomItem(tool, layer.needles, "decoded_from" :> from, 85)

DecodedItems(e) ==
    <<Static("decode", "string", "decode", "function" :> e.encoding @@ "wrapper" :> e.blob,
             "attack_hint" :> "T1140" @@ "encoding" :> e.encoding @@ Opt("decoded_preview", e.preview), 75)>>
    \o HiddenItems("decode", e, e.encoding)
DecodeItems(c) ==
    LET Of(encoding) == Filter(c.encoded, LAMBDA e : e.encoding = encoding)
    IN  Flatten(MapSeq(DecodedItems, Flatten(MapSeq(Of, <<"base64", "hex", "xor">>))))

(* The packed image at the confidence of its detection; beneath it the
   image the stub unpacks, when emulating it wrote code, else pending. *)
Image(tool, layer, function, details, conf) ==
    Static(tool, "module", "decode", "layer" :> layer @@ "function" :> function, details, conf)
RecoveredItems(r, sure) ==
    <<Image("unpack.emulated", "1", "unpacked image (emulated)",
            "attack_hint" :> "T1140" @@ Opt("decoded_preview", r.preview),
            IF (sure * 9) \div 10 > 90 THEN 90 ELSE (sure * 9) \div 10)>>
    \o HiddenItems("unpack.emulated", r, "emulated_unpack")
UnpackItems(c) ==
    LET sure == IF c.packer = "high entropy" THEN 65 ELSE 95
    IN  IF c.packer = "None" THEN <<>>
        ELSE <<Image("unpack", "0", c.packer, "attack_hint" :> "T1027"
                     @@ "decoded_preview" :> "packed/encrypted", sure)>>
             \o (IF c.headers /\ c.recovered # <<>> THEN Flatten(MapSeq(LAMBDA r : RecoveredItems(r, sure), c.recovered))
                 ELSE <<Image("unpack", "1", "unpacked image", "status" :> "requires_emulation"
                              @@ "decoded_preview" :> "requires_emulation", (sure * 7) \div 10)>>)

-----------------------------------------------------------------------------
(* pe.py and elf.py: a section is [name, packed, wx] with whether it is of *)
(* high entropy and both writable and executable; a segment is of a type   *)
(* and likewise.                                                           *)

Suspect(hint, conf, apis) == [a \in apis |-> <<hint, conf>>]
SuspectImports ==
    Suspect("T1055", 60, {"virtualallocex"}) @@ Suspect("T1055", 70, {"writeprocessmemory"})
    @@ Suspect("T1055", 75, {"createremotethread"}) @@ Suspect("T1055.004", 60, {"queueuserapc"})
    @@ Suspect("T1055.012", 70, {"ntunmapviewofsection"}) @@ Suspect("T1055.012", 55, {"setthreadcontext"})
    @@ Suspect("T1056.001", 50, {"setwindowshookex"}) @@ Suspect("T1056.001", 45, {"getasynckeystate"})
    @@ Suspect("T1113", 40, {"bitblt"}) @@ Suspect("T1112", 30, {"regcreatekey"})
    @@ Suspect("T1547.001", 40, {"regsetvalueex"}) @@ Suspect("T1547.001", 30, {"shgetfolderpath"})
    @@ Suspect("T1543.003", 55, {"createservice"}) @@ Suspect("T1543.003", 40, {"openscmanager"})
    @@ Suspect("T1071.001", 40, {"internetopen", "winhttpopen"}) @@ Suspect("T1071.001", 45, {"internetopenurl"})
    @@ Suspect("T1105", 60, {"urldownloadtofile"}) @@ Suspect("T1095", 35, {"wsastartup"})
    @@ Suspect("T1071", 35, {"connect"}) @@ Suspect("T1082", 35, {"getcomputername", "getsysteminfo"})
    @@ Suspect("T1057", 45, {"process32first"}) @@ Suspect("T1016", 40, {"getadaptersinfo"})
    @@ Suspect("T1087", 45, {"netuserenum"}) @@ Suspect("T1622", 45, {"isdebuggerpresent"})
    @@ Suspect("T1622", 50, {"checkremotedebuggerpresent"}) @@ Suspect("T1497", 25, {"gettickcount"})
    @@ Suspect("T1027", 35, {"virtualprotect"}) @@ Suspect("T1003", 60, {"lsaretrieveprivatedata"})
    @@ Suspect("T1555", 50, {"credenumerate"}) @@ Suspect("T1059", 50, {"winexec", "shellexecute"})
    @@ Suspect("T1059", 40, {"createprocess"})

(* _header_findings *)
HeaderFindings(c) ==
    LET T == "pe"
        hint == "attack_hint" :> "T1027"
        Section(s) == Static(T, "module", "read", "section" :> s.name, hint, 70)
    IN  MapSeq(Section, Filter(c.sections, LAMBDA s : s.wx))
        \o If(c.forged, Static(T, "module", "read", "anomaly" :> "compile_timestamp", Dict, 50))
        \o If(c.overlay # "none",
              Static(T, "file", "read", "anomaly" :> "overlay", IF c.overlay = "high" THEN hint ELSE Dict,
                     IF c.overlay = "high" THEN 70 ELSE 45))

PeItems(c) ==
    LET T == "pe"
        Import(a) == Static(T, "api_call", "resolve", "import" :> a,
                            "attack_hint" :> SuspectImports[a][1], SuspectImports[a][2])
        Packed(s) == Static(T, "module", "read", "section" :> s.name, "entropy" :> "high", 60)
        Capa(rule) == Static("pe.capa", "api_call", "resolve", "capability" :> rule, Dict, 80)
    IN  <<Static(T, "module", "read", "format" :> "PE" @@ "name" :> c.name, Dict, 80)>>
        \o If(c.imports # <<>>, Static(T, "module", "read", "imphash" :> "imphash", Dict, 60))
        \o (IF c.headers
            THEN HeaderFindings(c) \o If(c.dotnet, Static(T, "module", "read", "runtime" :> ".NET/CLR", Dict, 70))
                 \o MapSeq(Packed, Filter(c.sections, LAMBDA s : s.packed))
            ELSE <<>>)
        \o MapSeq(Import, Filter(c.imports, LAMBDA a : a \in DOMAIN SuspectImports))
        \o MapSeq(Capa, c.capa)

SuspectSymbols ==
    "ptrace" :> <<"T1622", 60>> @@ "fork" :> <<"T1059", 30>> @@ "execve" :> <<"T1059.004", 50>>
    @@ "system" :> <<"T1059.004", 60>> @@ "socket" :> <<"T1071", 35>> @@ "connect" :> <<"T1071", 40>>
    @@ "inotify_add_watch" :> <<"T1083", 30>> @@ "setuid" :> <<"T1548", 40>>

SegmentItems(s) ==
    LET Found(name, conf) == Static("elf", "module", "read", "segment" :> name, "attack_hint" :> "T1027", conf)
    IN  If(s.type = "load" /\ s.wx, Found("PT_LOAD", 65)) \o If(s.type = "stack" /\ s.wx, Found("PT_GNU_STACK", 55))
ElfItems(c) ==
    LET T == "elf"
        Symbol(s) == Static(T, "api_call", "resolve", "symbol" :> s,
                            "attack_hint" :> SuspectSymbols[s][1], SuspectSymbols[s][2])
    IN  <<Static(T, "module", "read", "format" :> "ELF" @@ "name" :> c.name, Dict, 80)>>
        \o (IF c.headers
            THEN Flatten(MapSeq(SegmentItems, c.segments))
                 \o If(c.bare, Static(T, "module", "read", "anomaly" :> "static_stripped", Dict, 45))
            ELSE <<>>)
        \o If(c.upx, Static(T, "module", "decode", "function" :> "UPX" @@ "layer" :> "0",
                            "attack_hint" :> "T1027" @@ "decoded_preview" :> "packed", 90))
        \o MapSeq(Symbol, ListOf(c.symbols \intersect DOMAIN SuspectSymbols))

(* go_symbols.py: a table that cannot be read is told as an item of no
   confidence. *)
GoSymbolItems(c) ==
    LET T == "go_symbols"
        Function(f) == Located(EvidenceItem("static", T, "function", "resolve", "function" :> f.name, Dict, 80),
                               "virtual_address" :> f.va)
    IN  IF c.gofails THEN <<EvidenceItem("static", T, "module", "read", "format" :> "Go metadata",
                                         "status" :> "unavailable", 0)>>
        ELSE MapSeq(Function, c.gosymbols)

(* disasm.py: what discovery found, functions [name, rva, va, size] and
   edges [caller, callee, at] *)
DisasmItems(c) ==
    LET T == "disasm"
        Function(f) == Located(Static(T, "function", "read", "function" :> f.name, Dict, 90),
                               OptNum("rva", f.rva) @@ ("virtual_address" :> f.va)
                               @@ ("instruction_address" :> f.va) @@ ("size" :> f.size))
        Call(e) == Located(By(Static(T, "call", "call", "function" :> e.callee, Dict, 95), "function" :> e.caller),
                           "instruction_address" :> e.at)
    IN  IF c.functions = <<>> THEN <<>>
        ELSE <<Static(T, "module", "read", "analysis" :> "disassembly", Dict, 95)>>
             \o MapSeq(Function, c.functions) \o MapSeq(Call, c.edges)

(* ghidra.py normalize_decompilation: the entry of a function, by rva when
   it is not below the image's base *)
GhidraItems(document) ==
    LET Function(f) == Located(EvidenceItem("static", "ghidra", "function", "decompile",
                                            "function" :> f.name, Dict, 80),
                               OptNum("rva", IF f.va >= document.base THEN f.va - document.base ELSE NoAddr)
                               @@ ("virtual_address" :> f.va) @@ OptNum("size", f.size))
    IN  MapSeq(Function, document.functions)
=============================================================================
